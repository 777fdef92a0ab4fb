\* An owner action masked by a renewal that breaks at the same time.
SPECIFICATION Spec
CONSTANT MaxAttempts = 3
INVARIANT OwnerActionNeverRetried
CHECK_DEADLOCK FALSE
