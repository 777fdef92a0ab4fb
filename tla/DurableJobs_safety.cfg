\* One job, two workers, two reconcilers: two attempts, three faults.
SPECIFICATION Spec
CONSTANTS
  Jobs = {j1}
  Workers = {w1, w2}
  Reconcilers = {r1, r2}
  None = None
  MaxAttempts = 2
  MaxMessages = 1
  MaxFaults = 3
SYMMETRY ProcessSymmetry
INVARIANTS
  TypeOK
  FencedByLock
  LeaseIffRunning
  EventsReplayTheRow
PROPERTIES
  OnlyTheHolderCloses
  OnlyTheLeaderWrites
  ImplementsLifecycle
