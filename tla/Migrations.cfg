\* Four releases, two deaths; fairness.
SPECIFICATION FairSpec
CONSTANTS
  old = old
  new = new
  edited = edited
  broken = broken
  frozen = frozen
  second = second
  edit = edit
  invalid = invalid
  third = third
  later = later
  Runners = {old, new, edited, broken}
  Checksums = {frozen, second, edit, third, later, invalid}
  Repository <- MCRepository
  Invalid = {frozen, invalid}
  Frozen = frozen
  None = None
  MaxFaults = 2
INVARIANTS
  ExecutedOnceInOrder
  SuccessMeansCurrent
PROPERTIES
  AppliedOnItsOwnPast
  LockIsGivenBack
CHECK_DEADLOCK FALSE
