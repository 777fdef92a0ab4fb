\* Three attempts of one job in one worker; the loop is fair, the work is not.
SPECIFICATION FairSpec
CONSTANT MaxAttempts = 3
INVARIANTS
  NoTaskLeftBehind
  SuccessHasItsLease
  RetryHasACause
PROPERTY LostLeaseEndsTheAttempt
\* A settled job stops.
CHECK_DEADLOCK FALSE
