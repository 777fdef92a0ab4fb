\* One job, two workers, two faults; fairness.
SPECIFICATION FairSpec
CONSTANTS
  Jobs = {j1}
  Workers = {w1, w2}
  Reconcilers = {r1}
  None = None
  MaxAttempts = 2
  MaxMessages = 1
  MaxFaults = 2
PROPERTIES
  EveryJobSettles
