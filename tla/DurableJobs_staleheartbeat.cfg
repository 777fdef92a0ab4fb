\* A worker that lost its session renews its successor's lease.
SPECIFICATION Spec
CONSTANTS
  Jobs = {j1}
  Workers = {w1, w2}
  Reconcilers = {r1}
  None = None
  MaxAttempts = 2
  MaxMessages = 1
  MaxFaults = 2
PROPERTIES
  StaleHeartbeatRejected
