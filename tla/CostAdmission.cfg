\* Thresholds of 4, 6 and 8 micro-dollars; every tenth up to two above the cap.
SPECIFICATION Spec
CONSTANTS
  OptionalPause = 4
  ReserveMode = 6
  HardCap = 8
  Exposures <- MCExposures
  Costs <- MCCosts
INVARIANTS
  CapHolds
  PaidWorkIsApproved
  StateNeverLags
