\* Two calls, two faults; fairness.
SPECIFICATION FairSpec
CONSTANTS
  Calls = {c1, c2}
  a = a
  b = b
  c = c
  Types <- MCTypes
  Keys <- MCKeys
  Meanings = {m1, m2}
  EventNames = {e1, e2}
  MaxFaults = 2
INVARIANTS
  AnsweredByItsOwnJob
  RefusedOnlyForADifference
  OneEventPerJob
  PublishedIsCommitted
PROPERTY EveryCallEnds
CHECK_DEADLOCK FALSE
