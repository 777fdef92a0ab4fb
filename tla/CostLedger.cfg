\* Three calls on one key, one fault; fairness.
SPECIFICATION FairSpec
CONSTANTS
  Calls = {c1, c2, c3}
  Keys = {k1}
  m1 = m1
  m2 = m2
  m3 = m3
  Meanings <- MCMeanings
  Subject <- MCSubject
  MaxFaults = 1
INVARIANTS
  AnsweredByItsOwnRow
  RefusedOnlyForADifference
  OneAuditRecordEach
PROPERTIES
  HistoryIsImmutable
  EveryCallEnds
CHECK_DEADLOCK FALSE
