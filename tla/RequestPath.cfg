\* Three calls with one key, two connections, two faults, one change of the cookies.
SPECIFICATION FairPathSpec
CONSTANTS
  first = first
  again = again
  other = other
  key = key
  content = content
  content2 = content2
  Calls = {first, again, other}
  Keys = {key}
  Contents = {content, content2}
  asked <- MCAsked
  MaxFaults = 2
  PoolSize = 2
  MaxTokens = 2
INVARIANTS
  EffectsFollowTheRecord
  SuccessIsTheRecord
  RefusedOnlyForADifference
  FirmErrorsAreFinal
PROPERTIES
  EveryCallIsAnswered
  EveryExecutionEnds
\* All calls may have been answered.
CHECK_DEADLOCK FALSE
