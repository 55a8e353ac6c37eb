SPECIFICATION FairSpec
CONSTANTS
  Requests = {q1, q2}
  MaxClicks = 4
INVARIANTS
  TypeOK
  EveryExecutorOwned
  OneExecutorUnlessRaced
  RunningFlagTruthful
PROPERTIES
  StopEndsLoop
CHECK_DEADLOCK FALSE
