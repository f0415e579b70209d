SPECIFICATION FairSpec
CONSTANTS
  MaxRuns = 4
  TargetShm = TRUE
  DictLen = 3
  PipeCap = 3
  Executors <- AllExecutors
  Persistent = TRUE
  MayFail = TRUE
INVARIANTS
  BetweenRuns
  OneChild
  HandshakeAgrees
PROPERTIES
  RunEnds
CHECK_DEADLOCK FALSE
