SPECIFICATION FairSpec
CONSTANTS
  Fuzzer = {f1}
  Evaler = {e1}
  None = None
  MaxBatches = 3
  MaxEvents = 3
  ChanCap = 1
  SendCap = 1
  TcpCap = 1
  MayFail = TRUE
  MayLose = TRUE
INVARIANTS
  BatchConserved
PROPERTIES
  FuzzerGoesOn
  EveryBatchAnswered
CHECK_DEADLOCK FALSE
