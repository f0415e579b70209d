SPECIFICATION Spec
CONSTANTS
  Fuzzer = {f1}
  Evaler = {e1}
  None = None
  MaxBatches = 1
  MaxEvents = 1
  ChanCap = 1
  SendCap = 1
  TcpCap = 1
  MayFail = FALSE
  MayLose = FALSE
INVARIANTS
  OwnMap
CHECK_DEADLOCK FALSE
