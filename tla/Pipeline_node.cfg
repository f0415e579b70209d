SPECIFICATION FairSpec
CONSTANTS
  f1 = f1
  e1 = e1
  e2 = e2
  c1 = c1
  c2 = c2
  Fuzzer = {f1}
  Evaler = {e1, e2}
  Conn = {c1, c2}
  ConnOf <- NodeAndEvaler
  Faulty = {c1}
  Answers = {"data", "garbage", "undecodable"}
  MaxSent = 2
  TestcaseChanBuf = 1
  EventChanBuf = 1
  BufferMaxSize = 2
  EvalRetryCount = 1
  MaxStops = 2
INVARIANTS
  OnlyLateTakesAreLost
  ExactlyOnceBeforeStops
PROPERTIES
  DeadEvalerLeaves
  TestcasesFinish
CHECK_DEADLOCK FALSE
