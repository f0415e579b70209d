SPECIFICATION FairSpec
CONSTANTS
  p1 = p1
  p2 = p2
  p3 = p3
  Peer = {p1, p2, p3}
  V6 = {p3}
  Silent = {p2}
  Faulty = {p2}
  AcceptMayFail = TRUE
  MaxMsgs = 1
  MaxRequests = 1
INVARIANTS
  ConfigFirst
  EndHasACause
  ToldAtTheEnd
PROPERTIES
  EveryNodeSettled
  LostNodeReported
CHECK_DEADLOCK FALSE
