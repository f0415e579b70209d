SPECIFICATION Spec
CONSTANTS
  Client = {a, b}
  Listener = Listener
  Proxy = Proxy
  MaxMsgs = 1
  ExitAfter = 2
  SendLimit = 1
INVARIANT ExitsAfterAll
CHECK_DEADLOCK FALSE
