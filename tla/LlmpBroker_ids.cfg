SPECIFICATION Spec
CONSTANTS
  Client = {a, b}
  Listener = Listener
  Proxy = Proxy
  MaxMsgs = 1
  ExitAfter = 3
  SendLimit = 1
INVARIANT OwnTurn
CHECK_DEADLOCK FALSE
