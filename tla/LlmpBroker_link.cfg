SPECIFICATION FairSpec
CONSTANTS
  Client = {a, b}
  Listener = Listener
  Proxy = Proxy
  MaxMsgs = 1
  ExitAfter = 3
  SendLimit = 1
INVARIANTS
  BroadcastOnce
  MasterGetsAll
  FiltersOwnOnly
PROPERTIES
  OnlyTheSilentLeave
  EveryPageRead
CHECK_DEADLOCK FALSE
