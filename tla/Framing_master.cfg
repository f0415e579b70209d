SPECIFICATION FrameSpec
CONSTANTS
  Base = 2
  HdrLen = 2
  Message <- Messages
  MaxSent = 3
PROPERTIES
  ImplementsQueue
CHECK_DEADLOCK FALSE
