CONSTANTS
  MaxEvents = 1
  PipeCap = 1
  ChanCap = 1
  WithChild = TRUE
SPECIFICATION DaemonSpec
PROPERTIES StopReturns
CHECK_DEADLOCK FALSE
