CONSTANTS
  MaxEvents = 3
  PipeCap = 1
  ChanCap = 1
  WithChild = TRUE
SPECIFICATION FairSpec
INVARIANTS ResultCollected LimitReported
PROPERTIES StopReturns RunReturns
CHECK_DEADLOCK FALSE
