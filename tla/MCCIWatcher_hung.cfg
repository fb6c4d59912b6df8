CONSTANTS
  t1 = t1
  t2 = t2
  Tasks = {t1}
  MaxAttempts = 1
  PollTimeout = 1
  Outcomes <- Completed
  MaxHead = 2
  Faults = {}
  MaxCrashes = 0
  NoTask = none
SPECIFICATION HungSpec
PROPERTIES WatchEnds
CHECK_DEADLOCK FALSE
