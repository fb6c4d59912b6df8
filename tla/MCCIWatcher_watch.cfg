CONSTANTS
  t1 = t1
  t2 = t2
  Tasks = {t1}
  MaxAttempts = 1
  PollTimeout = 1
  Outcomes <- Completed
  MaxHead = 2
  Faults = {"gh", "db"}
  MaxCrashes = 1
  NoTask = none
SPECIFICATION FairSpec
INVARIANTS OneFixPerHead ToldOnceStored
PROPERTIES PassedMeansGreen WatchEnds
CHECK_DEADLOCK FALSE
