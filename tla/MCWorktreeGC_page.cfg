CONSTANTS
  Tasks = {1, 2}
  RetentionDays = 1
  PageLimit = 1
  Stuck = {}
  Faults = {}
  MaxRestarts = 0
  NoTask = none
SPECIFICATION FairSpec
PROPERTIES OldSwept
CHECK_DEADLOCK FALSE
