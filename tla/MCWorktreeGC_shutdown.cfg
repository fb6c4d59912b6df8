CONSTANTS
  Tasks = {1, 2}
  RetentionDays = 1
  PageLimit = 2
  Stuck = {}
  Faults = {}
  MaxRestarts = 1
  NoTask = none
SPECIFICATION Spec
INVARIANTS ShutdownKept
CHECK_DEADLOCK FALSE
