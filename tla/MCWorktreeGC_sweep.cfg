CONSTANTS
  Tasks = {1, 2}
  RetentionDays = 1
  PageLimit = 2
  Stuck = {2}
  Faults = {"db", "git", "rm"}
  MaxRestarts = 1
  NoTask = none
SPECIFICATION FairSpec
INVARIANTS UnsavedKept
PROPERTIES PointerOutlivesDir OldSwept
CHECK_DEADLOCK FALSE
