CONSTANTS
  i1 = i1
  i2 = i2
  i3 = i3
  f1 = f1
  f2 = f2
  j1 = j1
  LastInstant = 4
  DayOf <- Days
  WeekOf <- Weeks
  Issues = {i1, i2, i3}
  Fires = {}
  Jobs = {j1}
  JobOf <- OneJob
  DailyMax = 1
  WeeklyMax = 0
  SubCap <- DailyOnce
  Overrides = {}
  Signals = {}
  SlowCalls = TRUE
  Faults = FALSE
  MaxCrashes = 0
SPECIFICATION Spec
PROPERTIES CapsHold
