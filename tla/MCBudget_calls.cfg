CONSTANTS
  i1 = i1
  i2 = i2
  i3 = i3
  f1 = f1
  f2 = f2
  j1 = j1
  LastInstant = 4
  DayOf <- Days
  WeekOf <- Weeks
  Issues = {i1}
  Fires = {f1, f2}
  Jobs = {j1}
  JobOf <- OneJob
  DailyMax <- ConfiguredDaily
  WeeklyMax <- ConfiguredWeekly
  SubCap <- DailyOnce
  Overrides <- Raise
  Signals = {3}
  SlowCalls = FALSE
  Faults = TRUE
  MaxCrashes = 1
SPECIFICATION FairSpec
INVARIANTS CountersCover
PROPERTIES CapsHold SubCapsHold BlockHonoured DispatchResumes
