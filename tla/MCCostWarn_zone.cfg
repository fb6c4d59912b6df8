CONSTANTS
  r1 = r1
  r2 = r2
  r3 = r3
  U = 2
  Zone = 1
  WeekStartsOn = 0
  FirstInstant = 11
  LastInstant = 15
  Runs = {r1, r2, r3}
  CostOf <- Costs
  DailyMax = 10
  WeeklyMax = 20
  SlowCalls = FALSE
  Faults = {}
  MaxCrashes = 0
  NoRun = none
  MonthLength = 8
  MaxRangeDays = 365
  DefaultDays = 1
  ModelUsageOf <- Models
SPECIFICATION Spec
INVARIANTS BucketsAgree
CHECK_DEADLOCK FALSE
