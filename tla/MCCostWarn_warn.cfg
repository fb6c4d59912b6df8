CONSTANTS
  r1 = r1
  r2 = r2
  r3 = r3
  U = 1
  Zone = 0
  WeekStartsOn = 0
  FirstInstant = 6
  LastInstant = 8
  Runs = {r1, r2, r3}
  CostOf <- Costs
  DailyMax = 10
  WeeklyMax = 20
  SlowCalls = FALSE
  Faults = {"row", "load", "sum", "message"}
  MaxCrashes = 1
  NoRun = none
  MonthLength = 8
  MaxRangeDays = 365
  DefaultDays = 1
  ModelUsageOf <- Models
SPECIFICATION Spec
INVARIANTS AtMostOnce CapAnnounced TotalsComplete FiguresAgree
CHECK_DEADLOCK FALSE
