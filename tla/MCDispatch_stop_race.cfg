CONSTANTS
  t1 = t1
  t2 = t2
  t3 = t3
  r1 = r1
  r2 = r2
  w1 = w1
  w2 = w2
  NoTask = NoTask
  NoWorker = NoWorker
  Tasks = {t1, t2}
  Repos = {r1}
  RepoOf <- OneRepo
  IssueOf <- OwnIssues
  FixTasks = {}
  Workers = {w1, w2}
  MaxParallel = 2
  CIFixEnabled = TRUE
  ApiStops = {t1}
  SlackStops = {}
  LeaseExpires = FALSE
  Ties = FALSE
  Faults = {}
  MaxCrashes = 0
SPECIFICATION Spec
SYMMETRY WorkerSymmetry
PROPERTIES NoPRAfterStop
