CONSTANTS
  t1 = t1
  t2 = t2
  t3 = t3
  r1 = r1
  r2 = r2
  w1 = w1
  w2 = w2
  NoTask = NoTask
  NoWorker = NoWorker
  Tasks = {t1, t2}
  Repos = {r1}
  RepoOf <- OneRepo
  IssueOf <- SharedIssue
  FixTasks = {t2}
  Workers = {w1}
  MaxParallel = 1
  CIFixEnabled = TRUE
  ApiStops = {}
  SlackStops = {t1}
  LeaseExpires = TRUE
  Ties = FALSE
  Faults = {"db", "git"}
  MaxCrashes = 1
SPECIFICATION ReclaimSpec
PROPERTIES EveryTaskEnds
