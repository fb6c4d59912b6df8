CONSTANTS
  d1 = d1
  d2 = d2
  c1 = c1
  c2 = c2
  c3 = c3
  Week = 4
  DayLength = 2
  ActiveWindows <- FirstDay
  Repos = {1, 2}
  Issues = {1}
  RepoOf <- SecondRepo
  FailingRepos = {1}
  PageSize = 1
  Deliveries = {d1, d2}
  IssueOf <- OneFiltered
  TTL = 1
  Calls = {c1, c2, c3}
  ApiCalls = {c3}
  SlowCalls = FALSE
  Faults = {"gh", "db"}
  MaxCrashes = 1
  NoIssue = none
  API = api
  Poll = poll
SPECIFICATION FairSpec
INVARIANTS SourceOnce
PROPERTIES IssuePickedUp
