CONSTANTS
  d1 = d1
  d2 = d2
  c1 = c1
  c2 = c2
  c3 = c3
  Week = 4
  DayLength = 2
  ActiveWindows <- FirstDay
  Repos = {1, 2}
  Issues = {1, 2}
  RepoOf <- SecondRepo
  FailingRepos = {1}
  PageSize = 1
  Deliveries = {d1}
  IssueOf <- OneFiltered
  TTL = 1
  Calls = {}
  ApiCalls = {}
  SlowCalls = FALSE
  Faults = {}
  MaxCrashes = 0
  NoIssue = none
  API = api
  Poll = poll
SPECIFICATION FairSpec
PROPERTIES IssuePickedUp
