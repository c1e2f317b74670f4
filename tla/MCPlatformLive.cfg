CONSTANTS
  Null = Null
  Text = Text
  Rearm = 1
  Results <- MCResults
  Options <- MCOptions
  ListCap = 2
  BadTexts = {}
  Interval = 1
  MaxBackoff = 1
  FailureCap = 1
  Handled = {1}
  Lifetime = 2
  IdleDays = 1
  Quota = 2
  KillsLeft = 0
  Slot = 1
  Every <- MCEvery
  WatchWindow = 1
  PageOf <- MCPageOf
  MaxSessions = 1
  NoSession = NoSession
  MaxEdits = 1
  Features <- MCFeatures
  Feature <- MCFeature
  Rank <- MCRank
  Floor <- MCFloor
  Ceiling <- MCCeiling
  Nobody = Nobody
  t1 = t1
  c1 = c1
  j1 = j1
  b1 = b1
  n1 = n1
  n2 = n2
  k3 = k3
  h1 = h1
  h2 = h2
  s1 = s1
  d1 = d1
  NoScheduler = NoScheduler
  DefinedBy <- MCDefinedBy
  Subjects = {"alerts", "failures", "schedules", "uploads", "subscriptions", "live", "pools", "rollups"}
  AlertIds = {a1}
  CheckJobs = {c1}
  Failing = {q1}
  MaxReports = 3
  Queries = {1}
  Texts = {t1}
  Files = {f1}
  Addressed = {f1}
  Sends = {j1}
  People = {p1}
  LongestWait = 2
  Boards = {b1}
  Sweeps = {w1}
  Visits = {v1}
  Pages = {n1}
  CellRuns = {k1}
  Leavers = {k4}
  SessionIds = {s1, s2}
  Cells = {1}
  NotebookJobs = {x1}
  MaxRuns = 1
  Holders = {h1, h2}
  Limit = 2
  Renewing = {h1}
  Faults = {"stall", "blip"}
  Streams = {x1}
  RollupJobs = {r1}
  LastMinute = 2
  Windows = {2}
  CatchUp = 1
  KeptMinutes = 1
  Editors = {e1, e2}
  Counted = TRUE
  MaxSaves = 3
  MaxTouches = 1
  Schedulers = {s1}
  Outgoing = {s1}
  PeriodicIds = {d1}
  MaxMishaps = 0
SPECIFICATION FairPlatformSpec
PROPERTIES
  
  KeepsRefreshing
  FailuresAreMailed
  ExpiredGoes
  KeepsTrying
  
  SlotComesBack
  
