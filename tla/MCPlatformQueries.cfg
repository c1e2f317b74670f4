CONSTANTS
  Null = Null
  Text = Text
  Rearm = 1
  Results <- MCResults
  Options <- MCOptions
  ListCap = 2
  BadTexts = {}
  Interval = 1
  MaxBackoff = 1
  FailureCap = 1
  Handled = {1}
  Lifetime = 2
  IdleDays = 1
  Quota = 2
  KillsLeft = 1
  Slot = 1
  Every <- MCEvery
  WatchWindow = 1
  PageOf <- MCPageOf
  MaxSessions = 1
  NoSession = NoSession
  MaxEdits = 1
  Features <- MCFeatures
  Feature <- MCFeature
  Rank <- MCRank
  Floor <- MCFloor
  Ceiling <- MCCeiling
  Nobody = Nobody
  t1 = t1
  c1 = c1
  j1 = j1
  b1 = b1
  n1 = n1
  n2 = n2
  k3 = k3
  h1 = h1
  h2 = h2
  s1 = s1
  d1 = d1
  NoScheduler = NoScheduler
  DefinedBy <- MCDefinedBy
  Subjects = {"versions"}
  AlertIds = {a1}
  CheckJobs = {c1, c2}
  Failing = {q1, q2}
  MaxReports = 3
  Queries = {1, 2}
  Texts = {t1}
  Files = {f1, f2}
  Addressed = {f1}
  Sends = {j1, j2}
  People = {p1, p2}
  LongestWait = 1
  Boards = {b2}
  Sweeps = {w1, w2}
  Visits = {v1}
  Pages = {n1, n2}
  CellRuns = {k1, k2}
  Leavers = {k4}
  SessionIds = {s1, s2}
  Cells = {1, 2}
  NotebookJobs = {x1, x2}
  MaxRuns = 4
  Holders = {h1, h3, h4}
  Limit = 2
  Renewing = {h3, h4}
  Faults = {}
  Streams = {x1}
  RollupJobs = {r1, r2}
  LastMinute = 2
  Windows = {2}
  CatchUp = 1
  KeptMinutes = 1
  Editors = {e1, e2}
  Counted = FALSE
  MaxSaves = 3
  MaxTouches = 1
  Schedulers = {s1}
  Outgoing = {s1}
  PeriodicIds = {d1}
  MaxMishaps = 0
SPECIFICATION PlatformSpec
PROPERTIES
  ReplacesWhatItSaw
