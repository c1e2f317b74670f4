CONSTANTS
  Jobs = {j1, j2}
  StartFrom = "latest"
  Cap = 0
  MaxEvents = 1
  MaxTroubles = 2
  None = None
  s1 = s1
  s2 = s2
  d1 = d1
  Schedulers = {s1, s2}
  Outgoing = {s1}
  PeriodicIds = {d1, d2}
  DefinedBy <- MCDefinedBy
  NoScheduler = NoScheduler
  MaxMishaps = 1
SPECIFICATION FairBothSpec
PROPERTIES
  WatchedIsConsumed
  QuietStreamEnds
  ScheduleIsKept
