CONSTANTS
  Runs = {r1, r2}
  Inputs = {i1}
  Stoppers = {s1, s2}
  None = None
  Failed = Failed
SPECIFICATION FairSpec
CHECK_DEADLOCK FALSE
INVARIANTS
  TypeOK
  OnlyStraysMisanswer
PROPERTIES
  StopEndsTheCell
  EveryCallReturns
