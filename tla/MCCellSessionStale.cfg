CONSTANTS
  Runs = {r1, r2}
  Inputs = {i1}
  Stoppers = {s1}
  None = None
  Failed = Failed
SPECIFICATION Spec
CHECK_DEADLOCK FALSE
INVARIANTS
  AnswersItsOwn
