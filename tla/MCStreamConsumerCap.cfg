CONSTANTS
  Jobs = {j1, j2}
  StartFrom = "latest"
  Cap = 1
  MaxEvents = 0
  MaxTroubles = 0
  None = None
SPECIFICATION Spec
SYMMETRY MCSymmetry
INVARIANTS
  SlotsWithinCap
