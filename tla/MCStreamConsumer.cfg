CONSTANTS
  Jobs = {j1, j2, j3}
  StartFrom = "saved"
  Cap = 1
  MaxEvents = 1
  MaxTroubles = 1
  None = None
SPECIFICATION Spec
SYMMETRY MCSymmetry
INVARIANTS
  TypeOK
  OneConsumer
  
