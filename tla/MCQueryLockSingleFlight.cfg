CONSTANTS
  Enqueuers = {e1}
  Jobs = {j1, j2, j3}
  NoJob = NoJob
  MaxTries = 5
SPECIFICATION QuietSpec
INVARIANT SingleFlight
