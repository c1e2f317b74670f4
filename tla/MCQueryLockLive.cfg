CONSTANTS
  Enqueuers = {e1}
  Jobs = {j1, j2}
  NoJob = NoJob
  MaxTries = 2
SPECIFICATION FairSpec
PROPERTIES
  NothingIsLeftBehind
