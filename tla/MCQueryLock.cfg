\* Two requests racing over two job ids: every race between two callers, a
\* run, the sweep, a cancellation and a crash.
CONSTANTS
  Enqueuers = {e1, e2}
  Jobs = {j1, j2}
  NoJob = NoJob
  MaxTries = 2
SPECIFICATION Spec
SYMMETRY MCSymmetry
INVARIANT TypeOK
PROPERTIES
  LockChangesHands
  
