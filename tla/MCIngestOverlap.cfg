\* Two overlapping loops (an old and a new deployment).
CONSTANTS
  Update = {0, 1, 2}
  Unrouted = {1}
  Keyed = {0}
  Loop = {l1, l2}
  BatchLimit = 2
  RetryMaxAttempts = 2
  MaxFaults = 2
SYMMETRY LoopSymmetry
SPECIFICATION Spec
INVARIANTS
  IngestInv
  NoUpdateLost
  KeyedOnce
PROPERTIES
  OffsetNeverBack
  FetchedIsSettled
\* Every loop may have been stopped.
CHECK_DEADLOCK FALSE
