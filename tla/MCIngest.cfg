\* The loop cmd/bot runs, under fairness.
CONSTANTS
  Update = {0, 1, 2, 3}
  Unrouted = {1}
  Keyed = {0, 3}
  Loop = {l1}
  BatchLimit = 2
  RetryMaxAttempts = 3
  MaxFaults = 3
SPECIFICATION FairSpec
INVARIANTS
  GivenUpOnce
PROPERTIES
  ArrivedIsSettled
  StopReturns
\* The loop may have been stopped.
CHECK_DEADLOCK FALSE
