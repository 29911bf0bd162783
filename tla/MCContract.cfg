\* The contract with start-up, heartbeat and outages: a one-shot, a recurrence
\* of period 2 that an earlier build declared with 5, two processes.
CONSTANTS
  Task = {1, 3, 4}
  OneShot = {1}
  Recurrent = {3}
  Period <- MCPeriod
  OldPeriod <- MCOldPeriod
  RetryMaxAttempts = 1
  RetryDelay <- MCRetryDelay
  RetryMaxDelay = 6
  MaxTime = 5
  Delays = {4}
  Proc = {p1, p2}
  Threshold = 3
  Interval = 2
  PollInterval = 1
  Stall = 1
  Late = 1
  MaxStarts = 2
SYMMETRY ProcSymmetry
SPECIFICATION UpkeepSpec
INVARIANTS CInv AbsorbedOnce GivesUpHonestly RecurrenceNeverLost
\* The clock stops at MaxTime; rows due later then wait for ever.
CHECK_DEADLOCK FALSE
