\* One worker process, one task, no fault: a handler that returns with rows
\* still open.
CONSTANTS
  Task = {1}
  OneShot = {1}
  Recurrent = {}
  Period <- MCPeriod
  RetryMaxAttempts = 2
  RetryDelay <- MCRetryDelay
  RetryMaxDelay = 2
  MaxTime = 1
  Delays = {0}
  Worker = {w1}
  ClaimLimit = 1
  MaxFaults = 0
  HandlerResult = {"busy"}
  NoSession = NoSession
  NoAttempt = NoAttempt
SPECIFICATION FairSpec
PROPERTIES DueIsSettled
