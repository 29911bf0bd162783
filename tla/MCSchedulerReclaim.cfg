\* One worker process and one task: the lock of an abandoned session ends
\* between the drain and the discovery.
CONSTANTS
  Task = {1}
  OneShot = {1}
  Recurrent = {}
  Period <- MCPeriod
  RetryMaxAttempts = 2
  RetryDelay <- MCRetryDelay
  RetryMaxDelay = 2
  MaxTime = 1
  Delays = {0}
  Worker = {w1}
  ClaimLimit = 1
  MaxFaults = 1
  HandlerResult = {"ok", "failed", "panicBusy"}
  NoSession = NoSession
  NoAttempt = NoAttempt
SPECIFICATION SchedulerSpec
INVARIANTS NoReclaimOfUncounted
