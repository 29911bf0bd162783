\* One worker process (the deployment cmd/bot assembles), with a row of an
\* undeclared type beside a one-shot and a recurrence, under fairness.
CONSTANTS
  Task = {1, 2, 3}
  OneShot = {1}
  Recurrent = {2}
  Period <- MCPeriod
  RetryMaxAttempts = 2
  RetryDelay <- MCRetryDelay
  RetryMaxDelay = 2
  MaxTime = 2
  Delays = {0}
  Worker = {w1}
  ClaimLimit = 2
  MaxFaults = 1
  HandlerResult = {"ok", "failed", "panicBusy"}
  NoSession = NoSession
  NoAttempt = NoAttempt
SPECIFICATION FairSpec
PROPERTIES
  DueIsSettled
  DeferredIsDrained
