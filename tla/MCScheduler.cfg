\* Two worker processes over a one-shot and a recurrence.
CONSTANTS
  Task = {1, 2}
  OneShot = {1}
  Recurrent = {2}
  Period <- MCPeriod
  RetryMaxAttempts = 2
  RetryDelay <- MCRetryDelay
  RetryMaxDelay = 2
  MaxTime = 2
  Delays = {0}
  Worker = {w1, w2}
  ClaimLimit = 1
  MaxFaults = 1
  HandlerResult = {"ok", "failed", "busy", "panicBusy"}
  NoSession = NoSession
  NoAttempt = NoAttempt
SYMMETRY WorkerSymmetry
SPECIFICATION SchedulerSpec
INVARIANTS
  IInv
  ClaimedRowIsStable
  DeferredIsCurrentOrPast
  VerdictsAreSound
PROPERTY ImplementsContract
