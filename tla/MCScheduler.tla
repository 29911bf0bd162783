---------------------------- MODULE MCScheduler ----------------------------
(* Small instances of Scheduler for TLC. *)
EXTENDS Scheduler, TLC

MCPeriod == [t \in Recurrent |-> 1]
MCRetryDelay == [i \in 0..(RetryMaxAttempts - 1) |-> i + 1]
WorkerSymmetry == Permutations(Worker)
=============================================================================
