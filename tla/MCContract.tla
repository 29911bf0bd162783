---------------------------- MODULE MCContract -----------------------------
(* Small instances of Upkeep (over TaskContract) for TLC. *)
EXTENDS Upkeep, TLC

MCPeriod == [t \in Recurrent |-> t - 1]
MCOldPeriod == [t \in Recurrent |-> t + 2]
ProcSymmetry == Permutations(Proc)
MCRetryDelay == [i \in 0..(RetryMaxAttempts - 1) |-> i + 1]
=============================================================================
