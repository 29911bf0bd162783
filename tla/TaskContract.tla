---------------------------- MODULE TaskContract -----------------------------
(***************************************************************************)
(* What package scheduler promises about each row, with no workers in it:  *)
(* an occurrence (the task together with the run_at it is due at) gets one *)
(* verdict, in one atomic step, at or after the instant it is due.         *)
(*                                                                         *)
(* The verdicts are kept in two history variables: done[t] and failed[t]   *)
(* are the occurrences of t settled by a success (or a guard no-op) and by *)
(* a counted failure.                                                      *)
(***************************************************************************)
EXTENDS TaskTable

CONSTANTS
  MaxTime,     \* bound of the model: the clock stops here
  Delays       \* Request.Delay values a mechanic asks for

ASSUME ContractAssumption ==
  /\ MaxTime \in Nat
  /\ Delays \subseteq Nat

VARIABLES
  now,         \* the database clock
  row,         \* scheduled_task
  done,        \* history: settled occurrences, succeeded
  failed       \* history: settled occurrences, counted as a failure

tableVars == <<row, done, failed>>
contractVars == <<now, row, done, failed>>

Init ==
  /\ now = 0
  /\ row = [t \in Task |->
              CASE t \in OneShot   -> Unborn
                [] t \in Recurrent -> Inserted(Every(Period[t], 0, 0))
                [] OTHER           -> Inserted(0)]
  /\ done   = [t \in Task |-> {}]
  /\ failed = [t \in Task |-> {}]

Due(t) == row[t].state = "pending" /\ row[t].runAt <= now

Tick ==
  /\ now < MaxTime
  /\ now' = now + 1
  /\ UNCHANGED tableVars

\* Registry.Schedule of a one-shot, inside the caller's committed transaction.
Schedule(t) ==
  /\ t \in OneShot
  /\ row[t].state = "unborn"
  /\ \E d \in Delays : row' = [row EXCEPT ![t] = Inserted(now + d)]
  /\ UNCHANGED <<now, done, failed>>

\* The occurrence succeeds; s is the settlement instant.
Complete(t) ==
  /\ t \in Registered
  /\ Due(t)
  /\ \E s \in row[t].runAt .. now : row' = [row EXCEPT ![t] = DoneRow(t, row[t], s)]
  /\ done' = [done EXCEPT ![t] = @ \cup {row[t].runAt}]
  /\ UNCHANGED <<now, failed>>

\* The occurrence fails and is counted.
Fail(t) ==
  /\ t \in Registered
  /\ Due(t)
  /\ \E s \in row[t].runAt .. now : row' = [row EXCEPT ![t] = FailedRow(t, row[t], s)]
  /\ failed' = [failed EXCEPT ![t] = @ \cup {row[t].runAt}]
  /\ UNCHANGED <<now, done>>

\* An undeclared type is refused: postponed, never counted.
Refuse(t) ==
  /\ t \notin Registered
  /\ Due(t)
  /\ \E s \in row[t].runAt .. now : row' = [row EXCEPT ![t] = PostponedRow(row[t], s)]
  /\ UNCHANGED <<now, done, failed>>

Next ==
  \/ Tick
  \/ \E t \in Task : Schedule(t) \/ Complete(t) \/ Fail(t) \/ Refuse(t)

Spec == Init /\ [][Next]_contractVars
----------------------------------------------------------------------------
(* Properties: what the contract means for a row *)

\* No failure is ever counted against an occurrence that succeeded, whoever
\* settled it and whatever acknowledgement was lost (drainPending).
OneVerdict == \A t \in Task : done[t] \cap failed[t] = {}

\* consecutive_failures is the number of distinct failed occurrences since
\* the last success: no failure is counted twice, none survives a success.
FailuresAreDistinct ==
  \A t \in Registered :
    row[t].state \in {"pending", "dead"} =>
      row[t].failures =
        Cardinality({r \in failed[t] : \A d \in done[t] : d < r})

\* A row is given up on only when it is a one-shot's, after exactly
\* RetryMaxAttempts counted failures and no success (settleFailed); a row is
\* deleted only when it is a one-shot's, after its one success.
TerminalIsEarned ==
  \A t \in Task :
    /\ row[t].state = "dead" =>
         /\ t \in OneShot
         /\ done[t] = {}
         /\ Cardinality(failed[t]) = RetryMaxAttempts
    /\ row[t].state = "gone" => t \in OneShot /\ Cardinality(done[t]) = 1

\* No occurrence has two verdicts, no failure is counted twice or outlives a
\* success, and no row ends before its type and its history allow, whoever
\* settled it and whatever was lost (settleSucceeded, settleFailed, drainPending).
VerdictsAreSound == OneVerdict /\ FailuresAreDistinct /\ TerminalIsEarned
----------------------------------------------------------------------------
(***************************************************************************)
(* The inductive invariant: settled occurrences lie strictly before a      *)
(* pending row's run_at, so the occurrence settled next is always new; and *)
(* consecutive_failures counts the failures since the last success.        *)
(***************************************************************************)
ContractTypeOK ==
  /\ now \in Nat
  /\ row \in [Task -> Row]
  /\ done \in [Task -> SUBSET Nat]
  /\ failed \in [Task -> SUBSET Nat]

SettledInv(t) ==
  /\ IsFiniteSet(failed[t])
  /\ row[t].state = "unborn" => done[t] = {} /\ failed[t] = {}
  /\ row[t].state = "pending" =>
       /\ \A r \in done[t] \cup failed[t] : r < row[t].runAt
       /\ t \in OneShot => done[t] = {} /\ row[t].failures < RetryMaxAttempts

\* The failures since the last success.
Streak(t) == {r \in failed[t] : \A d \in done[t] : d < r}

VerdictInv(t) ==
  /\ done[t] \cap failed[t] = {}
  /\ t \in Registered /\ row[t].state \in {"pending", "dead"} =>
       row[t].failures = Cardinality(Streak(t))
  /\ row[t].state = "dead" =>
       t \in OneShot /\ done[t] = {} /\ Cardinality(failed[t]) = RetryMaxAttempts
  /\ row[t].state = "gone" => t \in OneShot /\ Cardinality(done[t]) = 1

\* What holds of every row and its history in every state of the contract:
\* the three properties above, with the ordering that makes them inductive.
CInv ==
  /\ ContractTypeOK
  /\ \A t \in Task : SettledInv(t) /\ VerdictInv(t)
=============================================================================
