------------------------------ MODULE TaskTable ------------------------------
(***************************************************************************)
(* The rows of scheduled_task and what one settlement writes into a row.   *)
(*                                                                         *)
(* Instants are natural numbers of an abstract unit, all read from the     *)
(* database clock (package scheduler reads every persisted instant from    *)
(* the database).  A task is its row id, a bigint.                         *)
(***************************************************************************)
EXTENDS Integers, FiniteSets

CONSTANTS
  Task,              \* row ids that may ever be used; id order is the claim's tie-break
  OneShot,           \* ids whose type is declared with no Recurrence
  Recurrent,         \* ids whose type is declared with a Recurrence
  Period,            \* the Every(period) cadence of each recurrent id
  RetryMaxAttempts,  \* config.Scheduler.RetryMaxAttempts
  RetryDelay,        \* backoff.Exponential(i, base, ceiling, factor), tabulated over i
  RetryMaxDelay      \* config.Scheduler.RetryMaxDelay

(***************************************************************************)
(* New refuses a non-positive value of every tuning field, and Exponential *)
(* is strictly positive for a positive base and ceiling, so a delay of     *)
(* zero is not a configuration the program can run with.  Ids in neither   *)
(* set have a type with no declaration in this build's registry.           *)
(***************************************************************************)
ASSUME TableAssumption ==
  /\ Task \subseteq Nat
  /\ OneShot \subseteq Task
  /\ Recurrent \subseteq Task
  /\ OneShot \cap Recurrent = {}
  /\ Period \in [Recurrent -> Nat \ {0}]
  /\ RetryMaxAttempts \in Nat \ {0}
  /\ RetryDelay \in [0..(RetryMaxAttempts - 1) -> Nat \ {0}]
  /\ RetryMaxDelay \in Nat \ {0}

Registered == OneShot \cup Recurrent

(***************************************************************************)
(* The row a task id stands for.  "unborn": not inserted yet.  "gone": the *)
(* one-shot's row was deleted; an identity value is never issued again.    *)
(***************************************************************************)
Row == [state    : {"unborn", "pending", "dead", "gone"},
        runAt    : Nat,
        failures : Nat]

Unborn == [state |-> "unborn", runAt |-> 0, failures |-> 0]
Gone   == [state |-> "gone",   runAt |-> 0, failures |-> 0]

Pending(at, k) == [state |-> "pending", runAt |-> at, failures |-> k]
Dead(at, k)    == [state |-> "dead",    runAt |-> at, failures |-> k]

Inserted(at) == Pending(at, 0)

\* Mutant of Every: the smallest occurrence at or after s, which may be s.
EveryNotAfter(period, prev, s) ==
  IF s < prev THEN prev + period ELSE prev + ((s - prev) \div period) * period

\* Cadence Every(period): the smallest prev + k * period, k >= 1, after s.
Every(period, prev, s) ==
  IF s < prev THEN prev + period
              ELSE prev + (((s - prev) \div period) + 1) * period

----------------------------------------------------------------------------
(***************************************************************************)
(* What a settlement leaves in the pending row r of task t, computed from  *)
(* the settlement instant s.                                               *)
(***************************************************************************)

\* Mutant of DoneRow: a success leaves the failure count as it was.
DoneRowKeepsCount(t, r, s) ==
  IF t \in Recurrent THEN Pending(Every(Period[t], r.runAt, s), r.failures) ELSE Gone

\* Done and Noop: a one-shot is deleted, a recurrence moves to its next occurrence.
DoneRow(t, r, s) ==
  IF t \in Recurrent THEN Pending(Every(Period[t], r.runAt, s), 0) ELSE Gone

\* Mutant of FailedRow: gives up one attempt early.
FailedRowEarly(t, r, s) ==
  LET k == r.failures + 1
  IN  CASE t \in Recurrent -> Pending(Every(Period[t], r.runAt, s), k)
        [] t \notin Recurrent /\ k >= RetryMaxAttempts - 1 -> Dead(r.runAt, k)
        [] OTHER -> Pending(s + RetryDelay[k - 1], k)

\* Mutant of FailedRow: counts the failure and leaves a one-shot due.
FailedRowNoDelay(t, r, s) ==
  LET k == r.failures + 1
  IN  CASE t \in Recurrent -> Pending(Every(Period[t], r.runAt, s), k)
        [] t \notin Recurrent /\ k >= RetryMaxAttempts -> Dead(r.runAt, k)
        [] OTHER -> Pending(r.runAt, k)

\* Mutant of FailedRow: the cap applies to a recurrence too.
FailedRowDies(t, r, s) ==
  LET k == r.failures + 1
  IN  IF k >= RetryMaxAttempts THEN Dead(r.runAt, k)
      ELSE IF t \in Recurrent THEN Pending(Every(Period[t], r.runAt, s), k)
      ELSE Pending(s + RetryDelay[k - 1], k)

\* Failed: a recurrence keeps its cadence; a one-shot backs off, and gives up
\* once its failure count reaches the cap (its run_at is then left alone).
FailedRow(t, r, s) ==
  LET k == r.failures + 1
  IN  CASE t \in Recurrent -> Pending(Every(Period[t], r.runAt, s), k)
        [] t \notin Recurrent /\ k >= RetryMaxAttempts -> Dead(r.runAt, k)
        [] OTHER -> Pending(s + RetryDelay[k - 1], k)

\* A type with no declaration: only run_at moves, by the backoff ceiling.
PostponedRow(r, s) == Pending(s + RetryMaxDelay, r.failures)
=============================================================================
