------------------------------- MODULE Upkeep --------------------------------
(***************************************************************************)
(* What a starting and a running process do to the task table besides      *)
(* executing tasks: AbsorbDowntime shifts what fell due in an outage,      *)
(* Reconcile seeds and corrects the declared recurrences, and the liveness *)
(* heartbeat keeps the instant the next start measures its outage from.    *)
(* The tasks themselves are settled as TaskContract says, by any process   *)
(* that is up.                                                             *)
(***************************************************************************)
EXTENDS TaskContract

CONSTANTS
  Proc,         \* processes over one database (a rolling restart has two)
  OldPeriod,    \* cadence a recurrence's row was written under, before this build
  Threshold,    \* LivenessOptions.DowntimeThreshold
  Interval,     \* LivenessOptions.Interval
  PollInterval, \* config.Scheduler.PollInterval
  Stall,        \* bound of the model: longest time from a transaction's (or a
                \* reconciliation's) instant to its last statement
  Late,         \* bound of the model: longest time a Refresh takes
  MaxStarts     \* bound of the model: starts of all processes together

ASSUME UpkeepAssumption ==
  /\ OldPeriod \in [Recurrent -> Nat \ {0}]
  /\ {Threshold, Interval, PollInterval} \subseteq Nat \ {0}
  /\ {Stall, Late, MaxStarts} \subseteq Nat
  /\ Stall < Threshold /\ Late < Interval
  /\ \A t \in Recurrent : Stall < Period[t]

VARIABLES
  seenAt,       \* process_liveness.seen_at; NoInstant is NULL
  proc,         \* per process: where it is and the instant it works from
  shifts,       \* history: the outages absorbed, [by, from, to]
  starts        \* starts so far

upkeepVars == <<now, row, done, failed, seenAt, proc, shifts, starts>>

NoInstant == -1

\* at: the instant of the open transaction or reconciliation, and once up the
\* instant of the last refresh reported good.  beat: the ticker's next tick.
Process ==
  [pc : {"down", "absorbing", "measured", "reconciling", "up", "gaveUp"},
   at : Nat, seen : Nat \cup {NoInstant}, beat : Nat, fails : Nat,
   todo : SUBSET ({"seed", "correct"} \X Recurrent)]

Down == [pc |-> "down", at |-> 0, seen |-> NoInstant, beat |-> 0, fails |-> 0, todo |-> {}]

\* Rows as an earlier build left them: a recurrence new to this build has no
\* row yet, an older one a row under the cadence declared then.
UpkeepInit ==
  /\ now = 0
  /\ done   = [t \in Task |-> {}]
  /\ failed = [t \in Task |-> {}]
  /\ \E new \in SUBSET Recurrent :
       row = [t \in Task |->
                CASE t \in OneShot \cup new       -> Unborn
                  [] t \in Recurrent \ new        -> Inserted(OldPeriod[t])
                  [] OTHER                        -> Inserted(0)]
  /\ seenAt \in {NoInstant, 0}
  /\ proc = [p \in Proc |-> Down]
  /\ shifts = {}
  /\ starts = 0
----------------------------------------------------------------------------
(* Start-up, in the order of cmd/bot's steps 9 and 10 *)

\* BEGIN: now() is the transaction's instant from here on.
Begin(p) ==
  /\ proc[p].pc = "down" /\ starts < MaxStarts
  /\ proc' = [proc EXCEPT ![p] = [Down EXCEPT !.pc = "absorbing", !.at = now]]
  /\ starts' = starts + 1
  /\ UNCHANGED <<now, row, done, failed, seenAt, shifts>>

LivenessRowFree == \A q \in Proc : proc[q].pc # "measured"

\* Mutant of Measure: the singleton row is read without being locked.
MeasureNoLock(p) ==
  /\ proc[p].pc = "absorbing"
  /\ proc' = [proc EXCEPT ![p].pc = "measured", ![p].seen = seenAt]
  /\ UNCHANGED <<now, row, done, failed, seenAt, shifts, starts>>

\* SELECT ... FOR NO KEY UPDATE of the singleton row.
Measure(p) ==
  /\ proc[p].pc = "absorbing"
  /\ LivenessRowFree
  /\ proc' = [proc EXCEPT ![p].pc = "measured", ![p].seen = seenAt]
  /\ UNCHANGED <<now, row, done, failed, seenAt, shifts, starts>>

\* The rows a shift moves: overdue at the transaction's instant.  The statement
\* is one step: where the code waits for a row a worker holds, and then reads its
\* condition again, the model shifts after the worker.
Shifted(at, gap) ==
  [t \in Task |-> IF row[t].state = "pending" /\ row[t].runAt <= at
                  THEN [row[t] EXCEPT !.runAt = @ + gap] ELSE row[t]]

\* The shift when the gap exceeds the threshold, the new baseline, the commit;
\* a commit whose acknowledgement is lost fails the start.
Absorb(p) ==
  LET at == proc[p].at  from == proc[p].seen  outage == from # NoInstant /\ at - from > Threshold
  IN  /\ proc[p].pc = "measured"
      /\ row' = IF outage THEN Shifted(at, at - from) ELSE row
      /\ shifts' = IF outage THEN shifts \cup {[by |-> starts, from |-> from, to |-> at]} ELSE shifts
      /\ seenAt' = at
      /\ \E pc \in {"reconciling", "down"} :
           proc' = [proc EXCEPT ![p] =
             IF pc = "down" THEN Down
             ELSE [Down EXCEPT !.pc = pc, !.at = now, !.todo = {"seed", "correct"} \X Recurrent]]
      /\ UNCHANGED <<now, done, failed, starts>>

\* The occurrence this build computes from the instant Reconcile read.
NextOccurrence(p, t) == Every(Period[t], proc[p].at, proc[p].at)

Seed(p, t) ==
  /\ proc[p].pc = "reconciling" /\ <<"seed", t>> \in proc[p].todo
  /\ row' = IF row[t].state = "pending" THEN row
            ELSE [row EXCEPT ![t] = Inserted(NextOccurrence(p, t))]
  /\ proc' = [proc EXCEPT ![p].todo = @ \ {<<"seed", t>>}]
  /\ UNCHANGED <<now, done, failed, seenAt, shifts, starts>>

\* Mutant of Correct: every pending occurrence is moved to the computed one,
\* counted from the instant at which it is due.
CorrectFromZero(p, t) ==
  /\ proc[p].pc = "reconciling" /\ <<"correct", t>> \in proc[p].todo
  /\ <<"seed", t>> \notin proc[p].todo
  /\ row' = IF row[t].state = "pending" THEN [row EXCEPT ![t].runAt = Period[t]] ELSE row
  /\ proc' = [proc EXCEPT ![p].todo = @ \ {<<"correct", t>>}]
  /\ UNCHANGED <<now, done, failed, seenAt, shifts, starts>>

\* Only an occurrence later than the computed one, and not imminent, is moved;
\* a row another transaction holds is skipped.
Correct(p, t) ==
  LET next == NextOccurrence(p, t)
  IN  /\ proc[p].pc = "reconciling" /\ <<"correct", t>> \in proc[p].todo
      /\ <<"seed", t>> \notin proc[p].todo
      /\ \/ row' = row
         \/ /\ row[t].state = "pending" /\ row[t].runAt > next /\ row[t].runAt > now + PollInterval
            /\ row' = [row EXCEPT ![t].runAt = next]
      /\ proc' = [proc EXCEPT ![p].todo = @ \ {<<"correct", t>>}]
      /\ UNCHANGED <<now, done, failed, seenAt, shifts, starts>>

\* Reconciled: the worker and the heartbeat run.
Up(p) ==
  /\ proc[p].pc = "reconciling" /\ proc[p].todo = {}
  /\ proc' = [proc EXCEPT ![p] = [Down EXCEPT !.pc = "up", !.at = now, !.beat = now + Interval]]
  /\ UNCHANGED <<now, row, done, failed, seenAt, shifts, starts>>
----------------------------------------------------------------------------
(* The heartbeat (Liveness.Run) *)

\* Mutant of failureTolerance: rounded down.
failureToleranceDown == IF Threshold \div Interval < 1 THEN 1 ELSE Threshold \div Interval

\* ceil(threshold / interval), at least one.
failureTolerance == (Threshold + Interval - 1) \div Interval

Ticked(p) == proc[p].pc = "up" /\ now >= proc[p].beat

RefreshOK(p) ==
  /\ Ticked(p)
  /\ seenAt' = now
  /\ proc' = [proc EXCEPT ![p].at = now, ![p].beat = @ + Interval, ![p].fails = 0]
  /\ UNCHANGED <<now, row, done, failed, shifts, starts>>

\* A refresh that fails, or whose acknowledgement is lost after the write.
RefreshFails(p) ==
  LET k == proc[p].fails + 1
  IN  /\ Ticked(p)
      /\ seenAt' \in {seenAt, now}
      /\ proc' = [proc EXCEPT ![p].beat = @ + Interval, ![p].fails = k,
                              ![p].pc = IF k >= failureTolerance THEN "gaveUp" ELSE "up"]
      /\ UNCHANGED <<now, row, done, failed, shifts, starts>>

\* The drain: the final write (which may fail), then the process is gone.
Exit(p) ==
  /\ proc[p].pc \in {"up", "gaveUp"}
  /\ seenAt' \in {seenAt, now}
  /\ proc' = [proc EXCEPT ![p] = Down]
  /\ UNCHANGED <<now, row, done, failed, shifts, starts>>

\* A crash or a failed step during start-up; an open transaction rolls back.
\* (Once up, a crash is an Exit whose final write fails.)
Die(p) ==
  /\ proc[p].pc \in {"absorbing", "measured", "reconciling"}
  /\ proc' = [proc EXCEPT ![p] = Down]
  /\ UNCHANGED <<now, row, done, failed, seenAt, shifts, starts>>
----------------------------------------------------------------------------
\* Time passes while no statement or refresh is overdue.
UpkeepTick ==
  /\ Tick
  /\ \A p \in Proc :
       /\ proc[p].pc \in {"absorbing", "measured", "reconciling"} => now - proc[p].at < Stall
       /\ proc[p].pc = "up" => now - proc[p].beat < Late
  /\ UNCHANGED <<seenAt, proc, shifts, starts>>

\* Some process is up and settles a task.
Work ==
  /\ \E p \in Proc : proc[p].pc = "up"
  /\ \E t \in Task : Schedule(t) \/ Complete(t) \/ Fail(t) \/ Refuse(t)
  /\ UNCHANGED <<seenAt, proc, shifts, starts>>

UpkeepNext ==
  \/ UpkeepTick
  \/ Work
  \/ \E p \in Proc :
       \/ Begin(p) \/ Measure(p) \/ Absorb(p) \/ Up(p)
       \/ RefreshOK(p) \/ RefreshFails(p) \/ Exit(p) \/ Die(p)
       \/ \E t \in Recurrent : Seed(p, t) \/ Correct(p, t)

UpkeepSpec == UpkeepInit /\ [][UpkeepNext]_upkeepVars
----------------------------------------------------------------------------
(* Properties *)

UpkeepTypeOK ==
  /\ seenAt \in Nat \cup {NoInstant}
  /\ proc \in [Proc -> Process]
  /\ shifts \subseteq [by : Nat, from : Nat, to : Nat]
  /\ starts \in 0..MaxStarts

\* However many processes start at once, no stored instant is measured twice:
\* one outage moves the overdue rows once (AbsorbDowntime's row lock).
AbsorbedOnce == \A a, b \in shifts : a.from = b.from => a = b

\* A heartbeat gives up only when no refresh has been reported good for the
\* downtime threshold, less the time one refresh takes (failureTolerance).
GivesUpHonestly ==
  \A p \in Proc : proc[p].pc = "gaveUp" => now - proc[p].at >= Threshold - Late

\* From the moment a process runs its worker every declared recurrence has a
\* pending row, whatever fails, shifts or starts beside it (Reconcile's seed).
RecurrenceNeverLost ==
  /\ UpkeepTypeOK
  /\ (\E p \in Proc : proc[p].pc = "up") => \A t \in Recurrent : row[t].state = "pending"
=============================================================================
