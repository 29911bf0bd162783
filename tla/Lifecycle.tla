------------------------------ MODULE Lifecycle ------------------------------
(***************************************************************************)
(* One run of the bot process (cmd/bot): assembly step by step with a      *)
(* closer for every resource opened, the unwind of a failed assembly, the  *)
(* runners, and the drain under one budget, with signals at any moment.    *)
(***************************************************************************)
EXTENDS Integers, Sequences, FiniteSets, SequencesExt

CONSTANT SigCap     \* capacity of the signal channel; further signals are dropped

ASSUME LifecycleAssumption == SigCap \in Nat \ {0}

VARIABLE life       \* the process, one record

Nothing == "nothing"

\* A start-up step: the resource it leaves open, if any, and whether it can fail.
Step(name, opens, fails) == [name |-> name, opens |-> opens, fails |-> fails]

ConnectSteps ==
  << Step("signals", "signal registration", FALSE), Step("configuration", Nothing, TRUE),
     Step("connect", "pool", TRUE), Step("ping", Nothing, TRUE),
     Step("registry", Nothing, TRUE), Step("listen", "health listener", TRUE),
     Step("migrations", Nothing, TRUE) >>

ServeSteps ==
  << Step("absorb downtime", "liveness final write", TRUE), Step("reconcile", Nothing, TRUE),
     Step("process client", "http client", TRUE), Step("telegram client", Nothing, TRUE),
     Step("ingest loop", Nothing, TRUE), Step("start canary", "canary", TRUE) >>

Steps == ConnectSteps \o ServeSteps

runners == <<"ingest loop", "scheduler worker", "liveness heartbeat">>

Runner == Range(runners)

\* What each resource or runner works through while it is alive.
Uses ==
  [u \in {"ingest loop", "scheduler worker", "liveness heartbeat", "health listener",
          "liveness final write", "canary"} |->
     CASE u = "ingest loop" -> {"pool", "http client"}
       [] u = "canary"      -> {"http client"}
       [] OTHER             -> {"pool"}]

(***************************************************************************)
(* step: start-up steps done.  closers: in the order appended.  opened and *)
(* closed: history; what a closer that has returned closes is closed.      *)
(* run: each runner's state, "ok" and "err" once its result is published.  *)
(* told: runners whose stop was called.  signals: buffered.  trigger: the  *)
(* runner whose return began the drain.                                    *)
(***************************************************************************)
Fresh ==
  [pc |-> "assembling", step |-> 0, closers |-> <<>>, opened |-> {}, closed |-> <<>>,
   migrated |-> FALSE, draining |-> FALSE, run |-> [r \in Runner |-> "none"], told |-> {},
   signals |-> 0, trigger |-> Nothing, cancelled |-> FALSE, code |-> -1]

LifeInit == life = Fresh

Returned(r) == life.run[r] \in {"ok", "err"}
----------------------------------------------------------------------------
(* assemble *)

StepDone ==
  LET s == Steps[life.step + 1]
  IN  /\ life.pc = "assembling" /\ life.step < Len(Steps)
      /\ life' = [life EXCEPT
           !.step = @ + 1,
           !.opened = IF s.opens = Nothing THEN @ ELSE @ \cup {s.opens},
           !.closers = IF s.opens = Nothing THEN @ ELSE Append(@, s.opens),
           !.migrated = @ \/ s.name = "migrations"]

StepFails ==
  /\ life.pc = "assembling" /\ life.step < Len(Steps)
  /\ Steps[life.step + 1].fails
  /\ life' = [life EXCEPT !.pc = "unwinding"]

\* Mutant of CloseLast: the closers are walked in the order they were appended.
CloseFirst ==
  [life EXCEPT !.closed = Append(@, Head(life.closers)), !.closers = Tail(@)]

\* One closer, from the last appended; its error is logged and nothing more.
CloseLast ==
  [life EXCEPT !.closed = Append(@, Last(life.closers)), !.closers = Front(@)]

unwind ==
  /\ life.pc = "unwinding"
  /\ life' = IF life.closers = <<>> THEN [life EXCEPT !.pc = "exited", !.code = 1] ELSE CloseLast
----------------------------------------------------------------------------
(* serve and drain *)

serve ==
  /\ life.pc = "assembling" /\ life.step = Len(Steps)
  /\ life' = [life EXCEPT !.pc = "serving", !.run = [r \in Runner |-> "running"]]

\* The first of a signal and a runner's result begins the drain.
BySignal ==
  /\ life.pc = "serving" /\ life.signals > 0
  /\ life' = [life EXCEPT !.pc = "draining", !.signals = @ - 1]

ByRunner(r) ==
  /\ life.pc = "serving" /\ Returned(r)
  /\ life' = [life EXCEPT !.pc = "draining", !.trigger = r]

\* drain begins with the latch; a scrape may come between any two of its steps.
latch ==
  /\ life.pc = "draining"
  /\ life' = [life EXCEPT !.pc = "stopping", !.draining = TRUE]

\* Then every runner's stop, and the join.
stopRunner ==
  LET told == life.told \cup {runners[Cardinality(life.told) + 1]}
  IN  /\ life.pc = "stopping"
      /\ life' = [life EXCEPT !.told = told, !.pc = IF told = Runner THEN "joining" ELSE @]

Joined == \A r \in Runner : Returned(r)

\* Mutant of Abandon: the budget's timer is missing.
AbandonBySignal ==
  /\ life.pc = "joining" /\ ~life.cancelled /\ life.signals > 0
  /\ life' = [life EXCEPT !.cancelled = TRUE, !.signals = @ - 1]

\* The budget expires, or a second signal arrives: the run context is cancelled.
Abandon ==
  /\ life.pc = "joining" /\ ~life.cancelled
  /\ \E n \in {0, 1} :
       /\ n <= life.signals
       /\ life' = [life EXCEPT !.cancelled = TRUE, !.signals = @ - n]

\* Mutant of exitCode: a runner's error is only logged.
exitCodeQuiet == IF life.cancelled \/ life.trigger # Nothing THEN 1 ELSE 0

exitCode ==
  IF life.cancelled \/ life.trigger # Nothing \/ \E r \in Runner : life.run[r] = "err"
  THEN 1 ELSE 0

\* Mutant of JoinDone: an abandoned join is not waited for.
JoinDoneOrAbandoned ==
  /\ life.pc = "joining" /\ (Joined \/ life.cancelled)
  /\ life' = [life EXCEPT !.pc = "closing", !.code = exitCode]

\* The join is awaited, an abandoned one without a limit; the code is fixed here.
JoinDone ==
  /\ life.pc = "joining" /\ Joined
  /\ life' = [life EXCEPT !.pc = "closing", !.code = exitCode]

CloseNext ==
  /\ life.pc = "closing"
  /\ life' = IF life.closers = <<>> THEN [life EXCEPT !.pc = "exited"] ELSE CloseLast
----------------------------------------------------------------------------
(* The environment *)

\* A signal once registered; a full channel drops it.
Signal ==
  /\ life.step > 0 /\ life.pc \notin {"unwinding", "closing", "exited"}
  /\ life.signals < SigCap
  /\ life' = [life EXCEPT !.signals = @ + 1]

\* A runner returns, with or without an error: at its stop, at the
\* cancellation, or by itself.
RunnerReturns(r) ==
  /\ life.run[r] = "running"
  /\ \E out \in {"ok", "err"} : life' = [life EXCEPT !.run[r] = out]

LifeNext ==
  \/ StepDone \/ StepFails \/ unwind \/ serve \/ BySignal \/ latch \/ stopRunner
  \/ Abandon \/ JoinDone \/ CloseNext \/ Signal
  \/ \E r \in Runner : ByRunner(r) \/ RunnerReturns(r)

LifeSpec == LifeInit /\ [][LifeNext]_life

\* The process's own goroutine and its timer.
Main ==
  \/ StepDone \/ unwind \/ serve \/ BySignal \/ latch \/ stopRunner \/ Abandon \/ JoinDone \/ CloseNext
  \/ \E r \in Runner : ByRunner(r)

\* A runner whose context is cancelled returns.
GivesWay(r) == life.cancelled /\ RunnerReturns(r)
----------------------------------------------------------------------------
(* Properties *)

Alive(u) ==
  \/ u \in Runner /\ life.run[u] = "running"
  \/ u \in life.opened /\ u \notin Range(life.closed)

Ready == life.migrated /\ ~life.draining /\ "pool" \notin Range(life.closed)

\* Nothing is closed before every runner that works through it is gone and the
\* closer of every resource that does has returned, in a drain that hurries and in
\* an unwind from any step; and while the readiness
\* answer is yes no runner has been told to stop (assemble, serve.go).
ClosedAfterUsers ==
  /\ \A u \in DOMAIN Uses : Alive(u) => Uses[u] \cap Range(life.closed) = {}
  /\ Ready => life.told = {} /\ life.step >= Len(ConnectSteps)

\* A process that is over has closed exactly what it opened, each once.
\* A code of zero is a promise that every runner drained by itself without an
\* error, after being told to and before the budget ran out.
ExitTellsTheTruth ==
  /\ life.pc = "exited" => /\ Range(life.closed) = life.opened
                           /\ Len(life.closed) = Cardinality(life.opened)
  /\ life.code = 0 => /\ \A r \in Runner : life.run[r] = "ok"
                      /\ life.trigger = Nothing /\ ~life.cancelled

\* Once the process was asked to stop it exits, provided a cancelled runner
\* returns: a second signal or the budget always cancels one that ignores its
\* stop.
StopEnds == [](life.pc = "draining" => <>(life.pc = "exited"))
=============================================================================
