-------------------------------- MODULE Canary --------------------------------
(***************************************************************************)
(* The Telegram canary (package health, canary.go and probe.go): a tick    *)
(* loop that probes every leg at once, a recorder per leg that holds the   *)
(* last call's observation, and a shutdown that cancels and waits.         *)
(***************************************************************************)
EXTENDS Naturals

CONSTANTS
  Leg,        \* the configured legs; a disabled cloud leg is none
  MaxTicks    \* bound of the model: ticks

ASSUME CanaryAssumption == MaxTicks \in Nat

VARIABLES
  canary,     \* Canary: its loop and its shutdown
  probe,      \* per leg and tick: the probe of that tick
  recorder    \* per leg: statusRecorder, the last observation

canaryVars == <<canary, probe, recorder>>

Tick == 1..MaxTicks

NoObservation == [tick |-> 0, status |-> "none"]

CanaryInit ==
  /\ canary = [pc |-> "new", tick |-> 0, cancelled |-> FALSE, shut |-> "no"]
  /\ probe = [l \in Leg |-> [k \in Tick |-> [pc |-> "none", err |-> FALSE, status |-> "none", counted |-> "no"]]]
  /\ recorder = [l \in Leg |-> NoObservation]

\* One call of every leg begins, under a context of one interval.
Probing == [l \in Leg |-> [probe[l] EXCEPT ![canary.tick + 1].pc = "calling"]]

InTick == \E l \in Leg : probe[l][canary.tick].pc \in {"calling", "observed"}
----------------------------------------------------------------------------
\* Start: the first tick is at once.
StartCanary ==
  /\ canary.pc = "new" /\ MaxTicks > 0
  /\ canary' = [canary EXCEPT !.pc = "running", !.tick = 1]
  /\ probe' = Probing
  /\ UNCHANGED recorder

\* Mutant of NextTick: a tick does not wait for the last one's legs.
NextTickOverlapping ==
  /\ canary.pc = "running" /\ canary.tick < MaxTicks
  /\ canary' = [canary EXCEPT !.tick = @ + 1]
  /\ probe' = Probing
  /\ UNCHANGED recorder

\* The ticker's tick, once every leg of the last one has been awaited; a
\* cancelled loop may still draw it from the select.
NextTick ==
  /\ canary.pc = "running" /\ canary.tick < MaxTicks /\ ~InTick
  /\ canary' = [canary EXCEPT !.tick = @ + 1]
  /\ probe' = Probing
  /\ UNCHANGED recorder

\* getMe's one attempt is over and its observation recorded: answered with 200
\* or another status, truly or not, or without an answer: refused, cut off by the
\* interval, or cancelled.
CallOfLeg(l, k) ==
  /\ probe[l][k].pc = "calling"
  /\ \E out \in {[err |-> FALSE, status |-> "200"], [err |-> FALSE, status |-> "other"],
                 [err |-> TRUE, status |-> "200"], [err |-> TRUE, status |-> "other"],
                 [err |-> TRUE, status |-> "none"]} :
       /\ probe' = [probe EXCEPT ![l][k].pc = "observed", ![l][k].err = out.err, ![l][k].status = out.status]
       /\ recorder' = [recorder EXCEPT ![l] = [tick |-> k, status |-> out.status]]
  /\ UNCHANGED canary

\* Mutant of success: the status is not looked at.
successOfCall(l, k) == ~probe[l][k].err

\* Probe: no error, and the recorded status is 200.
success(l, k) == ~probe[l][k].err /\ recorder[l].status = "200"

probeLeg(l, k) ==
  /\ probe[l][k].pc = "observed"
  /\ probe' = [probe EXCEPT ![l][k].pc = "done", ![l][k].counted = IF success(l, k) THEN "success" ELSE "failure"]
  /\ UNCHANGED <<canary, recorder>>

\* Shutdown cancels, and waits for the loop to end or its own context.
ShutdownCanary ==
  /\ canary.shut = "no"
  /\ canary' = [canary EXCEPT !.cancelled = canary.pc # "new",
                              !.shut = IF canary.pc = "new" THEN "not started" ELSE "waiting"]
  /\ UNCHANGED <<probe, recorder>>

LoopEnds ==
  /\ canary.pc = "running" /\ canary.cancelled /\ ~InTick
  /\ canary' = [canary EXCEPT !.pc = "ended"]
  /\ UNCHANGED <<probe, recorder>>

ShutdownReturns ==
  /\ canary.shut = "waiting"
  /\ \/ canary.pc = "ended" /\ canary' = [canary EXCEPT !.shut = "nil"]
     \/ canary' = [canary EXCEPT !.shut = "expired"]
  /\ UNCHANGED <<probe, recorder>>

CanaryNext ==
  \/ StartCanary \/ NextTick \/ ShutdownCanary \/ LoopEnds \/ ShutdownReturns
  \/ \E l \in Leg, k \in Tick : CallOfLeg(l, k) \/ probeLeg(l, k)

CanarySpec == CanaryInit /\ [][CanaryNext]_canaryVars
----------------------------------------------------------------------------
(* Properties *)

\* Every probe is counted by what its own call came to, never by the
\* observation of another tick's call, and only a 200 without an error is a
\* success; after a shutdown that returned nil nothing is in flight any more
\* (statusRecorder's precondition, tick, Shutdown).
ProbesAreTheirOwn ==
  /\ \A l \in Leg, k \in Tick :
       /\ probe[l][k].pc = "observed" => recorder[l] = [tick |-> k, status |-> probe[l][k].status]
       /\ probe[l][k].pc = "done" =>
            (probe[l][k].counted = "success" <=> ~probe[l][k].err /\ probe[l][k].status = "200")
  /\ canary.shut = "nil" => ~\E l \in Leg, k \in Tick : probe[l][k].pc \in {"calling", "observed"}
=============================================================================
