--------------------------- MODULE Program_proofs ---------------------------
(***************************************************************************)
(* The parts a process is put together from, for every number of requests, *)
(* of callers, of ticks, of signals and of outbound calls: what the health *)
(* listener and the canary say is true; whatever ends the process, it      *)
(* closes what it opened in the right order and its exit code is true;     *)
(* calls keep the limits and act once; every ramp waits; and the settings  *)
(* that are accepted serve.                                                *)
(***************************************************************************)
EXTENDS Caller, Settings, Lifecycle, HealthServer, Canary, FiniteSetTheorems,
        SequenceTheorems, WellFoundedInduction, TLAPS
----------------------------------------------------------------------------
(* The listener: types; which errors its states go with; what was latched when
   the stop was over; and what each request has loaded. *)

ServerType ==
  server \in [state : {"new", "serving", "broken", "stopping"}, serveErr : {"none", "broken", "closed"},
              byCtx : SUBSET Stopper, done : BOOLEAN, latched : SUBSET {"none", "expired", "broken"},
              migrated : BOOLEAN, draining : BOOLEAN]

RequestType ==
  request \in [Request -> [pc : {"none", "migrated", "draining", "ping", "ready", "refused"},
                           bornDraining : BOOLEAN]]

WaitRows == [pc : {"out", "waiting", "returned"}, expired : BOOLEAN,
          result : SUBSET {"none", "expired", "broken", "not started"}]

StopperType ==
  stopper \in [Stopper -> WaitRows]

ServerState ==
  /\ server.state = "stopping" <=> server.byCtx # {}
  /\ server.state = "stopping" => server.serveErr \in {"closed", "broken"}
  /\ server.done => /\ server.state = "stopping"
                    /\ "broken" \in server.latched <=> server.serveErr = "broken"
                    /\ "expired" \notin server.latched => Open = {}

ResultsTold ==
  \A s \in Stopper : stopper[s].pc = "returned" =>
    \/ stopper[s].result \in {{"not started"}, {"expired"}}
    \/ server.done /\ stopper[s].result = server.latched

RequestsLoaded ==
  \A q \in Request :
    /\ request[q].bornDraining => server.draining
    /\ request[q].pc \in {"draining", "ping", "ready"} => server.migrated
    /\ request[q].pc \in {"ping", "ready"} => ~request[q].bornDraining

HealthInv ==
  /\ ServerType /\ RequestType /\ StopperType
  /\ ServerState /\ ResultsTold /\ RequestsLoaded

LEMMA HealthStart == HealthInit => HealthInv
<1> SUFFICES ASSUME HealthInit PROVE HealthInv
  OBVIOUS
<1>1. ServerType /\ RequestType /\ StopperType
  <2>1. [pc |-> "out", expired |-> FALSE, result |-> {}] \in WaitRows
    BY DEF WaitRows
  <2>2. ServerType
    BY DEF HealthInit, NewServer, ServerType
  <2>3. RequestType
    BY DEF HealthInit, RequestType
  <2> QED
    BY <2>1, <2>2, <2>3 DEF HealthInit, StopperType
<1>2. server.state = "new" /\ server.byCtx = {} /\ ~server.done
  BY DEF HealthInit, NewServer
<1>3. /\ \A q \in Request : request[q].pc = "none" /\ ~request[q].bornDraining
      /\ \A s \in Stopper : stopper[s].pc = "out"
  BY DEF HealthInit
<1>4. ServerState
  BY <1>2 DEF ServerState
<1> QED
  BY <1>1, <1>3, <1>4 DEF HealthInv, ResultsTold, RequestsLoaded

\* What a step of one request leaves alone.
LEMMA RequestFrame ==
  ASSUME HealthInv, server' = server, stopper' = stopper, RequestType', RequestsLoaded',
         server.done => Open' \subseteq Open
  PROVE  HealthInv'
<1>1. ServerType' /\ StopperType' /\ ResultsTold'
  BY DEF HealthInv, ServerType, StopperType, ResultsTold
<1>2. ServerState'
  BY DEF HealthInv, ServerState
<1> QED
  BY <1>1, <1>2 DEF HealthInv

\* What a step of one caller of Shutdown leaves alone.
LEMMA StopperFrame ==
  ASSUME HealthInv, server' = server, request' = request, StopperType', ResultsTold'
  PROVE  HealthInv'
<1>1. Open' = Open
  BY DEF Open
<1>2. ServerType' /\ RequestType' /\ ServerState' /\ RequestsLoaded'
  BY <1>1 DEF HealthInv, ServerType, RequestType, ServerState, RequestsLoaded
<1> QED
  BY <1>2 DEF HealthInv

\* A caller that goes on, or returns what it may.
LEMMA StopperStep ==
  ASSUME HealthInv, NEW s \in Stopper, NEW x \in WaitRows,
         server' = server, request' = request, stopper' = [stopper EXCEPT ![s] = x],
         x.pc = "returned" => \/ x.result \in {{"not started"}, {"expired"}}
                              \/ server.done /\ x.result = server.latched
  PROVE  HealthInv'
<1>1. StopperType' /\ stopper'[s] = x /\ \A t \in Stopper : t # s => stopper'[t] = stopper[t]
  BY DEF HealthInv, StopperType
<1>2. ResultsTold'
  BY <1>1 DEF HealthInv, ResultsTold
<1> QED
  BY <1>1, <1>2, StopperFrame

LEMMA RequestStep ==
  ASSUME HealthInv, NEW q \in Request, Arrive(q) \/ LoadMigrated(q) \/ LoadDraining(q) \/ Ping(q)
  PROVE  HealthInv'
<1>1. PICK x \in [pc : {"migrated", "draining", "ping", "ready", "refused"}, bornDraining : BOOLEAN] :
        /\ request' = [request EXCEPT ![q] = x]
        /\ server' = server /\ stopper' = stopper
        /\ x.bornDraining => server.draining
        /\ x.pc \in {"draining", "ping", "ready"} => server.migrated
        /\ x.pc \in {"ping", "ready"} => ~x.bornDraining
        /\ x.pc \in {"migrated", "draining", "ping"} => server.state = "serving" \/ q \in Open
  <2>1. CASE Arrive(q)
    <3> DEFINE x == [pc |-> "migrated", bornDraining |-> server.draining]
    <3>1. x \in [pc : {"migrated", "draining", "ping", "ready", "refused"}, bornDraining : BOOLEAN]
      BY DEF HealthInv, ServerType
    <3> QED
      BY <2>1, <3>1 DEF Arrive
  <2>2. ASSUME NEW pc \in {"draining", "ping", "ready", "refused"}, Handler(q, pc),
               server' = server, stopper' = stopper, q \in Open,
               pc \in {"draining", "ping", "ready"} => server.migrated,
               pc \in {"ping", "ready"} => ~request[q].bornDraining
        PROVE  \E x \in [pc : {"migrated", "draining", "ping", "ready", "refused"}, bornDraining : BOOLEAN] :
                 /\ request' = [request EXCEPT ![q] = x]
                 /\ server' = server /\ stopper' = stopper
                 /\ x.bornDraining => server.draining
                 /\ x.pc \in {"draining", "ping", "ready"} => server.migrated
                 /\ x.pc \in {"ping", "ready"} => ~x.bornDraining
                 /\ x.pc \in {"migrated", "draining", "ping"} => server.state = "serving" \/ q \in Open
    <3> DEFINE x == [request[q] EXCEPT !.pc = pc]
    <3>1. /\ x \in [pc : {"migrated", "draining", "ping", "ready", "refused"}, bornDraining : BOOLEAN]
          /\ x.pc = pc /\ x.bornDraining = request[q].bornDraining
      BY DEF HealthInv, RequestType
    <3>2. request' = [request EXCEPT ![q] = x]
      BY <2>2 DEF Handler
    <3> HIDE DEF x
    <3> QED
      BY <2>2, <3>1, <3>2 DEF HealthInv, RequestsLoaded
  <2>3. CASE LoadMigrated(q)
    BY <2>2, <2>3 DEF LoadMigrated, Open
  <2>4. CASE LoadDraining(q)
    <3>1. ~server.draining => ~request[q].bornDraining
      BY DEF HealthInv, RequestsLoaded
    <3>2. server.migrated
      BY <2>4 DEF LoadDraining, HealthInv, RequestsLoaded
    <3>3. PICK pc \in {"refused", "ping"} : Handler(q, pc) /\ (pc = "ping" => ~server.draining)
      BY <2>4 DEF LoadDraining
    <3> QED
      BY <2>2, <2>4, <3>1, <3>2, <3>3 DEF LoadDraining, Open
  <2>5. CASE Ping(q)
    <3>1. server.migrated /\ ~request[q].bornDraining
      BY <2>5 DEF Ping, HealthInv, RequestsLoaded
    <3> QED
      BY <2>2, <2>5, <3>1 DEF Ping, Open
  <2> QED
    BY <2>1, <2>3, <2>4, <2>5
<1>2. request'[q] = x /\ \A p \in Request : p # q => request'[p] = request[p]
  BY <1>1 DEF HealthInv, RequestType
<1>3. RequestType'
  BY <1>1 DEF HealthInv, RequestType
<1>4. RequestsLoaded'
  BY <1>1, <1>2 DEF HealthInv, RequestsLoaded
<1>5. server.done => Open' \subseteq Open
  <2>1. server.done => server.state # "serving"
    BY DEF HealthInv, ServerState
  <2> QED
    BY <1>1, <1>2, <2>1 DEF Open
<1> QED
  BY <1>1, <1>3, <1>4, <1>5, RequestFrame

LEMMA ShutdownStep ==
  ASSUME HealthInv, NEW s \in Stopper, Shutdown(s)
  PROVE  HealthInv'
<1>1. CASE server.state = "new"
  <2> DEFINE told == {"not started"}
             x == [stopper[s] EXCEPT !.pc = "returned", !.result = told]
  <2>1. stopper' = [stopper EXCEPT ![s] = x] /\ server' = server /\ request' = request
    BY <1>1 DEF Shutdown
  <2>2. told \in SUBSET {"none", "expired", "broken", "not started"}
    OBVIOUS
  <2> HIDE DEF told
  <2>3. x \in WaitRows /\ x.result = told
    BY <2>2 DEF HealthInv, StopperType, WaitRows
  <2> HIDE DEF x
  <2> QED
    BY <2>1, <2>3, StopperStep DEF told
<1>2. CASE server.state # "new" /\ server.byCtx # {}
  <2> DEFINE x == [stopper[s] EXCEPT !.pc = "waiting"]
  <2>1. stopper' = [stopper EXCEPT ![s] = x] /\ server' = server /\ request' = request
    BY <1>2 DEF Shutdown
  <2>2. x \in WaitRows /\ x.pc = "waiting"
    BY DEF HealthInv, StopperType, WaitRows
  <2> HIDE DEF x
  <2> QED
    BY <2>1, <2>2, StopperStep
<1>3. CASE server.state # "new" /\ server.byCtx = {}
  <2> DEFINE e == IF server.serveErr = "broken" THEN "broken" ELSE "closed"
  <2>1. /\ stopper' = [stopper EXCEPT ![s].pc = "waiting"] /\ request' = request
        /\ server' = [server EXCEPT !.state = "stopping", !.byCtx = {s}, !.serveErr = e]
    BY <1>3 DEF Shutdown
  <2>2. e \in {"broken", "closed"}
    OBVIOUS
  <2> HIDE DEF e
  <2>3. /\ ServerType' /\ server'.state = "stopping" /\ server'.byCtx = {s} /\ server'.serveErr = e
        /\ server'.done = server.done /\ server'.migrated = server.migrated
        /\ server'.draining = server.draining
    BY <2>1, <2>2 DEF HealthInv, ServerType
  <2>4. ~server.done
    BY <1>3 DEF HealthInv, ServerState
  <2>5. ServerState'
    BY <2>2, <2>3, <2>4 DEF ServerState
  <2>6. StopperType' /\ ResultsTold'
    <3> DEFINE x == [stopper[s] EXCEPT !.pc = "waiting"]
    <3>1. x \in WaitRows /\ x.pc = "waiting" /\ stopper' = [stopper EXCEPT ![s] = x]
      BY <2>1 DEF HealthInv, StopperType, WaitRows
    <3> HIDE DEF x
    <3>2. StopperType' /\ stopper'[s] = x /\ \A t \in Stopper : t # s => stopper'[t] = stopper[t]
      BY <3>1 DEF HealthInv, StopperType
    <3> QED
      BY <2>4, <3>1, <3>2 DEF HealthInv, ResultsTold
  <2>7. RequestType' /\ RequestsLoaded'
    BY <2>1, <2>3 DEF HealthInv, RequestType, RequestsLoaded
  <2> QED
    BY <2>3, <2>5, <2>6, <2>7 DEF HealthInv
<1> QED
  BY <1>1, <1>2, <1>3

LEMMA StoppedStep ==
  ASSUME HealthInv, Stopped
  PROVE  HealthInv'
<1>1. PICK errs \in {{}, {"expired"}} :
        /\ errs = {} => Open = {}
        /\ server' = [server EXCEPT !.done = TRUE, !.latched = joined(errs)]
        /\ server.state = "stopping" /\ ~server.done /\ request' = request /\ stopper' = stopper
  BY DEF Stopped
<1> DEFINE told == joined(errs)
<1>2. /\ told \in SUBSET {"none", "expired", "broken"}
      /\ "broken" \in told <=> server.serveErr = "broken"
      /\ "expired" \notin told => Open = {}
  BY <1>1 DEF joined, HealthInv, ServerType, ServerState
<1> HIDE DEF told
<1>3. /\ ServerType' /\ server'.state = server.state /\ server'.byCtx = server.byCtx
      /\ server'.serveErr = server.serveErr /\ server'.done /\ server'.latched = told
      /\ server'.migrated = server.migrated /\ server'.draining = server.draining
  BY <1>1, <1>2 DEF HealthInv, ServerType, told
<1>4. Open' = Open
  BY <1>1 DEF Open
<1>5. ServerState'
  BY <1>1, <1>2, <1>3, <1>4 DEF HealthInv, ServerState
<1>6. StopperType' /\ ResultsTold'
  BY <1>1, <1>3 DEF HealthInv, StopperType, ResultsTold
<1>7. RequestType' /\ RequestsLoaded'
  BY <1>1, <1>3 DEF HealthInv, RequestType, RequestsLoaded
<1> QED
  BY <1>3, <1>5, <1>6, <1>7 DEF HealthInv

LEMMA HealthStep == HealthInv /\ [HealthNext]_healthVars => HealthInv'
<1> SUFFICES ASSUME HealthInv, [HealthNext]_healthVars PROVE HealthInv'
  OBVIOUS
<1>1. CASE UNCHANGED healthVars
  BY <1>1, StopperFrame DEF healthVars, HealthInv, StopperType, ResultsTold
<1>2. CASE Start \/ setMigrated \/ setDraining \/ Breaks
  <2>1. /\ request' = request /\ stopper' = stopper /\ ~(server.done /\ server.state # server'.state)
        /\ server'.byCtx = server.byCtx /\ server'.done = server.done /\ server'.latched = server.latched
        /\ server.migrated => server'.migrated
        /\ server.draining => server'.draining
        /\ \/ server'.state = server.state /\ server'.serveErr = server.serveErr
           \/ server'.state # "stopping" /\ server.state # "stopping"
        /\ ServerType'
    BY <1>2 DEF Start, setMigrated, setDraining, Breaks, HealthInv, ServerType, ServerState
  <2>2. Open' = Open
    BY <2>1 DEF Open
  <2>3. ServerState'
    BY <2>1, <2>2 DEF HealthInv, ServerState
  <2>4. RequestType' /\ StopperType' /\ ResultsTold' /\ RequestsLoaded'
    BY <2>1 DEF HealthInv, RequestType, StopperType, ResultsTold, RequestsLoaded
  <2> QED
    BY <2>1, <2>3, <2>4 DEF HealthInv
<1>3. ASSUME NEW s \in Stopper, Expire(s) PROVE HealthInv'
  <2> DEFINE x == [stopper[s] EXCEPT !.expired = TRUE]
  <2>1. stopper' = [stopper EXCEPT ![s] = x] /\ server' = server /\ request' = request
    BY <1>3 DEF Expire
  <2>2. x \in WaitRows /\ x.pc = "waiting"
    BY <1>3 DEF HealthInv, StopperType, WaitRows, Expire
  <2> HIDE DEF x
  <2> QED
    BY <2>1, <2>2, StopperStep
<1>4. ASSUME NEW s \in Stopper, Return(s) PROVE HealthInv'
  <2>1. PICK told \in SUBSET {"none", "expired", "broken", "not started"} :
          /\ stopper' = [stopper EXCEPT ![s].pc = "returned", ![s].result = told]
          /\ told = {"expired"} \/ (server.done /\ told = server.latched)
    <3>1. server.latched \in SUBSET {"none", "expired", "broken", "not started"}
      BY DEF HealthInv, ServerType
    <3>2. {"expired"} \in SUBSET {"none", "expired", "broken", "not started"}
      OBVIOUS
    <3> QED
      BY <1>4, <3>1, <3>2 DEF Return
  <2> DEFINE x == [stopper[s] EXCEPT !.pc = "returned", !.result = told]
  <2>2. stopper' = [stopper EXCEPT ![s] = x] /\ server' = server /\ request' = request
    BY <1>4, <2>1 DEF Return
  <2>3. x \in WaitRows /\ x.result = told
    BY DEF HealthInv, StopperType, WaitRows
  <2> HIDE DEF x
  <2> QED
    BY <2>1, <2>2, <2>3, StopperStep
<1> QED
  BY <1>1, <1>2, <1>3, <1>4, RequestStep, ShutdownStep, StoppedStep DEF HealthNext

\* Whoever shuts the listener down, however many do and whosever context runs
\* out, a clean answer means that no request is open and that the listener had
\* not broken; and a readiness answer given is one that was true
\* (Server.Shutdown, readiness.Ready).
THEOREM ListenerIsHonestTheorem == HealthSpec => []ListenerIsHonest
<1>1. HealthInv => ListenerIsHonest
  <2> SUFFICES ASSUME HealthInv PROVE ShutdownTold /\ ReadyAnswersAreTrue
    BY DEF ListenerIsHonest
  <2>1. ReadyAnswersAreTrue
    BY DEF HealthInv, RequestsLoaded, ReadyAnswersAreTrue
  <2>2. ASSUME NEW s \in Stopper, Clean(s)
        PROVE  server.done /\ server.latched = {} /\ Open = {} /\ server.serveErr # "broken"
    BY <2>2 DEF HealthInv, ResultsTold, ServerState, Clean
  <2>3. ASSUME NEW s \in Stopper, NEW t \in Stopper, Clean(s), stopper[t].pc = "returned"
        PROVE  stopper[t].result \in {{}, {"expired"}, {"not started"}}
    BY <2>2, <2>3 DEF HealthInv, ResultsTold
  <2> QED
    BY <2>1, <2>2, <2>3 DEF ShutdownTold
<1> QED
  BY <1>1, HealthStart, HealthStep, PTL DEF HealthSpec
----------------------------------------------------------------------------
(* The canary: only the probes of the current tick are in flight, and each leg's
   recorder is its own call's until the probe has read it. *)

Probes == [pc : {"none", "calling", "observed", "done"}, err : BOOLEAN,
           status : {"none", "200", "other"}, counted : {"no", "success", "failure"}]

CanaryType ==
  /\ canary \in [pc : {"new", "running", "ended"}, tick : 0 .. MaxTicks, cancelled : BOOLEAN,
                 shut : {"no", "waiting", "nil", "expired", "not started"}]
  /\ probe \in [Leg -> [Tick -> Probes]]
  /\ recorder \in [Leg -> [tick : 0 .. MaxTicks, status : {"none", "200", "other"}]]

InFlight(l, k) == probe[l][k].pc \in {"calling", "observed"}

\* What probe r of the tick k goes by: the leg's recorder seen, and its count.
Honest(r, seen, k) ==
  /\ r.pc = "observed" => seen = [tick |-> k, status |-> r.status]
  /\ r.pc = "done" => (r.counted = "success" <=> ~r.err /\ r.status = "200")

LoopState ==
  /\ canary.pc = "new" <=> canary.tick = 0
  /\ canary.shut = "nil" => canary.pc = "ended"

OnlyThisTick ==
  \A l \in Leg, k \in Tick :
    /\ k > canary.tick => probe[l][k].pc = "none"
    /\ InFlight(l, k) => k = canary.tick /\ canary.pc = "running"

AllHonest == \A l \in Leg, k \in Tick : Honest(probe[l][k], recorder[l], k)

CanaryInv == CanaryType /\ LoopState /\ OnlyThisTick /\ AllHonest

\* What the type of the canary's state says of its parts.
LEMMA CanaryParts ==
  ASSUME CanaryType
  PROVE  /\ MaxTicks \in Nat /\ canary.tick \in 0 .. MaxTicks /\ Tick \subseteq Nat \ {0}
         /\ \A k \in Tick : k \in 0 .. MaxTicks
         /\ \A l \in Leg : probe[l] \in [Tick -> Probes]
         /\ \A l \in Leg, k \in Tick : probe[l][k] \in Probes
<1>1. MaxTicks \in Nat
  BY CanaryAssumption
<1>2. canary.tick \in 0 .. MaxTicks
  BY DEF CanaryType
<1>3. \A l \in Leg : probe[l] \in [Tick -> Probes]
  BY DEF CanaryType
<1>4. Tick \subseteq Nat \ {0} /\ \A k \in Tick : k \in 0 .. MaxTicks
  BY <1>1 DEF Tick
<1> HIDE DEF Tick
<1> QED
  BY <1>1, <1>2, <1>3, <1>4

LEMMA CanaryStart == CanaryInit => CanaryInv
<1> SUFFICES ASSUME CanaryInit PROVE CanaryInv
  OBVIOUS
<1>1. MaxTicks \in Nat
  BY CanaryAssumption
<1>2. CanaryType
  <2>1. NoObservation \in [tick : 0 .. MaxTicks, status : {"none", "200", "other"}]
    BY <1>1 DEF NoObservation
  <2>2. [pc |-> "none", err |-> FALSE, status |-> "none", counted |-> "no"] \in Probes
    BY DEF Probes
  <2> QED
    BY <1>1, <2>1, <2>2 DEF CanaryInit, CanaryType
<1>3. LoopState /\ \A l \in Leg, k \in Tick : probe[l][k].pc = "none"
  BY DEF CanaryInit, LoopState
<1> QED
  BY <1>2, <1>3 DEF CanaryInv, OnlyThisTick, AllHonest, Honest, InFlight

\* A step that moves only the loop and its shutdown, and ends it only with
\* nothing in flight.
LEMMA LoopStep ==
  ASSUME CanaryInv, probe' = probe, recorder' = recorder, CanaryType', LoopState',
         canary'.tick = canary.tick,
         canary'.pc # canary.pc => ~ \E l \in Leg, k \in Tick : InFlight(l, k)
  PROVE  CanaryInv'
<1>1. OnlyThisTick'
  BY DEF CanaryInv, OnlyThisTick, InFlight
<1>2. AllHonest'
  BY DEF CanaryInv, AllHonest
<1> QED
  BY <1>1, <1>2 DEF CanaryInv

\* The probes of the next tick begin, when none is in flight.
LEMMA TickStep ==
  ASSUME CanaryInv, probe' = Probing, recorder' = recorder, canary.tick < MaxTicks,
         ~ \E l \in Leg, k \in Tick : InFlight(l, k),
         canary' = [canary EXCEPT !.pc = "running", !.tick = canary.tick + 1],
         canary.shut # "nil"
  PROVE  CanaryInv'
<1> DEFINE now == canary.tick + 1
           begun(l) == [probe[l][now] EXCEPT !.pc = "calling"]
<1>1. CanaryType
  BY DEF CanaryInv
<1>2. canary.tick \in 0 .. MaxTicks /\ MaxTicks \in Nat
  BY <1>1, CanaryParts
<1>3. now \in Tick /\ now \in 0 .. MaxTicks /\ now # 0
  BY <1>2 DEF Tick
<1>4. /\ canary' \in [pc : {"new", "running", "ended"}, tick : 0 .. MaxTicks, cancelled : BOOLEAN,
                      shut : {"no", "waiting", "nil", "expired", "not started"}]
      /\ canary'.tick = now /\ canary'.pc = "running" /\ canary'.shut = canary.shut
  BY <1>1, <1>3 DEF CanaryType
<1>5. \A l \in Leg : begun(l) \in Probes /\ begun(l).pc = "calling"
  <2> SUFFICES ASSUME NEW l \in Leg PROVE begun(l) \in Probes /\ begun(l).pc = "calling"
    OBVIOUS
  <2>1. probe[l][now] \in Probes
    BY <1>1, <1>3, CanaryParts
  <2> QED
    BY <2>1 DEF Probes
<1>6. probe' = [l \in Leg |-> [probe[l] EXCEPT ![now] = begun(l)]]
  BY DEF Probing
<1> HIDE DEF now, begun
<1>7. \A l \in Leg : probe[l] \in [Tick -> Probes]
  BY <1>1, CanaryParts
<1>8. /\ probe' \in [Leg -> [Tick -> Probes]]
      /\ \A l \in Leg, k \in Tick :
           /\ k # now => probe'[l][k] = probe[l][k]
           /\ k = now => probe'[l][k].pc = "calling"
  BY <1>3, <1>5, <1>6, <1>7
<1>9. CanaryType'
  BY <1>1, <1>4, <1>8 DEF CanaryType
<1>10. LoopState'
  BY <1>3, <1>4 DEF LoopState
<1>11. \A k \in Tick : k \in Nat /\ (k > now => k # now /\ k > canary.tick)
  BY <1>1, <1>2, CanaryParts DEF now
<1>12. OnlyThisTick'
  <2> SUFFICES ASSUME NEW l \in Leg, NEW k \in Tick
               PROVE  /\ k > canary'.tick => probe'[l][k].pc = "none"
                      /\ probe'[l][k].pc \in {"calling", "observed"} => k = canary'.tick /\ canary'.pc = "running"
    BY DEF OnlyThisTick, InFlight
  <2>1. k > now => probe'[l][k].pc = "none"
    BY <1>8, <1>11 DEF CanaryInv, OnlyThisTick
  <2>2. k # now => probe'[l][k].pc \notin {"calling", "observed"}
    BY <1>8 DEF InFlight
  <2> QED
    BY <1>4, <2>1, <2>2
<1>13. AllHonest'
  <2> SUFFICES ASSUME NEW l \in Leg, NEW k \in Tick PROVE Honest(probe'[l][k], recorder[l], k)
    BY DEF AllHonest
  <2>1. CASE k = now
    BY <1>8, <2>1 DEF Honest
  <2>2. CASE k # now
    BY <1>8, <2>2 DEF CanaryInv, AllHonest
  <2> QED
    BY <2>1, <2>2
<1> QED
  BY <1>9, <1>10, <1>12, <1>13 DEF CanaryInv

\* The probe of leg l that is in flight goes on to x.
LEMMA ProbeStep ==
  ASSUME CanaryInv, NEW l \in Leg, NEW k \in Tick, InFlight(l, k), NEW x \in Probes,
         canary' = canary, probe' = [probe EXCEPT ![l] = [probe[l] EXCEPT ![k] = x]],
         recorder' \in [Leg -> [tick : 0 .. MaxTicks, status : {"none", "200", "other"}]],
         \A m \in Leg : m # l => recorder'[m] = recorder[m],
         Honest(x, recorder'[l], k)
  PROVE  CanaryInv'
<1>1. CanaryType /\ OnlyThisTick /\ AllHonest
  BY DEF CanaryInv
<1>2. probe \in [Leg -> [Tick -> Probes]]
  BY <1>1 DEF CanaryType
<1>3. /\ probe' \in [Leg -> [Tick -> Probes]] /\ probe'[l][k] = x
      /\ \A m \in Leg, j \in Tick : m # l \/ j # k => probe'[m][j] = probe[m][j]
  BY <1>2
<1>4. CanaryType' /\ LoopState'
  BY <1>1, <1>3 DEF CanaryInv, CanaryType, LoopState
<1>5. k = canary.tick /\ canary.pc = "running"
  BY <1>1 DEF OnlyThisTick
<1>6. k \in Nat
  BY <1>1, CanaryParts
<1>7. OnlyThisTick'
  <2> SUFFICES ASSUME NEW m \in Leg, NEW j \in Tick
               PROVE  /\ j > canary'.tick => probe'[m][j].pc = "none"
                      /\ InFlight(m, j)' => j = canary'.tick /\ canary'.pc = "running"
    BY DEF OnlyThisTick
  <2>1. CASE m = l /\ j = k
    BY <1>5, <1>6, <2>1
  <2>2. CASE m # l \/ j # k
    BY <1>1, <1>3, <2>2 DEF OnlyThisTick, InFlight
  <2> QED
    BY <2>1, <2>2
<1>8. AllHonest'
  <2> SUFFICES ASSUME NEW m \in Leg, NEW j \in Tick PROVE Honest(probe'[m][j], recorder'[m], j)
    BY DEF AllHonest
  <2>1. CASE m = l /\ j = k
    BY <1>3, <2>1
  <2>2. CASE m = l /\ j # k
    <3>1. probe'[m][j] = probe[l][j] /\ probe[l][j].pc # "observed"
      BY <1>1, <1>3, <1>5, <2>2 DEF OnlyThisTick, InFlight
    <3>2. Honest(probe[l][j], recorder[l], j)
      BY <1>1 DEF AllHonest
    <3> QED
      BY <3>1, <3>2 DEF Honest
  <2>3. CASE m # l
    BY <1>1, <1>3, <2>3 DEF AllHonest
  <2> QED
    BY <2>1, <2>2, <2>3
<1> QED
  BY <1>4, <1>7, <1>8 DEF CanaryInv

LEMMA CallOfLegStep ==
  ASSUME CanaryInv, NEW l \in Leg, NEW k \in Tick, CallOfLeg(l, k)
  PROVE  CanaryInv'
<1>1. PICK out \in [err : BOOLEAN, status : {"none", "200", "other"}] :
        /\ probe' = [probe EXCEPT ![l][k].pc = "observed", ![l][k].err = out.err, ![l][k].status = out.status]
        /\ recorder' = [recorder EXCEPT ![l] = [tick |-> k, status |-> out.status]]
  <2>1. {[err |-> FALSE, status |-> "200"], [err |-> FALSE, status |-> "other"],
         [err |-> TRUE, status |-> "200"], [err |-> TRUE, status |-> "other"],
         [err |-> TRUE, status |-> "none"]} \subseteq [err : BOOLEAN, status : {"none", "200", "other"}]
    OBVIOUS
  <2> QED
    BY <2>1, Zenon DEF CallOfLeg
<1>2. CanaryType
  BY DEF CanaryInv
<1>3. /\ probe \in [Leg -> [Tick -> Probes]] /\ probe[l] \in [Tick -> Probes] /\ probe[l][k] \in Probes
      /\ k \in 0 .. MaxTicks
      /\ recorder \in [Leg -> [tick : 0 .. MaxTicks, status : {"none", "200", "other"}]]
  BY <1>2, CanaryParts DEF CanaryType
<1> DEFINE x == [[[probe[l][k] EXCEPT !.pc = "observed"] EXCEPT !.err = out.err] EXCEPT !.status = out.status]
           seen == [tick |-> k, status |-> out.status]
<1>4. probe' = [probe EXCEPT ![l] = [probe[l] EXCEPT ![k] = x]]
  BY <1>1, <1>3, Zenon
<1>5. out.err \in BOOLEAN /\ out.status \in {"none", "200", "other"}
  OBVIOUS
<1>6. x \in Probes /\ x.pc = "observed" /\ x.status = out.status
  BY <1>3, <1>5 DEF Probes
<1>7. seen \in [tick : 0 .. MaxTicks, status : {"none", "200", "other"}]
  BY <1>3, <1>5
<1>8. Honest(x, seen, k)
  BY <1>6 DEF Honest
<1> HIDE DEF x, seen
<1>9. /\ recorder' \in [Leg -> [tick : 0 .. MaxTicks, status : {"none", "200", "other"}]]
      /\ recorder'[l] = seen /\ \A m \in Leg : m # l => recorder'[m] = recorder[m]
  BY <1>1, <1>3, <1>7 DEF seen
<1>10. InFlight(l, k) /\ canary' = canary
  BY DEF CallOfLeg, InFlight
<1> QED
  BY <1>4, <1>6, <1>8, <1>9, <1>10, ProbeStep

LEMMA ProbeLegStep ==
  ASSUME CanaryInv, NEW l \in Leg, NEW k \in Tick, probeLeg(l, k)
  PROVE  CanaryInv'
<1> DEFINE counted == IF success(l, k) THEN "success" ELSE "failure"
           x == [[probe[l][k] EXCEPT !.pc = "done"] EXCEPT !.counted = counted]
<1>1. CanaryType
  BY DEF CanaryInv
<1>2. /\ probe \in [Leg -> [Tick -> Probes]] /\ probe[l] \in [Tick -> Probes] /\ probe[l][k] \in Probes
      /\ recorder \in [Leg -> [tick : 0 .. MaxTicks, status : {"none", "200", "other"}]]
  BY <1>1, CanaryParts DEF CanaryType
<1>3. recorder[l].status = probe[l][k].status
  <2>1. probe[l][k].pc = "observed" /\ Honest(probe[l][k], recorder[l], k)
    BY DEF probeLeg, CanaryInv, AllHonest
  <2> QED
    BY <2>1 DEF Honest
<1>4. counted = "success" <=> ~probe[l][k].err /\ probe[l][k].status = "200"
  BY <1>3, Zenon DEF success
<1>5. probe' = [probe EXCEPT ![l] = [probe[l] EXCEPT ![k] = x]]
  BY <1>2, Zenon DEF probeLeg
<1>6. counted \in {"success", "failure"}
  OBVIOUS
<1> HIDE DEF counted
<1>7. x \in Probes /\ x.pc = "done" /\ x.counted = counted /\ x.err = probe[l][k].err
      /\ x.status = probe[l][k].status
  BY <1>2, <1>6 DEF Probes
<1> HIDE DEF x
<1>8. Honest(x, recorder[l], k)
  BY <1>4, <1>7 DEF Honest
<1>9. InFlight(l, k) /\ canary' = canary /\ recorder' = recorder
  BY DEF probeLeg, InFlight
<1> QED
  BY <1>2, <1>5, <1>7, <1>8, <1>9, ProbeStep

LEMMA CanaryStep == CanaryInv /\ [CanaryNext]_canaryVars => CanaryInv'
<1> SUFFICES ASSUME CanaryInv, [CanaryNext]_canaryVars PROVE CanaryInv'
  OBVIOUS
<1>1. CASE UNCHANGED canaryVars
  BY <1>1 DEF canaryVars, CanaryInv, CanaryType, LoopState, OnlyThisTick, AllHonest, InFlight
<1>2. CASE StartCanary
  <2>1. canary.tick = 0 /\ canary.pc = "new" /\ canary.shut # "nil" /\ MaxTicks \in Nat
    BY <1>2, CanaryAssumption DEF StartCanary, CanaryInv, LoopState
  <2>2. canary' = [canary EXCEPT !.pc = "running", !.tick = canary.tick + 1]
    BY <1>2, <2>1 DEF StartCanary
  <2>3. ~ \E l \in Leg, k \in Tick : InFlight(l, k)
    BY <2>1 DEF CanaryInv, OnlyThisTick
  <2> QED
    BY <1>2, <2>1, <2>2, <2>3, TickStep DEF StartCanary
<1>3. CASE NextTick
  <2>1. canary.pc = "running" /\ canary.shut # "nil"
    BY <1>3 DEF NextTick, CanaryInv, LoopState
  <2>2. canary' = [canary EXCEPT !.pc = "running", !.tick = canary.tick + 1]
    BY <1>3, <2>1 DEF NextTick, CanaryInv, CanaryType
  <2>3. ~ \E l \in Leg, k \in Tick : InFlight(l, k)
    BY <1>3 DEF NextTick, InTick, CanaryInv, OnlyThisTick, InFlight
  <2> QED
    BY <1>3, <2>1, <2>2, <2>3, TickStep DEF NextTick
<1>4. CASE ShutdownCanary
  <2>1. CanaryType' /\ canary'.tick = canary.tick /\ canary'.pc = canary.pc /\ LoopState'
    BY <1>4 DEF ShutdownCanary, CanaryInv, CanaryType, LoopState
  <2> QED
    BY <1>4, <2>1, LoopStep DEF ShutdownCanary
<1>5. CASE LoopEnds
  <2>1. CanaryType' /\ canary'.tick = canary.tick /\ LoopState'
    BY <1>5 DEF LoopEnds, CanaryInv, CanaryType, LoopState
  <2>2. ~ \E l \in Leg, k \in Tick : InFlight(l, k)
    BY <1>5 DEF LoopEnds, InTick, CanaryInv, OnlyThisTick, InFlight
  <2> QED
    BY <1>5, <2>1, <2>2, LoopStep DEF LoopEnds
<1>6. CASE ShutdownReturns
  <2>1. CanaryType' /\ canary'.tick = canary.tick /\ canary'.pc = canary.pc
        /\ LoopState'
    BY <1>6 DEF ShutdownReturns, CanaryInv, CanaryType, LoopState
  <2> QED
    BY <1>6, <2>1, LoopStep DEF ShutdownReturns
<1> QED
  BY <1>1, <1>2, <1>3, <1>4, <1>5, <1>6, CallOfLegStep, ProbeLegStep DEF CanaryNext

\* However the ticks, the legs' answers and a shutdown fall, a probe is counted
\* by its own call's observation, and a shutdown that returned nil leaves nothing
\* in flight (Canary.tick, statusRecorder, Canary.Shutdown).
THEOREM ProbesAreTheirOwnTheorem == CanarySpec => []ProbesAreTheirOwn
<1>1. CanaryInv => ProbesAreTheirOwn
  <2> SUFFICES ASSUME CanaryInv PROVE ProbesAreTheirOwn
    OBVIOUS
  <2>1. canary.shut = "nil" => ~ \E l \in Leg, k \in Tick : probe[l][k].pc \in {"calling", "observed"}
    BY DEF CanaryInv, LoopState, OnlyThisTick, InFlight
  <2> QED
    BY <2>1, Zenon DEF CanaryInv, AllHonest, Honest, ProbesAreTheirOwn
<1> QED
  BY <1>1, CanaryStart, CanaryStep, PTL DEF CanarySpec
----------------------------------------------------------------------------
(* The process: its closers are a prefix of the resources in the order they are
   opened, what is closed is the rest from the last one back. *)

resources ==
  << "signal registration", "pool", "health listener", "liveness final write", "http client", "canary" >>

Resource ==
  {"signal registration", "pool", "health listener", "liveness final write", "http client", "canary"}

\* How many of them the first n steps have opened.
opensAfter(n) == << 0, 1, 1, 2, 2, 2, 3, 3, 4, 4, 5, 5, 5, 6 >>[n + 1]

LifeRows ==
  [pc : {"assembling", "unwinding", "serving", "draining", "stopping", "joining", "closing", "exited"},
   step : 0 .. 13, closers : Seq(Resource), opened : SUBSET Resource, closed : Seq(Resource),
   migrated : BOOLEAN, draining : BOOLEAN, run : [Runner -> {"none", "running", "ok", "err"}],
   told : SUBSET Runner, signals : Nat, trigger : Runner \cup {Nothing}, cancelled : BOOLEAN,
   code : {-1, 0, 1}]

Stack ==
  LET m == opensAfter(life.step)
  IN  /\ Len(life.closers) + Len(life.closed) = m
      /\ \A i \in 1 .. Len(life.closers) : life.closers[i] = resources[i]
      /\ \A i \in 1 .. Len(life.closed) : life.closed[i] = resources[m + 1 - i]
      /\ life.opened = {resources[i] : i \in 1..m}

Phase ==
  /\ life.pc \notin {"unwinding", "closing", "exited"} => Len(life.closed) = 0
  /\ life.pc = "exited" => Len(life.closers) = 0
  /\ life.migrated <=> life.step >= 7
  /\ ~life.draining => life.told = {}
  /\ life.pc \in {"assembling", "serving", "draining"} => ~life.draining
  /\ life.pc \in {"stopping", "joining", "closing"} => life.draining
  /\ life.pc \in {"serving", "draining", "stopping", "joining", "closing"} => life.step = 13
  /\ life.pc = "stopping" => life.told \in {{}, {"ingest loop"}, {"ingest loop", "scheduler worker"}}

Promise ==
  /\ \A r \in Runner : life.run[r] = "running" => life.pc \in {"serving", "draining", "stopping", "joining"}
  /\ life.code = 0 => /\ life.pc \in {"closing", "exited"} /\ \A r \in Runner : life.run[r] = "ok"
                      /\ life.trigger = Nothing /\ ~life.cancelled

LifeInv == life \in LifeRows /\ Stack /\ Phase /\ Promise

\* The resources are six, no two alike.
LEMMA ResourcesAre ==
  /\ \A i \in 1..6 : resources[i] \in Resource
  /\ \A i, j \in 1..6 : resources[i] = resources[j] => i = j
  /\ \A u \in Resource : \E i \in 1..6 : u = resources[i]
BY DEF resources, Resource

\* How many resources are open after each step, six in the end.
LEMMA OpensAre ==
  /\ opensAfter(0) = 0 /\ opensAfter(1) = 1 /\ opensAfter(2) = 1 /\ opensAfter(3) = 2
  /\ opensAfter(4) = 2 /\ opensAfter(5) = 2 /\ opensAfter(6) = 3 /\ opensAfter(7) = 3
  /\ opensAfter(8) = 4 /\ opensAfter(9) = 4 /\ opensAfter(10) = 5 /\ opensAfter(11) = 5
  /\ opensAfter(12) = 5 /\ opensAfter(13) = 6
BY DEF opensAfter

LEMMA OpensIsBounded == \A n \in 0..13 : opensAfter(n) \in 0..6
<1> SUFFICES ASSUME NEW n \in 0..13 PROVE opensAfter(n) \in 0..6
  OBVIOUS
<1>1. \/ n = 0 \/ n = 1 \/ n = 2 \/ n = 3 \/ n = 4 \/ n = 5 \/ n = 6
      \/ n = 7 \/ n = 8 \/ n = 9 \/ n = 10 \/ n = 11 \/ n = 12 \/ n = 13
  OBVIOUS
<1> QED
  BY <1>1, OpensAre

LEMMA StepIs ==
  ASSUME NEW s, NEW a, NEW b, NEW c, s = Step(a, b, c)
  PROVE  s.name = a /\ s.opens = b
BY DEF Step

LEMMA SevenAre ==
  ASSUME NEW a, NEW b, NEW c, NEW d, NEW e, NEW f, NEW g, NEW S, {a, b, c, d, e, f, g} \subseteq S
  PROVE  <<a, b, c, d, e, f, g>> \in Seq(S) /\ Len(<<a, b, c, d, e, f, g>>) = 7
OBVIOUS

LEMMA SixAre ==
  ASSUME NEW a, NEW b, NEW c, NEW d, NEW e, NEW f, NEW S, {a, b, c, d, e, f} \subseteq S
  PROVE  <<a, b, c, d, e, f>> \in Seq(S) /\ Len(<<a, b, c, d, e, f>>) = 6
OBVIOUS

\* Where the start-up steps stand.
LEMMA StepsConcat ==
  ASSUME NEW S, ConnectSteps \in Seq(S), Len(ConnectSteps) = 7, ServeSteps \in Seq(S), Len(ServeSteps) = 6
  PROVE  /\ Len(Steps) = 13
         /\ \A i \in 1..7 : Steps[i] = ConnectSteps[i]
         /\ \A i \in 8..13 : Steps[i] = ServeSteps[i - 7]
<1>1. Steps = ConnectSteps \o ServeSteps
  BY Zenon DEF Steps
<1>2. /\ Len(Steps) = Len(ConnectSteps) + Len(ServeSteps)
      /\ \A i \in 1 .. Len(ConnectSteps) + Len(ServeSteps) :
           Steps[i] = IF i <= Len(ConnectSteps) THEN ConnectSteps[i] ELSE ServeSteps[i - Len(ConnectSteps)]
  BY <1>1, ConcatProperties, Zenon
<1>3. Len(Steps) = 13
  BY <1>2
<1>4. \A i \in 1..7 : Steps[i] = ConnectSteps[i]
  BY <1>2
<1>5. \A i \in 8..13 : Steps[i] = ServeSteps[i - 7]
  BY <1>2
<1> QED
  BY <1>3, <1>4, <1>5

\* Every start-up step opens nothing, or the next of the resources; the seventh is
\* the migrations.
LEMMA StepsOpen ==
  /\ Len(Steps) = 13
  /\ \A n \in 0..12 :
       /\ Steps[n + 1].opens = Nothing => opensAfter(n + 1) = opensAfter(n)
       /\ Steps[n + 1].opens # Nothing => /\ opensAfter(n + 1) = opensAfter(n) + 1
                                          /\ Steps[n + 1].opens = resources[opensAfter(n) + 1]
       /\ Steps[n + 1].name = "migrations" <=> n = 6
<1> DEFINE S == {ConnectSteps[i] : i \in 1..7} \cup {ServeSteps[i] : i \in 1..6}
<1>4. ConnectSteps \in Seq(S) /\ Len(ConnectSteps) = 7
  <2>1. {ConnectSteps[1], ConnectSteps[2], ConnectSteps[3], ConnectSteps[4], ConnectSteps[5],
         ConnectSteps[6], ConnectSteps[7]} \subseteq S
    OBVIOUS
  <2> HIDE DEF S
  <2> QED
    BY <2>1, SevenAre DEF ConnectSteps
<1>5. ServeSteps \in Seq(S) /\ Len(ServeSteps) = 6
  <2>1. {ServeSteps[1], ServeSteps[2], ServeSteps[3], ServeSteps[4], ServeSteps[5],
         ServeSteps[6]} \subseteq S
    OBVIOUS
  <2> HIDE DEF S
  <2> QED
    BY <2>1, SixAre DEF ServeSteps
<1> HIDE DEF S
<1>6. /\ Len(Steps) = 13
      /\ \A i \in 1..7 : Steps[i] = ConnectSteps[i]
      /\ \A i \in 8..13 : Steps[i] = ServeSteps[i - 7]
  BY <1>4, <1>5, StepsConcat
<1>7. /\ Steps[1] = Step("signals", "signal registration", FALSE)
      /\ Steps[2] = Step("configuration", Nothing, TRUE)
      /\ Steps[3] = Step("connect", "pool", TRUE) /\ Steps[4] = Step("ping", Nothing, TRUE)
      /\ Steps[5] = Step("registry", Nothing, TRUE) /\ Steps[6] = Step("listen", "health listener", TRUE)
      /\ Steps[7] = Step("migrations", Nothing, TRUE)
  <2>1. /\ Steps[1] = ConnectSteps[1] /\ Steps[2] = ConnectSteps[2] /\ Steps[3] = ConnectSteps[3]
        /\ Steps[4] = ConnectSteps[4] /\ Steps[5] = ConnectSteps[5] /\ Steps[6] = ConnectSteps[6]
        /\ Steps[7] = ConnectSteps[7]
    BY <1>6
  <2> QED
    BY <2>1 DEF ConnectSteps
<1>8. /\ Steps[8] = ServeSteps[1] /\ Steps[9] = ServeSteps[2] /\ Steps[10] = ServeSteps[3]
      /\ Steps[11] = ServeSteps[4] /\ Steps[12] = ServeSteps[5] /\ Steps[13] = ServeSteps[6]
  BY <1>6
<1>9. /\ Steps[8] = Step("absorb downtime", "liveness final write", TRUE)
      /\ Steps[9] = Step("reconcile", Nothing, TRUE)
      /\ Steps[10] = Step("process client", "http client", TRUE)
      /\ Steps[11] = Step("telegram client", Nothing, TRUE)
      /\ Steps[12] = Step("ingest loop", Nothing, TRUE) /\ Steps[13] = Step("start canary", "canary", TRUE)
  BY <1>8 DEF ServeSteps
<1> DEFINE migrates(k) == Steps[k].name = "migrations"
<1>10. /\ Steps[1].opens = resources[1] /\ resources[1] # Nothing
       /\ ~ migrates(1)
  <2>1. /\ Step("signals", "signal registration", FALSE).opens = "signal registration"
        /\ Step("signals", "signal registration", FALSE).name = "signals"
    BY DEF Step
  <2>2. resources[1] = "signal registration" /\ resources[1] # Nothing
    BY DEF resources, Nothing
  <2> QED
    BY <1>7, <2>1, <2>2, Zenon DEF migrates
<1>11. /\ Steps[2].opens = Nothing
       /\ ~ migrates(2)
  <2>1. /\ Step("configuration", Nothing, TRUE).opens = Nothing
        /\ Step("configuration", Nothing, TRUE).name = "configuration"
    BY DEF Step
  <2> QED
    BY <1>7, <2>1, Zenon DEF migrates
<1>12. /\ Steps[3].opens = resources[2] /\ resources[2] # Nothing
       /\ ~ migrates(3)
  <2>1. /\ Step("connect", "pool", TRUE).opens = "pool"
        /\ Step("connect", "pool", TRUE).name = "connect"
    BY DEF Step
  <2>2. resources[2] = "pool" /\ resources[2] # Nothing
    BY DEF resources, Nothing
  <2> QED
    BY <1>7, <2>1, <2>2, Zenon DEF migrates
<1>13. /\ Steps[4].opens = Nothing
       /\ ~ migrates(4)
  <2>1. /\ Step("ping", Nothing, TRUE).opens = Nothing
        /\ Step("ping", Nothing, TRUE).name = "ping"
    BY DEF Step
  <2> QED
    BY <1>7, <2>1, Zenon DEF migrates
<1>14. /\ Steps[5].opens = Nothing
       /\ ~ migrates(5)
  <2>1. /\ Step("registry", Nothing, TRUE).opens = Nothing
        /\ Step("registry", Nothing, TRUE).name = "registry"
    BY DEF Step
  <2> QED
    BY <1>7, <2>1, Zenon DEF migrates
<1>15. /\ Steps[6].opens = resources[3] /\ resources[3] # Nothing
       /\ ~ migrates(6)
  <2>1. /\ Step("listen", "health listener", TRUE).opens = "health listener"
        /\ Step("listen", "health listener", TRUE).name = "listen"
    BY DEF Step
  <2>2. resources[3] = "health listener" /\ resources[3] # Nothing
    BY DEF resources, Nothing
  <2> QED
    BY <1>7, <2>1, <2>2, Zenon DEF migrates
<1>16. /\ Steps[7].opens = Nothing
       /\ migrates(7)
  <2>1. /\ Step("migrations", Nothing, TRUE).opens = Nothing
        /\ Step("migrations", Nothing, TRUE).name = "migrations"
    BY DEF Step
  <2> QED
    BY <1>7, <2>1, Zenon DEF migrates
<1>17. /\ Steps[8].opens = resources[4] /\ resources[4] # Nothing
       /\ ~ migrates(8)
  <2>1. /\ Step("absorb downtime", "liveness final write", TRUE).opens = "liveness final write"
        /\ Step("absorb downtime", "liveness final write", TRUE).name = "absorb downtime"
    BY DEF Step
  <2>2. resources[4] = "liveness final write" /\ resources[4] # Nothing
    BY DEF resources, Nothing
  <2> QED
    BY <1>9, <2>1, <2>2, Zenon DEF migrates
<1>18. /\ Steps[9].opens = Nothing
       /\ ~ migrates(9)
  <2>1. /\ Step("reconcile", Nothing, TRUE).opens = Nothing
        /\ Step("reconcile", Nothing, TRUE).name = "reconcile"
    BY DEF Step
  <2> QED
    BY <1>9, <2>1, Zenon DEF migrates
<1>19. /\ Steps[10].opens = resources[5] /\ resources[5] # Nothing
       /\ ~ migrates(10)
  <2>1. /\ Step("process client", "http client", TRUE).opens = "http client"
        /\ Step("process client", "http client", TRUE).name = "process client"
    BY DEF Step
  <2>2. resources[5] = "http client" /\ resources[5] # Nothing
    BY DEF resources, Nothing
  <2> QED
    BY <1>9, <2>1, <2>2, Zenon DEF migrates
<1>20. /\ Steps[11].opens = Nothing
       /\ ~ migrates(11)
  <2>1. /\ Step("telegram client", Nothing, TRUE).opens = Nothing
        /\ Step("telegram client", Nothing, TRUE).name = "telegram client"
    BY DEF Step
  <2> QED
    BY <1>9, <2>1, Zenon DEF migrates
<1>21. /\ Steps[12].opens = Nothing
       /\ ~ migrates(12)
  <2>1. /\ Step("ingest loop", Nothing, TRUE).opens = Nothing
        /\ Step("ingest loop", Nothing, TRUE).name = "ingest loop"
    BY DEF Step
  <2> QED
    BY <1>9, <2>1, Zenon DEF migrates
<1>22. /\ Steps[13].opens = resources[6] /\ resources[6] # Nothing
       /\ ~ migrates(13)
  <2>1. /\ Step("start canary", "canary", TRUE).opens = "canary"
        /\ Step("start canary", "canary", TRUE).name = "start canary"
    BY DEF Step
  <2>2. resources[6] = "canary" /\ resources[6] # Nothing
    BY DEF resources, Nothing
  <2> QED
    BY <1>9, <2>1, <2>2, Zenon DEF migrates
<1> HIDE DEF migrates
<1>23. ASSUME NEW n \in 0..12
      PROVE  /\ Steps[n + 1].opens = Nothing => opensAfter(n + 1) = opensAfter(n)
             /\ Steps[n + 1].opens # Nothing => /\ opensAfter(n + 1) = opensAfter(n) + 1
                                                /\ Steps[n + 1].opens = resources[opensAfter(n) + 1]
             /\ migrates(n + 1) <=> n = 6
  <2>1. CASE n = 0 \/ n = 1 \/ n = 2
    BY <2>1, <1>10, <1>11, <1>12, OpensAre
  <2>2. CASE n = 3 \/ n = 4 \/ n = 5 \/ n = 6
    BY <2>2, <1>13, <1>14, <1>15, <1>16, OpensAre
  <2>3. CASE n = 7 \/ n = 8 \/ n = 9
    BY <2>3, <1>17, <1>18, <1>19, OpensAre
  <2>4. CASE n = 10 \/ n = 11 \/ n = 12
    BY <2>4, <1>20, <1>21, <1>22, OpensAre
  <2> QED
    BY <2>1, <2>2, <2>3, <2>4
<1> QED
  BY <1>6, <1>23 DEF migrates

LEMMA RunnersAre == Runner = {"ingest loop", "scheduler worker", "liveness heartbeat"}
<1>1. /\ DOMAIN runners = 1..3
      /\ runners[1] = "ingest loop" /\ runners[2] = "scheduler worker" /\ runners[3] = "liveness heartbeat"
  BY DEF runners
<1>2. Runner = {runners[x] : x \in 1..3}
  BY <1>1, Zenon DEF Runner, Range
<1>3. {runners[x] : x \in 1..3} = {runners[1], runners[2], runners[3]}
  OBVIOUS
<1> QED
  BY <1>1, <1>2, <1>3

\* A step that neither opens nor closes keeps the stack of closers.
LEMMA StackKept ==
  ASSUME Stack, life'.step = life.step, life'.closers = life.closers, life'.opened = life.opened,
         life'.closed = life.closed
  PROVE  Stack'
BY DEF Stack

LEMMA LifeStart == LifeInit => LifeInv
<1> SUFFICES ASSUME LifeInit PROVE LifeInv
  OBVIOUS
<1>1. life = Fresh
  BY DEF LifeInit
<1>2. /\ life.pc = "assembling" /\ life.step = 0 /\ life.closers = <<>> /\ life.opened = {}
      /\ life.closed = <<>> /\ life.migrated = FALSE /\ life.draining = FALSE /\ life.told = {}
      /\ life.code = -1 /\ life.run = [r \in Runner |-> "none"]
  BY <1>1 DEF Fresh
<1>3. life \in LifeRows
  BY <1>1 DEF Fresh, LifeRows, Nothing
<1>4. Stack
  <2>1. opensAfter(life.step) = 0
    BY <1>2, OpensAre
  <2>2. Len(life.closers) = 0 /\ Len(life.closed) = 0
    BY <1>2
  <2> QED
    BY <1>2, <2>1, <2>2 DEF Stack
<1>5. Phase /\ Promise
  BY <1>2 DEF Phase, Promise
<1> QED
  BY <1>3, <1>4, <1>5 DEF LifeInv

\* The next resource opened goes on top of the stack.
LEMMA StackPushed ==
  ASSUME life \in LifeRows, Stack, Len(life.closed) = 0, NEW r \in Resource, life'.closed = life.closed,
         r = resources[opensAfter(life.step) + 1], opensAfter(life'.step) = opensAfter(life.step) + 1,
         life'.closers = Append(life.closers, r), life'.opened = life.opened \cup {r}
  PROVE  Stack'
<1> DEFINE m == opensAfter(life.step)
<1>1. life.closers \in Seq(Resource) /\ life.step \in 0..13
  BY DEF LifeRows
<1>2. m \in 0..6
  BY <1>1, OpensIsBounded
<1>3. Len(life.closers) = m /\ Len(life.closers) \in Nat
  BY <1>1, <1>2 DEF Stack
<1>4. /\ Len(life'.closers) = m + 1
      /\ \A i \in 1 .. m : life'.closers[i] = life.closers[i]
      /\ life'.closers[m + 1] = r
  BY <1>1, <1>3, AppendProperties
<1>5. /\ \A i \in 1 .. m : life.closers[i] = resources[i]
      /\ life.opened = {resources[i] : i \in 1 .. m}
  BY <1>3 DEF Stack
<1> HIDE DEF m
<1>6. opensAfter(life'.step) = m + 1 /\ r = resources[m + 1]
  BY DEF m
<1>7. \A i \in 1 .. m + 1 : life'.closers[i] = resources[i]
  <2> SUFFICES ASSUME NEW i \in 1 .. m + 1 PROVE life'.closers[i] = resources[i]
    OBVIOUS
  <2>1. i \in 1 .. m \/ i = m + 1
    BY <1>2
  <2> QED
    BY <1>4, <1>5, <1>6, <2>1
<1>8. life'.opened = {resources[i] : i \in 1 .. m + 1}
  <2>1. 1 .. m + 1 = (1 .. m) \cup {m + 1}
    BY <1>2
  <2>2. life'.opened = {resources[i] : i \in 1 .. m} \cup {resources[m + 1]}
    BY <1>5, <1>6
  <2> QED
    BY <2>1, <2>2
<1>9. Len(life'.closed) = 0 /\ Len(life'.closers) + Len(life'.closed) = m + 1
  <2>1. Len(life'.closed) = 0
    BY Zenon
  <2>2. \A x, y : x = m + 1 /\ y = 0 => x + y = m + 1
    BY <1>2
  <2> QED
    BY <1>4, <2>1, <2>2, Zenon
<1> QED
  BY <1>4, <1>6, <1>7, <1>8, <1>9 DEF Stack

\* The closer on top of the stack goes over to what is closed.
LEMMA StackPopped ==
  ASSUME life \in LifeRows, Stack, life.closers # <<>>, life' = CloseLast
  PROVE  life' \in LifeRows /\ Stack'
<1> DEFINE m == opensAfter(life.step)
           n == Len(life.closers)
           k == Len(life.closed)
           top == life.closers[n]
<1>1. /\ life.closers \in Seq(Resource) /\ life.closed \in Seq(Resource) /\ life.step \in 0..13
  BY DEF LifeRows
<1>2. m \in 0..6 /\ n \in Nat \ {0} /\ k \in Nat /\ n + k = m
  BY <1>1, OpensIsBounded, EmptySeq, LenProperties DEF Stack
<1>3. top \in Resource /\ top = resources[n]
  BY <1>1, <1>2, ElementOfSeq DEF Stack
<1>4. /\ life'.closed = Append(life.closed, top) /\ life'.closers = SubSeq(life.closers, 1, n - 1)
      /\ life'.step = life.step /\ life'.opened = life.opened
      /\ life' = [[life EXCEPT !.closed = Append(life.closed, top)] EXCEPT !.closers = SubSeq(life.closers, 1, n - 1)]
  BY DEF LifeRows, CloseLast, Last, Front
<1>5. /\ Append(life.closed, top) \in Seq(Resource) /\ Len(Append(life.closed, top)) = k + 1
      /\ \A i \in 1..k : Append(life.closed, top)[i] = life.closed[i]
      /\ Append(life.closed, top)[k + 1] = top
  BY <1>1, <1>3, AppendProperties
<1>6. /\ SubSeq(life.closers, 1, n - 1) \in Seq(Resource) /\ Len(SubSeq(life.closers, 1, n - 1)) = n - 1
      /\ \A i \in 1 .. n - 1 : SubSeq(life.closers, 1, n - 1)[i] = life.closers[i]
  BY <1>1, <1>2
<1>7. /\ \A i \in 1 .. n : life.closers[i] = resources[i]
      /\ \A i \in 1 .. k : life.closed[i] = resources[m + 1 - i]
      /\ life.opened = {resources[i] : i \in 1..m}
  BY DEF Stack
<1> HIDE DEF m, n, k, top
<1>8. life' \in LifeRows
  BY <1>4, <1>5, <1>6 DEF LifeRows
<1>9. opensAfter(life'.step) = m
  BY <1>4 DEF m
<1>10. Len(life'.closers) = n - 1 /\ Len(life'.closed) = k + 1
  BY <1>4, <1>5, <1>6
<1>11. \A i \in 1 .. n - 1 : life'.closers[i] = resources[i]
  BY <1>2, <1>4, <1>6, <1>7
<1>12. \A i \in 1 .. k + 1 : life'.closed[i] = resources[m + 1 - i]
  <2> SUFFICES ASSUME NEW i \in 1 .. k + 1 PROVE life'.closed[i] = resources[m + 1 - i]
    OBVIOUS
  <2>1. CASE i \in 1 .. k
    BY <1>4, <1>5, <1>7, <2>1
  <2>2. CASE i = k + 1
    <3>1. m + 1 - i = n
      BY <1>2, <2>2
    <3> QED
      BY <1>3, <1>4, <1>5, <2>2, <3>1
  <2> QED
    BY <1>2, <2>1, <2>2
<1>13. life'.opened = {resources[i] : i \in 1..m}
  BY <1>4, <1>7
<1>14. (n - 1) + (k + 1) = m
  BY <1>2
<1> QED
  BY <1>8, <1>9, <1>10, <1>11, <1>12, <1>13, <1>14 DEF Stack

LEMMA StepDoneStep == LifeInv /\ StepDone => LifeInv'
<1> SUFFICES ASSUME LifeInv, StepDone PROVE LifeInv'
  OBVIOUS
<1> DEFINE s == Steps[life.step + 1]
<1>1. /\ life \in LifeRows /\ Stack /\ Phase /\ Promise /\ life.pc = "assembling"
      /\ life.step \in 0..12 /\ life.step + 1 \in 0..13
  BY StepsOpen DEF LifeInv, StepDone, LifeRows
<1>2. /\ s.opens = Nothing => opensAfter(life.step + 1) = opensAfter(life.step)
      /\ s.opens # Nothing => /\ opensAfter(life.step + 1) = opensAfter(life.step) + 1
                              /\ s.opens = resources[opensAfter(life.step) + 1]
      /\ s.name = "migrations" <=> life.step = 6
  BY <1>1, StepsOpen
<1>3. s.opens # Nothing => s.opens \in Resource
  <2>1. opensAfter(life.step) \in 0..6 /\ opensAfter(life.step + 1) \in 0..6
    BY <1>1, OpensIsBounded
  <2> QED
    BY <1>2, <2>1, ResourcesAre
<1> DEFINE closers == IF s.opens = Nothing THEN life.closers ELSE Append(life.closers, s.opens)
           opened == IF s.opens = Nothing THEN life.opened ELSE life.opened \cup {s.opens}
           migrated == life.migrated \/ s.name = "migrations"
<1>4. life' = [life EXCEPT !.step = life.step + 1, !.opened = opened, !.closers = closers, !.migrated = migrated]
  BY DEF StepDone
<1>5. closers \in Seq(Resource) /\ opened \in SUBSET Resource /\ migrated \in BOOLEAN
  BY <1>1, <1>3, AppendProperties DEF LifeRows
<1>6. migrated <=> life.step + 1 >= 7
  BY <1>1, <1>2 DEF Phase
<1> HIDE DEF closers, opened, migrated
<1>7. /\ life' \in LifeRows /\ life'.step = life.step + 1 /\ life'.closers = closers
      /\ life'.opened = opened /\ life'.migrated = migrated /\ life'.closed = life.closed
      /\ life'.pc = life.pc /\ life'.draining = life.draining /\ life'.told = life.told
      /\ life'.run = life.run /\ life'.code = life.code /\ life'.trigger = life.trigger
      /\ life'.cancelled = life.cancelled
  BY <1>1, <1>4, <1>5 DEF LifeRows
<1>8. Stack'
  <2>1. CASE s.opens = Nothing
    BY <1>1, <1>2, <1>7, <2>1 DEF Stack, closers, opened
  <2>2. CASE s.opens # Nothing
    <3>1. Len(life.closed) = 0
      BY <1>1 DEF Phase
    <3>2. closers = Append(life.closers, s.opens) /\ opened = life.opened \cup {s.opens}
      BY <2>2 DEF closers, opened
    <3> HIDE DEF s
    <3> QED
      BY <1>1, <1>2, <1>3, <1>7, <2>2, <3>1, <3>2, StackPushed
  <2> QED
    BY <2>1, <2>2
<1>9. Phase'
  BY <1>1, <1>6, <1>7 DEF Phase
<1>10. Promise'
  BY <1>1, <1>7 DEF Promise
<1> QED
  BY <1>7, <1>8, <1>9, <1>10 DEF LifeInv

\* A step of the process that keeps the stack is a matter of its phase.
LEMMA LifeKept ==
  ASSUME LifeInv, life' \in LifeRows, Phase', Promise', life'.step = life.step,
         life'.closers = life.closers, life'.opened = life.opened, life'.closed = life.closed
  PROVE  LifeInv'
BY StackKept DEF LifeInv

LEMMA ClosingStep ==
  ASSUME LifeInv, life.pc \in {"unwinding", "closing"}, life.closers # <<>>, life' = CloseLast
  PROVE  LifeInv'
<1>1. life \in LifeRows /\ Stack /\ Phase /\ Promise
  BY DEF LifeInv
<1>2. life' \in LifeRows /\ Stack'
  BY <1>1, StackPopped
<1>3. /\ life'.pc = life.pc /\ life'.step = life.step /\ life'.migrated = life.migrated
      /\ life'.draining = life.draining /\ life'.told = life.told /\ life'.run = life.run
      /\ life'.code = life.code /\ life'.trigger = life.trigger /\ life'.cancelled = life.cancelled
  BY <1>1 DEF CloseLast, LifeRows
<1>4. Phase'
  BY <1>1, <1>3 DEF Phase
<1>5. Promise'
  BY <1>1, <1>3 DEF Promise
<1> QED
  BY <1>2, <1>4, <1>5 DEF LifeInv

LEMMA UnwindStep == LifeInv /\ (StepFails \/ unwind) => LifeInv'
<1> SUFFICES ASSUME LifeInv, StepFails \/ unwind PROVE LifeInv'
  OBVIOUS
<1>1. life \in LifeRows /\ Phase /\ Promise
  BY DEF LifeInv
<1>2. CASE StepFails
  <2>1. life' = [life EXCEPT !.pc = "unwinding"] /\ life.pc = "assembling"
    BY <1>2 DEF StepFails
  <2>2. /\ life' \in LifeRows /\ life'.pc = "unwinding" /\ life'.step = life.step
        /\ life'.closers = life.closers /\ life'.opened = life.opened /\ life'.closed = life.closed
        /\ life'.migrated = life.migrated /\ life'.draining = life.draining /\ life'.told = life.told
        /\ life'.run = life.run /\ life'.code = life.code
    BY <1>1, <2>1 DEF LifeRows
  <2>3. Phase' /\ Promise'
    BY <1>1, <2>1, <2>2 DEF Phase, Promise
  <2> QED
    BY <2>2, <2>3, LifeKept
<1>3. CASE unwind /\ life.closers # <<>>
  BY <1>3, ClosingStep DEF unwind
<1>4. CASE unwind /\ life.closers = <<>>
  <2>1. life' = [life EXCEPT !.pc = "exited", !.code = 1] /\ life.pc = "unwinding"
    BY <1>4 DEF unwind
  <2>2. /\ life' \in LifeRows /\ life'.pc = "exited" /\ life'.step = life.step
        /\ life'.closers = life.closers /\ life'.opened = life.opened /\ life'.closed = life.closed
        /\ life'.migrated = life.migrated /\ life'.draining = life.draining /\ life'.told = life.told
        /\ life'.run = life.run /\ life'.code = 1
    BY <1>1, <2>1 DEF LifeRows
  <2>3. Len(life'.closers) = 0
    BY <1>4, <2>2
  <2>4. Phase' /\ Promise'
    BY <1>1, <2>1, <2>2, <2>3 DEF Phase, Promise
  <2> QED
    BY <2>2, <2>4, LifeKept
<1> QED
  BY <1>2, <1>3, <1>4

LEMMA ServeStep == LifeInv /\ (serve \/ BySignal \/ latch \/ Signal \/ Abandon) => LifeInv'
<1> SUFFICES ASSUME LifeInv, serve \/ BySignal \/ latch \/ Signal \/ Abandon PROVE LifeInv'
  OBVIOUS
<1>1. life \in LifeRows /\ Phase /\ Promise
  BY DEF LifeInv
<1>2. CASE serve
  <2>1. life' = [life EXCEPT !.pc = "serving", !.run = [r \in Runner |-> "running"]]
        /\ life.pc = "assembling" /\ life.step = 13
    BY <1>2, StepsOpen DEF serve
  <2>2. /\ life' \in LifeRows /\ life'.pc = "serving" /\ life'.step = life.step
        /\ life'.closers = life.closers /\ life'.opened = life.opened /\ life'.closed = life.closed
        /\ life'.migrated = life.migrated /\ life'.draining = life.draining /\ life'.told = life.told
        /\ life'.code = life.code
    BY <1>1, <2>1 DEF LifeRows
  <2>3. Phase' /\ Promise'
    BY <1>1, <2>1, <2>2 DEF Phase, Promise
  <2> QED
    BY <2>2, <2>3, LifeKept
<1>3. CASE BySignal
  <2> DEFINE left == life.signals - 1
  <2>1. life' = [life EXCEPT !.pc = "draining", !.signals = left] /\ life.pc = "serving"
    BY <1>3 DEF BySignal
  <2>4. left \in Nat
    BY <1>1, <1>3 DEF BySignal, LifeRows
  <2> HIDE DEF left
  <2>2. /\ life' \in LifeRows /\ life'.pc = "draining" /\ life'.step = life.step
        /\ life'.closers = life.closers /\ life'.opened = life.opened /\ life'.closed = life.closed
        /\ life'.migrated = life.migrated /\ life'.draining = life.draining /\ life'.told = life.told
        /\ life'.run = life.run /\ life'.code = life.code
    BY <1>1, <2>1, <2>4 DEF LifeRows
  <2>3. Phase' /\ Promise'
    BY <1>1, <2>1, <2>2 DEF Phase, Promise
  <2> QED
    BY <2>2, <2>3, LifeKept
<1>4. CASE latch
  <2>1. life' = [life EXCEPT !.pc = "stopping", !.draining = TRUE] /\ life.pc = "draining"
    BY <1>4 DEF latch
  <2>2. /\ life' \in LifeRows /\ life'.pc = "stopping" /\ life'.step = life.step
        /\ life'.closers = life.closers /\ life'.opened = life.opened /\ life'.closed = life.closed
        /\ life'.migrated = life.migrated /\ life'.draining /\ life'.told = life.told
        /\ life'.run = life.run /\ life'.code = life.code
    BY <1>1, <2>1 DEF LifeRows
  <2>3. Phase' /\ Promise'
    BY <1>1, <2>1, <2>2 DEF Phase, Promise
  <2> QED
    BY <2>2, <2>3, LifeKept
<1>5. CASE Signal
  <2> DEFINE pending == life.signals + 1
  <2>1. life' = [life EXCEPT !.signals = pending]
    BY <1>5 DEF Signal
  <2>4. pending \in Nat
    BY <1>1 DEF LifeRows
  <2> HIDE DEF pending
  <2>2. /\ life' \in LifeRows /\ life'.pc = life.pc /\ life'.step = life.step
        /\ life'.closers = life.closers /\ life'.opened = life.opened /\ life'.closed = life.closed
        /\ life'.migrated = life.migrated /\ life'.draining = life.draining /\ life'.told = life.told
        /\ life'.run = life.run /\ life'.code = life.code /\ life'.trigger = life.trigger
        /\ life'.cancelled = life.cancelled
    BY <1>1, <2>1, <2>4 DEF LifeRows
  <2>3. Phase' /\ Promise'
    BY <1>1, <2>2 DEF Phase, Promise
  <2> QED
    BY <2>2, <2>3, LifeKept
<1>6. CASE Abandon
  <2>1. PICK left \in Nat : life' = [life EXCEPT !.cancelled = TRUE, !.signals = left]
    <3>1. PICK n \in {0, 1} :
            n <= life.signals /\ life' = [life EXCEPT !.cancelled = TRUE, !.signals = life.signals - n]
      BY <1>6 DEF Abandon
    <3>2. life.signals - n \in Nat
      BY <1>1, <3>1 DEF LifeRows
    <3> QED
      BY <3>1, <3>2
  <2>2. life.pc = "joining"
    BY <1>6 DEF Abandon
  <2>3. /\ life' \in LifeRows /\ life'.pc = life.pc /\ life'.step = life.step
        /\ life'.closers = life.closers /\ life'.opened = life.opened /\ life'.closed = life.closed
        /\ life'.migrated = life.migrated /\ life'.draining = life.draining /\ life'.told = life.told
        /\ life'.run = life.run /\ life'.code = life.code
    BY <1>1, <2>1 DEF LifeRows
  <2>4. Phase' /\ Promise'
    BY <1>1, <2>2, <2>3 DEF Phase, Promise
  <2> QED
    BY <2>3, <2>4, LifeKept
<1> QED
  BY <1>2, <1>3, <1>4, <1>5, <1>6

LEMMA StopRunnerStep == LifeInv /\ stopRunner => LifeInv'
<1> SUFFICES ASSUME LifeInv, stopRunner PROVE LifeInv'
  OBVIOUS
<1> DEFINE told == life.told \cup {runners[Cardinality(life.told) + 1]}
           pc == IF told = Runner THEN "joining" ELSE life.pc
<1>1. life \in LifeRows /\ Phase /\ Promise /\ life.pc = "stopping"
  BY DEF LifeInv, stopRunner
<1>2. life' = [life EXCEPT !.told = told, !.pc = pc]
  BY DEF stopRunner
<1>3. told \subseteq Runner /\ (told # Runner => told \in {{}, {"ingest loop"}, {"ingest loop", "scheduler worker"}})
  <2>1. life.told \in {{}, {"ingest loop"}, {"ingest loop", "scheduler worker"}}
    BY <1>1 DEF Phase
  <2>2. Cardinality({}) + 1 = 1
    BY FS_EmptySet
  <2>3. /\ Cardinality({"ingest loop"}) + 1 = 2
        /\ Cardinality({"ingest loop", "scheduler worker"}) + 1 = 3
    <3>1. IsFiniteSet({"ingest loop"}) /\ Cardinality({"ingest loop"}) = 1
      BY FS_Singleton
    <3>2. "scheduler worker" \notin {"ingest loop"}
      OBVIOUS
    <3>3. Cardinality({"ingest loop"} \cup {"scheduler worker"}) = Cardinality({"ingest loop"}) + 1
      BY <3>1, <3>2, FS_AddElement
    <3>4. {"ingest loop"} \cup {"scheduler worker"} = {"ingest loop", "scheduler worker"}
      OBVIOUS
    <3>5. \A x, y : x = 1 /\ y = x + 1 => x + 1 = 2 /\ y + 1 = 3
      OBVIOUS
    <3> QED
      BY <3>1, <3>3, <3>4, <3>5, Zenon
  <2>4. CASE life.told = {}
    <3>1. runners[1] = "ingest loop"
      BY DEF runners
    <3>2. told = {} \cup {"ingest loop"}
      BY <2>2, <2>4, <3>1, Zenon
    <3>3. told = {"ingest loop"}
      BY <3>2
    <3> HIDE DEF told
    <3> QED
      BY <3>3, RunnersAre
  <2>5. CASE life.told = {"ingest loop"}
    <3>1. runners[2] = "scheduler worker"
      BY DEF runners
    <3>2. told = {"ingest loop"} \cup {"scheduler worker"}
      BY <2>3, <2>5, <3>1, Zenon
    <3>3. told = {"ingest loop", "scheduler worker"}
      BY <3>2
    <3> HIDE DEF told
    <3> QED
      BY <3>3, RunnersAre
  <2>6. CASE life.told = {"ingest loop", "scheduler worker"}
    <3>1. runners[3] = "liveness heartbeat"
      BY DEF runners
    <3>2. told = {"ingest loop", "scheduler worker"} \cup {"liveness heartbeat"}
      BY <2>3, <2>6, <3>1, Zenon
    <3>3. told = Runner
      BY <3>2, RunnersAre
    <3> QED
      BY <3>3
  <2> QED
    BY <2>1, <2>4, <2>5, <2>6
<1>4. pc \in {"stopping", "joining"} /\ (pc = "stopping" => told # Runner)
  BY <1>1
<1> HIDE DEF told, pc
<1>5. /\ life' \in LifeRows /\ life'.pc = pc /\ life'.step = life.step
      /\ life'.closers = life.closers /\ life'.opened = life.opened /\ life'.closed = life.closed
      /\ life'.migrated = life.migrated /\ life'.draining = life.draining /\ life'.told = told
      /\ life'.run = life.run /\ life'.code = life.code
  BY <1>1, <1>2, <1>3, <1>4 DEF LifeRows
<1>6. Phase'
  BY <1>1, <1>3, <1>4, <1>5 DEF Phase
<1>7. Promise'
  BY <1>1, <1>4, <1>5 DEF Promise
<1> QED
  BY <1>5, <1>6, <1>7, LifeKept

LEMMA JoinStep == LifeInv /\ (JoinDone \/ CloseNext) => LifeInv'
<1> SUFFICES ASSUME LifeInv, JoinDone \/ CloseNext PROVE LifeInv'
  OBVIOUS
<1>1. life \in LifeRows /\ Phase /\ Promise
  BY DEF LifeInv
<1>2. CASE JoinDone
  <2>1. /\ life' = [life EXCEPT !.pc = "closing", !.code = exitCode] /\ life.pc = "joining"
        /\ \A r \in Runner : life.run[r] \in {"ok", "err"}
    BY <1>2 DEF JoinDone, Joined, Returned
  <2>2. /\ exitCode \in {0, 1}
        /\ exitCode = 0 => /\ life.trigger = Nothing /\ ~life.cancelled
                           /\ ~ \E r \in Runner : life.run[r] = "err"
    BY DEF exitCode
  <2>3. /\ life' \in LifeRows /\ life'.pc = "closing" /\ life'.step = life.step
        /\ life'.closers = life.closers /\ life'.opened = life.opened /\ life'.closed = life.closed
        /\ life'.migrated = life.migrated /\ life'.draining = life.draining /\ life'.told = life.told
        /\ life'.run = life.run /\ life'.code = exitCode /\ life'.trigger = life.trigger
        /\ life'.cancelled = life.cancelled
    BY <1>1, <2>1, <2>2 DEF LifeRows
  <2>4. Phase'
    BY <1>1, <2>1, <2>3 DEF Phase
  <2>5. Promise'
    BY <2>1, <2>2, <2>3 DEF Promise
  <2> QED
    BY <2>3, <2>4, <2>5, LifeKept
<1>3. CASE CloseNext /\ life.closers # <<>>
  BY <1>3, ClosingStep DEF CloseNext
<1>4. CASE CloseNext /\ life.closers = <<>>
  <2>1. life' = [life EXCEPT !.pc = "exited"] /\ life.pc = "closing"
    BY <1>4 DEF CloseNext
  <2>2. /\ life' \in LifeRows /\ life'.pc = "exited" /\ life'.step = life.step
        /\ life'.closers = life.closers /\ life'.opened = life.opened /\ life'.closed = life.closed
        /\ life'.migrated = life.migrated /\ life'.draining = life.draining /\ life'.told = life.told
        /\ life'.run = life.run /\ life'.code = life.code /\ life'.trigger = life.trigger
        /\ life'.cancelled = life.cancelled
    BY <1>1, <2>1 DEF LifeRows
  <2>3. Len(life'.closers) = 0
    BY <1>4, <2>2
  <2>4. Phase' /\ Promise'
    BY <1>1, <2>1, <2>2, <2>3 DEF Phase, Promise
  <2> QED
    BY <2>2, <2>4, LifeKept
<1> QED
  BY <1>2, <1>3, <1>4

LEMMA RunnerStep ==
  ASSUME LifeInv, NEW r \in Runner, ByRunner(r) \/ RunnerReturns(r)
  PROVE  LifeInv'
<1>1. life \in LifeRows /\ Phase /\ Promise
  BY DEF LifeInv
<1>2. CASE ByRunner(r)
  <2>1. life' = [life EXCEPT !.pc = "draining", !.trigger = r] /\ life.pc = "serving"
    BY <1>2 DEF ByRunner
  <2>2. /\ life' \in LifeRows /\ life'.pc = "draining" /\ life'.step = life.step
        /\ life'.closers = life.closers /\ life'.opened = life.opened /\ life'.closed = life.closed
        /\ life'.migrated = life.migrated /\ life'.draining = life.draining /\ life'.told = life.told
        /\ life'.run = life.run /\ life'.code = life.code
    BY <1>1, <2>1 DEF LifeRows
  <2>3. Phase' /\ Promise'
    BY <1>1, <2>1, <2>2 DEF Phase, Promise
  <2> QED
    BY <2>2, <2>3, LifeKept
<1>3. CASE RunnerReturns(r)
  <2>1. PICK out \in {"ok", "err"} : life' = [life EXCEPT !.run = [life.run EXCEPT ![r] = out]]
    BY <1>3, Zenon DEF RunnerReturns
  <2>2. life.run[r] = "running" /\ life.run \in [Runner -> {"none", "running", "ok", "err"}]
    BY <1>1, <1>3 DEF RunnerReturns, LifeRows
  <2>3. /\ [life.run EXCEPT ![r] = out] \in [Runner -> {"none", "running", "ok", "err"}]
        /\ \A q \in Runner : [life.run EXCEPT ![r] = out][q] = "running" => life.run[q] = "running"
    BY <2>2
  <2>4. life.code # 0
    BY <1>1, <2>2 DEF Promise
  <2>5. /\ life' \in LifeRows /\ life'.pc = life.pc /\ life'.step = life.step
        /\ life'.closers = life.closers /\ life'.opened = life.opened /\ life'.closed = life.closed
        /\ life'.migrated = life.migrated /\ life'.draining = life.draining /\ life'.told = life.told
        /\ life'.run = [life.run EXCEPT ![r] = out] /\ life'.code = life.code
    BY <1>1, <2>1, <2>3 DEF LifeRows
  <2>6. Phase'
    BY <1>1, <2>5 DEF Phase
  <2>7. Promise'
    BY <1>1, <2>3, <2>4, <2>5 DEF Promise
  <2> QED
    BY <2>5, <2>6, <2>7, LifeKept
<1> QED
  BY <1>2, <1>3

LEMMA LifeStep == LifeInv /\ [LifeNext]_life => LifeInv'
<1> SUFFICES ASSUME LifeInv, [LifeNext]_life PROVE LifeInv'
  OBVIOUS
<1>1. CASE UNCHANGED life
  BY <1>1 DEF LifeInv, Stack, Phase, Promise
<1>2. CASE LifeNext
  BY <1>2, StepDoneStep, UnwindStep, ServeStep, StopRunnerStep, JoinStep, RunnerStep DEF LifeNext
<1> QED
  BY <1>1, <1>2

\* What is closed is every resource above those still on the stack; a resource
\* that is open and not closed stands below.
LEMMA StackSays ==
  ASSUME life \in LifeRows, Stack
  PROVE  /\ \A j \in 1..6 : resources[j] \in Range(life.closed) => j > Len(life.closers)
         /\ \A j \in 1..6 : resources[j] \in life.opened /\ resources[j] \notin Range(life.closed)
                              => j <= Len(life.closers)
<1> DEFINE m == opensAfter(life.step)
           n == Len(life.closers)
           k == Len(life.closed)
<1>1. life.closers \in Seq(Resource) /\ life.closed \in Seq(Resource) /\ life.step \in 0..13
  BY DEF LifeRows
<1>2. m \in 0..6 /\ n \in Nat /\ k \in Nat /\ n + k = m
  BY <1>1, OpensIsBounded, LenProperties DEF Stack
<1>3. Range(life.closed) = {life.closed[i] : i \in 1..k}
  BY <1>1, RangeEquality
<1>4. /\ \A i \in 1 .. k : life.closed[i] = resources[m + 1 - i]
      /\ life.opened = {resources[i] : i \in 1..m}
  BY DEF Stack
<1> HIDE DEF m, n, k
<1>5. ASSUME NEW j \in 1..6, resources[j] \in Range(life.closed) PROVE j > n
  <2>1. PICK i \in 1..k : resources[j] = resources[m + 1 - i]
    BY <1>3, <1>4, <1>5
  <2>2. m + 1 - i \in 1..6 /\ m + 1 - i > n
    BY <1>2
  <2>3. j = m + 1 - i
    BY <2>1, <2>2, ResourcesAre
  <2> QED
    BY <2>2, <2>3
<1>6. ASSUME NEW j \in 1..6, resources[j] \in life.opened, resources[j] \notin Range(life.closed)
      PROVE  j <= n
  <2>1. PICK i \in 1..m : resources[j] = resources[i]
    BY <1>4, <1>6
  <2>2. j = i
    BY <1>2, <2>1, ResourcesAre
  <2>3. ASSUME j > n PROVE FALSE
    <3>1. m + 1 - j \in 1..k /\ m + 1 - (m + 1 - j) = j
      BY <1>2, <2>2, <2>3
    <3>2. life.closed[m + 1 - j] = resources[j]
      BY <1>4, <3>1
    <3> QED
      BY <1>3, <1>6, <3>1, <3>2
  <2> QED
    BY <1>2, <2>3
<1> QED
  BY <1>5, <1>6 DEF n

\* Whatever fails or comes while the process starts, serves or stops, nothing is
\* closed under a runner or a resource that works through it, and a process that
\* answers ready has told no runner to stop (assemble, runners.drain, closeAll).
THEOREM ClosedAfterUsersTheorem == LifeSpec => []ClosedAfterUsers
<1>1. LifeInv => ClosedAfterUsers
  <2> SUFFICES ASSUME LifeInv PROVE ClosedAfterUsers
    OBVIOUS
  <2>1. life \in LifeRows /\ Stack /\ Phase /\ Promise
    BY DEF LifeInv
  <2>2. Ready => life.told = {} /\ life.step >= Len(ConnectSteps)
    <3>1. Len(ConnectSteps) = 7
      BY SevenAre DEF ConnectSteps
    <3> QED
      BY <2>1, <3>1 DEF Ready, Phase
  <2>3. ASSUME NEW u \in Runner, life.run[u] = "running" PROVE Range(life.closed) = {}
    <3>1. Len(life.closed) = 0
      BY <2>1, <2>3 DEF Phase, Promise
    <3>2. Range(life.closed) = {life.closed[i] : i \in 1..Len(life.closed)}
      BY <2>1, RangeEquality DEF LifeRows
    <3> QED
      BY <3>1, <3>2
  <2>4. /\ "pool" = resources[2] /\ "health listener" = resources[3] /\ "liveness final write" = resources[4]
        /\ "http client" = resources[5] /\ "canary" = resources[6]
    BY DEF resources
  <2>5. ASSUME NEW j \in 3..6, resources[j] \in life.opened, resources[j] \notin Range(life.closed)
        PROVE  \A i \in 1 .. j : resources[i] \notin Range(life.closed)
    <3>1. j \in 1..6 /\ j <= Len(life.closers)
      BY <2>1, <2>5, StackSays
    <3>2. Len(life.closers) \in Nat
      BY <2>1, LenProperties DEF LifeRows
    <3>3. ASSUME NEW i \in 1 .. j PROVE ~ (i > Len(life.closers)) /\ i \in 1..6
      BY <3>1, <3>2
    <3> QED
      BY <2>1, <3>3, StackSays
  <2>11. 3 \in 3..6 /\ 4 \in 3..6 /\ 6 \in 3..6 /\ 5 \in 1..6 /\ \A i \in 3..6 : 2 \in 1..i
    OBVIOUS
  <2>6. ASSUME NEW u \in {"health listener", "liveness final write", "canary"},
               u \in life.opened, u \notin Range(life.closed)
        PROVE  /\ "pool" \notin Range(life.closed)
               /\ u = "canary" => "http client" \notin Range(life.closed)
    BY <2>4, <2>5, <2>6, <2>11, Zenon
  <2>7. \A u \in {"health listener", "liveness final write", "canary"} : u \notin Runner
    BY RunnersAre
  <2>8. /\ DOMAIN Uses = {"ingest loop", "scheduler worker", "liveness heartbeat", "health listener",
                          "liveness final write", "canary"}
        /\ Uses["canary"] = {"http client"}
        /\ Uses["health listener"] = {"pool"} /\ Uses["liveness final write"] = {"pool"}
    BY DEF Uses
  <2>9. \A u \in {"ingest loop", "scheduler worker", "liveness heartbeat"} : u \notin life.opened
    BY <2>1 DEF LifeRows, Resource
  <2>10. ASSUME NEW u \in DOMAIN Uses, Alive(u) PROVE Uses[u] \cap Range(life.closed) = {}
    <3>1. CASE u \in Runner /\ life.run[u] = "running"
      BY <2>3, <3>1
    <3>2. CASE u \in life.opened /\ u \notin Range(life.closed)
      <4>1. u = "health listener" \/ u = "liveness final write" \/ u = "canary"
        BY <2>8, <2>9, <3>2
      <4> QED
        BY <2>6, <2>8, <3>2, <4>1
    <3> QED
      BY <2>10, <3>1, <3>2 DEF Alive
  <2> QED
    BY <2>2, <2>10 DEF ClosedAfterUsers
<1> QED
  BY <1>1, LifeStart, LifeStep, PTL DEF LifeSpec

\* A process that is over has closed each resource it opened once, and an exit
\* code of zero means that every runner drained by itself without an error
\* (closeAll, exitCode).
THEOREM ExitTellsTheTruthTheorem == LifeSpec => []ExitTellsTheTruth
<1>1. LifeInv => ExitTellsTheTruth
  <2> SUFFICES ASSUME LifeInv PROVE ExitTellsTheTruth
    OBVIOUS
  <2>1. life \in LifeRows /\ Stack /\ Phase /\ Promise
    BY DEF LifeInv
  <2>2. ASSUME life.pc = "exited"
        PROVE  Range(life.closed) = life.opened /\ Len(life.closed) = Cardinality(life.opened)
    <3> DEFINE m == opensAfter(life.step)
    <3>1. life.closed \in Seq(Resource) /\ m \in 0..6
      BY <2>1, OpensIsBounded DEF LifeRows
    <3>2. Len(life.closed) = m
      <4>1. Len(life.closers) = 0 /\ Len(life.closed) \in Nat /\ Len(life.closers) + Len(life.closed) = m
        BY <2>1, <2>2, <3>1, LenProperties DEF Phase, Stack
      <4> QED
        BY <4>1
    <3>3. /\ \A i \in 1 .. Len(life.closed) : life.closed[i] = resources[m + 1 - i]
          /\ life.opened = {resources[i] : i \in 1..m}
      BY <2>1 DEF Stack
    <3>4. Range(life.closed) = {life.closed[i] : i \in 1 .. Len(life.closed)}
      BY <3>1, RangeEquality
    <3> HIDE DEF m
    <3>5. Range(life.closed) = life.opened
      <4>1. \A i \in 1..m : m + 1 - i \in 1..m /\ m + 1 - (m + 1 - i) = i
        BY <3>1
      <4>2. Range(life.closed) = {resources[m + 1 - i] : i \in 1..m}
        <5>1. Range(life.closed) = {life.closed[i] : i \in 1..m}
          BY <3>2, <3>4, Zenon
        <5>2. \A i \in 1..m : life.closed[i] = resources[m + 1 - i]
          BY <3>2, <3>3, Zenon
        <5> QED
          BY <5>1, <5>2
      <4>3. ASSUME NEW i \in 1..m
            PROVE  resources[m + 1 - i] \in life.opened /\ resources[i] \in Range(life.closed)
        BY <3>3, <4>1, <4>2
      <4> QED
        BY <3>3, <4>2, <4>3
    <3>6. Cardinality(life.opened) = m
      <4> DEFINE f == [i \in 1..m |-> resources[i]]
      <4>1. f \in Bijection(1..m, life.opened)
        <5>1. \A i \in 1..m : i \in 1..6
          BY <3>1
        <5> QED
          BY <3>3, <5>1, ResourcesAre DEF Bijection, Injection, Surjection, IsInjective
      <4>2. ExistsBijection(1..m, life.opened) /\ m \in Nat
        BY <3>1, <4>1 DEF ExistsBijection
      <4> QED
        BY <4>2, FS_CountingElements
    <3> QED
      BY <3>2, <3>5, <3>6
  <2>3. life.code = 0 => /\ \A r \in Runner : life.run[r] = "ok"
                         /\ life.trigger = Nothing /\ ~life.cancelled
    BY <2>1 DEF Promise
  <2> QED
    BY <2>2, <2>3 DEF ExitTellsTheTruth
<1> QED
  BY <1>1, LifeStart, LifeStep, PTL DEF LifeSpec
----------------------------------------------------------------------------
(* The ramp of every retry loop.  What a recursive definition computes is shown
   by the least exponent for which it would not. *)

LEMMA LeastOf ==
  ASSUME NEW S \in SUBSET Nat, S # {}
  PROVE  \E m \in S : \A x \in S : m <= x
<1>1. \E m \in S : \A y \in S : ~(<<y, m>> \in OpToRel(<, Nat))
  BY NatLessThanWellFounded, WFMin
<1>2. \A m, y \in S : ~(<<y, m>> \in OpToRel(<, Nat)) => m <= y
  BY DEF OpToRel
<1> QED
  BY <1>1, <1>2

\* The function Power recurs through.
PowersOf(x, f, n) == f = [i \in 0..n |-> IF i = 0 THEN 1 ELSE x * f[i - 1]]

\* The powers up to any exponent exist: the least exponent without them would
\* have those of the one before, and one multiplication more.
LEMMA PowersExist ==
  ASSUME NEW x \in Int, NEW n \in Nat
  PROVE  \E f : PowersOf(x, f, n)
<1> DEFINE Bad == {m \in Nat : ~ \E f : PowersOf(x, f, m)}
<1> SUFFICES ASSUME Bad # {} PROVE FALSE
  OBVIOUS
<1>1. PICK m \in Bad : \A k \in Bad : m <= k
  <2> HIDE DEF Bad
  <2>1. Bad \in SUBSET Nat
    BY DEF Bad
  <2> QED
    BY <2>1, LeastOf
<1>2. m # 0
  <2>1. PowersOf(x, [i \in 0..0 |-> 1], 0)
    BY DEF PowersOf
  <2> QED
    BY <2>1
<1>3. m - 1 \in Nat /\ m - 1 \notin Bad
  BY <1>1, <1>2
<1>4. PICK f : PowersOf(x, f, m - 1)
  BY <1>3
<1> DEFINE g == [i \in 0..m |-> IF i = m THEN x * f[m - 1] ELSE f[i]]
<1>5. ASSUME NEW i \in 0..m PROVE g[i] = IF i = 0 THEN 1 ELSE x * g[i - 1]
  <2>1. CASE i = 0
    BY <1>4, <1>2, <2>1 DEF PowersOf
  <2>2. CASE i = m
    BY <1>3, <2>2
  <2>3. CASE i # 0 /\ i # m
    BY <1>4, <1>3, <2>3 DEF PowersOf
  <2> QED
    BY <2>1, <2>2, <2>3
<1>6. PowersOf(x, g, m)
  BY <1>5 DEF PowersOf
<1> QED
  BY <1>1, <1>6

\* The powers up to one exponent are a prefix of those up to a greater one.
LEMMA PowersAgree ==
  ASSUME NEW x \in Int, NEW m \in Nat, NEW n \in Nat, m <= n,
         NEW f, PowersOf(x, f, m), NEW g, PowersOf(x, g, n)
  PROVE  \A i \in 0..m : f[i] = g[i]
<1> DEFINE Bad == {i \in 0..m : f[i] # g[i]}
<1> SUFFICES ASSUME Bad # {} PROVE FALSE
  OBVIOUS
<1>1. PICK i \in Bad : \A j \in Bad : i <= j
  <2> HIDE DEF Bad
  <2>1. Bad \in SUBSET Nat
    BY DEF Bad
  <2> QED
    BY <2>1, LeastOf
<1>2. i # 0
  BY <1>1 DEF PowersOf
<1>3. i - 1 \in 0..m /\ i - 1 \notin Bad
  BY <1>1, <1>2
<1>4. f[i] = x * f[i - 1] /\ g[i] = x * g[i - 1]
  <2>1. i \in 0..m /\ i \in 0..n
    BY <1>1
  <2> QED
    BY <2>1, <1>2 DEF PowersOf
<1> QED
  BY <1>1, <1>3, <1>4

\* What Power is, as a recurrence.
LEMMA PowerRecurs ==
  ASSUME NEW x \in Int
  PROVE  /\ Power(x, 0) = 1
         /\ \A n \in Nat : Power(x, n + 1) = x * Power(x, n)
<1> DEFINE P(n) == CHOOSE f : PowersOf(x, f, n)
<1>1. ASSUME NEW n \in Nat PROVE PowersOf(x, P(n), n) /\ Power(x, n) = P(n)[n]
  <2>1. PowersOf(x, P(n), n)
    BY PowersExist
  <2>2. Power(x, n) = P(n)[n]
    BY DEF Power, PowersOf
  <2> QED
    BY <2>1, <2>2
<1> HIDE DEF P
<1>2. Power(x, 0) = 1
  BY <1>1 DEF PowersOf
<1>3. ASSUME NEW n \in Nat PROVE Power(x, n + 1) = x * Power(x, n)
  <2>1. n + 1 \in Nat /\ n <= n + 1
    OBVIOUS
  <2>2. PowersOf(x, P(n), n) /\ PowersOf(x, P(n + 1), n + 1)
    BY <1>1, <2>1
  <2>3. P(n)[n] = P(n + 1)[n]
    BY <2>1, <2>2, PowersAgree
  <2>4. P(n + 1)[n + 1] = x * P(n + 1)[n]
    BY <2>2 DEF PowersOf
  <2> QED
    BY <1>1, <2>1, <2>3, <2>4
<1> QED
  BY <1>2, <1>3

LEMMA PowerIsPositive ==
  ASSUME NEW x \in Nat \ {0}, NEW n \in Nat
  PROVE  Power(x, n) \in Nat \ {0}
<1> DEFINE Bad == {m \in Nat : Power(x, m) \notin Nat \ {0}}
<1> SUFFICES ASSUME Bad # {} PROVE FALSE
  OBVIOUS
<1>1. PICK m \in Bad : \A k \in Bad : m <= k
  <2> HIDE DEF Bad
  <2>1. Bad \in SUBSET Nat
    BY DEF Bad
  <2> QED
    BY <2>1, LeastOf
<1>2. m # 0
  BY <1>1, PowerRecurs
<1>3. m - 1 \in Nat /\ Power(x, m - 1) \in Nat \ {0}
  BY <1>1, <1>2
<1>4. Power(x, m) = x * Power(x, m - 1)
  BY <1>3, PowerRecurs
<1>5. ASSUME NEW a \in Nat \ {0}, NEW b \in Nat \ {0} PROVE a * b \in Nat \ {0}
  BY Z3
<1> QED
  BY <1>1, <1>3, <1>4, <1>5

\* base * x^n / 10^n never shrinks and never reaches zero, when x is ten at least.
LEMMA PowersOutgrowTen ==
  ASSUME NEW b \in Nat \ {0}, NEW x \in Nat, x >= 10, NEW n \in Nat
  PROVE  LET d(m) == (b * Power(x, m)) \div Power(10, m)
         IN  /\ d(n) \in Nat \ {0}
             /\ d(n) <= d(n + 1)
<1> DEFINE d(m) == (b * Power(x, m)) \div Power(10, m)
<1>1. ASSUME NEW m \in Nat PROVE d(m) \in Nat /\ d(m) <= d(m + 1)
  <2>1. /\ Power(x, m) \in Nat \ {0} /\ Power(10, m) \in Nat \ {0}
        /\ Power(x, m + 1) = x * Power(x, m) /\ Power(10, m + 1) = 10 * Power(10, m)
    <3>1. x \in Nat \ {0} /\ 10 \in Nat \ {0} /\ x \in Int /\ 10 \in Int
      OBVIOUS
    <3> QED
      BY <3>1, PowerRecurs, PowerIsPositive
  <2>2. ASSUME NEW X \in Nat \ {0}, NEW D \in Nat \ {0}
        PROVE  /\ (b * X) \div D \in Nat
               /\ (b * X) \div D <= (b * (x * X)) \div (10 * D)
    <3>1. b * X \in Nat
      BY Z3
    <3>2. PICK Y \in Nat : Y = b * X
      BY <3>1
    <3>3. b * (x * X) = x * Y
      BY <3>2, Z3
    <3>4. PICK q \in Nat : q = Y \div D
      BY Z3
    <3>5. q * D <= Y
      BY <3>4, Z3
    <3>6. q * (10 * D) <= x * Y
      <4>1. q * (10 * D) = 10 * (q * D)
        BY Z3
      <4>2. 10 * Y <= x * Y
        BY Z3
      <4>3. q * D \in Nat /\ x * Y \in Nat
        BY Z3
      <4> QED
        BY <4>1, <4>2, <4>3, <3>5
    <3>7. q <= (x * Y) \div (10 * D)
      <4>1. x * Y \in Nat /\ 10 * D \in Nat \ {0}
        BY Z3
      <4>2. ASSUME NEW A \in Nat, NEW B \in Nat \ {0}, q * B <= A PROVE q <= A \div B
        BY <4>2, Z3
      <4> QED
        BY <4>1, <4>2, <3>6
    <3> QED
      BY <3>2, <3>3, <3>4, <3>7
  <2> QED
    BY <2>1, <2>2
<1>2. d(0) = b
  <2>1. Power(x, 0) = 1 /\ Power(10, 0) = 1
    BY PowerRecurs
  <2> QED
    BY <2>1, Z3
<1> HIDE DEF d
<1> DEFINE Bad == {m \in Nat : d(m) = 0}
<1>3. Bad = {}
  <2> SUFFICES ASSUME Bad # {} PROVE FALSE
    OBVIOUS
  <2>1. PICK m \in Bad : \A k \in Bad : m <= k
    <3> HIDE DEF Bad
    <3>1. Bad \in SUBSET Nat
      BY DEF Bad
    <3> QED
      BY <3>1, LeastOf
  <2>2. m # 0
    BY <1>2, <2>1
  <2>3. m - 1 \in Nat /\ d(m - 1) # 0
    BY <2>1, <2>2
  <2>4. d(m - 1) \in Nat /\ d(m - 1) <= d(m)
    BY <1>1, <2>3
  <2> QED
    BY <2>1, <2>3, <2>4
<1> QED
  BY <1>1, <1>3 DEF d

\* Every retry loop's delay, for every attempt, base, ceiling and factor: it is
\* positive and at most the ceiling, and never shorter than the one before; a
\* negative attempt counts as the first (package backoff's contract).
THEOREM RampWaitsAndGrows ==
  ASSUME NEW base \in Nat \ {0}, NEW ceiling \in Nat \ {0}, NEW factor \in Int, NEW n \in Nat
  PROVE  LET delay(m) == Exponential(m, base, ceiling, factor)
         IN  /\ delay(n) \in 1..ceiling
             /\ delay(n) <= delay(n + 1)
             /\ delay(-n) = delay(0)
<1> DEFINE x    == IF factor <= 10 THEN 10 ELSE factor
           d(m) == (base * Power(x, m)) \div Power(10, m)
<1>1. x \in Nat /\ x >= 10
  OBVIOUS
<1>2. /\ d(n) \in Nat \ {0} /\ d(n) <= d(n + 1)
      /\ d(n + 1) \in Nat
  <2>1. n + 1 \in Nat
    OBVIOUS
  <2> HIDE DEF x
  <2> QED
    BY <1>1, <2>1, PowersOutgrowTen
<1>3. ASSUME NEW m \in Nat
      PROVE  Exponential(m, base, ceiling, factor) = IF d(m) >= ceiling THEN ceiling ELSE d(m)
  BY DEF Exponential
<1>4. Exponential(-n, base, ceiling, factor) = Exponential(0, base, ceiling, factor)
  <2>1. CASE n = 0
    BY <2>1
  <2>2. CASE n # 0
    <3>1. -n < 0
      BY <2>2
    <3> QED
      BY <3>1 DEF Exponential
  <2> QED
    BY <2>1, <2>2
<1> HIDE DEF d
<1> QED
  BY <1>2, <1>3, <1>4

LEMMA JitterIsADelay ==
  ASSUME NEW n \in Nat, NEW base \in Nat \ {0}, NEW ceiling \in Nat \ {0}, NEW factor \in Int,
         NEW t \in EqualJitter(n, base, ceiling, factor)
  PROVE  t \in 0..ceiling
<1>1. Exponential(n, base, ceiling, factor) \in 1..ceiling
  BY RampWaitsAndGrows
<1> QED
  BY <1>1 DEF EqualJitter
----------------------------------------------------------------------------
(* One schedule of the limiter: its answers hold, and it always has one *)

\* A bounded set of instants has a latest, a set of instants an earliest.
LEMMA LatestOf ==
  ASSUME NEW S \in SUBSET Nat, S # {}, NEW b \in Nat, \A x \in S : x <= b
  PROVE  Latest(S) \in S /\ \A x \in S : x <= Latest(S)
<1> DEFINE Above == {n \in Nat : \A x \in S : x <= n}
<1>1. PICK m \in Above : \A n \in Above : m <= n
  <2> HIDE DEF Above
  <2>1. Above \in SUBSET Nat /\ Above # {}
    BY DEF Above
  <2> QED
    BY <2>1, LeastOf
<1>2. m \in S
  <2> SUFFICES ASSUME m \notin S PROVE FALSE
    OBVIOUS
  <2>1. PICK x \in S : x <= m /\ x # m
    BY <1>1
  <2>2. m - 1 \in Nat
    BY <1>1, <2>1
  <2>3. \A y \in S : y <= m - 1
    BY <1>1
  <2> QED
    BY <1>1, <2>2, <2>3
<1> QED
  BY <1>1, <1>2 DEF Latest

LEMMA EarliestOf ==
  ASSUME NEW S \in SUBSET Nat, S # {}
  PROVE  Earliest(S) \in S /\ \A x \in S : Earliest(S) <= x
BY LeastOf DEF Earliest

Window == [count : Nat \ {0}, per : Nat \ {0}]

\* Windows and grants of a schedule, all of them before b.
SoundSchedule(s, b) ==
  /\ s \in [kind : {"ordered", "unordered"}, windows : SUBSET Window, grants : SUBSET Grant]
  /\ \A w \in s.windows : w.per <= b
  /\ \A g \in s.grants : g.at <= b

\* The windows of a rate: every one has room for a grant and a length.
LEMMA PaceWindowsAreSound ==
  ASSUME NEW r \in Rate, r.count > 0 => r.per > 0
  PROVE  /\ paceWindows(r) \cup quotaWindows(r) \subseteq Window
         /\ \E b \in Nat : \A w \in paceWindows(r) \cup quotaWindows(r) : w.per <= b
<1>1. CASE r.count = 0
  BY <1>1 DEF paceWindows, quotaWindows
<1>2. CASE r.count # 0
  <2>1. r.count \in Nat \ {0} /\ r.per \in Nat \ {0}
    BY <1>2 DEF Rate
  <2>2. ceilDiv(r.per, r.count) \in Nat \ {0}
    <3>1. ASSUME NEW n \in Nat \ {0}, NEW p \in Nat \ {0} PROVE (p + n - 1) \div n \in Nat \ {0}
      BY Z3
    <3> QED
      BY <2>1, <3>1 DEF ceilDiv
  <2>3. PICK d \in Nat \ {0} : d = ceilDiv(r.per, r.count)
    BY <2>2
  <2>4. paceWindows(r) \cup quotaWindows(r) = {[count |-> 1, per |-> d], r}
    BY <1>2, <2>3 DEF paceWindows, quotaWindows
  <2>5. [count |-> 1, per |-> d] \in Window /\ r \in Window
    BY <2>1 DEF Window, Rate
  <2>6. d <= d + r.per /\ r.per <= d + r.per /\ d + r.per \in Nat
    BY <2>1
  <2> QED
    BY <2>4, <2>5, <2>6
<1> QED
  BY <1>1, <1>2 DEF Rate

LEMMA BoundsJoin ==
  ASSUME NEW S, NEW T,
         S \cup T \subseteq Window,
         \E b \in Nat : \A w \in S : w.per <= b, \E b \in Nat : \A w \in T : w.per <= b
  PROVE  \E b \in Nat : \A w \in S \cup T : w.per <= b
<1>1. PICK b \in Nat : \A w \in S : w.per <= b
  OBVIOUS
<1>2. PICK d \in Nat : \A w \in T : w.per <= d
  OBVIOUS
<1>3. \A w \in S \cup T : w.per \in Nat
  BY DEF Window
<1>4. \A w \in S \cup T : w.per <= b + d
  BY <1>1, <1>2, <1>3
<1> QED
  BY <1>4

LEMMA NewSchedulesAreSound ==
  ASSUME NEW k \in Key
  PROVE  \E b \in Nat : SoundSchedule(newLimiter[k], b)
<1>1. PICK c \in Call : k = GlobalKey(c) \/ k = ChatKey(c)
  BY DEF Key, Charged
<1>2. ClassOf[c] \in Class
  BY CallerAssumption
<1> DEFINE L == Limits[ClassOf[c]]
<1>3. /\ L.global \in Rate /\ (L.global.count > 0 => L.global.per > 0)
      /\ L.chatRate \in Rate /\ (L.chatRate.count > 0 => L.chatRate.per > 0)
      /\ L.chatCap \in Rate /\ (L.chatCap.count > 0 => L.chatCap.per > 0)
  <2>1. L \in ClassLimits /\ \A x \in DOMAIN L : L[x].count > 0 => L[x].per > 0
    BY <1>2, LimiterAssumption DEF Class
  <2> HIDE DEF L
  <2>2. DOMAIN L = {"global", "chatRate", "chatCap"}
    BY <2>1 DEF ClassLimits
  <2> QED
    BY <2>1, <2>2 DEF ClassLimits
<1>4. CASE k = GlobalKey(c)
  <2>1. newLimiter[k] = [kind |-> "unordered", windows |-> paceWindows(L.global), grants |-> {}]
    BY <1>4 DEF newLimiter, GlobalKey, globalSchedule, schedule
  <2>2. paceWindows(L.global) \subseteq Window /\ \E b \in Nat : \A w \in paceWindows(L.global) : w.per <= b
    BY <1>3, PaceWindowsAreSound
  <2> QED
    BY <2>1, <2>2 DEF SoundSchedule
<1>5. CASE k = ChatKey(c)
  <2>1. newLimiter[k] = [kind |-> "ordered", windows |-> chatWindows(ClassOf[c]), grants |-> {}]
    BY <1>5 DEF newLimiter, ChatKey, schedule
  <2>2. /\ paceWindows(L.chatRate) \subseteq Window /\ quotaWindows(L.chatCap) \subseteq Window
        /\ \E b \in Nat : \A w \in paceWindows(L.chatRate) : w.per <= b
        /\ \E b \in Nat : \A w \in quotaWindows(L.chatCap) : w.per <= b
    BY <1>3, PaceWindowsAreSound
  <2>3. chatWindows(ClassOf[c]) = paceWindows(L.chatRate) \cup quotaWindows(L.chatCap)
    BY DEF chatWindows
  <2>4. chatWindows(ClassOf[c]) \subseteq Window /\ \E b \in Nat : \A w \in chatWindows(ClassOf[c]) : w.per <= b
    BY <2>2, <2>3, BoundsJoin
  <2> QED
    BY <2>1, <2>4 DEF SoundSchedule
<1> QED
  BY <1>1, <1>4, <1>5

\* What is proposed lies within twice the bound, and holds the end of every window.
LEMMA ProposalsAreBounded ==
  ASSUME NEW s, NEW b \in Nat, SoundSchedule(s, b)
  PROVE  /\ Proposals(s) \subseteq Nat /\ \A t \in Proposals(s) : t <= b + b
         /\ Instants(s.grants) \subseteq Proposals(s)
         /\ \A g \in s.grants, w \in s.windows : g.at + w.per \in Proposals(s)
<1>1. /\ s.windows \subseteq Window /\ s.grants \subseteq Grant
      /\ \A w \in s.windows : w.per <= b
      /\ \A g \in s.grants : g.at <= b
  BY DEF SoundSchedule
<1>2. \A t \in Instants(s.grants) : t \in Nat /\ t <= b
  BY <1>1 DEF Instants, Grant
<1>3. \A d \in {0} \cup {w.per : w \in s.windows} : d \in Nat /\ d <= b
  BY <1>1 DEF Window
<1>4. Proposals(s) \subseteq Nat /\ \A t \in Proposals(s) : t <= b + b
  BY <1>2, <1>3 DEF Proposals
<1>5. ASSUME NEW t \in Instants(s.grants), NEW d \in {0} \cup {w.per : w \in s.windows}
      PROVE  t + d \in Proposals(s)
  <2> DEFINE T == Instants(s.grants)
             D == {0} \cup {w.per : w \in s.windows}
  <2>1. Proposals(s) = {i + j : i \in T, j \in D}
    BY DEF Proposals
  <2>2. t \in T /\ d \in D
    OBVIOUS
  <2> HIDE DEF T, D
  <2>3. t + d \in {i + j : i \in T, j \in D}
    BY <2>2, SMT
  <2> QED
    BY <2>1, <2>3
<1>6. ASSUME NEW t \in Instants(s.grants) PROVE t \in Proposals(s)
  <2>1. t + 0 \in Proposals(s)
    BY <1>5
  <2> QED
    BY <2>1, <1>2
<1>7. ASSUME NEW g \in s.grants, NEW w \in s.windows PROVE g.at + w.per \in Proposals(s)
  <2>1. g.at \in Instants(s.grants)
    BY DEF Instants
  <2> QED
    BY <1>5, <2>1
<1> QED
  BY <1>4, <1>6, <1>7

\* An instant at which every window of every grant has closed is free.
LEMMA HoldsAfterAll ==
  ASSUME NEW s, NEW b \in Nat, SoundSchedule(s, b), NEW t \in Nat,
         \A x \in Proposals(s) : x <= t
  PROVE  holds(s, t)
<1> SUFFICES ASSUME NEW w \in s.windows, NEW u \in {t} \cup Instants(s.grants), t \in u .. u + w.per - 1
             PROVE  Cardinality(Within(s.grants, u, w.per)) < w.count
  BY DEF holds
<1>1. w \in Window /\ w.per \in Nat \ {0} /\ w.count \in Nat \ {0} /\ s.grants \subseteq Grant
  BY DEF SoundSchedule, Window
<1>2. \A g \in s.grants : g.at \in Nat /\ g.at + w.per <= t
  BY <1>1, ProposalsAreBounded DEF Grant
<1>3. u = t
  BY <1>1, <1>2 DEF Instants
<1>4. Within(s.grants, u, w.per) = {}
  BY <1>1, <1>2, <1>3 DEF Within
<1> QED
  BY <1>1, <1>4, FS_EmptySet

\* A schedule always has an answer, and its answer holds.
LEMMA EarliestHolds ==
  ASSUME NEW s, NEW b \in Nat, SoundSchedule(s, b), NEW x \in Nat
  PROVE  /\ earliest(s, x) \in Nat /\ x <= earliest(s, x)
         /\ holds(s, earliest(s, x))
         /\ (\A t \in Proposals(s) : t <= x) => earliest(s, x) = x
<1> DEFINE raised == {x} \cup Instants(s.grants)
           from == IF s.kind = "ordered" THEN Latest(raised) ELSE x
           all  == {from} \cup Proposals(s)
           ok   == {t \in all : t >= from /\ holds(s, t)}
<1>1. /\ Proposals(s) \subseteq Nat /\ \A t \in Proposals(s) : t <= b + b
      /\ Instants(s.grants) \subseteq Proposals(s)
  BY ProposalsAreBounded
<1>2. Latest(raised) \in raised /\ \A t \in raised : t <= Latest(raised)
  <2>1. raised \subseteq Nat /\ raised # {} /\ \A t \in raised : t <= x + b + b
    BY <1>1
  <2>2. x + b + b \in Nat
    OBVIOUS
  <2> HIDE DEF raised
  <2> QED
    BY <2>1, <2>2, LatestOf
<1>3. /\ from \in Nat /\ x <= from
      /\ (\A t \in Proposals(s) : t <= x) => from = x
  BY <1>1, <1>2
<1> HIDE DEF from
<1>4. all \subseteq Nat /\ all # {} /\ \A t \in all : t <= from + b + b
  BY <1>1, <1>3
<1>5. Latest(all) \in all /\ \A t \in all : t <= Latest(all)
  <2>1. from + b + b \in Nat
    BY <1>3
  <2> HIDE DEF all
  <2> QED
    BY <1>4, <2>1, LatestOf
<1>6. holds(s, Latest(all))
  BY <1>4, <1>5, HoldsAfterAll
<1>7. ok \subseteq Nat /\ ok # {}
  BY <1>4, <1>5, <1>6
<1>8. earliest(s, x) = Earliest(ok)
  BY DEF earliest, from
<1>9. Earliest(ok) \in ok /\ \A t \in ok : Earliest(ok) <= t
  <2> HIDE DEF ok
  <2> QED
    BY <1>7, EarliestOf
<1>10. ASSUME \A t \in Proposals(s) : t <= x PROVE Earliest(ok) = x
  <2>1. holds(s, x) /\ from = x
    BY <1>3, <1>10, HoldsAfterAll
  <2>2. x \in ok
    BY <2>1
  <2> QED
    BY <1>7, <1>9, <2>1, <2>2
<1> QED
  BY <1>3, <1>4, <1>8, <1>9, <1>10

\* The search always ends, on an instant every schedule holds (acquireFixedPoint's
\* "not believed to reach" its bound on passes).
LEMMA FixedPointHolds ==
  ASSUME NEW ss, NEW b \in Nat, \A s \in ss : SoundSchedule(s, b), NEW start \in Nat
  PROVE  LET t == acquireFixedPoint(ss, start)
         IN  t \in Nat /\ start <= t /\ \A s \in ss : holds(s, t)
<1> DEFINE proposed == {start} \cup UNION {Proposals(s) : s \in ss}
           ok == {t \in proposed : t >= start /\ \A s \in ss : earliest(s, t) = t}
<1>1. \A t \in UNION {Proposals(s) : s \in ss} : t \in Nat /\ t <= b + b
  BY ProposalsAreBounded
<1>2. proposed \subseteq Nat /\ proposed # {} /\ \A t \in proposed : t <= start + b + b
  BY <1>1
<1>3. Latest(proposed) \in proposed /\ \A t \in proposed : t <= Latest(proposed)
  <2>1. start + b + b \in Nat
    OBVIOUS
  <2> HIDE DEF proposed
  <2> QED
    BY <1>2, <2>1, LatestOf
<1>4. ASSUME NEW s \in ss PROVE earliest(s, Latest(proposed)) = Latest(proposed)
  <2>1. \A t \in Proposals(s) : t <= Latest(proposed)
    BY <1>3
  <2>2. Latest(proposed) \in Nat
    BY <1>2, <1>3
  <2> HIDE DEF proposed
  <2> QED
    BY <2>1, <2>2, EarliestHolds
<1>5. ok \subseteq Nat /\ ok # {}
  BY <1>2, <1>3, <1>4
<1>6. Earliest(ok) \in ok
  <2> HIDE DEF ok
  <2> QED
    BY <1>5, EarliestOf
<1>7. acquireFixedPoint(ss, start) = Earliest(ok)
  BY DEF acquireFixedPoint
<1>8. ASSUME NEW s \in ss PROVE holds(s, Earliest(ok))
  <2>1. Earliest(ok) \in Nat /\ earliest(s, Earliest(ok)) = Earliest(ok)
    BY <1>5, <1>6
  <2> HIDE DEF ok
  <2> QED
    BY <2>1, EarliestHolds
<1> QED
  BY <1>2, <1>6, <1>7, <1>8
----------------------------------------------------------------------------
(* The schedules under concurrent calls.  A grant that was dropped is too old for
   an interval with a grant in it that is not earlier than an instant read within
   MaxLag; so what a schedule holds, everything ever granted holds. *)

\* A window but for the lag.
Shorten(w) == IF MaxLag > 0 THEN w.per - MaxLag + 1 ELSE w.per

Schedule == [kind : {"ordered", "unordered"}, windows : SUBSET Window, grants : SUBSET Grant]

\* The schedule of a key, s, at an instant: what it dropped out of everything
\* ever granted, G, is too old to matter, and G respects the windows.
KeyInv(k, s, G, now) ==
  /\ s \in Schedule /\ s.windows = newLimiter[k].windows
  /\ s.windows = {} => s.grants = {}
  /\ G \subseteq Grant /\ IsFiniteSet(G) /\ \E b \in Nat : \A g \in G : g.at <= b
  /\ s.grants \subseteq G
  /\ s.windows # {} => \A g \in G : g \in s.grants \/ g.at < now - maxPer(s)
  /\ \A w \in s.windows : \A u \in Instants(G) : Cardinality(Within(G, u, Shorten(w))) <= w.count

LEMMA KeyIsSound ==
  ASSUME NEW k \in Key, NEW s, NEW G, NEW now \in Nat, KeyInv(k, s, G, now)
  PROVE  /\ \E b \in Nat : SoundSchedule(s, b)
         /\ maxPer(s) \in Nat /\ \A w \in s.windows : w.per <= maxPer(s)
<1>1. PICK b \in Nat : SoundSchedule(newLimiter[k], b)
  BY NewSchedulesAreSound
<1>2. PICK d \in Nat : \A g \in G : g.at <= d
  BY DEF KeyInv
<1>3. /\ s \in Schedule /\ \A w \in s.windows : w \in Window /\ w.per \in Nat /\ w.per <= b
      /\ \A g \in s.grants : g.at \in Nat /\ g.at <= d
  BY <1>1, <1>2 DEF KeyInv, SoundSchedule, Schedule, Window, Grant
<1>4. SoundSchedule(s, b + d)
  BY <1>3 DEF SoundSchedule, Schedule
<1>5. CASE s.windows = {}
  BY <1>4, <1>5 DEF maxPer
<1>6. CASE s.windows # {}
  <2> DEFINE pers == {w.per : w \in s.windows}
  <2>1. pers \subseteq Nat /\ pers # {} /\ \A p \in pers : p <= b
    BY <1>3, <1>6
  <2>2. maxPer(s) = Latest(pers)
    BY <1>6 DEF maxPer
  <2>3. Latest(pers) \in pers /\ \A p \in pers : p <= Latest(pers)
    <3> HIDE DEF pers
    <3> QED
      BY <2>1, LatestOf
  <2> QED
    BY <1>4, <2>1, <2>2, <2>3
<1> QED
  BY <1>5, <1>6

LEMMA TimeKeepsKey ==
  ASSUME NEW k \in Key, NEW s, NEW G, NEW now \in Nat, KeyInv(k, s, G, now)
  PROVE  KeyInv(k, s, G, now + 1)
<1>1. maxPer(s) \in Nat /\ \A g \in G : g.at \in Nat
  BY KeyIsSound DEF KeyInv, Grant
<1> QED
  BY <1>1 DEF KeyInv

\* Evicting by an instant read earlier drops nothing that still matters.
LEMMA EvictKeepsKey ==
  ASSUME NEW k \in Key, NEW s, NEW G, NEW now \in Nat, KeyInv(k, s, G, now),
         NEW read \in Nat, read <= now
  PROVE  KeyInv(k, evict(s, read), G, now)
<1> DEFINE kept == {g \in s.grants : g.at >= read - maxPer(s)}
<1>1. s \in Schedule /\ kept \subseteq s.grants /\ s.grants \subseteq Grant /\ s.grants \subseteq G
  BY DEF KeyInv, Schedule
<1>2. PICK e : e = [s EXCEPT !.grants = kept]
  OBVIOUS
<1>3. e \in Schedule /\ e.windows = s.windows /\ e.grants = kept
  BY <1>1, <1>2 DEF Schedule
<1>4. evict(s, read) = e
  BY <1>2 DEF evict
<1>5. maxPer(e) = maxPer(s) /\ maxPer(s) \in Nat
  BY <1>3, KeyIsSound DEF maxPer
<1>6. ASSUME s.windows # {}, NEW g \in G PROVE g \in e.grants \/ g.at < now - maxPer(e)
  <2>1. g.at \in Nat
    BY DEF KeyInv, Grant
  <2>2. g \in s.grants \/ g.at < now - maxPer(s)
    BY <1>6 DEF KeyInv
  <2> QED
    BY <2>1, <2>2, <1>3, <1>5
<1>7. s.windows = {} => e.grants = {}
  BY <1>3 DEF KeyInv
<1>8. e.grants \subseteq G
  BY <1>1, <1>3
<1> HIDE DEF kept
<1>9. KeyInv(k, e, G, now)
  BY <1>3, <1>5, <1>6, <1>7, <1>8 DEF KeyInv
<1> QED
  BY <1>4, <1>9

\* One more grant, where the schedule holds it, by a call that read its instant
\* at most MaxLag ago.
LEMMA CommitKeepsKey ==
  ASSUME NEW k \in Key, NEW s, NEW G, NEW now \in Nat, KeyInv(k, s, G, now),
         NEW g \in Grant, g.at >= now - MaxLag, holds(s, g.at)
  PROVE  KeyInv(k, commit(s, g), G \cup {g}, now)
<1> DEFINE H == G \cup {g}
<1>1. /\ MaxLag \in Nat /\ g.at \in Nat
      /\ s \in Schedule /\ G \subseteq Grant /\ IsFiniteSet(G) /\ s.grants \subseteq G /\ s.windows \subseteq Window
  BY CallerAssumption DEF KeyInv, Grant, Schedule
<1>2. H \subseteq Grant /\ IsFiniteSet(H)
  BY <1>1, FS_AddElement
<1>3. \E b \in Nat : \A h \in H : h.at <= b
  <2>1. PICK b \in Nat : \A h \in G : h.at <= b
    BY DEF KeyInv
  <2>2. \A h \in H : h.at \in Nat /\ h.at <= b + g.at
    BY <2>1, <1>1 DEF Grant
  <2> QED
    BY <2>2, <1>1
<1>4. CASE s.windows = {}
  <2>1. commit(s, g) = s
    BY <1>4 DEF commit
  <2>2. s.grants \subseteq H
    BY <1>1
  <2> HIDE DEF H
  <2>3. KeyInv(k, s, H, now)
    BY <1>2, <1>3, <1>4, <2>2 DEF KeyInv
  <2> QED
    BY <2>1, <2>3 DEF H
<1>5. CASE s.windows # {}
  <2>1. PICK e : e = [s EXCEPT !.grants = s.grants \cup {g}]
    OBVIOUS
  <2>2. e \in Schedule /\ e.windows = s.windows /\ e.grants = s.grants \cup {g}
    BY <1>1, <2>1 DEF Schedule
  <2>3. commit(s, g) = e
    BY <1>5, <2>1 DEF commit
  <2>4. maxPer(e) = maxPer(s) /\ maxPer(s) \in Nat /\ \A w \in s.windows : w.per <= maxPer(s)
    BY <2>2, KeyIsSound DEF maxPer
  <2>5. \A h \in H : h \in e.grants \/ h.at < now - maxPer(e)
    BY <1>5, <2>2, <2>4 DEF KeyInv
  <2>6. ASSUME NEW w \in s.windows, NEW u \in Instants(H)
        PROVE  Cardinality(Within(H, u, Shorten(w))) <= w.count
    <3>1. /\ w.per \in Nat /\ w.count \in Nat \ {0} /\ u \in Nat /\ Shorten(w) \in Int
          /\ Shorten(w) <= w.per /\ MaxLag + Shorten(w) <= w.per + 1
      BY <1>1, <1>2 DEF Window, Instants, Grant, Shorten
    <3> DEFINE old == Within(G, u, Shorten(w))
    <3>2. CASE g.at \notin u .. u + Shorten(w) - 1
      <4>1. Within(H, u, Shorten(w)) = old
        BY <3>2 DEF Within
      <4>2. CASE u \in Instants(G)
        BY <4>1, <4>2 DEF KeyInv
      <4>3. CASE u \notin Instants(G)
        <5>1. u = g.at
          BY <4>3 DEF Instants
        <5>2. Shorten(w) <= 0
          BY <3>1, <3>2, <5>1
        <5>3. old = {}
          BY <3>1, <5>2 DEF Within
        <5>4. Cardinality(old) = 0
          BY <5>3, FS_EmptySet
        <5> HIDE DEF old, H
        <5> QED
          BY <3>1, <4>1, <5>4
      <4> QED
        BY <4>2, <4>3
    <3>3. CASE g.at \in u .. u + Shorten(w) - 1
      <4>1. Within(H, u, Shorten(w)) = old \cup {g}
        BY <3>3 DEF Within
      <4>2. u >= now - maxPer(s)
        BY <3>1, <3>3, <1>1, <2>4
      <4>3. \A h \in G : h.at >= u => h \in s.grants
        <5>1. \A h \in G : h.at \in Nat
          BY <1>1 DEF Grant
        <5> QED
          BY <4>2, <5>1, <1>5, <2>4, <3>1 DEF KeyInv
      <4>4. u \in {g.at} \cup Instants(s.grants)
        <5>1. PICK h \in H : u = h.at
          BY DEF Instants
        <5>2. CASE h = g
          BY <5>1, <5>2
        <5>3. CASE h # g
          <6>1. h \in s.grants
            BY <5>1, <5>3, <4>3, <3>1
          <6> QED
            BY <5>1, <6>1 DEF Instants
        <5> QED
          BY <5>2, <5>3
      <4>5. g.at \in u .. u + w.per - 1
        BY <3>1, <3>3
      <4>6. Cardinality(Within(s.grants, u, w.per)) < w.count
        BY <4>4, <4>5 DEF holds
      <4>7. old \subseteq Within(s.grants, u, w.per)
        BY <4>3, <3>1, <1>1 DEF Within, Grant
      <4>8. IsFiniteSet(Within(s.grants, u, w.per)) /\ IsFiniteSet(old)
        <5>1. Within(s.grants, u, w.per) \subseteq G /\ old \subseteq G
          BY <1>1 DEF Within
        <5> HIDE DEF old
        <5> QED
          BY <5>1, <1>1, FS_Subset
      <4> HIDE DEF old
      <4>9. Cardinality(old) <= Cardinality(Within(s.grants, u, w.per))
        BY <4>7, <4>8, FS_Subset
      <4>10. Cardinality(old \cup {g}) \in Nat /\ Cardinality(old) \in Nat
             /\ Cardinality(old \cup {g}) <= Cardinality(old) + 1
        <5>1. Cardinality(old) \in Nat
          BY <4>8, FS_CardinalityType
        <5>2. Cardinality(old \cup {g}) = IF g \in old THEN Cardinality(old) ELSE Cardinality(old) + 1
          BY <4>8, FS_AddElement
        <5> QED
          BY <5>1, <5>2
      <4>11. Cardinality(Within(s.grants, u, w.per)) \in Nat
        BY <4>8, FS_CardinalityType
      <4> HIDE DEF H
      <4> QED
        BY <4>1, <4>6, <4>9, <4>10, <4>11, <3>1
    <3> QED
      BY <3>2, <3>3
  <2>7. e.grants \subseteq H /\ e.windows = newLimiter[k].windows
    BY <1>1, <2>2 DEF KeyInv
  <2> HIDE DEF H
  <2>8. KeyInv(k, e, H, now)
    BY <1>2, <1>3, <1>5, <2>2, <2>5, <2>6, <2>7 DEF KeyInv
  <2> QED
    BY <2>3, <2>8 DEF H
<1> QED
  BY <1>4, <1>5
----------------------------------------------------------------------------
(* The calls *)

Told(r) == r.pc = "ok" \/ (r.pc = "error" /\ (r.ambiguous \/ r.status = "ok"))

\* One call's goroutine at an instant: it read the clock lately, has an attempt
\* left while it is open, and acted at most once, which it tells.
CallOK(r, now) ==
  /\ r \in Goroutine
  /\ r.pc = "acquire" => r.at <= now /\ now - r.at <= MaxLag
  /\ r.pc \notin {"ok", "error"} => r.attempts < MaxAttempts
  /\ r.sent <= 1
  /\ r.sent = 1 => Told(r)

CallerInv ==
  /\ clock \in 0..MaxClock
  /\ DOMAIN call = Call /\ call = [c \in Call |-> call[c]]
  /\ \A c \in Call : CallOK(call[c], clock)
  /\ \A k \in Key : KeyInv(k, sched[k], granted[k], clock)

LEMMA CallerInvStarts == CallerInit => CallerInv
<1> SUFFICES ASSUME CallerInit PROVE CallerInv
  OBVIOUS
<1>1. clock = 0 /\ clock \in 0..MaxClock /\ MaxAttempts \in Nat \ {0}
  BY CallerAssumption DEF CallerInit
<1>2. Idle \in Goroutine /\ Idle.pc = "idle" /\ Idle.attempts = 0 /\ Idle.sent = 0
  BY <1>1 DEF Idle, Goroutine
<1>3. CallOK(Idle, clock)
  BY <1>1, <1>2 DEF CallOK
<1>4. ASSUME NEW k \in Key PROVE KeyInv(k, sched[k], granted[k], clock)
  <2>1. sched[k] = newLimiter[k] /\ granted[k] = {}
    BY <1>4 DEF CallerInit
  <2>2. newLimiter[k] \in Schedule /\ newLimiter[k].grants = {}
    <3>1. \E b \in Nat : SoundSchedule(newLimiter[k], b)
      BY <1>4, NewSchedulesAreSound
    <3>2. newLimiter[k].grants = {}
      BY <1>4 DEF newLimiter, globalSchedule, schedule
    <3> QED
      BY <3>1, <3>2 DEF SoundSchedule, Schedule
  <2>3. Instants({}) = {}
    BY DEF Instants
  <2> QED
    BY <2>1, <2>2, <2>3, FS_EmptySet DEF KeyInv
<1> QED
  BY <1>1, <1>3, <1>4 DEF CallerInv, CallerInit

\* What the goroutine of c becomes, when the clock stands still.
LEMMA CallChanges ==
  ASSUME CallerInv, NEW c \in Call, NEW r, CallOK(r, clock), call' = [call EXCEPT ![c] = r],
         UNCHANGED clock
  PROVE  DOMAIN call' = Call /\ call' = [d \in Call |-> call'[d]] /\ \A d \in Call : CallOK(call'[d], clock')
BY DEF CallerInv

LEMMA CallFails ==
  ASSUME CallerInv, NEW c \in Call, call[c].pc \notin {"ok", "error"}, Fails(c)
  PROVE  \E r : CallOK(r, clock) /\ call' = [call EXCEPT ![c] = r]
<1>1. PICK o : o = call[c]
  OBVIOUS
<1>2. o \in Goroutine /\ o.pc \notin {"ok", "error"} /\ o.sent = 0
  BY <1>1 DEF CallerInv, CallOK, Told, Goroutine
<1>3. PICK r : r = [[o EXCEPT !.pc = "error"] EXCEPT !.at = 0]
  OBVIOUS
<1>4. r \in Goroutine /\ r.pc = "error" /\ r.sent = 0
  BY <1>2, <1>3 DEF Goroutine
<1>5. CallOK(r, clock)
  BY <1>4 DEF CallOK
<1>6. call' = [call EXCEPT ![c] = r]
  BY <1>1, <1>3, Zenon DEF Fails, CallerInv
<1> QED
  BY <1>5, <1>6

LEMMA CallGoesOn ==
  ASSUME CallerInv, NEW c \in Call, call[c].pc \notin {"ok", "error"}, NEW now \in {clock},
         call' = [call EXCEPT ![c].pc = "acquire", ![c].at = now]
  PROVE  \E r : CallOK(r, clock) /\ call' = [call EXCEPT ![c] = r]
<1>1. PICK o : o = call[c]
  OBVIOUS
<1>2. o \in Goroutine /\ o.pc \notin {"ok", "error"} /\ o.sent = 0 /\ o.attempts < MaxAttempts /\ now \in Nat
  BY <1>1 DEF CallerInv, CallOK, Told, Goroutine
<1>3. PICK r : r = [[o EXCEPT !.pc = "acquire"] EXCEPT !.at = now]
  OBVIOUS
<1>4. r \in Goroutine /\ r.pc = "acquire" /\ r.at = now /\ r.sent = 0 /\ r.attempts = o.attempts
  BY <1>2, <1>3 DEF Goroutine
<1>5. CallOK(r, clock)
  BY <1>2, <1>4, CallerAssumption DEF CallOK
<1>6. call' = [call EXCEPT ![c] = r]
  BY <1>1, <1>3, Zenon DEF CallerInv
<1> QED
  BY <1>5, <1>6

\* A reservation: the instant, and whether there is a wait for it.
LEMMA CallWaits ==
  ASSUME CallerInv, NEW c \in Call, call[c].pc \notin {"ok", "error"},
         NEW at \in Nat, NEW timed \in BOOLEAN,
         call' = [call EXCEPT ![c].pc = "wait", ![c].at = at, ![c].timed = timed]
  PROVE  \E r : CallOK(r, clock) /\ call' = [call EXCEPT ![c] = r]
<1>1. PICK o : o = call[c]
  OBVIOUS
<1>2. o \in Goroutine /\ o.pc \notin {"ok", "error"} /\ o.sent = 0 /\ o.attempts < MaxAttempts
  BY <1>1 DEF CallerInv, CallOK, Told, Goroutine
<1>3. PICK r : r = [[[o EXCEPT !.pc = "wait"] EXCEPT !.at = at] EXCEPT !.timed = timed]
  OBVIOUS
<1>4. r \in Goroutine /\ r.pc = "wait" /\ r.sent = 0 /\ r.attempts = o.attempts
  BY <1>2, <1>3 DEF Goroutine
<1>5. CallOK(r, clock)
  BY <1>2, <1>4 DEF CallOK
<1>6. call' = [call EXCEPT ![c] = r]
  BY <1>1, <1>3, Zenon DEF CallerInv
<1> QED
  BY <1>5, <1>6

\* The end of its context changes nothing else of a call.
LEMMA CallIsCancelled ==
  ASSUME CallerInv, NEW c \in Call, ContextEnds(c)
  PROVE  \E r : CallOK(r, clock) /\ call' = [call EXCEPT ![c] = r]
<1>1. PICK o : o = call[c]
  OBVIOUS
<1>2. o \in Goroutine /\ CallOK(o, clock)
  BY <1>1 DEF CallerInv, CallOK
<1>3. PICK r : r = [o EXCEPT !.done = TRUE]
  OBVIOUS
<1>4. /\ r \in Goroutine /\ r.pc = o.pc /\ r.at = o.at /\ r.attempts = o.attempts
      /\ r.sent = o.sent /\ r.ambiguous = o.ambiguous /\ r.status = o.status
  BY <1>2, <1>3 DEF Goroutine
<1>5. CallOK(r, clock)
  BY <1>2, <1>4 DEF CallOK, Told
<1>6. call' = [call EXCEPT ![c] = r]
  BY <1>1, <1>3, Zenon DEF ContextEnds, CallerInv
<1> QED
  BY <1>5, <1>6

LEMMA WaitsAreNat ==
  ASSUME CallerInv, NEW c \in Call, NEW o \in Outcome, NEW t \in Waits(c, o)
  PROVE  t \in Nat
<1>1. o.after \in Nat
  BY CallerAssumption DEF Outcome, Unwritten
<1>2. AttemptNo(c) - 1 \in Nat
  BY CallerAssumption DEF AttemptNo, CallerInv, CallOK, Goroutine
<1>3. CASE o.after > 0
  BY <1>1, <1>3 DEF Waits
<1>4. CASE ~(o.after > 0)
  <2>1. t \in EqualJitter(AttemptNo(c) - 1, RetryBaseDelay, RetryMaxDelay, RetryFactor)
    BY <1>4 DEF Waits
  <2>2. RetryBaseDelay \in Nat \ {0} /\ RetryMaxDelay \in Nat \ {0} /\ RetryFactor \in Int
    BY CallerAssumption
  <2>3. t \in 0..RetryMaxDelay
    BY <1>2, <2>1, <2>2, JitterIsADelay
  <2> QED
    BY <2>2, <2>3
<1> QED
  BY <1>3, <1>4

\* Only an attempt that ends the call can have acted, and what it came to tells.
LEMMA AttemptTells ==
  ASSUME CallerInv, NEW c \in Call, Attempt(c)
  PROVE  \E r : CallOK(r, clock) /\ call' = [call EXCEPT ![c] = r]
<1>1. call[c].pc = "wait" /\ call[c] \in Goroutine /\ call[c].sent = 0 /\ call[c].attempts \in Nat
      /\ call[c].attempts < MaxAttempts /\ clock \in Nat /\ MaxAttempts \in Nat
  <2>1. call[c].pc = "wait"
    BY Zenon DEF Attempt
  <2>2. CallOK(call[c], clock) /\ clock \in Nat
    BY CallerAssumption DEF CallerInv
  <2>3. call[c] \in Goroutine /\ call[c].attempts < MaxAttempts
    BY <2>1, <2>2 DEF CallOK
  <2>4. call[c].sent = 0
    BY <2>1, <2>2, <2>3 DEF CallOK, Told, Goroutine
  <2> QED
    BY <2>1, <2>2, <2>3, <2>4, CallerAssumption DEF Goroutine
<1>2. PICK o \in Outcome : \E wait \in Waits(c, o) :
        LET n    == AttemptNo(c)
            late == DeadlineOf[c] # NoDeadline /\ clock + wait > DeadlineOf[c]
            ends == ~Retryable(o) \/ c \in Multipart \/ n >= MaxAttempts \/ late
        IN  call' = [call EXCEPT ![c] =
              [pc |-> IF o.good THEN "ok" ELSE IF ends THEN "error" ELSE "backoff",
               at |-> IF o.good \/ ends THEN 0 ELSE clock + wait,
               attempts |-> n, status |-> o.status, ambiguous |-> Ambiguous(o),
               sent |-> call[c].sent + IF o.acted THEN 1 ELSE 0,
               done |-> call[c].done, timed |-> wait > 0]]
  <2>1. Unwritten \in Outcome
    BY DEF Outcome
  <2> QED
    BY <2>1, Zenon DEF Attempt, CallerInv
<1>20. PICK wait \in Waits(c, o) :
        LET n    == AttemptNo(c)
            late == DeadlineOf[c] # NoDeadline /\ clock + wait > DeadlineOf[c]
            ends == ~Retryable(o) \/ c \in Multipart \/ n >= MaxAttempts \/ late
        IN  call' = [call EXCEPT ![c] =
              [pc |-> IF o.good THEN "ok" ELSE IF ends THEN "error" ELSE "backoff",
               at |-> IF o.good \/ ends THEN 0 ELSE clock + wait,
               attempts |-> n, status |-> o.status, ambiguous |-> Ambiguous(o),
               sent |-> call[c].sent + IF o.acted THEN 1 ELSE 0,
               done |-> call[c].done, timed |-> wait > 0]]
  BY <1>2
<1> DEFINE late == DeadlineOf[c] # NoDeadline /\ clock + wait > DeadlineOf[c]
           ends == ~Retryable(o) \/ c \in Multipart \/ AttemptNo(c) >= MaxAttempts \/ late
           pc == IF o.good THEN "ok" ELSE IF ends THEN "error" ELSE "backoff"
           at == IF o.good \/ ends THEN 0 ELSE clock + wait
           sent == call[c].sent + IF o.acted THEN 1 ELSE 0
<1>3. PICK r : r = [pc |-> pc, at |-> at, attempts |-> AttemptNo(c), status |-> o.status,
                    ambiguous |-> Ambiguous(o), sent |-> sent, done |-> call[c].done, timed |-> wait > 0]
  OBVIOUS
<1>4. call' = [call EXCEPT ![c] = r]
  BY <1>20, <1>3, Zenon
<1>5. wait \in Nat
  BY WaitsAreNat
<1>6. /\ o.status \in {"none", "ok", "tooMany", "server", "other"}
      /\ o.acted => o.status = "ok" \/ (Ambiguous(o) /\ ~Retryable(o))
      /\ o.status = "ok" => ~Retryable(o)
  <2>1. o.status \in {"none", "ok", "tooMany", "server", "other"}
    BY DEF Outcome, Unwritten
  <2>2. o.acted => o.status = "ok" \/ (o.status = "none" /\ o.wrote)
    BY DEF Outcome, Unwritten
  <2> QED
    BY <2>1, <2>2 DEF Ambiguous, Retryable
<1>7. Ambiguous(o) \in BOOLEAN /\ call[c].done \in BOOLEAN /\ (wait > 0) \in BOOLEAN
  BY <1>1 DEF Ambiguous, Goroutine
<1>8. pc \in {"ok", "error", "backoff"} /\ at \in Nat /\ sent = (IF o.acted THEN 1 ELSE 0)
  BY <1>1, <1>5
<1>9. AttemptNo(c) \in 0..MaxAttempts
  BY <1>1 DEF AttemptNo
<1>10. pc = "backoff" => AttemptNo(c) < MaxAttempts /\ ~o.acted
  BY <1>6, <1>9, <1>1
<1>11. o.acted /\ pc = "error" => Ambiguous(o) \/ o.status = "ok"
  BY <1>6
<1> HIDE DEF pc, at, sent
<1>12. r \in Goroutine /\ r.pc = pc /\ r.sent = sent /\ r.attempts = AttemptNo(c)
       /\ r.ambiguous = Ambiguous(o) /\ r.status = o.status
  BY <1>3, <1>6, <1>7, <1>8, <1>9 DEF Goroutine
<1>13. CallOK(r, clock)
  BY <1>6, <1>8, <1>10, <1>11, <1>12 DEF CallOK, Told
<1> QED
  BY <1>4, <1>13

\* Under the mutex: evict, find an instant every schedule of the call holds, and
\* commit to all of them or to none.
LEMMA AcquireReserves ==
  ASSUME CallerInv, NEW c \in Call, Acquire(c)
  PROVE  /\ \E r : CallOK(r, clock) /\ call' = [call EXCEPT ![c] = r]
         /\ \A k \in Key : KeyInv(k, sched'[k], granted'[k], clock)
<1> DEFINE now     == call[c].at
           keys    == Charged(c)
           evicted == [k \in Key |-> IF k \in keys THEN evict(sched[k], now) ELSE sched[k]]
           ss      == {evicted[k] : k \in keys}
           t       == acquireFixedPoint(ss, now)
<1>1. /\ now \in Nat /\ clock \in Nat /\ MaxLag \in Nat
      /\ now <= clock /\ clock - now <= MaxLag
      /\ call[c].pc = "acquire" /\ call[c].attempts \in 0 .. MaxAttempts - 1
  BY CallerAssumption DEF Acquire, CallerInv, CallOK, Goroutine
<1>2. keys \subseteq Key
  BY DEF Key
<1>3. \A k \in Key : KeyInv(k, sched[k], granted[k], clock)
  BY DEF CallerInv
<1>4. \A k \in Key : KeyInv(k, evicted[k], granted[k], clock)
  <2>1. \A k \in Key : KeyInv(k, evict(sched[k], now), granted[k], clock)
    BY <1>1, <1>3, EvictKeepsKey
  <2> HIDE DEF now, keys
  <2> QED
    BY <1>3, <2>1
<1>5. PICK e \in {evicted} : \E y \in {acquireFixedPoint({e[k] : k \in keys}, now)} :
       IF DeadlineOf[c] # NoDeadline /\ y > DeadlineOf[c]
       THEN /\ sched' = e
            /\ Fails(c)
            /\ UNCHANGED granted
       ELSE /\ sched' = [k \in Key |-> IF k \in keys THEN commit(e[k], GrantOf(c, y)) ELSE sched[k]]
            /\ granted' = [k \in Key |-> IF k \in keys THEN granted[k] \cup {GrantOf(c, y)} ELSE granted[k]]
            /\ call' = [call EXCEPT ![c].pc = "wait", ![c].at = y, ![c].timed = y > clock]
  BY Zenon DEF Acquire
<1>6. \E b \in Nat : \A s \in {e[k] : k \in keys} : SoundSchedule(s, b)
  <2>1. \A k \in Key : \E b \in Nat : SoundSchedule(e[k], b)
    BY <1>1, <1>4, <1>5, KeyIsSound
  <2>2. GlobalKey(c) \in Key /\ GlobalKey(c) \in keys
    BY <1>2 DEF Charged
  <2>3. PICK b \in Nat : SoundSchedule(e[GlobalKey(c)], b)
    BY <2>1, <2>2
  <2>4. CASE keys = {GlobalKey(c)}
    BY <2>3, <2>4
  <2>5. CASE keys = {GlobalKey(c), ChatKey(c)}
    <3>1. ChatKey(c) \in Key
      BY <1>2, <2>5
    <3>2. PICK d \in Nat : SoundSchedule(e[ChatKey(c)], d)
      BY <2>1, <3>1
    <3>3. ASSUME NEW s, NEW x \in Nat, NEW y \in Nat, SoundSchedule(s, x) PROVE SoundSchedule(s, x + y)
      BY <3>3 DEF SoundSchedule, Window, Grant
    <3>4. SoundSchedule(e[GlobalKey(c)], b + d) /\ SoundSchedule(e[ChatKey(c)], d + b)
      BY <2>3, <3>2, <3>3
    <3>5. d + b = b + d /\ b + d \in Nat
      OBVIOUS
    <3> QED
      BY <2>5, <3>4, <3>5
  <2> QED
    BY <2>4, <2>5 DEF Charged
<1>7. PICK x \in {acquireFixedPoint({e[k] : k \in keys}, now)} :
       IF DeadlineOf[c] # NoDeadline /\ x > DeadlineOf[c]
       THEN /\ sched' = e
            /\ Fails(c)
            /\ UNCHANGED granted
       ELSE /\ sched' = [k \in Key |-> IF k \in keys THEN commit(e[k], GrantOf(c, x)) ELSE sched[k]]
            /\ granted' = [k \in Key |-> IF k \in keys THEN granted[k] \cup {GrantOf(c, x)} ELSE granted[k]]
            /\ call' = [call EXCEPT ![c].pc = "wait", ![c].at = x, ![c].timed = x > clock]
  BY <1>5
<1>8. x \in Nat /\ now <= x /\ \A k \in keys : holds(e[k], x)
  <2> DEFINE es == {e[k] : k \in keys}
  <2>1. \A s \in es : holds(s, x)
    <3>1. x = acquireFixedPoint(es, now)
      BY <1>7
    <3>2. \E b \in Nat : \A s \in es : SoundSchedule(s, b)
      BY <1>6
    <3> HIDE DEF es
    <3> QED
      BY <1>1, <3>1, <3>2, FixedPointHolds
  <2> HIDE DEF now, keys
  <2>2. x \in Nat /\ now <= x
    <3>1. x = acquireFixedPoint({e[k] : k \in keys}, now)
      BY <1>7
    <3> QED
      BY <1>1, <1>6, <3>1, FixedPointHolds
  <2> QED
    BY <2>1, <2>2
<1>9. \/ /\ sched' = e
         /\ Fails(c)
         /\ UNCHANGED granted
      \/ /\ sched' = [k \in Key |-> IF k \in keys THEN commit(e[k], GrantOf(c, x)) ELSE sched[k]]
         /\ granted' = [k \in Key |-> IF k \in keys THEN granted[k] \cup {GrantOf(c, x)} ELSE granted[k]]
         /\ call' = [call EXCEPT ![c].pc = "wait", ![c].at = x, ![c].timed = x > clock]
  BY <1>7, Zenon
<1>10. CASE sched' = e /\ Fails(c) /\ UNCHANGED granted
  <2>1. \E r : CallOK(r, clock) /\ call' = [call EXCEPT ![c] = r]
    BY <1>1, <1>10, CallFails
  <2>2. \A k \in Key : KeyInv(k, e[k], granted[k], clock)
    BY <1>4, <1>5
  <2> QED
    BY <1>10, <2>1, <2>2
<1>11. CASE /\ sched' = [k \in Key |-> IF k \in keys THEN commit(e[k], GrantOf(c, x)) ELSE sched[k]]
            /\ granted' = [k \in Key |-> IF k \in keys THEN granted[k] \cup {GrantOf(c, x)} ELSE granted[k]]
            /\ call' = [call EXCEPT ![c].pc = "wait", ![c].at = x, ![c].timed = x > clock]
  <2>1. \E r : CallOK(r, clock) /\ call' = [call EXCEPT ![c] = r]
    <3>1. call[c].pc \notin {"ok", "error"} /\ (x > clock) \in BOOLEAN
      BY <1>1
    <3>2. call' = [call EXCEPT ![c].pc = "wait", ![c].at = x, ![c].timed = x > clock]
      BY <1>11
    <3> QED
      BY <1>8, <3>1, <3>2, CallWaits
  <2>2. GrantOf(c, x) \in Grant /\ GrantOf(c, x).at = x /\ x >= clock - MaxLag
    BY <1>1, <1>8 DEF GrantOf, Grant
  <2>3. ASSUME NEW k \in Key PROVE KeyInv(k, sched'[k], granted'[k], clock)
    <3>1. CASE k \in keys
      <4>1. KeyInv(k, e[k], granted[k], clock) /\ holds(e[k], GrantOf(c, x).at)
        BY <1>4, <1>5, <1>8, <2>2, <3>1
      <4>2. KeyInv(k, commit(e[k], GrantOf(c, x)), granted[k] \cup {GrantOf(c, x)}, clock)
        BY <1>1, <2>2, <4>1, CommitKeepsKey
      <4>3. /\ sched'[k] = commit(e[k], GrantOf(c, x))
            /\ granted'[k] = granted[k] \cup {GrantOf(c, x)}
        BY <1>11, <3>1
      <4> QED
        BY <4>2, <4>3
    <3>2. CASE k \notin keys
      <4>1. sched'[k] = sched[k] /\ granted'[k] = granted[k]
        BY <1>11, <3>2
      <4> QED
        BY <4>1, <1>3
    <3> QED
      BY <3>1, <3>2
  <2> QED
    BY <2>1, <2>3
<1> QED
  BY <1>9, <1>10, <1>11

LEMMA CallerInvKept == CallerInv /\ [CallerNext]_callerVars => CallerInv'
<1> SUFFICES ASSUME CallerInv, [CallerNext]_callerVars PROVE CallerInv'
  OBVIOUS
<1>1. CASE UNCHANGED callerVars
  BY <1>1 DEF callerVars, CallerInv
<1>2. CASE CallerTick
  <2>1. clock \in Nat /\ clock' = clock + 1 /\ clock' \in 0..MaxClock /\ MaxLag \in Nat
        /\ UNCHANGED <<sched, granted, call>>
    BY <1>2, CallerAssumption DEF CallerTick, CallerInv
  <2>2. \A k \in Key : KeyInv(k, sched'[k], granted'[k], clock')
    BY <2>1, TimeKeepsKey DEF CallerInv
  <2>3. ASSUME NEW c \in Call PROVE CallOK(call'[c], clock')
    <3>1. call[c].at \in Nat
      BY DEF CallerInv, CallOK, Goroutine
    <3>2. call[c].pc = "acquire" => clock - call[c].at < MaxLag
      BY <1>2 DEF CallerTick
    <3> QED
      BY <2>1, <3>1, <3>2 DEF CallerInv, CallOK
  <2> QED
    BY <2>1, <2>2, <2>3 DEF CallerInv
<1>3. ASSUME NEW c \in Call, CallStep(c) \/ ContextEnds(c) PROVE CallerInv'
  <2>1. ASSUME NEW r, CallOK(r, clock), call' = [call EXCEPT ![c] = r], UNCHANGED clock,
               \A k \in Key : KeyInv(k, sched'[k], granted'[k], clock)
        PROVE  CallerInv'
    BY <2>1, CallChanges DEF CallerInv
  <2>2. ASSUME NEW r, CallOK(r, clock), call' = [call EXCEPT ![c] = r], UNCHANGED <<clock, sched, granted>>
        PROVE  CallerInv'
    BY <2>1, <2>2 DEF CallerInv
  <2>3. CASE PassGate(c)
    <3>1. clock \in Nat /\ call[c].pc \notin {"ok", "error"}
      BY <2>3 DEF PassGate, CallerInv
    <3>2. \E r : CallOK(r, clock) /\ call' = [call EXCEPT ![c] = r]
      BY <2>3, <3>1, CallFails, CallGoesOn DEF PassGate
    <3> QED
      BY <2>2, <2>3, <3>2 DEF PassGate
  <2>4. CASE Acquire(c)
    BY <2>1, <2>4, AcquireReserves DEF Acquire
  <2>5. CASE Cancelled(c)
    <3>1. \E r : CallOK(r, clock) /\ call' = [call EXCEPT ![c] = r]
      BY <2>5, CallFails DEF Cancelled
    <3> QED
      BY <2>2, <2>5, <3>1 DEF Cancelled
  <2>6. CASE Attempt(c)
    BY <2>2, <2>6, AttemptTells DEF Attempt
  <2>7. CASE Retry(c)
    <3>1. clock \in Nat /\ call[c].pc \notin {"ok", "error"}
      BY <2>7 DEF Retry, CallerInv
    <3>2. \E r : CallOK(r, clock) /\ call' = [call EXCEPT ![c] = r]
      BY <2>7, <3>1, CallGoesOn DEF Retry
    <3> QED
      BY <2>2, <2>7, <3>2 DEF Retry
  <2>8. CASE ContextEnds(c)
    BY <2>2, <2>8, CallIsCancelled DEF ContextEnds
  <2> QED
    BY <1>3, <2>3, <2>4, <2>5, <2>6, <2>7, <2>8 DEF CallStep
<1> QED
  BY <1>1, <1>2, <1>3 DEF CallerNext

\* For every number of calls and attempts, whatever is lost or refused, and
\* whichever context ends, in a wait, in an attempt or before the call: a call
\* acts at Telegram at most once, and one that did tells (caller.Call).
THEOREM SentOnceAndToldTheorem == CallerSpec => []SentOnceAndTold
<1>1. CallerInv => SentOnceAndTold
  BY DEF CallerInv, CallOK, Told, SentOnceAndTold
<1> QED
  BY <1>1, CallerInvStarts, CallerInvKept, PTL DEF CallerSpec

LEMMA WindowShortened ==
  ASSUME NEW w \in Window
  PROVE  LET v == [w EXCEPT !.per = IF MaxLag > 0 THEN @ - MaxLag + 1 ELSE @]
         IN  v.per = Shorten(w) /\ v.count = w.count
BY DEF Window, Shorten

\* For all limits, calls and interleavings: over everything ever granted no window
\* holds more than its count, but for the lag between reading the clock and
\* taking the mutex (Limiter.acquire).
THEOREM GrantsKeepWindowsTheorem == CallerSpec => []GrantsKeepWindows
<1>1. CallerInv => CallerTypeOK
  <2> SUFFICES ASSUME CallerInv PROVE CallerTypeOK
    OBVIOUS
  <2>1. \A k \in Key : sched[k].grants \subseteq granted[k] /\ granted[k] \subseteq Grant
    BY DEF CallerInv, KeyInv
  <2>2. \A c \in Call : call[c] \in Goroutine
    BY DEF CallerInv, CallOK
  <2>3. call \in [Call -> Goroutine]
    BY <2>2 DEF CallerInv
  <2> QED
    BY <2>1, <2>3 DEF CallerTypeOK, CallerInv
<1>2. CallerInv => GrantsKeepWindows
  <2> SUFFICES ASSUME CallerInv, NEW k \in Key, NEW w \in sched[k].windows
               PROVE  Respects(granted[k], [w EXCEPT !.per = IF MaxLag > 0 THEN @ - MaxLag + 1 ELSE @])
    BY <1>1 DEF GrantsKeepWindows
  <2>1. w \in Window
    BY DEF CallerInv, KeyInv, Schedule
  <2>2. \A u \in Instants(granted[k]) : Cardinality(Within(granted[k], u, Shorten(w))) <= w.count
    BY DEF CallerInv, KeyInv
  <2> QED
    BY <2>1, <2>2, WindowShortened DEF Respects
<1> QED
  BY <1>2, CallerInvStarts, CallerInvKept, PTL DEF CallerSpec
----------------------------------------------------------------------------
(* The settings *)

Numeric == {"count", "batch", "duration", "factor"}

\* What a parser makes of a number is a number.
EnvironInv ==
  \A k \in DOMAIN environ :
    environ[k][1] = "value" /\ Of(k).kind \in Numeric => environ[k][2] \in Int

LEMMA SamplesAreTyped ==
  ASSUME NEW kind \in Numeric, NEW v \in Samples(kind), v[1] = "value"
  PROVE  v[2] \in Int
<1> DEFINE Ints == {Value(i) : i \in Int}
<1>1. v \in {Junk} \cup Ints
  <2>1. 30 * second \in Int /\ second \in Int
    BY DEF second
  <2>2. CASE kind = "count"
    BY <2>2 DEF Samples
  <2>3. CASE kind = "batch"
    BY <2>3 DEF Samples
  <2>4. CASE kind = "duration"
    BY <2>1, <2>4 DEF Samples
  <2>5. CASE kind = "factor"
    BY <2>5 DEF Samples
  <2> QED
    BY <2>2, <2>3, <2>4, <2>5 DEF Numeric
<1>2. Junk[1] = "junk"
  BY DEF Junk
<1>3. \A i : Value(i)[2] = i
  BY DEF Value
<1>4. "junk" # "value"
  OBVIOUS
<1> QED
  BY <1>1, <1>2, <1>3, <1>4, Zenon

LEMMA EnvironInvKept == EnvironInv /\ [SettingsNext]_environ => EnvironInv'
<1> SUFFICES ASSUME EnvironInv, [SettingsNext]_environ PROVE EnvironInv'
  OBVIOUS
<1>1. CASE UNCHANGED environ
  BY <1>1 DEF EnvironInv
<1>2. ASSUME NEW k \in Keys, Set(k) PROVE EnvironInv'
  <2>1. PICK v \in Samples(Of(k).kind) :
          environ' = [x \in DOMAIN environ \cup {k} |-> IF x = k THEN v ELSE environ[x]]
    BY <1>2 DEF Set
  <2>2. /\ DOMAIN environ' = {k} \cup DOMAIN environ
        /\ environ'[k] = v
        /\ \A x \in DOMAIN environ : x # k => environ'[x] = environ[x]
    BY <2>1
  <2> QED
    BY <2>2, SamplesAreTyped DEF EnvironInv
<1> QED
  BY <1>1, <1>2 DEF SettingsNext

\* The settings the constructors look at, each with its kind and its default.
IsField(section, name, kind, default) == Of(<<section, name>>) = [kind |-> kind, default |-> default]

LEMMA ProcessFields ==
  /\ IsField("process", "LivenessInterval", "duration", 120)
  /\ IsField("process", "DowntimeThreshold", "duration", 1200)
  /\ IsField("health", "CanaryInterval", "duration", 240)
BY DEF IsField, Of, EnvKeys, defaultProcess, defaultHealth, Field, second

LEMMA SchedulerFields ==
  /\ IsField("scheduler", "PollInterval", "duration", 4)
  /\ IsField("scheduler", "ClaimLimit", "count", 32)
  /\ IsField("scheduler", "RetryMaxAttempts", "count", 5)
  /\ IsField("scheduler", "RetryBaseDelay", "duration", 4)
  /\ IsField("scheduler", "RetryMaxDelay", "duration", 1200)
  /\ IsField("scheduler", "RetryFactor", "factor", 20)
  /\ IsField("scheduler", "TaskTimeout", "duration", 120)
BY DEF IsField, Of, EnvKeys, defaultScheduler, Field, second, DefaultFactor

LEMMA IngestFields ==
  /\ IsField("ingest", "PollInterval", "duration", 4)
  /\ IsField("ingest", "LongPollTimeout", "duration", 100)
  /\ IsField("ingest", "BatchLimit", "batch", 100)
  /\ IsField("ingest", "RetryMaxAttempts", "count", 5)
  /\ IsField("ingest", "RetryBaseDelay", "duration", 4)
  /\ IsField("ingest", "RetryMaxDelay", "duration", 32)
  /\ IsField("ingest", "RetryFactor", "factor", 20)
BY DEF IsField, Of, EnvKeys, defaultIngest, Field, second, DefaultFactor

LEMMA TransportFields ==
  /\ IsField("tg", "RetryMaxAttempts", "count", 3)
  /\ IsField("tg", "RetryBaseDelay", "duration", 2)
  /\ IsField("tg", "RetryMaxDelay", "duration", 120)
  /\ IsField("tg", "RetryFactor", "factor", 20)
  /\ IsField("tg", "AttemptTimeout", "duration", 120)
BY DEF IsField, Of, EnvKeys, defaultTransport, Field, second, DefaultFactor

\* A numeric setting of an environment that loads is one its reader accepts: the
\* value it was given, or a default that is.
LEMMA SettingIsLegal ==
  ASSUME EnvironInv, Refused = {}, NEW section, NEW name, NEW kind \in Numeric, NEW default \in Int,
         IsField(section, name, kind, default), Legal(kind, default)
  PROVE  Setting(section, name) \in Int /\ Legal(kind, Setting(section, name))
<1> DEFINE k == <<section, name>>
<1>1. Of(k).kind = kind /\ Of(k).default = default
  BY DEF IsField
<1>2. CASE k \in DOMAIN environ /\ environ[k][1] = "value"
  <2>1. Setting(section, name) = environ[k][2]
    BY <1>2 DEF Setting
  <2>2. environ[k][2] \in Int
    BY <1>1, <1>2 DEF EnvironInv
  <2>3. Legal(kind, environ[k][2])
    BY <1>1, <1>2 DEF Refused
  <2> QED
    BY <2>1, <2>2, <2>3
<1>3. CASE ~(k \in DOMAIN environ /\ environ[k][1] = "value")
  <2>1. Setting(section, name) = default
    BY <1>1, <1>3 DEF Setting
  <2> QED
    BY <2>1
<1> QED
  BY <1>2, <1>3

\* The readers' bounds.
LEMMA LegalMeans ==
  ASSUME NEW v \in Int
  PROVE  /\ Legal("count", v) <=> v > 0
         /\ Legal("duration", v) <=> v > 0
         /\ Legal("batch", v) <=> v > 0 /\ v <= 100
         /\ Legal("factor", v) <=> v > 10
BY DEF Legal, lookupPositive, ValidFactor

LEMMA PositiveSettings ==
  ASSUME EnvironInv, Refused = {}
  PROVE  /\ \A name \in {"LivenessInterval", "DowntimeThreshold"} :
              Setting("process", name) \in Nat \ {0}
         /\ Setting("health", "CanaryInterval") \in Nat \ {0}
         /\ \A name \in {"PollInterval", "ClaimLimit", "RetryMaxAttempts", "RetryBaseDelay", "RetryMaxDelay",
                         "TaskTimeout"} : Setting("scheduler", name) \in Nat \ {0}
         /\ \A name \in {"PollInterval", "LongPollTimeout", "RetryBaseDelay", "RetryMaxDelay", "BatchLimit",
                         "RetryMaxAttempts"} : Setting("ingest", name) \in Nat \ {0}
         /\ \A name \in {"RetryMaxAttempts", "RetryBaseDelay", "RetryMaxDelay", "AttemptTimeout"} :
              Setting("tg", name) \in Nat \ {0}
         /\ \A section \in {"scheduler", "ingest", "tg"} :
              Setting(section, "RetryFactor") \in Nat /\ Setting(section, "RetryFactor") > 10
<1>1. ASSUME NEW section, NEW name, NEW kind \in {"count", "duration", "batch"}, NEW default \in 1..100
      PROVE  IsField(section, name, kind, default) => Setting(section, name) \in Nat \ {0}
  <2>1. Legal(kind, default) /\ kind \in Numeric
    BY LegalMeans DEF Numeric
  <2> QED
    BY <2>1, SettingIsLegal, LegalMeans
<1>2. ASSUME NEW section, NEW name, NEW default \in Nat \ {0}
      PROVE  IsField(section, name, "duration", default) => Setting(section, name) \in Nat \ {0}
  <2>1. Legal("duration", default) /\ "duration" \in Numeric
    BY LegalMeans DEF Numeric
  <2>2. ASSUME IsField(section, name, "duration", default)
        PROVE  Setting(section, name) \in Int /\ Legal("duration", Setting(section, name))
    BY <2>1, <2>2, SettingIsLegal
  <2> QED
    BY <2>2, LegalMeans
<1>3. ASSUME NEW section
      PROVE  IsField(section, "RetryFactor", "factor", 20)
             => Setting(section, "RetryFactor") \in Nat /\ Setting(section, "RetryFactor") > 10
  <2>1. Legal("factor", 20) /\ "factor" \in Numeric
    BY LegalMeans DEF Numeric
  <2>2. ASSUME IsField(section, "RetryFactor", "factor", 20)
        PROVE  Setting(section, "RetryFactor") \in Int /\ Legal("factor", Setting(section, "RetryFactor"))
    BY <2>1, <2>2, SettingIsLegal
  <2> QED
    BY <2>2, LegalMeans
<1>4. /\ Setting("process", "LivenessInterval") \in Nat \ {0}
      /\ Setting("process", "DowntimeThreshold") \in Nat \ {0}
      /\ Setting("health", "CanaryInterval") \in Nat \ {0}
  BY <1>2, ProcessFields
<1>5. /\ Setting("scheduler", "PollInterval") \in Nat \ {0}
      /\ Setting("scheduler", "ClaimLimit") \in Nat \ {0}
      /\ Setting("scheduler", "RetryMaxAttempts") \in Nat \ {0}
      /\ Setting("scheduler", "RetryBaseDelay") \in Nat \ {0}
      /\ Setting("scheduler", "RetryMaxDelay") \in Nat \ {0}
      /\ Setting("scheduler", "TaskTimeout") \in Nat \ {0}
  BY <1>1, <1>2, SchedulerFields
<1>6. /\ Setting("ingest", "PollInterval") \in Nat \ {0}
      /\ Setting("ingest", "LongPollTimeout") \in Nat \ {0}
      /\ Setting("ingest", "BatchLimit") \in Nat \ {0}
      /\ Setting("ingest", "RetryMaxAttempts") \in Nat \ {0}
      /\ Setting("ingest", "RetryBaseDelay") \in Nat \ {0}
      /\ Setting("ingest", "RetryMaxDelay") \in Nat \ {0}
  BY <1>1, <1>2, IngestFields
<1>7. /\ Setting("tg", "RetryMaxAttempts") \in Nat \ {0}
      /\ Setting("tg", "RetryBaseDelay") \in Nat \ {0}
      /\ Setting("tg", "RetryMaxDelay") \in Nat \ {0}
      /\ Setting("tg", "AttemptTimeout") \in Nat \ {0}
  BY <1>1, <1>2, TransportFields
<1>8. \A section \in {"scheduler", "ingest", "tg"} :
        Setting(section, "RetryFactor") \in Nat /\ Setting(section, "RetryFactor") > 10
  BY <1>3, SchedulerFields, IngestFields, TransportFields
<1> QED
  BY <1>4, <1>5, <1>6, <1>7, <1>8

LEMMA RampsWait ==
  ASSUME EnvironInv, Refused = {}, NEW section \in {"scheduler", "ingest", "tg"}
  PROVE  RampWaits(section)
<1> DEFINE base    == Setting(section, "RetryBaseDelay")
           ceiling == Setting(section, "RetryMaxDelay")
           factor  == Setting(section, "RetryFactor")
           delay   == [n \in 0..3 |-> Exponential(n, base, ceiling, factor)]
<1>1. base \in Nat \ {0} /\ ceiling \in Nat \ {0} /\ factor \in Int
  BY PositiveSettings
<1> HIDE DEF base, ceiling, factor
<1>2. ASSUME NEW n \in Nat
      PROVE  /\ Exponential(n, base, ceiling, factor) \in 1..ceiling
             /\ Exponential(n, base, ceiling, factor) <= Exponential(n + 1, base, ceiling, factor)
  BY <1>1, RampWaitsAndGrows
<1>3. ASSUME NEW n \in 0..3
      PROVE  /\ delay[n] > 0 /\ delay[n] <= ceiling
             /\ n > 0 => delay[n] >= delay[n - 1]
  <2>1. delay[n] > 0 /\ delay[n] <= ceiling
    BY <1>1, <1>2
  <2>2. ASSUME n > 0 PROVE delay[n] >= delay[n - 1]
    <3>1. n - 1 \in 0..3 /\ n - 1 \in Nat /\ (n - 1) + 1 = n
      BY <2>2
    <3>2. Exponential(n - 1, base, ceiling, factor) <= Exponential(n, base, ceiling, factor)
      BY <1>2, <3>1
    <3>3. delay[n] \in Int /\ delay[n - 1] \in Int
      BY <1>1, <1>2, <3>1
    <3> QED
      BY <3>1, <3>2, <3>3
  <2> QED
    BY <2>1, <2>2
<1> QED
  BY <1>3 DEF RampWaits, base, ceiling, factor

\* Whatever keys an operator sets, to whatever numbers a reader lets through: what
\* Load accepts every constructor takes, every ramp waits, and a long poll fits
\* into its attempt (config.Load and the constructors).
THEOREM AcceptedSettingsServeTheorem == SettingsSpec => []AcceptedSettingsServe
<1>1. SettingsInit => EnvironInv
  BY DEF SettingsInit, EnvironInv
<1>2. EnvironInv => AcceptedSettingsServe
  <2> SUFFICES ASSUME EnvironInv, Load PROVE
         /\ NewLiveness /\ NewWorker /\ NewLoop /\ NewCanary
         /\ RampOrdered /\ Setting("env", "BotToken") = 1 => NewClient(1)
         /\ RampOrdered /\ Setting("env", "BotToken") = 1 /\ Setting("health", "CanaryCloudToken") \in {NoToken, 1}
            => NewLegs
         /\ \A section \in {"scheduler", "ingest", "tg"} : RampWaits(section)
         /\ PollSeconds >= 1 /\ PollSeconds * second < Setting("tg", "AttemptTimeout")
    BY DEF AcceptedSettingsServe
  <2>1. Refused = {} /\ checkIngestLongPollTimeout
    BY DEF Load, Loaded
  <2>2. NewLiveness /\ NewCanary
    BY <2>1, PositiveSettings DEF NewLiveness, NewCanary, Positive
  <2>3. NewWorker
    BY <2>1, PositiveSettings DEF NewWorker, Positive, ValidFactor
  <2>4. NewLoop
    BY <2>1, PositiveSettings DEF NewLoop, Positive, ValidFactor
  <2>5. RampOrdered => NewClient(1)
    BY <2>1, PositiveSettings DEF NewClient, Positive, ValidFactor
  <2>6. RampOrdered /\ Setting("env", "BotToken") = 1 /\ Setting("health", "CanaryCloudToken") \in {NoToken, 1}
        => NewLegs
    BY <2>5 DEF NewLegs
  <2>7. \A section \in {"scheduler", "ingest", "tg"} : RampWaits(section)
    BY <2>1, RampsWait
  <2>8. PollSeconds >= 1 /\ PollSeconds * second < Setting("tg", "AttemptTimeout")
    <3>1. Setting("ingest", "LongPollTimeout") \in Nat \ {0} /\ Setting("tg", "AttemptTimeout") \in Nat \ {0}
      BY <2>1, PositiveSettings
    <3>2. ASSUME NEW x \in Nat \ {0}, x % 4 = 0 PROVE x \div 4 >= 1 /\ (x \div 4) * 4 = x
      BY <3>2, Z3
    <3> QED
      BY <2>1, <3>1, <3>2 DEF PollSeconds, checkIngestLongPollTimeout, second
  <2> QED
    BY <2>2, <2>3, <2>4, <2>5, <2>6, <2>7, <2>8
<1> QED
  BY <1>1, <1>2, EnvironInvKept, PTL DEF SettingsSpec
=============================================================================
