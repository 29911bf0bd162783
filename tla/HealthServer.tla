----------------------------- MODULE HealthServer -----------------------------
(***************************************************************************)
(* The metrics and readiness listener (package health, server.go) with the *)
(* readiness of the process (cmd/bot/readiness.go): requests in flight,    *)
(* the serve goroutine, the two latches, and callers that shut the server  *)
(* down at the same time, each under its own context.                      *)
(***************************************************************************)
EXTENDS FiniteSets

CONSTANTS
  Request,   \* GETs of /readyz, or scrapes of the readiness gauge
  Stopper    \* callers of Shutdown

VARIABLES
  server,    \* Server and the two latches of readiness
  request,   \* per request: its handler
  stopper    \* per caller of Shutdown: its wait

healthVars == <<server, request, stopper>>

(***************************************************************************)
(* serveErr: the goroutine's buffered result.  byCtx: whose context the    *)
(* graceful stop runs under.  latched: shutdownErr, a set of errors.       *)
(***************************************************************************)
NewServer ==
  [state |-> "new", serveErr |-> "none", byCtx |-> {}, done |-> FALSE, latched |-> {},
   migrated |-> FALSE, draining |-> FALSE]

HealthInit ==
  /\ server = NewServer
  /\ request = [q \in Request |-> [pc |-> "none", bornDraining |-> FALSE]]
  /\ stopper = [s \in Stopper |-> [pc |-> "out", expired |-> FALSE, result |-> {}]]

Open == {q \in Request : request[q].pc \in {"migrated", "draining", "ping"}}

Handler(q, pc) == request' = [request EXCEPT ![q].pc = pc]
----------------------------------------------------------------------------
(* The process *)

\* Start binds the listener; one that cannot be bound leaves the server new.
Start ==
  /\ server.state = "new"
  /\ server' = [server EXCEPT !.state = "serving"]
  /\ UNCHANGED <<request, stopper>>

setMigrated ==
  /\ server.state # "new" /\ ~server.migrated
  /\ server' = [server EXCEPT !.migrated = TRUE]
  /\ UNCHANGED <<request, stopper>>

\* Drain's first action, in a process that came up whole.
setDraining ==
  /\ server.migrated /\ ~server.draining
  /\ server' = [server EXCEPT !.draining = TRUE]
  /\ UNCHANGED <<request, stopper>>

\* The listener breaks: Serve returns by itself, and its error stays buffered.
Breaks ==
  /\ server.state = "serving"
  /\ server' = [server EXCEPT !.state = "broken", !.serveErr = "broken"]
  /\ UNCHANGED <<request, stopper>>
----------------------------------------------------------------------------
(* Requests: Ready is two loads and a round trip *)

Arrive(q) ==
  /\ server.state = "serving" /\ request[q].pc = "none"
  /\ request' = [request EXCEPT ![q] = [pc |-> "migrated", bornDraining |-> server.draining]]
  /\ UNCHANGED <<server, stopper>>

LoadMigrated(q) ==
  /\ request[q].pc = "migrated"
  /\ Handler(q, IF server.migrated THEN "draining" ELSE "refused")
  /\ UNCHANGED <<server, stopper>>

\* Mutant of LoadDraining: the latch is taken for granted.
LoadDrainingSkipped(q) ==
  /\ request[q].pc = "draining"
  /\ Handler(q, "ping")
  /\ UNCHANGED <<server, stopper>>

LoadDraining(q) ==
  /\ request[q].pc = "draining"
  /\ Handler(q, IF server.draining THEN "refused" ELSE "ping")
  /\ UNCHANGED <<server, stopper>>

\* The ping, under its own timeout, or cut off by the request's context.
Ping(q) ==
  /\ request[q].pc = "ping"
  /\ \E pc \in {"ready", "refused"} : Handler(q, pc)
  /\ UNCHANGED <<server, stopper>>
----------------------------------------------------------------------------
(* Shutdown *)

\* The first call starts the graceful stop under its own context: no request is
\* accepted from here on, and Serve returns ErrServerClosed unless it has broken.
\* Every call then waits.
Shutdown(s) ==
  /\ stopper[s].pc = "out"
  /\ IF server.state = "new"
     THEN /\ stopper' = [stopper EXCEPT ![s].pc = "returned", ![s].result = {"not started"}]
          /\ UNCHANGED server
     ELSE /\ stopper' = [stopper EXCEPT ![s].pc = "waiting"]
          /\ server' = IF server.byCtx # {} THEN server
                       ELSE [server EXCEPT !.state = "stopping", !.byCtx = {s},
                             !.serveErr = IF @ = "broken" THEN @ ELSE "closed"]
  /\ UNCHANGED request

\* Mutant of joined: ErrServerClosed is told from nothing else.
joinedNot(errs) == errs

\* errors.Join of the stop's error and the serve goroutine's, unless that is
\* ErrServerClosed.
joined(errs) == errs \cup ({server.serveErr} \ {"closed"})

\* httpSrv.Shutdown returns: no request is open, or its context is over.
Stopped ==
  /\ server.state = "stopping" /\ ~server.done
  /\ \E errs \in {{}, {"expired"}} :
       /\ IF errs = {} THEN Open = {} ELSE \E s \in server.byCtx : stopper[s].expired
       /\ server' = [server EXCEPT !.done = TRUE, !.latched = joined(errs)]
  /\ UNCHANGED <<request, stopper>>

Expire(s) ==
  /\ stopper[s].pc = "waiting" /\ ~stopper[s].expired
  /\ stopper' = [stopper EXCEPT ![s].expired = TRUE]
  /\ UNCHANGED <<server, request>>

\* A call returns the latched result, or its own context's error.
Return(s) ==
  /\ stopper[s].pc = "waiting"
  /\ \/ server.done /\ stopper' = [stopper EXCEPT ![s].pc = "returned", ![s].result = server.latched]
     \/ stopper[s].expired /\ stopper' = [stopper EXCEPT ![s].pc = "returned", ![s].result = {"expired"}]
  /\ UNCHANGED <<server, request>>

HealthNext ==
  \/ Start \/ setMigrated \/ setDraining \/ Breaks \/ Stopped
  \/ \E q \in Request : Arrive(q) \/ LoadMigrated(q) \/ LoadDraining(q) \/ Ping(q)
  \/ \E s \in Stopper : Shutdown(s) \/ Expire(s) \/ Return(s)

HealthSpec == HealthInit /\ [][HealthNext]_healthVars
----------------------------------------------------------------------------
(* Properties *)

Clean(s) == stopper[s].pc = "returned" /\ stopper[s].result = {}

\* A shutdown reported clean has left no request in flight and hidden no broken
\* listener, whichever caller started the stop; and a caller told of a broken
\* one or of nothing is told what every other such caller is (Server.Shutdown).
ShutdownTold ==
  /\ \A s \in Stopper : Clean(s) => Open = {} /\ server.serveErr # "broken"
  /\ \A s, t \in Stopper :
       Clean(s) /\ stopper[t].pc = "returned" => stopper[t].result \in {{}, {"expired"}, {"not started"}}

\* No request is answered ready before the migrations, and none that arrives
\* once the drain has begun, however its two loads and the round trip fall
\* (readiness.Ready, setDraining).
ReadyAnswersAreTrue ==
  \A q \in Request : request[q].pc = "ready" => server.migrated /\ ~request[q].bornDraining

\* What the listener says of itself is true: to whoever stops it, and to whoever
\* asks whether the process is ready (health.Server, cmd/bot readiness).
ListenerIsHonest == ShutdownTold /\ ReadyAnswersAreTrue
=============================================================================
