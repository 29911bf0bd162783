------------------------------ MODULE Scheduler ------------------------------
(***************************************************************************)
(* The execution cycle of package scheduler: several worker processes over *)
(* one scheduled_task table.                                               *)
(*                                                                         *)
(* A worker runs one cycle at a time (Worker.Run).  A cycle drains the     *)
(* deferred settlements, discovers due ids, and gives each its own         *)
(* transaction: re-claim, handler, settlement, COMMIT.  A row lock lives   *)
(* as long as the transaction of the session holding it; every claim is    *)
(* FOR NO KEY UPDATE SKIP LOCKED, so nobody waits for one.                 *)
(*                                                                         *)
(* Faults are explicit actions: a backend that dies under its transaction, *)
(* a failed statement, a COMMIT that is refused, one that is applied while *)
(* its acknowledgement is lost, a terminate that fails, a process crash.   *)
(* They share the budget MaxFaults.                                        *)
(***************************************************************************)
EXTENDS TaskContract

CONSTANTS
  Worker,      \* worker processes, each with its own in-memory pending set
  ClaimLimit,  \* config.Scheduler.ClaimLimit
  MaxFaults,   \* bound of the model: faults in one behaviour
  HandlerResult,  \* what the declared handlers may do, a subset of Result \ {"none"}
  NoSession,   \* the lock of a row nobody holds
  NoAttempt    \* a worker that is working on nothing

(***************************************************************************)
(* The part of a claimed row that outlives the claim: what an attempt      *)
(* settles with, and what a pendingSettlement keeps.                       *)
(***************************************************************************)
Attempt == [id : Task, runAt : Nat, failures : Nat]

\* A lock holder: the worker's current transaction, or one it abandoned.
Session == [worker : Worker, orphan : BOOLEAN]

ASSUME SchedulerAssumption ==
  /\ HandlerResult \subseteq {"ok", "failed", "busy", "panicBusy"}
  /\ ClaimLimit \in Nat \ {0}
  /\ MaxFaults \in Nat
  /\ NoSession \notin Session
  /\ NoAttempt \notin Attempt

VARIABLES
  holder,      \* who holds the row lock of each task
  faults,      \* faults so far
  pc,          \* where each worker is in RunOnce
  pending,     \* Worker.pending: deferred settlements, at most one per id
  draining,    \* drainPending's items still to visit
  todo,        \* discovered ids not yet executed, as <<run_at, id>>
  work,        \* the attempt (or deferred settlement) being worked on
  result,      \* what the handler goroutine reported
  instant      \* the settlement or drain instant last read

workerVars == <<pc, pending, draining, todo, work, result, instant>>
vars == <<now, row, done, failed, holder, faults, workerVars>>

(***************************************************************************)
(* A handlerResult.  "ok": Done or Noop, which settle a row alike.         *)
(* "failed": a returned error, a recovered panic, or a savepoint release   *)
(* that failed, the savepoint having been rolled back.  "busy": the        *)
(* handler returned with rows still open, so its connection refuses every  *)
(* later statement, the rollback to the savepoint included.                *)
(* "panicBusy": it panicked and left the connection that way.              *)
(***************************************************************************)
Result == {"none", "ok", "failed", "busy", "panicBusy"}

PC == {"idle", "drain", "probe", "cycle", "claimed", "running",
       "terminate", "settle", "commit"}

TypeOK ==
  /\ now \in Nat
  /\ row \in [Task -> Row]
  /\ done \in [Task -> SUBSET Nat]
  /\ failed \in [Task -> SUBSET Nat]
  /\ holder \in [Task -> Session \cup {NoSession}]
  /\ faults \in Nat
  /\ pc \in [Worker -> PC]
  /\ pending \in [Worker -> SUBSET Attempt]
  /\ draining \in [Worker -> SUBSET Attempt]
  /\ todo \in [Worker -> SUBSET (Nat \X Task)]
  /\ work \in [Worker -> Attempt \cup {NoAttempt}]
  /\ result \in [Worker -> Result]
  /\ instant \in [Worker -> Nat]

SchedulerInit ==
  /\ Init
  /\ holder = [t \in Task |-> NoSession]
  /\ faults = 0
  /\ pc = [w \in Worker |-> "idle"]
  /\ pending = [w \in Worker |-> {}]
  /\ draining = [w \in Worker |-> {}]
  /\ todo = [w \in Worker |-> {}]
  /\ work = [w \in Worker |-> NoAttempt]
  /\ result = [w \in Worker |-> "none"]
  /\ instant = [w \in Worker |-> 0]

----------------------------------------------------------------------------
Live(w)   == [worker |-> w, orphan |-> FALSE]
Orphan(w) == [worker |-> w, orphan |-> TRUE]

Fault == faults < MaxFaults /\ faults' = faults + 1

\* w's transaction still has its backend, and therefore its row lock.
Alive(w) == holder[work[w].id] = Live(w)

\* A statement of w's transaction fails: a fault of its own, or the
\* consequence of the backend's earlier death or of a busy connection.
StatementFails(w) ==
  IF Alive(w) /\ result[w] # "busy" THEN Fault ELSE UNCHANGED faults

\* The end of w's transaction on the server, however it ends.
Unlock(w) ==
  holder' = IF Alive(w) THEN [holder EXCEPT ![work[w].id] = NoSession] ELSE holder

\* Mutant of Matches: the drain does not compare run_at.
MatchesAnyRunAt(p) == row[p.id].state = "pending"

\* The row still is the occurrence p was claimed at.
Matches(p) == row[p.id].state = "pending" /\ row[p.id].runAt = p.runAt

AsClaimed(p) == Pending(p.runAt, p.failures)

Before(p, q) == p[1] < q[1] \/ (p[1] = q[1] /\ p[2] < q[2])

\* Mutant of Enqueue: a list, in which an older entry of the id survives.
EnqueueAppends(w) == pending' = [pending EXCEPT ![w] = @ \cup {work[w]}]

\* enqueuePending: the map is keyed by id, so an older entry is replaced.
Enqueue(w) ==
  pending' = [pending EXCEPT ![w] = {p \in @ : p.id # work[w].id} \cup {work[w]}]

\* executeOne returns nil: the cycle goes on with the next id, if any.
NextId(w) ==
  /\ pc' = [pc EXCEPT ![w] = IF todo[w] = {} THEN "idle" ELSE "cycle"]
  /\ work' = [work EXCEPT ![w] = NoAttempt]
  /\ result' = [result EXCEPT ![w] = "none"]
  /\ instant' = [instant EXCEPT ![w] = 0]
  /\ UNCHANGED <<draining, todo>>

\* RunOnce returns an error: whatever is left of the cycle is dropped.
AbortCycle(w) ==
  /\ pc' = [pc EXCEPT ![w] = "idle"]
  /\ draining' = [draining EXCEPT ![w] = {}]
  /\ todo' = [todo EXCEPT ![w] = {}]
  /\ work' = [work EXCEPT ![w] = NoAttempt]
  /\ result' = [result EXCEPT ![w] = "none"]
  /\ instant' = [instant EXCEPT ![w] = 0]
----------------------------------------------------------------------------
(* drainPending *)

\* The drain instant is read once, and only when something is pending.
StartCycle(w) ==
  /\ pc[w] = "idle"
  /\ pc' = [pc EXCEPT ![w] = "drain"]
  /\ draining' = [draining EXCEPT ![w] = pending[w]]
  /\ instant' = [instant EXCEPT ![w] = IF pending[w] = {} THEN 0 ELSE now]
  /\ UNCHANGED <<now, tableVars, holder, faults, pending, todo, work, result>>

\* Mutant of DrainUpdate: the candidate is not locked.
DrainUpdateUnlocked(w, p) ==
  /\ pc[w] = "drain"
  /\ p \in draining[w]
  /\ Matches(p)
  /\ row' = [row EXCEPT ![p.id] = FailedRow(p.id, AsClaimed(p), instant[w])]
  /\ failed' = [failed EXCEPT ![p.id] = @ \cup {p.runAt}]
  /\ UNCHANGED <<now, done, holder>>

\* The guarded UPDATE of drainOne: the claimed run_at must still be there
\* and the row unlocked.  It writes the Failed row of the recorded attempt.
DrainUpdate(w, p) ==
  /\ pc[w] = "drain"
  /\ p \in draining[w]
  /\ Matches(p) /\ holder[p.id] = NoSession
  /\ row' = [row EXCEPT ![p.id] = FailedRow(p.id, AsClaimed(p), instant[w])]
  /\ failed' = [failed EXCEPT ![p.id] = @ \cup {p.runAt}]
  /\ UNCHANGED <<now, done, holder>>

DrainApplied(w) ==
  \E p \in draining[w] :
    /\ DrainUpdate(w, p)
    /\ pending' = [pending EXCEPT ![w] = {q \in @ : q.id # p.id}]
    /\ draining' = [draining EXCEPT ![w] = @ \ {p}]
    /\ UNCHANGED <<faults, pc, todo, work, result, instant>>

\* The UPDATE took effect and drainOne saw an error: the entry stays.
DrainAckLost(w) ==
  \E p \in draining[w] :
    /\ DrainUpdate(w, p)
    /\ Fault
    /\ AbortCycle(w)
    /\ UNCHANGED pending

\* UPDATE 0: locked, gone or moved on; the probe will tell.
DrainMissed(w) ==
  /\ pc[w] = "drain"
  /\ \E p \in draining[w] :
       /\ ~(Matches(p) /\ holder[p.id] = NoSession)
       /\ draining' = [draining EXCEPT ![w] = @ \ {p}]
       /\ work' = [work EXCEPT ![w] = p]
  /\ pc' = [pc EXCEPT ![w] = "probe"]
  /\ UNCHANGED <<now, tableVars, holder, faults, pending, todo, result, instant>>

\* Mutant of Probe: every missed entry is taken to be locked.
ProbeKeeps(w) ==
  /\ pc[w] = "probe"
  /\ pc' = [pc EXCEPT ![w] = "drain"]
  /\ work' = [work EXCEPT ![w] = NoAttempt]
  /\ UNCHANGED <<now, tableVars, holder, faults, pending, draining, todo, result, instant>>

\* The unlocked probe: a row still there is locked, so the entry is kept.
Probe(w) ==
  /\ pc[w] = "probe"
  /\ pending' = IF Matches(work[w]) THEN pending
                ELSE [pending EXCEPT ![w] = {q \in @ : q.id # work[w].id}]
  /\ pc' = [pc EXCEPT ![w] = "drain"]
  /\ work' = [work EXCEPT ![w] = NoAttempt]
  /\ UNCHANGED <<now, tableVars, holder, faults, draining, todo, result, instant>>

\* A statement of the drain, or the discovery, fails: the cycle ends.
DrainFails(w) ==
  /\ pc[w] \in {"drain", "probe"}
  /\ Fault
  /\ AbortCycle(w)
  /\ UNCHANGED <<now, tableVars, holder, pending>>
----------------------------------------------------------------------------
(* discoverDue and reclaim *)

Discoverable == {t \in Task : Due(t) /\ holder[t] = NoSession}

\* The first ClaimLimit due, unlocked ids in (run_at, id) order.  The
\* statement's own locks do not outlive it.
Batch ==
  LET key(t) == <<row[t].runAt, t>>
  IN  {key(t) : t \in {u \in Discoverable :
         Cardinality({v \in Discoverable : Before(key(v), key(u))}) < ClaimLimit}}

Discover(w) ==
  /\ pc[w] = "drain" /\ draining[w] = {}
  /\ todo' = [todo EXCEPT ![w] = Batch]
  /\ pc' = [pc EXCEPT ![w] = IF Batch = {} THEN "idle" ELSE "cycle"]
  /\ instant' = [instant EXCEPT ![w] = 0]
  /\ UNCHANGED <<now, tableVars, holder, faults, pending, draining, work, result>>

\* The next id of the cycle, in discovery order.
IsNext(w, e) == e \in todo[w] /\ \A f \in todo[w] : f = e \/ Before(e, f)

\* Mutant of Claim: the re-claim does not check run_at again.
ClaimNotDue(w) ==
  /\ pc[w] = "cycle"
  /\ \E e \in todo[w] :
       LET t == e[2] IN
       /\ IsNext(w, e)
       /\ row[t].state = "pending" /\ holder[t] = NoSession
       /\ holder' = [holder EXCEPT ![t] = Live(w)]
       /\ work' = [work EXCEPT ![w] =
                     [id |-> t, runAt |-> row[t].runAt, failures |-> row[t].failures]]
       /\ todo' = [todo EXCEPT ![w] = @ \ {e}]
  /\ pc' = [pc EXCEPT ![w] = "claimed"]
  /\ UNCHANGED <<now, tableVars, faults, pending, draining, result, instant>>

\* BEGIN and the re-claim, which checks state, run_at and lock again.
Claim(w) ==
  /\ pc[w] = "cycle"
  /\ \E e \in todo[w] :
       LET t == e[2] IN
       /\ IsNext(w, e)
       /\ Due(t) /\ holder[t] = NoSession
       /\ holder' = [holder EXCEPT ![t] = Live(w)]
       /\ work' = [work EXCEPT ![w] =
                     [id |-> t, runAt |-> row[t].runAt, failures |-> row[t].failures]]
       /\ todo' = [todo EXCEPT ![w] = @ \ {e}]
  /\ pc' = [pc EXCEPT ![w] = "claimed"]
  /\ UNCHANGED <<now, tableVars, faults, pending, draining, result, instant>>

\* The re-claim returned no row: skipped, silently.
Skip(w) ==
  /\ pc[w] = "cycle"
  /\ \E e \in todo[w] :
       /\ IsNext(w, e)
       /\ ~(Due(e[2]) /\ holder[e[2]] = NoSession)
       /\ todo' = [todo EXCEPT ![w] = @ \ {e}]
       /\ pc' = [pc EXCEPT ![w] = IF todo[w] = {e} THEN "idle" ELSE "cycle"]
  /\ UNCHANGED <<now, tableVars, holder, faults, pending, draining, work, result, instant>>

\* Acquire, BEGIN, the timeouts, the re-claim, or the COMMIT of a skip fails.
BeginFails(w) ==
  /\ pc[w] = "cycle"
  /\ Fault
  /\ AbortCycle(w)
  /\ UNCHANGED <<now, tableVars, holder, pending>>

\* A statement between the claim and the handler, or the settlement or
\* COMMIT of an undeclared row, fails: rolled back, the cycle ends.
ClaimedFails(w) ==
  /\ pc[w] = "claimed"
  /\ StatementFails(w)
  /\ Unlock(w)
  /\ AbortCycle(w)
  /\ UNCHANGED <<now, tableVars, pending>>
----------------------------------------------------------------------------
(* executeOne, from the claimed row on *)

\* settleUnregistered and its COMMIT.
PostponeRow(w) ==
  /\ pc[w] = "claimed" /\ work[w].id \notin Registered
  /\ Alive(w)
  /\ row' = [row EXCEPT ![work[w].id] = PostponedRow(@, now)]
  /\ Unlock(w)
  /\ UNCHANGED <<now, done, failed, pending>>

SettleUnregistered(w) == PostponeRow(w) /\ NextId(w) /\ UNCHANGED faults

SettleUnregisteredAckLost(w) == PostponeRow(w) /\ Fault /\ AbortCycle(w)

StartHandler(w) ==
  /\ pc[w] = "claimed" /\ work[w].id \in Registered
  /\ Alive(w)
  /\ pc' = [pc EXCEPT ![w] = "running"]
  /\ UNCHANGED <<now, tableVars, holder, faults, pending, draining, todo, work, result, instant>>

\* The handler's result wins the select.  With the backend gone the
\* savepoint cannot be released, so "ok" is out of reach.
HandlerReturns(w) ==
  /\ pc[w] = "running"
  /\ \E r \in HandlerResult :
       /\ r = "ok" => Alive(w)
       /\ result' = [result EXCEPT ![w] = r]
  /\ pc' = [pc EXCEPT ![w] = "settle"]
  /\ UNCHANGED <<now, tableVars, holder, faults, pending, draining, todo, work, instant>>

\* Mutant of Breach: the attempt is not deferred.
BreachForgets(w) ==
  /\ pc[w] = "running"
  /\ holder' = IF Alive(w) THEN [holder EXCEPT ![work[w].id] = Orphan(w)] ELSE holder
  /\ pc' = [pc EXCEPT ![w] = "terminate"]
  /\ UNCHANGED <<now, tableVars, faults, pending, draining, todo, work, result, instant>>

\* The deadline wins the select: the connection is hijacked, its
\* transaction left open with the handler still in it, the attempt deferred.
Breach(w) ==
  /\ pc[w] = "running"
  /\ Enqueue(w)
  /\ holder' = IF Alive(w) THEN [holder EXCEPT ![work[w].id] = Orphan(w)] ELSE holder
  /\ pc' = [pc EXCEPT ![w] = "terminate"]
  /\ UNCHANGED <<now, tableVars, faults, draining, todo, work, result, instant>>

\* pg_terminate_backend on the abandoned session, from another connection.
\* It is sent and not awaited; here it takes effect before the next cycle.
Terminate(w) ==
  /\ pc[w] = "terminate"
  /\ holder' = IF holder[work[w].id] = Orphan(w)
               THEN [holder EXCEPT ![work[w].id] = NoSession] ELSE holder
  /\ NextId(w)
  /\ UNCHANGED <<now, tableVars, faults, pending>>

\* The call fails, or the backend is still there at the next cycle: the
\* row stays locked until OrphanEnds.
TerminateFails(w) ==
  /\ pc[w] = "terminate"
  /\ Fault
  /\ NextId(w)
  /\ UNCHANGED <<now, tableVars, holder, pending>>

\* The settlement statement, its instant read just before it.
Settle(w) ==
  /\ pc[w] = "settle" /\ result[w] \in {"ok", "failed"}
  /\ Alive(w)
  /\ instant' = [instant EXCEPT ![w] = now]
  /\ pc' = [pc EXCEPT ![w] = "commit"]
  /\ UNCHANGED <<now, tableVars, holder, faults, pending, draining, todo, work, result>>

\* The settlement statement fails: rolled back, and the cycle ends.
SettleFails(w) ==
  /\ pc[w] = "settle" /\ result[w] # "panicBusy"
  /\ StatementFails(w)
  /\ Unlock(w)
  /\ AbortCycle(w)
  /\ UNCHANGED <<now, tableVars, pending>>

\* No statement can be relied on any more: releasing the busy connection
\* frees the row, and the attempt is deferred.
SettlePanicBusy(w) ==
  /\ pc[w] = "settle" /\ result[w] = "panicBusy"
  /\ Enqueue(w)
  /\ Unlock(w)
  /\ NextId(w)
  /\ UNCHANGED <<now, tableVars, faults>>

\* COMMIT takes effect: the settlement and the handler's writes at once.
Commit(w) ==
  /\ pc[w] = "commit"
  /\ Alive(w)
  /\ LET c == work[w] IN
     \/ /\ result[w] = "ok"
        /\ row' = [row EXCEPT ![c.id] = DoneRow(c.id, AsClaimed(c), instant[w])]
        /\ done' = [done EXCEPT ![c.id] = @ \cup {c.runAt}]
        /\ UNCHANGED failed
     \/ /\ result[w] = "failed"
        /\ row' = [row EXCEPT ![c.id] = FailedRow(c.id, AsClaimed(c), instant[w])]
        /\ failed' = [failed EXCEPT ![c.id] = @ \cup {c.runAt}]
        /\ UNCHANGED done
  /\ Unlock(w)
  /\ NextId(w)
  /\ UNCHANGED now

CommitAcked(w) == Commit(w) /\ UNCHANGED <<faults, pending>>

\* COMMIT took effect and reported an error all the same.
CommitAckLost(w) == Commit(w) /\ Fault /\ Enqueue(w)

CommitFails(w) ==
  /\ pc[w] = "commit"
  /\ StatementFails(w)
  /\ Enqueue(w)
  /\ Unlock(w)
  /\ NextId(w)
  /\ UNCHANGED <<now, tableVars>>
----------------------------------------------------------------------------
(* The server and the process *)

\* idle_in_transaction_session_timeout, or the watchdog closing the
\* hijacked connection once the orphaned handler has returned.
OrphanEnds(t) ==
  /\ \E w \in Worker : holder[t] = Orphan(w)
  /\ holder' = [holder EXCEPT ![t] = NoSession]
  /\ UNCHANGED <<now, tableVars, faults, workerVars>>

\* The backend of a transaction in progress dies: a timeout, an
\* administrator, the network.  The worker has not noticed yet.
BackendDies(w) ==
  /\ pc[w] \in {"claimed", "running", "settle", "commit"}
  /\ Alive(w)
  /\ Fault
  /\ Unlock(w)
  /\ UNCHANGED <<now, tableVars, workerVars>>

\* The process dies and restarts; its pending set is lost, and the server
\* notices an open transaction's client is gone only later.
Crash(w) ==
  /\ Fault
  /\ AbortCycle(w)
  /\ pending' = [pending EXCEPT ![w] = {}]
  /\ holder' = [t \in Task |-> IF holder[t] = Live(w) THEN Orphan(w) ELSE holder[t]]
  /\ UNCHANGED <<now, tableVars>>
----------------------------------------------------------------------------
Cycle(w) ==
  \/ StartCycle(w) \/ DrainApplied(w) \/ DrainMissed(w) \/ Probe(w) \/ Discover(w)
  \/ Claim(w) \/ Skip(w) \/ SettleUnregistered(w) \/ StartHandler(w)
  \/ Terminate(w) \/ Settle(w) \/ SettlePanicBusy(w) \/ CommitAcked(w)

\* The only step once the backend is gone: the next statement fails.
Noticed(w) == ClaimedFails(w) \/ SettleFails(w) \/ CommitFails(w)

Faulty(w) ==
  \/ DrainAckLost(w) \/ DrainFails(w) \/ BeginFails(w) \/ TerminateFails(w)
  \/ SettleUnregisteredAckLost(w) \/ CommitAckLost(w) \/ BackendDies(w) \/ Crash(w)

Environment ==
  /\ Tick \/ \E t \in Task : Schedule(t)
  /\ UNCHANGED <<holder, faults, workerVars>>

SchedulerNext ==
  \/ Environment
  \/ \E t \in Task : OrphanEnds(t)
  \/ \E w \in Worker :
       Cycle(w) \/ HandlerReturns(w) \/ Breach(w) \/ Noticed(w) \/ Faulty(w)

SchedulerSpec == SchedulerInit /\ [][SchedulerNext]_vars
----------------------------------------------------------------------------
(* Properties *)

\* The row still is what w's claim read.
Stable(w) ==
  pc[w] \in {"claimed", "running", "settle", "commit"} /\ Alive(w)
    => row[work[w].id] = AsClaimed(work[w])

\* While an attempt's transaction is alive its row still is what the claim
\* read: the settlement may compute from the claimed run_at and failure
\* count without reading the row again (executeOne, settleAndAfter).
ClaimedRowIsStable == \A w \in Worker : Stable(w)

\* The row is the occurrence p was claimed at, or it has moved on for good.
CurrentOrPast(p) ==
  /\ row[p.id].state # "unborn"
  /\ row[p.id].state = "pending" =>
       row[p.id] = AsClaimed(p) \/ p.runAt < row[p.id].runAt

\* What makes run_at = $2 a sufficient guard for a late settlement
\* (drainOneCandidateSQL): a deferred attempt's row either still is exactly
\* the occurrence and the failure count the attempt was claimed with, or it
\* has moved to a later run_at, or it is no longer pending.
DeferredIsCurrentOrPast ==
  \A w \in Worker : \A p \in pending[w] : CurrentOrPast(p)

\* "Draining first is what stops the same worker re-claiming a task whose
\* attempt it has not yet counted" (the scheduler's design, step 0).
NoReclaimOfUncounted ==
  \A w \in Worker : pc[w] \in {"claimed", "running", "settle", "commit"} =>
    ~ \E p \in pending[w] : p.id = work[w].id /\ p.runAt = work[w].runAt

\* Any number of workers, their crashes, breaches, deferred settlements and
\* lost acknowledgements together do to the table only what TaskContract
\* allows: one atomic verdict for each occurrence.
ImplementsContract == Spec
----------------------------------------------------------------------------
(***************************************************************************)
(* The inductive invariant behind ClaimedRowIsStable,                      *)
(* DeferredIsCurrentOrPast and ImplementsContract.                         *)
(***************************************************************************)

\* A one-shot still pending has attempts left.
BelowCap ==
  \A t \in OneShot : row[t].state = "pending" => row[t].failures < RetryMaxAttempts

\* What a worker carries through an attempt: a registered type from the
\* handler on, an occurrence already due, a settlement instant after it.
AttemptInv(w) ==
  /\ pc[w] \in {"claimed", "running", "terminate", "settle", "commit"} =>
       /\ work[w] \in Attempt
       /\ work[w].runAt <= now
       /\ CurrentOrPast(work[w])
  /\ pc[w] \in {"running", "terminate", "settle", "commit"} => work[w].id \in Registered
  /\ pc[w] = "commit" =>
       /\ result[w] \in {"ok", "failed"}
       /\ work[w].runAt <= instant[w]
  /\ instant[w] <= now

\* What a deferred settlement keeps.
Deferrable(p) == p.id \in Registered /\ p.runAt <= now /\ CurrentOrPast(p)

\* The pending set is a map keyed by id; a drain visits entries of it, and
\* settles them at an instant not before they were due.
DeferredInv(w) ==
  /\ \A p \in pending[w] : Deferrable(p)
  /\ \A p, q \in pending[w] : p.id = q.id => p = q
  /\ draining[w] \subseteq pending[w]
  /\ \A p \in draining[w] : p.runAt <= instant[w]
  /\ draining[w] # {} => pc[w] \in {"drain", "probe"}
  /\ pc[w] = "probe" =>
       work[w] \in Attempt /\ \A p \in draining[w] : p.id # work[w].id

WorkerInv(w) == Stable(w) /\ AttemptInv(w) /\ DeferredInv(w)

IInv ==
  /\ TypeOK
  /\ BelowCap
  /\ \A w \in Worker : WorkerInv(w)
----------------------------------------------------------------------------
(***************************************************************************)
(* Fairness: a worker's loop keeps running its steps (Run does not stop on *)
(* a RunOnce error), the deadline ends a handler that does not return, and *)
(* the server or the watchdog ends an abandoned session.  Nothing is       *)
(* assumed of a handler's own return, of callers of Schedule, or of faults.*)
(***************************************************************************)
Fairness ==
  /\ \A w \in Worker : WF_vars(Cycle(w) \/ Breach(w) \/ Noticed(w))
  /\ \A t \in Task : WF_vars(OrphanEnds(t))

FairSpec == SchedulerSpec /\ Fairness

\* A due occurrence does not stay due for ever: it is settled, or postponed
\* when its type is unknown, even if its handler never returns.
DueIsSettled ==
  \A t \in Task : \A r \in 0..MaxTime :
    (Due(t) /\ row[t].runAt = r) ~> ~(row[t].state = "pending" /\ row[t].runAt = r)

\* A deferred settlement is applied, dropped, or lost with its process: the
\* pending set does not keep an attempt for ever (drainPending).
DeferredIsDrained ==
  \A w \in Worker : \A t \in Task :
    (\E p \in pending[w] : p.id = t) ~> ~(\E p \in pending[w] : p.id = t)
=============================================================================
