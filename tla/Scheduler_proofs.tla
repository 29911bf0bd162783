-------------------------- MODULE Scheduler_proofs ---------------------------
(***************************************************************************)
(* For every set of tasks and of workers, every cadence, retry policy and  *)
(* fault budget: the inductive invariant of Scheduler, and that Scheduler  *)
(* implements TaskContract.                                                *)
(***************************************************************************)
EXTENDS Scheduler, TaskContract_proofs

LEMMA Sessions ==
  ASSUME NEW w \in Worker, NEW v \in Worker
  PROVE  /\ Live(w) \in Session /\ Orphan(w) \in Session
         /\ Live(w) # NoSession /\ Orphan(w) # NoSession
         /\ Live(w) # Orphan(v)
         /\ Live(w) = Live(v) => w = v
<1>1. Live(w) \in Session /\ Orphan(w) \in Session
  BY DEF Live, Orphan, Session
<1>2. Live(w).orphan = FALSE /\ Orphan(v).orphan = TRUE
  BY DEF Live, Orphan
<1>3. Live(w).worker = w /\ Live(v).worker = v
  BY DEF Live
<1> QED
  BY <1>1, <1>2, <1>3, SchedulerAssumption

(***************************************************************************)
(* What a step does to the other workers and to a row.                     *)
(***************************************************************************)
Same(v) ==
  /\ pc'[v] = pc[v] /\ pending'[v] = pending[v] /\ draining'[v] = draining[v]
  /\ work'[v] = work[v] /\ result'[v] = result[v] /\ instant'[v] = instant[v]

OnlyWorker(w) == \A v \in Worker : v # w => Same(v)

LockStep(w) ==
  \A t \in Task : holder'[t] = holder[t] \/ holder'[t] \in {NoSession, Live(w), Orphan(w)}

Advances(t) ==
  \/ row'[t] = row[t]
  \/ row[t].state = "unborn"
  \/ /\ row[t].state = "pending"
     /\ \/ row'[t].state \in {"dead", "gone"}
        \/ row'[t].state = "pending" /\ row'[t].runAt > row[t].runAt

\* An occurrence that has moved on never comes back.
LEMMA CurrentOrPastKept ==
  ASSUME TypeOK, TypeOK', NEW p \in Attempt, CurrentOrPast(p), Advances(p.id)
  PROVE  CurrentOrPast(p)'
<1>1. /\ p.id \in Task /\ p.runAt \in Nat
      /\ row[p.id] \in Row /\ row'[p.id] \in Row
  BY DEF TypeOK, Attempt
<1>2. row[p.id].runAt \in Nat /\ row'[p.id].runAt \in Nat
  BY <1>1 DEF Row
<1>3. row[p.id].state # "unborn"
  BY DEF CurrentOrPast
<1>4. CASE row'[p.id] = row[p.id]
  BY <1>4 DEF CurrentOrPast, AsClaimed
<1>5. CASE row[p.id].state = "pending" /\ row'[p.id].state \in {"dead", "gone"}
  BY <1>5 DEF CurrentOrPast
<1>6. CASE /\ row[p.id].state = "pending"
           /\ row'[p.id].state = "pending" /\ row'[p.id].runAt > row[p.id].runAt
  <2>1. p.runAt <= row[p.id].runAt
    BY <1>1, <1>2, <1>6 DEF CurrentOrPast, AsClaimed, Pending
  <2>2. p.runAt < row'[p.id].runAt
    BY <1>1, <1>2, <1>6, <2>1
  <2> QED
    BY <1>6, <2>2 DEF CurrentOrPast
<1> QED
  BY <1>3, <1>4, <1>5, <1>6 DEF Advances

\* A worker that does not move keeps its invariant when the clock and the
\* rows advance, unless the row it has locked changes.
LEMMA WorkerKept ==
  ASSUME TypeOK, TypeOK', NEW v \in Worker, WorkerInv(v), Same(v),
         now' >= now, \A t \in Task : Advances(t),
         pc[v] \in {"claimed", "running", "settle", "commit"} =>
           (holder'[work[v].id] = Live(v) =>
              holder[work[v].id] = Live(v) /\ row'[work[v].id] = row[work[v].id])
  PROVE  WorkerInv(v)'
<1>1. now \in Nat /\ now' \in Nat /\ instant[v] \in Nat /\ pending[v] \subseteq Attempt
  BY DEF TypeOK
<1>2. \A p \in Attempt : p.id \in Task /\ p.runAt \in Nat
  BY DEF Attempt
<1>3. \A p \in Attempt : CurrentOrPast(p) => CurrentOrPast(p)'
  BY <1>2, CurrentOrPastKept
<1>4. Stable(v)'
  <2>1. Live(v)' = Live(v) /\ (\A p : AsClaimed(p)' = AsClaimed(p))
    BY DEF Live, AsClaimed, Pending
  <2> QED
    BY <2>1 DEF Stable, Alive, Same, WorkerInv
<1>5. AttemptInv(v)'
  <2>1. ASSUME pc[v] \in {"claimed", "running", "terminate", "settle", "commit"},
               NEW p \in Attempt, p = work[v]
        PROVE  p.runAt <= now' /\ CurrentOrPast(p)'
    <3>1. p.runAt <= now /\ CurrentOrPast(p)
      BY <2>1 DEF WorkerInv, AttemptInv
    <3> QED
      BY <1>1, <1>2, <1>3, <3>1
  <2>2. instant[v] <= now'
    BY <1>1 DEF WorkerInv, AttemptInv
  <2>3. pc[v] \in {"claimed", "running", "terminate", "settle", "commit"} =>
          work[v] \in Attempt
    BY DEF WorkerInv, AttemptInv
  <2>4. pc[v] \in {"claimed", "running", "terminate", "settle", "commit"} =>
          work'[v].runAt <= now' /\ CurrentOrPast(work[v])'
    BY <2>1, <2>3 DEF Same, CurrentOrPast, AsClaimed
  <2> QED
    BY <2>2, <2>3, <2>4 DEF WorkerInv, AttemptInv, Same
<1>6. DeferredInv(v)'
  <2>1. \A p \in pending[v] : Deferrable(p)'
    BY <1>1, <1>2, <1>3 DEF WorkerInv, DeferredInv, Deferrable
  <2> QED
    BY <2>1 DEF WorkerInv, DeferredInv, Same
<1> QED
  BY <1>4, <1>5, <1>6 DEF WorkerInv

\* A step of worker w that leaves the clock and the rows alone.
LEMMA QuietStep ==
  ASSUME IInv, TypeOK', NEW w \in Worker, row' = row, now' = now,
         OnlyWorker(w), LockStep(w), WorkerInv(w)'
  PROVE  IInv'
<1>1. BelowCap'
  BY DEF IInv, BelowCap
<1>2. \A t \in Task : Advances(t)
  BY DEF Advances
<1>3. now' >= now
  BY DEF IInv, TypeOK
<1>4. ASSUME NEW v \in Worker, v # w PROVE WorkerInv(v)'
  <2>1. WorkerInv(v) /\ TypeOK /\ Same(v)
    BY <1>4 DEF IInv, OnlyWorker
  <2>2. pc[v] \in {"claimed", "running", "settle", "commit"} => work[v].id \in Task
    BY <2>1 DEF WorkerInv, AttemptInv, Attempt
  <2>3. \A t \in Task : holder'[t] = Live(v) => holder[t] = Live(v)
    BY <1>4, Sessions DEF LockStep
  <2>4. pc[v] \in {"claimed", "running", "settle", "commit"} =>
           (holder'[work[v].id] = Live(v) =>
              holder[work[v].id] = Live(v) /\ row'[work[v].id] = row[work[v].id])
    BY <2>2, <2>3
  <2> QED
    BY <1>2, <1>3, <2>1, <2>4, WorkerKept
<1> QED
  BY <1>1, <1>4 DEF IInv
----------------------------------------------------------------------------
(* The shapes the actions are built from *)

LEMMA AbortCycleFacts ==
  ASSUME TypeOK, NEW w \in Worker, AbortCycle(w)
  PROVE  /\ pc' \in [Worker -> PC] /\ draining' \in [Worker -> SUBSET Attempt]
         /\ todo' \in [Worker -> SUBSET (Nat \X Task)]
         /\ work' \in [Worker -> Attempt \cup {NoAttempt}]
         /\ result' \in [Worker -> Result] /\ instant' \in [Worker -> Nat]
         /\ pc'[w] = "idle" /\ draining'[w] = {} /\ instant'[w] = 0
         /\ \A v \in Worker : v # w =>
              /\ pc'[v] = pc[v] /\ draining'[v] = draining[v]
              /\ work'[v] = work[v] /\ result'[v] = result[v] /\ instant'[v] = instant[v]
BY DEF TypeOK, AbortCycle, PC, Result

LEMMA NextIdFacts ==
  ASSUME TypeOK, NEW w \in Worker, NextId(w)
  PROVE  /\ pc' \in [Worker -> PC] /\ draining' = draining
         /\ todo' = todo
         /\ work' \in [Worker -> Attempt \cup {NoAttempt}]
         /\ result' \in [Worker -> Result] /\ instant' \in [Worker -> Nat]
         /\ pc'[w] \in {"idle", "cycle"} /\ instant'[w] = 0
         /\ \A v \in Worker : v # w =>
              /\ pc'[v] = pc[v]
              /\ work'[v] = work[v] /\ result'[v] = result[v] /\ instant'[v] = instant[v]
BY DEF TypeOK, NextId, PC, Result

LEMMA UnlockFacts ==
  ASSUME TypeOK, NEW w \in Worker, Unlock(w)
  PROVE  holder' \in [Task -> Session \cup {NoSession}] /\ LockStep(w)
BY DEF TypeOK, Unlock, LockStep

LEMMA FaultFacts ==
  ASSUME TypeOK, NEW w \in Worker, Fault \/ UNCHANGED faults \/ StatementFails(w)
  PROVE  faults' \in Nat
BY DEF TypeOK, Fault, StatementFails

\* A worker between two attempts, or between two cycles.
LEMMA Resting ==
  ASSUME TypeOK', NEW w \in Worker,
         pc'[w] \in {"idle", "cycle"}, draining'[w] = {}, instant'[w] = 0,
         \A p \in pending'[w] : Deferrable(p)',
         \A p, q \in pending'[w] : p.id = q.id => p = q
  PROVE  WorkerInv(w)'
<1>1. now' \in Nat
  BY DEF TypeOK
<1>2. Stable(w)'
  BY DEF Stable
<1>3. AttemptInv(w)'
  BY <1>1 DEF AttemptInv
<1>4. DeferredInv(w)'
  BY DEF DeferredInv
<1> QED
  BY <1>2, <1>3, <1>4 DEF WorkerInv

LEMMA DeferrableKept ==
  ASSUME row' = row, now' = now, NEW p, Deferrable(p)
  PROVE  Deferrable(p)'
BY DEF Deferrable, CurrentOrPast, AsClaimed

\* enqueuePending keeps the pending set one entry per id.
LEMMA EnqueueFacts ==
  ASSUME TypeOK, NEW w \in Worker, DeferredInv(w), Enqueue(w), work[w] \in Attempt
  PROVE  /\ pending' \in [Worker -> SUBSET Attempt]
         /\ pending'[w] \subseteq pending[w] \cup {work[w]}
         /\ \A p, q \in pending'[w] : p.id = q.id => p = q
         /\ \A v \in Worker : v # w => pending'[v] = pending[v]
<1>1. pending'[w] = {p \in pending[w] : p.id # work[w].id} \cup {work[w]}
  BY DEF TypeOK, Enqueue
<1>2. pending' \in [Worker -> SUBSET Attempt]
  BY DEF TypeOK, Enqueue
<1>3. \A p, q \in pending'[w] : p.id = q.id => p = q
  BY <1>1 DEF DeferredInv
<1>4. \A v \in Worker : v # w => pending'[v] = pending[v]
  BY DEF TypeOK, Enqueue
<1> QED
  BY <1>1, <1>2, <1>3, <1>4
----------------------------------------------------------------------------
(* The steps of a worker that leave the table alone *)

LEMMA StartCycleInv ==
  ASSUME IInv, NEW w \in Worker, StartCycle(w)
  PROVE  IInv'
<1>1. TypeOK'
  BY DEF StartCycle, IInv, TypeOK, PC, tableVars
<1>2. /\ row' = row /\ now' = now /\ holder' = holder /\ pending' = pending
      /\ work' = work /\ result' = result
      /\ pc'[w] = "drain" /\ draining'[w] = pending[w]
      /\ instant'[w] = (IF pending[w] = {} THEN 0 ELSE now)
      /\ \A v \in Worker : v # w =>
           pc'[v] = pc[v] /\ draining'[v] = draining[v] /\ instant'[v] = instant[v]
  BY DEF StartCycle, IInv, TypeOK, tableVars
<1>3. OnlyWorker(w) /\ LockStep(w)
  BY <1>2 DEF OnlyWorker, Same, LockStep
<1>4. WorkerInv(w)'
  <2>1. now \in Nat /\ WorkerInv(w)
    BY DEF IInv, TypeOK
  <2>2. Stable(w)'
    BY <1>2 DEF Stable
  <2>3. AttemptInv(w)'
    BY <1>2, <2>1 DEF AttemptInv
  <2>4. \A p \in pending[w] : Deferrable(p)' /\ p.runAt <= now
    BY <1>2, <2>1, DeferrableKept DEF WorkerInv, DeferredInv, Deferrable
  <2>5. DeferredInv(w)'
    BY <1>2, <2>1, <2>4 DEF WorkerInv, DeferredInv
  <2> QED
    BY <2>2, <2>3, <2>5 DEF WorkerInv
<1> QED
  BY <1>1, <1>2, <1>3, <1>4, QuietStep

LEMMA DrainMissedInv ==
  ASSUME IInv, NEW w \in Worker, DrainMissed(w)
  PROVE  IInv'
<1>1. PICK p \in draining[w] :
        /\ draining' = [draining EXCEPT ![w] = @ \ {p}]
        /\ work' = [work EXCEPT ![w] = p]
  BY DEF DrainMissed
<1>2. p \in Attempt /\ p \in pending[w] /\ WorkerInv(w) /\ pc[w] = "drain"
  BY DEF IInv, TypeOK, WorkerInv, DeferredInv, DrainMissed
<1>3. TypeOK'
  BY <1>1, <1>2 DEF DrainMissed, IInv, TypeOK, PC, tableVars
<1>4. /\ row' = row /\ now' = now /\ holder' = holder /\ pending' = pending
      /\ result' = result /\ instant' = instant
      /\ pc'[w] = "probe" /\ draining'[w] = draining[w] \ {p} /\ work'[w] = p
      /\ \A v \in Worker : v # w =>
           pc'[v] = pc[v] /\ draining'[v] = draining[v] /\ work'[v] = work[v]
  BY <1>1 DEF DrainMissed, IInv, TypeOK, tableVars
<1>5. OnlyWorker(w) /\ LockStep(w)
  BY <1>4 DEF OnlyWorker, Same, LockStep
<1>6. WorkerInv(w)'
  <2>1. Stable(w)'
    BY <1>4 DEF Stable
  <2>2. AttemptInv(w)'
    BY <1>2, <1>4 DEF WorkerInv, AttemptInv
  <2>3. \A q \in pending[w] : Deferrable(q)'
    BY <1>2, <1>4, DeferrableKept DEF WorkerInv, DeferredInv
  <2>4. \A q \in draining'[w] : q.id # p.id
    BY <1>2, <1>4 DEF WorkerInv, DeferredInv
  <2>5. DeferredInv(w)'
    BY <1>2, <1>4, <2>3, <2>4 DEF WorkerInv, DeferredInv
  <2> QED
    BY <2>1, <2>2, <2>5 DEF WorkerInv
<1> QED
  BY <1>3, <1>4, <1>5, <1>6, QuietStep

LEMMA ProbeInv ==
  ASSUME IInv, NEW w \in Worker, Probe(w)
  PROVE  IInv'
<1>1. WorkerInv(w) /\ pc[w] = "probe" /\ w \in DOMAIN pending
  BY DEF IInv, TypeOK, Probe
<1>2. /\ pending' \in [Worker -> SUBSET Attempt]
      /\ pending'[w] \subseteq pending[w]
      /\ \A q \in pending[w] : q.id # work[w].id => q \in pending'[w]
      /\ \A v \in Worker : v # w => pending'[v] = pending[v]
  BY DEF IInv, TypeOK, Probe
<1>3. TypeOK'
  BY <1>2 DEF Probe, IInv, TypeOK, PC, tableVars
<1>4. /\ row' = row /\ now' = now /\ holder' = holder /\ draining' = draining
      /\ result' = result /\ instant' = instant /\ pc'[w] = "drain"
      /\ \A v \in Worker : v # w => pc'[v] = pc[v] /\ work'[v] = work[v]
  BY DEF Probe, IInv, TypeOK, tableVars
<1>5. OnlyWorker(w) /\ LockStep(w)
  BY <1>2, <1>4 DEF OnlyWorker, Same, LockStep
<1>6. WorkerInv(w)'
  <2>1. Stable(w)'
    BY <1>4 DEF Stable
  <2>2. AttemptInv(w)'
    BY <1>1, <1>4 DEF WorkerInv, AttemptInv
  <2>3. \A q \in pending'[w] : Deferrable(q)'
    BY <1>1, <1>2, <1>4, DeferrableKept DEF WorkerInv, DeferredInv
  <2>4. draining[w] \subseteq pending'[w]
    BY <1>1, <1>2 DEF WorkerInv, DeferredInv
  <2>5. DeferredInv(w)'
    BY <1>1, <1>2, <1>4, <2>3, <2>4 DEF WorkerInv, DeferredInv
  <2> QED
    BY <2>1, <2>2, <2>5 DEF WorkerInv
<1> QED
  BY <1>3, <1>4, <1>5, <1>6, QuietStep

LEMMA DiscoverInv ==
  ASSUME IInv, NEW w \in Worker, Discover(w)
  PROVE  IInv'
<1>1. WorkerInv(w) /\ draining[w] = {}
  BY DEF IInv, Discover
<1>2. Batch \subseteq Nat \X Task
  <2> SUFFICES ASSUME NEW e \in Batch PROVE e \in Nat \X Task
    OBVIOUS
  <2>1. PICK t \in Discoverable : e = <<row[t].runAt, t>>
    BY Zenon DEF Batch
  <2>2. t \in Task /\ row[t] \in Row
    BY <2>1 DEF IInv, TypeOK, Discoverable
  <2> QED
    BY <2>1, <2>2 DEF Row
<1>3. TypeOK'
  BY <1>2 DEF Discover, IInv, TypeOK, PC, tableVars
<1>4. /\ row' = row /\ now' = now /\ holder' = holder /\ pending' = pending
      /\ draining' = draining /\ work' = work /\ result' = result
      /\ pc'[w] \in {"idle", "cycle"} /\ instant'[w] = 0
      /\ \A v \in Worker : v # w => pc'[v] = pc[v] /\ instant'[v] = instant[v]
  BY DEF Discover, IInv, TypeOK, tableVars
<1>5. OnlyWorker(w) /\ LockStep(w)
  BY <1>4 DEF OnlyWorker, Same, LockStep
<1>6. WorkerInv(w)'
  <2>1. \A q \in pending'[w] : Deferrable(q)'
    BY <1>1, <1>4, DeferrableKept DEF WorkerInv, DeferredInv
  <2> QED
    BY <1>1, <1>3, <1>4, <2>1, Resting DEF WorkerInv, DeferredInv
<1> QED
  BY <1>3, <1>4, <1>5, <1>6, QuietStep

LEMMA ClaimInv ==
  ASSUME IInv, NEW w \in Worker, Claim(w)
  PROVE  IInv'
<1>1. PICK e \in todo[w] :
        LET t == e[2] IN
        /\ IsNext(w, e)
        /\ Due(t) /\ holder[t] = NoSession
        /\ holder' = [holder EXCEPT ![t] = Live(w)]
        /\ work' = [work EXCEPT ![w] =
                      [id |-> t, runAt |-> row[t].runAt, failures |-> row[t].failures]]
        /\ todo' = [todo EXCEPT ![w] = @ \ {e}]
  BY DEF Claim
<1> DEFINE t == e[2]
           c == [id |-> t, runAt |-> row[t].runAt, failures |-> row[t].failures]
<1>2. /\ t \in Task /\ row[t] \in Row /\ c \in Attempt
      /\ WorkerInv(w) /\ pc[w] = "cycle" /\ now \in Nat
  BY DEF IInv, TypeOK, Claim, Attempt, Row
<1>3. Due(t) /\ holder' = [holder EXCEPT ![t] = Live(w)]
      /\ work' = [work EXCEPT ![w] = c] /\ todo' = [todo EXCEPT ![w] = @ \ {e}]
  BY <1>1
<1>4. row[t] = AsClaimed(c) /\ c.id = t /\ c.runAt <= now
  BY <1>2, <1>3 DEF Due, AsClaimed, Pending, Row
<1> HIDE DEF t, c
<1>5. TypeOK'
  BY <1>2, <1>3, Sessions DEF Claim, IInv, TypeOK, PC, tableVars
<1>6. /\ row' = row /\ now' = now /\ pending' = pending /\ draining' = draining
      /\ result' = result /\ instant' = instant
      /\ pc'[w] = "claimed" /\ work'[w] = c
      /\ \A u \in Task : holder'[u] = holder[u] \/ holder'[u] = Live(w)
      /\ \A v \in Worker : v # w => pc'[v] = pc[v] /\ work'[v] = work[v]
  BY <1>2, <1>3 DEF Claim, IInv, TypeOK, tableVars
<1>7. OnlyWorker(w) /\ LockStep(w)
  BY <1>6 DEF OnlyWorker, Same, LockStep
<1>8. WorkerInv(w)'
  <2>1. Stable(w)'
    BY <1>4, <1>6 DEF Stable, AsClaimed
  <2>2. CurrentOrPast(work[w])'
    BY <1>4, <1>6, <1>2 DEF CurrentOrPast, AsClaimed, Pending
  <2>3. AttemptInv(w)'
    BY <1>2, <1>4, <1>6, <2>2 DEF WorkerInv, AttemptInv
  <2>4. \A q \in pending[w] : Deferrable(q)'
    BY <1>2, <1>6, DeferrableKept DEF WorkerInv, DeferredInv
  <2>5. DeferredInv(w)'
    BY <1>2, <1>6, <2>4 DEF WorkerInv, DeferredInv
  <2> QED
    BY <2>1, <2>3, <2>5 DEF WorkerInv
<1> QED
  BY <1>5, <1>6, <1>7, <1>8, QuietStep

LEMMA SkipInv ==
  ASSUME IInv, NEW w \in Worker, Skip(w)
  PROVE  IInv'
<1>1. PICK e \in todo[w] :
        /\ todo' = [todo EXCEPT ![w] = @ \ {e}]
        /\ pc' = [pc EXCEPT ![w] = IF todo[w] = {e} THEN "idle" ELSE "cycle"]
  BY DEF Skip
<1>2. WorkerInv(w) /\ pc[w] = "cycle"
  BY DEF IInv, Skip
<1>3. TypeOK'
  BY <1>1 DEF Skip, IInv, TypeOK, PC, tableVars
<1>4. /\ row' = row /\ now' = now /\ holder' = holder /\ pending' = pending
      /\ draining' = draining /\ work' = work /\ result' = result /\ instant' = instant
      /\ pc'[w] \in {"idle", "cycle"}
      /\ \A v \in Worker : v # w => pc'[v] = pc[v]
  BY <1>1 DEF Skip, IInv, TypeOK, tableVars
<1>5. OnlyWorker(w) /\ LockStep(w)
  BY <1>4 DEF OnlyWorker, Same, LockStep
<1>6. WorkerInv(w)'
  <2>1. Stable(w)'
    BY <1>4 DEF Stable
  <2>2. AttemptInv(w)'
    BY <1>2, <1>4 DEF WorkerInv, AttemptInv
  <2>3. \A q \in pending[w] : Deferrable(q)'
    BY <1>2, <1>4, DeferrableKept DEF WorkerInv, DeferredInv
  <2>4. DeferredInv(w)'
    BY <1>2, <1>4, <2>3 DEF WorkerInv, DeferredInv
  <2> QED
    BY <2>1, <2>2, <2>4 DEF WorkerInv
<1> QED
  BY <1>3, <1>4, <1>5, <1>6, QuietStep

\* Every way a cycle is abandoned with the pending set left alone.
LEMMA AbortInv ==
  ASSUME IInv, NEW w \in Worker,
         AbortCycle(w), faults' \in Nat,
         holder' \in [Task -> Session \cup {NoSession}], LockStep(w),
         row' = row, now' = now, done' = done, failed' = failed,
         pending' = pending \/ pending' = [pending EXCEPT ![w] = {}]
  PROVE  IInv'
<1>1. WorkerInv(w) /\ TypeOK
  BY DEF IInv
<1>2. /\ pending' \in [Worker -> SUBSET Attempt] /\ pending'[w] \subseteq pending[w]
      /\ \A v \in Worker : v # w => pending'[v] = pending[v]
  BY <1>1 DEF TypeOK
<1>3. TypeOK'
  BY <1>1, <1>2, AbortCycleFacts DEF TypeOK
<1>4. OnlyWorker(w)
  BY <1>1, <1>2, AbortCycleFacts DEF OnlyWorker, Same
<1>5. WorkerInv(w)'
  <2>1. \A p \in pending'[w] : Deferrable(p)'
    BY <1>1, <1>2, DeferrableKept DEF WorkerInv, DeferredInv
  <2>2. \A p, q \in pending'[w] : p.id = q.id => p = q
    BY <1>1, <1>2 DEF WorkerInv, DeferredInv
  <2> QED
    BY <1>1, <1>3, <2>1, <2>2, AbortCycleFacts, Resting
<1> QED
  BY <1>3, <1>4, <1>5, QuietStep

LEMMA AbortedInv ==
  ASSUME IInv, NEW w \in Worker,
         DrainFails(w) \/ BeginFails(w) \/ ClaimedFails(w) \/ SettleFails(w)
  PROVE  IInv'
<1>1. AbortCycle(w) /\ UNCHANGED <<now, tableVars, pending>>
  BY DEF DrainFails, BeginFails, ClaimedFails, SettleFails, tableVars
<1>2. (UNCHANGED holder \/ Unlock(w)) /\ (Fault \/ StatementFails(w)) /\ TypeOK
  BY DEF DrainFails, BeginFails, ClaimedFails, SettleFails, IInv
<1>3. faults' \in Nat
  BY <1>2, FaultFacts
<1>4. holder' \in [Task -> Session \cup {NoSession}] /\ LockStep(w)
  BY <1>2, UnlockFacts DEF TypeOK, LockStep
<1> QED
  BY <1>1, <1>3, <1>4, AbortInv DEF tableVars

LEMMA CrashInv ==
  ASSUME IInv, NEW w \in Worker, Crash(w)
  PROVE  IInv'
<1>1. TypeOK /\ AbortCycle(w) /\ Fault /\ pending' = [pending EXCEPT ![w] = {}]
      /\ UNCHANGED <<now, tableVars>>
      /\ holder' = [t \in Task |-> IF holder[t] = Live(w) THEN Orphan(w) ELSE holder[t]]
  BY DEF Crash, IInv
<1>2. faults' \in Nat
  BY <1>1, FaultFacts
<1>3. holder' \in [Task -> Session \cup {NoSession}] /\ LockStep(w)
  BY <1>1, Sessions DEF TypeOK, LockStep
<1> QED
  BY <1>1, <1>2, <1>3, AbortInv DEF tableVars

LEMMA StartHandlerInv ==
  ASSUME IInv, NEW w \in Worker, StartHandler(w)
  PROVE  IInv'
<1>1. WorkerInv(w) /\ pc[w] = "claimed" /\ work[w].id \in Registered
  BY DEF IInv, StartHandler
<1>2. TypeOK'
  BY DEF StartHandler, IInv, TypeOK, PC, tableVars
<1>3. /\ row' = row /\ now' = now /\ holder' = holder /\ pending' = pending
      /\ draining' = draining /\ work' = work /\ result' = result /\ instant' = instant
      /\ pc'[w] = "running"
      /\ \A v \in Worker : v # w => pc'[v] = pc[v]
  BY DEF StartHandler, IInv, TypeOK, tableVars
<1>4. OnlyWorker(w) /\ LockStep(w)
  BY <1>3 DEF OnlyWorker, Same, LockStep
<1>5. WorkerInv(w)'
  <2>1. Stable(w)'
    BY <1>1, <1>3 DEF WorkerInv, Stable, Alive, Live, AsClaimed
  <2>2. AttemptInv(w)'
    BY <1>1, <1>3 DEF WorkerInv, AttemptInv, CurrentOrPast, AsClaimed
  <2>3. \A q \in pending[w] : Deferrable(q)'
    BY <1>1, <1>3, DeferrableKept DEF WorkerInv, DeferredInv
  <2>4. DeferredInv(w)'
    BY <1>1, <1>3, <2>3 DEF WorkerInv, DeferredInv
  <2> QED
    BY <2>1, <2>2, <2>4 DEF WorkerInv
<1> QED
  BY <1>2, <1>3, <1>4, <1>5, QuietStep

LEMMA HandlerReturnsInv ==
  ASSUME IInv, NEW w \in Worker, HandlerReturns(w)
  PROVE  IInv'
<1>1. WorkerInv(w) /\ pc[w] = "running"
  BY DEF IInv, HandlerReturns
<1>2. result' \in [Worker -> Result] /\ \A v \in Worker : v # w => result'[v] = result[v]
  BY SchedulerAssumption DEF HandlerReturns, IInv, TypeOK, Result
<1>3. TypeOK'
  BY <1>2 DEF HandlerReturns, IInv, TypeOK, PC, tableVars
<1>4. /\ row' = row /\ now' = now /\ holder' = holder /\ pending' = pending
      /\ draining' = draining /\ work' = work /\ instant' = instant
      /\ pc'[w] = "settle"
      /\ \A v \in Worker : v # w => pc'[v] = pc[v]
  BY DEF HandlerReturns, IInv, TypeOK, tableVars
<1>5. OnlyWorker(w) /\ LockStep(w)
  BY <1>2, <1>4 DEF OnlyWorker, Same, LockStep
<1>6. WorkerInv(w)'
  <2>1. Stable(w)'
    BY <1>1, <1>4 DEF WorkerInv, Stable, Alive, Live, AsClaimed
  <2>2. AttemptInv(w)'
    BY <1>1, <1>4 DEF WorkerInv, AttemptInv, CurrentOrPast, AsClaimed
  <2>3. \A q \in pending[w] : Deferrable(q)'
    BY <1>1, <1>4, DeferrableKept DEF WorkerInv, DeferredInv
  <2>4. DeferredInv(w)'
    BY <1>1, <1>4, <2>3 DEF WorkerInv, DeferredInv
  <2> QED
    BY <2>1, <2>2, <2>4 DEF WorkerInv
<1> QED
  BY <1>3, <1>4, <1>5, <1>6, QuietStep

\* The attempt an enqueueing worker holds can be deferred.
LEMMA HeldIsDeferrable ==
  ASSUME IInv, NEW w \in Worker, pc[w] \in {"running", "settle", "commit"}
  PROVE  work[w] \in Attempt /\ Deferrable(work[w]) /\ DeferredInv(w) /\ draining[w] = {}
BY DEF IInv, WorkerInv, AttemptInv, DeferredInv, Deferrable

LEMMA BreachInv ==
  ASSUME IInv, NEW w \in Worker, Breach(w)
  PROVE  IInv'
<1>1. TypeOK /\ WorkerInv(w) /\ pc[w] = "running" /\ Enqueue(w)
  BY DEF IInv, Breach
<1>2. work[w] \in Attempt /\ Deferrable(work[w]) /\ DeferredInv(w) /\ draining[w] = {}
  BY <1>1, HeldIsDeferrable
<1>3. /\ pending' \in [Worker -> SUBSET Attempt]
      /\ pending'[w] \subseteq pending[w] \cup {work[w]}
      /\ \A p, q \in pending'[w] : p.id = q.id => p = q
      /\ \A v \in Worker : v # w => pending'[v] = pending[v]
  BY <1>1, <1>2, EnqueueFacts
<1>4. holder' \in [Task -> Session \cup {NoSession}] /\ LockStep(w)
  BY <1>1, Sessions DEF Breach, TypeOK, LockStep
<1>5. TypeOK'
  BY <1>1, <1>3, <1>4 DEF Breach, TypeOK, PC, tableVars
<1>6. /\ row' = row /\ now' = now
      /\ draining' = draining /\ work' = work /\ result' = result /\ instant' = instant
      /\ pc'[w] = "terminate"
      /\ \A v \in Worker : v # w => pc'[v] = pc[v]
  BY <1>1 DEF Breach, TypeOK, tableVars
<1>7. OnlyWorker(w)
  BY <1>3, <1>6 DEF OnlyWorker, Same
<1>8. WorkerInv(w)'
  <2>1. Stable(w)'
    BY <1>6 DEF Stable
  <2>2. AttemptInv(w)'
    BY <1>1, <1>6 DEF WorkerInv, AttemptInv, CurrentOrPast, AsClaimed
  <2>3. \A q \in pending[w] \cup {work[w]} : Deferrable(q)'
    BY <1>2, <1>6, DeferrableKept DEF DeferredInv
  <2>4. DeferredInv(w)'
    BY <1>2, <1>3, <1>6, <2>3 DEF DeferredInv
  <2> QED
    BY <2>1, <2>2, <2>4 DEF WorkerInv
<1> QED
  BY <1>4, <1>5, <1>6, <1>7, <1>8, QuietStep

\* Every way an attempt ends without a change to the table.
LEMMA NextIdInv ==
  ASSUME IInv, NEW w \in Worker,
         pc[w] \in {"terminate", "settle", "commit"},
         NextId(w), faults' \in Nat,
         holder' \in [Task -> Session \cup {NoSession}], LockStep(w),
         row' = row, now' = now, done' = done, failed' = failed,
         pending' = pending \/ (pc[w] # "terminate" /\ Enqueue(w))
  PROVE  IInv'
<1>1. TypeOK /\ WorkerInv(w) /\ DeferredInv(w) /\ draining[w] = {}
  BY DEF IInv, WorkerInv, DeferredInv
<1>2. /\ pending' \in [Worker -> SUBSET Attempt]
      /\ \A p, q \in pending'[w] : p.id = q.id => p = q
      /\ \A v \in Worker : v # w => pending'[v] = pending[v]
      /\ \A p \in pending'[w] : Deferrable(p)
  <2>1. CASE pending' = pending
    BY <1>1, <2>1 DEF TypeOK, DeferredInv
  <2>2. CASE pc[w] # "terminate" /\ Enqueue(w)
    BY <1>1, <2>2, HeldIsDeferrable, EnqueueFacts DEF DeferredInv
  <2> QED
    BY <2>1, <2>2
<1>3. TypeOK'
  BY <1>1, <1>2, NextIdFacts DEF TypeOK
<1>4. OnlyWorker(w)
  BY <1>1, <1>2, NextIdFacts DEF OnlyWorker, Same
<1>5. WorkerInv(w)'
  BY <1>1, <1>2, <1>3, NextIdFacts, DeferrableKept, Resting
<1> QED
  BY <1>3, <1>4, <1>5, QuietStep

LEMMA UnsettledInv ==
  ASSUME IInv, NEW w \in Worker,
         Terminate(w) \/ TerminateFails(w) \/ SettlePanicBusy(w) \/ CommitFails(w)
  PROVE  IInv'
<1>1. TypeOK /\ NextId(w) /\ UNCHANGED <<now, tableVars>>
      /\ pc[w] \in {"terminate", "settle", "commit"}
      /\ (pending' = pending \/ (pc[w] # "terminate" /\ Enqueue(w)))
  BY DEF IInv, Terminate, TerminateFails, SettlePanicBusy, CommitFails, tableVars
<1>2. faults' \in Nat
  <2>1. Fault \/ UNCHANGED faults \/ StatementFails(w)
    BY DEF Terminate, TerminateFails, SettlePanicBusy, CommitFails
  <2> QED
    BY <1>1, <2>1, FaultFacts
<1>3. holder' \in [Task -> Session \cup {NoSession}] /\ LockStep(w)
  <2>1. CASE Unlock(w)
    BY <1>1, <2>1, UnlockFacts
  <2>2. CASE holder' = holder
    BY <1>1, <2>2 DEF TypeOK, LockStep
  <2>3. CASE Terminate(w)
    BY <1>1, <2>3 DEF Terminate, TypeOK, LockStep
  <2> QED
    BY <2>1, <2>2, <2>3 DEF TerminateFails, SettlePanicBusy, CommitFails
<1> QED
  BY <1>1, <1>2, <1>3, NextIdInv DEF tableVars

LEMMA SettleInv ==
  ASSUME IInv, NEW w \in Worker, Settle(w)
  PROVE  IInv'
<1>1. /\ WorkerInv(w) /\ pc[w] = "settle" /\ result[w] \in {"ok", "failed"}
      /\ TypeOK /\ now \in Nat
  BY DEF IInv, TypeOK, Settle
<1>2. TypeOK'
  BY <1>1 DEF Settle, TypeOK, PC, tableVars
<1>3. /\ row' = row /\ now' = now /\ holder' = holder /\ pending' = pending
      /\ draining' = draining /\ work' = work /\ result' = result
      /\ pc'[w] = "commit" /\ instant'[w] = now
      /\ \A v \in Worker : v # w => pc'[v] = pc[v] /\ instant'[v] = instant[v]
  BY <1>1 DEF Settle, TypeOK, tableVars
<1>4. OnlyWorker(w) /\ LockStep(w)
  BY <1>3 DEF OnlyWorker, Same, LockStep
<1>5. WorkerInv(w)'
  <2>1. Stable(w)'
    BY <1>1, <1>3 DEF WorkerInv, Stable, Alive, Live, AsClaimed
  <2>2. AttemptInv(w)'
    BY <1>1, <1>3 DEF WorkerInv, AttemptInv, CurrentOrPast, AsClaimed
  <2>3. \A q \in pending[w] : Deferrable(q)'
    BY <1>1, <1>3, DeferrableKept DEF WorkerInv, DeferredInv
  <2>4. DeferredInv(w)'
    BY <1>1, <1>3, <2>3 DEF WorkerInv, DeferredInv
  <2> QED
    BY <2>1, <2>2, <2>4 DEF WorkerInv
<1> QED
  BY <1>2, <1>3, <1>4, <1>5, QuietStep
----------------------------------------------------------------------------
(* The steps of the environment that leave the table alone *)

\* A step that moves no worker, gives no lock to one, and changes no row.
LEMMA NobodyMoves ==
  ASSUME IInv, UNCHANGED <<now, tableVars, workerVars>>, faults' \in Nat,
         holder' \in [Task -> Session \cup {NoSession}],
         \A t \in Task : holder'[t] = holder[t] \/ holder'[t] = NoSession
  PROVE  IInv'
<1>1. TypeOK'
  BY DEF IInv, TypeOK, tableVars, workerVars
<1>2. BelowCap'
  BY DEF IInv, BelowCap, tableVars
<1>3. ASSUME NEW w \in Worker PROVE WorkerInv(w)'
  <2>1. TypeOK /\ WorkerInv(w) /\ Same(w)
    BY DEF IInv, Same, workerVars
  <2>2. now' >= now /\ row' = row /\ \A t \in Task : Advances(t)
    BY <2>1 DEF TypeOK, Advances, tableVars
  <2>3. pc[w] \in {"claimed", "running", "settle", "commit"} =>
          (holder'[work[w].id] = Live(w) => holder[work[w].id] = Live(w))
    <3>1. pc[w] \in {"claimed", "running", "settle", "commit"} => work[w].id \in Task
      BY <2>1 DEF WorkerInv, AttemptInv, Attempt
    <3> QED
      BY <3>1, Sessions
  <2> QED
    BY <1>1, <2>1, <2>2, <2>3, WorkerKept
<1> QED
  BY <1>1, <1>2, <1>3 DEF IInv

LEMMA SessionEndsInv ==
  ASSUME IInv, \/ \E t \in Task : OrphanEnds(t)
               \/ \E w \in Worker : BackendDies(w)
  PROVE  IInv'
<1>1. UNCHANGED <<now, tableVars, workerVars>>
  BY DEF OrphanEnds, BackendDies
<1>2. faults' \in Nat
  BY FaultFacts DEF IInv, TypeOK, OrphanEnds, BackendDies, Fault
<1>3. /\ holder' \in [Task -> Session \cup {NoSession}]
      /\ \A t \in Task : holder'[t] = holder[t] \/ holder'[t] = NoSession
  BY DEF IInv, TypeOK, OrphanEnds, BackendDies, Unlock
<1> QED
  BY <1>1, <1>2, <1>3, NobodyMoves
----------------------------------------------------------------------------
(* The steps that change the table *)

\* A verdict, or a postponement, moves one row forward and leaves a pending
\* one-shot with attempts left.
LEMMA ContractStep ==
  ASSUME TypeOK, BelowCap, NEW t \in Task,
         Schedule(t) \/ Complete(t) \/ Fail(t) \/ Refuse(t)
  PROVE  /\ row' \in [Task -> Row]
         /\ done' \in [Task -> SUBSET Nat] /\ failed' \in [Task -> SUBSET Nat]
         /\ now' = now
         /\ \A u \in Task : Advances(u) /\ (u # t => row'[u] = row[u])
         /\ BelowCap'
<1>1. row[t] \in Row /\ row[t].runAt \in Nat /\ row[t].failures \in Nat /\ now \in Nat
  BY DEF TypeOK, Row
<1>2. ASSUME NEW new \in Row, row' = [row EXCEPT ![t] = new],
             \/ row[t].state = "unborn"
             \/ /\ row[t].state = "pending"
                /\ \/ new.state \in {"dead", "gone"}
                   \/ new.state = "pending" /\ new.runAt > row[t].runAt,
             t \in OneShot /\ new.state = "pending" => new.failures < RetryMaxAttempts
      PROVE  /\ row' \in [Task -> Row]
             /\ \A u \in Task : Advances(u) /\ (u # t => row'[u] = row[u])
             /\ BelowCap'
  <2>1. row' \in [Task -> Row] /\ row'[t] = new /\ \A u \in Task : u # t => row'[u] = row[u]
    BY <1>2 DEF TypeOK
  <2>2. \A u \in Task : Advances(u)
    BY <1>2, <2>1 DEF Advances
  <2>3. BelowCap'
    BY <1>2, <2>1, TableAssumption DEF BelowCap
  <2> QED
    BY <2>1, <2>2, <2>3
<1>3. CASE Schedule(t)
  <2>1. PICK d \in Delays : row' = [row EXCEPT ![t] = Inserted(now + d)]
    BY <1>3 DEF Schedule
  <2>2. Inserted(now + d) \in Row /\ Inserted(now + d).failures = 0
    BY <1>1, ContractAssumption DEF Inserted, Pending, Row
  <2>3. row[t].state = "unborn" /\ UNCHANGED <<now, done, failed>> /\ 0 < RetryMaxAttempts
    BY <1>3, TableAssumption DEF Schedule
  <2> QED
    BY <1>2, <2>1, <2>2, <2>3 DEF TypeOK
<1>4. ASSUME NEW s \in row[t].runAt .. now, t \in Registered, Due(t)
      PROVE  Settleable(t, row[t], s)
  BY <1>1, <1>4 DEF Settleable, Due, BelowCap
<1>5. CASE Complete(t)
  <2>1. PICK s \in row[t].runAt .. now : row' = [row EXCEPT ![t] = DoneRow(t, row[t], s)]
    BY <1>5 DEF Complete
  <2>2. t \in Registered /\ Due(t) /\ now' = now /\ failed' = failed
        /\ done' = [done EXCEPT ![t] = @ \cup {row[t].runAt}]
    BY <1>5 DEF Complete
  <2>3. Settleable(t, row[t], s)
    BY <1>4, <2>2
  <2>4. /\ DoneRow(t, row[t], s) \in Row
        /\ t \in OneShot => DoneRow(t, row[t], s) = Gone
        /\ t \in Recurrent => /\ DoneRow(t, row[t], s).state = "pending"
                              /\ DoneRow(t, row[t], s).runAt > row[t].runAt
    BY <2>3, DoneRowFacts
  <2>5. t \in OneShot \/ t \in Recurrent
    BY <2>2 DEF Registered
  <2>6. t \in Recurrent => t \notin OneShot
    BY TableAssumption
  <2>7. Gone.state = "gone"
    BY DEF Gone
  <2>8. row[t].state = "pending"
    BY <2>2 DEF Due
  <2> HIDE DEF DoneRow
  <2>9. done' \in [Task -> SUBSET Nat] /\ failed' \in [Task -> SUBSET Nat]
    BY <1>1, <2>2 DEF TypeOK
  <2> QED
    BY <1>2, <2>1, <2>2, <2>4, <2>5, <2>6, <2>7, <2>8, <2>9
<1>6. CASE Fail(t)
  <2>1. PICK s \in row[t].runAt .. now : row' = [row EXCEPT ![t] = FailedRow(t, row[t], s)]
    BY <1>6 DEF Fail
  <2>2. t \in Registered /\ Due(t) /\ now' = now /\ done' = done
        /\ failed' = [failed EXCEPT ![t] = @ \cup {row[t].runAt}]
    BY <1>6 DEF Fail
  <2>3. Settleable(t, row[t], s) /\ row[t].state = "pending"
    BY <1>4, <2>2 DEF Due
  <2>4. /\ FailedRow(t, row[t], s) \in Row
        /\ \/ FailedRow(t, row[t], s).state = "dead"
           \/ /\ FailedRow(t, row[t], s).state = "pending"
              /\ FailedRow(t, row[t], s).runAt > row[t].runAt
        /\ t \in OneShot /\ FailedRow(t, row[t], s).state = "pending" =>
             FailedRow(t, row[t], s).failures < RetryMaxAttempts
    BY <2>3, FailedRowFacts
  <2>5. done' \in [Task -> SUBSET Nat] /\ failed' \in [Task -> SUBSET Nat]
    BY <1>1, <2>2 DEF TypeOK
  <2> QED
    BY <1>2, <2>1, <2>2, <2>3, <2>4, <2>5
<1>7. CASE Refuse(t)
  <2>1. PICK s \in row[t].runAt .. now : row' = [row EXCEPT ![t] = PostponedRow(row[t], s)]
    BY <1>7 DEF Refuse
  <2>2. t \notin OneShot /\ row[t].state = "pending" /\ UNCHANGED <<now, done, failed>>
    BY <1>7 DEF Refuse, Due, Registered
  <2>3. s \in Nat /\ row[t].runAt <= s
    BY <1>1
  <2>4. /\ PostponedRow(row[t], s) \in Row
        /\ PostponedRow(row[t], s).state = "pending"
        /\ PostponedRow(row[t], s).runAt > row[t].runAt
    BY <1>1, <2>3, PostponedRowFacts
  <2> QED
    BY <1>2, <2>1, <2>2, <2>4 DEF TypeOK
<1> QED
  BY <1>3, <1>5, <1>6, <1>7

\* The drain's UPDATE is one counted failure of the recorded occurrence.
LEMMA DrainUpdateIsFail ==
  ASSUME IInv, NEW w \in Worker, NEW p \in draining[w], DrainUpdate(w, p)
  PROVE  Fail(p.id) /\ p \in Attempt /\ p.id \in Task
<1>1. /\ TypeOK /\ WorkerInv(w) /\ p \in Attempt /\ p.id \in Task /\ p \in pending[w]
      /\ now \in Nat /\ instant[w] \in Nat /\ p.runAt \in Nat
  BY DEF IInv, TypeOK, WorkerInv, DeferredInv, Attempt
<1>2. /\ p.id \in Registered /\ p.runAt <= now /\ CurrentOrPast(p)
      /\ p.runAt <= instant[w] /\ instant[w] <= now
  BY <1>1 DEF WorkerInv, DeferredInv, Deferrable, AttemptInv
<1>3. row[p.id].state = "pending" /\ row[p.id].runAt = p.runAt
  BY DEF DrainUpdate, Matches
<1>4. row[p.id] = AsClaimed(p)
  BY <1>1, <1>2, <1>3 DEF CurrentOrPast
<1>5. instant[w] \in row[p.id].runAt .. now
  BY <1>1, <1>2, <1>3
<1>6. Due(p.id)
  BY <1>2, <1>3 DEF Due
<1> QED
  BY <1>1, <1>2, <1>3, <1>4, <1>5, <1>6 DEF DrainUpdate, Fail

\* Postponing a row of an undeclared type is the contract's refusal.
LEMMA PostponeIsRefuse ==
  ASSUME IInv, NEW w \in Worker, PostponeRow(w)
  PROVE  Refuse(work[w].id) /\ work[w] \in Attempt /\ work[w].id \in Task
<1>1. /\ WorkerInv(w) /\ work[w] \in Attempt /\ work[w].id \in Task
      /\ work[w].runAt <= now /\ row[work[w].id] = AsClaimed(work[w])
      /\ now \in Nat /\ work[w].runAt \in Nat
  BY DEF IInv, TypeOK, WorkerInv, AttemptInv, Stable, PostponeRow, Attempt
<1>2. row[work[w].id].state = "pending" /\ row[work[w].id].runAt = work[w].runAt
  BY <1>1 DEF AsClaimed, Pending
<1>3. Due(work[w].id) /\ now \in row[work[w].id].runAt .. now
  BY <1>1, <1>2 DEF Due
<1>4. row' = [row EXCEPT ![work[w].id] = PostponedRow(row[work[w].id], now)]
  BY <1>1 DEF PostponeRow, IInv, TypeOK
<1> QED
  BY <1>1, <1>3, <1>4 DEF PostponeRow, Refuse

\* A COMMIT is the one verdict of the occurrence the attempt claimed.
LEMMA CommitIsVerdict ==
  ASSUME IInv, NEW w \in Worker, Commit(w)
  PROVE  /\ Complete(work[w].id) \/ Fail(work[w].id)
         /\ work[w] \in Attempt /\ work[w].id \in Task
<1> DEFINE t == work[w].id
<1>1. /\ WorkerInv(w) /\ work[w] \in Attempt /\ t \in Task /\ t \in Registered
      /\ work[w].runAt <= now /\ row[t] = AsClaimed(work[w])
      /\ now \in Nat /\ work[w].runAt \in Nat /\ instant[w] \in Nat
      /\ work[w].runAt <= instant[w] /\ instant[w] <= now
  BY DEF IInv, TypeOK, WorkerInv, AttemptInv, Stable, Commit, Attempt
<1>2. row[t].state = "pending" /\ row[t].runAt = work[w].runAt
  BY <1>1 DEF AsClaimed, Pending
<1>3. Due(t) /\ instant[w] \in row[t].runAt .. now
  BY <1>1, <1>2 DEF Due
<1>4. CASE /\ row' = [row EXCEPT ![t] = DoneRow(t, AsClaimed(work[w]), instant[w])]
           /\ done' = [done EXCEPT ![t] = @ \cup {work[w].runAt}]
           /\ UNCHANGED failed
  BY <1>1, <1>2, <1>3, <1>4 DEF Commit, Complete
<1>5. CASE /\ row' = [row EXCEPT ![t] = FailedRow(t, AsClaimed(work[w]), instant[w])]
           /\ failed' = [failed EXCEPT ![t] = @ \cup {work[w].runAt}]
           /\ UNCHANGED done
  BY <1>1, <1>2, <1>3, <1>5 DEF Commit, Fail
<1> QED
  BY <1>1, <1>4, <1>5 DEF Commit

\* A step of worker w that gives task t its verdict, with t's lock in w's
\* hands or in nobody's.
LEMMA VerdictStep ==
  ASSUME IInv, TypeOK', NEW w \in Worker, NEW t \in Task,
         Complete(t) \/ Fail(t) \/ Refuse(t),
         OnlyWorker(w), LockStep(w), holder[t] \in {NoSession, Live(w)},
         WorkerInv(w)'
  PROVE  IInv'
<1>1. /\ TypeOK /\ now' = now /\ now \in Nat /\ BelowCap'
      /\ \A u \in Task : Advances(u) /\ (u # t => row'[u] = row[u])
  BY ContractStep DEF IInv, TypeOK
<1>2. ASSUME NEW v \in Worker, v # w PROVE WorkerInv(v)'
  <2>1. WorkerInv(v) /\ Same(v) /\ now' >= now
    BY <1>1, <1>2 DEF IInv, OnlyWorker
  <2>2. \A u \in Task : holder'[u] = Live(v) => holder[u] = Live(v) /\ row'[u] = row[u]
    BY <1>1, <1>2, Sessions DEF LockStep
  <2>3. pc[v] \in {"claimed", "running", "settle", "commit"} => work[v].id \in Task
    BY <2>1 DEF WorkerInv, AttemptInv, Attempt
  <2>4. pc[v] \in {"claimed", "running", "settle", "commit"} =>
          (holder'[work[v].id] = Live(v) =>
             holder[work[v].id] = Live(v) /\ row'[work[v].id] = row[work[v].id])
    BY <2>2, <2>3
  <2> QED
    BY <1>1, <2>1, <2>4, WorkerKept
<1> QED
  BY <1>1, <1>2 DEF IInv

\* The deferred attempts stay deferrable when the rows advance.
LEMMA AllDeferrableKept ==
  ASSUME TypeOK, TypeOK', now' = now, \A t \in Task : Advances(t),
         NEW p \in Attempt, Deferrable(p)
  PROVE  Deferrable(p)'
<1>1. p.id \in Task
  BY DEF Attempt
<1>2. CurrentOrPast(p)'
  BY <1>1, CurrentOrPastKept DEF Deferrable
<1> QED
  BY <1>2 DEF Deferrable

LEMMA DrainAppliedInv ==
  ASSUME IInv, NEW w \in Worker, DrainApplied(w)
  PROVE  IInv'
<1>1. PICK p \in draining[w] :
        /\ DrainUpdate(w, p)
        /\ pending' = [pending EXCEPT ![w] = {q \in @ : q.id # p.id}]
        /\ draining' = [draining EXCEPT ![w] = @ \ {p}]
        /\ UNCHANGED <<faults, pc, todo, work, result, instant>>
  BY DEF DrainApplied
<1>2. /\ Fail(p.id) /\ p \in Attempt /\ p.id \in Task
      /\ TypeOK /\ WorkerInv(w) /\ pc[w] = "drain" /\ holder' = holder
      /\ holder[p.id] = NoSession
  BY <1>1, DrainUpdateIsFail DEF IInv, DrainUpdate
<1>3. /\ row' \in [Task -> Row]
      /\ done' \in [Task -> SUBSET Nat] /\ failed' \in [Task -> SUBSET Nat]
      /\ now' = now /\ \A u \in Task : Advances(u)
  BY <1>2, ContractStep DEF IInv
<1>4. TypeOK'
  BY <1>1, <1>2, <1>3 DEF TypeOK
<1>5. /\ pending'[w] = {q \in pending[w] : q.id # p.id}
      /\ draining'[w] = draining[w] \ {p}
      /\ \A v \in Worker : v # w => pending'[v] = pending[v] /\ draining'[v] = draining[v]
  BY <1>1, <1>2 DEF TypeOK
<1>6. OnlyWorker(w) /\ LockStep(w)
  BY <1>1, <1>2, <1>5 DEF OnlyWorker, Same, LockStep
<1>7. WorkerInv(w)'
  <2>1. Stable(w)'
    BY <1>1, <1>2 DEF Stable
  <2>2. AttemptInv(w)'
    BY <1>1, <1>2, <1>3 DEF WorkerInv, AttemptInv
  <2>3. \A q \in pending'[w] : Deferrable(q)'
    <3>1. \A q \in pending'[w] : q \in Attempt /\ Deferrable(q)
      BY <1>2, <1>5 DEF TypeOK, WorkerInv, DeferredInv
    <3> QED
      BY <1>2, <1>3, <1>4, <3>1, AllDeferrableKept
  <2>4. draining'[w] \subseteq pending'[w]
    BY <1>2, <1>5 DEF WorkerInv, DeferredInv
  <2>5. DeferredInv(w)'
    BY <1>1, <1>2, <1>5, <2>3, <2>4 DEF WorkerInv, DeferredInv
  <2> QED
    BY <2>1, <2>2, <2>5 DEF WorkerInv
<1> QED
  BY <1>2, <1>4, <1>6, <1>7, VerdictStep

LEMMA DrainAckLostInv ==
  ASSUME IInv, NEW w \in Worker, DrainAckLost(w)
  PROVE  IInv'
<1>1. PICK p \in draining[w] : DrainUpdate(w, p) /\ Fault /\ AbortCycle(w) /\ UNCHANGED pending
  BY DEF DrainAckLost
<1>2. /\ Fail(p.id) /\ p \in Attempt /\ p.id \in Task
      /\ TypeOK /\ WorkerInv(w) /\ holder' = holder /\ holder[p.id] = NoSession
  BY <1>1, DrainUpdateIsFail DEF IInv, DrainUpdate
<1>3. /\ row' \in [Task -> Row]
      /\ done' \in [Task -> SUBSET Nat] /\ failed' \in [Task -> SUBSET Nat]
      /\ now' = now /\ \A u \in Task : Advances(u)
  BY <1>2, ContractStep DEF IInv
<1>4. TypeOK'
  BY <1>1, <1>2, <1>3, AbortCycleFacts, FaultFacts DEF TypeOK
<1>5. OnlyWorker(w) /\ LockStep(w)
  BY <1>1, <1>2, AbortCycleFacts DEF OnlyWorker, Same, LockStep
<1>6. WorkerInv(w)'
  <2>1. \A q \in pending'[w] : Deferrable(q)'
    <3>1. \A q \in pending'[w] : q \in Attempt /\ Deferrable(q)
      BY <1>1, <1>2 DEF TypeOK, WorkerInv, DeferredInv
    <3> QED
      BY <1>2, <1>3, <1>4, <3>1, AllDeferrableKept
  <2>2. \A q, r \in pending'[w] : q.id = r.id => q = r
    BY <1>1, <1>2 DEF WorkerInv, DeferredInv
  <2> QED
    BY <1>1, <1>2, <1>4, <2>1, <2>2, AbortCycleFacts, Resting
<1> QED
  BY <1>2, <1>4, <1>5, <1>6, VerdictStep

LEMMA SettleUnregisteredInv ==
  ASSUME IInv, NEW w \in Worker, SettleUnregistered(w) \/ SettleUnregisteredAckLost(w)
  PROVE  IInv'
<1>1. /\ PostponeRow(w) /\ (Fault \/ UNCHANGED faults) /\ (NextId(w) \/ AbortCycle(w))
  BY DEF SettleUnregistered, SettleUnregisteredAckLost
<1>2. /\ Refuse(work[w].id) /\ work[w] \in Attempt /\ work[w].id \in Task
      /\ TypeOK /\ WorkerInv(w) /\ Unlock(w) /\ pending' = pending
      /\ pc[w] = "claimed" /\ holder[work[w].id] = Live(w)
  BY <1>1, PostponeIsRefuse DEF IInv, PostponeRow, Alive
<1>3. /\ row' \in [Task -> Row]
      /\ done' \in [Task -> SUBSET Nat] /\ failed' \in [Task -> SUBSET Nat]
      /\ now' = now /\ \A u \in Task : Advances(u)
  BY <1>2, ContractStep DEF IInv
<1>4. faults' \in Nat /\ holder' \in [Task -> Session \cup {NoSession}] /\ LockStep(w)
  BY <1>1, <1>2, FaultFacts, UnlockFacts
<1>5. draining[w] = {}
  BY <1>2 DEF WorkerInv, DeferredInv
<1>6. TypeOK' /\ OnlyWorker(w)
  <2>1. CASE NextId(w)
    BY <1>2, <1>3, <1>4, <2>1, NextIdFacts DEF TypeOK, OnlyWorker, Same
  <2>2. CASE AbortCycle(w)
    BY <1>2, <1>3, <1>4, <2>2, AbortCycleFacts DEF TypeOK, OnlyWorker, Same
  <2> QED
    BY <1>1, <2>1, <2>2
<1>7. pc'[w] \in {"idle", "cycle"} /\ draining'[w] = {} /\ instant'[w] = 0
  BY <1>1, <1>2, <1>5, NextIdFacts, AbortCycleFacts
<1>8. WorkerInv(w)'
  <2>1. \A q \in pending'[w] : Deferrable(q)'
    <3>1. \A q \in pending'[w] : q \in Attempt /\ Deferrable(q)
      BY <1>2 DEF TypeOK, WorkerInv, DeferredInv
    <3> QED
      BY <1>2, <1>3, <1>6, <3>1, AllDeferrableKept
  <2>2. \A q, r \in pending'[w] : q.id = r.id => q = r
    BY <1>2 DEF WorkerInv, DeferredInv
  <2> QED
    BY <1>6, <1>7, <2>1, <2>2, Resting
<1> QED
  BY <1>2, <1>4, <1>6, <1>8, VerdictStep

LEMMA CommitInv ==
  ASSUME IInv, NEW w \in Worker, CommitAcked(w) \/ CommitAckLost(w)
  PROVE  IInv'
<1>1. /\ Commit(w) /\ (Fault \/ UNCHANGED faults)
      /\ (pending' = pending \/ Enqueue(w))
  BY DEF CommitAcked, CommitAckLost
<1>2. /\ Complete(work[w].id) \/ Fail(work[w].id)
      /\ work[w] \in Attempt /\ work[w].id \in Task
      /\ TypeOK /\ Unlock(w) /\ NextId(w)
      /\ pc[w] = "commit" /\ holder[work[w].id] = Live(w)
  BY <1>1, CommitIsVerdict DEF IInv, Commit, Alive
<1>3. /\ row' \in [Task -> Row]
      /\ done' \in [Task -> SUBSET Nat] /\ failed' \in [Task -> SUBSET Nat]
      /\ now' = now /\ \A u \in Task : Advances(u)
  BY <1>2, ContractStep DEF IInv
<1>4. faults' \in Nat /\ holder' \in [Task -> Session \cup {NoSession}] /\ LockStep(w)
  BY <1>1, <1>2, FaultFacts, UnlockFacts
<1>5. Deferrable(work[w]) /\ DeferredInv(w) /\ draining[w] = {}
  BY <1>2, HeldIsDeferrable
<1>6. /\ pending' \in [Worker -> SUBSET Attempt]
      /\ \A p, q \in pending'[w] : p.id = q.id => p = q
      /\ \A v \in Worker : v # w => pending'[v] = pending[v]
      /\ \A p \in pending'[w] : p \in Attempt /\ Deferrable(p)
  <2>1. CASE pending' = pending
    BY <1>2, <1>5, <2>1 DEF TypeOK, DeferredInv
  <2>2. CASE Enqueue(w)
    BY <1>2, <1>5, <2>2, EnqueueFacts DEF DeferredInv, TypeOK
  <2> QED
    BY <1>1, <2>1, <2>2
<1>7. TypeOK' /\ OnlyWorker(w)
  BY <1>2, <1>3, <1>4, <1>6, NextIdFacts DEF TypeOK, OnlyWorker, Same
<1>8. WorkerInv(w)'
  <2>1. \A q \in pending'[w] : Deferrable(q)'
    BY <1>2, <1>3, <1>6, <1>7, AllDeferrableKept
  <2> QED
    BY <1>2, <1>5, <1>6, <1>7, <2>1, NextIdFacts, Resting
<1> QED
  BY <1>2, <1>4, <1>7, <1>8, VerdictStep

LEMMA EnvironmentInv ==
  ASSUME IInv, Environment
  PROVE  IInv'
<1>1. UNCHANGED <<holder, faults, workerVars>>
  BY DEF Environment
<1>2. \A w \in Worker : Same(w) /\ WorkerInv(w)
  BY <1>1 DEF IInv, Same, workerVars
<1>3. TypeOK /\ BelowCap
  BY DEF IInv
<1>4. CASE Tick
  <2>1. now' \in Nat /\ now' >= now /\ UNCHANGED tableVars
    BY <1>3, <1>4 DEF TypeOK, Tick
  <2>2. TypeOK' /\ BelowCap'
    BY <1>1, <1>3, <2>1 DEF TypeOK, BelowCap, tableVars, workerVars
  <2>3. \A t \in Task : Advances(t)
    BY <2>1 DEF Advances, tableVars
  <2>4. \A w \in Worker : WorkerInv(w)'
    BY <1>1, <1>2, <1>3, <2>1, <2>2, <2>3, WorkerKept DEF tableVars
  <2> QED
    BY <2>2, <2>4 DEF IInv
<1>5. ASSUME NEW t \in Task, Schedule(t) PROVE IInv'
  <2>1. /\ row' \in [Task -> Row] /\ BelowCap' /\ now' = now
        /\ done' \in [Task -> SUBSET Nat] /\ failed' \in [Task -> SUBSET Nat]
        /\ \A u \in Task : Advances(u) /\ (u # t => row'[u] = row[u])
    BY <1>3, <1>5, ContractStep
  <2>2. TypeOK' /\ now' >= now
    BY <1>1, <1>3, <2>1 DEF TypeOK, workerVars
  <2>3. row[t].state = "unborn"
    BY <1>5 DEF Schedule
  <2>4. ASSUME NEW w \in Worker PROVE WorkerInv(w)'
    <3>1. pc[w] \in {"claimed", "running", "settle", "commit"} =>
            work[w].id \in Task /\ work[w].id # t
      BY <1>2, <2>3 DEF WorkerInv, AttemptInv, CurrentOrPast, Attempt
    <3>2. pc[w] \in {"claimed", "running", "settle", "commit"} =>
            (holder'[work[w].id] = Live(w) =>
               holder[work[w].id] = Live(w) /\ row'[work[w].id] = row[work[w].id])
      BY <1>1, <2>1, <3>1
    <3> QED
      BY <1>2, <1>3, <2>1, <2>2, <3>2, WorkerKept
  <2> QED
    BY <2>1, <2>2, <2>4 DEF IInv
<1> QED
  BY <1>4, <1>5 DEF Environment
----------------------------------------------------------------------------
LEMMA SchedulerInitInv == SchedulerInit => IInv
<1> SUFFICES ASSUME SchedulerInit PROVE IInv
  OBVIOUS
<1>1. ContractTypeOK /\ \A t \in Task : SettledInv(t)
  BY InitCInv DEF SchedulerInit, CInv
<1>2. TypeOK
  BY <1>1 DEF SchedulerInit, TypeOK, ContractTypeOK, PC, Result
<1>3. BelowCap
  BY <1>1, TableAssumption DEF BelowCap, SettledInv
<1>4. \A w \in Worker : WorkerInv(w)
  BY <1>1 DEF SchedulerInit, ContractTypeOK, WorkerInv, Stable, AttemptInv, DeferredInv
<1> QED
  BY <1>2, <1>3, <1>4 DEF IInv

LEMMA SchedulerNextInv == IInv /\ [SchedulerNext]_vars => IInv'
<1> SUFFICES ASSUME IInv, [SchedulerNext]_vars PROVE IInv'
  OBVIOUS
<1>1. CASE UNCHANGED vars
  BY <1>1 DEF vars, workerVars, IInv, TypeOK, BelowCap, WorkerInv, Stable, AttemptInv,
       DeferredInv, Deferrable, CurrentOrPast, AsClaimed, Alive, Live
<1>2. CASE Environment
  BY <1>2, EnvironmentInv
<1>3. CASE \E t \in Task : OrphanEnds(t)
  BY <1>3, SessionEndsInv
<1>4. ASSUME NEW w \in Worker, Cycle(w) PROVE IInv'
  BY <1>4, StartCycleInv, DrainAppliedInv, DrainMissedInv, ProbeInv, DiscoverInv,
     ClaimInv, SkipInv, SettleUnregisteredInv, StartHandlerInv, UnsettledInv,
     SettleInv, CommitInv DEF Cycle
<1>5. ASSUME NEW w \in Worker, HandlerReturns(w) \/ Breach(w) PROVE IInv'
  BY <1>5, HandlerReturnsInv, BreachInv
<1>6. ASSUME NEW w \in Worker, Noticed(w) PROVE IInv'
  BY <1>6, AbortedInv, UnsettledInv DEF Noticed
<1>7. ASSUME NEW w \in Worker, Faulty(w) PROVE IInv'
  BY <1>7, DrainAckLostInv, AbortedInv, UnsettledInv, SettleUnregisteredInv,
     CommitInv, SessionEndsInv, CrashInv DEF Faulty
<1> QED
  BY <1>1, <1>2, <1>3, <1>4, <1>5, <1>6, <1>7 DEF SchedulerNext

\* Whatever the workers, the tasks, the retry policy and the number of
\* faults: the scheduler's inductive invariant, type correctness included.
THEOREM SchedulerInvariant == SchedulerSpec => []IInv
<1> QED
  BY SchedulerInitInv, SchedulerNextInv, PTL DEF SchedulerSpec

\* While an attempt's transaction is alive, its row is what the claim read.
THEOREM ClaimsAreStable == SchedulerSpec => []ClaimedRowIsStable
<1>1. IInv => ClaimedRowIsStable
  BY DEF IInv, WorkerInv, ClaimedRowIsStable
<1> QED
  BY <1>1, SchedulerInvariant, PTL

\* The guard of a deferred settlement is sufficient: the row is the claimed
\* occurrence, failure count included, or it has moved on for good.
THEOREM DeferredSettlementsAreSafe == SchedulerSpec => []DeferredIsCurrentOrPast
<1>1. IInv => DeferredIsCurrentOrPast
  BY DEF IInv, WorkerInv, DeferredInv, Deferrable, DeferredIsCurrentOrPast
<1> QED
  BY <1>1, SchedulerInvariant, PTL
----------------------------------------------------------------------------
(* Refinement: every step of the workers is a verdict, or nothing at all *)

LEMMA StepRefines == IInv /\ [SchedulerNext]_vars => [Next]_contractVars
<1> SUFFICES ASSUME IInv, [SchedulerNext]_vars PROVE [Next]_contractVars
  OBVIOUS
<1>1. CASE UNCHANGED vars
  BY <1>1 DEF vars, contractVars
<1>2. CASE Environment
  BY <1>2 DEF Environment, Next
<1>3. CASE \E t \in Task : OrphanEnds(t)
  BY <1>3 DEF OrphanEnds, tableVars, contractVars
<1>4. ASSUME NEW w \in Worker, DrainApplied(w) \/ DrainAckLost(w)
      PROVE  [Next]_contractVars
  BY <1>4, DrainUpdateIsFail DEF DrainApplied, DrainAckLost, Next
<1>5. ASSUME NEW w \in Worker, SettleUnregistered(w) \/ SettleUnregisteredAckLost(w)
      PROVE  [Next]_contractVars
  BY <1>5, PostponeIsRefuse DEF SettleUnregistered, SettleUnregisteredAckLost, Next
<1>6. ASSUME NEW w \in Worker, CommitAcked(w) \/ CommitAckLost(w)
      PROVE  [Next]_contractVars
  BY <1>6, CommitIsVerdict DEF CommitAcked, CommitAckLost, Next
<1>7. ASSUME NEW w \in Worker,
             \/ StartCycle(w) \/ DrainMissed(w) \/ Probe(w) \/ Discover(w)
             \/ Claim(w) \/ Skip(w) \/ StartHandler(w)
             \/ Terminate(w) \/ Settle(w) \/ SettlePanicBusy(w)
             \/ HandlerReturns(w) \/ Breach(w)
             \/ ClaimedFails(w) \/ SettleFails(w) \/ CommitFails(w)
             \/ DrainFails(w) \/ BeginFails(w) \/ TerminateFails(w)
             \/ BackendDies(w) \/ Crash(w)
      PROVE  [Next]_contractVars
  <2>1. UNCHANGED <<now, tableVars>>
    BY <1>7 DEF StartCycle, DrainMissed, Probe, Discover, Claim, Skip, StartHandler,
         Terminate, Settle, SettlePanicBusy, HandlerReturns, Breach, ClaimedFails,
         SettleFails, CommitFails, DrainFails, BeginFails, TerminateFails,
         BackendDies, Crash
  <2> QED
    BY <2>1 DEF tableVars, contractVars
<1> QED
  BY <1>1, <1>2, <1>3, <1>4, <1>5, <1>6, <1>7
     DEF SchedulerNext, Cycle, Noticed, Faulty

\* Any number of workers implement the contract: each occurrence gets one
\* verdict, in one step, at or after the instant it is due.
THEOREM SchedulerImplementsContract == SchedulerSpec => ImplementsContract
<1>1. SchedulerInit => Init
  BY DEF SchedulerInit
<1> QED
  BY <1>1, StepRefines, SchedulerInvariant, PTL DEF SchedulerSpec, ImplementsContract, Spec

\* So no occurrence has two verdicts, no failure is counted twice, and no row
\* ends before its type and its history allow, in the scheduler itself.
THEOREM SchedulerIsSound == SchedulerSpec => []VerdictsAreSound
<1> QED
  BY SchedulerImplementsContract, ContractIsSound, PTL DEF ImplementsContract
=============================================================================
