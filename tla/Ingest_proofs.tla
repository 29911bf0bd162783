--------------------------- MODULE Ingest_proofs ----------------------------
(***************************************************************************)
(* The proof of Ingest's inductive invariant, for any sets of updates and  *)
(* loops and any bounds, and the safety properties that follow from it.    *)
(***************************************************************************)
EXTENDS Ingest, FiniteSetTheorems, TLAPS

USE IngestAssumption

\* What getUpdates returns leaves no gap: an issued update older than one in
\* the answer is in the answer, or below an offset the answer starts from.
LEMMA AnswerIsGapless ==
  ASSUME TypeOK, NEW from \in Nat,
         NEW u \in Answer(from), NEW v \in arrived, v < u
  PROVE  v \in Answer(from) \/ v < from \/ v < confirmed
<1> DEFINE known == {x \in arrived : x >= from /\ x >= confirmed}
           Below(x) == {y \in known : y < x}
<1>0. arrived \subseteq Nat /\ confirmed \in Nat  BY DEF TypeOK
<1>1. u \in known /\ u \in Nat /\ v \in Nat /\ Cardinality(Below(u)) < BatchLimit
  BY <1>0 DEF Answer
<1> SUFFICES ASSUME v >= from, v >= confirmed  PROVE v \in Answer(from)
  BY <1>0, <1>1
<1>2. v \in known  BY <1>0
<1>3. \A y \in known : y \in Nat  BY <1>0
<1>4. Below(v) \subseteq Below(u)
  <2>1. ASSUME NEW y \in known, y < v PROVE y < u
    BY <1>3, <1>1, <2>1
  <2> HIDE DEF known
  <2> QED  BY <2>1
<1>5. IsFiniteSet(Below(u))
  <2>0. ASSUME NEW y \in known, y < u PROVE y \in 0..(u - 1)
    BY <1>3, <1>1, <2>0
  <2> HIDE DEF known
  <2>1. Below(u) \subseteq 0..(u - 1)  BY <2>0
  <2>2. IsFiniteSet(0..(u - 1))  BY <1>1, FS_Interval
  <2> QED  BY <2>1, <2>2, FS_Subset
<1>6. Cardinality(Below(v)) <= Cardinality(Below(u))
  BY <1>4, <1>5, FS_Subset
<1>7. Cardinality(Below(v)) < BatchLimit
  <2>1. IsFiniteSet(Below(v))  BY <1>4, <1>5, FS_Subset
  <2>2. Cardinality(Below(v)) \in Nat /\ Cardinality(Below(u)) \in Nat
    BY <2>1, <1>5, FS_CardinalityType
  <2> QED  BY <1>1, <1>6, <2>2
<1> QED  BY <1>2, <1>7 DEF Answer

LEMMA AnswerIsKnown == ASSUME NEW from  PROVE Answer(from) \subseteq arrived
BY DEF Answer

LEMMA InitIngestInv == Init => IngestInv
<1> SUFFICES ASSUME Init PROVE IngestInv  OBVIOUS
<1>1. TypeOK  BY DEF Init, TypeOK, PC
<1>2. OffsetInv  BY DEF Init, OffsetInv
<1>3. ASSUME NEW l \in Loop PROVE BatchInv(l) /\ AttemptInv(l)
  BY DEF Init, BatchInv, AttemptInv
<1>4. \A u \in Keyed : effects[u] <= 1  BY DEF Init
<1> QED  BY <1>1, <1>2, <1>3, <1>4 DEF IngestInv

----------------------------------------------------------------------------
(* Steps of one loop: what it does to the offset and the batches *)

\* The other loops are left alone.
Others(l) == \A m \in Loop \ {l} :
  /\ pc'[m] = pc[m] /\ transmit'[m] = transmit[m]
  /\ batch'[m] = batch[m] /\ attempt'[m] = attempt[m]

\* A step that settles the head of the batch, whatever becomes of the batch.
LEMMA SettlingStep ==
  ASSUME IngestInv, TypeOK', NEW l \in Loop, NEW u \in batch[l], IsHead(l, u),
         Advance(u), UNCHANGED serverVars,
         \A v \in Update : Settled(v) => Settled(v)',
         Settled(u)',
         Others(l), transmit'[l] = transmit[l],
         batch'[l] \in {batch[l], batch[l] \ {u}, {}}
  PROVE  OffsetInv' /\ \A m \in Loop : BatchInv(m)'
<1> DEFINE S(v) == Settled(v)
           T(v) == Settled(v)'
<1>0. /\ arrived \subseteq Update /\ arrived' = arrived /\ confirmed' = confirmed
      /\ Update \subseteq Nat /\ offset \in Nat /\ u \in Nat /\ confirmed \in Nat
      /\ u \in arrived
  BY DEF IngestInv, TypeOK, BatchInv, serverVars
<1>1. offset' \in Nat /\ offset' >= offset /\ offset' \in {offset, u + 1}
  BY <1>0 DEF Advance
<1>2. \A v \in arrived : v < offset => T(v)
  BY <1>0 DEF IngestInv, OffsetInv
<1>3. ASSUME NEW v \in arrived, v < u PROVE T(v)
  <2>0. v \in Nat /\ u \in Nat  BY <1>0
  <2>1. v \notin batch[l]  BY <1>3, <2>0 DEF IsHead
  <2>2. S(v)  BY <2>1, <1>3 DEF IngestInv, BatchInv
  <2> QED  BY <2>2, <1>0
<1>4. ASSUME NEW v \in arrived', v < offset' PROVE T(v)
  BY <1>0, <1>1, <1>2, <1>3, <1>4 DEF Settled
<1>5. offset' = 0 \/ \E v \in arrived' : v + 1 = offset'
  BY <1>0, <1>1 DEF IngestInv, OffsetInv
<1>6. confirmed' <= offset'
  BY <1>0, <1>1 DEF IngestInv, OffsetInv
<1>7. OffsetInv'  BY <1>4, <1>5, <1>6 DEF OffsetInv
<1>8. ASSUME NEW m \in Loop PROVE BatchInv(m)'
  <2>1. transmit'[m] = transmit[m]  BY DEF Others
  <2>2. transmit[m] \in Nat /\ transmit[m] <= offset  BY DEF IngestInv, TypeOK, BatchInv
  <2>3. batch'[m] \in {batch[m], batch[m] \ {u}, {}}  BY DEF Others
  <2>4. batch[m] \subseteq arrived  BY DEF IngestInv, BatchInv
  <2>5. ASSUME NEW x \in batch'[m], NEW v \in arrived', v < x
        PROVE  v \in batch'[m] \/ T(v)
    <3>1. v \in batch[m] \/ S(v)  BY <2>3, <2>4, <2>5, <1>0 DEF IngestInv, BatchInv
    <3>2. CASE S(v)  BY <3>2, <1>0
    <3>3. CASE v \in batch[m]  BY <3>3, <2>3, <2>5
    <3> QED  BY <3>1, <3>2, <3>3
  <2>6. transmit'[m] <= offset'  BY <2>1, <2>2, <1>0, <1>1
  <2>7. batch'[m] \subseteq arrived'  BY <2>3, <2>4, <1>0
  <2> QED  BY <2>5, <2>6, <2>7 DEF BatchInv
<1> QED  BY <1>7, <1>8

\* A step that leaves the database alone, and fetches nothing.
LEMMA QuietStep ==
  ASSUME IngestInv, NEW l \in Loop, UNCHANGED <<arrived, dbVars>>,
         confirmed' \in {confirmed, Forgotten(l)},
         Others(l), transmit'[l] \in {transmit[l], offset},
         batch'[l] \in {batch[l], {}}
  PROVE  OffsetInv' /\ \A m \in Loop : BatchInv(m)'
<1>0. /\ arrived' = arrived /\ offset' = offset /\ effects' = effects /\ dead' = dead
      /\ offset \in Nat /\ transmit[l] <= offset /\ confirmed <= offset
  BY DEF IngestInv, TypeOK, BatchInv, OffsetInv, dbVars
<1>1. confirmed' <= offset'  BY <1>0 DEF Forgotten
<1>2. OffsetInv'  BY <1>0, <1>1 DEF IngestInv, OffsetInv, Settled
<1>3. ASSUME NEW m \in Loop PROVE BatchInv(m)'
  <2>1. BatchInv(m)  BY DEF IngestInv
  <2>2. transmit'[m] \in {transmit[m], offset} /\ batch'[m] \in {batch[m], {}}
    BY DEF Others
  <2> QED  BY <1>0, <2>1, <2>2 DEF BatchInv, Settled
<1> QED  BY <1>2, <1>3

\* A step after which the loop is at no point that says anything of effects.
LEMMA AttemptsElsewhere ==
  ASSUME IngestInv, NEW l \in Loop, UNCHANGED effects, Others(l),
         pc'[l] \notin {"commit", "replay"},
         pc'[l] # "giveup" => attempt'[l] < RetryMaxAttempts
  PROVE  \A m \in Loop : AttemptInv(m)'
<1> SUFFICES ASSUME NEW m \in Loop PROVE AttemptInv(m)'  OBVIOUS
<1>1. CASE m = l  BY <1>1 DEF AttemptInv
<1>2. CASE m # l
  <2>1. AttemptInv(m)  BY DEF IngestInv
  <2>2. pc'[m] = pc[m] /\ batch'[m] = batch[m] /\ attempt'[m] = attempt[m]
    BY <1>2 DEF Others
  <2>3. ASSUME NEW k \in Loop, NEW u, pc'[k] = "commit", IsHead(k, u)'
        PROVE  pc[k] = "commit" /\ IsHead(k, u)
    BY <2>3 DEF Others, IsHead
  <2> QED  BY <2>1, <2>2, <2>3 DEF AttemptInv, IsHead
<1> QED  BY <1>1, <1>2

\* The four parts of the invariant, put together.
LEMMA Assemble ==
  ASSUME TypeOK', OffsetInv', \A m \in Loop : BatchInv(m)', \A m \in Loop : AttemptInv(m)',
         \A u \in Keyed : effects'[u] <= 1
  PROVE  IngestInv'
BY DEF IngestInv

----------------------------------------------------------------------------
(* The environment *)

LEMMA ArriveInv == ASSUME IngestInv, NEW u \in Update, Arrive(u) PROVE IngestInv'
<1> USE DEF Arrive, dbVars, loopVars
<1>0. TypeOK /\ OffsetInv /\ arrived' = arrived \cup {u}
  BY DEF IngestInv
<1>1. TypeOK'  BY <1>0 DEF TypeOK
<1>2. offset <= u
  <2>1. offset \in Nat /\ u \in Nat /\ arrived \subseteq Nat  BY <1>0 DEF TypeOK
  <2>2. CASE offset = 0  BY <2>1, <2>2
  <2>3. CASE offset # 0
    <3>1. PICK x \in arrived : x + 1 = offset  BY <1>0, <2>3 DEF OffsetInv
    <3>2. x < u  OBVIOUS
    <3> QED  BY <2>1, <3>1, <3>2
  <2> QED  BY <2>2, <2>3
<1>3. OffsetInv'
  <2>1. \A v \in arrived' : v < offset => v \in arrived
    <3>1. u \in Nat /\ offset \in Nat  BY <1>0 DEF TypeOK
    <3> QED  BY <1>0, <1>2, <3>1
  <2> QED  BY <1>0, <2>1 DEF OffsetInv, Settled
<1>4. ASSUME NEW m \in Loop PROVE BatchInv(m)'
  <2>1. BatchInv(m)  BY DEF IngestInv
  <2>2. ASSUME NEW x \in batch[m], NEW v \in arrived', v < x
        PROVE  v \in arrived
    <3>1. x \in arrived /\ x \in Nat /\ u \in Nat  BY <2>1, <1>0 DEF BatchInv, TypeOK
    <3>2. x < u  BY <3>1
    <3> QED  BY <1>0, <2>2, <3>1, <3>2
  <2> QED  BY <2>1, <2>2, <1>0 DEF BatchInv, Settled
<1>5. ASSUME NEW m \in Loop PROVE AttemptInv(m)'
  <2>1. AttemptInv(m)  BY DEF IngestInv
  <2> QED  BY <2>1 DEF AttemptInv, IsHead
<1>6. \A x \in Keyed : effects'[x] <= 1  BY DEF IngestInv
<1> QED  BY <1>1, <1>3, <1>4, <1>5, <1>6, Assemble

----------------------------------------------------------------------------
(* The steps that leave the database alone *)

\* Where the step takes the loop: what it says of effects there is nothing.
Lands(l) == \E p \in PC \ {"commit", "replay"}, a \in 0..RetryMaxAttempts :
  /\ pc' = [pc EXCEPT ![l] = p] /\ attempt' = [attempt EXCEPT ![l] = a]
  /\ p # "giveup" => a < RetryMaxAttempts

Quiet(l) ==
  /\ UNCHANGED <<arrived, offset, effects, dead>>
  /\ confirmed' \in {confirmed, Forgotten(l)}
  /\ faults' \in {faults, faults + 1}
  /\ transmit' \in {transmit, [transmit EXCEPT ![l] = offset]}
  /\ batch' \in {batch, [batch EXCEPT ![l] = {}]}
  /\ stopping' \in [Loop -> BOOLEAN]
  /\ Lands(l)

LEMMA QuietInv == ASSUME IngestInv, NEW l \in Loop, Quiet(l) PROVE IngestInv'
<1>0. TypeOK  BY DEF IngestInv
<1>1. PICK p \in PC \ {"commit", "replay"}, a \in 0..RetryMaxAttempts :
        /\ pc' = [pc EXCEPT ![l] = p] /\ attempt' = [attempt EXCEPT ![l] = a]
        /\ p # "giveup" => a < RetryMaxAttempts
  BY DEF Quiet, Lands
<1>2. TypeOK'
  <2>1. /\ arrived' \subseteq Update /\ offset' \in Nat
        /\ effects' \in [Update -> Nat] /\ dead' \in [Update -> Nat]
    BY <1>0 DEF TypeOK, Quiet
  <2>2. confirmed' \in Nat /\ faults' \in Nat  BY <1>0 DEF TypeOK, Quiet, Forgotten
  <2>3. pc' \in [Loop -> PC] /\ attempt' \in [Loop -> 0..RetryMaxAttempts]
    BY <1>0, <1>1 DEF TypeOK
  <2>4. /\ transmit' \in [Loop -> Nat] /\ batch' \in [Loop -> SUBSET Update]
        /\ stopping' \in [Loop -> BOOLEAN]
    BY <1>0 DEF TypeOK, Quiet
  <2> QED  BY <2>1, <2>2, <2>3, <2>4 DEF TypeOK
<1>3. Others(l)  BY <1>0, <1>1 DEF TypeOK, Quiet, Others
<1>4. /\ transmit'[l] \in {transmit[l], offset} /\ batch'[l] \in {batch[l], {}}
      /\ pc'[l] \notin {"commit", "replay"}
      /\ pc'[l] # "giveup" => attempt'[l] < RetryMaxAttempts
  BY <1>0, <1>1 DEF TypeOK, Quiet
<1>5. UNCHANGED <<arrived, dbVars>> /\ confirmed' \in {confirmed, Forgotten(l)}
  BY DEF Quiet, dbVars
<1>6. OffsetInv' /\ \A m \in Loop : BatchInv(m)'  BY <1>3, <1>4, <1>5, QuietStep
<1>7. \A m \in Loop : AttemptInv(m)'  BY <1>3, <1>4, AttemptsElsewhere DEF Quiet
<1>8. \A u \in Keyed : effects'[u] <= 1  BY DEF IngestInv, Quiet
<1> QED  BY <1>2, <1>6, <1>7, <1>8, Assemble

\* Which steps these are.
QuietAction(l) ==
  \/ ReadOffset(l) \/ PollDiscarded(l) \/ PollFails(l) \/ SettleUnroutedFails(l)
  \/ Dispatch(l) \/ Backoff(l) \/ HandlerFails(l) \/ AttemptFails(l)
  \/ GiveUpFails(l) \/ Return(l) \/ Crash(l)

LEMMA QuietActions == ASSUME IngestInv, NEW l \in Loop, QuietAction(l) PROVE Quiet(l)
<1>0. TypeOK /\ AttemptInv(l)  BY DEF IngestInv
<1>a. /\ pc \in [Loop -> PC] /\ attempt \in [Loop -> 0..RetryMaxAttempts]
      /\ stopping \in [Loop -> BOOLEAN] /\ faults \in Nat
  BY <1>0 DEF TypeOK
<1>b. ASSUME pc[l] # "giveup", UNCHANGED attempt,
             NEW p \in PC \ {"commit", "replay"}, pc' = [pc EXCEPT ![l] = p]
      PROVE  Lands(l)
  <2>1. attempt[l] < RetryMaxAttempts  BY <1>0, <1>b DEF AttemptInv
  <2>2. attempt' = [attempt EXCEPT ![l] = attempt[l]]  BY <1>a, <1>b
  <2>3. attempt[l] \in 0..RetryMaxAttempts  BY <1>a
  <2> QED  BY <1>b, <2>1, <2>2, <2>3 DEF Lands
<1>c. ASSUME attempt' = [attempt EXCEPT ![l] = 0],
             NEW p \in PC \ {"commit", "replay", "giveup"}, pc' = [pc EXCEPT ![l] = p]
      PROVE  Lands(l)
  <2>1. 0 \in 0..RetryMaxAttempts /\ 0 < RetryMaxAttempts  OBVIOUS
  <2> QED  BY <1>c, <2>1 DEF Lands
<1>d. ASSUME pc[l] # "giveup", AttemptSpent(l)  PROVE Lands(l)
  <2>1. attempt[l] < RetryMaxAttempts /\ attempt[l] \in Nat
    BY <1>0, <1>a, <1>d DEF AttemptInv
  <2> DEFINE a == attempt[l] + 1
             p == IF a = RetryMaxAttempts THEN "giveup" ELSE "wait"
  <2>2. a \in 0..RetryMaxAttempts /\ (p # "giveup" => a < RetryMaxAttempts)
    BY <2>1
  <2>3. p \in PC \ {"commit", "replay"}  BY DEF PC
  <2>4. pc' = [pc EXCEPT ![l] = p] /\ attempt' = [attempt EXCEPT ![l] = a]
    BY <1>d DEF AttemptSpent, Goto
  <2> HIDE DEF a, p
  <2> QED  BY <2>2, <2>3, <2>4 DEF Lands
<1>e. {"idle", "poll", "attempt", "stopped"} \subseteq PC \ {"commit", "replay", "giveup"}
  BY DEF PC
<1>1. CASE ReadOffset(l)
  <2>1. Lands(l)  BY <1>1, <1>b, <1>e DEF ReadOffset, Goto
  <2> QED  BY <1>1, <1>a, <2>1 DEF ReadOffset, Quiet, serverVars, dbVars
<1>2. CASE PollDiscarded(l)
  <2>1. Lands(l)  BY <1>2, <1>c, <1>e DEF PollDiscarded, AbortBatch, Goto
  <2> QED  BY <1>2, <1>a, <2>1 DEF PollDiscarded, AbortBatch, Quiet, dbVars
<1>3. CASE PollFails(l)
  <2>1. Lands(l)  BY <1>3, <1>c, <1>e DEF PollFails, AbortBatch, Goto
  <2> QED  BY <1>3, <1>a, <2>1 DEF PollFails, Fault, AbortBatch, Quiet, dbVars
<1>4. CASE SettleUnroutedFails(l)
  <2>1. Lands(l)  BY <1>4, <1>c, <1>e DEF SettleUnroutedFails, AbortBatch, Goto
  <2> QED  BY <1>4, <1>a, <2>1 DEF SettleUnroutedFails, Fault, AbortBatch, Quiet, serverVars, dbVars
<1>5. CASE Dispatch(l)
  <2>1. Lands(l)  BY <1>5, <1>b, <1>e DEF Dispatch, Goto
  <2> QED  BY <1>5, <1>a, <2>1 DEF Dispatch, Quiet, serverVars, dbVars
<1>6. CASE Backoff(l)
  <2>1. Lands(l)  BY <1>6, <1>b, <1>e DEF Backoff, Goto
  <2> QED  BY <1>6, <1>a, <2>1 DEF Backoff, Quiet, serverVars, dbVars
<1>7. CASE HandlerFails(l)
  <2>1. Lands(l)  BY <1>7, <1>d DEF HandlerFails
  <2> QED  BY <1>7, <1>a, <2>1 DEF HandlerFails, AttemptSpent, Quiet, serverVars, dbVars
<1>8. CASE AttemptFails(l)
  <2>1. Lands(l)  BY <1>8, <1>d DEF AttemptFails
  <2> QED  BY <1>8, <1>a, <2>1 DEF AttemptFails, Fault, AttemptSpent, Quiet, serverVars, dbVars
<1>9. CASE GiveUpFails(l)
  <2>1. Lands(l)  BY <1>9, <1>c, <1>e DEF GiveUpFails, AbortBatch, Goto
  <2> QED  BY <1>9, <1>a, <2>1 DEF GiveUpFails, Fault, AbortBatch, Quiet, serverVars, dbVars
<1>10. CASE Return(l)
  <2>1. Lands(l)  BY <1>10, <1>b, <1>e DEF Return, Goto
  <2> QED  BY <1>10, <1>a, <2>1 DEF Return, Quiet, serverVars, dbVars
<1>11. CASE Crash(l)
  <2>1. Lands(l)  BY <1>11, <1>c, <1>e DEF Crash, Goto
  <2>2. stopping' \in [Loop -> BOOLEAN] /\ confirmed' \in {confirmed, Forgotten(l)}
    BY <1>11, <1>a DEF Crash
  <2> QED  BY <1>11, <1>a, <2>1, <2>2 DEF Crash, Fault, Quiet, dbVars
<1> QED  BY <1>1, <1>2, <1>3, <1>4, <1>5, <1>6, <1>7, <1>8, <1>9, <1>10, <1>11 DEF QuietAction

\* Stop changes nothing the invariant speaks of.
LEMMA StopInv == ASSUME IngestInv, NEW l \in Loop, Stop(l) PROVE IngestInv'
<1> USE DEF Stop, serverVars, dbVars
<1>1. TypeOK'  BY DEF IngestInv, TypeOK
<1>2. OffsetInv'  BY DEF IngestInv, OffsetInv, Settled
<1>3. ASSUME NEW m \in Loop PROVE BatchInv(m)' /\ AttemptInv(m)'
  BY DEF IngestInv, BatchInv, AttemptInv, IsHead, Settled
<1>4. \A u \in Keyed : effects'[u] <= 1  BY DEF IngestInv
<1> QED  BY <1>1, <1>2, <1>3, <1>4 DEF IngestInv

----------------------------------------------------------------------------
(* Fetching *)

LEMMA GetUpdatesInv == ASSUME IngestInv, NEW l \in Loop, GetUpdates(l) PROVE IngestInv'
<1> DEFINE got == Answer(transmit[l])
           p == IF got = {} THEN "idle" ELSE "dispatch"
<1>0. TypeOK /\ OffsetInv /\ BatchInv(l) /\ AttemptInv(l)  BY DEF IngestInv
<1>1. /\ arrived' = arrived /\ offset' = offset /\ effects' = effects /\ dead' = dead
      /\ faults' = faults /\ transmit' = transmit /\ attempt' = attempt /\ stopping' = stopping
      /\ confirmed' = Forgotten(l) /\ batch' = [batch EXCEPT ![l] = got]
      /\ pc[l] = "poll" /\ pc' = [pc EXCEPT ![l] = p]
  BY DEF GetUpdates, Goto, dbVars
<1>2. /\ transmit[l] \in Nat /\ transmit[l] <= offset
      /\ offset \in Nat /\ confirmed \in Nat /\ confirmed <= offset
      /\ arrived \subseteq Update /\ Update \subseteq Nat
  BY <1>0 DEF TypeOK, OffsetInv, BatchInv
<1>3. got \subseteq arrived  BY AnswerIsKnown
<1>4. ASSUME NEW u \in got, NEW v \in arrived, v < u  PROVE v \in got \/ Settled(v)
  <2>1. v \in got \/ v < transmit[l] \/ v < confirmed
    BY <1>0, <1>2, <1>4, AnswerIsGapless
  <2>2. v \in Nat  BY <1>2
  <2>3. v \in got \/ v < offset  BY <2>1, <2>2, <1>2
  <2> QED  BY <2>3, <1>0 DEF OffsetInv
<1>5. p \in PC \ {"commit", "replay", "giveup"}  BY DEF PC
<1> HIDE DEF got, p
<1>6. confirmed' \in Nat /\ confirmed' <= offset'  BY <1>1, <1>2 DEF Forgotten
<1>7. TypeOK'
  <2>1. pc' \in [Loop -> PC] /\ batch' \in [Loop -> SUBSET Update]
    BY <1>0, <1>1, <1>2, <1>3, <1>5 DEF TypeOK
  <2> QED  BY <1>0, <1>1, <1>6, <2>1 DEF TypeOK
<1>8. OffsetInv'  BY <1>0, <1>1, <1>6 DEF OffsetInv, Settled
<1>9. Others(l) /\ batch'[l] = got /\ pc'[l] = p  BY <1>0, <1>1 DEF TypeOK, Others
<1>10. ASSUME NEW m \in Loop PROVE BatchInv(m)'
  <2>1. CASE m = l
    BY <2>1, <1>1, <1>2, <1>3, <1>4, <1>9 DEF BatchInv, Settled
  <2>2. CASE m # l
    <3>1. BatchInv(m) /\ batch'[m] = batch[m]  BY <2>2, <1>9 DEF IngestInv, Others
    <3> QED  BY <3>1, <1>1 DEF BatchInv, Settled
  <2> QED  BY <2>1, <2>2
<1>11. attempt'[l] < RetryMaxAttempts  BY <1>0, <1>1 DEF AttemptInv
<1>12. \A m \in Loop : AttemptInv(m)'  BY <1>1, <1>5, <1>9, <1>11, AttemptsElsewhere
<1>13. \A u \in Keyed : effects'[u] <= 1  BY <1>1 DEF IngestInv
<1> QED  BY <1>7, <1>8, <1>10, <1>12, <1>13, Assemble

----------------------------------------------------------------------------
(* Settling the head of a batch *)

Counted(f, g, u) == g \in {f, [f EXCEPT ![u] = @ + 1]}

Settles(l, u) ==
  /\ u \in batch[l] /\ IsHead(l, u) /\ Advance(u)
  /\ UNCHANGED <<arrived, confirmed, transmit, stopping>>
  /\ Counted(effects, effects', u) /\ Counted(dead, dead', u)
  /\ faults' \in {faults, faults + 1}
  /\ batch' \in {batch, [batch EXCEPT ![l] = @ \ {u}], [batch EXCEPT ![l] = {}]}
  /\ Lands(l)
  /\ Settled(u)'

\* The head may be settled, and the batch kept, cut short or dropped: the
\* offset and the batches stay as the invariant has them.
LEMMA SettlesInv ==
  ASSUME IngestInv, NEW l \in Loop, NEW u, Settles(l, u)
  PROVE  TypeOK' /\ Others(l) /\ OffsetInv' /\ \A m \in Loop : BatchInv(m)'
<1>0. TypeOK /\ u \in Update /\ u \in Nat
  BY DEF IngestInv, TypeOK, Settles
<1>1. PICK p \in PC \ {"commit", "replay"}, a \in 0..RetryMaxAttempts :
        pc' = [pc EXCEPT ![l] = p] /\ attempt' = [attempt EXCEPT ![l] = a]
  BY DEF Settles, Lands
<1>2. effects' \in [Update -> Nat] /\ dead' \in [Update -> Nat]
  BY <1>0 DEF TypeOK, Settles, Counted
<1>3. TypeOK'
  <2>1. arrived' \subseteq Update /\ confirmed' \in Nat /\ offset' \in Nat /\ faults' \in Nat
    BY <1>0 DEF TypeOK, Settles, Advance
  <2>2. pc' \in [Loop -> PC] /\ attempt' \in [Loop -> 0..RetryMaxAttempts]
    BY <1>0, <1>1 DEF TypeOK
  <2>3. /\ transmit' \in [Loop -> Nat] /\ batch' \in [Loop -> SUBSET Update]
        /\ stopping' \in [Loop -> BOOLEAN]
    BY <1>0 DEF TypeOK, Settles
  <2> QED  BY <1>2, <2>1, <2>2, <2>3 DEF TypeOK
<1>4. Others(l)  BY <1>0, <1>1 DEF TypeOK, Settles, Others
<1>5. ASSUME NEW v \in Update, Settled(v) PROVE Settled(v)'
  <2>1. effects'[v] >= effects[v] /\ dead'[v] >= dead[v]
    BY <1>0 DEF TypeOK, Settles, Counted
  <2>2. /\ effects[v] \in Nat /\ effects'[v] \in Nat
        /\ dead[v] \in Nat /\ dead'[v] \in Nat
    BY <1>0, <1>2 DEF TypeOK
  <2> QED  BY <1>5, <2>1, <2>2 DEF Settled
<1>6. /\ UNCHANGED serverVars /\ transmit'[l] = transmit[l]
      /\ batch'[l] \in {batch[l], batch[l] \ {u}, {}}
  BY <1>0 DEF TypeOK, Settles, serverVars
<1>7. u \in batch[l] /\ IsHead(l, u) /\ Advance(u) /\ Settled(u)'  BY DEF Settles
<1> QED  BY <1>3, <1>4, <1>5, <1>6, <1>7, SettlingStep

\* Such a step that is no commit of a handler's effects.
LEMMA SettlesWithoutEffects ==
  ASSUME IngestInv, NEW l \in Loop, NEW u, Settles(l, u), UNCHANGED effects
  PROVE  IngestInv'
<1>1. TypeOK' /\ Others(l) /\ OffsetInv' /\ \A m \in Loop : BatchInv(m)'  BY SettlesInv
<1>2. pc'[l] \notin {"commit", "replay"} /\ (pc'[l] # "giveup" => attempt'[l] < RetryMaxAttempts)
  BY DEF Settles, Lands, IngestInv, TypeOK
<1>3. \A m \in Loop : AttemptInv(m)'  BY <1>1, <1>2, AttemptsElsewhere
<1>4. \A v \in Keyed : effects'[v] <= 1  BY DEF IngestInv
<1> QED  BY <1>1, <1>3, <1>4, Assemble

\* Where the three ways to go on after an attempt leave the loop.
LEMMA Landings ==
  ASSUME IngestInv, NEW l \in Loop, NEW u,
         \/ NextUpdate(l, u)
         \/ AbortBatch(l)
         \/ pc[l] # "giveup" /\ AttemptSpent(l)
  PROVE  /\ Lands(l)
         /\ batch' \in {batch, [batch EXCEPT ![l] = @ \ {u}], [batch EXCEPT ![l] = {}]}
         /\ UNCHANGED <<transmit, stopping>>
<1>0. attempt[l] \in 0..RetryMaxAttempts /\ AttemptInv(l)  BY DEF IngestInv, TypeOK
<1>1. ASSUME attempt' = [attempt EXCEPT ![l] = 0],
             NEW p \in {"idle", "dispatch"}, pc' = [pc EXCEPT ![l] = p]
      PROVE  Lands(l)
  <2>1. 0 \in 0..RetryMaxAttempts /\ 0 < RetryMaxAttempts  OBVIOUS
  <2>2. p \in PC \ {"commit", "replay"}  BY DEF PC
  <2> QED  BY <1>1, <2>1, <2>2 DEF Lands
<1>2. CASE NextUpdate(l, u)
  <2> DEFINE p == IF batch[l] = {u} THEN "idle" ELSE "dispatch"
  <2>1. p \in {"idle", "dispatch"}  OBVIOUS
  <2>2. pc' = [pc EXCEPT ![l] = p]  BY <1>2 DEF NextUpdate, Goto
  <2> HIDE DEF p
  <2>3. Lands(l)  BY <1>1, <1>2, <2>1, <2>2 DEF NextUpdate
  <2> QED  BY <1>2, <2>3 DEF NextUpdate
<1>3. CASE AbortBatch(l)
  <2>1. Lands(l)  BY <1>1, <1>3 DEF AbortBatch, Goto
  <2> QED  BY <1>3, <2>1 DEF AbortBatch
<1>4. CASE pc[l] # "giveup" /\ AttemptSpent(l)
  <2> DEFINE a == attempt[l] + 1
             p == IF a = RetryMaxAttempts THEN "giveup" ELSE "wait"
  <2>1. attempt[l] < RetryMaxAttempts  BY <1>0, <1>4 DEF AttemptInv
  <2>2. a \in 0..RetryMaxAttempts /\ (p # "giveup" => a < RetryMaxAttempts)
    BY <1>0, <2>1
  <2>3. p \in PC \ {"commit", "replay"}  BY DEF PC
  <2>4. pc' = [pc EXCEPT ![l] = p] /\ attempt' = [attempt EXCEPT ![l] = a]
    BY <1>4 DEF AttemptSpent, Goto
  <2> HIDE DEF a, p
  <2>5. Lands(l)  BY <2>2, <2>3, <2>4 DEF Lands
  <2> QED  BY <1>4, <2>5 DEF AttemptSpent
<1> QED  BY <1>2, <1>3, <1>4

LEMMA SettleUnroutedInv ==
  ASSUME IngestInv, NEW l \in Loop, SettleUnrouted(l) PROVE IngestInv'
<1>0. TypeOK  BY DEF IngestInv
<1>1. PICK u \in Unrouted :
        /\ IsHead(l, u) /\ Advance(u)
        /\ \/ NextUpdate(l, u) /\ UNCHANGED faults
           \/ AbortBatch(l) /\ Fault
  BY DEF SettleUnrouted
<1>2. UNCHANGED <<arrived, confirmed, effects, dead>>  BY DEF SettleUnrouted, serverVars
<1>3. /\ Lands(l) /\ UNCHANGED <<transmit, stopping>>
      /\ batch' \in {batch, [batch EXCEPT ![l] = @ \ {u}], [batch EXCEPT ![l] = {}]}
  BY <1>1, Landings
<1>4. faults' \in {faults, faults + 1}  BY <1>1 DEF Fault
<1>5. Settles(l, u)
  BY <1>1, <1>2, <1>3, <1>4 DEF Settles, Counted, Settled, IsHead
<1> QED  BY <1>2, <1>5, SettlesWithoutEffects

LEMMA ReplayedInv == ASSUME IngestInv, NEW l \in Loop, Replayed(l) PROVE IngestInv'
<1>1. PICK u \in batch[l] :
        /\ IsHead(l, u) /\ Advance(u)
        /\ \/ NextUpdate(l, u) /\ UNCHANGED faults
           \/ AttemptSpent(l) /\ Fault
  BY DEF Replayed
<1>2. UNCHANGED <<arrived, confirmed, effects, dead>> /\ pc[l] = "replay"
  BY DEF Replayed, serverVars
<1>3. /\ Lands(l) /\ UNCHANGED <<transmit, stopping>>
      /\ batch' \in {batch, [batch EXCEPT ![l] = @ \ {u}], [batch EXCEPT ![l] = {}]}
  BY <1>1, <1>2, Landings
<1>4. faults' \in {faults, faults + 1}  BY <1>1 DEF Fault
<1>5. effects[u] > 0  BY <1>1, <1>2 DEF IngestInv, AttemptInv
<1>6. Settles(l, u)
  BY <1>1, <1>2, <1>3, <1>4, <1>5 DEF Settles, Counted, Settled
<1> QED  BY <1>2, <1>6, SettlesWithoutEffects

LEMMA GiveUpInv == ASSUME IngestInv, NEW l \in Loop, GiveUp(l) PROVE IngestInv'
<1>1. PICK u \in batch[l] :
        /\ IsHead(l, u) /\ Advance(u)
        /\ dead' = [dead EXCEPT ![u] = @ + 1]
        /\ \/ NextUpdate(l, u) /\ UNCHANGED faults
           \/ AbortBatch(l) /\ Fault
  BY DEF GiveUp
<1>2. UNCHANGED <<arrived, confirmed, effects>>  BY DEF GiveUp, serverVars
<1>3. /\ Lands(l) /\ UNCHANGED <<transmit, stopping>>
      /\ batch' \in {batch, [batch EXCEPT ![l] = @ \ {u}], [batch EXCEPT ![l] = {}]}
  BY <1>1, Landings
<1>4. faults' \in {faults, faults + 1}  BY <1>1 DEF Fault
<1>5. dead'[u] > 0  BY <1>1 DEF IngestInv, TypeOK
<1>6. Settles(l, u)
  BY <1>1, <1>2, <1>3, <1>4, <1>5 DEF Settles, Counted, Settled
<1> QED  BY <1>2, <1>6, SettlesWithoutEffects

\* The commit of a handler's effects: no other loop is about to commit the
\* same keyed update, so none is left with a stale view of it.
LEMMA CommitInv == ASSUME IngestInv, NEW l \in Loop, Commit(l) PROVE IngestInv'
<1>0. TypeOK /\ AttemptInv(l)  BY DEF IngestInv
<1>1. PICK u \in batch[l] :
        /\ IsHead(l, u) /\ Advance(u)
        /\ effects' = [effects EXCEPT ![u] = @ + 1]
        /\ \/ NextUpdate(l, u) /\ UNCHANGED faults
           \/ AttemptSpent(l) /\ Fault
  BY DEF Commit
<1>2. UNCHANGED <<arrived, confirmed, dead>> /\ pc[l] = "commit"
  BY DEF Commit, serverVars
<1>3. /\ Lands(l) /\ UNCHANGED <<transmit, stopping>>
      /\ batch' \in {batch, [batch EXCEPT ![l] = @ \ {u}], [batch EXCEPT ![l] = {}]}
  BY <1>1, <1>2, Landings
<1>4. faults' \in {faults, faults + 1}  BY <1>1 DEF Fault
<1>5. u \in Update /\ effects[u] \in Nat /\ effects'[u] = effects[u] + 1
  BY <1>0, <1>1 DEF TypeOK
<1>6. Settles(l, u)
  BY <1>1, <1>2, <1>3, <1>4, <1>5 DEF Settles, Counted, Settled
<1>7. TypeOK' /\ Others(l) /\ OffsetInv' /\ \A m \in Loop : BatchInv(m)'
  BY <1>6, SettlesInv
<1>8. pc'[l] \notin {"commit", "replay"} /\ (pc'[l] # "giveup" => attempt'[l] < RetryMaxAttempts)
  BY <1>3, <1>0 DEF Lands, TypeOK
<1>9. \A v \in Update : effects[v] \in Nat /\ effects'[v] >= effects[v]
                        /\ (v # u => effects'[v] = effects[v])
  BY <1>0, <1>1, <1>5 DEF TypeOK
<1>10. ASSUME NEW m \in Loop PROVE AttemptInv(m)'
  <2>1. CASE m = l  BY <2>1, <1>8 DEF AttemptInv
  <2>2. CASE m # l
    <3>1. AttemptInv(m) /\ batch[m] \subseteq Update  BY <1>0 DEF IngestInv, TypeOK
    <3>2. pc'[m] = pc[m] /\ batch'[m] = batch[m] /\ attempt'[m] = attempt[m]
      BY <1>7, <2>2 DEF Others
    <3>3. \A v : IsHead(m, v)' <=> IsHead(m, v)  BY <3>2 DEF IsHead
    <3>4. pc'[m] # "giveup" => attempt'[m] < RetryMaxAttempts
      BY <3>1, <3>2 DEF AttemptInv
    <3>5. ASSUME pc'[m] = "replay", NEW v \in batch'[m], IsHead(m, v)'
          PROVE  effects'[v] > 0
      <4>1. effects[v] > 0 /\ v \in Update  BY <3>1, <3>2, <3>3, <3>5 DEF AttemptInv
      <4>2. effects'[v] \in Nat /\ effects[v] \in Nat  BY <1>7, <1>9, <4>1 DEF TypeOK
      <4> QED  BY <1>9, <4>1, <4>2
    <3>6. ASSUME pc'[m] = "commit", NEW v \in batch'[m] \cap Keyed, IsHead(m, v)'
          PROVE  /\ effects'[v] = 0
                 /\ \A k \in Loop : pc'[k] = "commit" /\ IsHead(k, v)' => k = m
      <4>1. /\ effects[v] = 0 /\ v \in Update
            /\ \A k \in Loop : pc[k] = "commit" /\ IsHead(k, v) => k = m
        BY <3>1, <3>2, <3>3, <3>6 DEF AttemptInv
      <4>2. v # u  BY <4>1, <1>1, <1>2, <2>2
      <4>3. effects'[v] = 0  BY <1>9, <4>1, <4>2
      <4>4. ASSUME NEW k \in Loop, pc'[k] = "commit", IsHead(k, v)'  PROVE k = m
        <5>1. k # l  BY <4>4, <1>8
        <5>2. pc[k] = "commit" /\ IsHead(k, v)
          BY <4>4, <5>1, <1>7 DEF Others, IsHead
        <5> QED  BY <4>1, <5>2
      <4> QED  BY <4>3, <4>4
    <3> QED  BY <3>4, <3>5, <3>6 DEF AttemptInv
  <2> QED  BY <2>1, <2>2
<1>11. ASSUME NEW v \in Keyed PROVE effects'[v] <= 1
  <2>0. v \in Update /\ effects[v] <= 1  BY DEF IngestInv
  <2>1. CASE v = u
    <3>1. effects[u] = 0  BY <2>1, <1>0, <1>1, <1>2 DEF AttemptInv
    <3> QED  BY <3>1, <2>1, <1>5
  <2>2. CASE v # u  BY <2>0, <2>2, <1>9
  <2> QED  BY <2>1, <2>2
<1> QED  BY <1>7, <1>10, <1>11, Assemble

----------------------------------------------------------------------------
(* What the handler returned *)

\* A batch has one head.
LEMMA OneHead ==
  ASSUME TypeOK, NEW l \in Loop, NEW u, NEW v, IsHead(l, u), IsHead(l, v)  PROVE u = v
BY DEF TypeOK, IsHead

\* The attempt goes on to its COMMIT, or to be settled as a duplicate.
LEMMA HandlerReturns ==
  ASSUME IngestInv, NEW l \in Loop, NEW p \in {"commit", "replay"}, pc[l] = "attempt",
         pc' = [pc EXCEPT ![l] = p],
         UNCHANGED <<serverVars, dbVars, faults, transmit, batch, attempt, stopping>>,
         p = "replay" => \A u \in batch[l] : IsHead(l, u) => effects[u] > 0,
         p = "commit" =>
           \A u \in batch[l] \cap Keyed : IsHead(l, u) =>
             effects[u] = 0 /\ \A m \in Loop : pc[m] = "commit" => ~IsHead(m, u)
  PROVE  IngestInv'
<1> USE DEF serverVars, dbVars
<1>0. TypeOK /\ AttemptInv(l)  BY DEF IngestInv
<1>1. TypeOK'
  <2>1. pc' \in [Loop -> PC]  BY <1>0 DEF TypeOK, PC
  <2> QED  BY <1>0, <2>1 DEF TypeOK
<1>2. Others(l) /\ pc'[l] = p  BY <1>0 DEF TypeOK, Others
<1>3. OffsetInv' /\ \A m \in Loop : BatchInv(m)'  BY <1>2, QuietStep
<1>4. \A m \in Loop : \A u : IsHead(m, u)' <=> IsHead(m, u)  BY DEF IsHead
<1>5. ASSUME NEW m \in Loop PROVE AttemptInv(m)'
  <2>1. CASE m = l
    <3>1. attempt'[m] < RetryMaxAttempts  BY <1>0, <2>1 DEF AttemptInv
    <3>2. pc'[m] = "replay" => \A u \in batch'[m] : IsHead(m, u)' => effects'[u] > 0
      BY <1>2, <1>4, <2>1
    <3>3. ASSUME p = "commit", NEW u \in batch[l] \cap Keyed, IsHead(l, u),
                 NEW k \in Loop, pc'[k] = "commit", IsHead(k, u)'
          PROVE  k = l
      BY <1>0, <1>4, <3>3 DEF TypeOK
    <3> QED  BY <1>2, <1>4, <2>1, <3>1, <3>2, <3>3 DEF AttemptInv
  <2>2. CASE m # l
    <3>1. AttemptInv(m) /\ pc'[m] = pc[m]  BY <1>2, <2>2 DEF IngestInv, Others
    <3>2. ASSUME pc[m] = "commit", NEW u \in batch[m] \cap Keyed, IsHead(m, u),
                 NEW k \in Loop, pc'[k] = "commit", IsHead(k, u)'
          PROVE  k = m
      <4>1. CASE k = l
        <5>1. p = "commit" /\ IsHead(l, u)  BY <1>2, <1>4, <3>2, <4>1
        <5>2. u \in batch[l]  BY <5>1 DEF IsHead
        <5> QED  BY <3>2, <5>1, <5>2
      <4>2. CASE k # l
        <5>1. pc[k] = "commit" /\ IsHead(k, u)  BY <1>2, <1>4, <3>2, <4>2 DEF Others
        <5> QED  BY <3>1, <3>2, <5>1 DEF AttemptInv
      <4> QED  BY <4>1, <4>2
    <3> QED  BY <1>4, <3>1, <3>2 DEF AttemptInv
  <2> QED  BY <2>1, <2>2
<1>6. \A u \in Keyed : effects'[u] <= 1  BY DEF IngestInv
<1> QED  BY <1>1, <1>3, <1>5, <1>6, Assemble

LEMMA HandlerOkInv == ASSUME IngestInv, NEW l \in Loop, HandlerOk(l) PROVE IngestInv'
<1>0. TypeOK  BY DEF IngestInv
<1>1. PICK u \in batch[l] :
        /\ IsHead(l, u)
        /\ u \in Keyed => /\ effects[u] = 0
                          /\ \A m \in Loop : pc[m] = "commit" => ~IsHead(m, u)
  BY DEF HandlerOk
<1>2. \A v \in batch[l] \cap Keyed : IsHead(l, v) =>
        effects[v] = 0 /\ \A m \in Loop : pc[m] = "commit" => ~IsHead(m, v)
  BY <1>0, <1>1, OneHead
<1>3. /\ pc[l] = "attempt" /\ pc' = [pc EXCEPT ![l] = "commit"]
      /\ UNCHANGED <<serverVars, dbVars, faults, transmit, batch, attempt, stopping>>
  BY DEF HandlerOk, Goto
<1> QED  BY <1>2, <1>3, HandlerReturns

LEMMA HandlerDuplicateInv ==
  ASSUME IngestInv, NEW l \in Loop, HandlerDuplicate(l) PROVE IngestInv'
<1>0. TypeOK  BY DEF IngestInv
<1>1. \A v \in batch[l] : IsHead(l, v) => effects[v] > 0
  BY <1>0, OneHead DEF HandlerDuplicate
<1>2. /\ pc[l] = "attempt" /\ pc' = [pc EXCEPT ![l] = "replay"]
      /\ UNCHANGED <<serverVars, dbVars, faults, transmit, batch, attempt, stopping>>
  BY DEF HandlerDuplicate, Goto
<1> QED  BY <1>1, <1>2, HandlerReturns

----------------------------------------------------------------------------
(* The invariant, and what follows from it *)

LEMMA NextIngestInv == ASSUME IngestInv, [Next]_vars PROVE IngestInv'
<1>1. CASE UNCHANGED vars
  <2> USE <1>1 DEF vars, serverVars, dbVars, loopVars
  <2>1. TypeOK' /\ OffsetInv'  BY DEF IngestInv, TypeOK, OffsetInv, Settled
  <2>2. \A l \in Loop : BatchInv(l)' /\ AttemptInv(l)'
    BY DEF IngestInv, BatchInv, AttemptInv, IsHead, Settled
  <2>3. \A u \in Keyed : effects'[u] <= 1  BY DEF IngestInv
  <2> QED  BY <2>1, <2>2, <2>3 DEF IngestInv
<1>2. ASSUME NEW u \in Update, Arrive(u) PROVE IngestInv'  BY <1>2, ArriveInv
<1>3. ASSUME NEW l \in Loop, QuietAction(l) PROVE IngestInv'
  BY <1>3, QuietActions, QuietInv
<1>4. ASSUME NEW l \in Loop, Progress(l) \/ GetUpdates(l) \/ Faulty(l) \/ Stop(l)
      PROVE  IngestInv'
  BY <1>3, <1>4, GetUpdatesInv, StopInv, SettleUnroutedInv, HandlerOkInv,
     HandlerDuplicateInv, CommitInv, ReplayedInv, GiveUpInv
  DEF Progress, Faulty, QuietAction
<1> QED  BY <1>1, <1>2, <1>4 DEF Next

\* What every reachable state satisfies (PollOnce, attemptOnce, advanceOffset).
THEOREM IngestInvariant == Spec => []IngestInv
<1>1. Init => IngestInv  BY InitIngestInv
<1>2. IngestInv /\ [Next]_vars => IngestInv'  BY NextIngestInv
<1> QED  BY <1>1, <1>2, PTL DEF Spec

\* Whatever the offset has passed, or the server has forgotten, was settled:
\* for any number of loops, updates and faults (PollOnce, advanceOffset).
THEOREM NoUpdateIsLost == Spec => []NoUpdateLost
<1>1. ASSUME IngestInv PROVE NoUpdateLost
  <2>1. \A u \in arrived : u \in Nat /\ u \in Update  BY <1>1 DEF IngestInv, TypeOK
  <2>2. offset \in Nat /\ confirmed \in Nat /\ confirmed <= offset
    BY <1>1 DEF IngestInv, TypeOK, OffsetInv
  <2>3. ASSUME NEW u \in arrived, u < offset \/ u < confirmed PROVE Settled(u)
    <3>1. u < offset  BY <2>1, <2>2, <2>3
    <3> QED  BY <1>1, <3>1 DEF IngestInv, OffsetInv
  <2> QED  BY <2>3 DEF NoUpdateLost
<1> QED  BY <1>1, IngestInvariant, PTL

\* A handler that posts under its operation_id takes effect at most once
\* (attemptOnce, ErrAlreadyPosted).
THEOREM KeyedTakesEffectOnce == Spec => []KeyedOnce
<1>1. IngestInv => KeyedOnce  BY DEF IngestInv, KeyedOnce
<1> QED  BY <1>1, IngestInvariant, PTL

LEMMA OffsetStep == ASSUME IngestInv, [Next]_vars PROVE offset' >= offset
<1>0. offset \in Nat /\ batch \in [Loop -> SUBSET Update]  BY DEF IngestInv, TypeOK
<1>1. ASSUME NEW u \in Nat, Advance(u) PROVE offset' >= offset  BY <1>0, <1>1 DEF Advance
<1>2. ASSUME NEW l \in Loop, Progress(l) \/ GetUpdates(l) \/ Faulty(l) \/ Stop(l)
      PROVE  offset' >= offset
  <2>1. CASE QuietAction(l)
    <3>1. offset' = offset  BY <2>1, QuietActions DEF Quiet
    <3> QED  BY <3>1, <1>0
  <2>2. CASE SettleUnrouted(l) \/ Commit(l) \/ Replayed(l) \/ GiveUp(l)
    <3>1. PICK u \in Nat : Advance(u)
      BY <2>2, <1>0 DEF SettleUnrouted, Commit, Replayed, GiveUp
    <3> QED  BY <3>1, <1>1
  <2>3. CASE GetUpdates(l) \/ Stop(l) \/ HandlerOk(l) \/ HandlerDuplicate(l)
    BY <2>3, <1>0 DEF GetUpdates, Stop, HandlerOk, HandlerDuplicate, dbVars
  <2> QED  BY <1>2, <2>1, <2>2, <2>3 DEF Progress, Faulty, QuietAction
<1>3. CASE UNCHANGED vars  BY <1>0, <1>3 DEF vars, dbVars
<1>4. CASE \E u \in Update : Arrive(u)  BY <1>0, <1>4 DEF Arrive, dbVars
<1> QED  BY <1>2, <1>3, <1>4 DEF Next

\* "Two settlements racing can never move the offset backwards"
\* (advanceOffset).
THEOREM OffsetIsMonotone == Spec => OffsetNeverBack
<1>1. IngestInv /\ [Next]_vars => offset' >= offset  BY OffsetStep
<1>2. IngestInv /\ [Next]_vars => [offset' >= offset]_vars  BY <1>1
<1> QED  BY <1>2, IngestInvariant, PTL DEF Spec, OffsetNeverBack

----------------------------------------------------------------------------
(* Fetched updates *)

\* A loop that is not processing holds no batch.
Between == {"idle", "poll", "stopped"}
NoBatchBetween == \A l \in Loop : pc[l] \in Between => batch[l] = {}

\* The steps that neither fetch nor let go of anything.
Keeps(l) ==
  \/ ReadOffset(l) \/ Dispatch(l) \/ Backoff(l) \/ HandlerOk(l) \/ HandlerDuplicate(l)
  \/ HandlerFails(l) \/ AttemptFails(l) \/ Stop(l) \/ Return(l)

LEMMA KeepsBatch == ASSUME NEW l \in Loop, Keeps(l) PROVE batch' = batch
BY DEF Keeps, ReadOffset, Dispatch, Backoff, HandlerOk, HandlerDuplicate, HandlerFails,
  AttemptFails, AttemptSpent, Stop, Return

\* The steps that drop the batch; but for a discarded poll, all are faults.
Drops(l) ==
  \/ PollDiscarded(l) \/ PollFails(l) \/ SettleUnroutedFails(l) \/ GiveUpFails(l) \/ Crash(l)

LEMMA DropsBatch ==
  ASSUME NEW l \in Loop, Drops(l)
  PROVE  /\ batch' = [batch EXCEPT ![l] = {}] /\ pc' = [pc EXCEPT ![l] = "idle"]
         /\ PollDiscarded(l) \/ Fault
BY DEF Drops, PollDiscarded, PollFails, SettleUnroutedFails, GiveUpFails, Crash, AbortBatch, Goto

\* The steps that settle the head.
SettlesHead(l) == SettleUnrouted(l) \/ Commit(l) \/ Replayed(l) \/ GiveUp(l)

LEMMA SettlesHeadCases ==
  ASSUME IngestInv, NEW l \in Loop, SettlesHead(l)
  PROVE  \E u \in Nat :
           /\ Advance(u)
           /\ \/ NextUpdate(l, u)
              \/ AbortBatch(l) /\ Fault
              \/ AttemptSpent(l) /\ Fault
<1>0. batch[l] \subseteq Nat  BY DEF IngestInv, TypeOK
<1>1. CASE SettleUnrouted(l)  BY <1>1 DEF SettleUnrouted
<1>2. CASE Commit(l)  BY <1>0, <1>2 DEF Commit
<1>3. CASE Replayed(l)  BY <1>0, <1>3 DEF Replayed
<1>4. CASE GiveUp(l)  BY <1>0, <1>4 DEF GiveUp
<1> QED  BY <1>1, <1>2, <1>3, <1>4 DEF SettlesHead

\* What a loop's step is, of the above.
LEMMA LoopSteps ==
  ASSUME NEW l \in Loop, Progress(l) \/ GetUpdates(l) \/ Faulty(l) \/ Stop(l)
  PROVE  Keeps(l) \/ Drops(l) \/ SettlesHead(l) \/ GetUpdates(l)
BY DEF Progress, Faulty, Keeps, Drops, SettlesHead

LEMMA NextNoBatchBetween ==
  ASSUME IngestInv, NoBatchBetween, [Next]_vars  PROVE NoBatchBetween'
<1>0. pc \in [Loop -> PC] /\ batch \in [Loop -> SUBSET Update]  BY DEF IngestInv, TypeOK
<1>1. ASSUME UNCHANGED <<pc, batch>> PROVE NoBatchBetween'  BY <1>1 DEF NoBatchBetween
<1>2. ASSUME NEW l \in Loop, Keeps(l) PROVE NoBatchBetween'
  <2>1. batch' = batch  BY <1>2, KeepsBatch
  <2>2. \A m \in Loop : pc'[m] \in Between => pc[m] \in Between
    BY <1>0, <1>2 DEF Between, Keeps, ReadOffset, Dispatch, Backoff, HandlerOk, HandlerDuplicate,
      HandlerFails, AttemptFails, AttemptSpent, Stop, Return, Goto
  <2> QED  BY <2>1, <2>2 DEF NoBatchBetween
<1>3. ASSUME NEW l \in Loop, Drops(l) PROVE NoBatchBetween'
  BY <1>0, <1>3, DropsBatch DEF NoBatchBetween
<1>4. ASSUME NEW l \in Loop, SettlesHead(l) PROVE NoBatchBetween'
  <2>1. PICK u \in Nat :
          NextUpdate(l, u) \/ AbortBatch(l) \/ AttemptSpent(l)
    BY <1>4, SettlesHeadCases
  <2>2. CASE NextUpdate(l, u)
    BY <1>0, <2>2 DEF NextUpdate, Goto, NoBatchBetween, Between
  <2>3. CASE AbortBatch(l)  BY <1>0, <2>3 DEF AbortBatch, Goto, NoBatchBetween
  <2>4. CASE AttemptSpent(l)
    BY <1>0, <2>4 DEF AttemptSpent, Goto, NoBatchBetween, Between
  <2> QED  BY <2>1, <2>2, <2>3, <2>4
<1>5. ASSUME NEW l \in Loop, GetUpdates(l) PROVE NoBatchBetween'
  <2> DEFINE got == Answer(transmit[l])
  <2>1. /\ batch' = [batch EXCEPT ![l] = got]
        /\ pc' = [pc EXCEPT ![l] = IF got = {} THEN "idle" ELSE "dispatch"]
    BY <1>5 DEF GetUpdates, Goto
  <2> HIDE DEF got
  <2> QED  BY <1>0, <2>1 DEF NoBatchBetween, Between
<1>6. CASE UNCHANGED vars  BY <1>1, <1>6 DEF vars, loopVars
<1>7. ASSUME NEW u \in Update, Arrive(u) PROVE NoBatchBetween'
  BY <1>1, <1>7 DEF Arrive, loopVars
<1> QED  BY <1>2, <1>3, <1>4, <1>5, <1>6, <1>7, LoopSteps DEF Next

\* The step that lets go of an update.
LEMMA FetchedStep ==
  ASSUME IngestInv, NoBatchBetween, [Next]_vars,
         NEW l \in Loop, NEW x \in batch[l] \ batch'[l]
  PROVE  x < offset' \/ faults' > faults
<1>0. /\ batch \in [Loop -> SUBSET Update] /\ faults \in Nat /\ offset \in Nat
      /\ x \in Nat
  BY DEF IngestInv, TypeOK
<1>1. ~UNCHANGED batch  OBVIOUS
<1>2. PICK m \in Loop : Drops(m) \/ SettlesHead(m) \/ GetUpdates(m)
  <2>1. ~UNCHANGED vars /\ ~\E u \in Update : Arrive(u)
    BY <1>1 DEF vars, loopVars, Arrive
  <2> QED  BY <1>1, <2>1, LoopSteps, KeepsBatch DEF Next
<1>3. Fault => faults' > faults  BY <1>0 DEF Fault
<1>4. CASE Drops(m)
  <2>1. CASE PollDiscarded(m)
    <3>1. batch[m] = {} /\ batch' = [batch EXCEPT ![m] = {}]
      BY <2>1 DEF PollDiscarded, AbortBatch, NoBatchBetween, Between
    <3> QED  BY <1>0, <3>1
  <2> QED  BY <1>3, <1>4, <2>1, DropsBatch
<1>5. CASE SettlesHead(m)
  <2>1. PICK u \in Nat : Advance(u) /\ (NextUpdate(m, u) \/ Fault)
    BY <1>5, SettlesHeadCases
  <2>2. CASE NextUpdate(m, u)
    <3>1. x = u  BY <1>0, <2>2 DEF NextUpdate
    <3> QED  BY <1>0, <2>1, <3>1 DEF Advance
  <2> QED  BY <1>3, <2>1, <2>2
<1>6. CASE GetUpdates(m)
  <2>1. batch[m] = {} /\ pc[m] = "poll"  BY <1>6 DEF GetUpdates, NoBatchBetween, Between
  <2>2. \A k \in Loop \ {m} : batch'[k] = batch[k]  BY <1>0, <1>6 DEF GetUpdates
  <2> QED  BY <2>1, <2>2
<1> QED  BY <1>2, <1>4, <1>5, <1>6

\* "A Stop that lands mid-batch settles every update already fetched": an
\* update leaves a batch past the offset, or by a failure (PollOnce).
THEOREM FetchedUpdatesAreSettled == Spec => FetchedIsSettled
<1>1. Init => NoBatchBetween  BY DEF Init, NoBatchBetween
<1>2. IngestInv /\ NoBatchBetween /\ [Next]_vars => NoBatchBetween'
  BY NextNoBatchBetween
<1>3. IngestInv /\ NoBatchBetween /\ [Next]_vars =>
        [\A l \in Loop : \A u \in batch[l] \ batch'[l] :
           u < offset' \/ faults' > faults]_vars
  BY FetchedStep
<1> QED  BY <1>1, <1>2, <1>3, IngestInvariant, PTL DEF Spec, FetchedIsSettled

----------------------------------------------------------------------------
(* Give-up rows *)

\* One process runs a loop, as cmd/bot does.
OneLoop == \A k, l \in Loop : k = l

\* A give-up row comes with an offset past its update; nothing at or above the
\* offset the loop asked for has one, and nothing fetched has one yet.
OnceInv ==
  /\ \A u \in Update : dead[u] <= 1 /\ (dead[u] > 0 => u < offset)
  /\ \A l \in Loop : pc[l] = "poll" => transmit[l] = offset
  /\ \A l \in Loop : \A u \in batch[l] : dead[u] = 0

\* A step that writes no give-up row, fetches nothing, and is at a poll only
\* with the offset it then has.
LEMMA NoRowStep ==
  ASSUME OnceInv, TypeOK, offset' \in Nat, offset' >= offset, dead' = dead,
         \A l \in Loop : batch'[l] \subseteq batch[l],
         \A l \in Loop : pc'[l] = "poll" => transmit'[l] = offset'
  PROVE  OnceInv'
<1>1. dead \in [Update -> Nat] /\ offset \in Nat /\ Update \subseteq Nat
  BY DEF TypeOK
<1>2. \A u \in Update : dead'[u] <= 1 /\ (dead'[u] > 0 => u < offset')
  BY <1>1 DEF OnceInv
<1>3. \A l \in Loop : \A u \in batch'[l] : dead'[u] = 0
  BY DEF OnceInv
<1> QED
  BY <1>2, <1>3 DEF OnceInv

\* The steps that leave the database as it is, and are at no poll afterwards.
Passes(l) ==
  \/ Dispatch(l) \/ Backoff(l) \/ HandlerOk(l) \/ HandlerDuplicate(l)
  \/ HandlerFails(l) \/ AttemptFails(l) \/ Return(l)

LEMMA PassesFacts ==
  ASSUME TypeOK, NEW l \in Loop, Passes(l)
  PROVE  UNCHANGED <<offset, dead>> /\ pc'[l] # "poll"
<1>0. pc \in [Loop -> PC]
  BY DEF TypeOK
<1>1. UNCHANGED <<offset, dead>>
  BY DEF Passes, Dispatch, Backoff, HandlerOk, HandlerDuplicate, HandlerFails, AttemptFails, Return, dbVars
<1>2. \E p \in PC \ {"poll"} : pc' = [pc EXCEPT ![l] = p]
  BY DEF Passes, Dispatch, Backoff, HandlerOk, HandlerDuplicate, HandlerFails, AttemptFails, Return,
         AttemptSpent, Goto, PC
<1> QED
  BY <1>0, <1>1, <1>2

LEMMA NextOnceInv ==
  ASSUME OneLoop, IngestInv, OnceInv, [Next]_vars
  PROVE  OnceInv'
<1>0. /\ TypeOK /\ pc \in [Loop -> PC] /\ batch \in [Loop -> SUBSET Update] /\ offset \in Nat
      /\ dead \in [Update -> Nat] /\ transmit \in [Loop -> Nat] /\ Update \subseteq Nat
  BY DEF IngestInv, TypeOK
<1>1. ASSUME UNCHANGED <<offset, dead, pc, transmit, batch>> PROVE OnceInv'
  BY <1>1 DEF OnceInv
<1>2. ASSUME NEW l \in Loop, ReadOffset(l) PROVE OnceInv'
  <2>1. UNCHANGED <<offset, dead, batch>> /\ transmit' = [transmit EXCEPT ![l] = offset]
    BY <1>2 DEF ReadOffset, dbVars
  <2>2. \A k \in Loop : transmit'[k] = offset'
    BY <1>0, <2>1 DEF OneLoop
  <2> QED
    BY <1>0, <2>1, <2>2, NoRowStep
<1>3. ASSUME NEW l \in Loop, Passes(l) PROVE OnceInv'
  <2>1. batch' = batch
    BY <1>3, KeepsBatch DEF Passes, Keeps
  <2>2. UNCHANGED <<offset, dead>> /\ \A k \in Loop : pc'[k] # "poll"
    BY <1>0, <1>3, PassesFacts DEF OneLoop
  <2> QED
    BY <1>0, <2>1, <2>2, NoRowStep
<1>4. ASSUME NEW l \in Loop, Drops(l) PROVE OnceInv'
  <2>1. \A k \in Loop : batch'[k] = {} /\ pc'[k] # "poll"
    BY <1>0, <1>4, DropsBatch DEF OneLoop
  <2>2. UNCHANGED <<offset, dead>>
    BY <1>4 DEF Drops, PollDiscarded, PollFails, SettleUnroutedFails, GiveUpFails, Crash, dbVars
  <2> QED
    BY <1>0, <2>1, <2>2, NoRowStep
<1>5. ASSUME NEW l \in Loop, Stop(l) PROVE OnceInv'
  BY <1>1, <1>5 DEF Stop, dbVars
<1>6. ASSUME NEW l \in Loop, GetUpdates(l) PROVE OnceInv'
  <2> DEFINE got == Answer(transmit[l])
             p == IF got = {} THEN "idle" ELSE "dispatch"
  <2>1. /\ batch' = [batch EXCEPT ![l] = got] /\ pc' = [pc EXCEPT ![l] = p]
        /\ UNCHANGED <<offset, dead, transmit>> /\ pc[l] = "poll"
    BY <1>6 DEF GetUpdates, Goto, dbVars
  <2>2. p # "poll"
    OBVIOUS
  <2>3. \A u \in got : u >= offset /\ u \in Update
    <3>1. transmit[l] = offset
      BY <2>1 DEF OnceInv
    <3> QED
      BY <1>0, <3>1 DEF Answer, TypeOK
  <2> HIDE DEF got, p
  <2>4. ASSUME NEW u \in got PROVE dead[u] = 0
    <3>1. u \in Update /\ u >= offset /\ dead[u] \in Nat /\ u \in Nat
      BY <1>0, <2>3
    <3>2. ~(u < offset)
      BY <1>0, <3>1
    <3>3. ~(dead[u] > 0)
      BY <3>1, <3>2 DEF OnceInv
    <3> QED
      BY <3>1, <3>3
  <2>5. \A k \in Loop : k = l
    BY DEF OneLoop
  <2>6. batch'[l] = got /\ pc'[l] # "poll"
    BY <1>0, <2>1, <2>2
  <2> QED
    BY <2>1, <2>4, <2>5, <2>6 DEF OnceInv
<1>7. ASSUME NEW l \in Loop, SettlesHead(l) PROVE OnceInv'
  <2>0. \A k \in Loop : k = l
    BY DEF OneLoop
  <2>1. offset' \in Nat /\ offset' >= offset
    <3>1. PICK u \in Nat : Advance(u)
      BY <1>7, SettlesHeadCases
    <3> QED
      BY <1>0, <3>1 DEF Advance
  <2>2. batch'[l] \subseteq batch[l] /\ pc'[l] # "poll"
    <3>1. PICK u \in Nat : NextUpdate(l, u) \/ AbortBatch(l) \/ AttemptSpent(l)
      BY <1>7, SettlesHeadCases
    <3>2. batch'[l] \subseteq batch[l]
      BY <1>0, <3>1 DEF NextUpdate, AbortBatch, AttemptSpent
    <3>3. \E p \in PC \ {"poll"} : pc' = [pc EXCEPT ![l] = p]
      BY <3>1 DEF NextUpdate, AbortBatch, AttemptSpent, Goto, PC
    <3> QED
      BY <1>0, <3>2, <3>3
  <2>3. CASE SettleUnrouted(l) \/ Commit(l) \/ Replayed(l)
    <3>1. dead' = dead
      BY <2>3 DEF SettleUnrouted, Commit, Replayed
    <3> QED
      BY <1>0, <2>0, <2>1, <2>2, <3>1, NoRowStep
  <2>4. CASE GiveUp(l)
    <3>1. PICK u \in batch[l] :
            /\ dead' = [dead EXCEPT ![u] = @ + 1] /\ Advance(u)
            /\ NextUpdate(l, u) \/ AbortBatch(l)
      BY <2>4 DEF GiveUp
    <3>2. u \in Update /\ dead[u] = 0 /\ u < offset'
      BY <1>0, <3>1 DEF OnceInv, Advance
    <3>3. dead'[u] = 1 /\ \A v \in Update : v # u => dead'[v] = dead[v]
      BY <1>0, <3>1, <3>2
    <3>4. \A v \in batch'[l] : v # u
      BY <1>0, <3>1 DEF NextUpdate, AbortBatch
    <3>5. \A v \in Update : dead'[v] <= 1 /\ (dead'[v] > 0 => v < offset')
      BY <1>0, <2>1, <3>2, <3>3 DEF OnceInv
    <3>6. \A v \in batch'[l] : dead'[v] = 0
      <4>1. ASSUME NEW v \in batch'[l] PROVE v \in Update /\ v \in batch[l] /\ v # u
        BY <1>0, <2>2, <3>4
      <4> QED
        BY <3>3, <4>1 DEF OnceInv
    <3> QED
      BY <2>0, <2>2, <3>5, <3>6 DEF OnceInv
  <2> QED
    BY <1>7, <2>3, <2>4 DEF SettlesHead
<1>8. CASE UNCHANGED vars
  BY <1>1, <1>8 DEF vars, dbVars, loopVars
<1>9. ASSUME NEW u \in Update, Arrive(u) PROVE OnceInv'
  BY <1>1, <1>9 DEF Arrive, dbVars, loopVars
<1>10. ASSUME NEW l \in Loop, Progress(l) \/ GetUpdates(l) \/ Faulty(l) \/ Stop(l) PROVE OnceInv'
  <2>1. Keeps(l) => ReadOffset(l) \/ Passes(l) \/ Stop(l)
    BY DEF Keeps, Passes
  <2> QED
    BY <1>2, <1>3, <1>4, <1>5, <1>6, <1>7, <1>10, <2>1, LoopSteps
<1> QED
  BY <1>8, <1>9, <1>10 DEF Next

\* Where one process runs the loop, an update is given up on at most once,
\* whatever acknowledgement is lost: its row and the offset past it are one
\* COMMIT (settleGivenUp).
THEOREM GivenUpOnceTheorem == ASSUME OneLoop PROVE Spec => []GivenUpOnce
<1>1. Init => OnceInv
  BY DEF Init, OnceInv
<1>2. IngestInv /\ OnceInv /\ [Next]_vars => OnceInv'
  BY OneLoop, NextOnceInv
<1>3. OnceInv => GivenUpOnce
  BY DEF OnceInv, GivenUpOnce
<1> QED
  BY <1>1, <1>2, <1>3, IngestInvariant, PTL DEF Spec
=============================================================================
