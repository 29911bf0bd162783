------------------------------- MODULE Ingest --------------------------------
(***************************************************************************)
(* Package ingest: the long-poll loop, the attempts each update gets, the  *)
(* persisted offset and the give-up rows.                                  *)
(*                                                                         *)
(* A poll reads ingest_offset and transmits it to getUpdates, which makes  *)
(* the Bot API server forget everything below it.  The batch is then       *)
(* processed in order; every update ends with the offset advanced past it: *)
(* in the handler's own transaction, or in a transaction of its own.       *)
(*                                                                         *)
(* Updates are their update_id.  A handler either posts to the ledger      *)
(* under the update's operation_id (Keyed: a replay is refused with        *)
(* ErrAlreadyPosted) or writes without one.                                *)
(***************************************************************************)
EXTENDS Integers, FiniteSets

CONSTANTS
  Update,       \* update_ids the server may issue, in increasing order
  Unrouted,     \* those whose kind has no handler, or that cannot be derived
  Keyed,        \* those whose handler posts under the operation_id
  Loop,         \* processes running a loop (a deployment may overlap two)
  BatchLimit,   \* config.Ingest.BatchLimit
  RetryMaxAttempts,  \* config.Ingest.RetryMaxAttempts
  MaxFaults     \* bound of the model: faults in one behaviour

ASSUME IngestAssumption ==
  /\ Update \subseteq Nat
  /\ Unrouted \subseteq Update
  /\ Keyed \subseteq Update \ Unrouted
  /\ BatchLimit \in Nat \ {0}
  /\ RetryMaxAttempts \in Nat \ {0}
  /\ MaxFaults \in Nat

VARIABLES
  arrived,      \* updates the server has issued
  confirmed,    \* the server has forgotten every update below this
  offset,       \* ingest_offset.next_update_id
  effects,      \* committed runs of each update's handler
  dead,         \* ingest_dead_update rows of each update
  faults,
  pc,           \* where each loop is in PollOnce
  transmit,     \* the offset the current poll transmits
  batch,        \* fetched updates not yet processed
  attempt,      \* failed attempts of the update at the head of the batch
  stopping      \* Stop has been called

serverVars == <<arrived, confirmed>>
dbVars == <<offset, effects, dead>>
loopVars == <<pc, transmit, batch, attempt, stopping>>
vars == <<serverVars, dbVars, faults, loopVars>>

PC == {"idle", "poll", "dispatch", "attempt", "commit", "replay", "wait", "giveup", "stopped"}

TypeOK ==
  /\ arrived \subseteq Update
  /\ confirmed \in Nat
  /\ offset \in Nat
  /\ effects \in [Update -> Nat]
  /\ dead \in [Update -> Nat]
  /\ faults \in Nat
  /\ pc \in [Loop -> PC]
  /\ transmit \in [Loop -> Nat]
  /\ batch \in [Loop -> SUBSET Update]
  /\ attempt \in [Loop -> 0..RetryMaxAttempts]
  /\ stopping \in [Loop -> BOOLEAN]

Init ==
  /\ arrived = {}
  /\ confirmed = 0
  /\ offset = 0
  /\ effects = [u \in Update |-> 0]
  /\ dead = [u \in Update |-> 0]
  /\ faults = 0
  /\ pc = [l \in Loop |-> "idle"]
  /\ transmit = [l \in Loop |-> 0]
  /\ batch = [l \in Loop |-> {}]
  /\ attempt = [l \in Loop |-> 0]
  /\ stopping = [l \in Loop |-> FALSE]

----------------------------------------------------------------------------
Fault == faults < MaxFaults /\ faults' = faults + 1

Goto(l, where) == pc' = [pc EXCEPT ![l] = where]

\* The update the loop is working on.
IsHead(l, u) == u \in batch[l] /\ \A v \in batch[l] : u <= v

\* Mutants of Advance: not guarded; the raw update_id stored.
AdvanceUnguarded(u) == offset' = u + 1
AdvanceToSelf(u) == offset' = IF offset < u THEN u ELSE offset

\* advanceOffset(update_id + 1): guarded, never backwards.
Advance(u) == offset' = IF offset < u + 1 THEN u + 1 ELSE offset

\* The head is settled: on with the next update, if any.
NextUpdate(l, u) ==
  /\ batch' = [batch EXCEPT ![l] = @ \ {u}]
  /\ attempt' = [attempt EXCEPT ![l] = 0]
  /\ Goto(l, IF batch[l] = {u} THEN "idle" ELSE "dispatch")
  /\ UNCHANGED <<transmit, stopping>>

\* processUpdate returned an error: the rest of the batch is dropped, to be
\* fetched again from the persisted offset.
AbortBatch(l) ==
  /\ batch' = [batch EXCEPT ![l] = {}]
  /\ attempt' = [attempt EXCEPT ![l] = 0]
  /\ Goto(l, "idle")
  /\ UNCHANGED <<transmit, stopping>>

\* An attempt failed: wait and try again, or give up.
AttemptSpent(l) ==
  /\ attempt' = [attempt EXCEPT ![l] = @ + 1]
  /\ Goto(l, IF attempt[l] + 1 = RetryMaxAttempts THEN "giveup" ELSE "wait")
  /\ UNCHANGED <<transmit, batch, stopping>>
----------------------------------------------------------------------------
(* The Bot API server *)

Arrive(u) ==
  /\ \A v \in arrived : v < u
  /\ arrived' = arrived \cup {u}
  /\ UNCHANGED <<confirmed, dbVars, faults, loopVars>>
----------------------------------------------------------------------------
(* PollOnce *)

\* Mutant of ReadOffset: the "+ 1" applied on the poll path as well.
ReadOffsetPlusOne(l) ==
  /\ pc[l] = "idle" /\ ~stopping[l]
  /\ transmit' = [transmit EXCEPT ![l] = offset + 1]
  /\ Goto(l, "poll")
  /\ UNCHANGED <<serverVars, dbVars, faults, batch, attempt, stopping>>

ReadOffset(l) ==
  /\ pc[l] = "idle" /\ ~stopping[l]
  /\ transmit' = [transmit EXCEPT ![l] = offset]
  /\ Goto(l, "poll")
  /\ UNCHANGED <<serverVars, dbVars, faults, batch, attempt, stopping>>

\* What getUpdates returns: the first BatchLimit updates not yet forgotten.
Answer(from) ==
  LET known == {u \in arrived : u >= from /\ u >= confirmed}
  IN  {u \in known : Cardinality({v \in known : v < u}) < BatchLimit}

\* What the server forgets below on seeing that call.
Forgotten(l) == IF confirmed < transmit[l] THEN transmit[l] ELSE confirmed

\* getUpdates answers with a batch; an empty answer, at the end of the long
\* poll, ends the cycle.
GetUpdates(l) ==
  /\ pc[l] = "poll"
  /\ batch' = [batch EXCEPT ![l] = Answer(transmit[l])]
  /\ confirmed' = Forgotten(l)
  /\ Goto(l, IF Answer(transmit[l]) = {} THEN "idle" ELSE "dispatch")
  /\ UNCHANGED <<arrived, dbVars, faults, transmit, attempt, stopping>>

\* Mutant of PollDiscarded: the long poll is waited out.
PollWaitedOut(l) ==
  /\ pc[l] = "poll" /\ stopping[l] /\ Answer(transmit[l]) # {}
  /\ confirmed' \in {confirmed, Forgotten(l)}
  /\ AbortBatch(l)
  /\ UNCHANGED <<arrived, dbVars, faults>>

\* Stop cancels the long poll, whose answer, if any, is discarded.
PollDiscarded(l) ==
  /\ pc[l] = "poll" /\ stopping[l]
  /\ confirmed' \in {confirmed, Forgotten(l)}
  /\ AbortBatch(l)
  /\ UNCHANGED <<arrived, dbVars, faults>>

\* readOffset or getUpdates fails; the server may have seen the call.
PollFails(l) ==
  /\ pc[l] = "poll"
  /\ confirmed' \in {confirmed, Forgotten(l)}
  /\ Fault
  /\ AbortBatch(l)
  /\ UNCHANGED <<arrived, dbVars>>
----------------------------------------------------------------------------
(* processUpdate and runAttempts *)

\* No handler: the offset is advanced in a transaction of its own.
SettleUnrouted(l) ==
  /\ pc[l] = "dispatch"
  /\ \E u \in Unrouted :
       /\ IsHead(l, u)
       /\ Advance(u)
       /\ \/ NextUpdate(l, u) /\ UNCHANGED faults
          \/ AbortBatch(l) /\ Fault          \* applied, and reported as failed
  /\ UNCHANGED <<serverVars, effects, dead>>

SettleUnroutedFails(l) ==
  /\ pc[l] = "dispatch"
  /\ \E u \in Unrouted : IsHead(l, u)
  /\ Fault
  /\ AbortBatch(l)
  /\ UNCHANGED <<serverVars, dbVars>>

Dispatch(l) ==
  /\ pc[l] = "dispatch"
  /\ \E u \in Update \ Unrouted : IsHead(l, u)
  /\ Goto(l, "attempt")
  /\ UNCHANGED <<serverVars, dbVars, faults, transmit, batch, attempt, stopping>>

\* waitOrCancel elapsed.
Backoff(l) ==
  /\ pc[l] = "wait"
  /\ Goto(l, "attempt")
  /\ UNCHANGED <<serverVars, dbVars, faults, transmit, batch, attempt, stopping>>

\* Mutant of HandlerOk: the operation_id is not unique.
HandlerOkTwice(l) ==
  /\ pc[l] = "attempt"
  /\ \E u \in Update \ Unrouted : IsHead(l, u)
  /\ Goto(l, "commit")
  /\ UNCHANGED <<serverVars, dbVars, faults, transmit, batch, attempt, stopping>>

\* The handler returned nil.  A post under the same operation_id by another
\* transaction in progress would have made it wait.
HandlerOk(l) ==
  /\ pc[l] = "attempt"
  /\ \E u \in batch[l] :
       /\ IsHead(l, u)
       /\ u \in Keyed => /\ effects[u] = 0
                         /\ \A m \in Loop : pc[m] = "commit" => ~IsHead(m, u)
  /\ Goto(l, "commit")
  /\ UNCHANGED <<serverVars, dbVars, faults, transmit, batch, attempt, stopping>>

\* ErrAlreadyPosted: the attempt is rolled back.
HandlerDuplicate(l) ==
  /\ pc[l] = "attempt"
  /\ \E u \in Keyed : IsHead(l, u) /\ effects[u] > 0
  /\ Goto(l, "replay")
  /\ UNCHANGED <<serverVars, dbVars, faults, transmit, batch, attempt, stopping>>

\* The handler returned another error or panicked: rolled back.
HandlerFails(l) ==
  /\ pc[l] = "attempt"
  /\ AttemptSpent(l)
  /\ UNCHANGED <<serverVars, dbVars, faults>>

\* BEGIN, the offset advance or the COMMIT fails: nothing was written.
AttemptFails(l) ==
  /\ pc[l] \in {"attempt", "commit", "replay"}
  /\ Fault
  /\ AttemptSpent(l)
  /\ UNCHANGED <<serverVars, dbVars>>

\* The handler's writes and the offset advance, in one COMMIT; its
\* acknowledgement may be lost, and the attempt then counts as failed.
Commit(l) ==
  /\ pc[l] = "commit"
  /\ \E u \in batch[l] :
       /\ IsHead(l, u)
       /\ effects' = [effects EXCEPT ![u] = @ + 1]
       /\ Advance(u)
       /\ \/ NextUpdate(l, u) /\ UNCHANGED faults
          \/ AttemptSpent(l) /\ Fault
  /\ UNCHANGED <<serverVars, dead>>

\* advanceOffsetFresh of a duplicate.
Replayed(l) ==
  /\ pc[l] = "replay"
  /\ \E u \in batch[l] :
       /\ IsHead(l, u)
       /\ Advance(u)
       /\ \/ NextUpdate(l, u) /\ UNCHANGED faults
          \/ AttemptSpent(l) /\ Fault
  /\ UNCHANGED <<serverVars, effects, dead>>

\* Mutants of GiveUp: no row is written; the offset is not advanced.
GiveUpNoRow(l) ==
  /\ pc[l] = "giveup"
  /\ \E u \in batch[l] :
       /\ IsHead(l, u)
       /\ Advance(u)
       /\ NextUpdate(l, u)
  /\ UNCHANGED <<serverVars, effects, dead, faults>>
GiveUpNoAdvance(l) ==
  /\ pc[l] = "giveup"
  /\ \E u \in batch[l] :
       /\ IsHead(l, u) /\ dead[u] < 2
       /\ dead' = [dead EXCEPT ![u] = @ + 1]
       /\ NextUpdate(l, u)
  /\ UNCHANGED <<serverVars, offset, effects, faults>>

\* settleGivenUp: the give-up row and the offset advance, in one COMMIT.
GiveUp(l) ==
  /\ pc[l] = "giveup"
  /\ \E u \in batch[l] :
       /\ IsHead(l, u)
       /\ dead' = [dead EXCEPT ![u] = @ + 1]
       /\ Advance(u)
       /\ \/ NextUpdate(l, u) /\ UNCHANGED faults
          \/ AbortBatch(l) /\ Fault
  /\ UNCHANGED <<serverVars, effects>>

GiveUpFails(l) ==
  /\ pc[l] = "giveup"
  /\ Fault
  /\ AbortBatch(l)
  /\ UNCHANGED <<serverVars, dbVars>>
----------------------------------------------------------------------------
(* Run and Stop *)

Stop(l) ==
  /\ pc[l] # "stopped" /\ ~stopping[l]
  /\ stopping' = [stopping EXCEPT ![l] = TRUE]
  /\ UNCHANGED <<serverVars, dbVars, faults, pc, transmit, batch, attempt>>

\* Mutant of Return: the rest of the batch is dropped.
ReturnMidBatch(l) ==
  /\ pc[l] \in {"idle", "dispatch"} /\ stopping[l]
  /\ batch' = [batch EXCEPT ![l] = {}]
  /\ Goto(l, "stopped")
  /\ UNCHANGED <<serverVars, dbVars, faults, transmit, attempt, stopping>>

\* Run sees the stop between two cycles.
Return(l) ==
  /\ pc[l] = "idle" /\ stopping[l]
  /\ Goto(l, "stopped")
  /\ UNCHANGED <<serverVars, dbVars, faults, transmit, batch, attempt, stopping>>

\* The process dies (or its context is cancelled) and is started again; a
\* getUpdates in flight may have reached the server.
Crash(l) ==
  /\ Fault
  /\ confirmed' \in {confirmed, IF pc[l] = "poll" THEN Forgotten(l) ELSE confirmed}
  /\ batch' = [batch EXCEPT ![l] = {}]
  /\ attempt' = [attempt EXCEPT ![l] = 0]
  /\ stopping' = [stopping EXCEPT ![l] = FALSE]
  /\ Goto(l, "idle")
  /\ UNCHANGED <<arrived, dbVars, transmit>>

\* What the loop does by itself, the handler's return included.
Progress(l) ==
  \/ ReadOffset(l) \/ PollDiscarded(l) \/ Return(l)
  \/ SettleUnrouted(l) \/ Dispatch(l) \/ Backoff(l)
  \/ HandlerOk(l) \/ HandlerDuplicate(l) \/ HandlerFails(l)
  \/ Commit(l) \/ Replayed(l) \/ GiveUp(l)

Faulty(l) ==
  PollFails(l) \/ SettleUnroutedFails(l) \/ AttemptFails(l) \/ GiveUpFails(l) \/ Crash(l)

Next ==
  \/ \E u \in Update : Arrive(u)
  \/ \E l \in Loop : Progress(l) \/ GetUpdates(l) \/ Faulty(l) \/ Stop(l)

Spec == Init /\ [][Next]_vars
----------------------------------------------------------------------------
(* Properties *)

\* An update is dealt with: handled, given up on, or of no interest.
Settled(u) == effects[u] > 0 \/ dead[u] > 0 \/ u \in Unrouted

\* No update is lost: whatever the persisted offset has passed, and whatever
\* the server has been told to forget, was settled, across lost
\* acknowledgements, crashes and overlapping loops (PollOnce, advanceOffset).
NoUpdateLost ==
  \A u \in arrived : u < offset \/ u < confirmed => Settled(u)

\* A handler that posts under its operation_id takes effect at most once,
\* however often the update is attempted or delivered (attemptOnce).
KeyedOnce == \A u \in Keyed : effects[u] <= 1

\* advanceOffset: "two settlements racing can never move the offset
\* backwards".
OffsetNeverBack == [][offset' >= offset]_vars

\* A loop lets go of a fetched update only once the offset is past it, or
\* because of a failure: "a Stop that lands mid-batch settles every update
\* already fetched rather than aborting it" (PollOnce).
FetchedIsSettled ==
  [][\A l \in Loop : \A u \in batch[l] \ batch'[l] : u < offset' \/ faults' > faults]_vars

\* With one loop an update is given up on at most once: the give-up row and
\* the offset advance are one COMMIT (settleGivenUp).
GivenUpOnce == \A u \in Update : dead[u] <= 1

\* "The attempt's writes were rolled back" (OutcomeFailed, observe.go): an
\* update every attempt of which failed has no effects.
GivenUpHasNoEffect == \A u \in Update : dead[u] > 0 => effects[u] = 0

\* "A non-nil return means ctx was cancelled mid-attempt - every other
\* outcome is fully settled internally" (processUpdate, loop.go): only a
\* cancelled loop lets go of an update the offset is not past.
OnlyCancellationUnsettles ==
  [][\A l \in Loop : (\E u \in batch[l] \ batch'[l] : u >= offset') => Crash(l)]_vars
----------------------------------------------------------------------------
(***************************************************************************)
(* The inductive invariant behind NoUpdateLost and KeyedOnce.  What a loop *)
(* has fetched is gapless: every older update is in the batch too, or      *)
(* settled.  Passing the head of a batch therefore passes nothing else.    *)
(***************************************************************************)
OffsetInv ==
  /\ \A u \in arrived : u < offset => Settled(u)
  /\ offset = 0 \/ \E u \in arrived : u + 1 = offset
  /\ confirmed <= offset

BatchInv(l) ==
  /\ transmit[l] <= offset
  /\ batch[l] \subseteq arrived
  /\ \A u \in batch[l] : \A v \in arrived : v < u => v \in batch[l] \/ Settled(v)

\* Attempts are bounded; a replayed update has effects already; a keyed
\* update about to be committed has none, and no rival.
AttemptInv(l) ==
  /\ pc[l] # "giveup" => attempt[l] < RetryMaxAttempts
  /\ pc[l] = "replay" => \A u \in batch[l] : IsHead(l, u) => effects[u] > 0
  /\ pc[l] = "commit" =>
       \A u \in batch[l] \cap Keyed : IsHead(l, u) =>
         /\ effects[u] = 0
         /\ \A m \in Loop : pc[m] = "commit" /\ IsHead(m, u) => m = l

IngestInv ==
  /\ TypeOK
  /\ OffsetInv
  /\ \A l \in Loop : BatchInv(l) /\ AttemptInv(l)
  /\ \A u \in Keyed : effects[u] <= 1
----------------------------------------------------------------------------
(***************************************************************************)
(* Fairness: Run keeps polling whatever PollOnce returned, the timers      *)
(* elapse, the database answers, and a handler returns (the loop gives it  *)
(* no deadline, so one that hangs hangs the loop).  getUpdates is sure to  *)
(* return when there is something to return: an empty long poll is not     *)
(* counted on, so that Stop has to interrupt it.                           *)
(***************************************************************************)
Fairness ==
  \A l \in Loop :
    WF_vars(Progress(l) \/ (GetUpdates(l) /\ Answer(transmit[l]) # {}))

FairSpec == Spec /\ Fairness

\* A poisoned update never blocks the loop: every update the server has is
\* settled in the end, unless the loop is told to stop (runAttempts).
ArrivedIsSettled ==
  \A u \in Update :
    u \in arrived ~> ((offset > u /\ Settled(u)) \/ \E l \in Loop : stopping[l])

\* Stop makes Run return, without waiting out a long poll that nothing
\* arrives for (getUpdatesStoppable).
StopReturns ==
  \A l \in Loop : stopping[l] ~> (pc[l] = "stopped" \/ ~stopping[l])
=============================================================================
