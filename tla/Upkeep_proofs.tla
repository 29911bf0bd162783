---------------------------- MODULE Upkeep_proofs ----------------------------
(***************************************************************************)
(* However many processes start, crash and beat beside each other, for     *)
(* every task, cadence, threshold and interval: the contract of the task   *)
(* table survives the shifts and the corrections, an outage is absorbed    *)
(* once, a declared recurrence has its row, and a heartbeat gives up only  *)
(* when it should.                                                         *)
(***************************************************************************)
EXTENDS Upkeep, TaskContract_proofs
----------------------------------------------------------------------------
(* The inductive invariant.  x is the record of one process. *)

\* What is settled was due: at or before now.
SettledPast == \A t \in Task : \A r \in done[t] \cup failed[t] : r <= now

\* A transaction or a reconciliation works from an instant not far back.
InstantOK(x) ==
  x.pc \in {"absorbing", "measured", "reconciling"} => x.at <= now /\ now <= x.at + Stall

\* The next tick is a good refresh and fails + 1 intervals on, less one refresh.
HeartOK(x) ==
  /\ x.pc = "up" => /\ x.at <= now
                    /\ now <= x.beat + Late
                    /\ x.beat + Late >= x.at + (x.fails + 1) * Interval
  /\ x.pc = "gaveUp" => now - x.at >= Threshold - Late

\* What a process has seeded is there, and stays.
SeedOK(x) ==
  \A t \in Recurrent :
    x.pc = "up" \/ (x.pc = "reconciling" /\ <<"seed", t>> \notin x.todo) => row[t].state = "pending"

\* What a process read under the lock is past every outage's beginning.
SeenOK(x) == x.pc = "measured" => \A s \in shifts : x.seen > s.from

ProcessOK(x) == InstantOK(x) /\ HeartOK(x) /\ SeedOK(x) /\ SeenOK(x)

LockHeld == \A p, q \in Proc : proc[p].pc = "measured" /\ proc[q].pc = "measured" => p = q

\* An outage is longer than the threshold, and over; the stored instant is past
\* its beginning.
Baselines == \A s \in shifts : s.to > s.from + Threshold /\ s.to <= now /\ seenAt > s.from

UpkeepInv ==
  /\ CInv /\ UpkeepTypeOK /\ SettledPast /\ LockHeld /\ Baselines /\ AbsorbedOnce
  /\ \A p \in Proc : ProcessOK(proc[p])
----------------------------------------------------------------------------
LEMMA Numbers ==
  /\ Threshold \in Nat \ {0} /\ Interval \in Nat \ {0} /\ PollInterval \in Nat \ {0}
  /\ Stall \in Nat /\ Late \in Nat /\ MaxStarts \in Nat /\ Stall < Threshold /\ Late < Interval
BY UpkeepAssumption

\* A process that is down promises nothing.
LEMMA DownOK == Down \in Process /\ Down.pc = "down" /\ ProcessOK(Down)
<1>1. Down \in Process /\ Down.pc = "down"
  BY DEF Down, Process, NoInstant
<1> QED
  BY <1>1 DEF ProcessOK, InstantOK, HeartOK, SeedOK, SeenOK

\* A step of process p alone, with the table as it was, that stores an instant
\* past every outage's beginning.
LEMMA OwnStep ==
  ASSUME UpkeepInv, NEW p \in Proc, NEW x \in Process, proc' = [proc EXCEPT ![p] = x],
         UNCHANGED <<now, row, done, failed, shifts>>,
         seenAt' \in Nat \cup {NoInstant}, \A s \in shifts : seenAt' > s.from,
         starts' \in 0 .. MaxStarts, ProcessOK(x),
         x.pc = "measured" => \A q \in Proc : proc[q].pc # "measured"
  PROVE  UpkeepInv'
<1>1. /\ proc \in [Proc -> Process] /\ shifts \subseteq [by : Nat, from : Nat, to : Nat]
  BY DEF UpkeepInv, UpkeepTypeOK
<1>2. proc' \in [Proc -> Process] /\ proc'[p] = x /\ \A q \in Proc : q # p => proc'[q] = proc[q]
  BY <1>1
<1>3. CInv' /\ SettledPast' /\ AbsorbedOnce'
  BY DEF UpkeepInv, CInv, ContractTypeOK, SettledInv, VerdictInv, Streak, SettledPast, AbsorbedOnce
<1>4. UpkeepTypeOK'
  BY <1>1, <1>2 DEF UpkeepTypeOK
<1>5. LockHeld'
  BY <1>2 DEF UpkeepInv, LockHeld
<1>6. Baselines'
  BY DEF UpkeepInv, Baselines
<1>7. ASSUME NEW y, ProcessOK(y) PROVE ProcessOK(y)'
  BY <1>7 DEF ProcessOK, InstantOK, HeartOK, SeedOK, SeenOK
<1>8. \A q \in Proc : ProcessOK(proc'[q])
  BY <1>2 DEF UpkeepInv
<1>9. \A q \in Proc : ProcessOK(proc[q])'
  BY <1>7, <1>8
<1> QED
  BY <1>3, <1>4, <1>5, <1>6, <1>9 DEF UpkeepInv

\* What the invariant says of the numbers a step of process p works with.
LEMMA OwnFacts ==
  ASSUME UpkeepInv, NEW p \in Proc
  PROVE  /\ proc \in [Proc -> Process] /\ proc[p] \in Process /\ ProcessOK(proc[p])
         /\ now \in Nat /\ seenAt \in Nat \cup {NoInstant} /\ starts \in 0 .. MaxStarts
         /\ \A s \in shifts : s.from \in Nat /\ s.to \in Nat
         /\ \A s \in shifts : s.to > s.from + Threshold /\ s.to <= now /\ seenAt > s.from
BY DEF UpkeepInv, UpkeepTypeOK, CInv, ContractTypeOK, Baselines

\* An instant a process starts from is past every outage's beginning.
LEMMA StartedAfter ==
  ASSUME UpkeepInv, NEW p \in Proc, proc[p].pc \in {"absorbing", "measured", "reconciling"}
  PROVE  \A s \in shifts : proc[p].at > s.from
<1>1. proc[p].at \in Nat /\ proc[p].at <= now /\ now <= proc[p].at + Stall
  BY OwnFacts DEF Process, ProcessOK, InstantOK
<1> DEFINE at == proc[p].at
<1> HIDE DEF at
<1>2. at \in Nat /\ at <= now /\ now <= at + Stall
  BY <1>1 DEF at
<1>3. ASSUME NEW s \in shifts PROVE at > s.from
  BY <1>2, OwnFacts, Numbers
<1> QED
  BY <1>3 DEF at

LEMMA BeginStep ==
  ASSUME UpkeepInv, NEW p \in Proc, Begin(p)
  PROVE  UpkeepInv'
<1> DEFINE x == [[Down EXCEPT !.pc = "absorbing"] EXCEPT !.at = now]
<1>1. /\ proc' = [proc EXCEPT ![p] = x] /\ starts' = starts + 1 /\ starts < MaxStarts
      /\ UNCHANGED <<now, row, done, failed, shifts>> /\ seenAt' = seenAt
  BY DEF Begin
<1>2. now \in Nat /\ seenAt \in Nat \cup {NoInstant} /\ starts \in 0 .. MaxStarts
      /\ \A s \in shifts : seenAt > s.from
  BY OwnFacts
<1>3. x \in Process /\ x.pc = "absorbing" /\ x.at = now
  BY <1>2, DownOK DEF Process
<1> HIDE DEF x
<1>4. ProcessOK(x)
  BY <1>2, <1>3, Numbers DEF ProcessOK, InstantOK, HeartOK, SeedOK, SeenOK
<1>5. starts' \in 0 .. MaxStarts
  BY <1>1, <1>2, Numbers
<1> QED
  BY <1>1, <1>2, <1>3, <1>4, <1>5, OwnStep

LEMMA MeasureStep ==
  ASSUME UpkeepInv, NEW p \in Proc, Measure(p)
  PROVE  UpkeepInv'
<1> DEFINE x == [[proc[p] EXCEPT !.pc = "measured"] EXCEPT !.seen = seenAt]
<1>1. /\ proc \in [Proc -> Process] /\ proc[p] \in Process /\ ProcessOK(proc[p])
      /\ now \in Nat /\ seenAt \in Nat \cup {NoInstant} /\ starts \in 0 .. MaxStarts
      /\ \A s \in shifts : seenAt > s.from
  BY OwnFacts
<1>2. /\ proc' = [proc EXCEPT ![p] = x] /\ UNCHANGED <<now, row, done, failed, shifts>>
      /\ seenAt' = seenAt /\ starts' = starts /\ proc[p].pc = "absorbing"
      /\ \A q \in Proc : proc[q].pc # "measured"
  BY <1>1, Zenon DEF Measure, LivenessRowFree
<1>3. x \in Process /\ x.pc = "measured" /\ x.at = proc[p].at /\ x.seen = seenAt
  BY <1>1 DEF Process
<1> HIDE DEF x
<1>4. ProcessOK(x)
  BY <1>1, <1>2, <1>3 DEF ProcessOK, InstantOK, HeartOK, SeedOK, SeenOK
<1> QED
  BY <1>1, <1>2, <1>3, <1>4, OwnStep

LEMMA UpStep ==
  ASSUME UpkeepInv, NEW p \in Proc, Up(p)
  PROVE  UpkeepInv'
<1> DEFINE beat == now + Interval
           x == [[[Down EXCEPT !.pc = "up"] EXCEPT !.at = now] EXCEPT !.beat = beat]
<1>1. /\ proc[p] \in Process /\ ProcessOK(proc[p])
      /\ now \in Nat /\ seenAt \in Nat \cup {NoInstant} /\ starts \in 0 .. MaxStarts
      /\ \A s \in shifts : seenAt > s.from
  BY OwnFacts
<1>2. /\ proc' = [proc EXCEPT ![p] = x] /\ UNCHANGED <<now, row, done, failed, shifts>>
      /\ seenAt' = seenAt /\ starts' = starts /\ proc[p].pc = "reconciling" /\ proc[p].todo = {}
  BY DEF Up
<1>3. beat \in Nat /\ beat = now + Interval
  BY <1>1, Numbers
<1> HIDE DEF beat
<1>4. x \in Process /\ x.pc = "up" /\ x.at = now /\ x.beat = beat /\ x.fails = 0
  <2>1. Down \in Process /\ Down.fails = 0
    BY DownOK DEF Down
  <2> QED
    BY <1>1, <1>3, <2>1 DEF Process
<1> HIDE DEF x
<1>5. HeartOK(x)
  BY <1>1, <1>3, <1>4, Numbers DEF HeartOK
<1>6. ProcessOK(x)
  BY <1>1, <1>2, <1>4, <1>5 DEF ProcessOK, InstantOK, SeedOK, SeenOK
<1> QED
  BY <1>1, <1>2, <1>4, <1>6, OwnStep

LEMMA DieStep ==
  ASSUME UpkeepInv, NEW p \in Proc, Die(p) \/ Exit(p)
  PROVE  UpkeepInv'
<1>1. /\ proc' = [proc EXCEPT ![p] = Down] /\ UNCHANGED <<now, row, done, failed, shifts>>
      /\ seenAt' \in {seenAt, now} /\ starts' = starts
  BY DEF Die, Exit
<1>2. /\ now \in Nat /\ seenAt \in Nat \cup {NoInstant} /\ starts \in 0 .. MaxStarts
      /\ \A s \in shifts : seenAt > s.from /\ now > s.from
  BY OwnFacts, Numbers
<1> QED
  BY <1>1, <1>2, DownOK, OwnStep

\* failureTolerance intervals are not less than the threshold.
LEMMA ToleranceSuffices ==
  /\ failureTolerance \in Nat
  /\ \A k \in Nat : k >= failureTolerance => k * Interval >= Threshold
<1> DEFINE q == (Threshold + Interval - 1) \div Interval
<1>1. q \in Nat /\ Threshold + Interval - 1 < Interval * q + Interval
  BY Numbers, Z3
<1>2. failureTolerance = q
  BY DEF failureTolerance
<1> HIDE DEF q
<1>3. ASSUME NEW k \in Nat, k >= q PROVE k * Interval >= Threshold
  <2>1. Interval * q <= k * Interval /\ Interval * q \in Nat /\ k * Interval \in Nat
    BY <1>1, <1>3, Numbers, Z3
  <2> QED
    BY <1>1, <2>1, Numbers
<1> QED
  BY <1>1, <1>2, <1>3

LEMMA RefreshOKStep ==
  ASSUME UpkeepInv, NEW p \in Proc, RefreshOK(p)
  PROVE  UpkeepInv'
<1> DEFINE beat == proc[p].beat + Interval
           x == [[[proc[p] EXCEPT !.at = now] EXCEPT !.beat = beat] EXCEPT !.fails = 0]
<1>1. /\ proc \in [Proc -> Process] /\ proc[p] \in Process /\ ProcessOK(proc[p])
      /\ now \in Nat /\ seenAt \in Nat \cup {NoInstant} /\ starts \in 0 .. MaxStarts
      /\ \A s \in shifts : seenAt > s.from /\ now > s.from
  BY OwnFacts, Numbers
<1>2. /\ proc' = [proc EXCEPT ![p] = x] /\ UNCHANGED <<now, row, done, failed, shifts>>
      /\ seenAt' = now /\ starts' = starts /\ proc[p].pc = "up" /\ now >= proc[p].beat
  BY <1>1, Zenon DEF RefreshOK, Ticked
<1>3. /\ proc[p].beat \in Nat /\ beat \in Nat /\ beat = proc[p].beat + Interval
      /\ now <= proc[p].beat + Late
  BY <1>1, <1>2, Numbers DEF Process, ProcessOK, HeartOK
<1> HIDE DEF beat
<1>4. x \in Process /\ x.pc = "up" /\ x.at = now /\ x.beat = beat /\ x.fails = 0
  BY <1>1, <1>2, <1>3 DEF Process
<1> HIDE DEF x
<1>5. HeartOK(x)
  BY <1>1, <1>3, <1>4, Numbers DEF HeartOK
<1>6. ProcessOK(x)
  BY <1>1, <1>2, <1>4, <1>5 DEF ProcessOK, InstantOK, SeedOK, SeenOK
<1> QED
  BY <1>1, <1>2, <1>4, <1>6, OwnStep

LEMMA RefreshFailsStep ==
  ASSUME UpkeepInv, NEW p \in Proc, RefreshFails(p)
  PROVE  UpkeepInv'
<1> DEFINE k == proc[p].fails + 1
           beat == proc[p].beat + Interval
           pc == IF k >= failureTolerance THEN "gaveUp" ELSE "up"
           x == [[[proc[p] EXCEPT !.beat = beat] EXCEPT !.fails = k] EXCEPT !.pc = pc]
<1>1. /\ proc \in [Proc -> Process] /\ proc[p] \in Process /\ ProcessOK(proc[p])
      /\ now \in Nat /\ seenAt \in Nat \cup {NoInstant} /\ starts \in 0 .. MaxStarts
      /\ \A s \in shifts : seenAt > s.from /\ now > s.from
  BY OwnFacts, Numbers
<1>2. /\ proc' = [proc EXCEPT ![p] = x] /\ UNCHANGED <<now, row, done, failed, shifts>>
      /\ seenAt' \in {seenAt, now} /\ starts' = starts /\ proc[p].pc = "up" /\ now >= proc[p].beat
  BY <1>1, Zenon DEF RefreshFails, Ticked
<1>3. /\ proc[p].beat \in Nat /\ proc[p].fails \in Nat /\ proc[p].at \in Nat
      /\ proc[p].at <= now /\ now <= proc[p].beat + Late
      /\ proc[p].beat + Late >= proc[p].at + (proc[p].fails + 1) * Interval
  BY <1>1, <1>2 DEF Process, ProcessOK, HeartOK
<1>4. /\ k \in Nat /\ beat \in Nat /\ beat = proc[p].beat + Interval
      /\ proc[p].beat + Late >= proc[p].at + k * Interval
  BY <1>3, Numbers
<1>5. k * Interval \in Nat /\ (k + 1) * Interval = k * Interval + Interval
  <2> HIDE DEF k
  <2> QED
    BY <1>4, Numbers, Z3
<1>6. pc = "gaveUp" => k * Interval >= Threshold
  BY <1>4, ToleranceSuffices
<1>7. pc \in {"up", "gaveUp"}
  OBVIOUS
<1> HIDE DEF k, beat, pc
<1>8. x \in Process /\ x.pc = pc /\ x.at = proc[p].at /\ x.beat = beat /\ x.fails = k
  BY <1>1, <1>4, <1>7 DEF Process
<1> HIDE DEF x
<1>9. HeartOK(x)
  <2> DEFINE m == k * Interval
             at == proc[p].at
             old == proc[p].beat
  <2>1. /\ m \in Nat /\ (k + 1) * Interval = m + Interval /\ (pc = "gaveUp" => m >= Threshold)
        /\ at \in Nat /\ old \in Nat /\ beat = old + Interval
        /\ old + Late >= at + m /\ at <= now /\ now <= old + Late /\ now >= old
    BY <1>2, <1>3, <1>4, <1>5, <1>6
  <2> HIDE DEF m, at, old
  <2>2. now <= beat + Late /\ beat + Late >= at + (m + Interval)
    BY <1>1, <2>1, Numbers
  <2>3. pc = "gaveUp" => now - at >= Threshold - Late
    BY <1>1, <2>1, Numbers
  <2>4. x.at = at
    BY <1>8 DEF at
  <2>5. x.pc = "up" => x.beat + Late >= x.at + (x.fails + 1) * Interval
    BY <1>8, <2>1, <2>2, <2>4, Zenon
  <2> QED
    BY <1>8, <2>1, <2>2, <2>3, <2>4, <2>5 DEF HeartOK
<1>10. ProcessOK(x)
  <2>1. SeedOK(x)
    BY <1>1, <1>2, <1>7, <1>8 DEF ProcessOK, SeedOK
  <2> QED
    BY <1>7, <1>8, <1>9, <2>1 DEF ProcessOK, InstantOK, SeenOK
<1> QED
  BY <1>1, <1>2, <1>7, <1>8, <1>10, OwnStep
----------------------------------------------------------------------------
(* The steps that write the task table *)

\* A pending row may move to any instant past what is settled for it, and a row
\* with no history may be inserted: the contract holds on.
LEMMA RowsMove ==
  ASSUME CInv, UNCHANGED <<now, done, failed>>, row' \in [Task -> Row],
         \A t \in Task :
           \/ row'[t] = row[t]
           \/ /\ row[t].state = "pending" /\ row'[t].state = "pending"
              /\ row'[t].failures = row[t].failures
              /\ \A r \in done[t] \cup failed[t] : r < row'[t].runAt
           \/ /\ done[t] = {} /\ failed[t] = {}
              /\ row'[t].state = "pending" /\ row'[t].failures = 0
  PROVE  CInv'
<1>1. ContractTypeOK'
  BY DEF CInv, ContractTypeOK
<1>2. ASSUME NEW t \in Task PROVE SettledInv(t)' /\ VerdictInv(t)'
  <2>0. SettledInv(t) /\ VerdictInv(t)
    BY DEF CInv
  <2>1. CASE row'[t] = row[t]
    BY <2>0, <2>1 DEF SettledInv, VerdictInv, Streak
  <2>2. CASE /\ row[t].state = "pending" /\ row'[t].state = "pending"
             /\ row'[t].failures = row[t].failures
             /\ \A r \in done[t] \cup failed[t] : r < row'[t].runAt
    BY <2>0, <2>2 DEF SettledInv, VerdictInv, Streak
  <2>3. CASE /\ done[t] = {} /\ failed[t] = {}
             /\ row'[t].state = "pending" /\ row'[t].failures = 0
    <3>1. Streak(t)' = {} /\ Cardinality({}) = 0 /\ IsFiniteSet({})
      BY <2>3, FS_EmptySet DEF Streak
    <3>2. 0 < RetryMaxAttempts
      BY TableAssumption
    <3> QED
      BY <2>3, <3>1, <3>2 DEF SettledInv, VerdictInv
  <2> QED
    BY <2>1, <2>2, <2>3
<1> QED
  BY <1>1, <1>2 DEF CInv

\* What holds of a process the step does not touch stays, when no pending
\* recurrence is lost and, for one that has measured, no outage is added.
LEMMA Stays ==
  ASSUME NEW y, ProcessOK(y), now' = now, y.pc = "measured" => shifts' = shifts,
         \A t \in Recurrent : row[t].state = "pending" => row'[t].state = "pending"
  PROVE  ProcessOK(y)'
BY DEF ProcessOK, InstantOK, HeartOK, SeedOK, SeenOK

\* A step of process p alone that also writes rows.
LEMMA RowStep ==
  ASSUME UpkeepInv, NEW p \in Proc, NEW x \in Process, proc' = [proc EXCEPT ![p] = x],
         UNCHANGED <<now, done, failed, seenAt, shifts, starts>>, CInv',
         \A t \in Recurrent : row[t].state = "pending" => row'[t].state = "pending",
         ProcessOK(x)', x.pc # "measured"
  PROVE  UpkeepInv'
<1>1. proc \in [Proc -> Process]
  BY OwnFacts
<1>2. proc' \in [Proc -> Process] /\ proc'[p] = x /\ \A q \in Proc : q # p => proc'[q] = proc[q]
  BY <1>1
<1>3. SettledPast' /\ AbsorbedOnce' /\ Baselines'
  BY DEF UpkeepInv, SettledPast, AbsorbedOnce, Baselines
<1>4. UpkeepTypeOK'
  BY <1>2 DEF UpkeepInv, UpkeepTypeOK
<1>5. LockHeld'
  BY <1>2 DEF UpkeepInv, LockHeld
<1>6. \A q \in Proc : ProcessOK(proc[q])'
  <2>1. ASSUME NEW q \in Proc PROVE ProcessOK(proc[q])'
    <3>1. CASE q = p
      BY <1>2, <3>1
    <3>2. CASE q # p
      <4>1. ProcessOK(proc[q])
        BY DEF UpkeepInv
      <4> DEFINE y == proc[q]
      <4>2. proc'[q] = y /\ ProcessOK(y)
        BY <1>2, <3>2, <4>1
      <4> QED
        BY <4>2, Stays
    <3> QED
      BY <3>1, <3>2
  <2> QED
    BY <2>1
<1> QED
  BY <1>3, <1>4, <1>5, <1>6 DEF UpkeepInv

\* The next occurrence of a cadence counted from the instant itself.
LEMMA EveryFromNow ==
  ASSUME NEW period \in Nat \ {0}, NEW at \in Nat
  PROVE  Every(period, at, at) = at + period
<1>1. (at - at) \div period = 0
  BY Z3
<1> QED
  BY <1>1 DEF Every

LEMMA SeedStep ==
  ASSUME UpkeepInv, NEW p \in Proc, NEW t \in Recurrent, Seed(p, t)
  PROVE  UpkeepInv'
<1> DEFINE todo == proc[p].todo \ {<<"seed", t>>}
           next == NextOccurrence(p, t)
<1>0. PICK x : x = [proc[p] EXCEPT !.todo = todo]
  OBVIOUS
<1>1. /\ proc \in [Proc -> Process] /\ proc[p] \in Process /\ ProcessOK(proc[p])
      /\ CInv /\ row \in [Task -> Row] /\ t \in Task /\ t \notin OneShot /\ Period[t] \in Nat \ {0}
  BY OwnFacts, TableAssumption DEF UpkeepInv, CInv, ContractTypeOK
<1>2. /\ proc' = [proc EXCEPT ![p] = x] /\ proc[p].pc = "reconciling"
      /\ UNCHANGED <<now, done, failed, seenAt, shifts, starts>>
      /\ row' = IF row[t].state = "pending" THEN row ELSE [row EXCEPT ![t] = Inserted(next)]
  BY <1>0, <1>1, Zenon DEF Seed
<1>3. next \in Nat
  BY <1>1, EveryIsLater DEF NextOccurrence, Process
<1>4. x \in Process /\ x.pc = "reconciling" /\ x.at = proc[p].at /\ x.todo = todo
  BY <1>0, <1>1, <1>2 DEF Process
<1> HIDE DEF next
<1>5. Inserted(next) \in Row /\ Inserted(next).state = "pending" /\ Inserted(next).failures = 0
  BY <1>3 DEF Inserted, Pending, Row
<1>6. /\ row' \in [Task -> Row] /\ row'[t].state = "pending"
      /\ \A u \in Task : u # t => row'[u] = row[u]
      /\ row'[t] = row[t] \/ (row[t].state # "pending" /\ row'[t].failures = 0)
  BY <1>1, <1>2, <1>5
<1>7. row[t].state # "pending" => done[t] = {} /\ failed[t] = {}
  <2>1. SettledInv(t) /\ VerdictInv(t) /\ row[t].state \in {"unborn", "pending", "dead", "gone"}
    BY <1>1 DEF CInv, Row
  <2> QED
    BY <1>1, <2>1 DEF SettledInv, VerdictInv
<1>8. CInv'
  BY <1>1, <1>2, <1>6, <1>7, RowsMove
<1>9. \A u \in Recurrent : row[u].state = "pending" => row'[u].state = "pending"
  BY <1>6, TableAssumption
<1>10. ProcessOK(x)'
  <2>1. InstantOK(x)' /\ HeartOK(x)' /\ SeenOK(x)'
    BY <1>1, <1>2, <1>4 DEF ProcessOK, InstantOK, HeartOK, SeenOK
  <2>2. ASSUME NEW u \in Recurrent, <<"seed", u>> \notin todo PROVE row'[u].state = "pending"
    <3>1. CASE u = t
      BY <1>6, <3>1
    <3>2. CASE u # t
      <4>1. <<"seed", u>> \notin proc[p].todo
        BY <2>2, <3>2
      <4> QED
        BY <1>1, <1>2, <1>9, <4>1 DEF ProcessOK, SeedOK
    <3> QED
      BY <3>1, <3>2
  <2> QED
    BY <1>4, <2>1, <2>2 DEF ProcessOK, SeedOK
<1> QED
  BY <1>2, <1>4, <1>8, <1>9, <1>10, RowStep

LEMMA CorrectStep ==
  ASSUME UpkeepInv, NEW p \in Proc, NEW t \in Recurrent, Correct(p, t)
  PROVE  UpkeepInv'
<1> DEFINE todo == proc[p].todo \ {<<"correct", t>>}
           next == NextOccurrence(p, t)
           at == proc[p].at
<1>0. PICK x : x = [proc[p] EXCEPT !.todo = todo]
  OBVIOUS
<1>1. /\ proc \in [Proc -> Process] /\ proc[p] \in Process /\ ProcessOK(proc[p])
      /\ CInv /\ row \in [Task -> Row] /\ t \in Task /\ Period[t] \in Nat \ {0}
      /\ Stall < Period[t] /\ SettledPast /\ now \in Nat
      /\ done \in [Task -> SUBSET Nat] /\ failed \in [Task -> SUBSET Nat]
  BY OwnFacts, TableAssumption, UpkeepAssumption DEF UpkeepInv, CInv, ContractTypeOK
<1>2. /\ proc' = [proc EXCEPT ![p] = x] /\ proc[p].pc = "reconciling"
      /\ UNCHANGED <<now, done, failed, seenAt, shifts, starts>>
      /\ row' = row \/ (row[t].state = "pending" /\ row' = [row EXCEPT ![t].runAt = next])
  BY <1>0, <1>1, Zenon DEF Correct
<1>3. at \in Nat /\ now <= at + Stall
  BY <1>1, <1>2 DEF Process, ProcessOK, InstantOK
<1>4. next = at + Period[t]
  BY <1>1, <1>3, EveryFromNow DEF NextOccurrence
<1>5. x \in Process /\ x.pc = "reconciling" /\ x.at = proc[p].at /\ x.todo = todo
  BY <1>0, <1>1, <1>2 DEF Process
<1> HIDE DEF next, at
<1>6. next \in Nat /\ now < next
  BY <1>1, <1>3, <1>4, Numbers
<1>7. \A r \in done[t] \cup failed[t] : r < next
  <2>1. \A r \in done[t] \cup failed[t] : r \in Nat /\ r <= now
    BY <1>1 DEF SettledPast
  <2> QED
    BY <1>1, <1>6, <2>1
<1>8. /\ row' \in [Task -> Row]
      /\ \A u \in Task : u # t => row'[u] = row[u]
      /\ \/ row'[t] = row[t]
         \/ /\ row[t].state = "pending" /\ row'[t].state = "pending"
            /\ row'[t].failures = row[t].failures /\ row'[t].runAt = next
  <2>1. CASE row' = row
    BY <1>1, <2>1
  <2>2. CASE row[t].state = "pending" /\ row' = [row EXCEPT ![t].runAt = next]
    <3> DEFINE r == [row[t] EXCEPT !.runAt = next]
    <3>1. r \in Row /\ r.state = row[t].state /\ r.failures = row[t].failures /\ r.runAt = next
      BY <1>1, <1>6 DEF Row
    <3>2. row' = [row EXCEPT ![t] = r]
      BY <2>2, Zenon
    <3> HIDE DEF r
    <3> QED
      BY <1>1, <2>2, <3>1, <3>2
  <2> QED
    BY <1>2, <2>1, <2>2
<1>9. CInv'
  BY <1>1, <1>2, <1>7, <1>8, RowsMove
<1>10. \A u \in Recurrent : row[u].state = "pending" => row'[u].state = "pending"
  BY <1>8, TableAssumption
<1>11. ProcessOK(x)'
  <2>1. InstantOK(x)' /\ HeartOK(x)' /\ SeenOK(x)'
    BY <1>1, <1>2, <1>5 DEF ProcessOK, InstantOK, HeartOK, SeenOK
  <2>2. ASSUME NEW u \in Recurrent, <<"seed", u>> \notin todo PROVE row'[u].state = "pending"
    <3>1. <<"seed", u>> \notin proc[p].todo
      BY <2>2
    <3> QED
      BY <1>1, <1>2, <1>10, <3>1 DEF ProcessOK, SeedOK
  <2> QED
    BY <1>5, <2>1, <2>2 DEF ProcessOK, SeedOK
<1> QED
  BY <1>2, <1>5, <1>9, <1>10, <1>11, RowStep

LEMMA AbsorbStep ==
  ASSUME UpkeepInv, NEW p \in Proc, Absorb(p)
  PROVE  UpkeepInv'
<1> DEFINE at == proc[p].at
           from == proc[p].seen
           new == [by |-> starts, from |-> from, to |-> at]
           full == {"seed", "correct"} \X Recurrent
           outage == from # NoInstant /\ at - from > Threshold
<1>1. /\ proc \in [Proc -> Process] /\ proc[p] \in Process /\ ProcessOK(proc[p])
      /\ CInv /\ row \in [Task -> Row] /\ now \in Nat /\ starts \in 0 .. MaxStarts
      /\ seenAt \in Nat \cup {NoInstant}
      /\ shifts \subseteq [by : Nat, from : Nat, to : Nat]
  BY OwnFacts DEF UpkeepInv, UpkeepTypeOK, CInv, ContractTypeOK
<1>2. /\ proc[p].pc = "measured" /\ UNCHANGED <<now, done, failed, starts>> /\ seenAt' = at
      /\ row' = IF outage THEN Shifted(at, at - from) ELSE row
      /\ shifts' = IF outage THEN shifts \cup {new} ELSE shifts
  BY DEF Absorb
<1>3. PICK x \in Process :
        /\ proc' = [proc EXCEPT ![p] = x]
        /\ x.pc \in {"reconciling", "down"}
        /\ x.pc = "reconciling" => x.at = now /\ x.todo = full
  <2>1. PICK pc \in {"reconciling", "down"} :
          proc' = [proc EXCEPT ![p] = IF pc = "down" THEN Down
                     ELSE [[[Down EXCEPT !.pc = pc] EXCEPT !.at = now] EXCEPT !.todo = full]]
    BY DEF Absorb
  <2>2. CASE pc = "down"
    BY <2>1, <2>2, DownOK
  <2>3. CASE pc = "reconciling"
    <3> DEFINE y == [[[Down EXCEPT !.pc = "reconciling"] EXCEPT !.at = now] EXCEPT !.todo = full]
    <3>1. proc' = [proc EXCEPT ![p] = y]
      BY <2>1, <2>3
    <3>2. full \in SUBSET ({"seed", "correct"} \X Recurrent)
      OBVIOUS
    <3> HIDE DEF full
    <3>3. y \in Process /\ y.pc = "reconciling" /\ y.at = now /\ y.todo = full
      BY <1>1, <3>2, DownOK DEF Process
    <3> HIDE DEF y
    <3> QED
      BY <3>1, <3>3
  <2> QED
    BY <2>1, <2>2, <2>3
<1>4. /\ at \in Nat /\ from \in Nat \cup {NoInstant} /\ at <= now
      /\ \A s \in shifts : at > s.from /\ from > s.from
  BY <1>1, <1>2, StartedAfter DEF Process, ProcessOK, InstantOK, SeenOK
<1>5. outage => from \in Nat /\ at - from \in Nat /\ at > from + Threshold
  BY <1>4, Numbers DEF NoInstant
<1> HIDE DEF at, from, outage, full
<1>6. /\ row' \in [Task -> Row]
      /\ \A t \in Task :
           row'[t] = row[t] \/ /\ row[t].state = "pending" /\ row'[t].state = "pending"
                               /\ row'[t].failures = row[t].failures
                               /\ row'[t].runAt >= row[t].runAt /\ row'[t].runAt \in Nat
  <2>1. CASE ~outage
    BY <1>1, <1>2, <2>1
  <2>2. CASE outage
    <3> DEFINE gap == at - from
               moved(t) == [row[t] EXCEPT !.runAt = @ + gap]
    <3>1. gap \in Nat /\ row' = Shifted(at, gap)
      BY <1>2, <1>5, <2>2
    <3> HIDE DEF gap
    <3>2. ASSUME NEW t \in Task
          PROVE  /\ moved(t) \in Row /\ moved(t).state = row[t].state
                 /\ moved(t).failures = row[t].failures /\ moved(t).runAt >= row[t].runAt
                 /\ moved(t).runAt \in Nat
      BY <1>1, <3>1 DEF Row
    <3>3. row' = [t \in Task |-> IF row[t].state = "pending" /\ row[t].runAt <= at
                                 THEN moved(t) ELSE row[t]]
      BY <3>1 DEF Shifted
    <3> HIDE DEF moved
    <3> QED
      BY <1>1, <3>2, <3>3
  <2> QED
    BY <2>1, <2>2
<1>7. CInv'
  <2>1. ASSUME NEW t \in Task, row[t].state = "pending", row'[t].runAt >= row[t].runAt,
               row'[t].runAt \in Nat
        PROVE  \A r \in done[t] \cup failed[t] : r < row'[t].runAt
    <3>1. /\ row[t].runAt \in Nat /\ done[t] \subseteq Nat /\ failed[t] \subseteq Nat
          /\ \A r \in done[t] \cup failed[t] : r < row[t].runAt
      BY <1>1, <2>1 DEF CInv, ContractTypeOK, SettledInv, Row
    <3> QED
      BY <2>1, <3>1
  <2> QED
    BY <1>1, <1>2, <1>6, <2>1, RowsMove
<1>8. \A u \in Recurrent : row[u].state = "pending" => row'[u].state = "pending"
  BY <1>6, TableAssumption
<1>9. proc' \in [Proc -> Process] /\ proc'[p] = x /\ \A q \in Proc : q # p => proc'[q] = proc[q]
  BY <1>1, <1>3
<1>10. \A q \in Proc : proc'[q].pc # "measured"
  BY <1>2, <1>3, <1>9 DEF UpkeepInv, LockHeld
<1>11. /\ \A s \in shifts' : s \in shifts \/ (outage /\ s = new)
       /\ outage => new.from = from /\ new.to = at /\ new \in [by : Nat, from : Nat, to : Nat]
  BY <1>1, <1>2, <1>4, <1>5, Numbers
<1> HIDE DEF new
<1>12. SettledPast'
  BY <1>2 DEF UpkeepInv, SettledPast
<1>13. Baselines'
  <2>1. ASSUME NEW s \in shifts PROVE s.to > s.from + Threshold /\ s.to <= now /\ at > s.from
    BY <1>4 DEF UpkeepInv, Baselines
  <2>2. outage => new.to > new.from + Threshold /\ new.to <= now /\ at > new.from
    BY <1>1, <1>4, <1>5, <1>11, Numbers
  <2> QED
    BY <1>2, <1>11, <2>1, <2>2 DEF Baselines
<1>14. AbsorbedOnce'
  <2>1. ASSUME NEW s \in shifts, outage PROVE s.from # new.from
    <3>1. from > s.from /\ s.from \in Nat /\ from \in Nat
      BY <1>1, <1>4, <1>5, <2>1
    <3> QED
      BY <1>11, <2>1, <3>1
  <2> QED
    BY <1>11, <2>1 DEF UpkeepInv, AbsorbedOnce
<1>15. UpkeepTypeOK'
  BY <1>1, <1>2, <1>4, <1>9, <1>11 DEF UpkeepTypeOK
<1>16. LockHeld'
  BY <1>10 DEF LockHeld
<1>17. ProcessOK(x)'
  <2>1. SeedOK(x)' /\ SeenOK(x)' /\ HeartOK(x)'
    BY <1>3 DEF SeedOK, SeenOK, HeartOK, full
  <2>2. InstantOK(x)'
    BY <1>1, <1>2, <1>3, Numbers DEF InstantOK
  <2> QED
    BY <2>1, <2>2 DEF ProcessOK
<1>18. ASSUME NEW q \in Proc PROVE ProcessOK(proc[q])'
  <2>1. CASE q = p
    BY <1>9, <1>17, <2>1
  <2>2. CASE q # p
    <3> DEFINE y == proc[q]
    <3>1. proc'[q] = y /\ ProcessOK(y) /\ y.pc # "measured"
      BY <1>9, <1>10, <2>2 DEF UpkeepInv
    <3> QED
      BY <1>2, <1>8, <3>1, Stays
  <2> QED
    BY <2>1, <2>2
<1> QED
  BY <1>7, <1>12, <1>13, <1>14, <1>15, <1>16, <1>18 DEF UpkeepInv

\* Time passes: no instant is overtaken by more than its bound.
LEMMA UpkeepTickStep == ASSUME UpkeepInv, UpkeepTick PROVE UpkeepInv'
<1>1. /\ now \in Nat /\ now' = now + 1 /\ UNCHANGED <<row, done, failed, seenAt, proc, shifts, starts>>
      /\ proc \in [Proc -> Process] /\ CInv
      /\ \A t \in Task : done[t] \subseteq Nat /\ failed[t] \subseteq Nat
  BY DEF UpkeepTick, Tick, tableVars, UpkeepInv, UpkeepTypeOK, CInv, ContractTypeOK
<1>2. CInv'
  BY <1>1, NextCInv DEF UpkeepTick, Next
<1>3. SettledPast'
  BY <1>1 DEF UpkeepInv, SettledPast
<1>4. Baselines'
  BY <1>1 DEF UpkeepInv, UpkeepTypeOK, Baselines
<1>5. UpkeepTypeOK' /\ LockHeld' /\ AbsorbedOnce'
  BY <1>1 DEF UpkeepInv, UpkeepTypeOK, LockHeld, AbsorbedOnce
<1>6. ASSUME NEW q \in Proc PROVE ProcessOK(proc[q])'
  <2>1. PICK y : y = proc[q]
    OBVIOUS
  <2>2. /\ y \in Process /\ ProcessOK(y)
        /\ y.pc \in {"absorbing", "measured", "reconciling"} => now - y.at < Stall
        /\ y.pc = "up" => now - y.beat < Late
    BY <1>1, <2>1 DEF UpkeepInv, UpkeepTick
  <2>3. SeedOK(y)' /\ SeenOK(y)'
    BY <1>1, <2>2 DEF ProcessOK, SeedOK, SeenOK
  <2>4. y.at \in Nat /\ y.beat \in Nat
    BY <2>2 DEF Process
  <2>5. InstantOK(y)'
    BY <1>1, <2>2, <2>4, Numbers DEF ProcessOK, InstantOK
  <2>6. HeartOK(y)'
    BY <1>1, <2>2, <2>4, Numbers DEF ProcessOK, HeartOK
  <2>7. ProcessOK(y)'
    BY <2>3, <2>5, <2>6 DEF ProcessOK
  <2>8. proc'[q] = y
    BY <1>1, <2>1
  <2> QED
    BY <2>7, <2>8
<1> QED
  BY <1>2, <1>3, <1>4, <1>5, <1>6 DEF UpkeepInv

\* A settlement of the contract: what it settles was due, and a recurrence's
\* row stays.
LEMMA SettledStep ==
  ASSUME CInv, SettledPast, NEW t \in Task, Schedule(t) \/ Complete(t) \/ Fail(t) \/ Refuse(t)
  PROVE  /\ now' = now /\ SettledPast'
         /\ \A u \in Recurrent : row[u].state = "pending" => row'[u].state = "pending"
<1>1. /\ row \in [Task -> Row] /\ now \in Nat /\ row[t] \in Row /\ row[t].runAt \in Nat
      /\ done \in [Task -> SUBSET Nat] /\ failed \in [Task -> SUBSET Nat] /\ SettledInv(t)
  BY DEF CInv, ContractTypeOK, Row
<1>2. CASE Schedule(t)
  <2>1. UNCHANGED <<now, done, failed>> /\ t \notin Recurrent
    BY <1>2, TableAssumption DEF Schedule
  <2>2. \A u \in Task : u # t => row'[u] = row[u]
    BY <1>1, <1>2 DEF Schedule
  <2> QED
    BY <2>1, <2>2, TableAssumption DEF SettledPast
<1>3. CASE Complete(t)
  <2>1. PICK s \in row[t].runAt .. now : row' = [row EXCEPT ![t] = DoneRow(t, row[t], s)]
    BY <1>3 DEF Complete
  <2>2. /\ row'[t] = DoneRow(t, row[t], s) /\ \A u \in Task : u # t => row'[u] = row[u]
        /\ UNCHANGED <<now, failed>> /\ done' = [done EXCEPT ![t] = @ \cup {row[t].runAt}]
        /\ row[t].runAt <= now /\ Settleable(t, row[t], s)
    BY <1>1, <1>3, <2>1 DEF Complete, Due, Settleable, SettledInv
  <2>3. t \in Recurrent => row'[t].state = "pending"
    BY <2>2, DoneRowFacts
  <2>4. SettledPast'
    BY <1>1, <2>2 DEF SettledPast
  <2> QED
    BY <2>2, <2>3, <2>4, TableAssumption
<1>4. CASE Fail(t)
  <2>1. PICK s \in row[t].runAt .. now : row' = [row EXCEPT ![t] = FailedRow(t, row[t], s)]
    BY <1>4 DEF Fail
  <2>2. /\ row'[t] = FailedRow(t, row[t], s) /\ \A u \in Task : u # t => row'[u] = row[u]
        /\ UNCHANGED <<now, done>> /\ failed' = [failed EXCEPT ![t] = @ \cup {row[t].runAt}]
        /\ row[t].runAt <= now /\ Settleable(t, row[t], s)
    BY <1>1, <1>4, <2>1 DEF Fail, Due, Settleable, SettledInv
  <2>3. t \in Recurrent => row'[t].state = "pending"
    BY <2>2, FailedRowFacts, TableAssumption
  <2>4. SettledPast'
    BY <1>1, <2>2 DEF SettledPast
  <2> QED
    BY <2>2, <2>3, <2>4, TableAssumption
<1>5. CASE Refuse(t)
  <2>1. UNCHANGED <<now, done, failed>> /\ t \notin Recurrent
    BY <1>5 DEF Refuse, Registered
  <2>2. \A u \in Task : u # t => row'[u] = row[u]
    BY <1>1, <1>5 DEF Refuse
  <2> QED
    BY <2>1, <2>2, TableAssumption DEF SettledPast
<1> QED
  BY <1>2, <1>3, <1>4, <1>5

LEMMA WorkStep == ASSUME UpkeepInv, Work PROVE UpkeepInv'
<1>1. PICK t \in Task : Schedule(t) \/ Complete(t) \/ Fail(t) \/ Refuse(t)
  BY DEF Work
<1>2. UNCHANGED <<seenAt, proc, shifts, starts>> /\ proc \in [Proc -> Process]
  BY OwnFacts DEF Work, UpkeepInv, UpkeepTypeOK
<1>3. CInv'
  BY <1>1, NextCInv DEF Next, UpkeepInv
<1>4. /\ now' = now /\ SettledPast'
      /\ \A u \in Recurrent : row[u].state = "pending" => row'[u].state = "pending"
  BY <1>1, SettledStep DEF UpkeepInv
<1>5. UpkeepTypeOK' /\ LockHeld' /\ Baselines' /\ AbsorbedOnce'
  BY <1>2, <1>4 DEF UpkeepInv, UpkeepTypeOK, LockHeld, Baselines, AbsorbedOnce
<1>6. ASSUME NEW q \in Proc PROVE ProcessOK(proc[q])'
  <2> DEFINE y == proc[q]
  <2>1. proc'[q] = y /\ ProcessOK(y)
    BY <1>2 DEF UpkeepInv
  <2> QED
    BY <1>2, <1>4, <2>1, Stays
<1> QED
  BY <1>3, <1>4, <1>5, <1>6 DEF UpkeepInv

LEMMA UpkeepKeepsInv == UpkeepInv /\ [UpkeepNext]_upkeepVars => UpkeepInv'
<1> SUFFICES ASSUME UpkeepInv, [UpkeepNext]_upkeepVars PROVE UpkeepInv'
  OBVIOUS
<1>1. CASE UpkeepTick
  BY <1>1, UpkeepTickStep
<1>2. CASE Work
  BY <1>2, WorkStep
<1>3. ASSUME NEW p \in Proc, Begin(p) PROVE UpkeepInv'
  BY <1>3, BeginStep
<1>4. ASSUME NEW p \in Proc, Measure(p) PROVE UpkeepInv'
  BY <1>4, MeasureStep
<1>5. ASSUME NEW p \in Proc, Absorb(p) PROVE UpkeepInv'
  BY <1>5, AbsorbStep
<1>6. ASSUME NEW p \in Proc, Up(p) PROVE UpkeepInv'
  BY <1>6, UpStep
<1>7. ASSUME NEW p \in Proc, RefreshOK(p) PROVE UpkeepInv'
  BY <1>7, RefreshOKStep
<1>8. ASSUME NEW p \in Proc, RefreshFails(p) PROVE UpkeepInv'
  BY <1>8, RefreshFailsStep
<1>9. ASSUME NEW p \in Proc, Die(p) \/ Exit(p) PROVE UpkeepInv'
  BY <1>9, DieStep
<1>10. ASSUME NEW p \in Proc, NEW t \in Recurrent, Seed(p, t) PROVE UpkeepInv'
  BY <1>10, SeedStep
<1>11. ASSUME NEW p \in Proc, NEW t \in Recurrent, Correct(p, t) PROVE UpkeepInv'
  BY <1>11, CorrectStep
<1>12. CASE UNCHANGED upkeepVars
  <2>1. /\ UNCHANGED <<now, row, done, failed, seenAt, proc, shifts, starts>>
        /\ proc \in [Proc -> Process]
    BY <1>12 DEF upkeepVars, UpkeepInv, UpkeepTypeOK
  <2>2. CInv' /\ SettledPast'
    BY <2>1 DEF UpkeepInv, CInv, ContractTypeOK, SettledInv, VerdictInv, Streak, SettledPast
  <2>3. UpkeepTypeOK' /\ LockHeld' /\ Baselines' /\ AbsorbedOnce'
    BY <2>1 DEF UpkeepInv, UpkeepTypeOK, LockHeld, Baselines, AbsorbedOnce
  <2>4. ASSUME NEW q \in Proc PROVE ProcessOK(proc[q])'
    <3> DEFINE y == proc[q]
    <3>1. proc'[q] = y /\ ProcessOK(y)
      BY <2>1 DEF UpkeepInv
    <3> QED
      BY <2>1, <3>1, Stays
  <2> QED
    BY <2>2, <2>3, <2>4 DEF UpkeepInv
<1> QED
  BY <1>1, <1>2, <1>3, <1>4, <1>5, <1>6, <1>7, <1>8, <1>9, <1>10, <1>11, <1>12 DEF UpkeepNext

LEMMA UpkeepStart == UpkeepInit => UpkeepInv
<1> SUFFICES ASSUME UpkeepInit PROVE UpkeepInv
  OBVIOUS
<1>1. PICK new \in SUBSET Recurrent :
        row = [t \in Task |->
                CASE t \in OneShot \cup new       -> Unborn
                  [] t \in Recurrent \ new        -> Inserted(OldPeriod[t])
                  [] OTHER                        -> Inserted(0)]
  BY DEF UpkeepInit
<1>2. ASSUME NEW t \in Task
      PROVE  /\ row[t] \in Row
             /\ row[t].state \in {"unborn", "pending"}
             /\ row[t].failures = 0
             /\ row[t].state = "pending" => t \notin OneShot
  <2>1. CASE t \in OneShot \cup new
    <3>1. t \notin Recurrent \ new
      BY <2>1, TableAssumption
    <3>2. row[t] = Unborn
      BY <1>1, <2>1, <3>1
    <3> QED
      BY <3>2 DEF Unborn, Row
  <2>2. CASE t \in Recurrent \ new
    <3>1. row[t] = Inserted(OldPeriod[t]) /\ t \notin OneShot
      BY <1>1, <2>2, TableAssumption
    <3>2. OldPeriod[t] \in Nat
      BY <2>2, UpkeepAssumption
    <3> QED
      BY <3>1, <3>2 DEF Inserted, Pending, Row
  <2>3. CASE t \notin OneShot /\ t \notin Recurrent
    <3>1. row[t] = Inserted(0)
      BY <1>1, <2>3
    <3> QED
      BY <3>1, <2>3 DEF Inserted, Pending, Row
  <2> QED
    BY <2>1, <2>2, <2>3
<1>3. /\ now = 0 /\ shifts = {} /\ starts = 0 /\ seenAt \in {NoInstant, 0}
      /\ proc = [p \in Proc |-> Down]
      /\ done = [t \in Task |-> {}] /\ failed = [t \in Task |-> {}]
  BY DEF UpkeepInit
<1>4. row \in [Task -> Row]
  <2>1. row = [t \in Task |-> row[t]]
    BY <1>1
  <2> QED
    BY <1>2, <2>1
<1>5. ContractTypeOK
  BY <1>3, <1>4 DEF ContractTypeOK
<1>6. \A t \in Task : done[t] = {} /\ failed[t] = {} /\ Streak(t) = {}
  BY <1>3 DEF Streak
<1>7. \A t \in Task : SettledInv(t)
  BY <1>2, <1>6, FS_EmptySet DEF SettledInv
<1>8. \A t \in Task : VerdictInv(t)
  BY <1>2, <1>6, FS_EmptySet DEF VerdictInv
<1>9. SettledPast /\ Baselines /\ AbsorbedOnce
  BY <1>3, <1>6 DEF SettledPast, Baselines, AbsorbedOnce
<1>10. UpkeepTypeOK
  BY <1>3, DownOK, Numbers DEF UpkeepTypeOK
<1>11. LockHeld /\ \A p \in Proc : ProcessOK(proc[p])
  BY <1>3, DownOK DEF LockHeld
<1> QED
  BY <1>5, <1>7, <1>8, <1>9, <1>10, <1>11 DEF UpkeepInv, CInv
----------------------------------------------------------------------------
\* Whatever starts, dies, beats and settles beside each other, the inductive
\* invariant holds.
THEOREM UpkeepInvariant == UpkeepSpec => []UpkeepInv
<1> QED
  BY UpkeepStart, UpkeepKeepsInv, PTL DEF UpkeepSpec

\* The contract of the task table survives every shift of AbsorbDowntime and
\* every seed and correction of Reconcile.
THEOREM UpkeepKeepsContract == UpkeepSpec => []VerdictsAreSound
<1>1. UpkeepInv => VerdictsAreSound
  BY CInvImplies DEF UpkeepInv
<1> QED
  BY <1>1, UpkeepInvariant, PTL

\* No stored instant is measured into two shifts, however many processes start
\* at once (AbsorbDowntime's row lock and the baseline it moves).
THEOREM AbsorbedOnceTheorem == UpkeepSpec => []AbsorbedOnce
<1>1. UpkeepInv => AbsorbedOnce
  BY DEF UpkeepInv
<1> QED
  BY <1>1, UpkeepInvariant, PTL

\* A heartbeat that gave up has not reported a good refresh for the downtime
\* threshold, less the time of one refresh (failureTolerance).
THEOREM GivesUpHonestlyTheorem == UpkeepSpec => []GivesUpHonestly
<1>1. UpkeepInv => GivesUpHonestly
  BY DEF UpkeepInv, GivesUpHonestly, ProcessOK, HeartOK
<1> QED
  BY <1>1, UpkeepInvariant, PTL

\* While a process is up every declared recurrence has a pending row.
THEOREM RecurrenceNeverLostTheorem == UpkeepSpec => []RecurrenceNeverLost
<1>1. UpkeepInv => RecurrenceNeverLost
  BY DEF UpkeepInv, RecurrenceNeverLost, ProcessOK, SeedOK
<1> QED
  BY <1>1, UpkeepInvariant, PTL
=============================================================================
