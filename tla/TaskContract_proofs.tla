------------------------ MODULE TaskContract_proofs -------------------------
(***************************************************************************)
(* Facts about the row operators of TaskTable, and the invariants of the   *)
(* contract for every set of tasks, every cadence and every retry policy.  *)
(***************************************************************************)
EXTENDS TaskContract, FiniteSetTheorems, TLAPS

\* Every returns an instant strictly after both the previous occurrence and
\* the settlement instant: a recurrence never comes back already settled.
LEMMA EveryIsLater ==
  ASSUME NEW period \in Nat \ {0}, NEW prev \in Nat, NEW s \in Nat
  PROVE  /\ Every(period, prev, s) \in Nat
         /\ Every(period, prev, s) > prev
         /\ Every(period, prev, s) > s
<1>1. CASE s < prev
  BY <1>1 DEF Every
<1>2. CASE ~(s < prev)
  <2> DEFINE q == (s - prev) \div period
  <2>1. s - prev \in Nat
    BY <1>2
  <2>2. q \in Nat /\ s - prev < (q + 1) * period
    <3>1. q \in Int /\ period * q <= s - prev /\ s - prev < period * q + period
      BY <2>1, Z3
    <3>2. q >= 0
      BY <2>1, Z3
    <3>3. (q + 1) * period = period * q + period
      BY <3>1, Z3
    <3> QED
      BY <3>1, <3>2, <3>3
  <2>3. (q + 1) * period \in Nat /\ (q + 1) * period > 0
    BY <2>1, <2>2, Z3
  <2>4. Every(period, prev, s) = prev + (q + 1) * period
    BY <1>2 DEF Every
  <2> HIDE DEF q
  <2> QED
    BY <2>1, <2>2, <2>3, <2>4
<1> QED
  BY <1>1, <1>2

\* A pending row with attempts left, and a settlement instant for it.
Settleable(t, r, s) ==
  /\ t \in Registered
  /\ r \in Row /\ r.state = "pending"
  /\ t \in OneShot => r.failures < RetryMaxAttempts
  /\ s \in Nat /\ r.runAt <= s

\* A success removes a one-shot's row and moves a recurrence's row to a later
\* occurrence with a clean count.
LEMMA DoneRowFacts ==
  ASSUME NEW t, NEW r, NEW s, Settleable(t, r, s)
  PROVE  /\ DoneRow(t, r, s) \in Row
         /\ t \in OneShot => DoneRow(t, r, s) = Gone
         /\ t \in Recurrent =>
              /\ DoneRow(t, r, s).state = "pending"
              /\ DoneRow(t, r, s).runAt > r.runAt
              /\ DoneRow(t, r, s).failures = 0
<1>1. CASE t \in Recurrent
  <2>1. Period[t] \in Nat \ {0} /\ t \notin OneShot
    BY <1>1, TableAssumption
  <2>2. Every(Period[t], r.runAt, s) \in Nat /\ Every(Period[t], r.runAt, s) > r.runAt
    BY <2>1, EveryIsLater DEF Settleable, Row
  <2> QED
    BY <1>1, <2>1, <2>2 DEF DoneRow, Settleable, Row, Pending
<1>2. CASE t \notin Recurrent
  BY <1>2 DEF DoneRow, Settleable, Registered, Gone, Row
<1> QED
  BY <1>1, <1>2

\* A counted failure adds one to the count; it makes a one-shot dead exactly
\* at the cap, and otherwise moves the row to a later run_at.
LEMMA FailedRowFacts ==
  ASSUME NEW t, NEW r, NEW s, Settleable(t, r, s)
  PROVE  /\ FailedRow(t, r, s) \in Row
         /\ FailedRow(t, r, s).failures = r.failures + 1
         /\ \/ /\ FailedRow(t, r, s).state = "dead"
               /\ t \in OneShot
               /\ r.failures + 1 = RetryMaxAttempts
            \/ /\ FailedRow(t, r, s).state = "pending"
               /\ FailedRow(t, r, s).runAt > r.runAt
               /\ t \in OneShot => r.failures + 1 < RetryMaxAttempts
<1> DEFINE k == r.failures + 1
<1>0. k \in Nat /\ RetryMaxAttempts \in Nat
  BY TableAssumption DEF Settleable, Row
<1>1. CASE t \in Recurrent
  <2>1. Period[t] \in Nat \ {0} /\ t \notin OneShot
    BY <1>1, TableAssumption
  <2>2. Every(Period[t], r.runAt, s) \in Nat /\ Every(Period[t], r.runAt, s) > r.runAt
    BY <2>1, EveryIsLater DEF Settleable, Row
  <2>3. FailedRow(t, r, s) = Pending(Every(Period[t], r.runAt, s), k)
    BY <1>1 DEF FailedRow
  <2> QED
    BY <1>0, <2>1, <2>2, <2>3 DEF Settleable, Row, Pending
<1>2. CASE t \notin Recurrent /\ k >= RetryMaxAttempts
  <2>1. FailedRow(t, r, s) = Dead(r.runAt, k)
    BY <1>2 DEF FailedRow
  <2> QED
    BY <1>0, <1>2, <2>1 DEF Settleable, Row, Registered, Dead
<1>3. CASE t \notin Recurrent /\ ~(k >= RetryMaxAttempts)
  <2>1. RetryDelay[k - 1] \in Nat \ {0}
    <3>1. k - 1 \in 0..(RetryMaxAttempts - 1)
      BY <1>0, <1>3 DEF Settleable, Row
    <3> QED
      BY <3>1, TableAssumption
  <2>2. FailedRow(t, r, s) = Pending(s + RetryDelay[k - 1], k)
    BY <1>3 DEF FailedRow
  <2> QED
    BY <1>0, <1>3, <2>1, <2>2 DEF Settleable, Row, Registered, Pending
<1> QED
  BY <1>1, <1>2, <1>3

\* A postponed row stays pending, at a later run_at and with the same count.
LEMMA PostponedRowFacts ==
  ASSUME NEW r \in Row, NEW s \in Nat, r.runAt <= s
  PROVE  /\ PostponedRow(r, s) \in Row
         /\ PostponedRow(r, s).state = "pending"
         /\ PostponedRow(r, s).runAt > r.runAt
         /\ PostponedRow(r, s).failures = r.failures
BY TableAssumption DEF PostponedRow, Pending, Row
----------------------------------------------------------------------------
\* A step that changes only task t's row and history keeps what holds of the
\* other tasks.
LEMMA OthersKept ==
  ASSUME ContractTypeOK, NEW t \in Task, NEW u \in Task, u # t,
         SettledInv(u), VerdictInv(u),
         row'[u] = row[u], done'[u] = done[u], failed'[u] = failed[u]
  PROVE  SettledInv(u)' /\ VerdictInv(u)'
BY DEF SettledInv, VerdictInv, Streak

LEMMA InitCInv == Init => CInv
<1> SUFFICES ASSUME Init PROVE CInv
  OBVIOUS
<1>1. \A t \in Task : /\ row[t] \in Row
                      /\ row[t].state \in {"unborn", "pending"}
                      /\ row[t].failures = 0
                      /\ row[t].state = "unborn" => t \in OneShot
                      /\ row[t].state = "pending" => t \notin OneShot
  <2> SUFFICES ASSUME NEW t \in Task
               PROVE  /\ row[t] \in Row
                      /\ row[t].state \in {"unborn", "pending"}
                      /\ row[t].failures = 0
                      /\ row[t].state = "unborn" => t \in OneShot
                      /\ row[t].state = "pending" => t \notin OneShot
    OBVIOUS
  <2>1. CASE t \in OneShot
    <3>1. row[t] = Unborn
      BY <2>1, TableAssumption DEF Init
    <3> QED
      BY <3>1, <2>1 DEF Unborn, Row
  <2>2. CASE t \in Recurrent
    <3>1. row[t] = Inserted(Every(Period[t], 0, 0)) /\ t \notin OneShot
      BY <2>2, TableAssumption DEF Init
    <3>2. Every(Period[t], 0, 0) \in Nat
      BY <2>2, TableAssumption, EveryIsLater
    <3> QED
      BY <3>1, <3>2 DEF Inserted, Pending, Row
  <2>3. CASE t \notin OneShot /\ t \notin Recurrent
    <3>1. row[t] = Inserted(0)
      BY <2>3, TableAssumption DEF Init
    <3> QED
      BY <3>1, <2>3 DEF Inserted, Pending, Row
  <2> QED
    BY <2>1, <2>2, <2>3
<1>2. now \in Nat
  BY DEF Init
<1>3. row \in [Task -> Row]
  <2>1. row = [t \in Task |-> row[t]]
    BY DEF Init
  <2> QED
    BY <1>1, <2>1
<1>4. \A t \in Task : done[t] = {} /\ failed[t] = {}
  BY DEF Init
<1>5. done \in [Task -> SUBSET Nat] /\ failed \in [Task -> SUBSET Nat]
  BY DEF Init
<1>6. \A t \in Task : SettledInv(t)
  BY <1>1, <1>4, FS_EmptySet, TableAssumption DEF SettledInv
<1>7. \A t \in Task : Streak(t) = {}
  BY <1>4 DEF Streak
<1>8. \A t \in Task : VerdictInv(t)
  BY <1>1, <1>4, <1>7, FS_EmptySet DEF VerdictInv
<1> QED
  BY <1>2, <1>3, <1>5, <1>6, <1>8 DEF CInv, ContractTypeOK

LEMMA ScheduleCInv ==
  ASSUME CInv, NEW t \in Task, Schedule(t)
  PROVE  CInv'
<1>1. PICK d \in Delays : row' = [row EXCEPT ![t] = Inserted(now + d)]
  BY DEF Schedule
<1>2. now + d \in Nat
  BY ContractAssumption DEF CInv, ContractTypeOK
<1>3. row'[t] = Inserted(now + d) /\ \A u \in Task : u # t => row'[u] = row[u]
  BY <1>1 DEF CInv, ContractTypeOK
<1>4. UNCHANGED <<now, done, failed>> /\ t \in OneShot /\ row[t].state = "unborn"
  BY DEF Schedule
<1>5. ContractTypeOK'
  <2>1. Inserted(now + d) \in Row
    BY <1>2 DEF Inserted, Pending, Row
  <2> QED
    BY <1>1, <1>4, <2>1 DEF CInv, ContractTypeOK
<1>6. done[t] = {} /\ failed[t] = {}
  BY <1>4 DEF CInv, SettledInv
<1>7. SettledInv(t)'
  <2>1. done'[t] = {} /\ failed'[t] = {} /\ IsFiniteSet(failed'[t])
    BY <1>4, <1>6, FS_EmptySet
  <2>2. row'[t].state = "pending" /\ row'[t].failures = 0
    BY <1>3 DEF Inserted, Pending
  <2> QED
    BY <2>1, <2>2, TableAssumption DEF SettledInv
<1>8. VerdictInv(t)'
  <2>1. Streak(t)' = {}
    BY <1>4, <1>6 DEF Streak
  <2> QED
    BY <1>3, <1>4, <1>6, <2>1, FS_EmptySet DEF VerdictInv, Inserted, Pending
<1> QED
  BY <1>3, <1>4, <1>5, <1>7, <1>8, OthersKept DEF CInv

LEMMA CompleteCInv ==
  ASSUME CInv, NEW t \in Task, Complete(t)
  PROVE  CInv'
<1>1. PICK s \in row[t].runAt .. now : row' = [row EXCEPT ![t] = DoneRow(t, row[t], s)]
  BY DEF Complete
<1> DEFINE r == row[t].runAt
           new == DoneRow(t, row[t], s)
<1>2. /\ row \in [Task -> Row] /\ row[t] \in Row /\ r \in Nat /\ now \in Nat
      /\ done \in [Task -> SUBSET Nat] /\ failed \in [Task -> SUBSET Nat]
      /\ SettledInv(t) /\ VerdictInv(t)
  BY DEF CInv, ContractTypeOK, Row
<1>3. /\ t \in Registered /\ row[t].state = "pending"
      /\ now' = now /\ failed' = failed
      /\ done' = [done EXCEPT ![t] = @ \cup {r}]
  BY DEF Complete, Due
<1>4. Settleable(t, row[t], s)
  BY <1>2, <1>3 DEF Settleable, SettledInv
<1>5. /\ new \in Row
      /\ t \in OneShot => new = Gone
      /\ t \in Recurrent => new.state = "pending" /\ new.runAt > r /\ new.failures = 0
  BY <1>4, DoneRowFacts
<1>6. /\ row'[t] = new /\ done'[t] = done[t] \cup {r} /\ failed'[t] = failed[t]
      /\ \A u \in Task : u # t =>
           row'[u] = row[u] /\ done'[u] = done[u] /\ failed'[u] = failed[u]
  BY <1>1, <1>2, <1>3
<1>7. ContractTypeOK'
  BY <1>1, <1>2, <1>3, <1>5 DEF ContractTypeOK
<1>8. \A q \in done[t] \cup failed[t] : q < r
  BY <1>2, <1>3 DEF SettledInv
<1>9. new.runAt \in Nat /\ (t \in OneShot => new.state = "gone") /\ (t \in OneShot \/ t \in Recurrent)
  BY <1>3, <1>5 DEF Row, Gone, Registered
<1>10. IsFiniteSet(failed[t]) /\ (t \in OneShot => done[t] = {})
  BY <1>2, <1>3 DEF SettledInv
<1> HIDE DEF r, new
<1>11. t \in Recurrent => t \notin OneShot
  BY TableAssumption
<1>12. SettledInv(t)'
  <2>1. t \in Recurrent => \A q \in done'[t] \cup failed'[t] : q < new.runAt
    BY <1>2, <1>5, <1>6, <1>8, <1>9
  <2> QED
    BY <1>5, <1>6, <1>9, <1>10, <1>11, <2>1 DEF SettledInv
<1>13. VerdictInv(t)'
  <2>1. done'[t] \cap failed'[t] = {}
    BY <1>2, <1>6, <1>8 DEF VerdictInv
  <2>2. Streak(t)' = {}
    BY <1>2, <1>6, <1>8 DEF Streak
  <2>3. t \in OneShot => Cardinality(done'[t]) = 1
    <3>1. t \in OneShot => done'[t] = {r}
      BY <1>6, <1>10
    <3> QED
      BY <3>1, FS_Singleton
  <2> QED
    BY <1>5, <1>6, <1>9, <1>11, <2>1, <2>2, <2>3, FS_EmptySet DEF VerdictInv
<1> QED
  BY <1>6, <1>7, <1>12, <1>13, OthersKept DEF CInv

LEMMA FailCInv ==
  ASSUME CInv, NEW t \in Task, Fail(t)
  PROVE  CInv'
<1>1. PICK s \in row[t].runAt .. now : row' = [row EXCEPT ![t] = FailedRow(t, row[t], s)]
  BY DEF Fail
<1> DEFINE r == row[t].runAt
           new == FailedRow(t, row[t], s)
<1>2. /\ row \in [Task -> Row] /\ row[t] \in Row /\ r \in Nat /\ now \in Nat
      /\ done \in [Task -> SUBSET Nat] /\ failed \in [Task -> SUBSET Nat]
      /\ SettledInv(t) /\ VerdictInv(t)
  BY DEF CInv, ContractTypeOK, Row
<1>3. /\ t \in Registered /\ row[t].state = "pending"
      /\ now' = now /\ done' = done
      /\ failed' = [failed EXCEPT ![t] = @ \cup {r}]
  BY DEF Fail, Due
<1>4. Settleable(t, row[t], s)
  BY <1>2, <1>3 DEF Settleable, SettledInv
<1>5. /\ new \in Row
      /\ new.failures = row[t].failures + 1
      /\ \/ /\ new.state = "dead"
            /\ t \in OneShot
            /\ row[t].failures + 1 = RetryMaxAttempts
         \/ /\ new.state = "pending"
            /\ new.runAt > r
            /\ t \in OneShot => row[t].failures + 1 < RetryMaxAttempts
  BY <1>4, FailedRowFacts
<1>6. /\ row'[t] = new /\ failed'[t] = failed[t] \cup {r} /\ done'[t] = done[t]
      /\ \A u \in Task : u # t =>
           row'[u] = row[u] /\ done'[u] = done[u] /\ failed'[u] = failed[u]
  BY <1>1, <1>2, <1>3
<1>7. ContractTypeOK'
  BY <1>1, <1>2, <1>3, <1>5 DEF ContractTypeOK
<1>8. \A q \in done[t] \cup failed[t] : q < r
  BY <1>2, <1>3 DEF SettledInv
<1>9. /\ new.runAt \in Nat /\ row[t].failures \in Nat /\ t \in Registered
      /\ row[t].failures = Cardinality(Streak(t))
      /\ IsFiniteSet(failed[t]) /\ (t \in OneShot => done[t] = {})
  BY <1>2, <1>3, <1>5 DEF Row, SettledInv, VerdictInv
<1> HIDE DEF r, new
<1>10. IsFiniteSet(failed'[t])
  BY <1>6, <1>9, FS_AddElement
<1>11. SettledInv(t)'
  <2>1. new.state = "pending" => \A q \in done'[t] \cup failed'[t] : q < new.runAt
    BY <1>2, <1>5, <1>6, <1>8, <1>9
  <2> QED
    BY <1>5, <1>6, <1>9, <1>10, <2>1 DEF SettledInv
<1>12. VerdictInv(t)'
  <2>1. done'[t] \cap failed'[t] = {}
    BY <1>2, <1>6, <1>8 DEF VerdictInv
  <2>2. Streak(t)' = Streak(t) \cup {r} /\ r \notin Streak(t)
    BY <1>2, <1>6, <1>8 DEF Streak
  <2>3. IsFiniteSet(Streak(t))
    BY <1>9, FS_Subset DEF Streak
  <2>4. Cardinality(Streak(t)') = new.failures
    BY <1>5, <1>9, <2>2, <2>3, FS_AddElement
  <2>5. t \in OneShot => Streak(t)' = failed'[t]
    BY <1>6, <1>9 DEF Streak
  <2> QED
    BY <1>5, <1>6, <1>9, <2>1, <2>4, <2>5 DEF VerdictInv
<1> QED
  BY <1>6, <1>7, <1>11, <1>12, OthersKept DEF CInv

LEMMA RefuseCInv ==
  ASSUME CInv, NEW t \in Task, Refuse(t)
  PROVE  CInv'
<1>1. PICK s \in row[t].runAt .. now : row' = [row EXCEPT ![t] = PostponedRow(row[t], s)]
  BY DEF Refuse
<1> DEFINE new == PostponedRow(row[t], s)
<1>2. /\ row \in [Task -> Row] /\ row[t] \in Row /\ row[t].runAt \in Nat /\ now \in Nat
      /\ done \in [Task -> SUBSET Nat] /\ failed \in [Task -> SUBSET Nat]
      /\ SettledInv(t) /\ VerdictInv(t)
  BY DEF CInv, ContractTypeOK, Row
<1>3. /\ t \notin Registered /\ t \notin OneShot /\ row[t].state = "pending"
      /\ now' = now /\ done' = done /\ failed' = failed
  BY DEF Refuse, Due, Registered
<1>4. s \in Nat /\ row[t].runAt <= s
  BY <1>2
<1>5. new \in Row /\ new.state = "pending" /\ new.runAt > row[t].runAt
  BY <1>2, <1>4, PostponedRowFacts
<1>6. /\ row'[t] = new /\ failed'[t] = failed[t] /\ done'[t] = done[t]
      /\ \A u \in Task : u # t =>
           row'[u] = row[u] /\ done'[u] = done[u] /\ failed'[u] = failed[u]
  BY <1>1, <1>2, <1>3
<1>7. ContractTypeOK'
  BY <1>1, <1>2, <1>3, <1>5 DEF ContractTypeOK
<1>8. new.runAt \in Nat
  BY <1>5 DEF Row
<1> HIDE DEF new
<1>9. SettledInv(t)'
  <2>1. \A q \in done'[t] \cup failed'[t] : q < new.runAt
    BY <1>2, <1>3, <1>5, <1>6, <1>8 DEF SettledInv
  <2>2. IsFiniteSet(failed'[t])
    BY <1>2, <1>6 DEF SettledInv
  <2> QED
    BY <1>3, <1>5, <1>6, <2>1, <2>2 DEF SettledInv
<1>10. VerdictInv(t)'
  BY <1>2, <1>3, <1>5, <1>6 DEF VerdictInv
<1> QED
  BY <1>6, <1>7, <1>9, <1>10, OthersKept DEF CInv

LEMMA NextCInv == CInv /\ [Next]_contractVars => CInv'
<1> SUFFICES ASSUME CInv, [Next]_contractVars PROVE CInv'
  OBVIOUS
<1>1. ASSUME NEW t \in Task, Schedule(t) PROVE CInv'
  BY <1>1, ScheduleCInv
<1>2. ASSUME NEW t \in Task, Complete(t) PROVE CInv'
  BY <1>2, CompleteCInv
<1>3. ASSUME NEW t \in Task, Fail(t) PROVE CInv'
  BY <1>3, FailCInv
<1>4. ASSUME NEW t \in Task, Refuse(t) PROVE CInv'
  BY <1>4, RefuseCInv
<1>5. ASSUME now' \in Nat, UNCHANGED tableVars PROVE CInv'
  BY <1>5 DEF tableVars, CInv, ContractTypeOK, SettledInv, VerdictInv, Streak
<1>6. CASE Tick
  <2>1. now' \in Nat /\ UNCHANGED tableVars
    BY <1>6 DEF Tick, CInv, ContractTypeOK
  <2> QED
    BY <1>5, <2>1
<1>7. CASE UNCHANGED contractVars
  <2>1. now' \in Nat /\ UNCHANGED tableVars
    BY <1>7 DEF contractVars, tableVars, CInv, ContractTypeOK
  <2> QED
    BY <1>5, <2>1
<1> QED
  BY <1>1, <1>2, <1>3, <1>4, <1>6, <1>7 DEF Next
----------------------------------------------------------------------------
\* Every row and its history satisfy the inductive invariant of the contract.
THEOREM ContractInvariant == Spec => []CInv
<1> QED
  BY InitCInv, NextCInv, PTL DEF Spec

LEMMA CInvImplies == CInv => VerdictsAreSound
<1> SUFFICES ASSUME CInv
             PROVE  VerdictsAreSound
  OBVIOUS
<1>1. \A t \in Task : VerdictInv(t)
  BY DEF CInv
<1>2. OneVerdict
  BY <1>1 DEF VerdictInv, OneVerdict
<1>3. FailuresAreDistinct
  <2>1. Registered \subseteq Task
    BY TableAssumption DEF Registered
  <2> QED
    BY <1>1, <2>1 DEF VerdictInv, FailuresAreDistinct, Streak
<1>4. TerminalIsEarned
  BY <1>1 DEF VerdictInv, TerminalIsEarned
<1> QED
  BY <1>2, <1>3, <1>4 DEF VerdictsAreSound

\* Under the contract no occurrence has two verdicts, consecutive_failures is
\* the number of distinct failures since the last success, and a row ends
\* only as its type and its history allow.
THEOREM ContractIsSound == Spec => []VerdictsAreSound
<1> QED
  BY ContractInvariant, CInvImplies, PTL
=============================================================================
