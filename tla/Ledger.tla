------------------------------- MODULE Ledger -------------------------------
(***************************************************************************)
(* Package store's Post and Move, as READ COMMITTED transactions that run  *)
(* at the same time.  Each carries one request.  Its rows are seen by the  *)
(* others once it commits, and dbVars are the committed rows; until then   *)
(* they meet it only where PostgreSQL makes them wait: at the unique index *)
(* of the operation, at the successor index of an instance's chain, and at *)
(* the row of a balance.                                                   *)
(***************************************************************************)
EXTENDS SerialLedger

CONSTANTS
  Tx,           \* sessions, each running one transaction at a time
  MaxUnkeyed    \* bound of the model: entries of documents without a key

ASSUME LedgerAssumption == MaxUnkeyed \in Nat

VARIABLES
  pc,           \* where each transaction is in Move (or Post)
  req,          \* its request
  head,         \* prev_movement_id: the chain heads it read
  moved,        \* the instances whose movement it has inserted
  updated       \* the balances it has updated

txVars == <<pc, req, head, moved, updated>>
vars == <<dbVars, txVars>>

TypeOK ==
  /\ STypeOK
  /\ pc \in [Tx -> {"idle", "read", "basis", "write"}]
  /\ req \in [Tx -> Request]
  /\ head \in [Tx -> [Item -> Nat]]
  /\ moved \in [Tx -> SUBSET Item]
  /\ updated \in [Tx -> SUBSET Controlled]

Init ==
  /\ SInit
  /\ pc = [p \in Tx |-> "idle"]
  /\ req = [p \in Tx |-> CHOOSE r \in Request : TRUE]
  /\ head = [p \in Tx |-> [i \in Item |-> 0]]
  /\ moved = [p \in Tx |-> {}]
  /\ updated = [p \in Tx |-> {}]

----------------------------------------------------------------------------
\* The transaction ends; unless it committed, nothing it wrote remains.
Finish(p) ==
  /\ pc' = [pc EXCEPT ![p] = "idle"]
  /\ moved' = [moved EXCEPT ![p] = {}]
  /\ updated' = [updated EXCEPT ![p] = {}]
  /\ UNCHANGED <<req, head>>

\* The movement and the balance p has to write next: both in ascending id.
NextItem(p, i) ==
  /\ pc[p] = "write"
  /\ i \in Items(req[p]) \ moved[p]
  /\ \A j \in Items(req[p]) \ moved[p] : i <= j

\* Mutants of NextAccount: balances before movements; in descending order.
NextAccountFirst(p, a) ==
  /\ pc[p] = "write"
  /\ a \in Touched(req[p]) \ updated[p]
  /\ \A b \in Touched(req[p]) \ updated[p] : a <= b
NextAccountCaptureOrder(p, a) ==
  /\ pc[p] = "write" /\ moved[p] = Items(req[p])
  /\ a \in Touched(req[p]) \ updated[p]

NextAccount(p, a) ==
  /\ pc[p] = "write" /\ moved[p] = Items(req[p])
  /\ a \in Touched(req[p]) \ updated[p]
  /\ \A b \in Touched(req[p]) \ updated[p] : a <= b

\* Who keeps p waiting at the index of its operation.
OpRival(p, q) ==
  /\ q # p /\ pc[q] = "write"
  /\ req[p].op \in Op /\ req[q].op = req[p].op
----------------------------------------------------------------------------
(* Move and Post, phase by phase *)

\* The caller opens a transaction; phase a lets the request through.  The id
\* of a minted instance is new: no other transaction has drawn it.
Begin(p, r) ==
  /\ pc[p] = "idle"
  /\ WellShaped(r)
  /\ \A i \in Minted(r) :
       /\ chain[i] = <<>>
       /\ \A q \in Tx : pc[q] # "idle" => i \notin Minted(req[q])
  /\ r.op = NoOp => entries[NoOp] < MaxUnkeyed
  /\ pc' = [pc EXCEPT ![p] = "read"]
  /\ req' = [req EXCEPT ![p] = r]
  /\ UNCHANGED <<dbVars, head, moved, updated>>

\* Phase b's verdict on the heads it reads (ErrUnknownItem,
\* ErrNotCurrentHolder), and post's phase c.
IsHeld(m) == chain[m.item] # <<>> /\ chain[m.item][Len(chain[m.item])].to = m.from
Admissible(r) == (\A m \in r.moves : m.mint \/ IsHeld(m)) /\ Balanced(r)

ReadHeads(p) ==
  /\ pc[p] = "read"
  /\ Admissible(req[p])
  /\ head' = [head EXCEPT ![p] = [i \in Item |-> Len(chain[i])]]
  /\ pc' = [pc EXCEPT ![p] = "basis"]
  /\ UNCHANGED <<dbVars, req, moved, updated>>

Refuse(p) ==
  /\ pc[p] = "read"
  /\ ~Admissible(req[p])
  /\ Finish(p)
  /\ UNCHANGED dbVars

\* Mutant of InsertBasis: a plain read decides whether the operation is new.
InsertBasisUnindexed(p) ==
  /\ pc[p] = "basis"
  /\ req[p].op \in Op => entries[req[p].op] = 0
  /\ pc' = [pc EXCEPT ![p] = "write"]
  /\ UNCHANGED <<dbVars, req, head, moved, updated>>

\* Phase d: the document, unless another transaction has an entry for the
\* operation in hand, and the journal entry.
InsertBasis(p) ==
  /\ pc[p] = "basis"
  /\ req[p].op \in Op => entries[req[p].op] = 0
  /\ \A q \in Tx : ~OpRival(p, q)
  /\ pc' = [pc EXCEPT ![p] = "write"]
  /\ UNCHANGED <<dbVars, req, head, moved, updated>>

\* ErrAlreadyPosted: nothing was written.
AlreadyPosted(p) ==
  /\ pc[p] = "basis"
  /\ req[p].op \in Op /\ entries[req[p].op] > 0
  /\ Finish(p)
  /\ UNCHANGED dbVars

\* Who keeps p waiting at the successor index: the same predecessor's
\* successor, inserted and not yet committed.
SlotRival(p, q, i) == q # p /\ i \in moved[q] /\ head[q][i] = head[p][i]

\* Mutant of InsertMovement: no successor index.
InsertMovementUnindexed(p, i) ==
  /\ NextItem(p, i)
  /\ moved' = [moved EXCEPT ![p] = @ \cup {i}]
  /\ UNCHANGED <<dbVars, pc, req, head, updated>>

\* Phases e and f: the successor of the head that was read.
InsertMovement(p, i) ==
  /\ NextItem(p, i)
  /\ \A q \in Tx : ~SlotRival(p, q, i)
  /\ Len(chain[i]) = head[p][i]
  /\ moved' = [moved EXCEPT ![p] = @ \cup {i}]
  /\ UNCHANGED <<dbVars, pc, req, head, updated>>

\* ErrMoveConflict: that head has a successor by now.
MoveConflict(p, i) ==
  /\ NextItem(p, i)
  /\ Len(chain[i]) > head[p][i]
  /\ Finish(p)
  /\ UNCHANGED dbVars

\* Mutant of UpdateBalance: the row is not locked to the end of the transaction.
UpdateBalanceUnlocked(p, a) ==
  /\ NextAccount(p, a)
  /\ balance[a] + Delta(req[p], a) >= 0
  /\ updated' = [updated EXCEPT ![p] = @ \cup {a}]
  /\ UNCHANGED <<dbVars, pc, req, head, moved>>

\* Phase e of post: balance + delta, on the row as last committed.
UpdateBalance(p, a) ==
  /\ NextAccount(p, a)
  /\ \A q \in Tx \ {p} : a \notin updated[q]
  /\ balance[a] + Delta(req[p], a) >= 0
  /\ updated' = [updated EXCEPT ![p] = @ \cup {a}]
  /\ UNCHANGED <<dbVars, pc, req, head, moved>>

\* ErrOverdraft: the CHECK on the balance refuses.
Overdraft(p, a) ==
  /\ NextAccount(p, a)
  /\ \A q \in Tx \ {p} : a \notin updated[q]
  /\ balance[a] + Delta(req[p], a) < 0
  /\ Finish(p)
  /\ UNCHANGED dbVars

\* Phase f, and the caller's COMMIT.  A caller whose acknowledgement is lost
\* is one that may begin the same request again.
Commit(p) ==
  /\ pc[p] = "write" /\ moved[p] = Items(req[p]) /\ updated[p] = Touched(req[p])
  /\ balance' = [a \in Controlled |->
                   IF a \in updated[p] THEN balance[a] + Delta(req[p], a) ELSE balance[a]]
  /\ posted' = [a \in Account |-> posted[a] + Delta(req[p], a)]
  /\ entries' = [entries EXCEPT ![req[p].op] = @ + 1]
  /\ chain' = [i \in Item |->
                 IF i \in moved[p]
                 THEN Append(chain[i], RowOf(MoveOf(req[p], i))) ELSE chain[i]]
  /\ Finish(p)

\* Any other error, a cancelled context, a crash, PostgreSQL's deadlock
\* detector: the transaction is rolled back.
Abort(p) ==
  /\ pc[p] # "idle"
  /\ Finish(p)
  /\ UNCHANGED dbVars

Step(p) ==
  \/ \E r \in Request : Begin(p, r)
  \/ ReadHeads(p) \/ Refuse(p) \/ InsertBasis(p) \/ AlreadyPosted(p)
  \/ \E i \in Item : InsertMovement(p, i) \/ MoveConflict(p, i)
  \/ \E a \in Controlled : UpdateBalance(p, a) \/ Overdraft(p, a)
  \/ Commit(p) \/ Abort(p)

Next == \E p \in Tx : Step(p)

Spec == Init /\ [][Next]_vars
----------------------------------------------------------------------------
(* Properties *)

\* The concurrent transactions are serializable: each commit is a document
\* taking effect at once, on a ledger where it may.
ImplementsSerial == SSpec

\* "ErrOverdraft on a source holder's slots_used account is not a capacity
\* refusal at all but the two machines having already diverged" (Move): a
\* lost race is refused at the chain before it can look like one.
UsedNeverOverdrawn ==
  [][\A p \in Tx : \A h \in Holder : Used[h] \in Controlled => ~Overdraft(p, Used[h])]_vars

\* Transactions of one document each never wait for each other in a circle:
\* operation, then instances, then balances, each in ascending id (post, Move).
WaitsFor(p, q) ==
  \/ pc[p] = "basis" /\ OpRival(p, q)
  \/ \E i \in Item : NextItem(p, i) /\ SlotRival(p, q, i)
  \/ \E a \in Controlled : NextAccount(p, a) /\ q # p /\ a \in updated[q]

NoDeadlock ==
  \A S \in SUBSET Tx : S # {} => \E p \in S : \A q \in S : ~WaitsFor(p, q)
----------------------------------------------------------------------------
(***************************************************************************)
(* The inductive invariant.  What a transaction read stays true of the     *)
(* rows it has taken: nobody else can give an instance the same successor, *)
(* update the same balance or write the same operation before it ends.     *)
(***************************************************************************)
\* A request in progress; its minted instances are its own.
RequestInv(p) ==
  pc[p] # "idle" =>
    /\ WellShaped(req[p])
    /\ \A i \in Minted(req[p]) :
         /\ chain[i] = <<>>
         /\ \A q \in Tx : pc[q] # "idle" /\ i \in Minted(req[q]) => q = p

\* What phase b found: each instance was then where the request has it.
HeadInv(p) ==
  pc[p] \in {"basis", "write"} =>
    /\ Balanced(req[p])
    /\ \A m \in req[p].moves :
         /\ head[p][m.item] <= Len(chain[m.item])
         /\ ~m.mint => /\ head[p][m.item] > 0
                       /\ chain[m.item][head[p][m.item]].to = m.from

\* The rows taken at the three places where transactions meet.
OpInv(p) ==
  pc[p] = "write" /\ req[p].op \in Op =>
    /\ entries[req[p].op] = 0
    /\ \A q \in Tx : ~OpRival(p, q)

SlotInv(p) ==
  /\ moved[p] # {} => pc[p] = "write"
  /\ moved[p] \subseteq Items(req[p])
  /\ \A i \in moved[p] :
       /\ head[p][i] = Len(chain[i])
       /\ \A j \in Items(req[p]) \ moved[p] : i < j
       /\ \A q \in Tx \ {p} : i \notin moved[q]

LockInv(p) ==
  /\ updated[p] # {} => pc[p] = "write" /\ moved[p] = Items(req[p])
  /\ updated[p] \subseteq Touched(req[p])
  /\ \A a \in updated[p] :
       /\ balance[a] + Delta(req[p], a) >= 0
       /\ \A b \in Touched(req[p]) \ updated[p] : a < b
       /\ \A q \in Tx \ {p} : a \notin updated[q]

LedgerInv ==
  /\ TypeOK
  /\ \A p \in Tx : RequestInv(p) /\ HeadInv(p) /\ OpInv(p) /\ SlotInv(p) /\ LockInv(p)
=============================================================================
