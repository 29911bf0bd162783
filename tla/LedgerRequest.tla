--------------------------- MODULE LedgerRequest ----------------------------
(***************************************************************************)
(* What callers ask of package store: one document (basis), the movements  *)
(* of instances between holders, and the caller's own postings.  A request *)
(* without movements is a Post, one with movements a Move.  Amounts are    *)
(* integers: numeric(30,5) in units of its scale.                          *)
(***************************************************************************)
EXTENDS Integers, FiniteSets, Functions

CONSTANTS
  MaxId,        \* the largest id (the columns are bigint)
  Account,      \* account ids
  Controlled,   \* those with an account_balance row
  Kind,         \* ledger kinds
  KindOf,       \* account_definition.kind of each account
  Holder,       \* scopes that have a slots free/used pair
  World,        \* the World scope, whose accounts are uncontrolled
  Nowhere,      \* where an instance is before it is minted
  Free, Used,   \* the slots accounts of each holder
  Item,         \* instance ids
  Op,           \* (source, operation_id) pairs of player operations
  NoOp,         \* any other basis: it has no idempotency key
  Request       \* the requests of the model

\* Movements carry the instance, and say whether it is minted; postings are
\* the net amount per account.
ASSUME RequestAssumption ==
  /\ MaxId \in Nat
  /\ Account \subseteq 0..MaxId /\ Controlled \subseteq Account
  /\ KindOf \in [Account -> Kind]
  /\ World \in Holder /\ Nowhere \notin Holder
  /\ Free \in [Holder -> Account] /\ Used \in [Holder -> Account]
  /\ \A g, h \in Holder : Free[g] # Used[h]
  /\ Used[World] \notin Controlled
  /\ \A g, h \in Holder : Used[g] = Used[h] => g = h
  /\ \A g, h \in Holder : Free[g] = Free[h] => g = h
  /\ Item \subseteq 0..MaxId /\ IsFiniteSet(Item)
  /\ NoOp \notin Op
  /\ Request # {}
  /\ \A r \in Request :
       /\ r.op \in Op \cup {NoOp}
       /\ r.moves \subseteq [item : Item, from : Holder, to : Holder, mint : BOOLEAN]
       /\ r.postings \in [Account -> Int]
       /\ \A h \in Holder : r.postings[Used[h]] = 0   \* only Move posts there

Items(r) == {m.item : m \in r.moves}
MoveOf(r, i) == CHOOSE m \in r.moves : m.item = i
Minted(r) == {m.item : m \in {k \in r.moves : k.mint}}

\* Move, phase a: no SQL is issued for a request that fails it.
WellShaped(r) ==
  \A m \in r.moves :
    /\ m.from # m.to                                    \* ErrSelfMove
    /\ m.mint => m.from = World                         \* ErrMintNotFromWorld
    /\ \A n \in r.moves : n.item = m.item => n = m      \* ErrDuplicateItem

\* Move, phase c: the derived capacity legs, summed per holder.
Arriving(r, h) == {m \in r.moves : m.to = h}
Leaving(r, h) == {m \in r.moves : m.from = h}
\* Mutant of Net: the legs of the source are left out.
NetNoLeaving(r, h) == Cardinality(Arriving(r, h))
Net(r, h) == Cardinality(Arriving(r, h)) - Cardinality(Leaving(r, h))

Legs(r, a) ==
  IF \E h \in Holder : Used[h] = a
  THEN Net(r, CHOOSE h \in Holder : Used[h] = a)
  ELSE IF \E h \in Holder : Free[h] = a
       THEN - Net(r, CHOOSE h \in Holder : Free[h] = a)
       ELSE 0

\* post, phase c: the summed delta of an account, and the check per kind.
Delta(r, a) == r.postings[a] + Legs(r, a)
Deltas(r) == [a \in Account |-> Delta(r, a)]

\* Mutant of Balanced: one sum for all kinds together.
BalancedOverall(r) == SumFunctionOnSet(Deltas(r), Account) = 0

AccountsOf(k) == {a \in Account : KindOf[a] = k}

Balanced(r) == \A k \in Kind : SumFunctionOnSet(Deltas(r), AccountsOf(k)) = 0

\* post, phase e: the balances the request updates.
Touched(r) == {a \in Controlled : Delta(r, a) # 0}
=============================================================================
