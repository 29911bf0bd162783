---------------------------- MODULE SerialLedger ----------------------------
(***************************************************************************)
(* What package store promises of Post and Move: documents take effect one *)
(* at a time and whole, whatever the transactions that carry them overlap  *)
(* with.                                                                   *)
(***************************************************************************)
EXTENDS LedgerRequest, Sequences

VARIABLES
  balance,   \* account_balance.balance of the controlled accounts
  posted,    \* the sum of each account's posting rows
  entries,   \* journal entries of each operation
  chain      \* item_movement rows of each instance, in id order

dbVars == <<balance, posted, entries, chain>>

Row == [from : Holder, to : Holder]
RowOf(m) == [from |-> m.from, to |-> m.to]

STypeOK ==
  /\ balance \in [Controlled -> Int]
  /\ posted \in [Account -> Int]
  /\ entries \in [Op \cup {NoOp} -> Nat]
  /\ chain \in [Item -> Seq(Row)]

SInit ==
  /\ balance = [a \in Controlled |-> 0]
  /\ posted = [a \in Account |-> 0]
  /\ entries = [o \in Op \cup {NoOp} |-> 0]
  /\ chain = [i \in Item |-> <<>>]

\* The view item_holder: where each instance is.
at == [i \in Item |-> IF chain[i] = <<>> THEN Nowhere ELSE chain[i][Len(chain[i])].to]

\* A document may take effect: it is well formed and new, every instance is
\* where the document takes it from, and no balance would go negative.
Applicable(r) ==
  /\ WellShaped(r) /\ Balanced(r)
  /\ r.op \in Op => entries[r.op] = 0
  /\ \A m \in r.moves : at[m.item] = IF m.mint THEN Nowhere ELSE m.from
  /\ \A a \in Touched(r) : balance[a] + Delta(r, a) >= 0

Apply(r) ==
  /\ Applicable(r)
  /\ balance' = [a \in Controlled |-> balance[a] + Delta(r, a)]
  /\ posted' = [a \in Account |-> posted[a] + Delta(r, a)]
  /\ entries' = [entries EXCEPT ![r.op] = @ + 1]
  /\ chain' = [i \in Item |->
                 IF i \in Items(r) THEN Append(chain[i], RowOf(MoveOf(r, i))) ELSE chain[i]]

SNext == \E r \in Request : Apply(r)

SSpec == SInit /\ [][SNext]_dbVars
----------------------------------------------------------------------------
(* Properties *)

\* No controlled account is ever overdrawn (Post).
NoOverdraft == \A a \in Controlled : balance[a] >= 0

\* A balance is the sum of its postings (Post writes both or neither).
BalanceIsPosted == \A a \in Controlled : balance[a] = posted[a]

\* The books balance: postings sum to zero within every kind, over all
\* accounts, World's included (Post).
ZeroSum == \A k \in Kind : SumFunctionOnSet(posted, AccountsOf(k)) = 0

\* item_capacity_divergence is empty: a holder's slots_used balance is the
\* number of instances it holds (Move).
CapacityAgrees ==
  \A h \in Holder : Used[h] \in Controlled =>
    balance[Used[h]] = Cardinality({i \in Item : at[i] = h})

\* item_chain_break is empty: every movement of an instance leaves from where
\* the one before it arrived, the first from World (Move).
ChainUnbroken ==
  \A i \in Item : \A k \in 1..Len(chain[i]) :
    chain[i][k].from = IF k = 1 THEN World ELSE chain[i][k - 1].to

\* A player operation is posted at most once (ErrAlreadyPosted).
PostedOnce == \A o \in Op : entries[o] <= 1

SerialInv ==
  /\ STypeOK
  /\ NoOverdraft /\ BalanceIsPosted /\ ZeroSum
  /\ CapacityAgrees /\ ChainUnbroken /\ PostedOnce
=============================================================================
