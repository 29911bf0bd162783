------------------------------ MODULE MCLedger ------------------------------
(***************************************************************************)
(* Two players' backpacks, World, money; two instances; requests that      *)
(* race for the same instance, the same last slot and the same operation,  *)
(* a swap, and documents that are replayed or unbalanced.                  *)
(***************************************************************************)
EXTENDS Ledger, TLC

CONSTANTS p1, p2, w, b1, b2, grant, fetch, trade, none, nowhere

MCAccount == 1..8
MCControlled == {3, 4, 5, 6, 8}
MCKindOf == [a \in MCAccount |-> IF a \in {7, 8} THEN "money" ELSE "slots"]
MCFree == (w :> 1) @@ (b1 :> 3) @@ (b2 :> 5)
MCUsed == (w :> 2) @@ (b1 :> 4) @@ (b2 :> 6)

Posts(amounts) == [a \in MCAccount |-> IF a \in DOMAIN amounts THEN amounts[a] ELSE 0]
Nothing == Posts(<<>>)
Moves(i, f, t) == [item |-> i, from |-> f, to |-> t, mint |-> FALSE]
Mints(i, t) == [item |-> i, from |-> w, to |-> t, mint |-> TRUE]
Doc(o, ms, ps) == [op |-> o, moves |-> ms, postings |-> ps]

MCRequest == {
  Doc(grant, {}, Posts((1 :> -3) @@ (3 :> 1) @@ (5 :> 2))),
  Doc(none, {Mints(1, b1), Mints(2, b2)}, Posts((7 :> -1) @@ (8 :> 1))),
  Doc(fetch, {Moves(1, b1, b2)}, Nothing),
  Doc(none, {Moves(1, b2, b1)}, Nothing),
  Doc(trade, {Moves(1, b1, w)}, Posts((7 :> 1) @@ (8 :> -1))),
  Doc(trade, {Moves(1, b1, b2), Moves(2, b2, b1)}, Nothing),
  Doc(trade, {Moves(2, b2, b1)}, Nothing),
  Doc(fetch, {}, Posts((7 :> 1) @@ (3 :> -1)))
}
Sessions == Permutations(Tx)
=============================================================================
