--------------------------- MODULE Ledger_proofs ----------------------------
(***************************************************************************)
(* The serial ledger's invariant; the concurrent ledger's inductive        *)
(* invariant, that it implements the serial one, and what follows, for any *)
(* number of sessions, accounts, holders, instances and requests.          *)
(***************************************************************************)
EXTENDS Ledger, FiniteSetTheorems, FunctionTheorems, SequenceTheorems,
        WellFoundedInduction, TLAPS
----------------------------------------------------------------------------
(* The serial ledger *)

\* Movements of distinct instances are as many as their instances.
LEMMA AsManyItems ==
  ASSUME RequestAssumption, NEW r \in Request, WellShaped(r), NEW M \in SUBSET r.moves
  PROVE  LET I == {m.item : m \in M}
         IN  /\ I \subseteq Item /\ IsFiniteSet(I)
             /\ IsFiniteSet(M) /\ Cardinality(M) = Cardinality(I)
<1> DEFINE I == {m.item : m \in M}
           f == [m \in M |-> m.item]
<1>1. \A m \in M : m.item \in Item  BY DEF RequestAssumption
<1>2. I \subseteq Item
  <2>1. ASSUME NEW i \in I PROVE i \in Item
    <3>1. PICK m \in M : i = m.item  BY <2>1
    <3> QED  BY <1>1, <3>1
  <2> QED  BY <2>1
<1>3. IsFiniteSet(I)  BY <1>2, FS_Subset DEF RequestAssumption
<1>4. \A m, n \in M : m.item = n.item => m = n  BY DEF WellShaped
<1>5. f \in Bijection(M, I)
  <2>1. f \in [M -> I]  OBVIOUS
  <2>2. \A m, n \in M : f[m] = f[n] => m = n  BY <1>4
  <2>3. \A i \in I : \E m \in M : f[m] = i  OBVIOUS
  <2> HIDE DEF f, I
  <2> QED  BY <2>1, <2>2, <2>3, Fun_IsBij
<1>6. ExistsBijection(M, I)  BY <1>5 DEF ExistsBijection
<1>7. ExistsBijection(I, M)  BY <1>6, Fun_ExistsBijSymmetric
<1> HIDE DEF I, f
<1>8. IsFiniteSet(M) /\ Cardinality(M) = Cardinality(I)  BY <1>3, <1>7, FS_Bijection
<1> QED  BY <1>2, <1>3, <1>8 DEF I

\* The capacity legs and the deltas are integers; a "used" account moves by
\* what arrives less what leaves.
LEMMA NetFacts ==
  ASSUME RequestAssumption, NEW r \in Request, WellShaped(r), NEW h \in Holder
  PROVE  /\ Net(r, h) \in Int
         /\ Delta(r, Used[h]) = Net(r, h)
<1>1. Net(r, h) \in Int
  <2>1. /\ IsFiniteSet(Arriving(r, h)) /\ IsFiniteSet(Leaving(r, h))
    BY AsManyItems DEF Arriving, Leaving
  <2>2. Cardinality(Arriving(r, h)) \in Nat /\ Cardinality(Leaving(r, h)) \in Nat
    BY <2>1, FS_CardinalityType
  <2> QED  BY <2>2 DEF Net
<1>2. (CHOOSE g \in Holder : Used[g] = Used[h]) = h  BY DEF RequestAssumption
<1>3. Legs(r, Used[h]) = Net(r, h)  BY <1>2 DEF Legs
<1>4. r.postings[Used[h]] = 0  BY DEF RequestAssumption
<1> QED  BY <1>1, <1>3, <1>4 DEF Delta

LEMMA DeltaIsInt ==
  ASSUME RequestAssumption, NEW r \in Request, WellShaped(r), NEW a \in Account
  PROVE  Delta(r, a) \in Int
<1>1. r.postings[a] \in Int  BY DEF RequestAssumption
<1>2. \A h \in Holder : Net(r, h) \in Int  BY NetFacts
<1>3. Legs(r, a) \in Int
  <2>1. CASE \E h \in Holder : Used[h] = a
    <3>1. (CHOOSE h \in Holder : Used[h] = a) \in Holder  BY <2>1
    <3> QED  BY <1>2, <2>1, <3>1 DEF Legs
  <2>2. CASE ~(\E h \in Holder : Used[h] = a) /\ \E h \in Holder : Free[h] = a
    <3>1. (CHOOSE h \in Holder : Free[h] = a) \in Holder  BY <2>2
    <3> QED  BY <1>2, <2>2, <3>1 DEF Legs
  <2>3. CASE ~(\E h \in Holder : Used[h] = a) /\ ~(\E h \in Holder : Free[h] = a)
    BY <2>3 DEF Legs
  <2> QED  BY <2>1, <2>2, <2>3
<1> QED  BY <1>1, <1>3 DEF Delta

LEMMA MoveOfFact ==
  ASSUME RequestAssumption, NEW r \in Request, WellShaped(r), NEW m \in r.moves
  PROVE  /\ m.item \in Items(r) /\ MoveOf(r, m.item) = m
         /\ m.item \in Item /\ m.from \in Holder /\ m.to \in Holder
         /\ RowOf(m) \in Row /\ RowOf(m).from = m.from /\ RowOf(m).to = m.to
<1>1. m.item \in Item /\ m.from \in Holder /\ m.to \in Holder  BY DEF RequestAssumption
<1>2. m.item \in Items(r)  BY DEF Items
<1>3. MoveOf(r, m.item) = m  BY DEF MoveOf, WellShaped
<1> QED  BY <1>1, <1>2, <1>3 DEF RowOf, Row

\* A document appends its movement to the chain of each of its instances.
LEMMA ChainAfter ==
  ASSUME RequestAssumption, STypeOK, NEW r \in Request, Apply(r)
  PROVE  /\ \A m \in r.moves : chain'[m.item] = Append(chain[m.item], RowOf(m))
         /\ \A i \in Item \ Items(r) : chain'[i] = chain[i]
         /\ chain' \in [Item -> Seq(Row)]
<1>1. WellShaped(r)  BY DEF Apply, Applicable
<1>2. ASSUME NEW m \in r.moves
      PROVE  /\ chain'[m.item] = Append(chain[m.item], RowOf(m))
             /\ chain'[m.item] \in Seq(Row)
  <2>1. m.item \in Items(r) /\ MoveOf(r, m.item) = m /\ m.item \in Item /\ RowOf(m) \in Row
    BY <1>1, MoveOfFact
  <2>2. chain'[m.item] = Append(chain[m.item], RowOf(m))  BY <2>1 DEF Apply
  <2>3. chain[m.item] \in Seq(Row)  BY <2>1 DEF STypeOK
  <2> QED  BY <2>1, <2>2, <2>3, AppendProperties
<1>3. ASSUME NEW i \in Item \ Items(r) PROVE chain'[i] = chain[i]  BY DEF Apply
<1>4. ASSUME NEW i \in Item PROVE chain'[i] \in Seq(Row)
  <2>1. CASE i \in Items(r)
    <3>1. PICK m \in r.moves : i = m.item  BY <2>1 DEF Items
    <3> QED  BY <1>2, <3>1
  <2>2. CASE i \notin Items(r)  BY <1>3, <2>2 DEF STypeOK
  <2> QED  BY <2>1, <2>2
<1>5. chain' \in [Item -> Seq(Row)]  BY <1>4 DEF Apply
<1> QED  BY <1>2, <1>3, <1>5

\* Where a document leaves each instance.
LEMMA AtAfter ==
  ASSUME RequestAssumption, STypeOK, NEW r \in Request, Apply(r)
  PROVE  /\ \A m \in r.moves : at'[m.item] = m.to
         /\ \A i \in Item \ Items(r) : at'[i] = at[i]
<1>1. WellShaped(r)  BY DEF Apply, Applicable
<1>2. ASSUME NEW m \in r.moves PROVE at'[m.item] = m.to
  <2>1. /\ m.item \in Item /\ RowOf(m) \in Row /\ RowOf(m).to = m.to
        /\ chain[m.item] \in Seq(Row)
    BY <1>1, MoveOfFact DEF STypeOK
  <2>2. chain'[m.item] = Append(chain[m.item], RowOf(m))  BY ChainAfter
  <2>3. chain'[m.item] # <<>> /\ chain'[m.item][Len(chain'[m.item])] = RowOf(m)
    BY <2>1, <2>2, AppendProperties
  <2> QED  BY <2>1, <2>3 DEF at
<1>3. ASSUME NEW i \in Item \ Items(r) PROVE at'[i] = at[i]  BY ChainAfter DEF at
<1> QED  BY <1>2, <1>3

Held(h) == {i \in Item : at[i] = h}

\* What a holder holds changes as its capacity legs say.
LEMMA HeldAfter ==
  ASSUME RequestAssumption, STypeOK, NEW r \in Request, Apply(r),
         NEW h \in Holder, h # World
  PROVE  Cardinality(Held(h)') = Cardinality(Held(h)) + Net(r, h)
<1> DEFINE goes == {m.item : m \in Leaving(r, h)}
           comes == {m.item : m \in Arriving(r, h)}
<1>1. WellShaped(r) /\ \A m \in r.moves : at[m.item] = IF m.mint THEN Nowhere ELSE m.from
  BY DEF Apply, Applicable
<1>2. /\ IsFiniteSet(goes) /\ Cardinality(goes) = Cardinality(Leaving(r, h))
      /\ IsFiniteSet(comes) /\ Cardinality(comes) = Cardinality(Arriving(r, h))
      /\ goes \subseteq Item /\ comes \subseteq Item
  BY <1>1, AsManyItems DEF Leaving, Arriving
<1>3. IsFiniteSet(Held(h))  BY FS_Subset DEF Held, RequestAssumption
<1>4. goes \subseteq Held(h)
  <2>1. ASSUME NEW m \in Leaving(r, h) PROVE m.item \in Held(h)
    <3>1. m \in r.moves /\ m.from = h  BY DEF Leaving
    <3>2. ~m.mint  BY <1>1, <3>1 DEF WellShaped
    <3> QED  BY <1>1, <3>1, <3>2 DEF Held, RequestAssumption
  <2> QED  BY <2>1
<1>5. Held(h) \cap comes = {}
  <2>1. ASSUME NEW m \in Arriving(r, h) PROVE m.item \notin Held(h)
    <3>1. m \in r.moves /\ m.to = h /\ m.from # h  BY <1>1 DEF Arriving, WellShaped
    <3> QED  BY <1>1, <3>1 DEF Held, RequestAssumption
  <2> QED  BY <2>1
<1>6. Held(h)' = (Held(h) \ goes) \cup comes
  <2>1. ASSUME NEW i \in Item \ Items(r)
        PROVE  (i \in Held(h)' <=> i \in Held(h)) /\ i \notin goes /\ i \notin comes
    BY AtAfter DEF Held, Items, Leaving, Arriving
  <2>2. ASSUME NEW m \in r.moves
        PROVE  m.item \in Held(h)' <=> m.item \in (Held(h) \ goes) \cup comes
    <3>1. m.item \in Item /\ (m.item \in Held(h)' <=> m.to = h)
      BY AtAfter DEF Held, RequestAssumption
    <3>2. m.to = h => m.item \in comes  BY DEF Arriving
    <3>3. m.item \in comes => m.to = h
      BY <1>1 DEF Arriving, WellShaped
    <3>4. m.item \in Held(h) => m.item \in goes
      <4>1. SUFFICES ASSUME at[m.item] = h PROVE m.item \in goes  BY DEF Held
      <4>2. m.from = h  BY <1>1, <4>1 DEF RequestAssumption
      <4> QED  BY <4>2 DEF Leaving
    <3> QED  BY <3>1, <3>2, <3>3, <3>4
  <2>3. Held(h)' \subseteq Item /\ (Held(h) \ goes) \cup comes \subseteq Item
    BY <1>2 DEF Held
  <2>4. \A i \in Items(r) : \E m \in r.moves : i = m.item  BY DEF Items
  <2> HIDE DEF goes, comes
  <2>5. ASSUME NEW i \in Item PROVE i \in Held(h)' <=> i \in (Held(h) \ goes) \cup comes
    <3>1. CASE i \in Items(r)
      <4>1. PICK m \in r.moves : i = m.item  BY <2>4, <3>1
      <4> QED  BY <2>2, <4>1
    <3>2. CASE i \notin Items(r)  BY <2>1, <3>2
    <3> QED  BY <3>1, <3>2
  <2> DEFINE before == Held(h)
             after == Held(h)'
  <2>6. after \subseteq Item /\ (before \ goes) \cup comes \subseteq Item  BY <2>3
  <2>7. \A i \in Item : i \in after <=> i \in (before \ goes) \cup comes  BY <2>5
  <2> HIDE DEF before, after
  <2>8. after = (before \ goes) \cup comes  BY <2>6, <2>7
  <2> QED  BY <2>8 DEF before, after
<1> HIDE DEF goes, comes
<1>7. /\ IsFiniteSet(Held(h) \ goes)
      /\ Cardinality(Held(h) \ goes) = Cardinality(Held(h)) - Cardinality(goes)
  <2> DEFINE before == Held(h)
  <2>1. IsFiniteSet(before) /\ before \cap goes = goes  BY <1>3, <1>4
  <2> HIDE DEF before
  <2>2. /\ IsFiniteSet(before \ goes)
        /\ Cardinality(before \ goes) = Cardinality(before) - Cardinality(before \cap goes)
    BY <2>1, FS_Difference
  <2> QED  BY <2>1, <2>2 DEF before
<1>8. Cardinality(Held(h)') = Cardinality(Held(h) \ goes) + Cardinality(comes)
  <2>1. (Held(h) \ goes) \cap comes = {}  BY <1>5
  <2>2. /\ Cardinality((Held(h) \ goes) \cap comes) = 0
        /\ Cardinality(Held(h) \ goes) \in Nat /\ Cardinality(comes) \in Nat
    BY <1>2, <1>7, <2>1, FS_EmptySet, FS_CardinalityType
  <2>3. Cardinality((Held(h) \ goes) \cup comes) =
          Cardinality(Held(h) \ goes) + Cardinality(comes) - Cardinality((Held(h) \ goes) \cap comes)
    BY <1>2, <1>7, FS_Union
  <2> QED  BY <1>6, <2>2, <2>3
<1>9. /\ Cardinality(Held(h)) \in Nat /\ Cardinality(goes) \in Nat /\ Cardinality(comes) \in Nat
  BY <1>2, <1>3, FS_CardinalityType
<1> QED  BY <1>2, <1>7, <1>8, <1>9 DEF Net

----------------------------------------------------------------------------
(* Sums over finite sets *)

\* The least element of a set of naturals.
LEMMA LeastOf ==
  ASSUME NEW S \in SUBSET Nat, S # {}
  PROVE  \E m \in S : \A x \in S : m <= x
<1>1. \E m \in S : \A y \in S : ~(<<y, m>> \in OpToRel(<, Nat))
  BY NatLessThanWellFounded, WFMin
<1>2. \A m, y \in S : ~(<<y, m>> \in OpToRel(<, Nat)) => m <= y
  BY DEF OpToRel
<1> QED
  BY <1>1, <1>2

\* The subsets of S of at most n elements.
UpTo(S, n) == {T \in SUBSET S : Cardinality(T) <= n}

Chosen(T) == CHOOSE x \in T : TRUE

\* sums is what SumFunctionOnSet(f, S) recurs through, up to n elements.
Sums(f, S, n, sums) ==
  sums = [T \in UpTo(S, n) |-> IF T = {} THEN 0 ELSE f[Chosen(T)] + sums[T \ {Chosen(T)}]]

\* The element a sum takes first, and the set it leaves.
LEMMA ChosenGoes ==
  ASSUME NEW S, IsFiniteSet(S), NEW T \in SUBSET S, T # {}
  PROVE  /\ Chosen(T) \in T /\ T \ {Chosen(T)} \in SUBSET S
         /\ Cardinality(T) \in Nat /\ Cardinality(T) # 0
         /\ Cardinality(T \ {Chosen(T)}) = Cardinality(T) - 1
<1>1. Chosen(T) \in T
  BY DEF Chosen
<1>2. IsFiniteSet(T)
  BY FS_Subset
<1>3. Cardinality(T) \in Nat
  BY <1>2, FS_CardinalityType
<1>4. Cardinality(T) # 0
  BY <1>2, FS_EmptySet
<1>5. Cardinality(T \ {Chosen(T)}) = Cardinality(T) - 1
  BY <1>1, <1>2, FS_RemoveElement
<1> QED
  BY <1>1, <1>3, <1>4, <1>5

\* There is such a function, whatever the size.
LEMMA SumsExist ==
  ASSUME NEW f, NEW S, IsFiniteSet(S), NEW n \in Nat
  PROVE  \E sums : Sums(f, S, n, sums)
<1> DEFINE Bad == {m \in Nat : ~ \E sums : Sums(f, S, m, sums)}
<1> SUFFICES ASSUME Bad # {} PROVE FALSE
  OBVIOUS
<1>1. PICK m \in Bad : \A k \in Bad : m <= k
  <2> HIDE DEF Bad
  <2>1. Bad \in SUBSET Nat
    BY DEF Bad
  <2> QED
    BY <2>1, LeastOf
<1>2. \A T \in SUBSET S : Cardinality(T) \in Nat
  BY FS_Subset, FS_CardinalityType
<1>3. m # 0
  <2> DEFINE none == [T \in UpTo(S, 0) |-> 0]
  <2>1. ASSUME NEW T \in UpTo(S, 0), T # {} PROVE FALSE
    <3>1. T \in SUBSET S /\ Cardinality(T) <= 0
      BY DEF UpTo
    <3>2. Cardinality(T) \in Nat /\ Cardinality(T) # 0
      BY <2>1, <3>1, ChosenGoes
    <3> QED
      BY <3>1, <3>2
  <2>2. Sums(f, S, 0, none)
    BY <2>1 DEF Sums
  <2> HIDE DEF none
  <2>3. 0 \notin Bad
    BY <2>2
  <2> QED
    BY <1>1, <2>3
<1>4. m - 1 \in Nat /\ m - 1 \notin Bad
  BY <1>1, <1>3
<1>5. PICK sums : Sums(f, S, m - 1, sums)
  BY <1>4
<1> DEFINE more == [T \in UpTo(S, m) |-> IF T = {} THEN 0 ELSE f[Chosen(T)] + sums[T \ {Chosen(T)}]]
<1>6. ASSUME NEW T \in UpTo(S, m)
      PROVE  more[T] = IF T = {} THEN 0 ELSE f[Chosen(T)] + more[T \ {Chosen(T)}]
  <2>1. CASE T = {}
    BY <2>1
  <2>2. CASE T # {}
    <3> DEFINE U == T \ {Chosen(T)}
    <3>1. U \in UpTo(S, m - 1) /\ U \in UpTo(S, m)
      BY <2>2, <1>1, ChosenGoes DEF UpTo
    <3>2. sums[U] = IF U = {} THEN 0 ELSE f[Chosen(U)] + sums[U \ {Chosen(U)}]
      BY <1>5, <3>1 DEF Sums
    <3>3. more[U] = sums[U]
      BY <3>1, <3>2
    <3>4. more[T] = f[Chosen(T)] + sums[U]
      BY <2>2
    <3> HIDE DEF more, U
    <3> QED
      BY <2>2, <3>3, <3>4 DEF U
  <2> QED
    BY <2>1, <2>2
<1>7. Sums(f, S, m, more)
  <2>1. more = [T \in UpTo(S, m) |-> more[T]]
    OBVIOUS
  <2> HIDE DEF more
  <2> QED
    BY <1>6, <2>1 DEF Sums
<1> HIDE DEF more
<1> QED
  BY <1>1, <1>7

\* There is only one.
LEMMA SumsAgree ==
  ASSUME NEW f, NEW S, IsFiniteSet(S), NEW n \in Nat,
         NEW s, Sums(f, S, n, s), NEW t, Sums(f, S, n, t)
  PROVE  s = t
<1> DEFINE Bad == {Cardinality(T) : T \in {U \in UpTo(S, n) : s[U] # t[U]}}
<1>1. \A T \in SUBSET S : Cardinality(T) \in Nat
  BY FS_Subset, FS_CardinalityType
<1>2. Bad = {}
  <2> SUFFICES ASSUME Bad # {} PROVE FALSE
    OBVIOUS
  <2>1. PICK m \in Bad : \A k \in Bad : m <= k
    <3>1. Bad \in SUBSET Nat
      BY <1>1 DEF UpTo
    <3> HIDE DEF Bad
    <3> QED
      BY <3>1, LeastOf
  <2>2. PICK T \in UpTo(S, n) : s[T] # t[T] /\ m = Cardinality(T)
    BY <2>1
  <2> DEFINE U == T \ {Chosen(T)}
  <2>3. T # {}
    BY <2>2 DEF Sums
  <2>4. U \in UpTo(S, n) /\ Cardinality(U) = m - 1 /\ m \in Nat
    <3>1. T \in SUBSET S /\ Cardinality(T) <= n
      BY <2>2 DEF UpTo
    <3>2. /\ U \in SUBSET S /\ Cardinality(T) \in Nat
          /\ Cardinality(U) = Cardinality(T) - 1
      BY <2>3, <3>1, ChosenGoes
    <3> HIDE DEF U
    <3> QED
      BY <2>2, <3>1, <3>2 DEF UpTo
  <2>5. s[U] = t[U]
    <3> HIDE DEF U
    <3>1. m - 1 \notin Bad
      <4> HIDE DEF Bad
      <4> QED
        BY <2>1, <2>4
    <3> QED
      BY <2>4, <3>1
  <2>6. s[T] = f[Chosen(T)] + s[U] /\ t[T] = f[Chosen(T)] + t[U]
    BY <2>3 DEF Sums
  <2> QED
    BY <2>2, <2>5, <2>6
<1>3. \A T \in UpTo(S, n) : s[T] = t[T]
  BY <1>2
<1>4. s = [T \in UpTo(S, n) |-> s[T]] /\ t = [T \in UpTo(S, n) |-> t[T]]
  BY DEF Sums
<1> QED
  BY <1>3, <1>4

\* SumFunctionOnSet is its value at the whole set.
LEMMA SumIs ==
  ASSUME NEW f, NEW S, IsFiniteSet(S), NEW sums, Sums(f, S, Cardinality(S), sums)
  PROVE  SumFunctionOnSet(f, S) = sums[S]
<1>1. Cardinality(S) \in Nat
  BY FS_CardinalityType
<1>2. UpTo(S, Cardinality(S)) = SUBSET S
  BY FS_Subset DEF UpTo
<1> DEFINE it == CHOOSE i : i = [T \in SUBSET S |-> IF T = {} THEN 0 ELSE f[CHOOSE x \in T : TRUE] + i[T \ {CHOOSE x \in T : TRUE}]]
<1>3. SumFunctionOnSet(f, S) = it[S]
  BY DEF SumFunctionOnSet, FoldFunctionOnSet, MapThenFoldSet
<1>4. it = [T \in SUBSET S |-> IF T = {} THEN 0 ELSE f[CHOOSE x \in T : TRUE] + it[T \ {CHOOSE x \in T : TRUE}]]
  <2>1. sums = [T \in SUBSET S |-> IF T = {} THEN 0 ELSE f[CHOOSE x \in T : TRUE] + sums[T \ {CHOOSE x \in T : TRUE}]]
    BY <1>2 DEF Sums, Chosen
  <2> QED
    BY <2>1, Zenon
<1> HIDE DEF it
<1>5. Sums(f, S, Cardinality(S), it)
  BY <1>2, <1>4 DEF Sums, Chosen
<1> QED
  BY <1>1, <1>3, <1>5, SumsAgree

\* s sums f over each subset of S.
Recurs(f, S, s) ==
  \A T \in SUBSET S : s[T] = IF T = {} THEN 0 ELSE f[Chosen(T)] + s[T \ {Chosen(T)}]

\* The sum over a finite set, its recurrence unfolded.
LEMMA SumGoes ==
  ASSUME NEW f, NEW S, IsFiniteSet(S)
  PROVE  \E s : Recurs(f, S, s) /\ SumFunctionOnSet(f, S) = s[S]
<1>1. Cardinality(S) \in Nat
  BY FS_CardinalityType
<1>2. PICK s : Sums(f, S, Cardinality(S), s)
  BY <1>1, SumsExist
<1>3. UpTo(S, Cardinality(S)) = SUBSET S
  BY FS_Subset DEF UpTo
<1>4. Recurs(f, S, s)
  BY <1>2, <1>3 DEF Sums, Recurs
<1> QED
  BY <1>2, <1>4, SumIs

\* The smallest set a recurrence fails on: it is not empty, and the set
\* without its chosen element does not fail.
LEMMA SmallestBad ==
  ASSUME NEW S, IsFiniteSet(S), NEW Bad \in SUBSET (SUBSET S), Bad # {}, {} \notin Bad
  PROVE  \E T \in Bad : Chosen(T) \in T /\ T \ {Chosen(T)} \in (SUBSET S) \ Bad
<1> DEFINE Sizes == {Cardinality(T) : T \in Bad}
<1>1. \A T \in Bad : Cardinality(T) \in Nat
  BY ChosenGoes
<1>2. PICK m \in Sizes : \A k \in Sizes : m <= k
  <2>1. Sizes \in SUBSET Nat /\ Sizes # {}
    BY <1>1
  <2> HIDE DEF Sizes
  <2> QED
    BY <2>1, LeastOf
<1>3. PICK T \in Bad : m = Cardinality(T)
  BY <1>2
<1> DEFINE U == T \ {Chosen(T)}
<1>4. /\ Chosen(T) \in T /\ U \in SUBSET S
      /\ Cardinality(T) \in Nat /\ Cardinality(U) = Cardinality(T) - 1
  BY <1>3, ChosenGoes
<1>5. U \notin Bad
  <2> HIDE DEF U
  <2>1. ASSUME U \in Bad PROVE FALSE
    <3>1. Cardinality(U) \in Sizes
      BY <2>1
    <3> HIDE DEF Sizes
    <3> QED
      BY <1>2, <1>3, <1>4, <3>1
  <2> QED
    BY <2>1
<1> QED
  BY <1>4, <1>5

\* A sum of integers is one.
LEMMA SumIsInt ==
  ASSUME NEW f, NEW S, IsFiniteSet(S), \A x \in S : f[x] \in Int
  PROVE  SumFunctionOnSet(f, S) \in Int
<1>1. PICK s : Recurs(f, S, s) /\ SumFunctionOnSet(f, S) = s[S]
  BY SumGoes
<1> DEFINE Bad == {T \in SUBSET S : s[T] \notin Int}
<1>2. {} \notin Bad
  <2>1. s[{}] = 0
    BY <1>1 DEF Recurs
  <2> QED
    BY <2>1
<1>3. Bad = {}
  <2> SUFFICES ASSUME Bad # {} PROVE FALSE
    OBVIOUS
  <2>1. PICK T \in Bad : Chosen(T) \in T /\ T \ {Chosen(T)} \in (SUBSET S) \ Bad
    BY <1>2, SmallestBad
  <2>2. s[T] = f[Chosen(T)] + s[T \ {Chosen(T)}]
    BY <1>1, <2>1 DEF Recurs
  <2> QED
    BY <2>1, <2>2
<1> QED
  BY <1>1, <1>3

\* The sum of a pointwise sum is the sum of the sums.
LEMMA SumOfSums ==
  ASSUME NEW f, NEW g, NEW h, NEW S, IsFiniteSet(S),
         \A x \in S : f[x] \in Int /\ g[x] \in Int /\ h[x] = f[x] + g[x]
  PROVE  SumFunctionOnSet(h, S) = SumFunctionOnSet(f, S) + SumFunctionOnSet(g, S)
<1>1. PICK s : Recurs(f, S, s) /\ SumFunctionOnSet(f, S) = s[S]
  BY SumGoes
<1>2. PICK t : Recurs(g, S, t) /\ SumFunctionOnSet(g, S) = t[S]
  BY SumGoes
<1>3. PICK u : Recurs(h, S, u) /\ SumFunctionOnSet(h, S) = u[S]
  BY SumGoes
<1> DEFINE Bad == {T \in SUBSET S : ~(s[T] \in Int /\ t[T] \in Int /\ u[T] = s[T] + t[T])}
<1>4. {} \notin Bad
  <2>1. s[{}] = 0 /\ t[{}] = 0 /\ u[{}] = 0
    BY <1>1, <1>2, <1>3 DEF Recurs
  <2> QED
    BY <2>1
<1>5. Bad = {}
  <2> SUFFICES ASSUME Bad # {} PROVE FALSE
    OBVIOUS
  <2>1. PICK T \in Bad : Chosen(T) \in T /\ T \ {Chosen(T)} \in (SUBSET S) \ Bad
    BY <1>4, SmallestBad
  <2> DEFINE U == T \ {Chosen(T)}
  <2>2. s[T] = f[Chosen(T)] + s[U] /\ t[T] = g[Chosen(T)] + t[U] /\ u[T] = h[Chosen(T)] + u[U]
    BY <1>1, <1>2, <1>3, <2>1 DEF Recurs
  <2>3. s[U] \in Int /\ t[U] \in Int /\ u[U] = s[U] + t[U]
    BY <2>1
  <2>4. Chosen(T) \in S
    BY <2>1
  <2>5. f[Chosen(T)] \in Int /\ g[Chosen(T)] \in Int /\ h[Chosen(T)] = f[Chosen(T)] + g[Chosen(T)]
    BY <2>4
  <2>6. T \in SUBSET S /\ ~(s[T] \in Int /\ t[T] \in Int /\ u[T] = s[T] + t[T])
    BY <2>1
  <2> HIDE DEF U
  <2> QED
    BY <2>2, <2>3, <2>5, <2>6
<1>6. u[S] = s[S] + t[S]
  BY <1>5
<1> QED
  BY <1>1, <1>2, <1>3, <1>6

\* Nothing sums to nothing.
LEMMA SumOfZeros ==
  ASSUME NEW f, NEW S, IsFiniteSet(S), \A x \in S : f[x] = 0
  PROVE  SumFunctionOnSet(f, S) = 0
<1>1. \A x \in S : f[x] \in Int /\ f[x] = f[x] + f[x]
  OBVIOUS
<1>2. SumFunctionOnSet(f, S) = SumFunctionOnSet(f, S) + SumFunctionOnSet(f, S)
  BY <1>1, SumOfSums
<1>3. SumFunctionOnSet(f, S) \in Int
  BY <1>1, SumIsInt
<1>4. \A n \in Int : n = n + n => n = 0
  OBVIOUS
<1> DEFINE sum == SumFunctionOnSet(f, S)
<1>5. sum \in Int /\ sum = sum + sum
  BY <1>2, <1>3
<1> HIDE DEF sum
<1>6. sum = 0
  BY <1>4, <1>5
<1> QED
  BY <1>6 DEF sum
----------------------------------------------------------------------------
(* The invariant *)

\* A balanced document leaves the sum of every kind where it was.
LEMMA ApplyZeroSum ==
  ASSUME RequestAssumption, STypeOK, ZeroSum, NEW r \in Request, Apply(r)  PROVE ZeroSum'
<1>1. WellShaped(r) /\ Balanced(r)
  BY DEF Apply, Applicable
<1>2. \A a \in Account : posted[a] \in Int /\ Delta(r, a) \in Int
  BY <1>1, DeltaIsInt DEF STypeOK
<1>3. ASSUME NEW k \in Kind PROVE SumFunctionOnSet(posted', AccountsOf(k)) = 0
  <2> DEFINE A == AccountsOf(k)
  <2>1. A \subseteq Account /\ A \subseteq 0..MaxId /\ MaxId \in Nat
    BY DEF AccountsOf, RequestAssumption
  <2>2. IsFiniteSet(A)
    <3>1. IsFiniteSet(0..MaxId)
      BY <2>1, FS_Interval
    <3> QED
      BY <2>1, <3>1, FS_Subset
  <2>3. SumFunctionOnSet(posted, A) = 0 /\ SumFunctionOnSet(Deltas(r), A) = 0
    BY <1>1 DEF ZeroSum, Balanced
  <2> HIDE DEF A
  <2>4. ASSUME NEW a \in A
        PROVE  posted[a] \in Int /\ Deltas(r)[a] \in Int /\ posted'[a] = posted[a] + Deltas(r)[a]
    BY <1>2, <2>1 DEF Deltas, Apply
  <2>5. SumFunctionOnSet(posted', A) = SumFunctionOnSet(posted, A) + SumFunctionOnSet(Deltas(r), A)
    BY <2>2, <2>4, SumOfSums
  <2>6. SumFunctionOnSet(posted', A) = 0
    BY <2>3, <2>5
  <2> QED
    BY <2>6 DEF A
<1> QED
  BY <1>3 DEF ZeroSum

LEMMA InitSerialInv == ASSUME RequestAssumption, SInit PROVE SerialInv
<1> USE DEF SInit
<1>1. STypeOK  BY DEF STypeOK
<1>2. NoOverdraft /\ BalanceIsPosted /\ PostedOnce /\ ChainUnbroken
  BY DEF NoOverdraft, BalanceIsPosted, PostedOnce, ChainUnbroken, RequestAssumption
<1>3. CapacityAgrees
  <2>1. ASSUME NEW h \in Holder, Used[h] \in Controlled
        PROVE  balance[Used[h]] = Cardinality({i \in Item : at[i] = h})
    <3>1. {i \in Item : at[i] = h} = {}  BY DEF RequestAssumption, at
    <3> QED  BY <2>1, <3>1, FS_EmptySet
  <2> QED  BY <2>1 DEF CapacityAgrees
<1>4. ZeroSum
  <2>1. ASSUME NEW k \in Kind PROVE SumFunctionOnSet(posted, AccountsOf(k)) = 0
    <3>1. AccountsOf(k) \subseteq 0..MaxId /\ MaxId \in Nat /\ \A a \in AccountsOf(k) : posted[a] = 0
      BY DEF AccountsOf, RequestAssumption
    <3>2. IsFiniteSet(AccountsOf(k))
      <4>1. IsFiniteSet(0..MaxId)  BY <3>1, FS_Interval
      <4> QED  BY <3>1, <4>1, FS_Subset
    <3> QED  BY <3>1, <3>2, SumOfZeros
  <2> QED  BY <2>1 DEF ZeroSum
<1> QED  BY <1>1, <1>2, <1>3, <1>4 DEF SerialInv

LEMMA ApplySerialInv ==
  ASSUME RequestAssumption, SerialInv, NEW r \in Request, Apply(r)  PROVE SerialInv'
<1>0. STypeOK /\ WellShaped(r)  BY DEF SerialInv, Apply, Applicable
<1>1. /\ balance' = [a \in Controlled |-> balance[a] + Delta(r, a)]
      /\ posted' = [a \in Account |-> posted[a] + Delta(r, a)]
      /\ entries' = [entries EXCEPT ![r.op] = @ + 1]
  BY DEF Apply
<1>2. /\ Controlled \subseteq Account /\ \A a \in Account : Delta(r, a) \in Int
      /\ r.op \in Op \cup {NoOp}
  BY <1>0, DeltaIsInt DEF RequestAssumption
<1>3. STypeOK'
  <2>1. chain' \in [Item -> Seq(Row)]  BY <1>0, ChainAfter
  <2>2. balance' \in [Controlled -> Int] /\ posted' \in [Account -> Int]
    BY <1>0, <1>1, <1>2 DEF STypeOK
  <2>3. entries' \in [Op \cup {NoOp} -> Nat]  BY <1>0, <1>1, <1>2 DEF STypeOK
  <2> QED  BY <2>1, <2>2, <2>3 DEF STypeOK
<1>4. NoOverdraft'
  <2>1. ASSUME NEW a \in Controlled PROVE balance'[a] >= 0
    <3>1. balance'[a] = balance[a] + Delta(r, a) /\ Delta(r, a) \in Int /\ balance[a] \in Int
      BY <1>0, <1>1, <1>2 DEF STypeOK
    <3>2. CASE a \in Touched(r)  BY <3>1, <3>2 DEF Apply, Applicable
    <3>3. CASE a \notin Touched(r)
      <4>1. Delta(r, a) = 0  BY <3>3 DEF Touched
      <4>2. balance[a] >= 0  BY DEF SerialInv, NoOverdraft
      <4> QED  BY <3>1, <4>1, <4>2
    <3> QED  BY <3>2, <3>3
  <2> QED  BY <2>1 DEF NoOverdraft
<1>5. BalanceIsPosted'
  BY <1>1, <1>2 DEF SerialInv, BalanceIsPosted
<1>6. PostedOnce'
  <2>1. ASSUME NEW o \in Op PROVE entries'[o] <= 1
    <3>1. entries[o] \in Nat /\ entries[o] <= 1 /\ o \in Op \cup {NoOp}
      BY <1>0 DEF STypeOK, SerialInv, PostedOnce
    <3>2. CASE o = r.op
      <4>1. entries[o] = 0 /\ entries'[o] = entries[o] + 1
        BY <1>0, <1>1, <3>1, <3>2 DEF Apply, Applicable, STypeOK
      <4> QED  BY <4>1
    <3>3. CASE o # r.op  BY <1>0, <1>1, <3>1, <3>3 DEF STypeOK
    <3> QED  BY <3>2, <3>3
  <2> QED  BY <2>1 DEF PostedOnce
<1>7. CapacityAgrees'
  <2>1. ASSUME NEW h \in Holder, Used[h] \in Controlled
        PROVE  balance'[Used[h]] = Cardinality(Held(h)')
    <3>1. h # World  BY <2>1 DEF RequestAssumption
    <3>2. balance'[Used[h]] = balance[Used[h]] + Net(r, h)
      BY <1>0, <1>1, <2>1, NetFacts
    <3>3. balance[Used[h]] = Cardinality(Held(h))
      BY <2>1 DEF SerialInv, CapacityAgrees, Held
    <3> QED  BY <1>0, <3>1, <3>2, <3>3, HeldAfter
  <2> QED  BY <2>1 DEF CapacityAgrees, Held
<1>8. ChainUnbroken'
  <2>1. ASSUME NEW i \in Item, NEW k \in 1..Len(chain'[i])
        PROVE  chain'[i][k].from = IF k = 1 THEN World ELSE chain'[i][k - 1].to
    <3>0. chain[i] \in Seq(Row)  BY <1>0 DEF STypeOK
    <3>1. k \in 1..Len(chain[i]) =>
            chain[i][k].from = IF k = 1 THEN World ELSE chain[i][k - 1].to
      BY DEF SerialInv, ChainUnbroken
    <3>2. CASE i \notin Items(r)  BY <1>0, <3>1, <3>2, ChainAfter
    <3>3. CASE i \in Items(r)
      <4>1. PICK m \in r.moves : i = m.item  BY <3>3 DEF Items
      <4>2. /\ RowOf(m) \in Row /\ RowOf(m).from = m.from /\ m.from \in Holder
            /\ chain'[i] = Append(chain[i], RowOf(m))
        BY <1>0, <4>1, MoveOfFact, ChainAfter
      <4>3. /\ Len(chain'[i]) = Len(chain[i]) + 1 /\ Len(chain[i]) \in Nat
            /\ chain'[i][Len(chain[i]) + 1] = RowOf(m)
            /\ \A j \in 1..Len(chain[i]) : chain'[i][j] = chain[i][j]
        BY <3>0, <4>2, AppendProperties
      <4>4. CASE k \in 1..Len(chain[i])
        <5>1. k # 1 => k - 1 \in 1..Len(chain[i])  BY <4>3, <4>4
        <5> QED  BY <3>1, <4>3, <4>4, <5>1
      <4>5. CASE k = Len(chain[i]) + 1
        <5>1. chain'[i][k].from = m.from  BY <4>2, <4>3, <4>5
        <5>2. at[i] = IF m.mint THEN Nowhere ELSE m.from
          BY <4>1 DEF Apply, Applicable
        <5>3. at[i] = IF chain[i] = <<>> THEN Nowhere ELSE chain[i][Len(chain[i])].to
          BY DEF at
        <5>4. CASE chain[i] = <<>>
          <6>1. m.mint /\ k = 1
            BY <4>2, <4>5, <5>2, <5>3, <5>4 DEF RequestAssumption
          <6>2. m.from = World  BY <1>0, <6>1 DEF WellShaped
          <6> QED  BY <5>1, <6>1, <6>2
        <5>5. CASE chain[i] # <<>>
          <6>1. Len(chain[i]) > 0  BY <3>0, <5>5, EmptySeq
          <6>2. chain[i][Len(chain[i])] \in Row  BY <3>0, <6>1
          <6>3. chain[i][Len(chain[i])].to \in Holder  BY <6>2 DEF Row
          <6>4. ~m.mint  BY <5>2, <5>3, <5>5, <6>3 DEF RequestAssumption
          <6>5. k # 1 /\ k - 1 = Len(chain[i]) /\ k - 1 \in 1..Len(chain[i])
            BY <4>3, <4>5, <6>1
          <6> QED  BY <4>3, <5>1, <5>2, <5>3, <5>5, <6>4, <6>5
        <5> QED  BY <5>4, <5>5
      <4> QED  BY <4>3, <4>4, <4>5
    <3> QED  BY <3>2, <3>3
  <2> QED  BY <2>1 DEF ChainUnbroken
<1>9. ZeroSum'  BY <1>0, ApplyZeroSum DEF SerialInv
<1> QED  BY <1>3, <1>4, <1>5, <1>6, <1>7, <1>8, <1>9 DEF SerialInv

LEMMA NextSerialInv == ASSUME RequestAssumption, SerialInv, [SNext]_dbVars PROVE SerialInv'
<1>1. CASE SNext  BY <1>1, ApplySerialInv DEF SNext
<1>2. CASE UNCHANGED dbVars
  <2>1. balance' = balance /\ posted' = posted /\ entries' = entries /\ chain' = chain
    BY <1>2 DEF dbVars
  <2>2. at' = at  BY <2>1 DEF at
  <2>3. STypeOK' /\ NoOverdraft' /\ BalanceIsPosted' /\ PostedOnce'
    BY <2>1 DEF SerialInv, STypeOK, NoOverdraft, BalanceIsPosted, PostedOnce
  <2>4. CapacityAgrees'  BY <2>1, <2>2 DEF SerialInv, CapacityAgrees
  <2>5. ChainUnbroken'  BY <2>1 DEF SerialInv, ChainUnbroken
  <2>6. ZeroSum'  BY <2>1 DEF SerialInv, ZeroSum
  <2> QED  BY <2>3, <2>4, <2>5, <2>6 DEF SerialInv
<1> QED  BY <1>1, <1>2

\* No overdraft, balances that are the sum of their postings, slots_used that
\* counts the instances held, and one posting per operation, after any
\* sequence of documents (Post, Move).
THEOREM SerialInvariant == SSpec => []SerialInv
<1>1. SInit => SerialInv  BY RequestAssumption, InitSerialInv
<1>2. SerialInv /\ [SNext]_dbVars => SerialInv'  BY RequestAssumption, NextSerialInv
<1> QED  BY <1>1, <1>2, PTL DEF SSpec
----------------------------------------------------------------------------
(* The concurrent ledger *)

TxInv(p) == RequestInv(p) /\ HeadInv(p) /\ OpInv(p) /\ SlotInv(p) /\ LockInv(p)

LEMMA AllIds ==
  ASSUME RequestAssumption
  PROVE  /\ \A i \in Item : i \in Int /\ i <= MaxId
         /\ \A a \in Controlled : a \in Int /\ a <= MaxId
<1>1. MaxId \in Nat /\ Item \subseteq 0..MaxId /\ Controlled \subseteq 0..MaxId
  BY DEF RequestAssumption
<1>2. \A i \in 0..MaxId : i \in Int /\ i <= MaxId  BY <1>1
<1> QED  BY <1>1, <1>2

LEMMA InitLedgerInv == ASSUME RequestAssumption, Init PROVE LedgerInv
<1>1. STypeOK  BY InitSerialInv DEF Init, SerialInv
<1>2. req \in [Tx -> Request]
  <2>1. (CHOOSE r \in Request : TRUE) \in Request  BY DEF RequestAssumption
  <2> QED  BY <2>1 DEF Init
<1>3. TypeOK  BY <1>1, <1>2 DEF Init, TypeOK
<1>4. ASSUME NEW p \in Tx PROVE TxInv(p)
  <2>1. pc[p] = "idle" /\ moved[p] = {} /\ updated[p] = {}  BY DEF Init
  <2> QED  BY <2>1 DEF TxInv, RequestInv, HeadInv, OpInv, SlotInv, LockInv
<1> QED  BY <1>3, <1>4 DEF LedgerInv, TxInv

\* A transaction that ends without committing leaves the invariant to the others.
LEMMA FinishInv ==
  ASSUME LedgerInv, NEW p \in Tx, Finish(p), UNCHANGED dbVars
  PROVE  LedgerInv'
<1> USE DEF Finish, dbVars
<1>1. TypeOK'  BY DEF LedgerInv, TypeOK, STypeOK
<1>2. ASSUME NEW q \in Tx PROVE TxInv(q)'
  <2>1. /\ pc'[p] = "idle" /\ moved'[p] = {} /\ updated'[p] = {}
        /\ \A x \in Tx \ {p} : pc'[x] = pc[x] /\ moved'[x] = moved[x] /\ updated'[x] = updated[x]
    BY DEF LedgerInv, TypeOK
  <2>2. CASE q = p
    BY <2>1, <2>2 DEF TxInv, RequestInv, HeadInv, OpInv, SlotInv, LockInv
  <2>3. CASE q # p
    <3>1. RequestInv(q) /\ HeadInv(q) /\ OpInv(q) /\ SlotInv(q) /\ LockInv(q)
      BY DEF LedgerInv
    <3>2. RequestInv(q)'  BY <2>1, <2>3, <3>1 DEF RequestInv
    <3>3. HeadInv(q)'  BY <2>1, <2>3, <3>1 DEF HeadInv
    <3>4. OpInv(q)'  BY <2>1, <2>3, <3>1 DEF OpInv, OpRival
    <3>5. SlotInv(q)'  BY <2>1, <2>3, <3>1 DEF SlotInv
    <3>6. LockInv(q)'  BY <2>1, <2>3, <3>1 DEF LockInv
    <3> QED  BY <3>2, <3>3, <3>4, <3>5, <3>6 DEF TxInv
  <2> QED  BY <2>2, <2>3
<1> QED  BY <1>1, <1>2 DEF LedgerInv, TxInv

LEMMA BeginInv ==
  ASSUME LedgerInv, NEW p \in Tx, NEW r \in Request, Begin(p, r)
  PROVE  LedgerInv'
<1> USE DEF Begin, dbVars
<1>1. TypeOK'  BY DEF LedgerInv, TypeOK, STypeOK
<1>0. /\ pc[p] = "idle" /\ pc'[p] = "read" /\ req'[p] = r
      /\ \A x \in Tx \ {p} : pc'[x] = pc[x] /\ req'[x] = req[x]
      /\ UNCHANGED <<balance, entries, chain, head, moved, updated>>
  BY DEF LedgerInv, TypeOK
<1>2. ASSUME NEW q \in Tx PROVE TxInv(q)'
  <2>1. RequestInv(q) /\ HeadInv(q) /\ OpInv(q) /\ SlotInv(q) /\ LockInv(q)
    BY DEF LedgerInv
  <2>2. CASE q = p
    <3>1. moved[p] = {} /\ updated[p] = {}  BY <1>0, <2>1, <2>2 DEF SlotInv, LockInv
    <3>2. RequestInv(p)'  BY <1>0 DEF RequestInv
    <3> QED  BY <1>0, <2>2, <3>1, <3>2 DEF TxInv, HeadInv, OpInv, SlotInv, LockInv
  <2>3. CASE q # p
    <3>2. RequestInv(q)'  BY <1>0, <2>1, <2>3 DEF RequestInv
    <3>3. HeadInv(q)'  BY <1>0, <2>1, <2>3 DEF HeadInv
    <3>4. OpInv(q)'  BY <1>0, <2>1, <2>3 DEF OpInv, OpRival
    <3>5. SlotInv(q)'  BY <1>0, <2>1, <2>3 DEF SlotInv
    <3>6. LockInv(q)'  BY <1>0, <2>1, <2>3 DEF LockInv
    <3> QED  BY <3>2, <3>3, <3>4, <3>5, <3>6 DEF TxInv
  <2> QED  BY <2>2, <2>3
<1> QED  BY <1>1, <1>2 DEF LedgerInv, TxInv

LEMMA ReadHeadsInv ==
  ASSUME RequestAssumption, LedgerInv, NEW p \in Tx, ReadHeads(p)
  PROVE  LedgerInv'
<1> USE DEF ReadHeads, dbVars
<1>a. chain \in [Item -> Seq(Row)] /\ \A i \in Item : Len(chain[i]) \in Nat
  <2>1. chain \in [Item -> Seq(Row)]  BY DEF LedgerInv, TypeOK, STypeOK
  <2> QED  BY <2>1
<1>1. TypeOK'
  <2>1. [i \in Item |-> Len(chain[i])] \in [Item -> Nat]  BY <1>a
  <2> QED  BY <2>1 DEF LedgerInv, TypeOK, STypeOK
<1>0. /\ pc[p] = "read" /\ pc'[p] = "basis" /\ head'[p] = [i \in Item |-> Len(chain[i])]
      /\ \A x \in Tx \ {p} : pc'[x] = pc[x] /\ head'[x] = head[x]
      /\ UNCHANGED <<balance, entries, chain, req, moved, updated>>
  BY DEF LedgerInv, TypeOK
<1>2. ASSUME NEW q \in Tx PROVE TxInv(q)'
  <2>1. RequestInv(q) /\ HeadInv(q) /\ OpInv(q) /\ SlotInv(q) /\ LockInv(q)
    BY DEF LedgerInv
  <2>2. CASE q = p
    <3>1. moved[p] = {} /\ updated[p] = {}  BY <1>0, <2>1, <2>2 DEF SlotInv, LockInv
    <3>2. RequestInv(p)'
      <4>1. \A x \in Tx : pc'[x] # "idle" => pc[x] # "idle"  BY <1>0
      <4> QED  BY <1>0, <2>1, <2>2, <4>1 DEF RequestInv
    <3>3. HeadInv(p)'
      <4>1. Balanced(req[p]) /\ \A m \in req[p].moves : m.mint \/ IsHeld(m)
        BY DEF Admissible
      <4>2. ASSUME NEW m \in req[p].moves
            PROVE  /\ head'[p][m.item] <= Len(chain[m.item])
                   /\ ~m.mint => /\ head'[p][m.item] > 0
                                 /\ chain[m.item][head'[p][m.item]].to = m.from
        <5>1. m.item \in Item  BY DEF LedgerInv, TypeOK, RequestAssumption
        <5>0. head'[p][m.item] = Len(chain[m.item])
          <6> DEFINE now == [i \in Item |-> Len(chain[i])]
          <6>1. now[m.item] = Len(chain[m.item])  BY <5>1
          <6>2. head'[p] = now  BY <1>0
          <6> HIDE DEF now
          <6> QED  BY <6>1, <6>2
        <5>2. head'[p][m.item] = Len(chain[m.item]) /\ Len(chain[m.item]) \in Nat
          BY <1>a, <5>0, <5>1
        <5>3. ~m.mint => chain[m.item] # <<>> /\ chain[m.item][Len(chain[m.item])].to = m.from
          BY <4>1 DEF IsHeld
        <5>4. chain[m.item] # <<>> => Len(chain[m.item]) > 0
          BY <1>a, <5>1, EmptySeq
        <5> QED  BY <5>2, <5>3, <5>4
      <4> QED  BY <1>0, <4>1, <4>2 DEF HeadInv
    <3> QED  BY <1>0, <2>2, <3>1, <3>2, <3>3 DEF TxInv, OpInv, SlotInv, LockInv
  <2>3. CASE q # p
    <3>2. RequestInv(q)'  BY <1>0, <2>1, <2>3 DEF RequestInv
    <3>3. HeadInv(q)'  BY <1>0, <2>1, <2>3 DEF HeadInv
    <3>4. OpInv(q)'  BY <1>0, <2>1, <2>3 DEF OpInv, OpRival
    <3>5. SlotInv(q)'  BY <1>0, <2>1, <2>3 DEF SlotInv
    <3>6. LockInv(q)'  BY <1>0, <2>1, <2>3 DEF LockInv
    <3> QED  BY <3>2, <3>3, <3>4, <3>5, <3>6 DEF TxInv
  <2> QED  BY <2>2, <2>3
<1> QED  BY <1>1, <1>2 DEF LedgerInv, TxInv

LEMMA InsertBasisInv ==
  ASSUME LedgerInv, NEW p \in Tx, InsertBasis(p)
  PROVE  LedgerInv'
<1> USE DEF InsertBasis, dbVars
<1>1. TypeOK'  BY DEF LedgerInv, TypeOK, STypeOK
<1>0. /\ pc[p] = "basis" /\ pc'[p] = "write"
      /\ \A x \in Tx \ {p} : pc'[x] = pc[x]
      /\ UNCHANGED <<balance, entries, chain, req, head, moved, updated>>
  BY DEF LedgerInv, TypeOK
<1>2. ASSUME NEW q \in Tx PROVE TxInv(q)'
  <2>1. RequestInv(q) /\ HeadInv(q) /\ OpInv(q) /\ SlotInv(q) /\ LockInv(q)
    BY DEF LedgerInv
  <2>2. RequestInv(q)'
    <3>1. \A x \in Tx : pc'[x] # "idle" => pc[x] # "idle"  BY <1>0
    <3> QED  BY <1>0, <2>1, <3>1 DEF RequestInv
  <2>3. HeadInv(q)'
    <3>1. pc'[q] \in {"basis", "write"} => pc[q] \in {"basis", "write"}  BY <1>0
    <3> QED  BY <1>0, <2>1, <3>1 DEF HeadInv
  <2>4. OpInv(q)'
    <3>1. CASE q = p
      <4>1. \A x \in Tx : ~OpRival(p, x)'  BY <1>0 DEF OpRival
      <4> QED  BY <1>0, <3>1, <4>1 DEF OpInv
    <3>2. CASE q # p
      <4>1. pc'[q] = "write" /\ req'[q].op \in Op =>
              entries'[req'[q].op] = 0 /\ \A x \in Tx \ {p} : ~OpRival(q, x)'
        BY <1>0, <2>1, <3>2 DEF OpInv, OpRival
      <4>2. pc'[q] = "write" => ~OpRival(q, p)'
        <5>1. ~OpRival(p, q)  OBVIOUS
        <5> QED  BY <1>0, <3>2, <5>1 DEF OpRival
      <4> QED  BY <4>1, <4>2 DEF OpInv
    <3> QED  BY <3>1, <3>2
  <2>5. SlotInv(q)'  BY <1>0, <2>1 DEF SlotInv
  <2>6. LockInv(q)'  BY <1>0, <2>1 DEF LockInv
  <2> QED  BY <2>2, <2>3, <2>4, <2>5, <2>6 DEF TxInv
<1> QED  BY <1>1, <1>2 DEF LedgerInv, TxInv
LEMMA InsertMovementInv ==
  ASSUME RequestAssumption, LedgerInv, NEW p \in Tx, NEW i \in Item, InsertMovement(p, i)
  PROVE  LedgerInv'
<1> USE DEF InsertMovement, dbVars
<1>1. TypeOK'  BY DEF LedgerInv, TypeOK, STypeOK
<1>0. /\ moved'[p] = moved[p] \cup {i} /\ \A x \in Tx \ {p} : moved'[x] = moved[x]
      /\ UNCHANGED <<balance, entries, chain, pc, req, head, updated>>
  BY DEF LedgerInv, TypeOK
<1>a. /\ pc[p] = "write" /\ i \in Items(req[p]) \ moved[p]
      /\ \A j \in Items(req[p]) \ moved[p] : i <= j
      /\ Len(chain[i]) = head[p][i]
  BY DEF NextItem
<1>b. ASSUME NEW j \in Items(req[p]) PROVE j \in Int
  <2>1. PICK m \in req[p].moves : j = m.item  BY DEF Items
  <2>2. m.item \in Item  BY DEF LedgerInv, TypeOK, RequestAssumption
  <2> QED  BY <2>1, <2>2, AllIds
<1>c. ASSUME NEW q \in Tx \ {p} PROVE i \notin moved[q]
  <2>1. SlotInv(q) /\ ~SlotRival(p, q, i)  BY DEF LedgerInv
  <2> QED  BY <1>a, <2>1 DEF SlotInv, SlotRival
<1>2. ASSUME NEW q \in Tx PROVE TxInv(q)'
  <2>1. RequestInv(q) /\ HeadInv(q) /\ OpInv(q) /\ SlotInv(q) /\ LockInv(q)
    BY DEF LedgerInv
  <2>2. RequestInv(q)'  BY <1>0, <2>1 DEF RequestInv
  <2>3. HeadInv(q)'  BY <1>0, <2>1 DEF HeadInv
  <2>4. OpInv(q)'  BY <1>0, <2>1 DEF OpInv, OpRival
  <2>5. SlotInv(q)'
    <3>1. CASE q = p
      <4>1. pc'[p] = "write" /\ moved'[p] \subseteq Items(req'[p])
        BY <1>0, <1>a, <2>1, <3>1 DEF SlotInv
      <4>2. ASSUME NEW k \in moved'[p]
            PROVE  /\ head'[p][k] = Len(chain'[k])
                   /\ \A j \in Items(req'[p]) \ moved'[p] : k < j
                   /\ \A x \in Tx \ {p} : k \notin moved'[x]
        <5>1. CASE k = i  BY <1>0, <1>a, <1>b, <1>c, <5>1
        <5>2. CASE k \in moved[p]  BY <1>0, <2>1, <3>1, <5>2 DEF SlotInv
        <5> QED  BY <1>0, <5>1, <5>2
      <4> QED  BY <3>1, <4>1, <4>2 DEF SlotInv
    <3>2. CASE q # p
      <4>1. \A k \in moved[q] : k # i  BY <1>c, <3>2
      <4>2. moved'[q] = moved[q]  BY <1>0, <3>2
      <4>3. \A k \in moved[q] : \A x \in Tx \ {q} : k \notin moved'[x]
        BY <1>0, <2>1, <4>1 DEF SlotInv
      <4> QED  BY <1>0, <2>1, <4>2, <4>3 DEF SlotInv
    <3> QED  BY <3>1, <3>2
  <2>6. LockInv(q)'
    <3>1. CASE q = p
      <4>1. updated[p] = {}  BY <1>a, <2>1, <3>1 DEF LockInv
      <4> QED  BY <1>0, <3>1, <4>1 DEF LockInv
    <3>2. CASE q # p  BY <1>0, <2>1, <3>2 DEF LockInv
    <3> QED  BY <3>1, <3>2
  <2> QED  BY <2>2, <2>3, <2>4, <2>5, <2>6 DEF TxInv
<1> QED  BY <1>1, <1>2 DEF LedgerInv, TxInv

LEMMA UpdateBalanceInv ==
  ASSUME RequestAssumption, LedgerInv, NEW p \in Tx, NEW a \in Controlled, UpdateBalance(p, a)
  PROVE  LedgerInv'
<1> USE DEF UpdateBalance, dbVars
<1>1. TypeOK'  BY DEF LedgerInv, TypeOK, STypeOK
<1>0. /\ updated'[p] = updated[p] \cup {a} /\ \A x \in Tx \ {p} : updated'[x] = updated[x]
      /\ UNCHANGED <<balance, entries, chain, pc, req, head, moved>>
  BY DEF LedgerInv, TypeOK
<1>a. /\ pc[p] = "write" /\ moved[p] = Items(req[p])
      /\ a \in Touched(req[p]) \ updated[p]
      /\ \A b \in Touched(req[p]) \ updated[p] : a <= b
      /\ \A q \in Tx \ {p} : a \notin updated[q]
      /\ balance[a] + Delta(req[p], a) >= 0
  BY DEF NextAccount
<1>b. \A b \in Controlled : b \in Int  BY AllIds
<1>2. ASSUME NEW q \in Tx PROVE TxInv(q)'
  <2>1. RequestInv(q) /\ HeadInv(q) /\ OpInv(q) /\ SlotInv(q) /\ LockInv(q)
    BY DEF LedgerInv
  <2>2. RequestInv(q)'  BY <1>0, <2>1 DEF RequestInv
  <2>3. HeadInv(q)'  BY <1>0, <2>1 DEF HeadInv
  <2>4. OpInv(q)'  BY <1>0, <2>1 DEF OpInv, OpRival
  <2>5. SlotInv(q)'  BY <1>0, <2>1 DEF SlotInv
  <2>6. LockInv(q)'
    <3>1. CASE q = p
      <4>1. updated'[p] \subseteq Touched(req'[p])  BY <1>0, <1>a, <2>1, <3>1 DEF LockInv
      <4>2. ASSUME NEW k \in updated'[p]
            PROVE  /\ balance'[k] + Delta(req[p], k) >= 0
                   /\ \A b \in Touched(req[p]) \ updated'[p] : k < b
                   /\ \A x \in Tx \ {p} : k \notin updated'[x]
        <5>1. CASE k = a  BY <1>0, <1>a, <1>b, <5>1 DEF Touched
        <5>2. CASE k \in updated[p]  BY <1>0, <2>1, <3>1, <5>2 DEF LockInv
        <5> QED  BY <1>0, <5>1, <5>2
      <4> QED  BY <1>0, <1>a, <3>1, <4>1, <4>2 DEF LockInv
    <3>2. CASE q # p
      <4>1. \A k \in updated[q] : k # a  BY <1>a, <3>2
      <4>2. \A k \in updated[q] : \A x \in Tx \ {q} : k \notin updated'[x]
        BY <1>0, <2>1, <4>1 DEF LockInv
      <4> QED  BY <1>0, <2>1, <3>2, <4>2 DEF LockInv
    <3> QED  BY <3>1, <3>2
  <2> QED  BY <2>2, <2>3, <2>4, <2>5, <2>6 DEF TxInv
<1> QED  BY <1>1, <1>2 DEF LedgerInv, TxInv
\* What a transaction knows once its movements are inserted: each instance is
\* where its movement takes it from, and nobody has moved it since.
LEMMA WritingFacts ==
  ASSUME RequestAssumption, LedgerInv, NEW p \in Tx, pc[p] = "write", moved[p] = Items(req[p])
  PROVE  /\ WellShaped(req[p]) /\ Balanced(req[p]) /\ req[p] \in Request
         /\ \A m \in req[p].moves : at[m.item] = IF m.mint THEN Nowhere ELSE m.from
         /\ \A m \in req[p].moves : ~m.mint => chain[m.item] # <<>>
<1>1. /\ RequestInv(p) /\ HeadInv(p) /\ SlotInv(p)
      /\ req[p] \in Request /\ STypeOK
  BY DEF LedgerInv, TypeOK
<1>2. WellShaped(req[p]) /\ Balanced(req[p])  BY <1>1 DEF RequestInv, HeadInv
<1>3. ASSUME NEW m \in req[p].moves
      PROVE  /\ at[m.item] = IF m.mint THEN Nowhere ELSE m.from
             /\ ~m.mint => chain[m.item] # <<>>
  <2>1. m.item \in Items(req[p]) /\ m.item \in Item  BY <1>1, <1>2, MoveOfFact
  <2>2. chain[m.item] \in Seq(Row)  BY <1>1, <2>1 DEF STypeOK
  <2>3. at[m.item] = IF chain[m.item] = <<>> THEN Nowhere
                     ELSE chain[m.item][Len(chain[m.item])].to
    BY <2>1 DEF at
  <2>4. CASE m.mint
    <3>1. m.item \in Minted(req[p])  BY <2>4 DEF Minted
    <3>2. chain[m.item] = <<>>  BY <1>1, <3>1 DEF RequestInv
    <3> QED  BY <2>3, <2>4, <3>2
  <2>5. CASE ~m.mint
    <3>1. head[p][m.item] > 0 /\ chain[m.item][head[p][m.item]].to = m.from
      BY <1>1, <2>5 DEF HeadInv
    <3>2. head[p][m.item] = Len(chain[m.item])  BY <1>1, <2>1 DEF SlotInv
    <3>3. chain[m.item] # <<>>  BY <2>2, <3>1, <3>2, EmptySeq
    <3> QED  BY <2>3, <2>5, <3>1, <3>2, <3>3
  <2> QED  BY <2>4, <2>5
<1> QED  BY <1>1, <1>2, <1>3

LEMMA CommitFacts ==
  ASSUME RequestAssumption, LedgerInv, NEW p \in Tx, Commit(p)
  PROVE  /\ WellShaped(req[p]) /\ Balanced(req[p]) /\ req[p] \in Request
         /\ \A m \in req[p].moves : at[m.item] = IF m.mint THEN Nowhere ELSE m.from
         /\ \A m \in req[p].moves : ~m.mint => chain[m.item] # <<>>
<1>1. pc[p] = "write" /\ moved[p] = Items(req[p])  BY DEF Commit
<1> QED  BY <1>1, WritingFacts

\* The heart of the refinement: what Commit publishes is the document taking
\* effect on the committed ledger of that moment.
LEMMA CommitApplies ==
  ASSUME RequestAssumption, LedgerInv, NEW p \in Tx, Commit(p)
  PROVE  Apply(req[p])
<1> DEFINE r == req[p]
<1>1. /\ pc[p] = "write" /\ moved[p] = Items(r) /\ updated[p] = Touched(r)
      /\ OpInv(p) /\ LockInv(p) /\ STypeOK
  BY DEF Commit, LedgerInv, TypeOK
<1>2. Applicable(r)
  <2>1. r.op \in Op => entries[r.op] = 0  BY <1>1 DEF OpInv
  <2>2. \A a \in Touched(r) : balance[a] + Delta(r, a) >= 0  BY <1>1 DEF LockInv
  <2> QED  BY <2>1, <2>2, CommitFacts DEF Applicable
<1>3. balance' = [a \in Controlled |-> balance[a] + Delta(r, a)]
  <2>1. ASSUME NEW a \in Controlled
        PROVE  (IF a \in updated[p] THEN balance[a] + Delta(r, a) ELSE balance[a])
                 = balance[a] + Delta(r, a)
    <3>1. CASE a \in updated[p]  BY <3>1
    <3>2. CASE a \notin updated[p]
      <4>1. Delta(r, a) = 0  BY <1>1, <3>2 DEF Touched
      <4>2. balance[a] \in Int  BY <1>1 DEF STypeOK
      <4> QED  BY <3>2, <4>1, <4>2
    <3> QED  BY <3>1, <3>2
  <2> QED  BY <2>1 DEF Commit
<1>4. /\ posted' = [a \in Account |-> posted[a] + Delta(r, a)]
      /\ entries' = [entries EXCEPT ![r.op] = @ + 1]
      /\ chain' = [i \in Item |->
                    IF i \in Items(r) THEN Append(chain[i], RowOf(MoveOf(r, i))) ELSE chain[i]]
  BY <1>1 DEF Commit
<1> QED  BY <1>2, <1>3, <1>4 DEF Apply

LEMMA CommitInv ==
  ASSUME RequestAssumption, LedgerInv, NEW p \in Tx, Commit(p)
  PROVE  LedgerInv'
<1>0. /\ pc[p] = "write" /\ moved[p] = Items(req[p]) /\ updated[p] = Touched(req[p])
      /\ pc'[p] = "idle" /\ moved'[p] = {} /\ updated'[p] = {}
      /\ \A x \in Tx \ {p} : pc'[x] = pc[x] /\ moved'[x] = moved[x] /\ updated'[x] = updated[x]
      /\ UNCHANGED <<req, head>>
  BY DEF LedgerInv, TypeOK, Commit, Finish
<1>a. Apply(req[p]) /\ req[p] \in Request /\ STypeOK /\ WellShaped(req[p])
  BY CommitApplies, CommitFacts DEF LedgerInv, TypeOK
<1>b. /\ \A m \in req[p].moves : chain'[m.item] = Append(chain[m.item], RowOf(m))
      /\ \A i \in Item \ Items(req[p]) : chain'[i] = chain[i]
      /\ chain' \in [Item -> Seq(Row)]
  BY <1>a, ChainAfter
<1>c. STypeOK'
  <2>1. /\ Controlled \subseteq Account /\ \A a \in Account : Delta(req[p], a) \in Int
        /\ req[p].op \in Op \cup {NoOp}
    BY <1>a, DeltaIsInt DEF RequestAssumption
  <2>2. balance' \in [Controlled -> Int] /\ posted' \in [Account -> Int]
    BY <1>a, <2>1 DEF STypeOK, Apply
  <2>3. entries' \in [Op \cup {NoOp} -> Nat]  BY <1>a, <2>1 DEF STypeOK, Apply
  <2> QED  BY <1>b, <2>2, <2>3 DEF STypeOK
<1>1. TypeOK'  BY <1>c DEF LedgerInv, TypeOK, Commit, Finish
<1>d. ASSUME NEW i \in Item
      PROVE  /\ Len(chain[i]) \in Nat /\ Len(chain'[i]) \in Nat
             /\ Len(chain[i]) <= Len(chain'[i])
             /\ \A k \in 1..Len(chain[i]) : chain'[i][k] = chain[i][k]
  <2>1. chain[i] \in Seq(Row)  BY <1>a DEF STypeOK
  <2>2. CASE i \notin Items(req[p])
    <3>1. chain'[i] = chain[i] /\ Len(chain[i]) \in Nat  BY <1>b, <2>1, <2>2
    <3> QED  BY <3>1
  <2>3. CASE i \in Items(req[p])
    <3>1. PICK m \in req[p].moves : i = m.item  BY <2>3 DEF Items
    <3>2. RowOf(m) \in Row /\ chain'[i] = Append(chain[i], RowOf(m))
      BY <1>a, <1>b, <3>1, MoveOfFact
    <3>3. /\ Len(chain'[i]) = Len(chain[i]) + 1
          /\ \A k \in 1..Len(chain[i]) : chain'[i][k] = chain[i][k]
      BY <2>1, <3>2, AppendProperties
    <3>4. Len(chain[i]) \in Nat  BY <2>1
    <3> QED  BY <3>3, <3>4
  <2> QED  BY <2>2, <2>3
<1>2. ASSUME NEW q \in Tx PROVE TxInv(q)'
  <2>1. RequestInv(q) /\ HeadInv(q) /\ OpInv(q) /\ SlotInv(q) /\ LockInv(q)
    BY DEF LedgerInv
  <2>2. CASE q = p
    BY <1>0, <2>2 DEF TxInv, RequestInv, HeadInv, OpInv, SlotInv, LockInv
  <2>3. CASE q # p
    <3>0. /\ pc'[q] = pc[q] /\ moved'[q] = moved[q] /\ updated'[q] = updated[q]
          /\ req'[q] = req[q] /\ head'[q] = head[q] /\ req[q] \in Request
          /\ \A m \in req[q].moves : m.item \in Item
      BY <1>0, <2>3 DEF LedgerInv, TypeOK, RequestAssumption
    <3>1. RequestInv(q)'
      <4>1. SUFFICES ASSUME pc[q] # "idle" PROVE RequestInv(q)'
        BY <3>0 DEF RequestInv
      <4>2. ASSUME NEW i \in Minted(req[q]) PROVE chain'[i] = <<>>
        <5>1. chain[i] = <<>> /\ i \notin Minted(req[p])
          BY <1>0, <2>1, <2>3, <4>1 DEF RequestInv
        <5>2. i \in Item  BY <3>0 DEF Minted
        <5>3. i \notin Items(req[p])
          <6>1. ASSUME NEW m \in req[p].moves, i = m.item PROVE FALSE
            <7>1. m.mint  BY <5>1, <6>1, CommitFacts
            <7> QED  BY <5>1, <6>1, <7>1 DEF Minted
          <6> QED  BY <6>1 DEF Items
        <5> QED  BY <1>b, <5>1, <5>2, <5>3
      <4>3. \A x \in Tx : pc'[x] # "idle" => pc[x] # "idle"  BY <1>0
      <4> QED  BY <1>0, <2>1, <3>0, <4>1, <4>2, <4>3 DEF RequestInv
    <3>2. HeadInv(q)'
      <4>1. SUFFICES ASSUME pc[q] \in {"basis", "write"} PROVE HeadInv(q)'
        BY <3>0 DEF HeadInv
      <4>2. ASSUME NEW m \in req[q].moves
            PROVE  /\ head[q][m.item] <= Len(chain'[m.item])
                   /\ ~m.mint => /\ head[q][m.item] > 0
                                 /\ chain'[m.item][head[q][m.item]].to = m.from
        <5>1. /\ head[q][m.item] <= Len(chain[m.item])
              /\ ~m.mint => /\ head[q][m.item] > 0
                            /\ chain[m.item][head[q][m.item]].to = m.from
          BY <2>1, <4>1 DEF HeadInv
        <5>2. head[q][m.item] \in Nat /\ m.item \in Item
          <6>1. head[q] \in [Item -> Nat] /\ m.item \in Item  BY <3>0 DEF LedgerInv, TypeOK
          <6> QED  BY <6>1
        <5>3. head[q][m.item] > 0 =>
                chain'[m.item][head[q][m.item]] = chain[m.item][head[q][m.item]]
          <6>1. SUFFICES ASSUME head[q][m.item] > 0
                PROVE  chain'[m.item][head[q][m.item]] = chain[m.item][head[q][m.item]]
            OBVIOUS
          <6>2. head[q][m.item] \in 1..Len(chain[m.item])  BY <1>d, <5>1, <5>2, <6>1
          <6> QED  BY <1>d, <5>2, <6>2
        <5>4. head[q][m.item] <= Len(chain'[m.item])
          <6>1. /\ Len(chain[m.item]) \in Nat /\ Len(chain'[m.item]) \in Nat
                /\ Len(chain[m.item]) <= Len(chain'[m.item])
            BY <1>d, <5>2
          <6> QED  BY <5>1, <5>2, <6>1
        <5> QED  BY <5>1, <5>3, <5>4
      <4>3. Balanced(req[q])  BY <2>1, <4>1 DEF HeadInv
      <4> QED  BY <3>0, <4>2, <4>3 DEF HeadInv
    <3>3. OpInv(q)'
      <4>1. SUFFICES ASSUME pc[q] = "write", req[q].op \in Op PROVE OpInv(q)'
        BY <3>0 DEF OpInv
      <4>2. entries[req[q].op] = 0 /\ req[p].op # req[q].op
        BY <1>0, <2>1, <2>3, <4>1 DEF OpInv, OpRival
      <4>3. entries'[req[q].op] = 0
        BY <1>a, <4>1, <4>2 DEF Apply, STypeOK
      <4>4. \A x \in Tx : ~OpRival(q, x)'
        BY <1>0, <2>1, <2>3, <4>1 DEF OpInv, OpRival
      <4> QED  BY <3>0, <4>3, <4>4 DEF OpInv
    <3>4. SlotInv(q)'
      <4>1. ASSUME NEW i \in moved[q] PROVE chain'[i] = chain[i]
        <5>1. i \notin Items(req[p]) /\ i \in Item
          BY <1>0, <2>1, <2>3 DEF SlotInv, LedgerInv, TypeOK
        <5> QED  BY <1>b, <5>1
      <4>2. \A i \in moved[q] : \A x \in Tx \ {q} : i \notin moved'[x]
        BY <1>0, <2>1 DEF SlotInv
      <4> QED  BY <2>1, <3>0, <4>1, <4>2 DEF SlotInv
    <3>5. LockInv(q)'
      <4>1. ASSUME NEW a \in updated[q] PROVE balance'[a] = balance[a]
        <5>1. a \notin updated[p] /\ a \in Controlled
          BY <2>1, <2>3 DEF LockInv, LedgerInv, TypeOK
        <5> QED  BY <5>1 DEF Commit
      <4>2. \A a \in updated[q] : \A x \in Tx \ {q} : a \notin updated'[x]
        BY <1>0, <2>1 DEF LockInv
      <4> QED  BY <2>1, <3>0, <4>1, <4>2 DEF LockInv
    <3> QED  BY <3>1, <3>2, <3>3, <3>4, <3>5 DEF TxInv
  <2> QED  BY <2>2, <2>3
<1> QED  BY <1>1, <1>2 DEF LedgerInv, TxInv
LEMMA NextLedgerInv ==
  ASSUME RequestAssumption, LedgerInv, [Next]_vars  PROVE LedgerInv'
<1>1. ASSUME NEW p \in Tx, Step(p) PROVE LedgerInv'
  <2>1. CASE \E r \in Request : Begin(p, r)  BY <2>1, BeginInv
  <2>2. CASE ReadHeads(p)  BY <2>2, ReadHeadsInv
  <2>3. CASE InsertBasis(p)  BY <2>3, InsertBasisInv
  <2>4. CASE \E i \in Item : InsertMovement(p, i)  BY <2>4, InsertMovementInv
  <2>5. CASE \E a \in Controlled : UpdateBalance(p, a)  BY <2>5, UpdateBalanceInv
  <2>6. CASE Commit(p)  BY <2>6, CommitInv
  <2>7. CASE \/ Refuse(p) \/ AlreadyPosted(p) \/ Abort(p)
             \/ \E i \in Item : MoveConflict(p, i)
             \/ \E a \in Controlled : Overdraft(p, a)
    <3>1. Finish(p) /\ UNCHANGED dbVars
      BY <2>7 DEF Refuse, AlreadyPosted, Abort, MoveConflict, Overdraft
    <3> QED  BY <3>1, FinishInv
  <2> QED  BY <1>1, <2>1, <2>2, <2>3, <2>4, <2>5, <2>6, <2>7 DEF Step
<1>2. CASE UNCHANGED vars
  <2>1. /\ UNCHANGED <<balance, posted, entries, chain>>
        /\ UNCHANGED <<pc, req, head, moved, updated>>
    BY <1>2 DEF vars, dbVars, txVars
  <2>2. TypeOK'  BY <2>1 DEF LedgerInv, TypeOK, STypeOK
  <2>3. ASSUME NEW p \in Tx PROVE TxInv(p)'
    <3>1. RequestInv(p) /\ HeadInv(p) /\ OpInv(p) /\ SlotInv(p) /\ LockInv(p)
      BY DEF LedgerInv
    <3> QED  BY <2>1, <3>1 DEF TxInv, RequestInv, HeadInv, OpInv, OpRival, SlotInv, LockInv
  <2> QED  BY <2>2, <2>3 DEF LedgerInv, TxInv
<1> QED  BY <1>1, <1>2 DEF Next

\* The inductive invariant of the concurrent transactions (Post, Move).
THEOREM LedgerInvariant == Spec => []LedgerInv
<1>1. Init => LedgerInv  BY RequestAssumption, InitLedgerInv
<1>2. LedgerInv /\ [Next]_vars => LedgerInv'  BY RequestAssumption, NextLedgerInv
<1> QED  BY <1>1, <1>2, PTL DEF Spec

\* The transactions of Post and Move, however they interleave, are
\* serializable: the committed rows only ever change by one document taking
\* effect whole, where SerialLedger lets it.
THEOREM LedgerSerializable == Spec => ImplementsSerial
<1>1. Init => SInit  BY DEF Init
<1>2. LedgerInv /\ [Next]_vars => [SNext]_dbVars
  <2>1. ASSUME LedgerInv, NEW p \in Tx, Step(p) PROVE [SNext]_dbVars
    <3>1. CASE Commit(p)
      <4>1. Apply(req[p]) /\ req[p] \in Request
        BY <2>1, <3>1, CommitApplies, CommitFacts, RequestAssumption
      <4> QED  BY <4>1 DEF SNext
    <3>2. CASE ~Commit(p)
      <4>1. UNCHANGED dbVars
        BY <2>1, <3>2 DEF Step, Begin, ReadHeads, Refuse, InsertBasis, AlreadyPosted,
           InsertMovement, MoveConflict, UpdateBalance, Overdraft, Abort
      <4> QED  BY <4>1
    <3> QED  BY <3>1, <3>2
  <2>2. UNCHANGED vars => UNCHANGED dbVars  BY DEF vars
  <2> QED  BY <2>1, <2>2 DEF Next
<1> QED  BY <1>1, <1>2, LedgerInvariant, PTL DEF Spec, ImplementsSerial, SSpec

\* So what holds of the serial ledger holds of the tables: no overdraft,
\* balances equal to their postings, kinds that sum to zero, slots_used equal to the instances held,
\* unbroken chains, one posting per operation.
THEOREM TablesKeepSerialInv == Spec => []SerialInv
BY LedgerSerializable, SerialInvariant, PTL DEF ImplementsSerial

\* An instance's movements never break their chain, whatever the
\* transactions that insert them overlap with.
THEOREM ChainAlwaysUnbroken == Spec => []ChainUnbroken
<1>1. SerialInv => ChainUnbroken  BY DEF SerialInv
<1> QED  BY <1>1, TablesKeepSerialInv, PTL

\* A slots_used balance never diverges from the instances held.
THEOREM CapacityAlwaysAgrees == Spec => []CapacityAgrees
<1>1. SerialInv => CapacityAgrees  BY DEF SerialInv
<1> QED  BY <1>1, TablesKeepSerialInv, PTL

\* The postings of every kind sum to zero at any moment, between any two
\* statements of any transactions (Post, Move).
THEOREM BooksAlwaysBalance == Spec => []ZeroSum
<1>1. SerialInv => ZeroSum  BY DEF SerialInv
<1> QED  BY <1>1, TablesKeepSerialInv, PTL
----------------------------------------------------------------------------
\* A movement out of a holder, once inserted, is of an instance it holds, so
\* its slots_used covers it.
LEMMA UsedCovers ==
  ASSUME RequestAssumption, LedgerInv, SerialInv, NEW p \in Tx, NEW h \in Holder,
         Used[h] \in Controlled, pc[p] = "write", moved[p] = Items(req[p])
  PROVE  balance[Used[h]] + Delta(req[p], Used[h]) >= 0
<1> DEFINE r == req[p]
           goes == {m.item : m \in Leaving(r, h)}
<1>1. /\ WellShaped(r) /\ r \in Request
      /\ \A m \in r.moves : at[m.item] = IF m.mint THEN Nowhere ELSE m.from
  BY WritingFacts
<1>2. h # World  BY DEF RequestAssumption
<1>3. goes \subseteq Held(h)
  <2>1. ASSUME NEW m \in Leaving(r, h) PROVE m.item \in Held(h)
    <3>1. m \in r.moves /\ m.from = h  BY DEF Leaving
    <3>2. ~m.mint /\ m.item \in Item  BY <1>1, <1>2, <3>1, MoveOfFact DEF WellShaped
    <3> QED  BY <1>1, <3>1, <3>2 DEF Held
  <2> QED  BY <2>1
<1>4. /\ IsFiniteSet(goes) /\ Cardinality(goes) = Cardinality(Leaving(r, h))
      /\ IsFiniteSet(Arriving(r, h))
  BY <1>1, AsManyItems DEF Leaving, Arriving
<1>5. IsFiniteSet(Held(h))  BY FS_Subset DEF Held, RequestAssumption
<1> HIDE DEF goes
<1>6. Cardinality(goes) <= Cardinality(Held(h))
  <2> DEFINE held == Held(h)
  <2>1. IsFiniteSet(held) /\ goes \subseteq held  BY <1>3, <1>5
  <2> HIDE DEF held
  <2>2. Cardinality(goes) <= Cardinality(held)  BY <2>1, FS_Subset
  <2> QED  BY <2>2 DEF held
<1>7. balance[Used[h]] = Cardinality(Held(h))  BY DEF SerialInv, CapacityAgrees, Held
<1>8. /\ Cardinality(Arriving(r, h)) \in Nat /\ Cardinality(goes) \in Nat
      /\ Cardinality(Held(h)) \in Nat
  BY <1>4, <1>5, FS_CardinalityType
<1>9. Delta(r, Used[h]) = Cardinality(Arriving(r, h)) - Cardinality(goes)
  BY <1>1, <1>4, NetFacts DEF Net
<1> QED  BY <1>6, <1>7, <1>8, <1>9

\* ErrOverdraft is never about a slots_used account: Move refuses a lost race
\* at the chain first.
THEOREM UsedIsNeverOverdrawn == Spec => UsedNeverOverdrawn
<1>1. LedgerInv /\ SerialInv =>
        \A p \in Tx : \A h \in Holder : Used[h] \in Controlled => ~Overdraft(p, Used[h])
  <2>1. ASSUME LedgerInv, SerialInv, NEW p \in Tx, NEW h \in Holder,
               Used[h] \in Controlled, Overdraft(p, Used[h])
        PROVE  FALSE
    <3>1. /\ pc[p] = "write" /\ moved[p] = Items(req[p])
          /\ balance[Used[h]] + Delta(req[p], Used[h]) < 0
      BY <2>1 DEF Overdraft, NextAccount
    <3>2. balance[Used[h]] + Delta(req[p], Used[h]) >= 0
      BY <2>1, <3>1, UsedCovers, RequestAssumption
    <3>3. balance[Used[h]] \in Int /\ Delta(req[p], Used[h]) \in Int
      <4>1. WellShaped(req[p]) /\ req[p] \in Request
        BY <2>1, <3>1, WritingFacts, RequestAssumption
      <4>2. Delta(req[p], Used[h]) \in Int
        BY <4>1, NetFacts, RequestAssumption
      <4> QED  BY <2>1, <4>2 DEF SerialInv, STypeOK
    <3> QED  BY <3>1, <3>2, <3>3
  <2> QED  BY <2>1
<1> QED  BY <1>1, LedgerInvariant, TablesKeepSerialInv, PTL DEF UsedNeverOverdrawn----------------------------------------------------------------------------
\* The largest element of a set of ids.
LEMMA Largest ==
  ASSUME NEW n \in Nat, NEW A \in SUBSET (0..n), A # {}
  PROVE  \E a \in A : \A b \in A : b <= a
<1> DEFINE T == {n - a : a \in A}
<1>1. T \in SUBSET Nat /\ T # {}
  <2>1. \A a \in A : n - a \in Nat  OBVIOUS
  <2> QED  BY <2>1
<1>2. PICK x \in T : \A y \in T : x <= y
  <2> HIDE DEF T
  <2> QED  BY <1>1, LeastOf
<1>3. PICK a \in A : x = n - a  BY <1>2
<1>4. ASSUME NEW b \in A PROVE b <= a
  <2>1. n - b \in T /\ a \in Int /\ b \in Int  OBVIOUS
  <2>2. n - a <= n - b
    <3> HIDE DEF T
    <3> QED  BY <1>2, <1>3, <2>1
  <2> QED  BY <2>1, <2>2
<1> QED  BY <1>4

\* Whoever holds what another waits for is past it: it waits for a later row.
LEMMA HolderIsPast ==
  ASSUME RequestAssumption, LedgerInv, NEW q \in Tx
  PROVE  /\ \A i \in moved[q] : \A j \in Item : NextItem(q, j) => i < j
         /\ \A a \in updated[q] : \A b \in Controlled : NextAccount(q, b) => a < b
         /\ \A a \in updated[q] : \A j \in Item : ~NextItem(q, j)
<1>1. SlotInv(q) /\ LockInv(q)  BY DEF LedgerInv
<1> QED  BY <1>1 DEF SlotInv, LockInv, NextItem, NextAccount

\* Sessions that run one document each never deadlock among themselves.
THEOREM NeverDeadlocked == Spec => []NoDeadlock
<1>1. LedgerInv => NoDeadlock
  <2>1. ASSUME LedgerInv, NEW S \in SUBSET Tx, S # {},
               \A p \in S : \E q \in S : WaitsFor(p, q)
        PROVE  FALSE
    <3> DEFINE Accounts == {a \in Controlled : \E p, q \in S : NextAccount(p, a) /\ a \in updated[q]}
               Slots == {i \in Item : \E p, q \in S : NextItem(p, i) /\ i \in moved[q]}
    <3>0. /\ \A q \in S : \A i \in moved[q] : pc[q] = "write" /\ i \in Item
          /\ \A q \in S : \A a \in updated[q] : pc[q] = "write" /\ a \in Controlled
          /\ MaxId \in Nat /\ Item \subseteq 0..MaxId /\ Controlled \subseteq 0..MaxId
      BY <2>1, RequestAssumption DEF LedgerInv, SlotInv, LockInv, TypeOK, RequestAssumption
    <3>1. PICK p0 \in S : pc[p0] = "write"
      <4>1. PICK p \in S : TRUE  BY <2>1
      <4>2. PICK q \in S : WaitsFor(p, q)  BY <2>1
      <4>3. pc[p] = "write" \/ pc[q] = "write"
        BY <4>2 DEF WaitsFor, OpRival, NextItem, NextAccount
      <4> QED  BY <4>3
    <3>2. ASSUME NEW p \in S, pc[p] = "write"
          PROVE  \/ \E a \in Accounts : NextAccount(p, a)
                 \/ \E i \in Slots : NextItem(p, i)
      <4>1. PICK q \in S : WaitsFor(p, q)  BY <2>1
      <4>2. CASE \E i \in Item : NextItem(p, i) /\ SlotRival(p, q, i)
        BY <4>2 DEF SlotRival
      <4>3. CASE \E a \in Controlled : NextAccount(p, a) /\ q # p /\ a \in updated[q]
        BY <4>3
      <4> QED  BY <3>2, <4>1, <4>2, <4>3 DEF WaitsFor
    <3>3. Accounts = {}
      <4>1. SUFFICES ASSUME Accounts # {} PROVE FALSE  OBVIOUS
      <4>2. Accounts \in SUBSET (0..MaxId)  BY <3>0
      <4>3. PICK a \in Accounts : \A b \in Accounts : b <= a
        <5> HIDE DEF Accounts
        <5> QED  BY <3>0, <4>1, <4>2, Largest
      <4>4. PICK q \in S : a \in updated[q]  OBVIOUS
      <4>5. PICK b \in Accounts : NextAccount(q, b)
        BY <2>1, <3>0, <3>2, <4>4, HolderIsPast, RequestAssumption
      <4>6. a < b  BY <2>1, <4>4, <4>5, HolderIsPast, RequestAssumption
      <4>7. a \in Int /\ b \in Int  BY <3>0, <4>2
      <4> QED  BY <4>3, <4>5, <4>6, <4>7
    <3>4. Slots = {}
      <4>1. SUFFICES ASSUME Slots # {} PROVE FALSE  OBVIOUS
      <4>2. Slots \in SUBSET (0..MaxId)  BY <3>0
      <4>3. PICK i \in Slots : \A j \in Slots : j <= i
        <5> HIDE DEF Slots
        <5> QED  BY <3>0, <4>1, <4>2, Largest
      <4>4. PICK q \in S : i \in moved[q]  OBVIOUS
      <4>5. PICK j \in Slots : NextItem(q, j)
        <5>1. pc[q] = "write"  BY <3>0, <4>4
        <5> QED  BY <3>2, <3>3, <5>1
      <4>6. i < j  BY <2>1, <4>4, <4>5, HolderIsPast, RequestAssumption
      <4>7. i \in Int /\ j \in Int  BY <3>0, <4>2
      <4> QED  BY <4>3, <4>5, <4>6, <4>7
    <3> QED  BY <3>1, <3>2, <3>3, <3>4
  <2> QED  BY <2>1 DEF NoDeadlock
<1> QED  BY <1>1, LedgerInvariant, PTL
=============================================================================
