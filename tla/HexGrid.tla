------------------------------- MODULE HexGrid -------------------------------
(***************************************************************************)
(* The hexagonal lattice (package hexgrid) and what package gate computes  *)
(* on it: cells and chunks as axial coordinates, the chunk a cell lies in, *)
(* the borders of a chunk, the spiral of chunks, where the next gate goes, *)
(* and how far a cell is from the nearest one.  Coordinates are unbounded  *)
(* integers here; the code keeps them in 32 bits and computes in 64.       *)
(***************************************************************************)
EXTENDS Integers, Sequences, FiniteSets, SequencesExt

\* Coord and Chunk.
At2(q, r) == [q |-> q, r |-> r]
Origin == At2(0, 0)
Plus(a, b) == At2(a.q + b.q, a.r + b.r)
Minus(a, b) == At2(a.q - b.q, a.r - b.r)

Direction == 0..5      \* DirE, DirNE, DirNW, DirW, DirSW, DirSE

directionDeltas ==
  [d \in Direction |->
     << At2(1, 0), At2(1, -1), At2(0, -1), At2(-1, 0), At2(-1, 1), At2(0, 1) >>[d + 1]]

Opposite(d) == (d + 3) % 6

Neighbor(c, d) == Plus(c, directionDeltas[d])

\* One name for the face two cells share.
FaceOf(c, d) ==
  IF d < Opposite(d) THEN [cell |-> c, dir |-> d] ELSE [cell |-> Neighbor(c, d), dir |-> Opposite(d)]

abs64(v) == IF v < 0 THEN -v ELSE v

\* Distance and ChunkDistance.
Distance(a, b) ==
  LET dq == a.q - b.q  dr == a.r - b.r
  IN  (abs64(dq) + abs64(dr) + abs64(dq + dr)) \div 2
----------------------------------------------------------------------------
(* The lattice of chunks of radius r *)

CellCount(r) == 3 * r * r + 3 * r + 1

Center(r, ch) == At2(ch.q * (2 * r + 1) + ch.r * r, -ch.q * r + ch.r * (r + 1))

Offset(r, d) == Center(r, Neighbor(Origin, d))

\* At: a chunk's local cell, seen globally.
GlobalOf(r, ch, local) == Plus(Center(r, ch), local)

\* Mutant of Locate: only the floor is tried.
LocateFloor(r, c) ==
  LET n == CellCount(r)
      ch == At2(((r + 1) * c.q - r * c.r) \div n, (r * c.q + (2 * r + 1) * c.r) \div n)
  IN  [chunk |-> ch, local |-> Minus(c, Center(r, ch))]

\* The first of four candidate chunks, from the floor of the cell's lattice
\* coordinates on, whose centre is within the radius; the floor if none is.
Locate(r, c) ==
  LET n     == CellCount(r)
      star  == At2(((r + 1) * c.q - r * c.r) \div n, (r * c.q + (2 * r + 1) * c.r) \div n)
      tried == << star, Plus(star, At2(0, 1)), Plus(star, At2(1, 0)), Plus(star, At2(1, 1)) >>
      near  == {i \in 1..4 : Distance(c, Center(r, tried[i])) <= r}
      ch    == IF near = {} THEN star ELSE tried[CHOOSE i \in near : \A j \in near : i <= j]
  IN  [chunk |-> ch, local |-> Minus(c, Center(r, ch))]

\* LocalCells: ascending by row, then column, is the order of the indices.
LocalCells(r) == {c \in [q : -r..r, r : -r..r] : c.q + c.r \in -r..r}

Before(a, b) == a.r < b.r \/ (a.r = b.r /\ a.q < b.q)

\* canonicalBorder: from the far corner back, the lone face of every cell and the
\* secondary face of every cell but the one at lo.
canonicalBorder(cells, lone, secondary) ==
  LET n == Len(cells)
      at(i) == FaceOf(cells[n - (i - 1) \div 2], IF i % 2 = 1 THEN lone ELSE secondary)
  IN  [i \in 1 .. 2 * n - 1 |-> at(i)]

canonicalSide(r, d) ==
  [x \in 1 .. r + 1 |->
     CASE d = 0 -> At2(r, x - 1 - r)
       [] d = 1 -> At2(x - 1, -r)
       [] d = 2 -> At2(x - 1 - r, 1 - x)]

\* The faces shared with the neighbour in direction d, along the border, in the
\* order both chunks agree on.
Border(r, d) ==
  IF d <= 2 THEN canonicalBorder(canonicalSide(r, d), d, (d + 1) % 6)
  ELSE LET base == canonicalBorder(canonicalSide(r, d - 3), d - 3, d - 2)
       IN  [i \in DOMAIN base |-> [base[i] EXCEPT !.cell = Plus(@, Offset(r, d))]]
----------------------------------------------------------------------------
(* Package gate *)

\* The chunk at position p of ring n.
ringChunk(n, p) ==
  LET e == (p + n \div 2) % (6 * n)
      d == e \div n
      t == e % n
      corner == directionDeltas[d]
      step   == directionDeltas[(d + 2) % 6]
  IN  At2(n * corner.q + t * step.q, n * corner.r + t * step.r)

\* The ring of position i > 0 of the spiral: ring n starts at position 1 + 3n(n - 1).
ringAt(i) == CHOOSE n \in 1..i : 3 * n * (n - 1) < i /\ i <= 3 * n * (n + 1)

\* What Spiral yields up to the last chunk of a ring: the origin, then ring after ring.
Spiral(rings) ==
  [x \in 1 .. 1 + 3 * rings * (rings + 1) |->
     LET i == x - 1  n == ringAt(i)
     IN  IF i = 0 THEN Origin ELSE ringChunk(n, i - 1 - 3 * n * (n - 1))]

\* Mutant of SpiralIndex: the rotation of the ring's start is forgotten.
SpiralIndexUnrotated(ch) ==
  LET n == Distance(Origin, ch)
      e == CHOOSE x \in 0 .. 6 * n - 1 : ringChunk(n, x - n \div 2) = ch
  IN  IF n = 0 THEN 0 ELSE 1 + 3 * n * (n - 1) + e

SpiralIndex(ch) ==
  LET n == Distance(Origin, ch)
      q == ch.q  r == ch.r  s == -ch.q - ch.r
      side == CASE q = n /\ r > -n  -> <<0, -r>>
                [] r = -n /\ q > 0  -> <<1, n - q>>
                [] s = n /\ q > -n  -> <<2, -q>>
                [] q = -n /\ r < n  -> <<3, r>>
                [] r = n /\ q < 0   -> <<4, q + n>>
                [] OTHER            -> <<5, q>>
  IN  IF n = 0 THEN 0
      ELSE 1 + 3 * n * (n - 1) + ((side[1] * n + side[2] - n \div 2) % (6 * n))

farEnough(ch, gates, k) == \A g \in gates : Distance(ch, g) >= k + 1

\* The spiral's first chunk that is not created and not within k of a gate; past
\* the scan, a chunk of the ring beyond it.
gateNext(created, gates, k) ==
  LET reach == {0} \cup {Distance(Origin, ch) : ch \in created \cup gates}
      bound == (CHOOSE m \in reach : \A x \in reach : x <= m) + k
      scan  == Spiral(bound)
      free  == {i \in DOMAIN scan : scan[i] \notin created /\ farEnough(scan[i], gates, k)}
  IN  IF free = {} THEN At2(bound + 1, -((bound + 1) \div 2))
      ELSE scan[CHOOSE i \in free : \A j \in free : i <= j]

ringChunksAround(centre, n) ==
  IF n = 0 THEN {centre} ELSE {Plus(centre, ringChunk(n, p)) : p \in 0 .. 6 * n - 1}

ceilDiv64(a, b) == (a + b - 1) \div b

\* Mutant of lowerBound: the cell is taken to be at its chunk's centre.
lowerBoundFromCentre(r, ring) == ceilDiv64(ring * CellCount(r), 2 * r + 1)

\* No centre of a chunk of that ring or a later one is nearer than this.
lowerBound(r, ring) == ceilDiv64(ring * CellCount(r), 2 * r + 1) - r

\* depthSearch: rings of chunks around the cell's own, until what was found is no
\* further than anything a later ring could hold; -1 is "no gate".
Depth(r, gates, cell) ==
  LET c0 == Locate(r, cell).chunk
      seen(n) == {Distance(cell, Center(r, g)) : g \in gates \cap UNION {ringChunksAround(c0, i) : i \in 0..n}}
      best(n) == CHOOSE d \in seen(n) : \A x \in seen(n) : d <= x
      reach == 0 .. r + Distance(cell, Center(r, CHOOSE g \in gates : TRUE))
      last == CHOOSE n \in reach : /\ seen(n) # {} /\ best(n) <= lowerBound(r, n + 1)
                                 /\ \A i \in 0 .. n - 1 : seen(i) = {} \/ best(i) > lowerBound(r, i + 1)
  IN  IF gates = {} THEN -1 ELSE best(last)
=============================================================================
