---------------------------- MODULE Walk_proofs -----------------------------
(***************************************************************************)
(* The geometry of the world, for every radius, at every distance and with *)
(* either sign: distance is a metric, a cell is in exactly one chunk, two  *)
(* chunks share one border, every chunk has its place in the spiral, the   *)
(* search for the nearest gate ends at it, and where the next gate goes is *)
(* free and far enough from every other.                                   *)
(***************************************************************************)
EXTENDS Walk, FiniteSetTheorems, SequenceTheorems, WellFoundedInduction, TLAPS

ChunkAt == [q : Int, r : Int]
----------------------------------------------------------------------------
(* Numbers *)

LEMMA LeastOf ==
  ASSUME NEW S \in SUBSET Nat, S # {}
  PROVE  \E m \in S : \A x \in S : m <= x
<1>1. \E m \in S : \A y \in S : ~(<<y, m>> \in OpToRel(<, Nat))
  BY NatLessThanWellFounded, WFMin
<1>2. \A m, y \in S : ~(<<y, m>> \in OpToRel(<, Nat)) => m <= y
  BY DEF OpToRel
<1> QED
  BY <1>1, <1>2

\* A finite set of naturals is bounded: the least prefix of its enumeration that
\* is not would be one element longer than one that is.
LEMMA FiniteIsBounded ==
  ASSUME NEW S \in SUBSET Nat, IsFiniteSet(S)
  PROVE  \E b \in Nat : \A x \in S : x <= b
<1>1. PICK n \in Nat : ExistsSurjection(1..n, S)
  BY FS_NatSurjection
<1>2. PICK f : f \in Surjection(1..n, S)
  BY <1>1 DEF ExistsSurjection
<1>3. /\ f \in [1..n -> S]
      /\ \A x \in S : \E i \in 1..n : f[i] = x
  BY <1>2 DEF Surjection
<1> DEFINE Below(k, b) == \A i \in 1..k : f[i] <= b
           Bad == {k \in 0..n : ~ \E b \in Nat : Below(k, b)}
<1>4. Bad = {}
  <2> SUFFICES ASSUME Bad # {} PROVE FALSE
    OBVIOUS
  <2>1. Bad \in SUBSET Nat
    OBVIOUS
  <2> HIDE DEF Bad
  <2>2. PICK k \in Bad : \A x \in Bad : k <= x
    BY <2>1, LeastOf
  <2>3. k \in 0..n /\ ~ \E b \in Nat : Below(k, b)
    BY <2>2 DEF Bad
  <2>4. k # 0
    <3>1. Below(0, 0)
      OBVIOUS
    <3> QED
      BY <2>3, <3>1
  <2>5. k - 1 \in 0..n /\ k - 1 \notin Bad
    BY <2>2, <2>3, <2>4
  <2>6. PICK b \in Nat : Below(k - 1, b)
    BY <2>5 DEF Bad
  <2>7. k \in 1..n /\ \A i \in 1..n : f[i] \in Nat
    <3>1. k \in 1..n
      BY <2>3, <2>4
    <3> QED
      BY <1>3, <3>1
  <2>8. \E c \in Nat : b <= c /\ f[k] <= c
    BY <2>7
  <2>9. PICK c \in Nat : b <= c /\ f[k] <= c
    BY <2>8
  <2>10. ASSUME NEW i \in 1..k PROVE f[i] <= c
    <3>1. f[i] \in Nat
      BY <2>7
    <3>2. CASE i = k
      BY <2>9, <3>2
    <3>3. CASE i # k
      <4>1. i \in 1 .. k - 1
        BY <3>3, <2>3
      <4> QED
        BY <4>1, <2>6, <2>9, <3>1
    <3> QED
      BY <3>2, <3>3
  <2> QED
    BY <2>3, <2>9, <2>10
<1>5. PICK b \in Nat : Below(n, b)
  BY <1>4
<1> QED
  BY <1>3, <1>5

LEMMA GreatestOf ==
  ASSUME NEW S \in SUBSET Nat, IsFiniteSet(S), S # {}
  PROVE  \E m \in S : \A x \in S : x <= m
<1>1. PICK b \in Nat : \A x \in S : x <= b
  BY FiniteIsBounded
<1> DEFINE Bounds == {c \in Nat : \A x \in S : x <= c}
<1>2. PICK m \in Bounds : \A c \in Bounds : m <= c
  <2>1. b \in Bounds /\ Bounds \in SUBSET Nat
    BY <1>1
  <2> HIDE DEF Bounds
  <2> QED
    BY <2>1, LeastOf
<1>3. m \in S
  <2> SUFFICES ASSUME m \notin S PROVE FALSE
    OBVIOUS
  <2>1. \A x \in S : x <= m - 1 /\ m - 1 \in Nat
    OBVIOUS
  <2>2. m - 1 \in Bounds
    BY <2>1
  <2> QED
    BY <1>2, <2>2
<1> QED
  BY <1>2, <1>3
----------------------------------------------------------------------------
(* The lattice *)

\* The six steps are lattice vectors, and one back undoes one there.
LEMMA StepsUndo ==
  ASSUME NEW d \in Direction
  PROVE  /\ directionDeltas[d] \in ChunkAt
         /\ Opposite(d) \in Direction /\ Opposite(Opposite(d)) = d
         /\ directionDeltas[Opposite(d)] = At2(-directionDeltas[d].q, -directionDeltas[d].r)
<1>1. d \in {0, 1, 2, 3, 4, 5}
  BY DEF Direction
<1>2. /\ directionDeltas[0] = At2(1, 0)  /\ directionDeltas[1] = At2(1, -1)
      /\ directionDeltas[2] = At2(0, -1) /\ directionDeltas[3] = At2(-1, 0)
      /\ directionDeltas[4] = At2(-1, 1) /\ directionDeltas[5] = At2(0, 1)
  BY DEF directionDeltas, Direction
<1>3. directionDeltas[d] \in ChunkAt
  BY <1>1, <1>2 DEF At2, ChunkAt
<1>4. /\ Opposite(0) = 3 /\ Opposite(1) = 4 /\ Opposite(2) = 5
      /\ Opposite(3) = 0 /\ Opposite(4) = 1 /\ Opposite(5) = 2
  BY DEF Opposite
<1>5. Opposite(d) \in Direction /\ Opposite(Opposite(d)) = d
  BY <1>1, <1>4 DEF Direction
<1>6. directionDeltas[Opposite(d)] = At2(-directionDeltas[d].q, -directionDeltas[d].r)
  BY <1>1, <1>2, <1>4 DEF At2
<1> QED
  BY <1>3, <1>5, <1>6

LEMMA NeighborBack ==
  ASSUME NEW c \in ChunkAt, NEW d \in Direction
  PROVE  /\ Neighbor(c, d) \in ChunkAt
         /\ Neighbor(c, d) # c
         /\ Neighbor(Neighbor(c, d), Opposite(d)) = c
<1>1. directionDeltas[d].q \in Int /\ directionDeltas[d].r \in Int
  BY StepsUndo DEF ChunkAt
<1>2. c = At2(c.q, c.r) /\ c.q \in Int /\ c.r \in Int
  BY DEF ChunkAt, At2
<1>3. Neighbor(c, d) = At2(c.q + directionDeltas[d].q, c.r + directionDeltas[d].r)
  BY DEF Neighbor, Plus
<1>4. Neighbor(c, d) \in ChunkAt
  BY <1>1, <1>2, <1>3 DEF At2, ChunkAt
<1>5. directionDeltas[d] # At2(0, 0)
  <2>1. d \in {0, 1, 2, 3, 4, 5}
    BY DEF Direction
  <2> QED
    BY <2>1 DEF directionDeltas, Direction, At2
<1>6. directionDeltas[d] = At2(directionDeltas[d].q, directionDeltas[d].r)
  BY StepsUndo DEF ChunkAt, At2
<1>7. Neighbor(c, d) # c
  BY <1>1, <1>2, <1>3, <1>5, <1>6 DEF At2
<1>8. Neighbor(Neighbor(c, d), Opposite(d))
      = At2((c.q + directionDeltas[d].q) + (-directionDeltas[d].q),
            (c.r + directionDeltas[d].r) + (-directionDeltas[d].r))
  <2> DEFINE n == Neighbor(c, d)
             e == directionDeltas[Opposite(d)]
  <2>1. n.q = c.q + directionDeltas[d].q /\ n.r = c.r + directionDeltas[d].r
    BY <1>3 DEF At2
  <2>2. e.q = -directionDeltas[d].q /\ e.r = -directionDeltas[d].r
    <3>1. e = At2(-directionDeltas[d].q, -directionDeltas[d].r)
      BY StepsUndo
    <3> HIDE DEF e
    <3> QED
      BY <3>1 DEF At2
  <2>3. Neighbor(n, Opposite(d)) = At2(n.q + e.q, n.r + e.r)
    BY DEF Neighbor, Plus
  <2> QED
    BY <2>1, <2>2, <2>3
<1> QED
  BY <1>1, <1>2, <1>4, <1>7, <1>8

\* The distance is the greatest of the three axes' differences.
LEMMA DistanceIs ==
  ASSUME NEW a \in ChunkAt, NEW b \in ChunkAt
  PROVE  LET dq == a.q - b.q  dr == a.r - b.r  D == Distance(a, b)
         IN  /\ D \in Nat
             /\ dq <= D /\ -dq <= D /\ dr <= D /\ -dr <= D /\ dq + dr <= D /\ -dq - dr <= D
             /\ D \in {dq, -dq, dr, -dr, dq + dr, -dq - dr}
<1> DEFINE dq == a.q - b.q
           dr == a.r - b.r
<1>1. dq \in Int /\ dr \in Int
  BY DEF ChunkAt
<1>2. Distance(a, b) = (abs64(dq) + abs64(dr) + abs64(dq + dr)) \div 2
  BY DEF Distance
<1> HIDE DEF dq, dr
<1>3. \A m \in Nat : (2 * m) \div 2 = m
  OBVIOUS
<1>4. \E m \in Nat : /\ abs64(dq) + abs64(dr) + abs64(dq + dr) = 2 * m
                     /\ dq <= m /\ -dq <= m /\ dr <= m /\ -dr <= m /\ dq + dr <= m /\ -dq - dr <= m
                     /\ m \in {dq, -dq, dr, -dr, dq + dr, -dq - dr}
  <2>1. CASE dq >= 0 /\ dr >= 0
    BY <1>1, <2>1 DEF abs64
  <2>2. CASE dq < 0 /\ dr < 0
    BY <1>1, <2>2 DEF abs64
  <2>3. CASE dq >= 0 /\ dr < 0 /\ dq + dr >= 0
    BY <1>1, <2>3 DEF abs64
  <2>4. CASE dq >= 0 /\ dr < 0 /\ dq + dr < 0
    BY <1>1, <2>4 DEF abs64
  <2>5. CASE dq < 0 /\ dr >= 0 /\ dq + dr >= 0
    BY <1>1, <2>5 DEF abs64
  <2>6. CASE dq < 0 /\ dr >= 0 /\ dq + dr < 0
    BY <1>1, <2>6 DEF abs64
  <2> QED
    BY <1>1, <2>1, <2>2, <2>3, <2>4, <2>5, <2>6
<1>5. PICK m \in Nat : /\ abs64(dq) + abs64(dr) + abs64(dq + dr) = 2 * m
                     /\ dq <= m /\ -dq <= m /\ dr <= m /\ -dr <= m /\ dq + dr <= m /\ -dq - dr <= m
                     /\ m \in {dq, -dq, dr, -dr, dq + dr, -dq - dr}
  BY <1>4
<1>6. Distance(a, b) = m
  BY <1>2, <1>3, <1>5
<1> QED
  BY <1>5, <1>6 DEF dq, dr

LEMMA DistanceSymmetric ==
  ASSUME NEW a \in ChunkAt, NEW b \in ChunkAt
  PROVE  Distance(a, b) = Distance(b, a)
<1> DEFINE D == Distance(a, b)
           E == Distance(b, a)
<1>1. a.q \in Int /\ a.r \in Int /\ b.q \in Int /\ b.r \in Int
  BY DEF ChunkAt
<1>2. /\ D \in Nat
      /\ a.q - b.q <= D /\ -(a.q - b.q) <= D /\ a.r - b.r <= D /\ -(a.r - b.r) <= D
      /\ (a.q - b.q) + (a.r - b.r) <= D /\ -(a.q - b.q) - (a.r - b.r) <= D
      /\ D \in {a.q - b.q, -(a.q - b.q), a.r - b.r, -(a.r - b.r),
                (a.q - b.q) + (a.r - b.r), -(a.q - b.q) - (a.r - b.r)}
  BY DistanceIs
<1>3. /\ E \in Nat
      /\ b.q - a.q <= E /\ -(b.q - a.q) <= E /\ b.r - a.r <= E /\ -(b.r - a.r) <= E
      /\ (b.q - a.q) + (b.r - a.r) <= E /\ -(b.q - a.q) - (b.r - a.r) <= E
      /\ E \in {b.q - a.q, -(b.q - a.q), b.r - a.r, -(b.r - a.r),
                (b.q - a.q) + (b.r - a.r), -(b.q - a.q) - (b.r - a.r)}
  BY DistanceIs
<1> HIDE DEF D, E
<1>4. D = E
  BY <1>1, <1>2, <1>3
<1> QED
  BY <1>4 DEF D, E

LEMMA Triangle ==
  ASSUME NEW a \in ChunkAt, NEW b \in ChunkAt, NEW c \in ChunkAt
  PROVE  Distance(a, c) <= Distance(a, b) + Distance(b, c)
<1> DEFINE D == Distance(a, b)
           E == Distance(b, c)
           F == Distance(a, c)
<1>1. /\ a.q \in Int /\ a.r \in Int /\ b.q \in Int /\ b.r \in Int /\ c.q \in Int /\ c.r \in Int
  BY DEF ChunkAt
<1>2. /\ D \in Nat
      /\ a.q - b.q <= D /\ -(a.q - b.q) <= D /\ a.r - b.r <= D /\ -(a.r - b.r) <= D
      /\ (a.q - b.q) + (a.r - b.r) <= D /\ -(a.q - b.q) - (a.r - b.r) <= D
  BY DistanceIs
<1>3. /\ E \in Nat
      /\ b.q - c.q <= E /\ -(b.q - c.q) <= E /\ b.r - c.r <= E /\ -(b.r - c.r) <= E
      /\ (b.q - c.q) + (b.r - c.r) <= E /\ -(b.q - c.q) - (b.r - c.r) <= E
  BY DistanceIs
<1>4. /\ F \in Nat
      /\ F \in {a.q - c.q, -(a.q - c.q), a.r - c.r, -(a.r - c.r),
                (a.q - c.q) + (a.r - c.r), -(a.q - c.q) - (a.r - c.r)}
  BY DistanceIs
<1> HIDE DEF D, E, F
<1>5. F <= D + E
  BY <1>1, <1>2, <1>3, <1>4
<1> QED
  BY <1>5 DEF D, E, F
----------------------------------------------------------------------------
(* Where the next gate goes *)

LEMMA RingAtIsRing ==
  ASSUME NEW i \in Nat \ {0}
  PROVE  ringAt(i) \in 1..i
<1> DEFINE Reaching == {n \in Nat : i <= 3 * n * (n + 1)}
<1>1. i \in Reaching
  <2>1. i * (i + 1) \in Nat /\ i * (i + 1) >= i
    BY Z3
  <2> QED
    BY <2>1, Z3
<1>2. PICK m \in Reaching : \A x \in Reaching : m <= x
  <2>1. Reaching \in SUBSET Nat
    OBVIOUS
  <2> HIDE DEF Reaching
  <2> QED
    BY <1>1, <2>1, LeastOf
<1>3. m \in Nat /\ m # 0 /\ m <= i /\ i <= 3 * m * (m + 1)
  <2>1. 0 \notin Reaching
    OBVIOUS
  <2> QED
    BY <1>1, <1>2, <2>1
<1>4. 3 * m * (m - 1) < i
  <2>1. m - 1 \in Nat /\ m - 1 \notin Reaching
    BY <1>2, <1>3
  <2>2. ~(i <= 3 * (m - 1) * ((m - 1) + 1))
    BY <2>1
  <2>3. 3 * (m - 1) * ((m - 1) + 1) = 3 * m * (m - 1)
    BY <1>3, Z3
  <2>4. 3 * m * (m - 1) \in Int
    BY <1>3
  <2> QED
    BY <2>2, <2>3, <2>4
<1> HIDE DEF Reaching
<1>5. m \in 1..i
  BY <1>3
<1> QED
  BY <1>3, <1>4, <1>5 DEF ringAt

LEMMA RingChunkIsChunk ==
  ASSUME NEW n \in Nat \ {0}, NEW p \in Int
  PROVE  ringChunk(n, p) \in ChunkAt
<1> DEFINE e == (p + n \div 2) % (6 * n)
           d == e \div n
           t == e % n
<1>1. 6 * n \in Nat \ {0} /\ n \div 2 \in Int
  OBVIOUS
<1>2. e \in 0 .. 6 * n - 1
  BY <1>1
<1> HIDE DEF e
<1>3. d \in 0..5 /\ t \in Int
  <2>1. d \in Int /\ n * d <= e /\ e < n * d + n
    BY <1>2, Z3
  <2>2. t \in Int
    BY <1>2
  <2>3. d >= 0
    BY <1>2, <2>1, Z3
  <2>4. d <= 5
    BY <1>2, <2>1, Z3
  <2> QED
    BY <2>1, <2>2, <2>3, <2>4
<1> HIDE DEF d, t
<1>4. (d + 2) % 6 \in Direction /\ d \in Direction
  BY <1>3 DEF Direction
<1>5. directionDeltas[d] \in ChunkAt /\ directionDeltas[(d + 2) % 6] \in ChunkAt
  BY <1>4, StepsUndo
<1>6. ringChunk(n, p) = At2(n * directionDeltas[d].q + t * directionDeltas[(d + 2) % 6].q,
                            n * directionDeltas[d].r + t * directionDeltas[(d + 2) % 6].r)
  BY DEF ringChunk, e, d, t
<1>7. \A x, y \in Int : n * x + t * y \in Int
  BY <1>3
<1> DEFINE u == directionDeltas[d]
           v == directionDeltas[(d + 2) % 6]
<1>8. u.q \in Int /\ v.q \in Int /\ u.r \in Int /\ v.r \in Int
  BY <1>5 DEF ChunkAt
<1>9. ringChunk(n, p) = At2(n * u.q + t * v.q, n * u.r + t * v.r)
  BY <1>6
<1> HIDE DEF u, v
<1>10. n * u.q + t * v.q \in Int /\ n * u.r + t * v.r \in Int
  BY <1>7, <1>8
<1> QED
  BY <1>9, <1>10 DEF At2, ChunkAt

\* The place gateNext gives a new gate is a chunk that is not there yet and that
\* no gate is within the spacing of: the spiral's first such chunk, or, when the
\* scan has none, one of the ring beyond it, which the triangle inequality keeps
\* away from every gate.
THEOREM NextGateIsFreeAndFar ==
  ASSUME NEW created \in SUBSET ChunkAt, IsFiniteSet(created),
         NEW gates \in SUBSET created, NEW k \in Nat
  PROVE  /\ gateNext(created, gates, k) \in ChunkAt
         /\ gateNext(created, gates, k) \notin created
         /\ farEnough(gateNext(created, gates, k), gates, k)
<1> DEFINE reach == {0} \cup {Distance(Origin, ch) : ch \in created \cup gates}
           furthest == CHOOSE m \in reach : \A x \in reach : x <= m
           bound == furthest + k
           scan  == Spiral(bound)
           free  == {i \in DOMAIN scan : scan[i] \notin created /\ farEnough(scan[i], gates, k)}
           last  == At2(bound + 1, -((bound + 1) \div 2))
<1>1. gateNext(created, gates, k) = IF free = {} THEN last
                                    ELSE scan[CHOOSE i \in free : \A j \in free : i <= j]
  BY DEF gateNext
<1>2. Origin \in ChunkAt /\ Origin.q = 0 /\ Origin.r = 0
  BY DEF Origin, At2, ChunkAt
<1>3. \A ch \in created : Distance(Origin, ch) \in Nat
  BY <1>2, DistanceIs
<1>4. reach \in SUBSET Nat /\ IsFiniteSet(reach) /\ reach # {}
  <2> DEFINE away == {Distance(Origin, ch) : ch \in created}
             D == [ch \in created |-> Distance(Origin, ch)]
  <2>1. D \in Surjection(created, away)
    BY DEF Surjection
  <2>2. IsFiniteSet(away)
    BY <2>1, FS_Surjection
  <2>3. IsFiniteSet({0} \cup away)
    BY <2>2, FS_AddElement
  <2>4. reach = {0} \cup away
    OBVIOUS
  <2> QED
    BY <1>3, <2>3, <2>4
<1>5. furthest \in Nat /\ \A ch \in created : Distance(Origin, ch) <= furthest
  <2>1. \E m \in reach : \A x \in reach : x <= m
    <3> HIDE DEF reach
    <3> QED
      BY <1>4, GreatestOf
  <2>2. furthest \in reach /\ \A x \in reach : x <= furthest
    <3> HIDE DEF reach
    <3> QED
      BY <2>1
  <2> QED
    BY <1>4, <2>2
<1> HIDE DEF reach, furthest
<1>6. bound \in Nat
  BY <1>5
<1>7. CASE free = {}
  <2>1. last \in ChunkAt /\ Distance(Origin, last) = bound + 1
    <3> DEFINE h == (bound + 1) \div 2
    <3>1. h \in Int /\ 0 <= h /\ h <= bound + 1
      BY <1>6, Z3
    <3>2. last = At2(bound + 1, -h)
      OBVIOUS
    <3> HIDE DEF h, bound
    <3>3. last \in ChunkAt /\ last.q = bound + 1 /\ last.r = -h
      BY <1>6, <3>1, <3>2 DEF At2, ChunkAt
    <3> HIDE DEF last
    <3> DEFINE D == Distance(Origin, last)
    <3>4. /\ D \in Nat
          /\ -(0 - last.q) <= D
          /\ D \in {0 - last.q, -(0 - last.q), 0 - last.r, -(0 - last.r),
                    (0 - last.q) + (0 - last.r), -(0 - last.q) - (0 - last.r)}
      BY <1>2, <3>3, DistanceIs
    <3> HIDE DEF D
    <3>5. D = bound + 1
      BY <1>6, <3>1, <3>3, <3>4
    <3> QED
      BY <3>3, <3>5 DEF D
  <2> HIDE DEF last, bound
  <2>2. last \notin created
    BY <1>5, <1>6, <2>1 DEF bound
  <2>3. ASSUME NEW g \in gates PROVE Distance(last, g) >= k + 1
    <3> DEFINE A == Distance(Origin, last)
               B == Distance(Origin, g)
               C == Distance(g, last)
    <3>1. A \in Nat /\ B \in Nat /\ C \in Nat /\ B <= furthest
      BY <1>2, <1>5, <2>1, DistanceIs
    <3>2. A <= B + C
      BY <1>2, <2>1, Triangle
    <3>3. Distance(last, g) = C
      BY <2>1, DistanceSymmetric
    <3>4. A = furthest + k + 1
      BY <2>1, <1>5 DEF bound
    <3> HIDE DEF A, B, C
    <3>5. C >= k + 1
      BY <1>5, <3>1, <3>2, <3>4
    <3> QED
      BY <3>3, <3>5
  <2> QED
    BY <1>1, <1>7, <2>1, <2>2, <2>3 DEF farEnough
<1>8. CASE free # {}
  <2>1. DOMAIN scan \subseteq Nat
    BY <1>6 DEF Spiral
  <2>2. \A i \in DOMAIN scan : scan[i] \in ChunkAt
    <3> SUFFICES ASSUME NEW i \in DOMAIN scan PROVE scan[i] \in ChunkAt
      OBVIOUS
    <3> DEFINE n == ringAt(i - 1)
    <3>1. scan[i] = IF i - 1 = 0 THEN Origin ELSE ringChunk(n, (i - 1) - 1 - 3 * n * (n - 1))
      BY DEF Spiral
    <3>2. i \in Nat \ {0}
      BY <1>6 DEF Spiral
    <3>3. CASE i = 1
      BY <1>2, <3>1, <3>3
    <3>4. CASE i # 1
      <4>1. i - 1 \in Nat \ {0}
        BY <3>2, <3>4
      <4>2. n \in Nat \ {0}
        <5>1. n \in 1 .. i - 1
          BY <4>1, RingAtIsRing
        <5> HIDE DEF n
        <5> QED
          BY <4>1, <5>1
      <4> HIDE DEF n
      <4>3. (i - 1) - 1 - 3 * n * (n - 1) \in Int
        BY <4>1, <4>2
      <4> QED
        BY <3>1, <4>1, <4>2, <4>3, RingChunkIsChunk
    <3> QED
      BY <3>3, <3>4
  <2>3. free \in SUBSET Nat
    BY <2>1
  <2>4. \E i \in free : \A j \in free : i <= j
    <3> HIDE DEF free
    <3> QED
      BY <1>8, <2>3, LeastOf
  <2> DEFINE first == CHOOSE i \in free : \A j \in free : i <= j
  <2>5. first \in free
    <3> HIDE DEF free
    <3> QED
      BY <2>4
  <2>6. gateNext(created, gates, k) = scan[first]
    BY <1>1, <1>8
  <2>7. first \in DOMAIN scan /\ scan[first] \notin created /\ farEnough(scan[first], gates, k)
    <3> HIDE DEF first
    <3> QED
      BY <2>5
  <2> QED
    BY <2>2, <2>6, <2>7
<1> QED
  BY <1>7, <1>8
----------------------------------------------------------------------------
(* The lattice of chunks: every cell is in exactly one *)

\* Products of naturals are ordered as their factors.
LEMMA Products ==
  ASSUME NEW k \in Nat, NEW x \in Int, NEW y \in Int, x <= y
  PROVE  k * x <= k * y
<1>1. k * (y - x) >= 0
  BY Z3
<1>2. k * (y - x) = k * y - k * x
  BY Z3
<1>3. k * x \in Int /\ k * y \in Int
  OBVIOUS
<1> QED
  BY <1>1, <1>2, <1>3

\* p and s are a cell's offset from the floor of its lattice coordinates, along
\* two axes: it is near one of the four corners.
LEMMA OneCornerIsNear ==
  ASSUME NEW r \in Nat, NEW p \in Int, NEW s \in Int,
         0 <= (2 * r + 1) * p - r * s, (2 * r + 1) * p - r * s < 3 * r * r + 3 * r + 1,
         0 <= (2 * r + 1) * s - (r + 1) * p, (2 * r + 1) * s - (r + 1) * p < 3 * r * r + 3 * r + 1
  PROVE  \/ p \in 0..r /\ s \in 0..r
         \/ p \in 2 * r + 1 .. 3 * r + 1 /\ s \in 2 * r + 2 .. 3 * r + 2
         \/ p \in r + 1 .. 3 * r + 1 /\ s \in 1 .. 2 * r + 1 /\ p - s \in 0 .. 2 * r
         \/ p \in 0 .. 2 * r /\ s \in r + 1 .. 3 * r + 1 /\ s - p \in 1 .. 2 * r + 1
<1> DEFINE n == 3 * r * r + 3 * r + 1
           x == (2 * r + 1) * p - r * s
           y == (2 * r + 1) * s - (r + 1) * p
<1>1. n \in Nat \ {0} /\ x \in Int /\ y \in Int /\ x >= 0 /\ y >= 0 /\ x < n /\ y < n
  <2>1. r * r \in Nat
    BY Z3
  <2> QED
    BY <2>1
<1>2. n * p = (2 * r + 1) * x + r * y /\ n * s = (r + 1) * x + (2 * r + 1) * y
  BY Z3
<1>3. /\ 0 <= (2 * r + 1) * x /\ (2 * r + 1) * x <= (2 * r + 1) * (n - 1)
      /\ 0 <= r * y /\ r * y <= r * (n - 1)
      /\ 0 <= (r + 1) * x /\ (r + 1) * x <= (r + 1) * (n - 1)
      /\ 0 <= (2 * r + 1) * y /\ (2 * r + 1) * y <= (2 * r + 1) * (n - 1)
  <2> HIDE DEF n, x, y
  <2>1. \A k \in Nat : \A z \in Int : 0 <= z /\ z <= n - 1 => 0 <= k * z /\ k * z <= k * (n - 1)
    <3> SUFFICES ASSUME NEW k \in Nat, NEW z \in Int, 0 <= z, z <= n - 1
                 PROVE  0 <= k * z /\ k * z <= k * (n - 1)
      OBVIOUS
    <3>1. n - 1 \in Int /\ k * 0 = 0
      BY <1>1
    <3> QED
      BY <3>1, Products
  <2>2. 2 * r + 1 \in Nat /\ r + 1 \in Nat /\ x <= n - 1 /\ y <= n - 1
    BY <1>1
  <2> QED
    BY <1>1, <2>1, <2>2
<1>4. /\ 0 <= n * p /\ n * p <= (3 * r + 1) * (n - 1)
      /\ 0 <= n * s /\ n * s <= (3 * r + 2) * (n - 1)
  <2> HIDE DEF n, x, y
  <2>1. /\ (2 * r + 1) * (n - 1) + r * (n - 1) = (3 * r + 1) * (n - 1)
        /\ (r + 1) * (n - 1) + (2 * r + 1) * (n - 1) = (3 * r + 2) * (n - 1)
    BY <1>1, Z3
  <2>2. /\ (2 * r + 1) * x \in Int /\ r * y \in Int /\ (r + 1) * x \in Int /\ (2 * r + 1) * y \in Int
        /\ (2 * r + 1) * (n - 1) \in Int /\ r * (n - 1) \in Int /\ (r + 1) * (n - 1) \in Int
    BY <1>1
  <2> QED
    BY <1>2, <1>3, <2>1, <2>2
<1>5. ASSUME NEW z \in Int, NEW k \in Nat, 0 <= n * z, n * z <= k * (n - 1), k > 0  PROVE z \in 0 .. k - 1
  <2> HIDE DEF n
  <2>1. z >= 0
    <3>1. CASE z <= -1
      <4>1. n * z <= n * (-1)
        BY <1>1, <3>1, Products
      <4>2. n * (-1) = -n /\ n * z \in Int
        BY <1>1
      <4> QED
        BY <1>1, <1>5, <4>1, <4>2
    <3> QED
      BY <3>1
  <2>2. z <= k - 1
    <3>1. CASE z >= k
      <4>1. n * k <= n * z
        BY <1>1, <3>1, Products
      <4>2. n * k = k * (n - 1) + k /\ n * k \in Int /\ n * z \in Int /\ k * (n - 1) \in Int
        BY <1>1, Z3
      <4> QED
        BY <1>5, <4>1, <4>2
    <3> QED
      BY <3>1
  <2> QED
    BY <2>1, <2>2
<1>6. p \in 0 .. 3 * r /\ s \in 0 .. 3 * r + 1
  <2>1. p \in 0 .. (3 * r + 1) - 1
    <3> HIDE DEF n, x, y
    <3> QED
      BY <1>4, <1>5
  <2>2. s \in 0 .. (3 * r + 2) - 1
    <3> HIDE DEF n, x, y
    <3> QED
      BY <1>4, <1>5
  <2> QED
    BY <2>1, <2>2
<1>7. x = r * (2 * p - s) + p /\ y = r * (2 * s - p) + s - p
  BY Z3
<1>8. n = r * (3 * r + 3) + 1
  BY Z3
<1> HIDE DEF n, x, y
<1>9. CASE s <= p
  <2>1. p >= r + 1 => s >= 1
    <3>1. CASE p >= r + 1 /\ s <= 0
      <4>1. r * (2 * s - p) <= r * 0
        BY <3>1, Products
      <4> QED
        BY <1>1, <1>7, <3>1, <4>1
    <3> QED
      BY <1>6, <3>1
  <2>2. s >= 1 => p - s <= 2 * r
    <3>1. CASE s >= 1 /\ p - s >= 2 * r + 1
      <4>1. r * (4 * r + 3) <= r * (2 * p - s)
        BY <3>1, Products
      <4>2. r * (4 * r + 3) >= r * (3 * r + 3)
        BY Products
      <4>3. r * (4 * r + 3) \in Int /\ r * (3 * r + 3) \in Int /\ r * (2 * p - s) \in Int
        OBVIOUS
      <4> QED
        BY <1>1, <1>7, <1>8, <3>1, <4>1, <4>2, <4>3
    <3> QED
      BY <3>1
  <2> QED
    BY <1>6, <1>9, <2>1, <2>2
<1>10. CASE s >= p + 1
  <2>1. s - p <= 2 * r + 1
    <3>1. CASE s - p >= 2 * r + 2
      <4>1. r * (4 * r + 4) <= r * (2 * s - p)
        BY <1>6, <3>1, Products
      <4>2. r * (4 * r + 4) >= r * (3 * r + 3)
        BY Products
      <4>3. r * (4 * r + 4) \in Int /\ r * (3 * r + 3) \in Int /\ r * (2 * s - p) \in Int
        OBVIOUS
      <4> QED
        BY <1>1, <1>7, <1>8, <3>1, <4>1, <4>2, <4>3
    <3> QED
      BY <3>1
  <2> QED
    BY <1>6, <1>10, <2>1
<1> QED
  BY <1>9, <1>10

LEMMA NearIs ==
  ASSUME NEW a \in ChunkAt, NEW b \in ChunkAt, NEW k \in Int
  PROVE  Distance(a, b) <= k <=>
           /\ a.q - b.q <= k /\ -(a.q - b.q) <= k
           /\ a.r - b.r <= k /\ -(a.r - b.r) <= k
           /\ (a.q - b.q) + (a.r - b.r) <= k /\ -(a.q - b.q) - (a.r - b.r) <= k
<1> DEFINE D == Distance(a, b)
<1>1. a.q \in Int /\ a.r \in Int /\ b.q \in Int /\ b.r \in Int
  BY DEF ChunkAt
<1>2. /\ D \in Nat
      /\ a.q - b.q <= D /\ -(a.q - b.q) <= D /\ a.r - b.r <= D /\ -(a.r - b.r) <= D
      /\ (a.q - b.q) + (a.r - b.r) <= D /\ -(a.q - b.q) - (a.r - b.r) <= D
      /\ D \in {a.q - b.q, -(a.q - b.q), a.r - b.r, -(a.r - b.r),
                (a.q - b.q) + (a.r - b.r), -(a.q - b.q) - (a.r - b.r)}
  BY DistanceIs
<1> HIDE DEF D
<1>3. D <= k <=> /\ a.q - b.q <= k /\ -(a.q - b.q) <= k
                 /\ a.r - b.r <= k /\ -(a.r - b.r) <= k
                 /\ (a.q - b.q) + (a.r - b.r) <= k /\ -(a.q - b.q) - (a.r - b.r) <= k
  BY <1>1, <1>2
<1> QED
  BY <1>3 DEF D

\* Plain vector facts.
LEMMA PlusIs ==
  ASSUME NEW a \in ChunkAt, NEW b \in ChunkAt
  PROVE  /\ Plus(a, b) \in ChunkAt /\ Plus(a, b).q = a.q + b.q /\ Plus(a, b).r = a.r + b.r
         /\ Minus(a, b) \in ChunkAt /\ Minus(a, b).q = a.q - b.q /\ Minus(a, b).r = a.r - b.r
<1>1. a.q \in Int /\ a.r \in Int /\ b.q \in Int /\ b.r \in Int
  BY DEF ChunkAt
<1> QED
  BY <1>1 DEF Plus, Minus, At2, ChunkAt

LEMMA SamePlace ==
  ASSUME NEW a \in ChunkAt, NEW b \in ChunkAt, a.q = b.q, a.r = b.r
  PROVE  a = b
BY DEF ChunkAt

LEMMA CenterIs ==
  ASSUME NEW r \in Nat, NEW ch \in ChunkAt
  PROVE  /\ Center(r, ch) \in ChunkAt
         /\ Center(r, ch).q = r * (2 * ch.q + ch.r) + ch.q
         /\ Center(r, ch).r = r * (ch.r - ch.q) + ch.r
<1>1. ch.q \in Int /\ ch.r \in Int
  BY DEF ChunkAt
<1>2. ASSUME NEW x \in Int, NEW y \in Int
      PROVE  /\ x * (2 * r + 1) + y * r = r * (2 * x + y) + x
             /\ -x * r + y * (r + 1) = r * (y - x) + y
             /\ x * (2 * r + 1) + y * r \in Int /\ -x * r + y * (r + 1) \in Int
  BY Z3
<1> QED
  BY <1>1, <1>2 DEF Center, At2, ChunkAt

\* The centres of two chunks are more than two radii apart.
LEMMA CentresApart ==
  ASSUME NEW r \in Nat, NEW a \in ChunkAt, NEW b \in ChunkAt, a # b
  PROVE  Distance(Center(r, a), Center(r, b)) >= 2 * r + 1
<1> DEFINE x == a.q - b.q
           y == a.r - b.r
           D == Distance(Center(r, a), Center(r, b))
<1>1. a.q \in Int /\ a.r \in Int /\ b.q \in Int /\ b.r \in Int
  BY DEF ChunkAt
<1>2. x \in Int /\ y \in Int /\ (x # 0 \/ y # 0)
  <2>1. a.q # b.q \/ a.r # b.r
    BY SamePlace
  <2> QED
    BY <1>1, <2>1
<1>3. ASSUME NEW i \in Int, NEW j \in Int, NEW k \in Int, NEW l \in Int
      PROVE  /\ (r * (2 * i + j) + i) - (r * (2 * k + l) + k) = r * (2 * (i - k) + (j - l)) + (i - k)
             /\ (r * (j - i) + j) - (r * (l - k) + l) = r * ((j - l) - (i - k)) + (j - l)
  BY Z3
<1>4. /\ Center(r, a).q - Center(r, b).q = r * (2 * x + y) + x
      /\ Center(r, a).r - Center(r, b).r = r * (y - x) + y
  BY <1>1, <1>3, CenterIs
<1>5. /\ D \in Nat
      /\ r * (2 * x + y) + x <= D /\ -(r * (2 * x + y) + x) <= D
      /\ r * (y - x) + y <= D /\ -(r * (y - x) + y) <= D
      /\ (r * (2 * x + y) + x) + (r * (y - x) + y) <= D
      /\ -(r * (2 * x + y) + x) - (r * (y - x) + y) <= D
  BY <1>4, CenterIs, DistanceIs
<1> SUFFICES D >= 2 * r + 1
  OBVIOUS
<1> HIDE DEF x, y, D
<1>6. \A i, j \in Int : i <= j => r * i <= r * j
  BY Products
<1>7. /\ r * (2 * x + y) \in Int /\ r * (y - x) \in Int /\ r * (x + 2 * y) \in Int
      /\ r * (2 * x + y) + r * (y - x) = r * (x + 2 * y)
      /\ r * 2 = 2 * r /\ r * (-2) = -(2 * r)
  BY <1>2, Z3
<1>8. CASE x >= 0 /\ y >= 0
  <2>1. CASE x >= 1
    <3>1. r * 2 <= r * (2 * x + y)
      BY <1>2, <1>6, <1>8, <2>1
    <3> QED
      BY <1>2, <1>5, <1>7, <2>1, <3>1
  <2>2. CASE x = 0 /\ y >= 1
    <3>1. r * 2 <= r * (x + 2 * y)
      BY <1>2, <1>6, <2>2
    <3> QED
      BY <1>2, <1>5, <1>7, <2>2, <3>1
  <2> QED
    BY <1>2, <1>8, <2>1, <2>2
<1>9. CASE x <= 0 /\ y <= 0
  <2>1. CASE x <= -1
    <3>1. r * (2 * x + y) <= r * (-2)
      BY <1>2, <1>6, <1>9, <2>1
    <3> QED
      BY <1>2, <1>5, <1>7, <2>1, <3>1
  <2>2. CASE x = 0 /\ y <= -1
    <3>1. r * (x + 2 * y) <= r * (-2)
      BY <1>2, <1>6, <2>2
    <3> QED
      BY <1>2, <1>5, <1>7, <2>2, <3>1
  <2> QED
    BY <1>2, <1>9, <2>1, <2>2
<1>10. CASE x >= 1 /\ y <= -1
  <2>1. r * (y - x) <= r * (-2)
    BY <1>2, <1>6, <1>10
  <2> QED
    BY <1>2, <1>5, <1>7, <1>10, <2>1
<1>11. CASE x <= -1 /\ y >= 1
  <2>1. r * 2 <= r * (y - x)
    BY <1>2, <1>6, <1>11
  <2> QED
    BY <1>2, <1>5, <1>7, <1>11, <2>1
<1> QED
  BY <1>2, <1>8, <1>9, <1>10, <1>11

\* The chunk Locate names is within the radius of the cell.
LEMMA LocateFinds ==
  ASSUME NEW r \in Nat, NEW c \in ChunkAt
  PROVE  LET f == Locate(r, c)
         IN  /\ f.chunk \in ChunkAt
             /\ f.local = Minus(c, Center(r, f.chunk))
             /\ Distance(c, Center(r, f.chunk)) <= r
<1> DEFINE n == CellCount(r)
           u == (r + 1) * c.q - r * c.r
           v == r * c.q + (2 * r + 1) * c.r
           star == At2(u \div n, v \div n)
           tried == << star, Plus(star, At2(0, 1)), Plus(star, At2(1, 0)), Plus(star, At2(1, 1)) >>
           near == {i \in 1..4 : Distance(c, Center(r, tried[i])) <= r}
           ch == IF near = {} THEN star ELSE tried[CHOOSE i \in near : \A j \in near : i <= j]
<1>1. Locate(r, c) = [chunk |-> ch, local |-> Minus(c, Center(r, ch))]
  BY DEF Locate
<1>2. c.q \in Int /\ c.r \in Int
  BY DEF ChunkAt
<1>3. n = 3 * r * r + 3 * r + 1 /\ n \in Nat /\ n > 0
  <2>1. r * r \in Nat
    BY Z3
  <2>2. 3 * r * r = 3 * (r * r)
    BY Z3
  <2> QED
    BY <2>1, <2>2 DEF CellCount
<1>4. u \in Int /\ v \in Int
  BY <1>2, Z3
<1> DEFINE a == u \div n
           b == v \div n
<1>5. /\ a \in Int /\ b \in Int
      /\ 0 <= u - n * a /\ u - n * a < n
      /\ 0 <= v - n * b /\ v - n * b < n
  <2> HIDE DEF u, v, n
  <2>1. ASSUME NEW w \in Int PROVE w \div n \in Int /\ 0 <= w - n * (w \div n) /\ w - n * (w \div n) < n
    BY <1>3, Z3
  <2> QED
    BY <1>4, <2>1
<1>6. star = At2(a, b) /\ star \in ChunkAt /\ star.q = a /\ star.r = b
  <2> HIDE DEF u, v, n
  <2> QED
    BY <1>5 DEF At2, ChunkAt
<1> HIDE DEF a, b
<1> HIDE DEF star
<1>7. /\ Center(r, star) \in ChunkAt
      /\ Center(r, star).q = r * (2 * a + b) + a
      /\ Center(r, star).r = r * (b - a) + b
  BY <1>6, CenterIs
<1> DEFINE p == c.q - Center(r, star).q
           t == c.r - Center(r, star).r
<1>8. /\ p \in Int /\ t \in Int
      /\ (2 * r + 1) * p - r * (p + t) = u - n * a
      /\ (2 * r + 1) * (p + t) - (r + 1) * p = v - n * b
  <2>1. p = c.q - (r * (2 * a + b) + a) /\ t = c.r - (r * (b - a) + b)
    BY <1>7
  <2>3. p \in Int /\ t \in Int
    BY <1>2, <1>7 DEF ChunkAt
  <2> DEFINE g == c.q - (r * (2 * a + b) + a)
             h == c.r - (r * (b - a) + b)
             m == 3 * r * r + 3 * r + 1
  <2>4. /\ (2 * r + 1) * g - r * (g + h) = ((r + 1) * c.q - r * c.r) - m * a
        /\ (2 * r + 1) * (g + h) - (r + 1) * g = (r * c.q + (2 * r + 1) * c.r) - m * b
    <3> DEFINE cq == c.q
               cr == c.r
    <3>1. cq \in Int /\ cr \in Int /\ a \in Int /\ b \in Int
      BY <1>2, <1>5
    <3> HIDE DEF cq, cr
    <3>2. LET i == cq - (r * (2 * a + b) + a)
              j == cr - (r * (b - a) + b)
          IN  /\ (2 * r + 1) * i - r * (i + j) = ((r + 1) * cq - r * cr) - m * a
              /\ (2 * r + 1) * (i + j) - (r + 1) * i = (r * cq + (2 * r + 1) * cr) - m * b
      BY <3>1, Z3
    <3> QED
      BY <3>2 DEF cq, cr
  <2>5. p = g /\ t = h
    BY <2>1
  <2> HIDE DEF p, t, g, h
  <2>6. /\ (2 * r + 1) * p - r * (p + t) = ((r + 1) * c.q - r * c.r) - m * a
        /\ (2 * r + 1) * (p + t) - (r + 1) * p = (r * c.q + (2 * r + 1) * c.r) - m * b
    BY <2>4, <2>5
  <2> QED
    BY <1>3, <2>3, <2>6 DEF u, v, n
<1>9. \/ p \in 0..r /\ p + t \in 0..r
      \/ p \in 2 * r + 1 .. 3 * r + 1 /\ p + t \in 2 * r + 2 .. 3 * r + 2
      \/ p \in r + 1 .. 3 * r + 1 /\ p + t \in 1 .. 2 * r + 1 /\ p - (p + t) \in 0 .. 2 * r
      \/ p \in 0 .. 2 * r /\ p + t \in r + 1 .. 3 * r + 1 /\ (p + t) - p \in 1 .. 2 * r + 1
  <2> HIDE DEF p, t
  <2>1. /\ 0 <= (2 * r + 1) * p - r * (p + t) /\ (2 * r + 1) * p - r * (p + t) < 3 * r * r + 3 * r + 1
        /\ 0 <= (2 * r + 1) * (p + t) - (r + 1) * p
        /\ (2 * r + 1) * (p + t) - (r + 1) * p < 3 * r * r + 3 * r + 1
    <3> HIDE DEF u, v, n
    <3> QED
      BY <1>3, <1>5, <1>8
  <2>2. p + t \in Int
    BY <1>8
  <2> QED
    BY <1>8, <2>1, <2>2, OneCornerIsNear
<1>10. \A i \in 1..4 : tried[i] \in ChunkAt
  <2>1. At2(0, 1) \in ChunkAt /\ At2(1, 0) \in ChunkAt /\ At2(1, 1) \in ChunkAt
    BY DEF At2, ChunkAt
  <2> QED
    BY <1>6, <2>1, PlusIs
<1>11. ASSUME NEW x \in {0, 1}, NEW y \in {0, 1}, NEW k \in ChunkAt, k.q = a + x, k.r = b + y
       PROVE  Distance(c, Center(r, k)) <= r <=>
                /\ p - 2 * r * x - x - r * y <= r /\ -(p - 2 * r * x - x - r * y) <= r
                /\ t + r * x - r * y - y <= r /\ -(t + r * x - r * y - y) <= r
                /\ p + t - r * x - x - 2 * r * y - y <= r /\ -(p + t - r * x - x - 2 * r * y - y) <= r
  <2>1. /\ Center(r, k) \in ChunkAt
        /\ Center(r, k).q = r * (2 * (a + x) + (b + y)) + (a + x)
        /\ Center(r, k).r = r * ((b + y) - (a + x)) + (b + y)
    BY <1>11, CenterIs
  <2>2. /\ r * (2 * (a + x) + (b + y)) + (a + x) = (r * (2 * a + b) + a) + 2 * r * x + x + r * y
        /\ r * ((b + y) - (a + x)) + (b + y) = (r * (b - a) + b) - r * x + r * y + y
    BY <1>5, Z3
  <2>3. /\ c.q - Center(r, k).q = p - 2 * r * x - x - r * y
        /\ c.r - Center(r, k).r = t + r * x - r * y - y
    <3>1. /\ 2 * r * x \in Int /\ r * y \in Int /\ r * x \in Int /\ r * (2 * a + b) + a \in Int
          /\ r * (b - a) + b \in Int /\ x \in Int /\ y \in Int
      BY <1>5
    <3>2. /\ Center(r, k).q = Center(r, star).q + 2 * r * x + x + r * y
          /\ Center(r, k).r = Center(r, star).r - r * x + r * y + y
      BY <1>7, <2>1, <2>2
    <3>3. Center(r, star).q \in Int /\ Center(r, star).r \in Int
      BY <1>7 DEF ChunkAt
    <3> QED
      BY <1>2, <3>1, <3>2, <3>3
  <2>4. Distance(c, Center(r, k)) <= r <=>
          LET dq == p - 2 * r * x - x - r * y
              dr == t + r * x - r * y - y
          IN  dq <= r /\ -dq <= r /\ dr <= r /\ -dr <= r /\ dq + dr <= r /\ -dq - dr <= r
    <3> HIDE DEF p, t
    <3> QED
      BY <2>1, <2>3, NearIs
  <2>5. /\ 2 * r * x \in Int /\ r * y \in Int /\ r * x \in Int /\ 2 * r * y \in Int
        /\ x \in Int /\ y \in Int /\ 2 * r * x = 2 * (r * x) /\ 2 * r * y = 2 * (r * y)
    BY Z3
  <2> HIDE DEF p, t
  <2> QED
    BY <1>8, <2>4, <2>5
<1>12. near # {}
  <2> HIDE DEF p, t
  <2>1. /\ tried[1].q = a + 0 /\ tried[1].r = b + 0
        /\ tried[2].q = a + 0 /\ tried[2].r = b + 1
        /\ tried[3].q = a + 1 /\ tried[3].r = b + 0
        /\ tried[4].q = a + 1 /\ tried[4].r = b + 1
    <3>1. At2(0, 1) \in ChunkAt /\ At2(1, 0) \in ChunkAt /\ At2(1, 1) \in ChunkAt
      BY DEF At2, ChunkAt
    <3> QED
      BY <1>5, <1>6, <3>1, PlusIs DEF At2
  <2> HIDE DEF tried
  <2>2. CASE p \in 0..r /\ p + t \in 0..r
    <3>1. Distance(c, Center(r, tried[1])) <= r
      BY <1>8, <1>10, <1>11, <2>1, <2>2
    <3> QED
      BY <3>1
  <2>3. CASE p \in 2 * r + 1 .. 3 * r + 1 /\ p + t \in 2 * r + 2 .. 3 * r + 2
    <3>1. Distance(c, Center(r, tried[4])) <= r
      BY <1>8, <1>10, <1>11, <2>1, <2>3
    <3> QED
      BY <3>1
  <2>4. CASE p \in r + 1 .. 3 * r + 1 /\ p + t \in 1 .. 2 * r + 1 /\ p - (p + t) \in 0 .. 2 * r
    <3>1. Distance(c, Center(r, tried[3])) <= r
      BY <1>8, <1>10, <1>11, <2>1, <2>4
    <3> QED
      BY <3>1
  <2>5. CASE p \in 0 .. 2 * r /\ p + t \in r + 1 .. 3 * r + 1 /\ (p + t) - p \in 1 .. 2 * r + 1
    <3>1. Distance(c, Center(r, tried[2])) <= r
      BY <1>8, <1>10, <1>11, <2>1, <2>5
    <3> QED
      BY <3>1
  <2> QED
    BY <1>9, <2>2, <2>3, <2>4, <2>5
<1> HIDE DEF tried, p, t, u, v, n
<1> DEFINE first == CHOOSE i \in near : \A j \in near : i <= j
<1>13. first \in near
  <2>1. near \in SUBSET Nat
    OBVIOUS
  <2> HIDE DEF near
  <2>2. \E i \in near : \A j \in near : i <= j
    BY <1>12, <2>1, LeastOf
  <2> QED
    BY <2>2
<1>14. ch = tried[first] /\ first \in 1..4 /\ Distance(c, Center(r, tried[first])) <= r
  <2>1. ch = tried[first]
    BY <1>12
  <2> HIDE DEF first
  <2> QED
    BY <1>13, <2>1
<1> HIDE DEF first, ch
<1> QED
  BY <1>1, <1>10, <1>14

\* And the only one.
LEMMA LocateIs ==
  ASSUME NEW r \in Nat, NEW c \in ChunkAt, NEW ch \in ChunkAt, Distance(c, Center(r, ch)) <= r
  PROVE  Locate(r, c).chunk = ch
<1> DEFINE f == Locate(r, c).chunk
           C == Center(r, f)
           D == Center(r, ch)
<1>1. f \in ChunkAt /\ Distance(c, C) <= r /\ C \in ChunkAt /\ D \in ChunkAt
  BY LocateFinds, CenterIs
<1>2. CASE f # ch
  <2>1. Distance(C, D) >= 2 * r + 1
    BY <1>1, <1>2, CentresApart
  <2> HIDE DEF C, D
  <2>2. Distance(C, D) <= Distance(C, c) + Distance(c, D) /\ Distance(C, c) = Distance(c, C)
    BY <1>1, Triangle, DistanceSymmetric
  <2>3. Distance(C, D) \in Nat /\ Distance(c, C) \in Nat /\ Distance(c, D) \in Nat
    BY <1>1, DistanceIs
  <2>4. Distance(c, D) <= r
    BY DEF D
  <2> QED
    BY <1>1, <2>1, <2>2, <2>3, <2>4
<1> QED
  BY <1>2

----------------------------------------------------------------------------
(* The spiral *)

LEMMA DivModIs ==
  ASSUME NEW m \in Nat \ {0}, NEW k \in Int, NEW e \in 0 .. m - 1
  PROVE  (m * k + e) \div m = k /\ (m * k + e) % m = e
<1> DEFINE a == m * k + e
           d == a \div m
<1>1. a \in Int /\ m * k \in Int
  OBVIOUS
<1>2. d \in Int /\ a % m = a - m * d /\ a % m \in 0 .. m - 1
  <2> HIDE DEF a
  <2> QED
    BY <1>1, Z3
<1> HIDE DEF d
<1>3. m * d \in Int
  BY <1>2
<1>4. m * k + e - m * d \in 0 .. m - 1
  BY <1>2
<1>5. d = k
  <2>1. CASE d <= k - 1
    <3>1. m * d <= m * (k - 1)
      BY <1>2, <2>1, Products
    <3>2. m * (k - 1) = m * k - m
      BY Z3
    <3> QED
      BY <1>1, <1>3, <1>4, <3>1, <3>2
  <2>2. CASE d >= k + 1
    <3>1. m * (k + 1) <= m * d
      BY <1>2, <2>2, Products
    <3>2. m * (k + 1) = m * k + m
      BY Z3
    <3> QED
      BY <1>1, <1>3, <1>4, <3>1, <3>2
  <2> QED
    BY <1>2, <2>1, <2>2
<1> QED
  BY <1>1, <1>2, <1>5 DEF d

\* A rotation of a ring's positions is undone by the rotation back.
LEMMA RotateBack ==
  ASSUME NEW m \in Nat \ {0}, NEW e \in 0 .. m - 1, NEW h \in Int
  PROVE  /\ (e - h) % m \in 0 .. m - 1
         /\ (((e - h) % m) + h) % m = e
<1> DEFINE a == e - h
           d == a \div m
<1>1. a \in Int /\ h \in Int /\ a = e - h
  OBVIOUS
<1>2. d \in Int /\ a % m = a - m * d /\ a % m \in 0 .. m - 1
  <2> HIDE DEF a
  <2> QED
    BY <1>1, Z3
<1> HIDE DEF a, d
<1>3. (a % m) + h = m * (-d) + e
  <2>1. m * (-d) = -(m * d) /\ m * d \in Int
    BY <1>2, Z3
  <2> QED
    BY <1>1, <1>2, <2>1
<1>4. (m * (-d) + e) % m = e
  <2> DEFINE k == -d
  <2>1. k \in Int
    BY <1>2
  <2> HIDE DEF k
  <2>2. (m * k + e) % m = e
    BY <2>1, DivModIs
  <2> QED
    BY <2>2 DEF k
<1> QED
  BY <1>2, <1>3, <1>4 DEF a

\* The chunk at place t of side d of ring n.
Side(n, d, t) ==
  At2(n * directionDeltas[d].q + t * directionDeltas[(d + 2) % 6].q,
      n * directionDeltas[d].r + t * directionDeltas[(d + 2) % 6].r)

LEMMA SideIs ==
  ASSUME NEW n \in Nat \ {0}, NEW t \in Int
  PROVE  /\ Side(n, 0, t) = At2(n, -t)     /\ Side(n, 1, t) = At2(n - t, -n)
         /\ Side(n, 2, t) = At2(-t, t - n) /\ Side(n, 3, t) = At2(-n, t)
         /\ Side(n, 4, t) = At2(t - n, n)  /\ Side(n, 5, t) = At2(t, n - t)
<1>1. /\ directionDeltas[0] = At2(1, 0)  /\ directionDeltas[1] = At2(1, -1)
      /\ directionDeltas[2] = At2(0, -1) /\ directionDeltas[3] = At2(-1, 0)
      /\ directionDeltas[4] = At2(-1, 1) /\ directionDeltas[5] = At2(0, 1)
  BY DEF directionDeltas, Direction
<1>2. /\ (0 + 2) % 6 = 2 /\ (1 + 2) % 6 = 3 /\ (2 + 2) % 6 = 4
      /\ (3 + 2) % 6 = 5 /\ (4 + 2) % 6 = 0 /\ (5 + 2) % 6 = 1
  OBVIOUS
<1> QED
  BY <1>1, <1>2 DEF Side, At2

LEMMA RingChunkAt ==
  ASSUME NEW n \in Nat \ {0}, NEW d \in 0..5, NEW t \in 0 .. n - 1
  PROVE  LET p == (d * n + t - n \div 2) % (6 * n)
         IN  /\ p \in 0 .. 6 * n - 1
             /\ ringChunk(n, p) = Side(n, d, t)
<1> DEFINE m == 6 * n
           e == d * n + t
           h == n \div 2
           p == (e - h) % m
<1>1. m \in Nat \ {0} /\ e \in 0 .. m - 1 /\ h \in Int
  <2>1. d * n \in Int /\ 0 <= d * n /\ d * n <= 5 * n
    BY Z3
  <2> QED
    BY <2>1
<1>2. p \in 0 .. m - 1 /\ (p + h) % m = e
  <2> HIDE DEF m, e, h
  <2> QED
    BY <1>1, RotateBack
<1>3. e \div n = d /\ e % n = t
  <2>1. e = n * d + t
    BY Z3
  <2> HIDE DEF e
  <2> QED
    BY <2>1, DivModIs
<1> HIDE DEF p
<1>4. ringChunk(n, p) = Side(n, d, t)
  BY <1>2, <1>3 DEF ringChunk, Side
<1> QED
  BY <1>2, <1>4 DEF p

\* Every chunk n from the origin is on ring n, where SpiralIndex says.
LEMMA RingIsWhole ==
  ASSUME NEW ch \in ChunkAt, NEW n \in Nat \ {0}, Distance(Origin, ch) = n
  PROVE  \E p \in 0 .. 6 * n - 1 :
           ringChunk(n, p) = ch /\ SpiralIndex(ch) = 1 + 3 * n * (n - 1) + p
<1> DEFINE q == ch.q
           r == ch.r
           s == -ch.q - ch.r
           side == CASE q = n /\ r > -n  -> <<0, -r>>
                     [] r = -n /\ q > 0  -> <<1, n - q>>
                     [] s = n /\ q > -n  -> <<2, -q>>
                     [] q = -n /\ r < n  -> <<3, r>>
                     [] r = n /\ q < 0   -> <<4, q + n>>
                     [] OTHER            -> <<5, q>>
<1>1. SpiralIndex(ch) = 1 + 3 * n * (n - 1) + ((side[1] * n + side[2] - n \div 2) % (6 * n))
  BY DEF SpiralIndex
<1>2. /\ ch = At2(q, r) /\ q \in Int /\ r \in Int /\ s = -q - r
      /\ q <= n /\ -q <= n /\ r <= n /\ -r <= n /\ s <= n /\ -s <= n
      /\ n \in {q, -q, r, -r, s, -s}
  <2>1. Origin \in ChunkAt /\ Origin.q = 0 /\ Origin.r = 0
    BY DEF Origin, At2, ChunkAt
  <2>2. q \in Int /\ r \in Int /\ ch = At2(q, r)
    BY DEF ChunkAt, At2
  <2>3. /\ 0 - q <= n /\ -(0 - q) <= n /\ 0 - r <= n /\ -(0 - r) <= n
        /\ (0 - q) + (0 - r) <= n /\ -(0 - q) - (0 - r) <= n
        /\ n \in {0 - q, -(0 - q), 0 - r, -(0 - r), (0 - q) + (0 - r), -(0 - q) - (0 - r)}
    BY <2>1, DistanceIs
  <2> HIDE DEF q, r
  <2> QED
    BY <2>2, <2>3 DEF q, r
<1> HIDE DEF q, r, s
<1>3. \E d \in 0..5 : \E t \in 0 .. n - 1 : side = <<d, t>> /\ Side(n, d, t) = ch
  <2>1. CASE q = n /\ r > -n
    <3>1. side = <<0, -r>> /\ -r \in 0 .. n - 1
      BY <1>2, <2>1
    <3>2. Side(n, 0, -r) = ch
      BY <1>2, <2>1, SideIs
    <3> QED
      BY <3>1, <3>2
  <2>2. CASE r = -n /\ q > 0 /\ ~(q = n /\ r > -n)
    <3>1. side = <<1, n - q>> /\ n - q \in 0 .. n - 1
      BY <1>2, <2>2
    <3>2. Side(n, 1, n - q) = At2(n - (n - q), -n)
      BY <1>2, <2>2, SideIs
    <3>3. n - (n - q) = q
      BY <1>2
    <3> QED
      BY <1>2, <2>2, <3>1, <3>2, <3>3
  <2>3. CASE s = n /\ q > -n /\ ~(r = -n /\ q > 0) /\ ~(q = n /\ r > -n)
    <3>1. side = <<2, -q>> /\ -q \in 0 .. n - 1
      BY <1>2, <2>3
    <3>2. Side(n, 2, -q) = At2(-(-q), -q - n)
      BY <1>2, <2>3, SideIs
    <3>3. -(-q) = q /\ -q - n = r
      BY <1>2, <2>3
    <3> QED
      BY <1>2, <3>1, <3>2, <3>3
  <2>4. CASE q = -n /\ r < n /\ ~(s = n /\ q > -n) /\ ~(r = -n /\ q > 0) /\ ~(q = n /\ r > -n)
    <3>1. side = <<3, r>> /\ r \in 0 .. n - 1
      BY <1>2, <2>4
    <3>2. Side(n, 3, r) = ch
      BY <1>2, <2>4, SideIs
    <3> QED
      BY <3>1, <3>2
  <2>5. CASE /\ r = n /\ q < 0 /\ ~(q = -n /\ r < n) /\ ~(s = n /\ q > -n)
             /\ ~(r = -n /\ q > 0) /\ ~(q = n /\ r > -n)
    <3>1. side = <<4, q + n>> /\ q + n \in 0 .. n - 1
      BY <1>2, <2>5
    <3>2. Side(n, 4, q + n) = At2((q + n) - n, n)
      BY <1>2, <2>5, SideIs
    <3>3. (q + n) - n = q
      BY <1>2
    <3> QED
      BY <1>2, <2>5, <3>1, <3>2, <3>3
  <2>6. CASE /\ ~(r = n /\ q < 0) /\ ~(q = -n /\ r < n) /\ ~(s = n /\ q > -n)
             /\ ~(r = -n /\ q > 0) /\ ~(q = n /\ r > -n)
    <3>1. side = <<5, q>>
      BY <2>6
    <3>2. q \in 0 .. n - 1 /\ n - q = r
      BY <1>2, <2>6
    <3>3. Side(n, 5, q) = At2(q, n - q)
      BY <1>2, SideIs
    <3> QED
      BY <1>2, <3>1, <3>2, <3>3
  <2> QED
    BY <2>1, <2>2, <2>3, <2>4, <2>5, <2>6
<1> HIDE DEF side
<1>4. PICK d \in 0..5, t \in 0 .. n - 1 : side = <<d, t>> /\ Side(n, d, t) = ch
  BY <1>3
<1> DEFINE p == (d * n + t - n \div 2) % (6 * n)
<1>5. p \in 0 .. 6 * n - 1 /\ ringChunk(n, p) = ch
  BY <1>4, RingChunkAt
<1>6. SpiralIndex(ch) = 1 + 3 * n * (n - 1) + p
  BY <1>1, <1>4
<1> HIDE DEF p
<1> QED
  BY <1>5, <1>6

\* A position of the spiral belongs to one ring.
LEMMA RingAtIs ==
  ASSUME NEW n \in Nat \ {0}, NEW p \in 0 .. 6 * n - 1
  PROVE  LET i == 1 + 3 * n * (n - 1) + p
         IN  i \in 1 .. 3 * n * (n + 1) /\ ringAt(i) = n
<1> DEFINE i == 1 + 3 * n * (n - 1) + p
           Fits(m) == 3 * m * (m - 1) < i /\ i <= 3 * m * (m + 1)
<1>1. /\ 3 * n * (n - 1) \in Nat /\ 3 * n * (n + 1) \in Nat
      /\ 3 * n * (n + 1) = 3 * n * (n - 1) + 6 * n
  <2>1. n * (n - 1) \in Nat /\ n * (n + 1) \in Nat /\ n * (n + 1) = n * (n - 1) + 2 * n
    BY Z3
  <2>2. 3 * n * (n - 1) = 3 * (n * (n - 1)) /\ 3 * n * (n + 1) = 3 * (n * (n + 1))
    BY Z3
  <2> QED
    BY <2>1, <2>2
<1>2. i \in 1 .. 3 * n * (n + 1) /\ Fits(n)
  BY <1>1
<1>3. n \in 1 .. i
  <2>1. 3 * n * (n - 1) >= n - 1
    BY Z3
  <2> QED
    BY <1>1, <2>1
<1>4. ASSUME NEW m \in 1 .. i, Fits(m) PROVE m = n
  <2>1. i \in Int /\ m \in Nat \ {0} /\ 3 * m * (m - 1) \in Int /\ 3 * m * (m + 1) \in Int
    BY <1>2
  <2>2. \A x, y \in Nat \ {0} : x <= y - 1 => 3 * x * (x + 1) <= 3 * y * (y - 1)
    <3> SUFFICES ASSUME NEW x \in Nat \ {0}, NEW y \in Nat \ {0}, x <= y - 1
                 PROVE  3 * x * (x + 1) <= 3 * y * (y - 1)
      OBVIOUS
    <3>1. (3 * x) * (x + 1) <= (3 * x) * y
      BY Products
    <3>2. (3 * y) * x <= (3 * y) * (y - 1)
      BY Products
    <3>3. (3 * x) * y = (3 * y) * x
      BY Z3
    <3>4. (3 * x) * (x + 1) \in Int /\ (3 * x) * y \in Int /\ (3 * y) * (y - 1) \in Int
      OBVIOUS
    <3> QED
      BY <3>1, <3>2, <3>3, <3>4
  <2>3. CASE m <= n - 1
    <3>1. 3 * m * (m + 1) <= 3 * n * (n - 1)
      BY <2>1, <2>2, <2>3
    <3> HIDE DEF i
    <3> QED
      BY <1>1, <1>2, <1>4, <2>1, <3>1
  <2>4. CASE n <= m - 1
    <3>1. 3 * n * (n + 1) <= 3 * m * (m - 1)
      BY <2>1, <2>2, <2>4
    <3> HIDE DEF i
    <3> QED
      BY <1>1, <1>2, <1>4, <2>1, <3>1
  <2> HIDE DEF i
  <2> QED
    BY <2>1, <2>3, <2>4
<1> HIDE DEF i
<1>5. ringAt(i) = n
  BY <1>2, <1>3, <1>4 DEF ringAt
<1> QED
  BY <1>2, <1>5 DEF i

LEMMA SpiralInverted ==
  ASSUME NEW ch \in ChunkAt
  PROVE  LET n == Distance(Origin, ch)
         IN  /\ SpiralIndex(ch) \in 0 .. CellCount(n) - 1
             /\ Spiral(n)[SpiralIndex(ch) + 1] = ch
<1> DEFINE n == Distance(Origin, ch)
<1>1. Origin \in ChunkAt /\ Origin.q = 0 /\ Origin.r = 0
  BY DEF Origin, At2, ChunkAt
<1>2. n \in Nat
  BY <1>1, DistanceIs
<1>3. CASE n = 0
  <2>1. ch = Origin
    <3>1. /\ 0 - ch.q <= 0 /\ -(0 - ch.q) <= 0 /\ 0 - ch.r <= 0 /\ -(0 - ch.r) <= 0
      BY <1>1, <1>3, DistanceIs
    <3>2. ch.q = 0 /\ ch.r = 0
      BY <3>1 DEF ChunkAt
    <3> QED
      BY <1>1, <3>2, SamePlace
  <2>2. SpiralIndex(ch) = 0
    BY <1>3 DEF SpiralIndex
  <2>3. Spiral(0)[1] = Origin
    BY DEF Spiral
  <2>4. CellCount(0) = 1
    BY DEF CellCount
  <2> QED
    BY <1>3, <2>1, <2>2, <2>3, <2>4
<1>4. CASE n # 0
  <2>1. PICK p \in 0 .. 6 * n - 1 :
          ringChunk(n, p) = ch /\ SpiralIndex(ch) = 1 + 3 * n * (n - 1) + p
    <3> HIDE DEF n
    <3> QED
      BY <1>2, <1>4, RingIsWhole DEF n
  <2> HIDE DEF n
  <2> DEFINE i == 1 + 3 * n * (n - 1) + p
  <2>2. i \in 1 .. 3 * n * (n + 1) /\ ringAt(i) = n
    BY <1>2, <1>4, RingAtIs
  <2>3. CellCount(n) - 1 = 3 * n * (n + 1) /\ 3 * n * (n + 1) \in Nat
    <3>1. 3 * n * n + 3 * n = 3 * n * (n + 1) /\ 3 * n * n \in Nat
      BY <1>2, Z3
    <3> QED
      BY <1>2, <3>1 DEF CellCount
  <2>4. 3 * n * (n - 1) \in Int /\ i - 1 - 3 * n * (n - 1) = p
    BY <1>2
  <2> HIDE DEF i
  <2>5. i + 1 \in 1 .. 1 + 3 * n * (n + 1) /\ (i + 1) - 1 = i /\ i # 0
    BY <2>2, <2>3
  <2>6. Spiral(n)[i + 1] = ringChunk(n, p)
    BY <2>2, <2>4, <2>5 DEF Spiral
  <2> QED
    BY <2>1, <2>2, <2>3, <2>6 DEF n, i
<1> QED
  BY <1>3, <1>4

----------------------------------------------------------------------------
(* The nearest gate *)

\* A centre is at least as far as its chunk's ring says.
LEMMA RingBounds ==
  ASSUME NEW r \in Nat, NEW a \in ChunkAt, NEW b \in ChunkAt
  PROVE  CellCount(r) * Distance(a, b) <= (2 * r + 1) * Distance(Center(r, a), Center(r, b))
<1> DEFINE x == a.q - b.q
           y == a.r - b.r
           D == Distance(Center(r, a), Center(r, b))
           E == Distance(a, b)
           u == r * (2 * x + y) + x
           v == r * (y - x) + y
<1>1. a.q \in Int /\ a.r \in Int /\ b.q \in Int /\ b.r \in Int
  BY DEF ChunkAt
<1>2. x \in Int /\ y \in Int
  BY <1>1
<1>3. ASSUME NEW i \in Int, NEW j \in Int, NEW k \in Int, NEW l \in Int
      PROVE  /\ (r * (2 * i + j) + i) - (r * (2 * k + l) + k) = r * (2 * (i - k) + (j - l)) + (i - k)
             /\ (r * (j - i) + j) - (r * (l - k) + l) = r * ((j - l) - (i - k)) + (j - l)
  BY Z3
<1>4. Center(r, a).q - Center(r, b).q = u /\ Center(r, a).r - Center(r, b).r = v
  BY <1>1, <1>3, CenterIs
<1>5. D \in Nat /\ u <= D /\ -u <= D /\ v <= D /\ -v <= D /\ u + v <= D /\ -u - v <= D
  BY <1>4, CenterIs, DistanceIs
<1>6. E \in Nat /\ E \in {x, -x, y, -y, x + y, -x - y}
  BY DistanceIs
<1> SUFFICES CellCount(r) * E <= (2 * r + 1) * D
  OBVIOUS
<1> DEFINE n == 3 * r * r + 3 * r + 1
<1>7. CellCount(r) = n /\ n \in Int
  BY DEF CellCount
<1> HIDE DEF D, E
<1>8. /\ n * x = (r + 1) * u + r * (-v)      /\ n * (-x) = (r + 1) * (-u) + r * v
      /\ n * y = r * (u + v) + (r + 1) * v   /\ n * (-y) = r * (-u - v) + (r + 1) * (-v)
      /\ n * (x + y) = r * u + (r + 1) * (u + v)
      /\ n * (-x - y) = r * (-u) + (r + 1) * (-u - v)
  <2> HIDE DEF x, y
  <2> QED
    BY <1>2, Z3
<1>9. u \in Int /\ v \in Int
  BY <1>2
<1> HIDE DEF u, v, n, x, y
<1>10. \A w \in Int : w <= D => r * w <= r * D /\ (r + 1) * w <= (r + 1) * D
  BY <1>5, Products
<1>11. r * D + (r + 1) * D = (2 * r + 1) * D /\ r * D \in Int /\ (r + 1) * D \in Int
  BY <1>5, Z3
<1>12. \A w, z \in Int : w <= D /\ z <= D => r * w + (r + 1) * z <= (2 * r + 1) * D
  <2> SUFFICES ASSUME NEW w \in Int, NEW z \in Int, w <= D, z <= D
               PROVE  r * w + (r + 1) * z <= (2 * r + 1) * D
    OBVIOUS
  <2>1. r * w <= r * D /\ (r + 1) * z <= (r + 1) * D /\ r * w \in Int /\ (r + 1) * z \in Int
    BY <1>10
  <2> QED
    BY <1>11, <2>1
<1>13. -u \in Int /\ -v \in Int /\ u + v \in Int /\ -u - v \in Int
  BY <1>9
<1>14. /\ n * x <= (2 * r + 1) * D /\ n * (-x) <= (2 * r + 1) * D
       /\ n * y <= (2 * r + 1) * D /\ n * (-y) <= (2 * r + 1) * D
       /\ n * (x + y) <= (2 * r + 1) * D /\ n * (-x - y) <= (2 * r + 1) * D
  <2>1. r * (-v) + (r + 1) * u = (r + 1) * u + r * (-v) /\ r * v + (r + 1) * (-u) = (r + 1) * (-u) + r * v
    BY <1>9, Z3
  <2> QED
    BY <1>5, <1>8, <1>9, <1>12, <1>13, <2>1
<1> QED
  BY <1>6, <1>7, <1>14

\* ceilDiv64 rounds up.
LEMMA CeilDivIs ==
  ASSUME NEW x \in Int, NEW m \in Nat \ {0}, NEW k \in Int
  PROVE  /\ ceilDiv64(x, m) \in Int
         /\ ceilDiv64(x, m) <= k <=> x <= m * k
<1> DEFINE a == x + m - 1
           d == a \div m
<1>1. a \in Int /\ d \in Int
  OBVIOUS
<1>2. m * d <= a /\ a < m * d + m /\ m * d \in Int /\ m * k \in Int
  <2> HIDE DEF a
  <2> QED
    BY <1>1, Z3
<1>3. ceilDiv64(x, m) = d
  BY DEF ceilDiv64
<1> HIDE DEF d
<1>4. CASE d <= k
  <2>1. m * d <= m * k
    BY <1>1, <1>4, Products
  <2> QED
    BY <1>1, <1>2, <1>3, <1>4, <2>1
<1>5. CASE d >= k + 1
  <2>1. m * (k + 1) <= m * d
    BY <1>1, <1>5, Products
  <2>2. m * (k + 1) = m * k + m
    BY Z3
  <2> QED
    BY <1>1, <1>2, <1>3, <1>5, <2>1, <2>2
<1> QED
  BY <1>1, <1>4, <1>5

\* No centre of that ring around the cell's chunk, or of a later one, is nearer
\* than lowerBound.
LEMMA LowerBoundIs ==
  ASSUME NEW r \in Nat \ {0}, NEW cell \in ChunkAt, NEW g \in ChunkAt, NEW ring \in Nat,
         ring <= Distance(Locate(r, cell).chunk, g)
  PROVE  lowerBound(r, ring) <= Distance(cell, Center(r, g))
<1> DEFINE c0 == Locate(r, cell).chunk
           n == CellCount(r)
           k == Distance(cell, Center(r, g))
           near == Distance(cell, Center(r, c0))
           far == Distance(Center(r, c0), Center(r, g))
           away == Distance(c0, g)
<1>1. c0 \in ChunkAt /\ near <= r
  BY LocateFinds
<1>2. Center(r, c0) \in ChunkAt /\ Center(r, g) \in ChunkAt
  BY <1>1, CenterIs
<1>3. k \in Nat /\ near \in Nat /\ far \in Nat /\ away \in Nat
  BY <1>1, <1>2, DistanceIs
<1>4. far <= near + k
  <2>1. far <= Distance(Center(r, c0), cell) + Distance(cell, Center(r, g))
    BY <1>1, <1>2, Triangle
  <2>2. Distance(Center(r, c0), cell) = near
    BY <1>1, <1>2, DistanceSymmetric
  <2> QED
    BY <2>1, <2>2
<1>5. n * away <= (2 * r + 1) * far
  BY <1>1, RingBounds
<1>6. n \in Nat
  <2>1. 3 * r * r \in Nat
    BY Z3
  <2> QED
    BY <2>1 DEF CellCount
<1>7. ring <= away
  OBVIOUS
<1> HIDE DEF k, near, far, away, n, c0
<1>8. n * ring <= n * away
  BY <1>3, <1>6, <1>7, Products
<1>9. (2 * r + 1) * far <= (2 * r + 1) * (k + r)
  BY <1>1, <1>3, <1>4, Products
<1>10. /\ n * ring \in Int /\ n * away \in Int /\ (2 * r + 1) * far \in Int
       /\ (2 * r + 1) * (k + r) \in Int /\ n * ring = ring * n
  BY <1>3, <1>6, Z3
<1>11. ring * n <= (2 * r + 1) * (k + r)
  BY <1>5, <1>8, <1>9, <1>10
<1>12. ring * n \in Int /\ 2 * r + 1 \in Nat \ {0} /\ k + r \in Int
  BY <1>3, <1>10
<1>13. ceilDiv64(ring * n, 2 * r + 1) \in Int /\ ceilDiv64(ring * n, 2 * r + 1) <= k + r
  BY <1>11, <1>12, CeilDivIs
<1>14. lowerBound(r, ring) = ceilDiv64(ring * n, 2 * r + 1) - r
  BY DEF lowerBound, n
<1>15. lowerBound(r, ring) <= k
  BY <1>3, <1>13, <1>14
<1> QED
  BY <1>15 DEF k

\* It grows without end.
LEMMA LowerBoundGrows ==
  ASSUME NEW r \in Nat \ {0}, NEW ring \in Nat
  PROVE  lowerBound(r, ring) \in Int /\ lowerBound(r, ring) >= ring - r
<1> DEFINE n == CellCount(r)
<1>1. n \in Nat /\ n >= 2 * r + 1
  <2>1. 3 * r * r \in Nat
    BY Z3
  <2> QED
    BY <2>1 DEF CellCount
<1> HIDE DEF n
<1>2. ring * n \in Int /\ (2 * r + 1) * ring <= ring * n
  <2>1. ring * (2 * r + 1) <= ring * n
    BY <1>1, Products
  <2>2. ring * (2 * r + 1) = (2 * r + 1) * ring
    BY Z3
  <2> QED
    BY <1>1, <2>1, <2>2
<1> DEFINE c == ceilDiv64(ring * n, 2 * r + 1)
<1>3. c \in Int /\ (c <= ring - 1 <=> ring * n <= (2 * r + 1) * (ring - 1))
  BY <1>2, CeilDivIs
<1>4. (2 * r + 1) * (ring - 1) = (2 * r + 1) * ring - (2 * r + 1) /\ (2 * r + 1) * ring \in Int
  BY Z3
<1> HIDE DEF c
<1>5. c >= ring
  BY <1>2, <1>3, <1>4
<1>6. lowerBound(r, ring) = c - r
  BY DEF lowerBound, c, n
<1> QED
  BY <1>3, <1>5, <1>6

\* The distance of two chunks is that of their difference from the origin.
LEMMA DistanceShifts ==
  ASSUME NEW a \in ChunkAt, NEW b \in ChunkAt
  PROVE  /\ Distance(Origin, Minus(b, a)) = Distance(a, b)
         /\ Plus(a, Minus(b, a)) = b
<1>1. a.q \in Int /\ a.r \in Int /\ b.q \in Int /\ b.r \in Int
  BY DEF ChunkAt
<1>2. Origin.q = 0 /\ Origin.r = 0
  BY DEF Origin, At2
<1>3. Minus(b, a).q = b.q - a.q /\ Minus(b, a).r = b.r - a.r /\ Minus(b, a) \in ChunkAt
  BY PlusIs
<1>4. 0 - (b.q - a.q) = a.q - b.q /\ 0 - (b.r - a.r) = a.r - b.r
  BY <1>1
<1>5. Distance(Origin, Minus(b, a)) = Distance(a, b)
  BY <1>2, <1>3, <1>4 DEF Distance
<1>6. a.q + (b.q - a.q) = b.q /\ a.r + (b.r - a.r) = b.r
  BY <1>1
<1>7. Plus(a, Minus(b, a)) = b
  BY <1>3, <1>6, PlusIs, SamePlace
<1> QED
  BY <1>5, <1>7

\* A chunk is among those around another at its distance.
LEMMA AroundIsWhole ==
  ASSUME NEW centre \in ChunkAt, NEW ch \in ChunkAt
  PROVE  ch \in ringChunksAround(centre, Distance(centre, ch))
<1> DEFINE n == Distance(centre, ch)
           m == Minus(ch, centre)
<1>1. n \in Nat /\ m \in ChunkAt /\ Distance(Origin, m) = n /\ Plus(centre, m) = ch
  BY DistanceIs, DistanceShifts, PlusIs
<1> HIDE DEF n, m
<1>2. CASE n = 0
  <2>1. Origin \in ChunkAt /\ Origin.q = 0 /\ Origin.r = 0
    BY DEF Origin, At2, ChunkAt
  <2>2. 0 - m.q <= 0 /\ -(0 - m.q) <= 0 /\ 0 - m.r <= 0 /\ -(0 - m.r) <= 0
    BY <1>1, <1>2, <2>1, DistanceIs
  <2>3. m.q = 0 /\ m.r = 0
    BY <1>1, <2>2 DEF ChunkAt
  <2>4. ch.q = centre.q /\ ch.r = centre.r
    BY <1>1, <2>3, PlusIs DEF ChunkAt
  <2>5. ch = centre
    BY <2>4, SamePlace
  <2> QED
    BY <1>2, <2>5 DEF ringChunksAround, n
<1>3. CASE n # 0
  <2>1. PICK p \in 0 .. 6 * n - 1 : ringChunk(n, p) = m
    BY <1>1, <1>3, RingIsWhole
  <2>2. ch \in ringChunksAround(centre, n)
    BY <1>1, <1>3, <2>1 DEF ringChunksAround
  <2> QED
    BY <2>2 DEF n
<1> QED
  BY <1>2, <1>3

\* The search for the nearest gate ends at it.
LEMMA DepthNearest ==
  ASSUME NEW r \in Nat \ {0}, NEW cell \in ChunkAt, NEW gs \in SUBSET ChunkAt
  PROVE  LET all == {Distance(cell, Center(r, g)) : g \in gs}
         IN  Depth(r, gs, cell) = IF gs = {} THEN -1 ELSE CHOOSE d \in all : \A x \in all : d <= x
<1>1. CASE gs = {}
  BY <1>1 DEF Depth
<1>2. CASE gs # {}
  <2> DEFINE c0 == Locate(r, cell).chunk
             D(g) == Distance(cell, Center(r, g))
             seen(n) == {D(g) : g \in gs \cap UNION {ringChunksAround(c0, i) : i \in 0..n}}
             best(n) == CHOOSE d \in seen(n) : \A x \in seen(n) : d <= x
             one == CHOOSE g \in gs : TRUE
             reach == 0 .. r + D(one)
             Enough(n) == /\ seen(n) # {} /\ best(n) <= lowerBound(r, n + 1)
                          /\ \A i \in 0 .. n - 1 : seen(i) = {} \/ best(i) > lowerBound(r, i + 1)
             last == CHOOSE n \in reach : Enough(n)
             all == {D(g) : g \in gs}
  <2>1. Depth(r, gs, cell) = best(last)
    BY <1>2 DEF Depth
  <2>2. c0 \in ChunkAt
    BY LocateFinds
  <2>3. \A g \in gs : D(g) \in Nat
    BY CenterIs, DistanceIs
  <2>4. one \in gs /\ D(one) \in Nat
    BY <1>2, <2>3
  <2>5. ASSUME NEW n \in Nat PROVE seen(n) \in SUBSET Nat /\ seen(n) \subseteq all
    BY <2>3
  <2>6. ASSUME NEW n \in Nat, NEW g \in gs
        PROVE  D(g) \in seen(n) \/ lowerBound(r, n + 1) <= D(g)
    <3> DEFINE m == Distance(c0, g)
    <3>1. m \in Nat /\ g \in ringChunksAround(c0, m)
      BY <2>2, DistanceIs, AroundIsWhole
    <3>2. CASE m <= n
      <4>1. m \in 0..n
        BY <3>1, <3>2
      <4> HIDE DEF m
      <4>2. g \in UNION {ringChunksAround(c0, i) : i \in 0..n}
        BY <3>1, <4>1
      <4> HIDE DEF c0
      <4> QED
        BY <4>2
    <3>3. CASE n + 1 <= m
      <4> HIDE DEF seen
      <4>1. n + 1 \in Nat
        OBVIOUS
      <4> QED
        BY <3>3, <4>1, LowerBoundIs
    <3> HIDE DEF m, seen
    <3> QED
      BY <3>1, <3>2, <3>3
  <2> HIDE DEF seen, all, one, c0, D
  <2>7. ASSUME NEW n \in Nat, seen(n) # {}
        PROVE  best(n) \in seen(n) /\ \A x \in seen(n) : best(n) <= x
    <3>1. \E d \in seen(n) : \A x \in seen(n) : d <= x
      BY <2>5, <2>7, LeastOf
    <3> QED
      BY <3>1
  <2> HIDE DEF best
  <2>8. \E n \in reach : Enough(n)
    <3> DEFINE Stops == {n \in Nat : seen(n) # {} /\ best(n) <= lowerBound(r, n + 1)}
               far == r + D(one)
    <3>1. far \in Stops /\ far \in Nat
      <4>1. far \in Nat /\ far + 1 \in Nat
        BY <2>4
      <4>2. lowerBound(r, far + 1) >= D(one) + 1 /\ lowerBound(r, far + 1) \in Int
        BY <2>4, <4>1, LowerBoundGrows
      <4>3. ~(lowerBound(r, far + 1) <= D(one))
        BY <2>4, <4>2
      <4>4. D(one) \in seen(far)
        <5> HIDE DEF far
        <5> QED
          BY <2>4, <2>6, <4>1, <4>3
      <4>5. best(far) <= D(one) /\ best(far) \in Nat
        <5> HIDE DEF far
        <5> QED
          BY <2>5, <2>7, <4>1, <4>4
      <4> QED
        BY <2>4, <4>1, <4>2, <4>4, <4>5
    <3>2. PICK n \in Stops : \A x \in Stops : n <= x
      <4>1. Stops \in SUBSET Nat
        OBVIOUS
      <4> HIDE DEF Stops
      <4> QED
        BY <3>1, <4>1, LeastOf
    <3>3. n \in Nat /\ n <= far /\ seen(n) # {} /\ best(n) <= lowerBound(r, n + 1)
      BY <3>1, <3>2
    <3>4. ASSUME NEW i \in 0 .. n - 1 PROVE seen(i) = {} \/ best(i) > lowerBound(r, i + 1)
      <4>1. i \in Nat /\ i \notin Stops
        BY <3>2, <3>3
      <4>2. seen(i) = {} \/ ~(best(i) <= lowerBound(r, i + 1))
        BY <4>1
      <4>3. i + 1 \in Nat
        BY <4>1
      <4>4. seen(i) # {} => best(i) \in Int
        BY <2>5, <2>7, <4>1
      <4>5. lowerBound(r, i + 1) \in Int
        BY <4>3, LowerBoundGrows
      <4> QED
        BY <4>2, <4>4, <4>5
    <3>5. n \in reach
      BY <3>3
    <3> HIDE DEF Stops
    <3> QED
      BY <3>3, <3>4, <3>5
  <2>9. last \in Nat /\ seen(last) # {} /\ best(last) <= lowerBound(r, last + 1)
    <3>1. last \in reach /\ Enough(last)
      BY <2>8
    <3> HIDE DEF last
    <3> QED
      BY <3>1
  <2> HIDE DEF last
  <2>10. best(last) \in seen(last) /\ \A x \in seen(last) : best(last) <= x
    BY <2>7, <2>9
  <2>11. best(last) \in all /\ best(last) \in Nat
    BY <2>5, <2>9, <2>10
  <2>12. ASSUME NEW g \in gs PROVE best(last) <= D(g)
    <3>1. CASE D(g) \in seen(last)
      BY <2>10, <3>1
    <3>2. CASE lowerBound(r, last + 1) <= D(g)
      <4>1. lowerBound(r, last + 1) \in Int
        <5>1. last + 1 \in Nat
          BY <2>9
        <5> QED
          BY <5>1, LowerBoundGrows
      <4> QED
        BY <2>3, <2>9, <2>11, <3>2, <4>1
    <3> QED
      BY <2>6, <2>9, <3>1, <3>2
  <2>13. \A x \in all : best(last) <= x /\ x \in Nat
    BY <2>3, <2>12 DEF all
  <2>14. (CHOOSE d \in all : \A x \in all : d <= x) = best(last)
    <3>1. \A d \in all : (\A x \in all : d <= x) => d = best(last)
      BY <2>11, <2>13
    <3> QED
      BY <2>11, <2>13, <3>1
  <2> QED
    BY <1>2, <2>1, <2>14 DEF all, D
<1> QED
  BY <1>1, <1>2

----------------------------------------------------------------------------
(* Cells and chunks *)

\* The conversions between cells and chunks, on one cell.
LEMMA LocateExact ==
  ASSUME NEW r \in Nat \ {0}, NEW cell \in ChunkAt
  PROVE  LET found == Locate(r, cell)
         IN  /\ GlobalOf(r, found.chunk, found.local) = cell
             /\ found.local \in LocalCells(r)
             /\ \A d \in Direction : Distance(cell, Center(r, Neighbor(found.chunk, d))) > r
<1> DEFINE ch == Locate(r, cell).chunk
           local == Locate(r, cell).local
           C == Center(r, ch)
<1>1. /\ ch \in ChunkAt /\ local = Minus(cell, C) /\ Distance(cell, C) <= r
  BY LocateFinds
<1>2. C \in ChunkAt
  BY <1>1, CenterIs
<1>3. /\ local \in ChunkAt /\ local.q = cell.q - C.q /\ local.r = cell.r - C.r
  BY <1>1, <1>2, PlusIs
<1>4. cell.q \in Int /\ cell.r \in Int /\ C.q \in Int /\ C.r \in Int
  BY <1>2 DEF ChunkAt
<1>5. GlobalOf(r, ch, local) = cell
  <2>1. /\ Plus(C, local) \in ChunkAt
        /\ Plus(C, local).q = C.q + local.q /\ Plus(C, local).r = C.r + local.r
    BY <1>2, <1>3, PlusIs
  <2>2. Plus(C, local).q = cell.q /\ Plus(C, local).r = cell.r
    BY <1>3, <1>4, <2>1
  <2>3. Plus(C, local) = cell
    BY <2>1, <2>2, SamePlace
  <2> QED
    BY <2>3 DEF GlobalOf
<1>6. local \in LocalCells(r)
  <2>1. /\ cell.q - C.q <= r /\ -(cell.q - C.q) <= r
        /\ cell.r - C.r <= r /\ -(cell.r - C.r) <= r
        /\ (cell.q - C.q) + (cell.r - C.r) <= r /\ -(cell.q - C.q) - (cell.r - C.r) <= r
    BY <1>1, <1>2, NearIs
  <2>2. local.q \in -r..r /\ local.r \in -r..r /\ local.q + local.r \in -r..r
    BY <1>3, <1>4, <2>1
  <2> QED
    BY <1>3, <2>2 DEF LocalCells, ChunkAt
<1>7. ASSUME NEW d \in Direction PROVE Distance(cell, Center(r, Neighbor(ch, d))) > r
  <2>1. Neighbor(ch, d) \in ChunkAt /\ Neighbor(ch, d) # ch
    BY <1>1, NeighborBack
  <2>2. Distance(cell, Center(r, Neighbor(ch, d))) \in Nat
    BY <2>1, CenterIs, DistanceIs
  <2>3. ~(Distance(cell, Center(r, Neighbor(ch, d))) <= r)
    BY <2>1, LocateIs
  <2> QED
    BY <2>2, <2>3
<1> QED
  BY <1>5, <1>6, <1>7
----------------------------------------------------------------------------
(* Borders *)

\* The six steps, spelt out.
LEMMA SixSteps ==
  /\ directionDeltas[0] = At2(1, 0)  /\ directionDeltas[1] = At2(1, -1)
  /\ directionDeltas[2] = At2(0, -1) /\ directionDeltas[3] = At2(-1, 0)
  /\ directionDeltas[4] = At2(-1, 1) /\ directionDeltas[5] = At2(0, 1)
BY DEF directionDeltas, Direction

\* The j-th cell of side d of the chunk at the origin, along the border.
SideCell(r, d, j) ==
  CASE d = 0 -> At2(r, -j)  [] d = 1 -> At2(r - j, -r)  [] d = 2 -> At2(-j, j - r)
    [] d = 3 -> At2(-r, r - j) [] d = 4 -> At2(-j, r) [] d = 5 -> At2(r - j, j)

\* Which cell of the side has the second face into the neighbour.
Second(d, j) == IF d <= 2 THEN j ELSE j + 1

LEMMA SideCellIs ==
  ASSUME NEW r \in Nat \ {0}, NEW j \in 0..r
  PROVE  /\ SideCell(r, 0, j) = At2(r, -j)     /\ SideCell(r, 1, j) = At2(r - j, -r)
         /\ SideCell(r, 2, j) = At2(-j, j - r) /\ SideCell(r, 3, j) = At2(-r, r - j)
         /\ SideCell(r, 4, j) = At2(-j, r)     /\ SideCell(r, 5, j) = At2(r - j, j)
BY DEF SideCell

\* The faces of a chunk towards its neighbours' chunks.
LEMMA OffsetIs ==
  ASSUME NEW r \in Nat \ {0}
  PROVE  /\ Offset(r, 0) = At2(2 * r + 1, -r) /\ Offset(r, 1) = At2(r + 1, -2 * r - 1)
         /\ Offset(r, 2) = At2(-r, -r - 1)    /\ Offset(r, 3) = At2(-2 * r - 1, r)
         /\ Offset(r, 4) = At2(-r - 1, 2 * r + 1) /\ Offset(r, 5) = At2(r, r + 1)
<1>1. ASSUME NEW d \in Direction
      PROVE  Neighbor(Origin, d) = directionDeltas[d] /\ directionDeltas[d] \in ChunkAt
  <2>1. directionDeltas[d] \in ChunkAt /\ directionDeltas[d].q \in Int /\ directionDeltas[d].r \in Int
    BY StepsUndo DEF ChunkAt
  <2>2. /\ Origin \in ChunkAt /\ Origin.q = 0 /\ Origin.r = 0
    BY DEF Origin, At2, ChunkAt
  <2>3. /\ Neighbor(Origin, d) \in ChunkAt
        /\ Neighbor(Origin, d).q = 0 + directionDeltas[d].q
        /\ Neighbor(Origin, d).r = 0 + directionDeltas[d].r
    BY <2>1, <2>2, PlusIs DEF Neighbor
  <2>4. Neighbor(Origin, d).q = directionDeltas[d].q /\ Neighbor(Origin, d).r = directionDeltas[d].r
    BY <2>1, <2>3
  <2> QED
    BY <2>1, <2>3, <2>4, SamePlace
<1>2. ASSUME NEW d \in Direction
      PROVE  /\ Offset(r, d) \in ChunkAt
             /\ Offset(r, d).q = r * (2 * directionDeltas[d].q + directionDeltas[d].r) + directionDeltas[d].q
             /\ Offset(r, d).r = r * (directionDeltas[d].r - directionDeltas[d].q) + directionDeltas[d].r
  BY <1>1, CenterIs DEF Offset
<1>3. ASSUME NEW x \in Int, NEW y \in Int, NEW z \in ChunkAt, z.q = x, z.r = y PROVE z = At2(x, y)
  BY <1>3 DEF At2, ChunkAt
<1>4. Offset(r, 0) = At2(2 * r + 1, -r)
  BY <1>2, <1>3, SixSteps DEF At2, Direction
<1>5. Offset(r, 1) = At2(r + 1, -2 * r - 1)
  BY <1>2, <1>3, SixSteps DEF At2, Direction
<1>6. Offset(r, 2) = At2(-r, -r - 1)
  BY <1>2, <1>3, SixSteps DEF At2, Direction
<1>7. Offset(r, 3) = At2(-2 * r - 1, r)
  BY <1>2, <1>3, SixSteps DEF At2, Direction
<1>8. Offset(r, 4) = At2(-r - 1, 2 * r + 1)
  BY <1>2, <1>3, SixSteps DEF At2, Direction
<1>9. Offset(r, 5) = At2(r, r + 1)
  BY <1>2, <1>3, SixSteps DEF At2, Direction
<1> QED
  BY <1>4, <1>5, <1>6, <1>7, <1>8, <1>9

\* A step lands in the neighbouring chunk when it lands near its centre.
LEMMA CrossesNear ==
  ASSUME NEW r \in Nat \ {0}, NEW d \in Direction, NEW c \in LocalCells(r), NEW e \in Direction
  PROVE  LET O == Offset(r, d)  u == directionDeltas[e].q  v == directionDeltas[e].r
         IN  Locate(r, Neighbor(c, e)).chunk = Neighbor(Origin, d) <=>
               /\ c.q + u - O.q <= r /\ -(c.q + u - O.q) <= r
               /\ c.r + v - O.r <= r /\ -(c.r + v - O.r) <= r
               /\ (c.q + u - O.q) + (c.r + v - O.r) <= r /\ -(c.q + u - O.q) - (c.r + v - O.r) <= r
<1> DEFINE O == Offset(r, d)
           u == directionDeltas[e].q
           v == directionDeltas[e].r
           there == Neighbor(Origin, d)
           n == Neighbor(c, e)
<1>1. c \in ChunkAt
  BY DEF LocalCells, ChunkAt
<1>2. Origin \in ChunkAt
  BY DEF Origin, At2, ChunkAt
<1>3. there \in ChunkAt /\ O = Center(r, there) /\ O \in ChunkAt
  BY <1>2, NeighborBack, CenterIs DEF Offset
<1>4. directionDeltas[e] \in ChunkAt
  BY StepsUndo
<1>5. n \in ChunkAt /\ n.q = c.q + u /\ n.r = c.r + v
  BY <1>1, <1>4, PlusIs DEF Neighbor
<1>6. Locate(r, n).chunk = there <=> Distance(n, O) <= r
  <2> HIDE DEF n, there
  <2>1. ASSUME Distance(n, O) <= r PROVE Locate(r, n).chunk = there
    BY <1>3, <1>5, <2>1, LocateIs
  <2>2. ASSUME Locate(r, n).chunk = there PROVE Distance(n, O) <= r
    BY <1>3, <1>5, <2>2, LocateFinds
  <2> QED
    BY <2>1, <2>2
<1>7. Distance(n, O) <= r <=>
         /\ n.q - O.q <= r /\ -(n.q - O.q) <= r
         /\ n.r - O.r <= r /\ -(n.r - O.r) <= r
         /\ (n.q - O.q) + (n.r - O.r) <= r /\ -(n.q - O.q) - (n.r - O.r) <= r
  <2> HIDE DEF n, O
  <2> QED
    BY <1>3, <1>5, NearIs
<1>8. (Locate(r, n).chunk = there) <=>
         /\ c.q + u - O.q <= r /\ -(c.q + u - O.q) <= r
         /\ c.r + v - O.r <= r /\ -(c.r + v - O.r) <= r
         /\ (c.q + u - O.q) + (c.r + v - O.r) <= r /\ -(c.q + u - O.q) - (c.r + v - O.r) <= r
  <2>1. /\ c.q \in Int /\ c.r \in Int /\ O.q \in Int /\ O.r \in Int /\ u \in Int /\ v \in Int
    BY <1>1, <1>3, <1>4 DEF ChunkAt
  <2> HIDE DEF n, O, u, v, there
  <2> QED
    BY <1>5, <1>6, <1>7, <2>1
<1> QED
  BY <1>8, Zenon

\* Which steps those are: one or two out of every cell of the side.
LEMMA CrossesAt ==
  ASSUME NEW r \in Nat \ {0}, NEW d \in Direction, NEW c \in LocalCells(r), NEW e \in Direction
  PROVE  Locate(r, Neighbor(c, e)).chunk = Neighbor(Origin, d) <=>
           \/ e = d /\ \E j \in 0..r : c = SideCell(r, d, j)
           \/ e = (d + 1) % 6 /\ \E j \in 0 .. r - 1 : c = SideCell(r, d, Second(d, j))
<1> DEFINE x == c.q
           y == c.r
           u == directionDeltas[e].q
           v == directionDeltas[e].r
           O == Offset(r, d)
           Lands == Locate(r, Neighbor(c, e)).chunk = Neighbor(Origin, d)
           One == \E j \in 0..r : c = SideCell(r, d, j)
           Two == \E j \in 0 .. r - 1 : c = SideCell(r, d, Second(d, j))
<1>1. /\ x \in Int /\ y \in Int /\ c = At2(x, y)
      /\ x <= r /\ -r <= x /\ y <= r /\ -r <= y /\ x + y <= r /\ -r <= x + y
  BY DEF LocalCells, At2
<1>2. Lands <=>
        /\ x + u - O.q <= r /\ -(x + u - O.q) <= r
        /\ y + v - O.r <= r /\ -(y + v - O.r) <= r
        /\ (x + u - O.q) + (y + v - O.r) <= r /\ -(x + u - O.q) - (y + v - O.r) <= r
  BY CrossesNear
<1>3. \/ (e = 0 /\ u = 1 /\ v = 0)  \/ (e = 1 /\ u = 1 /\ v = -1)
      \/ (e = 2 /\ u = 0 /\ v = -1) \/ (e = 3 /\ u = -1 /\ v = 0)
      \/ (e = 4 /\ u = -1 /\ v = 1) \/ (e = 5 /\ u = 0 /\ v = 1)
  BY SixSteps DEF At2, Direction
<1>4. \A a, b, f, g : At2(a, b) = At2(f, g) <=> a = f /\ b = g
  BY DEF At2
<1>5. /\ Offset(r, 0) = At2(2 * r + 1, -r) /\ Offset(r, 1) = At2(r + 1, -2 * r - 1)
      /\ Offset(r, 2) = At2(-r, -r - 1)    /\ Offset(r, 3) = At2(-2 * r - 1, r)
      /\ Offset(r, 4) = At2(-r - 1, 2 * r + 1) /\ Offset(r, 5) = At2(r, r + 1)
  BY OffsetIs
<1> SUFFICES Lands <=> (e = d /\ One) \/ (e = (d + 1) % 6 /\ Two)
  OBVIOUS
<1>10. CASE d = 0
  <2>1. O.q = 2 * r + 1 /\ O.r = -r
    BY <1>10, <1>5 DEF At2
  <2>2. One <=> x = r /\ -y \in 0..r
    BY <1>1, <1>4, <1>10 DEF SideCell
  <2>3. Two <=> x = r /\ -y \in 0 .. r - 1
    BY <1>1, <1>4, <1>10 DEF SideCell, Second
  <2> HIDE DEF One, Two, Lands, x, y, u, v, O
  <2>4. (d + 1) % 6 = 1
    BY <1>10
  <2> QED
    BY <1>1, <1>2, <1>3, <1>10, <2>1, <2>2, <2>3, <2>4
<1>11. CASE d = 1
  <2>1. O.q = r + 1 /\ O.r = -2 * r - 1
    BY <1>11, <1>5 DEF At2
  <2>2. One <=> y = -r /\ r - x \in 0..r
    BY <1>1, <1>4, <1>11 DEF SideCell
  <2>3. Two <=> y = -r /\ r - x \in 0 .. r - 1
    BY <1>1, <1>4, <1>11 DEF SideCell, Second
  <2> HIDE DEF One, Two, Lands, x, y, u, v, O
  <2>4. (d + 1) % 6 = 2
    BY <1>11
  <2> QED
    BY <1>1, <1>2, <1>3, <1>11, <2>1, <2>2, <2>3, <2>4
<1>12. CASE d = 2
  <2>1. O.q = -r /\ O.r = -r - 1
    BY <1>12, <1>5 DEF At2
  <2>2. One <=> x + y = -r /\ -x \in 0..r
    BY <1>1, <1>4, <1>12 DEF SideCell
  <2>3. Two <=> x + y = -r /\ -x \in 0 .. r - 1
    BY <1>1, <1>4, <1>12 DEF SideCell, Second
  <2> HIDE DEF One, Two, Lands, x, y, u, v, O
  <2>4. (d + 1) % 6 = 3
    BY <1>12
  <2> QED
    BY <1>1, <1>2, <1>3, <1>12, <2>1, <2>2, <2>3, <2>4
<1>13. CASE d = 3
  <2>1. O.q = -2 * r - 1 /\ O.r = r
    BY <1>13, <1>5 DEF At2
  <2>2. One <=> x = -r /\ r - y \in 0..r
    BY <1>1, <1>4, <1>13 DEF SideCell
  <2>3. Two <=> x = -r /\ r - y - 1 \in 0 .. r - 1
    BY <1>1, <1>4, <1>13 DEF SideCell, Second
  <2> HIDE DEF One, Two, Lands, x, y, u, v, O
  <2>4. (d + 1) % 6 = 4
    BY <1>13
  <2>5. Lands <=> /\ x + u + r + 1 <= 0 /\ 0 <= x + u + 3 * r + 1
                  /\ y + v <= 2 * r /\ 0 <= y + v
                  /\ x + u + y + v + 1 <= 0 /\ 0 <= x + u + y + v + 2 * r + 1
    BY <1>1, <1>2, <1>3, <2>1
  <2> QED
    BY <1>1, <1>3, <1>13, <2>2, <2>3, <2>4, <2>5
<1>14. CASE d = 4
  <2>1. O.q = -r - 1 /\ O.r = 2 * r + 1
    BY <1>14, <1>5 DEF At2
  <2>2. One <=> y = r /\ -x \in 0..r
    BY <1>1, <1>4, <1>14 DEF SideCell
  <2>3. Two <=> y = r /\ -x - 1 \in 0 .. r - 1
    BY <1>1, <1>4, <1>14 DEF SideCell, Second
  <2> HIDE DEF One, Two, Lands, x, y, u, v, O
  <2>4. (d + 1) % 6 = 5
    BY <1>14
  <2> QED
    BY <1>1, <1>2, <1>3, <1>14, <2>1, <2>2, <2>3, <2>4
<1>15. CASE d = 5
  <2>1. O.q = r /\ O.r = r + 1
    BY <1>15, <1>5 DEF At2
  <2>2. One <=> x + y = r /\ y \in 0..r
    BY <1>1, <1>4, <1>15 DEF SideCell
  <2>3. Two <=> x + y = r /\ y - 1 \in 0 .. r - 1
    BY <1>1, <1>4, <1>15 DEF SideCell, Second
  <2> HIDE DEF One, Two, Lands, x, y, u, v, O
  <2>4. (d + 1) % 6 = 0
    BY <1>15
  <2> QED
    BY <1>1, <1>2, <1>3, <1>15, <2>1, <2>2, <2>3, <2>4
<1> QED
  BY <1>10, <1>11, <1>12, <1>13, <1>14, <1>15 DEF Direction

\* The one name of a face.
LEMMA FaceIs ==
  ASSUME NEW x \in Int, NEW y \in Int
  PROVE  /\ FaceOf(At2(x, y), 0) = [cell |-> At2(x, y), dir |-> 0]
         /\ FaceOf(At2(x, y), 1) = [cell |-> At2(x, y), dir |-> 1]
         /\ FaceOf(At2(x, y), 2) = [cell |-> At2(x, y), dir |-> 2]
         /\ FaceOf(At2(x, y), 3) = [cell |-> At2(x - 1, y), dir |-> 0]
         /\ FaceOf(At2(x, y), 4) = [cell |-> At2(x - 1, y + 1), dir |-> 1]
         /\ FaceOf(At2(x, y), 5) = [cell |-> At2(x, y + 1), dir |-> 2]
<1>1. /\ Opposite(0) = 3 /\ Opposite(1) = 4 /\ Opposite(2) = 5
      /\ Opposite(3) = 0 /\ Opposite(4) = 1 /\ Opposite(5) = 2
  BY DEF Opposite
<1>2. /\ Neighbor(At2(x, y), 3) = At2(x - 1, y)
      /\ Neighbor(At2(x, y), 4) = At2(x - 1, y + 1)
      /\ Neighbor(At2(x, y), 5) = At2(x, y + 1)
  BY SixSteps DEF Neighbor, Plus, At2
<1> QED
  BY <1>1, <1>2 DEF FaceOf

\* What is defined on 1 to n is a sequence of length n.
LEMMA LengthIs ==
  ASSUME NEW n \in Nat \ {0}, NEW f, f = [i \in 1..n |-> f[i]]
  PROVE  Len(f) = n
<1>1. f \in Seq({f[i] : i \in 1..n})
  <2>1. f \in [1..n -> {f[i] : i \in 1..n}] /\ n \in Nat
    OBVIOUS
  <2> QED
    BY <2>1, SeqDef, Zenon
<1>2. PICK m : m = Len(f)
  OBVIOUS
<1>3. m \in Nat /\ DOMAIN f = 1..m
  BY <1>1, <1>2, LenProperties, Zenon
<1>4. DOMAIN f = 1..n
  OBVIOUS
<1>40. \A x : x \in 1..m <=> x \in 1..n
  BY <1>3, <1>4, Zenon
<1>5. n \in 1..m
  BY <1>40
<1>6. m \in 1..m
  BY <1>3, <1>5
<1>7. m \in 1..n
  BY <1>6, <1>40
<1>8. m = n
  BY <1>3, <1>5, <1>7
<1> QED
  BY <1>2, <1>8

\* A border read off a side: two faces for every cell but the last.
LEMMA CanonicalBorderAt ==
  ASSUME NEW r \in Nat \ {0}, NEW d \in 0..2
  PROVE  /\ Border(r, d) = [i \in 1 .. 2 * r + 1 |-> Border(r, d)[i]]
         /\ \A j \in 0..r : Border(r, d)[2 * j + 1] = FaceOf(SideCell(r, d, j), d)
         /\ \A j \in 0 .. r - 1 : Border(r, d)[2 * j + 2] = FaceOf(SideCell(r, d, j), (d + 1) % 6)
<1> DEFINE cells == canonicalSide(r, d)
           at(i) == FaceOf(cells[r + 1 - (i - 1) \div 2], IF i % 2 = 1 THEN d ELSE (d + 1) % 6)
<1>1. cells = [x \in 1 .. r + 1 |-> cells[x]]
  BY DEF canonicalSide
<1>2. \A j \in 0..r : cells[r + 1 - j] = SideCell(r, d, j)
  <2>1. ASSUME NEW j \in 0..r PROVE cells[r + 1 - j] = SideCell(r, d, j)
    <3>1. r + 1 - j \in 1 .. r + 1 /\ (r + 1 - j) - 1 - r = -j /\ (r + 1 - j) - 1 = r - j
          /\ 1 - (r + 1 - j) = j - r
      OBVIOUS
    <3>2. CASE d = 0
      BY <3>1, <3>2 DEF canonicalSide, SideCell
    <3>3. CASE d = 1
      BY <3>1, <3>3 DEF canonicalSide, SideCell
    <3>4. CASE d = 2
      BY <3>1, <3>4 DEF canonicalSide, SideCell
    <3> QED
      BY <3>2, <3>3, <3>4
  <2> QED
    BY <2>1
<1>3. Len(cells) = r + 1
  <2> HIDE DEF cells
  <2> QED
    BY <1>1, LengthIs
<1>4. Border(r, d) = [i \in 1 .. 2 * r + 1 |-> at(i)]
  <2>1. d <= 2 /\ 2 * (r + 1) - 1 = 2 * r + 1
    OBVIOUS
  <2>2. Border(r, d) = canonicalBorder(cells, d, (d + 1) % 6)
    BY <2>1 DEF Border
  <2> HIDE DEF cells
  <2>3. canonicalBorder(cells, d, (d + 1) % 6) =
          [i \in 1 .. 2 * Len(cells) - 1 |->
             FaceOf(cells[Len(cells) - (i - 1) \div 2], IF i % 2 = 1 THEN d ELSE (d + 1) % 6)]
    BY DEF canonicalBorder
  <2> QED
    BY <1>3, <2>1, <2>2, <2>3
<1>5. ASSUME NEW j \in 0..r PROVE Border(r, d)[2 * j + 1] = FaceOf(SideCell(r, d, j), d)
  <2>1. 2 * j + 1 \in 1 .. 2 * r + 1 /\ ((2 * j + 1) - 1) \div 2 = j /\ (2 * j + 1) % 2 = 1
    OBVIOUS
  <2>2. at(2 * j + 1) = FaceOf(cells[r + 1 - j], d)
    <3> HIDE DEF cells
    <3> QED
      BY <2>1
  <2> HIDE DEF cells, at
  <2> QED
    BY <1>2, <1>4, <2>1, <2>2
<1>6. ASSUME NEW j \in 0 .. r - 1
      PROVE Border(r, d)[2 * j + 2] = FaceOf(SideCell(r, d, j), (d + 1) % 6)
  <2>1. 2 * j + 2 \in 1 .. 2 * r + 1 /\ ((2 * j + 2) - 1) \div 2 = j /\ (2 * j + 2) % 2 = 0
    OBVIOUS
  <2>2. at(2 * j + 2) = FaceOf(cells[r + 1 - j], (d + 1) % 6)
    <3> HIDE DEF cells
    <3> QED
      BY <2>1
  <2> HIDE DEF cells, at
  <2> QED
    BY <1>2, <1>4, <2>1, <2>2
<1> HIDE DEF at
<1> QED
  BY <1>4, <1>5, <1>6

\* The border of any side.
LEMMA BorderAt ==
  ASSUME NEW r \in Nat \ {0}, NEW d \in Direction
  PROVE  /\ Border(r, d) = [i \in 1 .. 2 * r + 1 |-> Border(r, d)[i]]
         /\ \A j \in 0..r : Border(r, d)[2 * j + 1] = FaceOf(SideCell(r, d, j), d)
         /\ \A j \in 0 .. r - 1 :
              Border(r, d)[2 * j + 2] = FaceOf(SideCell(r, d, Second(d, j)), (d + 1) % 6)
<1>1. CASE d \in 0..2
  BY <1>1, CanonicalBorderAt DEF Second
<1>2. CASE d \in 3..5
  <2> DEFINE e == d - 3
             base == Border(r, e)
             O == Offset(r, d)
             Shift(f) == [f EXCEPT !.cell = Plus(@, O)]
  <2>1. e \in 0..2 /\ d \in 3..5 /\ ~(d <= 2) /\ e <= 2 /\ (e + 1) % 6 = d - 2
    BY <1>2
  <2>2. Border(r, d) = [i \in DOMAIN base |-> Shift(base[i])]
    BY <2>1 DEF Border
  <2> HIDE DEF e, base, O
  <2>3. /\ base = [i \in 1 .. 2 * r + 1 |-> base[i]]
        /\ \A j \in 0..r : base[2 * j + 1] = FaceOf(SideCell(r, e, j), e)
        /\ \A j \in 0 .. r - 1 : base[2 * j + 2] = FaceOf(SideCell(r, e, j), (e + 1) % 6)
    BY <2>1, CanonicalBorderAt DEF base
  <2>4. \A i \in 1 .. 2 * r + 1 : Border(r, d)[i] = Shift(base[i])
    BY <2>2, <2>3
  <2>5. Border(r, d) = [i \in 1 .. 2 * r + 1 |-> Border(r, d)[i]]
    BY <2>2, <2>3
  <2>6. \A a, b, k : Shift([cell |-> At2(a, b), dir |-> k]) = [cell |-> At2(a + O.q, b + O.r), dir |-> k]
    BY DEF Plus, At2
  <2>7. /\ d = 3 => O.q = -2 * r - 1 /\ O.r = r
        /\ d = 4 => O.q = -r - 1 /\ O.r = 2 * r + 1
        /\ d = 5 => O.q = r /\ O.r = r + 1
    <3>1. /\ Offset(r, 3) = At2(-2 * r - 1, r) /\ Offset(r, 4) = At2(-r - 1, 2 * r + 1)
          /\ Offset(r, 5) = At2(r, r + 1)
      BY OffsetIs
    <3> QED
      BY <3>1 DEF O, At2
  <2> HIDE DEF Shift
  <2>8. ASSUME NEW j \in 0..r
        PROVE  Shift(FaceOf(SideCell(r, e, j), e)) = FaceOf(SideCell(r, d, j), d)
    <3>1. CASE d = 3
      <4>1. /\ SideCell(r, e, j) = At2(r, -j) /\ e = 0 /\ SideCell(r, d, j) = At2(-r, r - j)
        BY <3>1 DEF SideCell, e
      <4>2. /\ FaceOf(At2(r, -j), 0) = [cell |-> At2(r, -j), dir |-> 0]
            /\ FaceOf(At2(-r, r - j), 3) = [cell |-> At2(-r - 1, r - j), dir |-> 0]
        <5>1. r \in Int /\ -j \in Int /\ -r \in Int /\ r - j \in Int
          OBVIOUS
        <5> QED
          BY <5>1, FaceIs, Zenon
      <4>3. r + (-2 * r - 1) = -r - 1 /\ (-j) + r = r - j
        OBVIOUS
      <4> QED
        BY <2>6, <2>7, <3>1, <4>1, <4>2, <4>3
    <3>2. CASE d = 4
      <4>1. /\ SideCell(r, e, j) = At2(r - j, -r) /\ e = 1 /\ SideCell(r, d, j) = At2(-j, r)
        BY <3>2 DEF SideCell, e
      <4>2. /\ FaceOf(At2(r - j, -r), 1) = [cell |-> At2(r - j, -r), dir |-> 1]
            /\ FaceOf(At2(-j, r), 4) = [cell |-> At2(-j - 1, r + 1), dir |-> 1]
        <5>1. r \in Int /\ r - j \in Int /\ -r \in Int /\ -j \in Int
          OBVIOUS
        <5> QED
          BY <5>1, FaceIs, Zenon
      <4>3. (r - j) + (-r - 1) = -j - 1 /\ (-r) + (2 * r + 1) = r + 1
        OBVIOUS
      <4> QED
        BY <2>6, <2>7, <3>2, <4>1, <4>2, <4>3
    <3>3. CASE d = 5
      <4>1. /\ SideCell(r, e, j) = At2(-j, j - r) /\ e = 2 /\ SideCell(r, d, j) = At2(r - j, j)
        BY <3>3 DEF SideCell, e
      <4>2. /\ FaceOf(At2(-j, j - r), 2) = [cell |-> At2(-j, j - r), dir |-> 2]
            /\ FaceOf(At2(r - j, j), 5) = [cell |-> At2(r - j, j + 1), dir |-> 2]
        <5>1. r \in Int /\ -j \in Int /\ j - r \in Int /\ r - j \in Int /\ j \in Int
          OBVIOUS
        <5> QED
          BY <5>1, FaceIs, Zenon
      <4>3. (-j) + r = r - j /\ (j - r) + (r + 1) = j + 1
        OBVIOUS
      <4> QED
        BY <2>6, <2>7, <3>3, <4>1, <4>2, <4>3
    <3> QED
      BY <2>1, <3>1, <3>2, <3>3
  <2>9. ASSUME NEW j \in 0 .. r - 1
        PROVE  Shift(FaceOf(SideCell(r, e, j), (e + 1) % 6)) = FaceOf(SideCell(r, d, j + 1), (d + 1) % 6)
    <3>1. CASE d = 3
      <4>1. /\ SideCell(r, e, j) = At2(r, -j) /\ (e + 1) % 6 = 1 /\ (d + 1) % 6 = 4
            /\ SideCell(r, d, j + 1) = At2(-r, r - j - 1)
        BY <3>1 DEF SideCell, e
      <4>2. /\ FaceOf(At2(r, -j), 1) = [cell |-> At2(r, -j), dir |-> 1]
            /\ FaceOf(At2(-r, r - j - 1), 4) = [cell |-> At2(-r - 1, r - j - 1 + 1), dir |-> 1]
        <5>1. r \in Int /\ -j \in Int /\ -r \in Int /\ r - j - 1 \in Int
          OBVIOUS
        <5> QED
          BY <5>1, FaceIs, Zenon
      <4>3. r + (-2 * r - 1) = -r - 1 /\ (-j) + r = r - j - 1 + 1
        OBVIOUS
      <4> QED
        BY <2>6, <2>7, <3>1, <4>1, <4>2, <4>3
    <3>2. CASE d = 4
      <4>1. /\ SideCell(r, e, j) = At2(r - j, -r) /\ (e + 1) % 6 = 2 /\ (d + 1) % 6 = 5
            /\ SideCell(r, d, j + 1) = At2(-j - 1, r)
        <5>1. r \in Int /\ -(j + 1) = -j - 1
          OBVIOUS
        <5> QED
          BY <3>2, <5>1 DEF SideCell, e
      <4>2. /\ FaceOf(At2(r - j, -r), 2) = [cell |-> At2(r - j, -r), dir |-> 2]
            /\ FaceOf(At2(-j - 1, r), 5) = [cell |-> At2(-j - 1, r + 1), dir |-> 2]
        <5>1. r \in Int /\ r - j \in Int /\ -r \in Int /\ -j - 1 \in Int
          OBVIOUS
        <5> QED
          BY <5>1, FaceIs, Zenon
      <4>3. (r - j) + (-r - 1) = -j - 1 /\ (-r) + (2 * r + 1) = r + 1
        OBVIOUS
      <4> QED
        BY <2>6, <2>7, <3>2, <4>1, <4>2, <4>3
    <3>3. CASE d = 5
      <4>1. /\ SideCell(r, e, j) = At2(-j, j - r) /\ (e + 1) % 6 = 3 /\ (d + 1) % 6 = 0
            /\ SideCell(r, d, j + 1) = At2(r - j - 1, j + 1)
        BY <3>3 DEF SideCell, e
      <4>2. /\ FaceOf(At2(-j, j - r), 3) = [cell |-> At2(-j - 1, j - r), dir |-> 0]
            /\ FaceOf(At2(r - j - 1, j + 1), 0) = [cell |-> At2(r - j - 1, j + 1), dir |-> 0]
        <5>1. r \in Int /\ -j \in Int /\ j - r \in Int /\ r - j - 1 \in Int /\ j + 1 \in Int
          OBVIOUS
        <5> QED
          BY <5>1, FaceIs, Zenon
      <4>3. (-j - 1) + r = r - j - 1 /\ (j - r) + (r + 1) = j + 1
        OBVIOUS
      <4> QED
        BY <2>6, <2>7, <3>3, <4>1, <4>2, <4>3
    <3> QED
      BY <2>1, <3>1, <3>2, <3>3
  <2>10. ASSUME NEW j \in 0..r PROVE Border(r, d)[2 * j + 1] = FaceOf(SideCell(r, d, j), d)
    <3>1. 2 * j + 1 \in 1 .. 2 * r + 1
      OBVIOUS
    <3> QED
      BY <2>3, <2>4, <2>8, <3>1
  <2>11. ASSUME NEW j \in 0 .. r - 1
         PROVE Border(r, d)[2 * j + 2] = FaceOf(SideCell(r, d, Second(d, j)), (d + 1) % 6)
    <3>1. 2 * j + 2 \in 1 .. 2 * r + 1 /\ Second(d, j) = j + 1
      BY <2>1 DEF Second
    <3> QED
      BY <2>3, <2>4, <2>9, <3>1
  <2> QED
    BY <2>5, <2>10, <2>11
<1> QED
  BY <1>1, <1>2 DEF Direction

LEMMA SideCellIsLocal ==
  ASSUME NEW r \in Nat \ {0}, NEW d \in Direction, NEW j \in 0..r
  PROVE  SideCell(r, d, j) \in LocalCells(r)
<1>1. /\ SideCell(r, 0, j) = At2(r, -j)     /\ SideCell(r, 1, j) = At2(r - j, -r)
      /\ SideCell(r, 2, j) = At2(-j, j - r) /\ SideCell(r, 3, j) = At2(-r, r - j)
      /\ SideCell(r, 4, j) = At2(-j, r)     /\ SideCell(r, 5, j) = At2(r - j, j)
  BY SideCellIs
<1>2. \A x, y \in -r..r : x + y \in -r..r => At2(x, y) \in LocalCells(r)
  BY DEF LocalCells, At2
<1>3. /\ r \in -r..r /\ -r \in -r..r /\ -j \in -r..r /\ j \in -r..r /\ r - j \in -r..r /\ j - r \in -r..r
      /\ r + -j \in -r..r /\ (r - j) + -r \in -r..r /\ -j + (j - r) \in -r..r
      /\ -r + (r - j) \in -r..r /\ -j + r \in -r..r /\ (r - j) + j \in -r..r
  OBVIOUS
<1>4. /\ At2(r, -j) \in LocalCells(r) /\ At2(r - j, -r) \in LocalCells(r)
      /\ At2(-j, j - r) \in LocalCells(r) /\ At2(-r, r - j) \in LocalCells(r)
      /\ At2(-j, r) \in LocalCells(r) /\ At2(r - j, j) \in LocalCells(r)
  BY <1>2, <1>3
<1>5. d \in {0, 1, 2, 3, 4, 5}
  BY DEF Direction
<1> QED
  BY <1>1, <1>4, <1>5

\* The border is made of the faces between the two chunks.
LEMMA BorderIsCrossings ==
  ASSUME NEW r \in Nat \ {0}, NEW d \in Direction
  PROVE  Range(Border(r, d)) = {FaceOf(ce[1], ce[2]) : ce \in Crossings(r, d)}
<1> DEFINE b == Border(r, d)
           next == (d + 1) % 6
<1>1. b = [i \in 1 .. 2 * r + 1 |-> b[i]]
  BY BorderAt, Zenon
<1>2. \A j \in 0..r : b[2 * j + 1] = FaceOf(SideCell(r, d, j), d)
  BY BorderAt, Zenon
<1>3. \A j \in 0 .. r - 1 : b[2 * j + 2] = FaceOf(SideCell(r, d, Second(d, j)), next)
  BY BorderAt, Zenon
<1>4. next \in Direction
  BY DEF Direction
<1>5. \A j \in 0 .. r - 1 : Second(d, j) \in 0..r
  BY DEF Second, Direction
<1>6. ASSUME NEW c \in LocalCells(r), NEW e \in Direction
      PROVE  <<c, e>> \in Crossings(r, d) <=>
               \/ e = d /\ \E j \in 0..r : c = SideCell(r, d, j)
               \/ e = next /\ \E j \in 0 .. r - 1 : c = SideCell(r, d, Second(d, j))
  <2>1. <<c, e>> \in Crossings(r, d) <=> Locate(r, Neighbor(c, e)).chunk = Neighbor(Origin, d)
    BY DEF Crossings
  <2>2. Locate(r, Neighbor(c, e)).chunk = Neighbor(Origin, d) <=>
          \/ e = d /\ \E j \in 0..r : c = SideCell(r, d, j)
          \/ e = (d + 1) % 6 /\ \E j \in 0 .. r - 1 : c = SideCell(r, d, Second(d, j))
    BY CrossesAt
  <2> QED
    BY <2>1, <2>2
<1> HIDE DEF b, next
<1>7. ASSUME NEW i \in 1 .. 2 * r + 1
      PROVE  \E ce \in Crossings(r, d) : b[i] = FaceOf(ce[1], ce[2])
  <2>1. CASE i % 2 = 1
    <3>1. PICK j \in 0..r : i = 2 * j + 1
      <4>1. (i - 1) \div 2 \in 0..r /\ i = 2 * ((i - 1) \div 2) + 1
        BY <2>1
      <4> QED
        BY <4>1
    <3>2. SideCell(r, d, j) \in LocalCells(r)
      BY SideCellIsLocal
    <3>3. <<SideCell(r, d, j), d>> \in Crossings(r, d)
      BY <1>6, <3>2
    <3> QED
      BY <1>2, <3>1, <3>3
  <2>2. CASE i % 2 # 1
    <3>1. PICK j \in 0 .. r - 1 : i = 2 * j + 2
      <4>1. (i - 2) \div 2 \in 0 .. r - 1 /\ i = 2 * ((i - 2) \div 2) + 2
        BY <2>2
      <4> QED
        BY <4>1
    <3>2. SideCell(r, d, Second(d, j)) \in LocalCells(r)
      BY <1>5, SideCellIsLocal
    <3>3. <<SideCell(r, d, Second(d, j)), next>> \in Crossings(r, d)
      BY <1>4, <1>6, <3>2
    <3> QED
      BY <1>3, <3>1, <3>3
  <2> QED
    BY <2>1, <2>2
<1>8. ASSUME NEW ce \in Crossings(r, d)
      PROVE  \E i \in 1 .. 2 * r + 1 : b[i] = FaceOf(ce[1], ce[2])
  <2>1. ce[1] \in LocalCells(r) /\ ce[2] \in Direction /\ ce = <<ce[1], ce[2]>>
    BY DEF Crossings
  <2>2. \/ ce[2] = d /\ \E j \in 0..r : ce[1] = SideCell(r, d, j)
        \/ ce[2] = next /\ \E j \in 0 .. r - 1 : ce[1] = SideCell(r, d, Second(d, j))
    BY <1>6, <2>1
  <2>3. ASSUME ce[2] = d, NEW j \in 0..r, ce[1] = SideCell(r, d, j)
        PROVE  \E i \in 1 .. 2 * r + 1 : b[i] = FaceOf(ce[1], ce[2])
    <3>1. 2 * j + 1 \in 1 .. 2 * r + 1
      OBVIOUS
    <3> QED
      BY <1>2, <2>3, <3>1
  <2>4. ASSUME ce[2] = next, NEW j \in 0 .. r - 1, ce[1] = SideCell(r, d, Second(d, j))
        PROVE  \E i \in 1 .. 2 * r + 1 : b[i] = FaceOf(ce[1], ce[2])
    <3>1. 2 * j + 2 \in 1 .. 2 * r + 1
      OBVIOUS
    <3> QED
      BY <1>3, <2>4, <3>1
  <2> QED
    BY <2>2, <2>3, <2>4
<1>9. Range(b) = {b[i] : i \in 1 .. 2 * r + 1}
  BY <1>1 DEF Range
<1> QED
  BY <1>7, <1>8, <1>9 DEF b

\* A face is between a cell and the one it looks at, whichever names it.
LEMMA FaceCellsAre ==
  ASSUME NEW c \in ChunkAt, NEW e \in Direction
  PROVE  FaceCells(FaceOf(c, e)) = {c, Neighbor(c, e)}
<1>1. CASE e < Opposite(e)
  BY <1>1 DEF FaceOf, FaceCells
<1>2. CASE ~(e < Opposite(e))
  <2>1. FaceOf(c, e) = [cell |-> Neighbor(c, e), dir |-> Opposite(e)]
    BY <1>2 DEF FaceOf
  <2>2. FaceCells(FaceOf(c, e)) = {Neighbor(c, e), Neighbor(Neighbor(c, e), Opposite(e))}
    BY <2>1 DEF FaceCells
  <2>3. Neighbor(Neighbor(c, e), Opposite(e)) = c
    BY NeighborBack
  <2> QED
    BY <2>2, <2>3
<1> QED
  BY <1>1, <1>2

LEMMA ThreeOf ==
  ASSUME NEW a, NEW b, NEW c, a # b, a # c, b # c
  PROVE  Cardinality({a, b, c}) = 3
<1>1. IsFiniteSet({a}) /\ Cardinality({a}) = 1
  BY FS_Singleton
<1>2. IsFiniteSet({a} \cup {b}) /\ Cardinality({a} \cup {b}) = 2
  BY <1>1, FS_AddElement
<1>3. Cardinality(({a} \cup {b}) \cup {c}) = 3
  BY <1>2, FS_AddElement
<1>4. ({a} \cup {b}) \cup {c} = {a, b, c}
  OBVIOUS
<1> QED
  BY <1>3, <1>4

\* Two steps that are next to each other: the faces they cross, from one cell or
\* into one cell, meet.
LEMMA TurnsMeet ==
  ASSUME NEW c \in ChunkAt, NEW d \in Direction
  PROVE  LET e == (d + 1) % 6  n == Neighbor(c, (d + 2) % 6)
         IN  /\ n \in ChunkAt
             /\ Cardinality({c, Neighbor(c, d)} \cup {c, Neighbor(c, e)}) = 3
             /\ Neighbor(c, e) = Neighbor(n, d)
             /\ Cardinality({c, Neighbor(c, e)} \cup {n, Neighbor(n, d)}) = 3
<1> DEFINE e == (d + 1) % 6
           f == (d + 2) % 6
           n == Neighbor(c, f)
           D == directionDeltas[d]
           E == directionDeltas[e]
           F == directionDeltas[f]
<1>1. e \in Direction /\ f \in Direction
  BY DEF Direction
<1>2. /\ D.q \in Int /\ D.r \in Int /\ E.q = D.q + F.q /\ E.r = D.r + F.r
      /\ F.q \in Int /\ F.r \in Int /\ E.q \in Int /\ E.r \in Int
      /\ (D.q # 0 \/ D.r # 0) /\ (E.q # 0 \/ E.r # 0) /\ (F.q # 0 \/ F.r # 0)
  <2>1. d = 0 => e = 1 /\ f = 2
    OBVIOUS
  <2>2. d = 1 => e = 2 /\ f = 3
    OBVIOUS
  <2>3. d = 2 => e = 3 /\ f = 4
    OBVIOUS
  <2>4. d = 3 => e = 4 /\ f = 5
    OBVIOUS
  <2>5. d = 4 => e = 5 /\ f = 0
    OBVIOUS
  <2>6. d = 5 => e = 0 /\ f = 1
    OBVIOUS
  <2> HIDE DEF e, f
  <2> QED
    BY <2>1, <2>2, <2>3, <2>4, <2>5, <2>6, SixSteps DEF Direction, At2
<1>3. c.q \in Int /\ c.r \in Int
  BY DEF ChunkAt
<1>4. \A x, y : At2(x, y).q = x /\ At2(x, y).r = y
  BY DEF At2
<1>5. /\ Neighbor(c, d) = At2(c.q + D.q, c.r + D.r) /\ Neighbor(c, e) = At2(c.q + E.q, c.r + E.r)
      /\ n = At2(c.q + F.q, c.r + F.r)
  BY DEF Neighbor, Plus
<1>6. n \in ChunkAt
  BY <1>1, NeighborBack
<1>7. Neighbor(n, d) = At2(n.q + D.q, n.r + D.r)
  BY DEF Neighbor, Plus
<1> HIDE DEF e, f, n, D, E, F
<1>8. n.q = c.q + F.q /\ n.r = c.r + F.r
  BY <1>4, <1>5
<1>9. Neighbor(c, e) = Neighbor(n, d)
  <2>1. n.q + D.q = c.q + E.q /\ n.r + D.r = c.r + E.r
    BY <1>2, <1>3, <1>8
  <2> QED
    BY <1>5, <1>7, <2>1
<1>10. /\ Neighbor(c, d) # c /\ Neighbor(c, e) # c /\ Neighbor(c, d) # Neighbor(c, e)
       /\ n # c /\ Neighbor(c, e) # n
  <2>1. /\ Neighbor(c, d).q = c.q + D.q /\ Neighbor(c, d).r = c.r + D.r
        /\ Neighbor(c, e).q = c.q + E.q /\ Neighbor(c, e).r = c.r + E.r
    BY <1>4, <1>5
  <2> QED
    BY <1>2, <1>3, <1>8, <2>1
<1>11. Cardinality({c, Neighbor(c, d)} \cup {c, Neighbor(c, e)}) = 3
  <2>1. {c, Neighbor(c, d)} \cup {c, Neighbor(c, e)} = {c, Neighbor(c, d), Neighbor(c, e)}
    OBVIOUS
  <2>2. Cardinality({c, Neighbor(c, d), Neighbor(c, e)}) = 3
    BY <1>10, ThreeOf
  <2> QED
    BY <2>1, <2>2
<1>12. Cardinality({c, Neighbor(c, e)} \cup {n, Neighbor(n, d)}) = 3
  <2>1. {c, Neighbor(c, e)} \cup {n, Neighbor(n, d)} = {c, Neighbor(c, e), n}
    BY <1>9
  <2>2. Cardinality({c, Neighbor(c, e), n}) = 3
    BY <1>10, ThreeOf
  <2> QED
    BY <2>1, <2>2
<1> QED
  BY <1>6, <1>9, <1>11, <1>12 DEF e, f, n

\* The second face goes into the same cell as, or out of the same cell as, the
\* faces before and after it.
LEMMA SideTurns ==
  ASSUME NEW r \in Nat \ {0}, NEW d \in Direction, NEW j \in 0 .. r - 1
  PROVE  LET c == SideCell(r, d, Second(d, j))  n == SideCell(r, d, IF d <= 2 THEN j + 1 ELSE j)
         IN  n = Neighbor(c, (d + 2) % 6)
<1>1. j \in 0..r /\ j + 1 \in 0..r
  OBVIOUS
<1>2. /\ SideCell(r, 0, j) = At2(r, -j)     /\ SideCell(r, 1, j) = At2(r - j, -r)
      /\ SideCell(r, 2, j) = At2(-j, j - r) /\ SideCell(r, 3, j) = At2(-r, r - j)
      /\ SideCell(r, 4, j) = At2(-j, r)     /\ SideCell(r, 5, j) = At2(r - j, j)
  BY <1>1, SideCellIs
<1>3. /\ SideCell(r, 0, j + 1) = At2(r, -j - 1)         /\ SideCell(r, 1, j + 1) = At2(r - j - 1, -r)
      /\ SideCell(r, 2, j + 1) = At2(-j - 1, j + 1 - r) /\ SideCell(r, 3, j + 1) = At2(-r, r - j - 1)
      /\ SideCell(r, 4, j + 1) = At2(-j - 1, r)         /\ SideCell(r, 5, j + 1) = At2(r - j - 1, j + 1)
  <2>1. -(j + 1) = -j - 1 /\ r - (j + 1) = r - j - 1
    OBVIOUS
  <2> QED
    BY <1>1, <2>1, SideCellIs
<1>4. \A x, y \in Int :
        /\ Neighbor(At2(x, y), 0) = At2(x + 1, y) /\ Neighbor(At2(x, y), 1) = At2(x + 1, y - 1)
        /\ Neighbor(At2(x, y), 2) = At2(x, y - 1) /\ Neighbor(At2(x, y), 3) = At2(x - 1, y)
        /\ Neighbor(At2(x, y), 4) = At2(x - 1, y + 1) /\ Neighbor(At2(x, y), 5) = At2(x, y + 1)
  BY SixSteps DEF Neighbor, Plus, At2
<1>5. r \in Int /\ -r \in Int /\ -j \in Int /\ j + 1 \in Int /\ r - j \in Int /\ j - r \in Int
      /\ r - j - 1 \in Int /\ -j - 1 \in Int
  OBVIOUS
<1>6. /\ Neighbor(At2(r, -j), 2) = At2(r, -j - 1) /\ Neighbor(At2(r - j, -r), 3) = At2(r - j - 1, -r)
      /\ Neighbor(At2(-j, j - r), 4) = At2(-j - 1, j - r + 1)
      /\ Neighbor(At2(-r, r - j - 1), 5) = At2(-r, r - j - 1 + 1)
      /\ Neighbor(At2(-j - 1, r), 0) = At2(-j - 1 + 1, r)
      /\ Neighbor(At2(r - j - 1, j + 1), 1) = At2(r - j - 1 + 1, j + 1 - 1)
  <2>1. Neighbor(At2(r, -j), 2) = At2(r, -j - 1)
    BY <1>4, <1>5, Zenon
  <2>2. Neighbor(At2(r - j, -r), 3) = At2(r - j - 1, -r)
    BY <1>4, <1>5, Zenon
  <2>3. Neighbor(At2(-j, j - r), 4) = At2(-j - 1, j - r + 1)
    BY <1>4, <1>5, Zenon
  <2>4. Neighbor(At2(-r, r - j - 1), 5) = At2(-r, r - j - 1 + 1)
    BY <1>4, <1>5, Zenon
  <2>5. Neighbor(At2(-j - 1, r), 0) = At2(-j - 1 + 1, r)
    BY <1>4, <1>5, Zenon
  <2>6. Neighbor(At2(r - j - 1, j + 1), 1) = At2(r - j - 1 + 1, j + 1 - 1)
    BY SixSteps DEF Neighbor, Plus, At2
  <2> QED
    BY <2>1, <2>2, <2>3, <2>4, <2>5, <2>6
<1>7. j - r + 1 = j + 1 - r /\ r - j - 1 + 1 = r - j /\ -j - 1 + 1 = -j /\ j + 1 - 1 = j
  OBVIOUS
<1>8. d \in 0..5
  BY DEF Direction
<1>9. CASE d \in 0..2
  <2>1. Second(d, j) = j /\ (IF d <= 2 THEN j + 1 ELSE j) = j + 1
    BY <1>9 DEF Second
  <2>2. /\ d = 0 => (d + 2) % 6 = 2
        /\ d = 1 => (d + 2) % 6 = 3
        /\ d = 2 => (d + 2) % 6 = 4
    OBVIOUS
  <2> QED
    BY <1>2, <1>3, <1>6, <1>7, <1>9, <2>1, <2>2
<1>10. CASE d \in 3..5
  <2>1. Second(d, j) = j + 1 /\ (IF d <= 2 THEN j + 1 ELSE j) = j
    BY <1>10 DEF Second
  <2>2. /\ d = 3 => (d + 2) % 6 = 5
        /\ d = 4 => (d + 2) % 6 = 0
        /\ d = 5 => (d + 2) % 6 = 1
    OBVIOUS
  <2> QED
    BY <1>2, <1>3, <1>6, <1>7, <1>10, <2>1, <2>2
<1> QED
  BY <1>8, <1>9, <1>10

\* Consecutive faces of a border meet: they have a cell in common.
LEMMA BorderMeets ==
  ASSUME NEW r \in Nat \ {0}, NEW d \in Direction, NEW i \in 1 .. 2 * r
  PROVE  Cardinality(FaceCells(Border(r, d)[i]) \cup FaceCells(Border(r, d)[i + 1])) = 3
<1> DEFINE b == Border(r, d)
           e == (d + 1) % 6
           S(j) == SideCell(r, d, j)
<1>1. \A j \in 0..r : b[2 * j + 1] = FaceOf(S(j), d)
  BY BorderAt, Zenon
<1>2. \A j \in 0 .. r - 1 : b[2 * j + 2] = FaceOf(S(Second(d, j)), e)
  BY BorderAt, Zenon
<1>3. \A j \in 0..r : S(j) \in ChunkAt
  BY SideCellIsLocal DEF LocalCells, ChunkAt
<1>4. e \in Direction
  BY DEF Direction
<1>5. PICK j \in 0 .. r - 1 : i = 2 * j + 1 \/ i = 2 * j + 2
  <2>1. (i - 1) \div 2 \in 0 .. r - 1
        /\ (i = 2 * ((i - 1) \div 2) + 1 \/ i = 2 * ((i - 1) \div 2) + 2)
    OBVIOUS
  <2> QED
    BY <2>1
<1>6. j \in 0..r /\ j + 1 \in 0..r /\ Second(d, j) \in 0..r
  BY DEF Second
<1> DEFINE c == S(Second(d, j))
           n == S(IF d <= 2 THEN j + 1 ELSE j)
<1>7. n = Neighbor(c, (d + 2) % 6)
  BY SideTurns
<1>8. c \in ChunkAt
  BY <1>3, <1>6
<1>9. /\ n \in ChunkAt
      /\ Cardinality({c, Neighbor(c, d)} \cup {c, Neighbor(c, e)}) = 3
      /\ Cardinality({c, Neighbor(c, e)} \cup {n, Neighbor(n, d)}) = 3
  <2> HIDE DEF c, n
  <2> QED
    BY <1>7, <1>8, TurnsMeet
<1>10. FaceCells(b[2 * j + 2]) = {c, Neighbor(c, e)}
  BY <1>2, <1>4, <1>8, FaceCellsAre
<1>11. /\ FaceCells(b[2 * j + 1]) = {S(j), Neighbor(S(j), d)}
       /\ FaceCells(b[2 * j + 3]) = {S(j + 1), Neighbor(S(j + 1), d)}
  <2>1. b[2 * j + 1] = FaceOf(S(j), d) /\ S(j) \in ChunkAt /\ S(j + 1) \in ChunkAt
    BY <1>1, <1>3, <1>6
  <2>2. b[2 * j + 3] = FaceOf(S(j + 1), d)
    <3>1. 2 * (j + 1) + 1 = 2 * j + 3
      OBVIOUS
    <3>2. b[2 * (j + 1) + 1] = FaceOf(S(j + 1), d)
      BY <1>1, <1>6
    <3> QED
      BY <3>1, <3>2
  <2> HIDE DEF b, S
  <2> QED
    BY <2>1, <2>2, FaceCellsAre
<1>12. \/ S(j) = c /\ S(j + 1) = n
       \/ S(j) = n /\ S(j + 1) = c
  BY DEF Second
<1>13. /\ i = 2 * j + 1 => i + 1 = 2 * j + 2
       /\ i = 2 * j + 2 => i + 1 = 2 * j + 3
  OBVIOUS
<1>14. \A a, x, y, z : {a, x} \cup {y, z} = {y, z} \cup {a, x}
  OBVIOUS
<1> HIDE DEF b, S, c, n, e
<1>15. Cardinality(FaceCells(b[2 * j + 1]) \cup FaceCells(b[2 * j + 2])) = 3
  BY <1>9, <1>10, <1>11, <1>12, <1>14
<1>16. Cardinality(FaceCells(b[2 * j + 2]) \cup FaceCells(b[2 * j + 3])) = 3
  BY <1>9, <1>10, <1>11, <1>12, <1>14
<1>17. Cardinality(FaceCells(b[i]) \cup FaceCells(b[i + 1])) = 3
  BY <1>5, <1>13, <1>15, <1>16
<1> QED
  BY <1>17 DEF b

\* Every face of a border is of a cell of the lattice.
LEMMA BorderIsFaces ==
  ASSUME NEW r \in Nat \ {0}, NEW d \in Direction, NEW i \in 1 .. 2 * r + 1
  PROVE  Border(r, d)[i] \in [cell : ChunkAt, dir : Direction]
<1>1. PICK ce \in Crossings(r, d) : Border(r, d)[i] = FaceOf(ce[1], ce[2])
  <2>1. Border(r, d) = [x \in 1 .. 2 * r + 1 |-> Border(r, d)[x]]
    BY BorderAt, Zenon
  <2>2. Border(r, d)[i] \in Range(Border(r, d))
    BY <2>1 DEF Range
  <2>3. Range(Border(r, d)) = {FaceOf(ce[1], ce[2]) : ce \in Crossings(r, d)}
    BY BorderIsCrossings
  <2> QED
    BY <2>2, <2>3
<1>2. ce[1] \in ChunkAt /\ ce[2] \in Direction
  BY DEF Crossings, LocalCells, ChunkAt
<1>3. Neighbor(ce[1], ce[2]) \in ChunkAt /\ Opposite(ce[2]) \in Direction
  BY <1>2, NeighborBack, StepsUndo
<1> QED
  BY <1>1, <1>2, <1>3 DEF FaceOf

\* No two places of a side, and no two faces, have one name.
LEMMA BorderNamesOnce ==
  ASSUME NEW r \in Nat \ {0}, NEW d \in Direction,
         NEW i \in 1 .. 2 * r + 1, NEW k \in 1 .. 2 * r + 1, Border(r, d)[i] = Border(r, d)[k]
  PROVE  i = k
<1> DEFINE b == Border(r, d)
           e == (d + 1) % 6
           S(j) == SideCell(r, d, j)
<1>1. \A j \in 0..r : b[2 * j + 1] = FaceOf(S(j), d)
  BY BorderAt, Zenon
<1>2. \A j \in 0 .. r - 1 : b[2 * j + 2] = FaceOf(S(Second(d, j)), e)
  BY BorderAt, Zenon
<1>3. \A j \in 0..r : S(j) \in ChunkAt
  BY SideCellIsLocal DEF LocalCells, ChunkAt
<1>4. e \in Direction /\ e % 3 # d % 3
  BY DEF Direction
<1>5. \A j \in 0 .. r - 1 : Second(d, j) \in 0..r
  BY DEF Second
<1>6. ASSUME NEW c \in ChunkAt, NEW f \in Direction
      PROVE  /\ FaceOf(c, f).dir = f % 3
             /\ FaceOf(c, f).cell \in {c, Neighbor(c, f)}
             /\ f <= 2 => FaceOf(c, f).cell = c
             /\ f > 2 => FaceOf(c, f).cell = Neighbor(c, f)
  <2>1. CASE f \in 0..2
    <3>1. f < Opposite(f) /\ f % 3 = f /\ ~(f > 2)
      BY <2>1 DEF Opposite
    <3> QED
      BY <3>1 DEF FaceOf
  <2>2. CASE f \in 3..5
    <3>1. ~(f < Opposite(f)) /\ Opposite(f) = f % 3 /\ ~(f <= 2)
      BY <2>2 DEF Opposite
    <3> QED
      BY <3>1 DEF FaceOf
  <2> QED
    BY <2>1, <2>2 DEF Direction
<1>7. ASSUME NEW c \in ChunkAt, NEW n \in ChunkAt, NEW f \in Direction, FaceOf(c, f) = FaceOf(n, f)
      PROVE  c = n
  <2>1. CASE f <= 2
    BY <1>6, <1>7, <2>1
  <2>2. CASE f > 2
    <3>1. Neighbor(c, f) = Neighbor(n, f)
      BY <1>6, <1>7, <2>2
    <3> QED
      BY <3>1, NeighborBack
  <2> QED
    BY <2>1, <2>2 DEF Direction
<1>8. ASSUME NEW j \in 0..r, NEW m \in 0..r, S(j) = S(m) PROVE j = m
  <2>1. /\ SideCell(r, 0, j) = At2(r, -j)     /\ SideCell(r, 1, j) = At2(r - j, -r)
        /\ SideCell(r, 2, j) = At2(-j, j - r) /\ SideCell(r, 3, j) = At2(-r, r - j)
        /\ SideCell(r, 4, j) = At2(-j, r)     /\ SideCell(r, 5, j) = At2(r - j, j)
    BY SideCellIs
  <2>2. /\ SideCell(r, 0, m) = At2(r, -m)     /\ SideCell(r, 1, m) = At2(r - m, -r)
        /\ SideCell(r, 2, m) = At2(-m, m - r) /\ SideCell(r, 3, m) = At2(-r, r - m)
        /\ SideCell(r, 4, m) = At2(-m, r)     /\ SideCell(r, 5, m) = At2(r - m, m)
    BY SideCellIs
  <2>3. \A x, y, z, w : At2(x, y) = At2(z, w) => x = z /\ y = w
    BY DEF At2
  <2> QED
    BY <1>8, <2>1, <2>2, <2>3 DEF Direction
<1>9. \A m \in 1 .. 2 * r + 1 : \/ \E j \in 0..r : m = 2 * j + 1
                               \/ \E j \in 0 .. r - 1 : m = 2 * j + 2
  <2> SUFFICES ASSUME NEW m \in 1 .. 2 * r + 1
               PROVE \/ \E j \in 0..r : m = 2 * j + 1
                     \/ \E j \in 0 .. r - 1 : m = 2 * j + 2
    OBVIOUS
  <2>1. \/ (m - 1) \div 2 \in 0..r /\ m = 2 * ((m - 1) \div 2) + 1
        \/ (m - 2) \div 2 \in 0 .. r - 1 /\ m = 2 * ((m - 2) \div 2) + 2
    OBVIOUS
  <2> QED
    BY <2>1
<1>10. b[i] = b[k]
  OBVIOUS
<1> HIDE DEF b, e, S
<1>11. ASSUME NEW j \in 0..r, NEW m \in 0 .. r - 1 PROVE b[2 * j + 1] # b[2 * m + 2]
  <2>1. b[2 * j + 1] = FaceOf(S(j), d) /\ S(j) \in ChunkAt
    BY <1>1, <1>3
  <2>2. b[2 * m + 2] = FaceOf(S(Second(d, m)), e) /\ S(Second(d, m)) \in ChunkAt
    BY <1>2, <1>3, <1>5
  <2>3. FaceOf(S(j), d).dir = d % 3 /\ FaceOf(S(Second(d, m)), e).dir = e % 3
    BY <1>4, <1>6, <2>1, <2>2, Zenon
  <2> QED
    BY <1>4, <2>1, <2>2, <2>3, Zenon
<1>12. ASSUME NEW j \in 0..r, NEW m \in 0..r, b[2 * j + 1] = b[2 * m + 1] PROVE j = m
  BY <1>1, <1>3, <1>7, <1>8, <1>12
<1>13. ASSUME NEW j \in 0 .. r - 1, NEW m \in 0 .. r - 1, b[2 * j + 2] = b[2 * m + 2] PROVE j = m
  <2>1. S(Second(d, j)) = S(Second(d, m))
    BY <1>2, <1>3, <1>4, <1>5, <1>7, <1>13
  <2>2. Second(d, j) = Second(d, m)
    BY <1>5, <1>8, <2>1
  <2> QED
    BY <2>2 DEF Second
<1>14. ASSUME NEW j \in 0..r, i = 2 * j + 1 PROVE i = k
  <2>1. ASSUME NEW m \in 0..r, k = 2 * m + 1 PROVE i = k
    BY <1>10, <1>12, <1>14, <2>1
  <2>2. ASSUME NEW m \in 0 .. r - 1, k = 2 * m + 2 PROVE i = k
    BY <1>10, <1>11, <1>14, <2>2
  <2> QED
    BY <1>9, <2>1, <2>2
<1>15. ASSUME NEW j \in 0 .. r - 1, i = 2 * j + 2 PROVE i = k
  <2>1. ASSUME NEW m \in 0..r, k = 2 * m + 1 PROVE i = k
    BY <1>10, <1>11, <1>15, <2>1
  <2>2. ASSUME NEW m \in 0 .. r - 1, k = 2 * m + 2 PROVE i = k
    BY <1>10, <1>13, <1>15, <2>2
  <2> QED
    BY <1>9, <2>1, <2>2
<1> QED
  BY <1>9, <1>14, <1>15

\* The neighbour's centre is an offset away, and back again.
LEMMA CenterStep ==
  ASSUME NEW r \in Nat \ {0}, NEW here \in ChunkAt, NEW d \in Direction
  PROVE  LET C == Center(r, here)  D == Center(r, Neighbor(here, d))
             O == Offset(r, d)     P == Offset(r, Opposite(d))
         IN  /\ {C.q, C.r, D.q, D.r, O.q, O.r, P.q, P.r} \subseteq Int
             /\ D.q = C.q + O.q /\ D.r = C.r + O.r
             /\ P.q = -O.q /\ P.r = -O.r
<1> DEFINE C == Center(r, here)
           D == Center(r, Neighbor(here, d))
           O == Offset(r, d)
           P == Offset(r, Opposite(d))
           x == directionDeltas[d].q
           y == directionDeltas[d].r
           u == Neighbor(Origin, d)
           w == Neighbor(Origin, Opposite(d))
           n == Neighbor(here, d)
<1>1. /\ x \in Int /\ y \in Int /\ here.q \in Int /\ here.r \in Int
      /\ directionDeltas[d] \in ChunkAt /\ directionDeltas[Opposite(d)] = At2(-x, -y)
      /\ Opposite(d) \in Direction
  BY StepsUndo DEF ChunkAt
<1>2. Origin \in ChunkAt /\ Origin.q = 0 /\ Origin.r = 0
  BY DEF Origin, At2, ChunkAt
<1>3. n \in ChunkAt /\ n.q = here.q + x /\ n.r = here.r + y
  BY <1>1, PlusIs DEF Neighbor
<1>4. u \in ChunkAt /\ u.q = x /\ u.r = y
  BY <1>1, <1>2, NeighborBack DEF Neighbor, Plus, At2
<1>5. w \in ChunkAt /\ w.q = -x /\ w.r = -y
  BY <1>1, <1>2, NeighborBack DEF Neighbor, Plus, At2
<1>6. O = Center(r, u) /\ P = Center(r, w)
  BY DEF Offset
<1> HIDE DEF u, w, n
<1>7. /\ C \in ChunkAt /\ C.q = r * (2 * here.q + here.r) + here.q /\ C.r = r * (here.r - here.q) + here.r
  BY CenterIs
<1>8. /\ D \in ChunkAt /\ D.q = r * (2 * n.q + n.r) + n.q /\ D.r = r * (n.r - n.q) + n.r
  BY <1>3, CenterIs DEF n
<1>9. /\ O \in ChunkAt /\ O.q = r * (2 * u.q + u.r) + u.q /\ O.r = r * (u.r - u.q) + u.r
  BY <1>4, <1>6, CenterIs
<1>10. /\ P \in ChunkAt /\ P.q = r * (2 * w.q + w.r) + w.q /\ P.r = r * (w.r - w.q) + w.r
  BY <1>5, <1>6, CenterIs
<1> HIDE DEF C, D, O, P, x, y
<1>11. ASSUME NEW a \in Int, NEW b \in Int, NEW p \in Int, NEW s \in Int
       PROVE  /\ r * (2 * (a + p) + (b + s)) = r * (2 * a + b) + r * (2 * p + s)
              /\ r * ((b + s) - (a + p)) = r * (b - a) + r * (s - p)
              /\ r * (2 * (-p) + (-s)) = -(r * (2 * p + s)) /\ r * ((-s) - (-p)) = -(r * (s - p))
              /\ r * (2 * a + b) \in Int /\ r * (b - a) \in Int
              /\ r * (2 * p + s) \in Int /\ r * (s - p) \in Int
  <2>1. r * (2 * (a + p) + (b + s)) = r * (2 * a + b) + r * (2 * p + s)
    BY Z3
  <2>2. r * ((b + s) - (a + p)) = r * (b - a) + r * (s - p)
    BY Z3
  <2>3. r * (2 * (-p) + (-s)) = -(r * (2 * p + s)) /\ r * ((-s) - (-p)) = -(r * (s - p))
    BY Z3
  <2> QED
    BY <2>1, <2>2, <2>3
<1>12. /\ r * (2 * (here.q + x) + (here.r + y)) = r * (2 * here.q + here.r) + r * (2 * x + y)
       /\ r * ((here.r + y) - (here.q + x)) = r * (here.r - here.q) + r * (y - x)
       /\ r * (2 * (-x) + (-y)) = -(r * (2 * x + y)) /\ r * ((-y) - (-x)) = -(r * (y - x))
       /\ r * (2 * here.q + here.r) \in Int /\ r * (here.r - here.q) \in Int
       /\ r * (2 * x + y) \in Int /\ r * (y - x) \in Int
  BY <1>1, <1>11
<1>13. {C.q, C.r, D.q, D.r, O.q, O.r, P.q, P.r} \subseteq Int
  BY <1>7, <1>8, <1>9, <1>10 DEF ChunkAt
<1>14. D.q = C.q + O.q /\ D.r = C.r + O.r
  BY <1>1, <1>3, <1>4, <1>7, <1>8, <1>9, <1>12
<1>15. P.q = -O.q /\ P.r = -O.r
  BY <1>1, <1>4, <1>5, <1>9, <1>10, <1>12
<1> QED
  BY <1>13, <1>14, <1>15 DEF C, D, O, P

\* Both chunks read the same border, each in its own coordinates.
LEMMA BorderFromBothSides ==
  ASSUME NEW r \in Nat \ {0}, NEW here \in ChunkAt, NEW d \in Direction, NEW i \in 1 .. 2 * r + 1
  PROVE  Shifted(Border(r, d)[i], Center(r, here))
           = Shifted(Border(r, Opposite(d))[i], Center(r, Neighbor(here, d)))
<1> DEFINE f == Border(r, d)[i]
           g == Border(r, Opposite(d))[i]
           C == Center(r, here)
           D == Center(r, Neighbor(here, d))
           O == Offset(r, d)
           P == Offset(r, Opposite(d))
<1>1. Opposite(d) \in Direction /\ ((d \in 0..2 /\ Opposite(d) = d + 3) \/ (d \in 3..5 /\ Opposite(d) = d - 3))
  BY DEF Opposite, Direction
<1>2. f \in [cell : ChunkAt, dir : Direction] /\ g \in [cell : ChunkAt, dir : Direction]
  BY <1>1, BorderIsFaces
<1>3. ASSUME NEW e \in 3..5
      PROVE  Border(r, e)[i] = [Border(r, e - 3)[i] EXCEPT !.cell = Plus(@, Offset(r, e))]
  <2>1. ~(e <= 2) /\ e - 3 \in Direction /\ e - 3 <= 2
    BY DEF Direction
  <2>2. Border(r, e) = [x \in DOMAIN Border(r, e - 3) |-> [Border(r, e - 3)[x] EXCEPT !.cell = Plus(@, Offset(r, e))]]
    BY <2>1 DEF Border
  <2>3. DOMAIN Border(r, e - 3) = 1 .. 2 * r + 1
    <3>1. Border(r, e - 3) = [x \in 1 .. 2 * r + 1 |-> Border(r, e - 3)[x]]
      BY <2>1, BorderAt
    <3> QED
      BY <3>1
  <2> QED
    BY <2>2, <2>3
<1>4. \/ g = [f EXCEPT !.cell = Plus(@, P)]
      \/ f = [g EXCEPT !.cell = Plus(@, O)]
  <2>1. CASE d \in 0..2
    <3>1. d + 3 \in 3..5 /\ (d + 3) - 3 = d /\ Opposite(d) = d + 3
      BY <1>1, <2>1
    <3> QED
      BY <1>3, <3>1
  <2>2. CASE d \in 3..5
    <3>1. Opposite(d) = d - 3
      BY <1>1, <2>2
    <3> QED
      BY <1>3, <2>2, <3>1
  <2> QED
    BY <1>1, <2>1, <2>2
<1>5. /\ {C.q, C.r, D.q, D.r, O.q, O.r, P.q, P.r} \subseteq Int
      /\ D.q = C.q + O.q /\ D.r = C.r + O.r /\ P.q = -O.q /\ P.r = -O.r
  BY CenterStep
<1> SUFFICES Shifted(f, C) = Shifted(g, D)
  OBVIOUS
<1> HIDE DEF f, g, C, D, O, P
<1>6. ASSUME NEW h \in [cell : ChunkAt, dir : Direction], NEW A
      PROVE  [h EXCEPT !.cell = Plus(@, A)] = [cell |-> At2(h.cell.q + A.q, h.cell.r + A.r), dir |-> h.dir]
  BY DEF Plus
<1>7. f.cell.q \in Int /\ f.cell.r \in Int /\ g.cell.q \in Int /\ g.cell.r \in Int
  BY <1>2 DEF ChunkAt
<1>8. \A x, y : At2(x, y).q = x /\ At2(x, y).r = y
  BY DEF At2
<1>9. f.cell.q + C.q = g.cell.q + D.q /\ f.cell.r + C.r = g.cell.r + D.r /\ f.dir = g.dir
  <2>1. CASE g = [f EXCEPT !.cell = Plus(@, P)]
    <3>1. g = [cell |-> At2(f.cell.q + P.q, f.cell.r + P.r), dir |-> f.dir]
      BY <1>2, <1>6, <2>1
    <3>2. g.cell.q = f.cell.q + P.q /\ g.cell.r = f.cell.r + P.r /\ g.dir = f.dir
      BY <1>8, <3>1
    <3> QED
      BY <1>5, <1>7, <3>2
  <2>2. CASE f = [g EXCEPT !.cell = Plus(@, O)]
    <3>1. f = [cell |-> At2(g.cell.q + O.q, g.cell.r + O.r), dir |-> g.dir]
      BY <1>2, <1>6, <2>2
    <3>2. f.cell.q = g.cell.q + O.q /\ f.cell.r = g.cell.r + O.r /\ g.dir = f.dir
      BY <1>8, <3>1
    <3> QED
      BY <1>5, <1>7, <3>2
  <2> QED
    BY <1>4, <2>1, <2>2
<1>10. /\ [f EXCEPT !.cell = Plus(@, C)] = [cell |-> At2(f.cell.q + C.q, f.cell.r + C.r), dir |-> f.dir]
       /\ [g EXCEPT !.cell = Plus(@, D)] = [cell |-> At2(g.cell.q + D.q, g.cell.r + D.r), dir |-> g.dir]
  BY <1>2, <1>6
<1> QED
  BY <1>9, <1>10 DEF Shifted
----------------------------------------------------------------------------
(* The walk *)

WalkInv == walk \in [radius : {0} \cup (Nat \ {0}), cell : ChunkAt]

LEMMA WalkStays == WalkSpec => []WalkInv
<1>1. WalkInit => WalkInv
  BY DEF WalkInit, WalkInv, Origin, At2, ChunkAt
<1>2. WalkInv /\ [WalkNext]_walk => WalkInv'
  <2> SUFFICES ASSUME WalkInv, [WalkNext]_walk PROVE WalkInv'
    OBVIOUS
  <2>1. CASE UNCHANGED walk
    BY <2>1 DEF WalkInv
  <2>2. ASSUME NEW r \in Radii, SetOut(r) PROVE WalkInv'
    BY <2>2, WalkAssumption DEF SetOut, WalkInv
  <2>3. ASSUME NEW d \in Direction, Move(d) PROVE WalkInv'
    <3>1. Neighbor(walk.cell, d) \in ChunkAt
      BY NeighborBack DEF WalkInv
    <3> QED
      BY <2>3, <3>1 DEF Move, WalkInv
  <2> QED
    BY <2>1, <2>2, <2>3 DEF WalkNext
<1> QED
  BY <1>1, <1>2, PTL DEF WalkSpec

\* Wherever a walk over the lattice goes, at any distance and for any radius and
\* any set of gates, the geometry holds: a cell is in exactly one chunk, a border
\* is exactly the faces between two chunks and the same from both sides, the
\* spiral is inverted and the depth is that of the nearest gate.
THEOREM GeometryHoldsTheorem == WalkSpec => []GeometryHolds
<1>1. WalkInv => GeometryHolds
  <2> SUFFICES ASSUME WalkInv, walk.radius > 0
               PROVE  LocateIsExact /\ BorderIsShared /\ SpiralIsInverted /\ DepthIsNearest
    BY DEF GeometryHolds
  <2> DEFINE r == walk.radius
             cell == walk.cell
             here == Locate(r, cell).chunk
  <2>1. r \in Nat \ {0} /\ cell \in ChunkAt
    BY DEF WalkInv
  <2>2. here \in ChunkAt
    BY <2>1, LocateFinds
  <2>3. LocateIsExact
    BY <2>1, LocateExact DEF LocateIsExact
  <2>4. BorderIsShared
    <3> SUFFICES ASSUME NEW d \in Direction PROVE SharedBorder(r, here, d)
      BY DEF BorderIsShared
    <3> HIDE DEF r, here
    <3>1. Range(Border(r, d)) = {FaceOf(ce[1], ce[2]) : ce \in Crossings(r, d)}
      BY <2>1, BorderIsCrossings
    <3>2. Border(r, d) = [i \in 1 .. 2 * r + 1 |-> Border(r, d)[i]]
      BY <2>1, BorderAt
    <3>3. Len(Border(r, d)) = 2 * r + 1
      <4>1. 2 * r + 1 \in Nat \ {0}
        BY <2>1
      <4> QED
        BY <3>2, <4>1, LengthIs
    <3>4. DOMAIN Border(r, d) = 1 .. 2 * r + 1
      BY <3>2
    <3>5. \A i \in 1 .. 2 * r :
            Cardinality(FaceCells(Border(r, d)[i]) \cup FaceCells(Border(r, d)[i + 1])) = 3
      BY <2>1, BorderMeets
    <3>6. \A i \in 1 .. 2 * r + 1 :
            Shifted(Border(r, d)[i], Center(r, here))
              = Shifted(Border(r, Opposite(d))[i], Center(r, Neighbor(here, d)))
      BY <2>1, <2>2, BorderFromBothSides
    <3>8. IsInjective(Border(r, d))
      BY <2>1, <3>4, BorderNamesOnce DEF IsInjective
    <3>7. (2 * r + 1) - 1 = 2 * r
      BY <2>1
    <3> QED
      BY <3>1, <3>3, <3>4, <3>5, <3>6, <3>7, <3>8 DEF SharedBorder
  <2>5. SpiralIsInverted
    BY <2>1, SpiralInverted DEF SpiralIsInverted
  <2>6. DepthIsNearest
    <3> SUFFICES ASSUME NEW gs \in GateSets
                 PROVE  LET all == {Distance(cell, Center(r, g)) : g \in gs}
                        IN  Depth(r, gs, cell) = IF gs = {} THEN -1 ELSE CHOOSE d \in all : \A x \in all : d <= x
      BY DEF DepthIsNearest
    <3>1. gs \in SUBSET ChunkAt
      BY WalkAssumption DEF ChunkAt
    <3> HIDE DEF r, cell
    <3> QED
      BY <2>1, <3>1, DepthNearest
  <2> QED
    BY <2>3, <2>4, <2>5, <2>6
<1> QED
  BY <1>1, WalkStays, PTL
=============================================================================
