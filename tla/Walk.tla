-------------------------------- MODULE Walk ---------------------------------
(***************************************************************************)
(* A walk over the lattice, cell by cell: at every cell the conversions    *)
(* between cells, chunks, borders and spiral positions must agree, and the *)
(* depth must be the distance to the nearest gate.                         *)
(***************************************************************************)
EXTENDS HexGrid

CONSTANTS
  Radii,      \* radii of the chunks walked over
  Span,       \* bound of the model: the walk stays this close to the origin
  GateSets    \* sets of gate chunks

ASSUME WalkAssumption ==
  /\ Radii \subseteq Nat \ {0}
  /\ Span \in Nat
  /\ \A gs \in GateSets : gs \subseteq [q : Int, r : Int]

VARIABLE walk    \* the radius (zero before the walk), and where the walk is

WalkInit == walk = [radius |-> 0, cell |-> Origin]

SetOut(r) ==
  /\ walk.radius = 0
  /\ walk' = [walk EXCEPT !.radius = r]

Move(d) ==
  /\ walk.radius > 0
  /\ Distance(Origin, Neighbor(walk.cell, d)) <= Span
  /\ walk' = [walk EXCEPT !.cell = Neighbor(@, d)]

WalkNext == (\E r \in Radii : SetOut(r)) \/ (\E d \in Direction : Move(d))

WalkSpec == WalkInit /\ [][WalkNext]_walk
----------------------------------------------------------------------------
(* Properties *)

\* Locate inverts At and finds the one chunk that holds the cell, everywhere
\* and with either sign (Lattice.Locate).
LocateIsExact ==
  LET r == walk.radius  found == Locate(r, walk.cell)
  IN  /\ GlobalOf(r, found.chunk, found.local) = walk.cell
      /\ found.local \in LocalCells(r)
      /\ \A d \in Direction : Distance(walk.cell, Center(r, Neighbor(found.chunk, d))) > r

FaceCells(f) == {f.cell, Neighbor(f.cell, f.dir)}

\* A cell of the chunk at the origin, and a step from it into the neighbour.
Crossings(r, d) ==
  {ce \in LocalCells(r) \X Direction :
     Locate(r, Neighbor(ce[1], ce[2])).chunk = Neighbor(Origin, d)}

Shifted(f, c) == [f EXCEPT !.cell = Plus(@, c)]

\* The border of a chunk in one direction: exactly the faces between the two, each
\* once, in the order of the border path (consecutive faces meet at a vertex), and
\* the same list from both sides (Lattice.Border).
SharedBorder(r, here, d) ==
  LET b == Border(r, d)  back == Border(r, Opposite(d))
  IN  /\ Range(b) = {FaceOf(ce[1], ce[2]) : ce \in Crossings(r, d)}
      /\ Len(b) = 2 * r + 1 /\ IsInjective(b)
      /\ \A i \in 1 .. Len(b) - 1 : Cardinality(FaceCells(b[i]) \cup FaceCells(b[i + 1])) = 3
      /\ \A i \in DOMAIN b :
           Shifted(b[i], Center(r, here)) = Shifted(back[i], Center(r, Neighbor(here, d)))

\* So both chunks place the same portals, whichever side they are seen from.
BorderIsShared ==
  \A d \in Direction : SharedBorder(walk.radius, Locate(walk.radius, walk.cell).chunk, d)

\* The spiral visits every chunk once, and SpiralIndex is its place (gate).
SpiralIsInverted ==
  LET n == Distance(Origin, walk.cell)
  IN  /\ SpiralIndex(walk.cell) \in 0 .. CellCount(n) - 1
      /\ Spiral(n)[SpiralIndex(walk.cell) + 1] = walk.cell

\* The search for the nearest gate stops neither too early nor on a further gate,
\* wherever the walk is (Set.Depth).
DepthIsNearest ==
  \A gs \in GateSets :
    LET r == walk.radius  all == {Distance(walk.cell, Center(r, g)) : g \in gs}
    IN  Depth(r, gs, walk.cell) = IF gs = {} THEN -1 ELSE CHOOSE d \in all : \A x \in all : d <= x

\* The geometry the world is built on holds wherever the walk goes: Locate is
\* exact, borders are shared, the spiral is inverted, and the depth is that of
\* the nearest gate (packages hexgrid and gate).
GeometryHolds ==
  walk.radius > 0 => LocateIsExact /\ BorderIsShared /\ SpiralIsInverted /\ DepthIsNearest
=============================================================================
