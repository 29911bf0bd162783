-------------------------------- MODULE Maze ---------------------------------
(***************************************************************************)
(* Generation of the inside of one chunk (package maze): islands, a        *)
(* spanning structure by one of five algorithms, extra passages, and the   *)
(* portals of a border.  A draw from the seeded stream is a choice; what   *)
(* must hold holds whatever is drawn.                                      *)
(***************************************************************************)
EXTENDS HexGrid

CONSTANTS
  Parameters,   \* [radius, islandTarget, extra, lo, hi, algorithms, types]: Params
                \* with its shares rounded, and the chunk types asked for
  Starts,       \* bound of the model: cells an algorithm may start from
  MinRadius     \* smallest radius the code accepts (6); smaller in a model

Algorithm == {"backtracker", "kruskal", "prim", "growing_tree", "wilson_walk"}

nonBorderCellCount(r) == IF r < 1 THEN 0 ELSE CellCount(r - 1)
gateCapacity(r) == IF nonBorderCellCount(r) < 1 THEN 0 ELSE nonBorderCellCount(r) - 1

\* Params.validate: the border can hold its portals apart, a gate chunk its
\* islands, and some algorithm has weight.
valid(p) ==
  /\ p.radius >= MinRadius
  /\ p.algorithms # {} /\ p.algorithms \subseteq Algorithm
  /\ 1 <= p.lo /\ p.lo <= p.hi /\ p.hi <= p.radius + 1
  /\ p.islandTarget <= gateCapacity(p.radius)

ASSUME MazeAssumption ==
  /\ MinRadius \in Nat
  /\ \A p \in Parameters :
       /\ {p.radius, p.islandTarget, p.extra, p.lo, p.hi} \subseteq Nat
       /\ p.types \subseteq {"fabric", "gate"}
  /\ Starts \subseteq UNION {LocalCells(p.radius) : p \in Parameters}

VARIABLE maze

NoCell == [cell |-> "none"]

Sides(r) == [c \in LocalCells(r) |-> {Neighbor(c, d) : d \in Direction} \cap LocalCells(r)]
SidesOf == [r \in {p.radius : p \in Parameters} |-> Sides(r)]

Cells == LocalCells(maze.p.radius)
neighbors(c) == SidesOf[maze.p.radius][c]
isBorderCell(c) == Distance(c, Origin) = maze.p.radius

\* The faces between two cells of a set.
interiorFaces(cs) == {{ab[1], ab[2]} : ab \in {x \in cs \X cs : x[2] \in neighbors(x[1])}}

nonIslandCells == Cells \ maze.islands
nonIslandNeighbors(c) == neighbors(c) \ maze.islands

\* The cells of adj's domain that are reached from start over adj, which gives
\* each cell its neighbours.
Reached(start, adj) ==
  LET after[i \in 0 .. Cardinality(DOMAIN adj)] ==
        IF i = 0 THEN {start}
        ELSE LET s == after[i - 1] IN s \cup UNION {adj[c] \cap DOMAIN adj : c \in s}
  IN  after[Cardinality(DOMAIN adj)]

MazeInit == maze = [phase |-> "none"]

\* Generate is called: the candidates are every cell off the border, but the
\* centre of a gate chunk.  todo: island candidates, then Kruskal's faces.
\* inTree: visited.  path: the backtracker's stack.  edge: Prim's frontier, the
\* growing tree's active cells.  label: Kruskal's.  next, start and cur: Wilson's
\* walk.
Generate ==
  /\ maze.phase = "none"
  /\ \E p \in {x \in Parameters : valid(x)} : \E typ \in p.types :
       maze' = [p |-> p, typ |-> typ, phase |-> "islands", islands |-> {},
                todo |-> {c \in LocalCells(p.radius) :
                            Distance(c, Origin) < p.radius /\ ~(typ = "gate" /\ c = Origin)},
                algo |-> "none", open |-> {}, inTree |-> {}, path |-> <<>>, edge |-> {},
                label |-> <<>>, next |-> <<>>, start |-> NoCell, cur |-> NoCell, portals |-> {}]
----------------------------------------------------------------------------
(* selectIslands *)

connectedOverInduced(islands) ==
  LET rest == Cells \ islands
  IN  Reached(CHOOSE c \in rest : isBorderCell(c), [c \in rest |-> neighbors(c)]) = rest

\* The next candidate of the shuffled list becomes an island unless it would cut
\* the rest apart.
TryIsland ==
  /\ maze.phase = "islands" /\ Cardinality(maze.islands) < maze.p.islandTarget
  /\ \E c \in maze.todo :
       maze' = [maze EXCEPT !.todo = @ \ {c},
                            !.islands = IF connectedOverInduced(@ \cup {c}) THEN @ \cup {c} ELSE @]

\* drawAlgorithm, and the algorithm's own start.
DrawAlgorithm ==
  /\ maze.phase = "islands"
  /\ Cardinality(maze.islands) = maze.p.islandTarget \/ maze.todo = {}
  /\ \E algo \in maze.p.algorithms, start \in Starts \cap nonIslandCells :
         maze' = [maze EXCEPT
            !.phase = "build", !.algo = algo,
            !.todo = IF algo = "kruskal" THEN interiorFaces(nonIslandCells) ELSE {},
            !.inTree = IF algo = "kruskal" THEN {} ELSE {start},
            !.path = IF algo = "backtracker" THEN <<start>> ELSE <<>>,
            !.edge = CASE algo = "prim" -> nonIslandNeighbors(start)
                       [] algo = "growing_tree" -> {start}
                       [] OTHER -> {},
            !.label = IF algo = "kruskal" THEN [c \in Cells |-> c] ELSE <<>>]
----------------------------------------------------------------------------
(* The five algorithms, one step of their loop each *)

unvisited(c) == nonIslandNeighbors(c) \ maze.inTree

Building(algo) == maze.phase = "build" /\ maze.algo = algo

buildBacktracker ==
  /\ Building("backtracker") /\ maze.path # <<>>
  /\ IF unvisited(Last(maze.path)) = {}
     THEN maze' = [maze EXCEPT !.path = Front(@)]
     ELSE \E n \in unvisited(Last(maze.path)) :
            maze' = [maze EXCEPT !.inTree = @ \cup {n}, !.open = @ \cup {{Last(maze.path), n}},
                                 !.path = Append(@, n)]

\* Mutant of buildKruskal: only the cell itself is relabelled.
buildKruskalOneLabel ==
  /\ Building("kruskal")
  /\ \E f \in maze.todo : LET a == CHOOSE x \in f : TRUE  b == CHOOSE x \in f : x # a IN
       maze' = [maze EXCEPT !.todo = @ \ {f},
                  !.open = IF maze.label[a] = maze.label[b] THEN @ ELSE @ \cup {f},
                  !.label[a] = maze.label[b]]

\* The next face of the shuffled list joins two labels, or is left shut.
buildKruskal ==
  /\ Building("kruskal")
  /\ \E f \in maze.todo : LET a == CHOOSE x \in f : TRUE  b == CHOOSE x \in f : x # a IN
       maze' = [maze EXCEPT !.todo = @ \ {f},
                  !.open = IF maze.label[a] = maze.label[b] THEN @ ELSE @ \cup {f},
                  !.label = [c \in Cells |-> IF maze.label[c] = maze.label[a] THEN maze.label[b] ELSE maze.label[c]]]

buildFrontierPrim ==
  /\ Building("prim")
  /\ \E c \in maze.edge : \E partner \in nonIslandNeighbors(c) \cap maze.inTree :
       maze' = [maze EXCEPT !.inTree = @ \cup {c}, !.open = @ \cup {{c, partner}},
                            !.edge = (@ \cup unvisited(c)) \ {c}]

\* The newest or any active cell, as the bias draws.
buildGrowingTree ==
  /\ Building("growing_tree")
  /\ \E c \in maze.edge :
       IF unvisited(c) = {} THEN maze' = [maze EXCEPT !.edge = @ \ {c}]
       ELSE \E n \in unvisited(c) :
              maze' = [maze EXCEPT !.inTree = @ \cup {n}, !.open = @ \cup {{c, n}}, !.edge = @ \cup {n}]

\* Wilson: a walk from the first remaining cell until it meets the tree, each
\* cell keeping the last step taken from it; then the walk, loops erased, joins.
WalkFrom ==
  /\ Building("wilson_walk") /\ maze.cur = NoCell
  /\ LET rest == nonIslandCells \ maze.inTree
     IN  /\ rest # {}
         /\ maze' = LET first == CHOOSE c \in rest : \A x \in rest : x = c \/ Before(c, x)
                    IN  [maze EXCEPT !.start = first, !.cur = first]

WalkOn ==
  /\ Building("wilson_walk") /\ maze.cur # NoCell /\ maze.cur \notin maze.inTree
  /\ \E n \in nonIslandNeighbors(maze.cur) :
       maze' = [maze EXCEPT !.next = [x \in DOMAIN @ \cup {maze.cur} |-> IF x = maze.cur THEN n ELSE @[x]],
                            !.cur = n]

WalkJoins ==
  /\ Building("wilson_walk") /\ maze.cur \in maze.inTree
  /\ LET line == Reached(maze.start, [c \in DOMAIN maze.next |-> {maze.next[c]}])
     IN  maze' = [maze EXCEPT !.inTree = @ \cup line,
                              !.open = @ \cup {{c, maze.next[c]} : c \in line},
                              !.next = <<>>, !.start = NoCell, !.cur = NoCell]

Built ==
  /\ maze.phase = "build" /\ maze.todo = {} /\ maze.path = <<>> /\ maze.edge = {} /\ maze.cur = NoCell
  /\ maze.algo = "wilson_walk" => nonIslandCells = maze.inTree
----------------------------------------------------------------------------
(* Extra passages and portals *)

\* addExtraPassages: some of the faces still shut between non-island cells.
addExtraPassages ==
  /\ Built
  /\ LET shut == interiorFaces(nonIslandCells) \ maze.open
         n == IF Cardinality(shut) < maze.p.extra THEN Cardinality(shut) ELSE maze.p.extra
     IN  \E more \in {s \in SUBSET shut : Cardinality(s) = n} :
           maze' = [maze EXCEPT !.open = @ \cup more, !.phase = "passages", !.algo = "none",
                                !.inTree = {}, !.label = <<>>]

\* Mutant of nonConsecutivePositions: the chosen slots are not spread.
consecutivePositions(chosen) == chosen

\* Each chosen slot is moved up by its rank among the chosen.
nonConsecutivePositions(chosen) == {c + Cardinality({x \in chosen : x < c}) : c \in chosen}

\* selectPortals on a border of 2R+1 candidates.
selectPortals ==
  /\ maze.phase = "passages"
  /\ \E count \in maze.p.lo .. maze.p.hi :
       \E chosen \in {s \in SUBSET (0 .. 2 * maze.p.radius + 1 - count) : Cardinality(s) = count} :
         maze' = [maze EXCEPT !.phase = "done", !.portals = nonConsecutivePositions(chosen)]

MazeNext ==
  \/ Generate \/ TryIsland \/ DrawAlgorithm \/ addExtraPassages \/ selectPortals
  \/ buildBacktracker \/ buildKruskal \/ buildFrontierPrim \/ buildGrowingTree
  \/ WalkFrom \/ WalkOn \/ WalkJoins

MazeSpec == MazeInit /\ [][MazeNext]_maze
----------------------------------------------------------------------------
(* Properties *)

Through(c) == {n \in neighbors(c) : {c, n} \in maze.open}

\* The portals of a border are as many as asked for, on the border, and never
\* touch (Params.validate's bound is what makes room for them).
PortalsApart ==
  maze.phase = "done" =>
    /\ maze.portals \subseteq 0 .. 2 * maze.p.radius
    /\ Cardinality(maze.portals) \in maze.p.lo .. maze.p.hi
    /\ \A i \in maze.portals : i + 1 \notin maze.portals

\* Whatever is drawn, the structure an algorithm ends with spans every cell that
\* is not an island with no cycle, and the extra passages only add to it; no
\* island is entered, and a gate chunk keeps its centre; and the portals it is
\* joined to its neighbours by never touch (selectIslands, buildSpanningStructure,
\* addExtraPassages, selectPortals).
StructureSpans ==
  /\ PortalsApart
  /\ Built =>
       /\ Cardinality(maze.open) = Cardinality(nonIslandCells) - 1
       /\ Reached(CHOOSE c \in nonIslandCells : TRUE, [c \in nonIslandCells |-> Through(c)])
            = nonIslandCells
  /\ maze.phase \in {"passages", "done"} =>
       Cardinality(maze.open) >= Cardinality(nonIslandCells) - 1
  /\ maze.phase # "none" =>
       /\ \A f \in maze.open : f \cap maze.islands = {}
       /\ maze.typ = "gate" => Origin \notin maze.islands
=============================================================================
