---------------------------- MODULE World_proofs ----------------------------
(***************************************************************************)
(* The chunks of a maze are what Atlas promises, for every number of       *)
(* processes, whatever builds they run; chats and players become known     *)
(* once, and the outbound gate lets calls through only to them, for every  *)
(* log of updates and any number of ingest loops; and the inside of a      *)
(* chunk is spanned whatever its generation draws, for every radius.       *)
(***************************************************************************)
EXTENDS World, Home, Maze, Walk_proofs
----------------------------------------------------------------------------
(* The invariant: types; one process in the transaction; and what the process in
   it, or back from it, has in hand is true of the stored chunks. *)

ChunkRows == [gate : ChatOwner \cup {NoOwner}, border : [Direction -> Range(BuildOf)]]
InLock == {"locked", "inserted"}

StoredType ==
  /\ stored = [maze |-> stored.maze, chunk |-> stored.chunk, told |-> stored.told]
  /\ stored.chunk \in [DOMAIN stored.chunk -> ChunkRows]
  /\ DOMAIN stored.chunk \subseteq ChunkAt
  /\ IsFiniteSet(DOMAIN stored.chunk)
  /\ stored.told \in Seq(ChunkAt)

ProcRows ==
  [pc : {"closed", "mismatch", "free", "lock", "locked", "inserted", "returned", "error"},
   chat : ChatOwner \cup {NoOwner}, want : ChunkAt, row : Seq(ChunkRows), got : Seq(ChunkRows)]

ProcType ==
  proc \in [Proc -> ProcRows]

OneInLock == \A p, q \in Proc : proc[p].pc \in InLock /\ proc[q].pc \in InLock => p = q

\* What is in hand is the stored chunk asked for, and the gate of the chat.
InHand(p) ==
  /\ proc[p].want \in DOMAIN stored.chunk
  /\ proc[p].got = << stored.chunk[proc[p].want] >>
  /\ proc[p].chat # NoOwner => stored.chunk[proc[p].want].gate = proc[p].chat

\* The row inserted may be created as the chunks are.
MayCreate(p) ==
  /\ proc[p].want \notin DOMAIN stored.chunk
  /\ proc[p].row[1] \in ChunkRows /\ proc[p].row = << proc[p].row[1] >>
  /\ proc[p].got = proc[p].row /\ proc[p].row[1].gate = proc[p].chat
  /\ Map!Agrees(proc[p].want, proc[p].row[1])
  /\ proc[p].chat # NoOwner => /\ chunkOfGate(proc[p].chat) = {}
                               /\ farEnough(proc[p].want, gateChunks, Spacing)

Inserting ==
  \A p \in Proc : proc[p].pc = "inserted" => IF proc[p].row = <<>> THEN InHand(p) ELSE MayCreate(p)

WorldInv ==
  StoredType /\ ProcType /\ OneInLock /\ Inserting /\ HandedOutIsStored /\ Map!AtlasKept

\* Atlas names the same lattice.
LEMMA SameGrid ==
  /\ Map!Direction = Direction
  /\ \A d : Map!Opposite(d) = Opposite(d)
  /\ \A c, d : Map!Neighbor(c, d) = Neighbor(c, d)
  /\ \A a, b : Map!Distance(a, b) = Distance(a, b)
  /\ \A c, gates, k : Map!farEnough(c, gates, k) = farEnough(c, gates, k)
<1>1. Map!Direction = Direction /\ \A d : Map!Opposite(d) = Opposite(d)
  BY DEF Map!Direction, Direction, Map!Opposite, Opposite
<1>2. Map!directionDeltas = directionDeltas
  BY <1>1 DEF Map!directionDeltas, directionDeltas, Map!At2, At2
<1>3. \A c, d : Map!Neighbor(c, d) = Neighbor(c, d)
  BY <1>2 DEF Map!Neighbor, Neighbor, Map!Plus, Plus, Map!At2, At2
<1>4. \A v : Map!abs64(v) = abs64(v)
  BY DEF Map!abs64, abs64
<1>5. \A a, b : Map!Distance(a, b) = Distance(a, b)
  BY <1>4 DEF Map!Distance, Distance
<1>6. \A c, gates, k : Map!farEnough(c, gates, k) = farEnough(c, gates, k)
  BY <1>5 DEF Map!farEnough, farEnough
<1> QED
  BY <1>1, <1>3, <1>5, <1>6

LEMMA FreeType == Free \in ProcRows /\ Free.pc = "free" /\ Free.chat = NoOwner
<1>1. NoChunk \in ChunkAt
  BY DEF NoChunk, At2, ChunkAt
<1>2. <<>> \in Seq(ChunkRows)
  OBVIOUS
<1> QED
  BY <1>1, <1>2 DEF Free, ProcRows

LEMMA WorldInit0 == WorldInit => WorldInv
<1> SUFFICES ASSUME WorldInit PROVE WorldInv
  OBVIOUS
<1>1. stored.chunk = <<>> /\ DOMAIN stored.chunk = {} /\ stored.told = <<>>
  BY DEF WorldInit
<1>2. StoredType
  <2>1. stored = [maze |-> stored.maze, chunk |-> stored.chunk, told |-> stored.told]
    BY DEF WorldInit
  <2>2. IsFiniteSet(DOMAIN stored.chunk)
    BY <1>1, FS_EmptySet
  <2> QED
    BY <1>1, <2>1, <2>2 DEF StoredType
<1>3. ProcType /\ \A p \in Proc : proc[p].pc = "closed"
  <2>1. [Free EXCEPT !.pc = "closed"] \in ProcRows /\ [Free EXCEPT !.pc = "closed"].pc = "closed"
    BY FreeType DEF ProcRows
  <2> QED
    BY <2>1 DEF WorldInit, ProcType
<1>4. Map!AtlasKept
  BY <1>1 DEF Map!AtlasKept, Map!GateChunks
<1> QED
  BY <1>2, <1>3, <1>4 DEF WorldInv, OneInLock, InLock, Inserting, HandedOutIsStored

\* A step of one process that leaves the chunks alone and after which it still
\* has in hand what it should.
LEMMA ProcStep ==
  ASSUME WorldInv, NEW p \in Proc, NEW x \in ProcRows,
         proc' = [proc EXCEPT ![p] = x],
         stored'.chunk = stored.chunk, stored'.told = stored.told,
         stored' = [maze |-> stored'.maze, chunk |-> stored'.chunk, told |-> stored'.told],
         x.pc \in InLock => \A q \in Proc \ {p} : proc[q].pc \notin InLock,
         x.pc = "inserted" => IF x.row = <<>> THEN InHand(p)' ELSE MayCreate(p)',
         x.pc = "returned" => InHand(p)'
  PROVE  WorldInv'
<1>1. proc'[p] = x /\ \A q \in Proc : q # p => proc'[q] = proc[q]
  BY DEF WorldInv, ProcType
<1>2. StoredType'
  BY DEF WorldInv, StoredType
<1>3. ProcType'
  BY DEF WorldInv, ProcType
<1>4. OneInLock'
  BY <1>1 DEF WorldInv, OneInLock
<1>5. \A q \in Proc : q # p => (InHand(q) <=> InHand(q)') /\ (MayCreate(q) <=> MayCreate(q)')
  BY <1>1 DEF InHand, MayCreate, Map!Agrees, chunkOfGate, gateChunks
<1>6. Inserting'
  BY <1>1, <1>5 DEF WorldInv, Inserting
<1>7. HandedOutIsStored'
  BY <1>1, <1>5 DEF WorldInv, HandedOutIsStored, InHand
<1>8. Map!AtlasKept'
  BY DEF WorldInv, Map!AtlasKept, Map!Agrees, Map!GateChunks
<1> QED
  BY <1>2, <1>3, <1>4, <1>6, <1>7, <1>8 DEF WorldInv

\* What Create adds keeps the promise.
LEMMA CreateKeepsAtlas ==
  ASSUME StoredType, Map!AtlasKept, NEW ch \in ChunkAt, NEW row \in ChunkRows, Map!Create(ch, row)
  PROVE  Map!AtlasKept'
<1>1. /\ ch \notin DOMAIN stored.chunk
      /\ DOMAIN stored'.chunk = DOMAIN stored.chunk \cup {ch}
      /\ stored'.chunk[ch] = row
      /\ \A c \in DOMAIN stored.chunk : stored'.chunk[c] = stored.chunk[c]
      /\ stored'.told = Append(stored.told, ch)
  BY DEF Map!Create
<1>2. ASSUME NEW c \in DOMAIN stored'.chunk PROVE Map!Agrees(c, stored.chunk[c])'
  <2> SUFFICES ASSUME NEW d \in Direction, Neighbor(c, d) \in DOMAIN stored'.chunk
               PROVE  stored'.chunk[c].border[d] = stored'.chunk[Neighbor(c, d)].border[Opposite(d)]
    BY SameGrid DEF Map!Agrees
  <2>1. c \in ChunkAt
    BY <1>1 DEF StoredType
  <2>2. Neighbor(c, d) # c /\ Neighbor(Neighbor(c, d), Opposite(d)) = c /\ Opposite(d) \in Direction
        /\ Opposite(Opposite(d)) = d
    BY <2>1, NeighborBack, StepsUndo
  <2>3. CASE c = ch
    BY <1>1, <2>2, <2>3, SameGrid DEF Map!Create, Map!Agrees
  <2>4. CASE c # ch /\ Neighbor(c, d) = ch
    <3>1. row.border[Opposite(d)] = stored.chunk[c].border[d]
      BY <1>1, <2>2, <2>4, SameGrid DEF Map!Create, Map!Agrees
    <3> QED
      BY <1>1, <2>4, <3>1
  <2>5. CASE c # ch /\ Neighbor(c, d) # ch
    BY <1>1, <2>5, SameGrid DEF Map!AtlasKept, Map!Agrees
  <2> QED
    BY <2>3, <2>4, <2>5
<1>3. Map!GateChunks' = IF row.gate # NoOwner THEN Map!GateChunks \cup {ch} ELSE Map!GateChunks
  BY <1>1 DEF Map!GateChunks
<1>4. ASSUME NEW g \in Map!GateChunks', NEW h \in Map!GateChunks', g # h
      PROVE  stored'.chunk[g].gate # stored'.chunk[h].gate /\ Distance(g, h) > Spacing
  <2>1. Map!GateChunks \subseteq DOMAIN stored.chunk /\ Map!GateChunks \subseteq ChunkAt
    BY DEF Map!GateChunks, StoredType
  <2>2. CASE g # ch /\ h # ch
    BY <1>1, <1>3, <1>4, <2>1, <2>2, SameGrid DEF Map!AtlasKept
  <2>3. ASSUME NEW f \in Map!GateChunks, row.gate # NoOwner
        PROVE  stored.chunk[f].gate # row.gate /\ Distance(ch, f) > Spacing /\ Distance(f, ch) > Spacing
    <3>1. stored.chunk[f].gate # row.gate /\ Distance(ch, f) >= Spacing + 1
      BY <2>3, SameGrid DEF Map!Create, farEnough
    <3>2. Distance(ch, f) \in Nat /\ Distance(f, ch) = Distance(ch, f) /\ Spacing \in Nat
      BY <2>1, DistanceIs, DistanceSymmetric, WorldAssumption
    <3> QED
      BY <3>1, <3>2
  <2>4. CASE g = ch
    BY <1>1, <1>3, <1>4, <2>1, <2>3, <2>4
  <2>5. CASE h = ch
    BY <1>1, <1>3, <1>4, <2>1, <2>3, <2>5
  <2> QED
    BY <2>2, <2>4, <2>5
<1>5. /\ Len(stored'.told) = Len(stored.told) + 1 /\ Len(stored.told) \in Nat
      /\ stored'.told[Len(stored.told) + 1] = ch
      /\ \A i \in 1 .. Len(stored.told) : stored'.told[i] = stored.told[i]
  BY <1>1 DEF StoredType
<1>6. \A c \in DOMAIN stored'.chunk : \E i \in 1 .. Len(stored'.told) : stored'.told[i] = c
  <2> SUFFICES ASSUME NEW c \in DOMAIN stored'.chunk
               PROVE  \E i \in 1 .. Len(stored'.told) : stored'.told[i] = c
    OBVIOUS
  <2>1. CASE c = ch
    BY <1>5, <2>1
  <2>2. CASE c # ch
    BY <1>1, <1>5, <2>2 DEF Map!AtlasKept
  <2> QED
    BY <2>1, <2>2
<1>7. \A i, j \in 1 .. Len(stored'.told) :
        stored'.told[i] \in DOMAIN stored'.chunk /\ (stored'.told[i] = stored'.told[j] => i = j)
  <2>1. \A i, j \in 1 .. Len(stored.told) :
          stored.told[i] \in DOMAIN stored.chunk /\ (stored.told[i] = stored.told[j] => i = j)
    BY DEF Map!AtlasKept
  <2> QED
    BY <1>1, <1>5, <2>1
<1> QED
  BY <1>2, <1>4, <1>6, <1>7, SameGrid DEF Map!AtlasKept

\* The body under the lock leaves the process with a stored chunk in hand, or
\* with a row that may be created.
LEMMA CreateLockedStep ==
  ASSUME WorldInv, NEW p \in Proc, createLocked(p)
  PROVE  WorldInv'
<1> DEFINE ch  == chosen(p)
           chat == proc[p].chat
           old == ch \in DOMAIN stored.chunk
           new == [gate |-> chat, border |-> [d \in Direction |-> border(p, ch, d)]]
           x == [proc[p] EXCEPT !.want = ch, !.pc = "inserted",
                   !.row = IF old THEN <<>> ELSE <<new>>,
                   !.got = IF old THEN << stored.chunk[ch] >> ELSE <<new>>]
<1>1. /\ proc[p].pc = "locked" /\ proc[p] \in ProcRows /\ stored' = stored
      /\ proc' = [proc EXCEPT ![p] = x]
  BY DEF createLocked, WorldInv, ProcType
<1>2. /\ ch \in ChunkAt
      /\ chat # NoOwner /\ old => stored.chunk[ch].gate = chat
      /\ chat # NoOwner /\ ~old => chunkOfGate(chat) = {} /\ farEnough(ch, gateChunks, Spacing)
  <2>1. CASE chat = NoOwner
    BY <1>1, <2>1 DEF chosen, ProcRows
  <2>2. CASE chat # NoOwner /\ chunkOfGate(chat) # {}
    <3>1. ch \in chunkOfGate(chat)
      BY <2>2 DEF chosen
    <3> QED
      BY <2>2, <3>1 DEF chunkOfGate, WorldInv, StoredType
  <2>3. CASE chat # NoOwner /\ chunkOfGate(chat) = {}
    <3>1. ch = gateNext(DOMAIN stored.chunk, gateChunks, Spacing)
      BY <2>3 DEF chosen
    <3>2. /\ DOMAIN stored.chunk \in SUBSET ChunkAt /\ IsFiniteSet(DOMAIN stored.chunk)
          /\ gateChunks \in SUBSET DOMAIN stored.chunk /\ Spacing \in Nat
      BY WorldAssumption DEF WorldInv, StoredType, gateChunks
    <3>3. ch \in ChunkAt /\ ch \notin DOMAIN stored.chunk /\ farEnough(ch, gateChunks, Spacing)
      <4> HIDE DEF ch
      <4> QED
        BY <3>1, <3>2, NextGateIsFreeAndFar
    <3> QED
      BY <2>3, <3>3
  <2> QED
    BY <2>1, <2>2, <2>3
<1> HIDE DEF ch
<1>3. new \in ChunkRows
  <2>1. ASSUME NEW d \in Direction PROVE border(p, ch, d) \in Range(BuildOf)
    <3>1. BuildOf[p] \in Range(BuildOf)
      BY WorldAssumption DEF Range
    <3>2. Neighbor(ch, d) \in DOMAIN stored.chunk =>
            stored.chunk[Neighbor(ch, d)].border[Opposite(d)] \in Range(BuildOf)
      BY StepsUndo DEF WorldInv, StoredType, ChunkRows
    <3> QED
      BY <3>1, <3>2 DEF border
  <2>2. chat \in ChatOwner \cup {NoOwner}
    BY <1>1 DEF ProcRows
  <2> QED
    BY <2>1, <2>2 DEF ChunkRows
<1>4. x \in ProcRows
  <2>1. old => stored.chunk[ch] \in ChunkRows
    BY DEF WorldInv, StoredType
  <2>2. (IF old THEN <<>> ELSE <<new>>) \in Seq(ChunkRows)
    <3> HIDE DEF new, old
    <3> QED
      BY <1>3
  <2>3. (IF old THEN << stored.chunk[ch] >> ELSE <<new>>) \in Seq(ChunkRows)
    <3> HIDE DEF new, old
    <3> QED
      BY <1>3, <2>1
  <2> HIDE DEF new, old
  <2> QED
    BY <1>1, <1>2, <2>2, <2>3 DEF ProcRows
<1>5. proc'[p] = x /\ x.pc = "inserted" /\ x.chat = chat /\ x.want = ch
      /\ x.row = (IF old THEN <<>> ELSE <<new>>)
      /\ x.got = (IF old THEN << stored.chunk[ch] >> ELSE <<new>>)
  <2> HIDE DEF new, old
  <2> QED
    BY <1>1, <1>4 DEF WorldInv, ProcType, ProcRows
<1>6. CASE old
  <2>1. x.row = <<>> /\ InHand(p)'
    BY <1>1, <1>2, <1>5, <1>6 DEF InHand
  <2>2. \A q \in Proc \ {p} : proc[q].pc \notin InLock
    BY <1>1 DEF WorldInv, OneInLock, InLock
  <2> HIDE DEF x
  <2> QED
    BY <1>1, <1>4, <1>5, <2>1, <2>2, ProcStep DEF WorldInv, StoredType
<1>7. CASE ~old
  <2>1. x.row = <<new>> /\ x.row # <<>> /\ x.got = <<new>>
    BY <1>5, <1>7
  <2>2. \A d \in Map!Direction : Map!Neighbor(ch, d) \in DOMAIN stored.chunk =>
          new.border[d] = stored.chunk[Map!Neighbor(ch, d)].border[Map!Opposite(d)]
    BY SameGrid DEF border
  <2>3. MayCreate(p)'
    <3>1. /\ proc'[p].want = ch /\ proc'[p].row = <<new>> /\ proc'[p].row[1] = new
          /\ proc'[p].got = <<new>> /\ proc'[p].chat = chat /\ stored'.chunk = stored.chunk
          /\ new.gate = chat
      <4>1. new.gate = chat
        OBVIOUS
      <4> HIDE DEF new, x, old
      <4> QED
        BY <1>1, <1>5, <2>1, <4>1
    <3>2. ch \notin DOMAIN stored.chunk
      BY <1>7
    <3> HIDE DEF new, x, old
    <3>3. Map!Agrees(proc[p].want, proc[p].row[1])'
      BY <2>2, <3>1 DEF Map!Agrees
    <3> HIDE DEF chat
    <3> QED
      BY <1>2, <1>3, <1>7, <3>1, <3>2, <3>3 DEF MayCreate, chunkOfGate, gateChunks, old
  <2>4. \A q \in Proc \ {p} : proc[q].pc \notin InLock
    BY <1>1 DEF WorldInv, OneInLock, InLock
  <2> HIDE DEF x
  <2> QED
    BY <1>1, <1>4, <1>5, <2>1, <2>3, <2>4, ProcStep DEF WorldInv, StoredType
<1> QED
  BY <1>6, <1>7

\* A commit of an inserted row is Atlas's Create.
LEMMA CommitCreates ==
  ASSUME WorldInv, NEW p \in Proc, CommitChunk(p), proc[p].row # <<>>
  PROVE  /\ proc[p].want \in ChunkAt /\ proc[p].row[1] \in ChunkRows
         /\ Map!Create(proc[p].want, proc[p].row[1])
         /\ StoredType'
<1> DEFINE ch  == proc[p].want
           row == proc[p].row[1]
<1>1. MayCreate(p) /\ proc[p] \in ProcRows
  BY DEF CommitChunk, WorldInv, Inserting, ProcType
<1>2. ch \in ChunkAt /\ row \in ChunkRows
  BY <1>1 DEF MayCreate, ProcRows
<1>3. /\ stored' = [maze |-> stored'.maze, chunk |-> stored'.chunk, told |-> stored'.told]
      /\ stored'.chunk = [c \in DOMAIN stored.chunk \cup {ch} |-> IF c = ch THEN row ELSE stored.chunk[c]]
      /\ stored'.told = Append(stored.told, ch)
  <2> DEFINE grown == [c \in DOMAIN stored.chunk \cup {ch} |-> IF c = ch THEN row ELSE stored.chunk[c]]
  <2>1. stored' = [stored EXCEPT !.chunk = grown, !.told = Append(@, ch)]
    BY DEF CommitChunk, Inserted
  <2>2. stored = [maze |-> stored.maze, chunk |-> stored.chunk, told |-> stored.told]
    BY DEF WorldInv, StoredType
  <2> HIDE DEF grown
  <2>3. stored' = [maze |-> stored.maze, chunk |-> grown, told |-> Append(stored.told, ch)]
    BY <2>1, <2>2
  <2> QED
    BY <2>3 DEF grown
<1>4. Map!Create(ch, row)
  <2>1. ch \notin DOMAIN stored.chunk /\ Map!Agrees(ch, row)
    BY <1>1 DEF MayCreate
  <2>2. row.gate # NoOwner => /\ \A g \in Map!GateChunks : stored.chunk[g].gate # row.gate
                              /\ Map!farEnough(ch, Map!GateChunks, Spacing)
    <3>1. Map!GateChunks = gateChunks
      BY DEF Map!GateChunks, gateChunks
    <3> QED
      BY <1>1, <3>1, SameGrid DEF MayCreate, chunkOfGate, gateChunks
  <2> HIDE DEF ch, row
  <2> QED
    BY <1>3, <2>1, <2>2 DEF Map!Create
<1>5. StoredType'
  <2>1. stored.chunk \in [DOMAIN stored.chunk -> ChunkRows] /\ DOMAIN stored.chunk \subseteq ChunkAt
        /\ IsFiniteSet(DOMAIN stored.chunk) /\ stored.told \in Seq(ChunkAt)
    BY DEF WorldInv, StoredType
  <2> HIDE DEF ch, row
  <2>2. DOMAIN stored'.chunk = DOMAIN stored.chunk \cup {ch} /\ IsFiniteSet(DOMAIN stored.chunk \cup {ch})
    BY <1>3, <2>1, FS_AddElement
  <2>3. stored'.chunk \in [DOMAIN stored'.chunk -> ChunkRows] /\ stored'.told \in Seq(ChunkAt)
    BY <1>2, <1>3, <2>1
  <2> QED
    BY <1>2, <1>3, <2>1, <2>2, <2>3 DEF StoredType
<1> QED
  BY <1>2, <1>4, <1>5

LEMMA CommitStep ==
  ASSUME WorldInv, NEW p \in Proc, CommitChunk(p)
  PROVE  WorldInv'
<1>1. PICK pc \in {"returned", "error"} : proc' = [proc EXCEPT ![p] = [proc[p] EXCEPT !.pc = pc]]
  BY DEF CommitChunk, To
<1> DEFINE x == [proc[p] EXCEPT !.pc = pc]
<1>2. /\ proc[p] \in ProcRows /\ x \in ProcRows /\ x.pc = pc
      /\ x.want = proc[p].want /\ x.chat = proc[p].chat /\ x.got = proc[p].got
      /\ proc'[p] = x /\ \A q \in Proc : q # p => proc'[q] = proc[q]
  BY <1>1 DEF WorldInv, ProcType, ProcRows
<1> HIDE DEF x
<1>3. \A q \in Proc : q # p => proc[q].pc \notin InLock
  BY DEF CommitChunk, WorldInv, OneInLock, InLock
<1>4. pc \notin InLock /\ pc # "inserted"
  BY DEF InLock
<1>5. CASE proc[p].row = <<>>
  <2>1. stored' = stored
    BY <1>5 DEF CommitChunk, Inserted
  <2>2. InHand(p)'
    <3>1. InHand(p)
      BY <1>5 DEF CommitChunk, WorldInv, Inserting
    <3> QED
      BY <1>2, <2>1, <3>1 DEF InHand
  <2> QED
    BY <1>1, <1>2, <1>4, <2>1, <2>2, ProcStep DEF WorldInv, StoredType, x
<1>6. CASE proc[p].row # <<>>
  <2> DEFINE ch  == proc[p].want
             row == proc[p].row[1]
  <2>1. ch \in ChunkAt /\ row \in ChunkRows /\ Map!Create(ch, row) /\ StoredType'
    BY <1>6, CommitCreates
  <2>2. Map!AtlasKept'
    BY <2>1, CreateKeepsAtlas DEF WorldInv
  <2>3. ProcType'
    BY <1>1, <1>2 DEF WorldInv, ProcType, x
  <2>4. OneInLock' /\ Inserting'
    BY <1>2, <1>3, <1>4 DEF OneInLock, Inserting, InLock
  <2>5. /\ ch \in DOMAIN stored'.chunk /\ stored'.chunk[ch] = row
        /\ \A c \in DOMAIN stored.chunk : c \in DOMAIN stored'.chunk /\ stored'.chunk[c] = stored.chunk[c]
    BY <2>1 DEF Map!Create
  <2>6. InHand(p)'
    <3>1. proc[p].got = <<row>> /\ row.gate = proc[p].chat
      BY <1>6 DEF CommitChunk, WorldInv, Inserting, MayCreate
    <3> QED
      BY <1>2, <2>5, <3>1 DEF InHand
  <2>7. ASSUME NEW q \in Proc, q # p, proc[q].pc = "returned" PROVE InHand(q)'
    <3>1. InHand(q)
      BY <2>7 DEF WorldInv, HandedOutIsStored, InHand
    <3> QED
      BY <1>2, <2>5, <2>7, <3>1 DEF InHand
  <2>8. HandedOutIsStored'
    BY <1>2, <2>6, <2>7 DEF HandedOutIsStored, InHand
  <2> QED
    BY <2>1, <2>2, <2>3, <2>4, <2>8 DEF WorldInv
<1> QED
  BY <1>5, <1>6

\* A step that only moves one process on, to a place outside the creation and
\* with nothing in hand, or into the lock nobody holds.
LEMMA QuietStep ==
  ASSUME WorldInv, NEW p \in Proc, NEW pc \in {"free", "mismatch", "lock", "locked", "error"},
         To(p, pc), stored'.chunk = stored.chunk, stored'.told = stored.told,
         stored' = [maze |-> stored'.maze, chunk |-> stored'.chunk, told |-> stored'.told],
         pc = "locked" => \A q \in Proc : proc[q].pc \notin InLock
  PROVE  WorldInv'
<1> DEFINE x == [proc[p] EXCEPT !.pc = pc]
<1>1. proc' = [proc EXCEPT ![p] = x] /\ x \in ProcRows /\ x.pc = pc
  BY DEF To, WorldInv, ProcType, ProcRows
<1> HIDE DEF x
<1> QED
  BY <1>1, ProcStep DEF InLock

LEMMA OpenMazeStep ==
  ASSUME WorldInv, NEW p \in Proc, OpenMaze(p)
  PROVE  WorldInv'
<1>1. PICK pc \in {"free", "mismatch"} : To(p, pc)
  BY DEF OpenMaze
<1>2. /\ stored'.chunk = stored.chunk /\ stored'.told = stored.told
      /\ stored' = [maze |-> stored'.maze, chunk |-> stored'.chunk, told |-> stored'.told]
  <2> DEFINE seed == IF stored.maze = NoSeed THEN SeedOf[p] ELSE stored.maze
  <2>1. stored' = [stored EXCEPT !.maze = seed]
    BY DEF OpenMaze
  <2>2. stored = [maze |-> stored.maze, chunk |-> stored.chunk, told |-> stored.told]
    BY DEF WorldInv, StoredType
  <2> HIDE DEF seed
  <2>3. stored' = [maze |-> seed, chunk |-> stored.chunk, told |-> stored.told]
    BY <2>1, <2>2
  <2> QED
    BY <2>3
<1> QED
  BY <1>1, <1>2, QuietStep

\* A process with nothing in hand.
LEMMA FreshStep ==
  ASSUME WorldInv, NEW p \in Proc, NEW x \in ProcRows, x.pc \in {"lock", "error", "free"},
         proc' = [proc EXCEPT ![p] = x], stored' = stored
  PROVE  WorldInv'
  BY ProcStep DEF InLock, WorldInv, StoredType

\* A call that finds its chunk, or its chat's gate, stored.
LEMMA FoundStep ==
  ASSUME WorldInv, NEW p \in Proc, NEW x \in ProcRows, x.pc = "returned",
         x.want \in DOMAIN stored.chunk, x.got = <<stored.chunk[x.want]>>,
         x.chat # NoOwner => stored.chunk[x.want].gate = x.chat,
         proc' = [proc EXCEPT ![p] = x], stored' = stored
  PROVE  WorldInv'
<1>1. proc'[p] = x
  BY DEF WorldInv, ProcType
<1>2. InHand(p)'
  BY <1>1 DEF InHand
<1> QED
  BY <1>2, ProcStep DEF InLock, WorldInv, StoredType

LEMMA EnsureChunkAtStep ==
  ASSUME WorldInv, NEW p \in Proc, NEW ch \in Wanted, EnsureChunkAt(p, ch)
  PROVE  WorldInv'
<1>1. ch \in ChunkAt /\ stored' = stored
  BY WorldAssumption DEF ChunkAt, EnsureChunkAt
<1>2. CASE ch \in DOMAIN stored.chunk
  <2> DEFINE got == <<stored.chunk[ch]>>
             x == [Free EXCEPT !.pc = "returned", !.want = ch, !.got = got]
  <2>1. proc' = [proc EXCEPT ![p] = x]
    BY <1>2 DEF EnsureChunkAt
  <2>2. got \in Seq(ChunkRows)
    BY <1>2 DEF WorldInv, StoredType
  <2> HIDE DEF got
  <2>3. x \in ProcRows /\ x.pc = "returned" /\ x.want = ch /\ x.got = got /\ x.chat = NoOwner
    BY <1>1, <2>2, FreeType DEF ProcRows
  <2> HIDE DEF x
  <2> QED
    BY <1>1, <1>2, <2>1, <2>3, FoundStep DEF got
<1>3. CASE ch \notin DOMAIN stored.chunk
  <2> DEFINE x == [Free EXCEPT !.pc = "lock", !.want = ch]
  <2>1. proc' = [proc EXCEPT ![p] = x]
    BY <1>3 DEF EnsureChunkAt
  <2>2. x \in ProcRows /\ x.pc = "lock"
    BY <1>1, FreeType DEF ProcRows
  <2> HIDE DEF x
  <2> QED
    BY <1>1, <2>1, <2>2, FreshStep
<1> QED
  BY <1>2, <1>3

LEMMA ActivateChatStep ==
  ASSUME WorldInv, NEW p \in Proc, NEW chat \in ChatOwner, ActivateChat(p, chat)
  PROVE  WorldInv'
<1>1. stored' = stored
  BY DEF ActivateChat
<1>2. CASE OwnerKind[chat] # "chat"
  <2> DEFINE x == [Free EXCEPT !.pc = "error"]
  <2>1. proc' = [proc EXCEPT ![p] = x]
    BY <1>2 DEF ActivateChat
  <2>2. x \in ProcRows /\ x.pc = "error"
    BY FreeType DEF ProcRows
  <2> HIDE DEF x
  <2> QED
    BY <1>1, <2>1, <2>2, FreshStep
<1>3. CASE OwnerKind[chat] = "chat" /\ chunkOfGate(chat) # {}
  <2> DEFINE ch == CHOOSE c \in chunkOfGate(chat) : TRUE
             got == <<stored.chunk[ch]>>
             x == [Free EXCEPT !.pc = "returned", !.chat = chat, !.want = ch, !.got = got]
  <2>1. ch \in DOMAIN stored.chunk /\ stored.chunk[ch].gate = chat
    <3>1. ch \in chunkOfGate(chat)
      BY <1>3
    <3> QED
      BY <3>1 DEF chunkOfGate
  <2>2. proc' = [proc EXCEPT ![p] = x]
    BY <1>3 DEF ActivateChat
  <2> HIDE DEF ch
  <2>3. got \in Seq(ChunkRows) /\ ch \in ChunkAt
    BY <2>1 DEF WorldInv, StoredType
  <2> HIDE DEF got
  <2>4. x \in ProcRows /\ x.pc = "returned" /\ x.want = ch /\ x.got = got /\ x.chat = chat
    BY <2>3, FreeType DEF ProcRows
  <2> HIDE DEF x
  <2> QED
    BY <1>1, <2>1, <2>2, <2>4, FoundStep DEF got
<1>4. CASE OwnerKind[chat] = "chat" /\ chunkOfGate(chat) = {}
  <2> DEFINE x == [Free EXCEPT !.pc = "lock", !.chat = chat]
  <2>1. proc' = [proc EXCEPT ![p] = x]
    BY <1>4 DEF ActivateChat
  <2>2. x \in ProcRows /\ x.pc = "lock"
    BY FreeType DEF ProcRows
  <2> HIDE DEF x
  <2> QED
    BY <1>1, <2>1, <2>2, FreshStep
<1> QED
  BY <1>2, <1>3, <1>4

LEMMA WorldStep == WorldInv /\ [WorldNext]_worldVars => WorldInv'
<1> SUFFICES ASSUME WorldInv, [WorldNext]_worldVars PROVE WorldInv'
  OBVIOUS
<1>1. stored = [maze |-> stored.maze, chunk |-> stored.chunk, told |-> stored.told]
  BY DEF WorldInv, StoredType
<1>2. CASE UNCHANGED worldVars
  <2>1. stored' = stored /\ proc' = proc
    BY <1>2 DEF worldVars
  <2>2. StoredType' /\ ProcType' /\ OneInLock' /\ HandedOutIsStored'
    BY <2>1 DEF WorldInv, StoredType, ProcType, OneInLock, HandedOutIsStored
  <2>3. Inserting'
    BY <2>1 DEF WorldInv, Inserting, InHand, MayCreate, chunkOfGate, gateChunks, Map!Agrees
  <2>4. Map!AtlasKept'
    BY <2>1 DEF WorldInv, Map!AtlasKept, Map!Agrees, Map!GateChunks
  <2> QED
    BY <2>2, <2>3, <2>4 DEF WorldInv
<1>3. ASSUME NEW p \in Proc, lockMaze(p) PROVE WorldInv'
  BY <1>1, <1>3, QuietStep DEF lockMaze, InLock
<1>4. ASSUME NEW p \in Proc, Budget(p) PROVE WorldInv'
  BY <1>1, <1>4, QuietStep DEF Budget
<1>5. ASSUME NEW p \in Proc, Over(p) PROVE WorldInv'
  BY <1>5, FreeType, FreshStep DEF Over
<1> QED
  BY <1>2, <1>3, <1>4, <1>5, OpenMazeStep, CreateLockedStep, CommitStep, EnsureChunkAtStep, ActivateChatStep
     DEF WorldNext

\* The invariant of the chunks: what is being inserted, or was handed out, is
\* true of the stored rows, and those are what Atlas promises.
THEOREM WorldKeepsInv == WorldSpec => []WorldInv
  BY WorldInit0, WorldStep, PTL DEF WorldSpec

\* A map or a gate handed out (EnsureChunkAt, ActivateChat) is the stored one.
THEOREM HandedOutTheorem == WorldSpec => []HandedOutIsStored
<1>1. WorldInv => HandedOutIsStored
  BY DEF WorldInv
<1> QED
  BY <1>1, WorldKeepsInv, PTL

\* However many processes create chunks at once, whatever builds they run and
\* wherever they fail, the stored chunks agree on every border, a chat has one
\* gate, gates are further apart than the spacing, and chunk_created is told of
\* each chunk once.
THEOREM AtlasKeptTheorem == WorldSpec => []Map!AtlasKept
<1>1. WorldInv => Map!AtlasKept
  BY DEF WorldInv
<1> QED
  BY <1>1, WorldKeepsInv, PTL

\* Every step of the processes is one of Atlas: it creates one chunk as Create
\* allows, or leaves the chunks and their events alone.
THEOREM WorldImplementsAtlas == WorldSpec => ImplementsAtlas
<1>1. WorldInit => Map!AtlasInit
  BY DEF WorldInit, Map!AtlasInit
<1>2. WorldInv /\ [WorldNext]_worldVars => [Map!AtlasNext]_<<stored.chunk, stored.told>>
  <2> SUFFICES ASSUME WorldInv, [WorldNext]_worldVars
               PROVE  Map!AtlasNext \/ (stored'.chunk = stored.chunk /\ stored'.told = stored.told)
    OBVIOUS
  <2>1. CASE UNCHANGED worldVars
    BY <2>1 DEF worldVars
  <2>2. ASSUME NEW p \in Proc, OpenMaze(p)
        PROVE  stored'.chunk = stored.chunk /\ stored'.told = stored.told
    <3> DEFINE seed == IF stored.maze = NoSeed THEN SeedOf[p] ELSE stored.maze
    <3>1. stored' = [stored EXCEPT !.maze = seed]
      BY <2>2 DEF OpenMaze
    <3>2. stored = [maze |-> stored.maze, chunk |-> stored.chunk, told |-> stored.told]
      BY DEF WorldInv, StoredType
    <3> HIDE DEF seed
    <3> QED
      BY <3>1, <3>2
  <2>3. ASSUME NEW p \in Proc, CommitChunk(p)
        PROVE  Map!AtlasNext \/ (stored'.chunk = stored.chunk /\ stored'.told = stored.told)
    <3>1. CASE proc[p].row = <<>>
      BY <2>3, <3>1 DEF CommitChunk, Inserted
    <3>2. CASE proc[p].row # <<>>
      <4> DEFINE ch == proc[p].want
                 row == proc[p].row[1]
      <4>1. Map!Create(ch, row)
        BY <2>3, <3>2, CommitCreates
      <4> HIDE DEF ch, row
      <4>2. ch \in DOMAIN stored'.chunk \ DOMAIN stored.chunk /\ stored'.chunk[ch] = row
        BY <4>1 DEF Map!Create
      <4> QED
        BY <4>1, <4>2 DEF Map!AtlasNext
    <3> QED
      BY <3>1, <3>2
  <2>4. ASSUME NEW p \in Proc,
               \/ lockMaze(p) \/ createLocked(p) \/ Budget(p) \/ Over(p)
               \/ \E ch \in Wanted : EnsureChunkAt(p, ch)
               \/ \E chat \in ChatOwner : ActivateChat(p, chat)
        PROVE  stored' = stored
    BY <2>4 DEF lockMaze, createLocked, Budget, Over, EnsureChunkAt, ActivateChat
  <2> QED
    BY <2>1, <2>2, <2>3, <2>4 DEF WorldNext
<1> QED
  BY <1>1, <1>2, WorldKeepsInv, PTL DEF WorldSpec, ImplementsAtlas, Map!AtlasSpec
----------------------------------------------------------------------------
(* Chats and players: the inductive invariant of Home *)

IsStart(e, p)     == e.type = "player_started" /\ e.player = p
IsMade(e, p)      == IsStart(e, p) /\ e.made = TRUE
IsJoined(e, c, p) == IsStart(e, p) /\ e.joined = c

HomeEvent ==
  [type : {"bot_added_to_chat", "bot_kicked"}, chat : Chat]
  \cup [type : {"player_started"}, player : Player, made : BOOLEAN, joined : Chat \cup {NoChat}]

Tx == [pos : Nat, pc : {"idle", "ensure", "create", "read", "write", "append"},
       prior : BOOLEAN, joined : BOOLEAN, owner : SUBSET (Chat \cup Player),
       present : SUBSET [chat : Chat, is : BOOLEAN],
       member : SUBSET ((Chat \cup {NoChat}) \X Player)]

GateRecord == [cache : SUBSET (Chat \cup Player), id : Chat \cup Player \cup {NoChat},
               pc : {"idle", "presence", "player", "caching", "passed", "refused"},
               sawPresent : BOOLEAN, calls : Nat]

HomeTypeOK ==
  /\ home \in [owner : SUBSET (Chat \cup Player), present : SUBSET [chat : Chat, is : BOOLEAN],
               member : SUBSET ((Chat \cup {NoChat}) \X Player), event : Seq(HomeEvent)]
  /\ tx \in [Loop -> Tx]
  /\ gate \in GateRecord

\* An open transaction x has inserted only what its update names, and only what
\* was not there.
TxOK(x) ==
  /\ x.pos # 0 /\ (x.pc # "idle" => x.pos <= Len(Log))
  /\ x.pc \in {"idle", "ensure", "create"} => x.owner = {}
  /\ \A o \in x.owner : o = OwnerOf(Log[x.pos]) /\ o \notin home.owner
  /\ x.joined => /\ x.pc = "append" /\ Log[x.pos].kind = "start"
                 /\ x.member = {<<Log[x.pos].chat, Log[x.pos].player>>}
  /\ ~x.joined => x.member = {}
  /\ x.member \cap home.member = {}

\* The unique indexes: two open transactions never hold an insert of one key.
Apart == \A k, l \in Loop : k # l => tx[k].owner \cap tx[l].owner = {} /\ tx[k].member \cap tx[l].member = {}

\* The events that tell of p's creation, and of its joining c.
MadeAt(s, p)      == {i \in DOMAIN s : IsMade(s[i], p)}
JoinedAt(s, c, p) == {i \in DOMAIN s : IsJoined(s[i], c, p)}

EventsTell ==
  \A p \in Player :
    /\ p \in home.owner => \E i \in DOMAIN home.event : MadeAt(home.event, p) = {i}
    /\ p \notin home.owner => MadeAt(home.event, p) = {}
    /\ \A c \in Chat :
         /\ <<c, p>> \in home.member => \E i \in DOMAIN home.event : JoinedAt(home.event, c, p) = {i}
         /\ <<c, p>> \notin home.member => JoinedAt(home.event, c, p) = {}

GateInv ==
  /\ gate.cache \subseteq home.owner \cap Player
  /\ gate.pc = "presence" => gate.id \in allowed
  /\ gate.pc = "caching" => gate.id \in home.owner \cap Player
  /\ gate.pc = "passed" => gate.id \in home.owner \cap Player \/ (gate.id \in allowed /\ gate.sawPresent)
  /\ gate.pc # "idle" /\ PresentIn(home, gate.id) => gate.sawPresent

HomeInv == HomeTypeOK /\ Apart /\ EventsTell /\ GateInv /\ \A l \in Loop : TxOK(tx[l])
----------------------------------------------------------------------------
\* The update an open transaction is about.
LEMMA OwnUpdate ==
  ASSUME HomeInv, NEW l \in Loop, tx[l].pc # "idle"
  PROVE  U(l) \in Update
<1>1. tx[l].pos \in Nat /\ tx[l].pos # 0 /\ tx[l].pos <= Len(Log)
  BY DEF HomeInv, HomeTypeOK, TxOK, Tx
<1>2. tx[l].pos \in 1 .. Len(Log) /\ Log \in Seq(Update)
  BY <1>1, HomeAssumption
<1> QED
  BY <1>2 DEF U

\* A step of loop l alone, before its commit.
LEMMA LoopStep ==
  ASSUME HomeInv, NEW l \in Loop, NEW x \in Tx, tx' = [tx EXCEPT ![l] = x],
         UNCHANGED <<home, gate>>, TxOK(x),
         \A k \in Others(l) : x.owner \cap tx[k].owner = {} /\ x.member \cap tx[k].member = {}
  PROVE  HomeInv'
<1>1. tx \in [Loop -> Tx]
  BY DEF HomeInv, HomeTypeOK, Tx
<1>2. tx' \in [Loop -> Tx] /\ tx'[l] = x /\ \A k \in Loop : k # l => tx'[k] = tx[k] /\ k \in Others(l)
  BY <1>1 DEF Others
<1>3. HomeTypeOK'
  BY <1>2 DEF HomeInv, HomeTypeOK, Tx
<1>4. Apart'
  BY <1>2 DEF HomeInv, Apart
<1>5. EventsTell'
  BY DEF HomeInv, EventsTell, MadeAt, JoinedAt
<1>6. GateInv'
  BY DEF HomeInv, GateInv, PresentIn
<1>7. ASSUME NEW y, TxOK(y) PROVE TxOK(y)'
  BY <1>7 DEF TxOK
<1>8. \A k \in Loop : TxOK(tx'[k])
  BY <1>2 DEF HomeInv
<1>9. \A k \in Loop : TxOK(tx[k])'
  BY <1>7, <1>8
<1> QED
  BY <1>3, <1>4, <1>5, <1>6, <1>9 DEF HomeInv

\* What the invariant says of loop l's transaction.
LEMMA LoopFacts ==
  ASSUME HomeInv, NEW l \in Loop
  PROVE  /\ tx \in [Loop -> Tx] /\ tx[l] \in Tx /\ TxOK(tx[l])
         /\ \A k \in Others(l) : tx[l].owner \cap tx[k].owner = {} /\ tx[l].member \cap tx[k].member = {}
BY DEF HomeInv, HomeTypeOK, Tx, Apart, Others

\* A transaction given up leaves nothing.
LEMMA RollBackStep ==
  ASSUME HomeInv, NEW l \in Loop, RolledBack(l), UNCHANGED <<home, gate>>
  PROVE  HomeInv'
<1> DEFINE x == NoTx(tx[l].pos)
<1>1. tx \in [Loop -> Tx] /\ tx[l] \in Tx /\ TxOK(tx[l])
  BY LoopFacts
<1>2. tx' = [tx EXCEPT ![l] = x]
  BY <1>1 DEF RolledBack
<1>3. /\ x \in Tx /\ x.pc = "idle" /\ x.owner = {} /\ x.member = {} /\ ~x.joined
      /\ x.pos = tx[l].pos
  BY <1>1 DEF NoTx, Tx
<1> HIDE DEF x
<1>4. TxOK(x)
  BY <1>1, <1>3 DEF TxOK
<1> QED
  BY <1>2, <1>3, <1>4, LoopStep

\* A step that only moves on, or remembers what it read.
LEMMA MoveOn ==
  ASSUME HomeInv, NEW l \in Loop, NEW x \in Tx, tx' = [tx EXCEPT ![l] = x], UNCHANGED <<home, gate>>,
         tx[l].pc # "append", x.pos = tx[l].pos, x.joined = tx[l].joined,
         x.owner = tx[l].owner, x.member = tx[l].member, x.pos <= Len(Log),
         x.pc \in {"ensure", "create"} => tx[l].pc \in {"idle", "ensure"}, x.pc # "idle"
  PROVE  HomeInv'
<1>1. TxOK(tx[l])
  BY LoopFacts
<1>2. TxOK(x)
  BY <1>1 DEF TxOK
<1> QED
  BY <1>2, LoopStep, LoopFacts

LEMMA HomeBegin == ASSUME HomeInv, NEW l \in Loop, Begin(l) PROVE HomeInv'
<1> DEFINE x == [tx[l] EXCEPT !.pc = "ensure"]
<1>1. tx' = [tx EXCEPT ![l] = x] /\ tx[l].pc = "idle" /\ tx[l].pos <= Len(Log) /\ UNCHANGED <<home, gate>>
  BY LoopFacts, Zenon DEF Begin, Go
<1>2. /\ x \in Tx /\ x.pc = "ensure" /\ x.pos = tx[l].pos /\ x.joined = tx[l].joined
      /\ x.owner = tx[l].owner /\ x.member = tx[l].member
  BY LoopFacts DEF Tx
<1> HIDE DEF x
<1> QED
  BY <1>1, <1>2, MoveOn

LEMMA HomeEnsure == ASSUME HomeInv, NEW l \in Loop, EnsureOwner(l) PROVE HomeInv'
<1>1. PICK pc \in {"read", "create"} : tx' = [tx EXCEPT ![l] = [tx[l] EXCEPT !.pc = pc]]
  BY LoopFacts, Zenon DEF EnsureOwner, Go
<1>2. tx[l].pc = "ensure" /\ tx[l].pos <= Len(Log) /\ UNCHANGED <<home, gate>>
  BY LoopFacts DEF EnsureOwner, TxOK
<1> DEFINE x == [tx[l] EXCEPT !.pc = pc]
<1>3. /\ x \in Tx /\ x.pc = pc /\ x.pos = tx[l].pos /\ x.joined = tx[l].joined
      /\ x.owner = tx[l].owner /\ x.member = tx[l].member /\ tx' = [tx EXCEPT ![l] = x]
  BY <1>1, LoopFacts DEF Tx
<1> HIDE DEF x
<1> QED
  BY <1>2, <1>3, MoveOn

LEMMA HomeCreate == ASSUME HomeInv, NEW l \in Loop, CreateOwner(l) PROVE HomeInv'
<1> DEFINE o == OwnerOf(U(l))
           x == [[tx[l] EXCEPT !.pc = "read"] EXCEPT !.owner = {o}]
<1>1. CASE o \in home.owner
  BY <1>1, RollBackStep DEF CreateOwner
<1>2. CASE o \notin home.owner
  <2>1. tx' = [tx EXCEPT ![l] = x] /\ tx[l].pc = "create" /\ UNCHANGED <<home, gate>> /\ Unclaimed(l)
    BY <1>2, LoopFacts, Zenon DEF CreateOwner
  <2>2. tx[l] \in Tx /\ TxOK(tx[l]) /\ o = OwnerOf(Log[tx[l].pos]) /\ tx[l].member = {} /\ ~tx[l].joined
    BY <2>1, LoopFacts DEF TxOK, U
  <2>3. o \in Chat \cup Player
    BY <2>1, OwnUpdate DEF OwnerOf, Update
  <2> HIDE DEF o
  <2>4. /\ x \in Tx /\ x.pc = "read" /\ x.pos = tx[l].pos /\ x.joined = tx[l].joined
        /\ x.owner = {o} /\ x.member = tx[l].member
    BY <2>2, <2>3 DEF Tx
  <2> HIDE DEF x
  <2>5. TxOK(x)
    BY <1>2, <2>1, <2>2, <2>4 DEF TxOK
  <2>6. \A k \in Others(l) : x.owner \cap tx[k].owner = {} /\ x.member \cap tx[k].member = {}
    BY <2>1, <2>2, <2>4 DEF Unclaimed, o
  <2> QED
    BY <2>1, <2>4, <2>5, <2>6, LoopStep
<1> QED
  BY <1>1, <1>2

LEMMA HomeReadPresence == ASSUME HomeInv, NEW l \in Loop, ReadPresence(l) PROVE HomeInv'
<1> DEFINE rows == PresentRow(l, U(l).chat)
           was == IF rows = {} THEN U(l).was ELSE (CHOOSE r \in rows : TRUE).is
           x == [[tx[l] EXCEPT !.pc = "write"] EXCEPT !.prior = was]
<1>1. tx' = [tx EXCEPT ![l] = x] /\ tx[l].pc = "read" /\ UNCHANGED <<home, gate>> /\ U(l).kind = "presence"
  BY LoopFacts, Zenon DEF ReadPresence
<1>2. tx[l] \in Tx /\ tx[l].pos <= Len(Log)
  BY <1>1, LoopFacts DEF TxOK
<1>3. was \in BOOLEAN
  <2>1. U(l).was \in BOOLEAN
    BY <1>1, OwnUpdate DEF Update
  <2>2. \A r \in rows : r.is \in BOOLEAN
    BY DEF PresentRow, HomeInv, HomeTypeOK
  <2> QED
    BY <2>1, <2>2
<1> HIDE DEF was
<1>4. /\ x \in Tx /\ x.pc = "write" /\ x.pos = tx[l].pos /\ x.joined = tx[l].joined
      /\ x.owner = tx[l].owner /\ x.member = tx[l].member
  BY <1>2, <1>3 DEF Tx
<1> HIDE DEF x
<1> QED
  BY <1>1, <1>2, <1>4, MoveOn

LEMMA HomeSetPresence == ASSUME HomeInv, NEW l \in Loop, SetPresence(l) PROVE HomeInv'
<1> DEFINE r == [chat |-> U(l).chat, is |-> U(l).is]
           rows == IF r \in home.present THEN {} ELSE {r}
           x == [[tx[l] EXCEPT !.pc = "append"] EXCEPT !.present = rows]
<1>1. tx' = [tx EXCEPT ![l] = x] /\ tx[l].pc = "write" /\ UNCHANGED <<home, gate>> /\ U(l).kind = "presence"
  BY LoopFacts, Zenon DEF SetPresence
<1>2. tx[l] \in Tx /\ tx[l].pos <= Len(Log)
  BY <1>1, LoopFacts DEF TxOK
<1>3. rows \in SUBSET [chat : Chat, is : BOOLEAN]
  BY <1>1, OwnUpdate DEF Update
<1> HIDE DEF rows
<1>4. /\ x \in Tx /\ x.pc = "append" /\ x.pos = tx[l].pos /\ x.joined = tx[l].joined
      /\ x.owner = tx[l].owner /\ x.member = tx[l].member
  BY <1>2, <1>3 DEF Tx
<1> HIDE DEF x
<1> QED
  BY <1>1, <1>2, <1>4, MoveOn

LEMMA HomeResolve == ASSUME HomeInv, NEW l \in Loop, ResolveChat(l) PROVE HomeInv'
<1>1. PICK pc \in {"write", "append"} : tx' = [tx EXCEPT ![l] = [tx[l] EXCEPT !.pc = pc]]
  BY LoopFacts, Zenon DEF ResolveChat, Go
<1>2. tx[l].pc = "read" /\ tx[l].pos <= Len(Log) /\ UNCHANGED <<home, gate>>
  BY LoopFacts DEF ResolveChat, TxOK
<1> DEFINE x == [tx[l] EXCEPT !.pc = pc]
<1>3. /\ x \in Tx /\ x.pc = pc /\ x.pos = tx[l].pos /\ x.joined = tx[l].joined
      /\ x.owner = tx[l].owner /\ x.member = tx[l].member /\ tx' = [tx EXCEPT ![l] = x]
  BY <1>1, LoopFacts DEF Tx
<1> HIDE DEF x
<1> QED
  BY <1>2, <1>3, MoveOn

LEMMA HomeMembership == ASSUME HomeInv, NEW l \in Loop, AddMembership(l) PROVE HomeInv'
<1> DEFINE pair == <<U(l).chat, U(l).player>>
           fresh == pair \notin home.member
           pairs == IF pair \in home.member THEN {} ELSE {pair}
<1>0. PICK b \in BOOLEAN : b = fresh
  OBVIOUS
<1> DEFINE x == [[[tx[l] EXCEPT !.pc = "append"] EXCEPT !.joined = b] EXCEPT !.member = pairs]
<1>1. /\ tx' = [tx EXCEPT ![l] = x] /\ tx[l].pc = "write" /\ UNCHANGED <<home, gate>>
      /\ U(l).kind = "start" /\ \A k \in Others(l) : pair \notin tx[k].member
  BY <1>0, LoopFacts, Zenon DEF AddMembership
<1>2. tx[l] \in Tx /\ TxOK(tx[l])
  BY LoopFacts
<1>3. pair \in (Chat \cup {NoChat}) \X Player /\ Log[tx[l].pos].kind = "start"
      /\ pair = <<Log[tx[l].pos].chat, Log[tx[l].pos].player>>
  BY <1>1, OwnUpdate DEF Update, U
<1>4. /\ pairs \in SUBSET ((Chat \cup {NoChat}) \X Player) /\ (b => pairs = {pair}) /\ (~b => pairs = {})
      /\ pairs \cap home.member = {} /\ \A k \in Others(l) : pairs \cap tx[k].member = {}
  BY <1>0, <1>1, <1>3
<1> HIDE DEF pair, pairs
<1>5. /\ x \in Tx /\ x.pc = "append" /\ x.pos = tx[l].pos /\ x.joined = b
      /\ x.owner = tx[l].owner /\ x.member = pairs
  BY <1>2, <1>4 DEF Tx
<1> HIDE DEF x
<1>6. TxOK(x)
  BY <1>1, <1>2, <1>3, <1>4, <1>5 DEF TxOK
<1> QED
  BY <1>1, <1>4, <1>5, <1>6, LoopFacts, LoopStep
----------------------------------------------------------------------------
(* The commit *)

\* One more event.
LEMMA OneMore ==
  ASSUME NEW s \in Seq(HomeEvent), NEW e \in HomeEvent
  PROVE  /\ s \o <<e>> \in Seq(HomeEvent)
         /\ DOMAIN s \subseteq DOMAIN (s \o <<e>>) /\ Len(s) + 1 \in DOMAIN (s \o <<e>>)
         /\ Len(s) + 1 \notin DOMAIN s
         /\ \A p \in Player :
              /\ IsMade(e, p) => MadeAt(s \o <<e>>, p) = MadeAt(s, p) \cup {Len(s) + 1}
              /\ ~IsMade(e, p) => MadeAt(s \o <<e>>, p) = MadeAt(s, p)
              /\ \A c \in Chat :
                   /\ IsJoined(e, c, p) => JoinedAt(s \o <<e>>, c, p) = JoinedAt(s, c, p) \cup {Len(s) + 1}
                   /\ ~IsJoined(e, c, p) => JoinedAt(s \o <<e>>, c, p) = JoinedAt(s, c, p)
<1> DEFINE t == s \o <<e>>
           n == Len(s)
<1>1. <<e>> \in Seq(HomeEvent) /\ Len(<<e>>) = 1 /\ <<e>>[1] = e
  OBVIOUS
<1>2. /\ t \in Seq(HomeEvent) /\ Len(t) = n + 1 /\ n \in Nat
      /\ \A i \in 1 .. n + 1 : t[i] = IF i <= n THEN s[i] ELSE <<e>>[i - n]
  BY <1>1, ConcatProperties, LenProperties
<1>3. DOMAIN s = 1 .. n /\ DOMAIN t = 1 .. n + 1
  BY <1>2, LenProperties
<1> HIDE DEF t, n
<1>4. t[n + 1] = e
  <2>1. n + 1 \in 1 .. n + 1 /\ ~(n + 1 <= n) /\ (n + 1) - n = 1
    BY <1>2
  <2>2. t[n + 1] = <<e>>[(n + 1) - n]
    BY <1>2, <2>1
  <2> QED
    BY <1>1, <2>1, <2>2
<1>5. \A i \in DOMAIN s : t[i] = s[i]
  BY <1>2, <1>3
<1>6. DOMAIN t = DOMAIN s \cup {n + 1} /\ n + 1 \notin DOMAIN s
  BY <1>2, <1>3
<1>7. ASSUME NEW p \in Player
      PROVE  /\ IsMade(e, p) => MadeAt(t, p) = MadeAt(s, p) \cup {n + 1}
             /\ ~IsMade(e, p) => MadeAt(t, p) = MadeAt(s, p)
  BY <1>4, <1>5, <1>6, Zenon DEF MadeAt
<1>8. ASSUME NEW p \in Player, NEW c \in Chat
      PROVE  /\ IsJoined(e, c, p) => JoinedAt(t, c, p) = JoinedAt(s, c, p) \cup {n + 1}
             /\ ~IsJoined(e, c, p) => JoinedAt(t, c, p) = JoinedAt(s, c, p)
  BY <1>4, <1>5, <1>6, Zenon DEF JoinedAt
<1> QED
  BY <1>2, <1>6, <1>7, <1>8 DEF t, n

\* The event a transaction appends tells of exactly the player it created and
\* the membership it added; with nothing created and nothing added none does.
LEMMA Appends ==
  ASSUME HomeInv, NEW l \in Loop, tx[l].pc = "append"
  PROVE  \/ /\ AppendEvent(l) = <<>> /\ tx[l].member = {}
            /\ \A p \in Player : p \notin tx[l].owner
         \/ \E e \in HomeEvent :
              /\ AppendEvent(l) = <<e>>
              /\ \A p \in Player : IsMade(e, p) <=> p \in tx[l].owner
              /\ \A c \in Chat, p \in Player : IsJoined(e, c, p) <=> <<c, p>> \in tx[l].member
<1>1. U(l) \in Update /\ U(l) = Log[tx[l].pos]
  BY OwnUpdate DEF U
<1>2. tx[l] \in Tx /\ TxOK(tx[l])
  BY LoopFacts
<1>3. CASE U(l).kind = "presence"
  <2>1. U(l).chat \in Chat /\ OwnerOf(U(l)) = U(l).chat
    BY <1>1, <1>3 DEF Update, OwnerOf
  <2>2. tx[l].member = {} /\ \A p \in Player : p \notin tx[l].owner
    BY <1>1, <1>2, <1>3, <2>1, HomeAssumption DEF TxOK
  <2> DEFINE e == [type |-> IF U(l).is THEN "bot_added_to_chat" ELSE "bot_kicked", chat |-> U(l).chat]
  <2>3. AppendEvent(l) = <<>> \/ AppendEvent(l) = <<e>>
    BY <1>3 DEF AppendEvent, PresenceEvent
  <2>4. e \in HomeEvent /\ e.type # "player_started"
    BY <2>1 DEF HomeEvent
  <2>5. \A p \in Player : ~IsMade(e, p) /\ \A c \in Chat : ~IsJoined(e, c, p)
    BY <2>4 DEF IsMade, IsJoined, IsStart
  <2> QED
    BY <2>2, <2>3, <2>4, <2>5
<1>4. CASE U(l).kind = "start"
  <2>1. U(l).player \in Player /\ U(l).chat \in Chat \cup {NoChat} /\ OwnerOf(U(l)) = U(l).player
    BY <1>1, <1>4 DEF Update, OwnerOf
  <2>0. AppendEvent(l) = StartEvent(l)
    BY <1>4 DEF AppendEvent
  <2>2. /\ \A o \in tx[l].owner : o = U(l).player
        /\ tx[l].joined \in BOOLEAN
        /\ tx[l].joined => tx[l].member = {<<U(l).chat, U(l).player>>}
        /\ ~tx[l].joined => tx[l].member = {}
    BY <1>1, <1>2, <2>1 DEF TxOK, Tx
  <2>3. CASE tx[l].owner = {} /\ ~tx[l].joined
    BY <2>0, <2>2, <2>3 DEF StartEvent
  <2>4. CASE ~(tx[l].owner = {} /\ ~tx[l].joined)
    <3>1. PICK made \in BOOLEAN : made = (tx[l].owner # {})
      OBVIOUS
    <3>2. PICK joined \in Chat \cup {NoChat} : joined = IF tx[l].joined THEN U(l).chat ELSE NoChat
      BY <2>1
    <3> DEFINE e == [type |-> "player_started", player |-> U(l).player, made |-> made, joined |-> joined]
    <3>3. AppendEvent(l) = <<e>>
      BY <2>0, <2>4, <3>1, <3>2 DEF StartEvent
    <3>4. /\ e \in HomeEvent /\ e.type = "player_started" /\ e.player = U(l).player
          /\ e.made = made /\ e.joined = joined
      BY <2>1 DEF HomeEvent
    <3> HIDE DEF e
    <3>5. \A p \in Player : IsMade(e, p) <=> p \in tx[l].owner
      BY <2>2, <3>1, <3>4 DEF IsMade, IsStart
    <3>6. ASSUME NEW c \in Chat, NEW p \in Player PROVE IsJoined(e, c, p) <=> <<c, p>> \in tx[l].member
      <4>1. c # NoChat
        BY HomeAssumption
      <4>2. CASE tx[l].joined
        BY <2>2, <3>2, <3>4, <4>2 DEF IsJoined, IsStart
      <4>3. CASE ~tx[l].joined
        BY <2>2, <3>2, <3>4, <4>1, <4>3 DEF IsJoined, IsStart
      <4> QED
        BY <4>2, <4>3
    <3> QED
      BY <3>3, <3>4, <3>5, <3>6
  <2> QED
    BY <2>3, <2>4
<1> QED
  BY <1>1, <1>3, <1>4 DEF Update

LEMMA HomeCommit == ASSUME HomeInv, NEW l \in Loop, CommitUpdate(l) PROVE HomeInv'
<1>1. /\ tx \in [Loop -> Tx] /\ tx[l] \in Tx /\ TxOK(tx[l]) /\ tx[l].pc = "append"
      /\ \A k \in Others(l) : tx[l].owner \cap tx[k].owner = {} /\ tx[l].member \cap tx[k].member = {}
  BY LoopFacts DEF CommitUpdate
<1>2. PICK pos \in Nat : pos # 0 /\ tx' = [tx EXCEPT ![l] = NoTx(pos)]
  <2>1. tx[l].pos \in Nat /\ tx[l].pos # 0 /\ tx[l].pos + 1 \in Nat /\ tx[l].pos + 1 # 0
    BY <1>1 DEF Tx, TxOK
  <2>2. tx' = [tx EXCEPT ![l] = NoTx(tx[l].pos)] \/ tx' = [tx EXCEPT ![l] = NoTx(tx[l].pos + 1)]
    BY <1>1, Zenon DEF CommitUpdate, RolledBack
  <2> QED
    BY <2>1, <2>2
<1> DEFINE x == NoTx(pos)
<1>3. /\ x \in Tx /\ x.pc = "idle" /\ x.owner = {} /\ x.member = {} /\ x.joined = FALSE
      /\ x.pos = pos
  BY <1>2 DEF NoTx, Tx
<1>4. tx' = [tx EXCEPT ![l] = x]
  BY <1>2
<1> HIDE DEF x
<1>5. /\ tx' \in [Loop -> Tx] /\ tx'[l] = x /\ \A k \in Loop : k # l => tx'[k] = tx[k] /\ k \in Others(l)
  BY <1>1, <1>3, <1>4 DEF Others
<1>6. home' = Committed(l)
  BY DEF CommitUpdate
<1>7. /\ home'.owner = home.owner \cup tx[l].owner
      /\ home'.member = home.member \cup tx[l].member
      /\ home'.event = home.event \o AppendEvent(l)
      /\ home'.present = {r \in home.present : \A w \in tx[l].present : w.chat # r.chat} \cup tx[l].present
      /\ home' = [owner |-> home'.owner, present |-> home'.present, member |-> home'.member, event |-> home'.event]
  BY <1>6 DEF Committed
<1>8. /\ home.event \in Seq(HomeEvent) /\ home.owner \in SUBSET (Chat \cup Player)
      /\ home.present \in SUBSET [chat : Chat, is : BOOLEAN]
      /\ home.member \in SUBSET ((Chat \cup {NoChat}) \X Player)
  BY DEF HomeInv, HomeTypeOK
<1>9. home'.event \in Seq(HomeEvent) /\ EventsTell'
  <2>1. CASE /\ AppendEvent(l) = <<>> /\ tx[l].member = {}
             /\ \A p \in Player : p \notin tx[l].owner
    <3>1. home'.event = home.event
      BY <1>7, <1>8, <2>1, ConcatEmptySeq
    <3>2. /\ \A p \in Player : p \in home'.owner <=> p \in home.owner
          /\ home'.member = home.member
      BY <1>7, <2>1
    <3>3. \A p \in Player : /\ MadeAt(home'.event, p) = MadeAt(home.event, p)
                            /\ \A c \in Chat : JoinedAt(home'.event, c, p) = JoinedAt(home.event, c, p)
      BY <3>1
    <3> QED
      BY <1>8, <3>1, <3>2, <3>3 DEF HomeInv, EventsTell
  <2>2. ASSUME NEW e \in HomeEvent, AppendEvent(l) = <<e>>,
               \A p \in Player : IsMade(e, p) <=> p \in tx[l].owner,
               \A c \in Chat, p \in Player : IsJoined(e, c, p) <=> <<c, p>> \in tx[l].member
        PROVE  home'.event \in Seq(HomeEvent) /\ EventsTell'
    <3> DEFINE s == home.event
               t == s \o <<e>>
               n == Len(s) + 1
    <3>1. home'.event = t /\ s \in Seq(HomeEvent)
      BY <1>7, <1>8, <2>2
    <3>2. /\ t \in Seq(HomeEvent) /\ DOMAIN s \subseteq DOMAIN t /\ n \in DOMAIN t
          /\ \A p \in Player :
              /\ IsMade(e, p) => MadeAt(t, p) = MadeAt(s, p) \cup {n}
              /\ ~IsMade(e, p) => MadeAt(t, p) = MadeAt(s, p)
              /\ \A c \in Chat :
                   /\ IsJoined(e, c, p) => JoinedAt(t, c, p) = JoinedAt(s, c, p) \cup {n}
                   /\ ~IsJoined(e, c, p) => JoinedAt(t, c, p) = JoinedAt(s, c, p)
      BY <3>1, OneMore
    <3>3. /\ \A o \in tx[l].owner : o \notin home.owner
          /\ \A m \in tx[l].member : m \notin home.member
      BY <1>1 DEF TxOK
    <3>4. \A p \in Player :
            /\ p \in home.owner => \E i \in DOMAIN s : MadeAt(s, p) = {i}
            /\ p \notin home.owner => MadeAt(s, p) = {}
            /\ \A c \in Chat :
                 /\ <<c, p>> \in home.member => \E i \in DOMAIN s : JoinedAt(s, c, p) = {i}
                 /\ <<c, p>> \notin home.member => JoinedAt(s, c, p) = {}
      BY DEF HomeInv, EventsTell
    <3> HIDE DEF s, t, n
    <3>5. ASSUME NEW p \in Player
          PROVE  /\ p \in home'.owner => \E i \in DOMAIN t : MadeAt(t, p) = {i}
                 /\ p \notin home'.owner => MadeAt(t, p) = {}
      <4>1. p \in home'.owner <=> p \in home.owner \/ p \in tx[l].owner
        BY <1>7
      <4>2. CASE p \in tx[l].owner
        <5>1. MadeAt(t, p) = {n}
          BY <2>2, <3>2, <3>3, <3>4, <4>2
        <5> QED
          BY <3>2, <4>1, <4>2, <5>1
      <4>3. CASE p \notin tx[l].owner
        <5>1. MadeAt(t, p) = MadeAt(s, p)
          BY <2>2, <3>2, <4>3
        <5> QED
          BY <3>2, <3>4, <4>1, <4>3, <5>1
      <4> QED
        BY <4>2, <4>3
    <3>6. ASSUME NEW p \in Player, NEW c \in Chat
          PROVE  /\ <<c, p>> \in home'.member => \E i \in DOMAIN t : JoinedAt(t, c, p) = {i}
                 /\ <<c, p>> \notin home'.member => JoinedAt(t, c, p) = {}
      <4>1. <<c, p>> \in home'.member <=> <<c, p>> \in home.member \/ <<c, p>> \in tx[l].member
        BY <1>7
      <4>2. CASE <<c, p>> \in tx[l].member
        <5>1. JoinedAt(t, c, p) = {n}
          BY <2>2, <3>2, <3>3, <3>4, <4>2
        <5> QED
          BY <3>2, <4>1, <4>2, <5>1
      <4>3. CASE <<c, p>> \notin tx[l].member
        <5>1. JoinedAt(t, c, p) = JoinedAt(s, c, p)
          BY <2>2, <3>2, <4>3
        <5> QED
          BY <3>2, <3>4, <4>1, <4>3, <5>1
      <4> QED
        BY <4>2, <4>3
    <3> QED
      BY <3>1, <3>2, <3>5, <3>6 DEF EventsTell
  <2> QED
    BY <1>1, <2>1, <2>2, Appends
<1>10. gate' = [gate EXCEPT !.sawPresent = gate.sawPresent \/ PresentIn(home', gate.id)]
  BY DEF CommitUpdate
<1>11. PICK saw \in BOOLEAN : saw = (gate.sawPresent \/ PresentIn(home', gate.id))
  OBVIOUS
<1>12. /\ gate' = [gate EXCEPT !.sawPresent = saw]
       /\ gate'.cache = gate.cache /\ gate'.id = gate.id /\ gate'.pc = gate.pc /\ gate'.calls = gate.calls
       /\ gate'.sawPresent = saw /\ (gate.sawPresent => saw)
  BY <1>10, <1>11 DEF HomeInv, HomeTypeOK, GateRecord
<1>13. HomeTypeOK'
  <2>1. home'.owner \in SUBSET (Chat \cup Player) /\ home'.member \in SUBSET ((Chat \cup {NoChat}) \X Player)
        /\ home'.present \in SUBSET [chat : Chat, is : BOOLEAN]
    BY <1>1, <1>7, <1>8 DEF Tx
  <2>2. gate' \in GateRecord
    BY <1>12 DEF HomeInv, HomeTypeOK, GateRecord
  <2> QED
    BY <1>5, <1>7, <1>9, <2>1, <2>2 DEF HomeTypeOK, Tx
<1>14. Apart'
  BY <1>3, <1>5 DEF HomeInv, Apart
<1>15. GateInv'
  <2>1. home.owner \subseteq home'.owner
    BY <1>7
  <2>2. PresentIn(home', gate.id) => saw
    BY <1>11
  <2> QED
    BY <1>12, <2>1, <2>2 DEF HomeInv, GateInv
<1>16. ASSUME NEW k \in Loop PROVE TxOK(tx[k])'
  <2>1. CASE k = l
    <3>1. TxOK(x)'
      BY <1>2, <1>3 DEF TxOK
    <3> QED
      BY <1>5, <2>1, <3>1
  <2>2. CASE k # l
    <3>1. PICK y : y = tx[k]
      OBVIOUS
    <3>2. TxOK(y) /\ tx'[k] = y /\ y.owner \cap tx[l].owner = {} /\ y.member \cap tx[l].member = {}
      BY <1>1, <1>5, <2>2, <3>1 DEF HomeInv
    <3>3. TxOK(y)'
      BY <1>7, <3>2 DEF TxOK
    <3> QED
      BY <3>2, <3>3
  <2> QED
    BY <2>1, <2>2
<1> QED
  BY <1>9, <1>13, <1>14, <1>15, <1>16 DEF HomeInv
----------------------------------------------------------------------------
(* The gate, and the theorems *)

\* A step of the gate alone.
LEMMA GateStep ==
  ASSUME HomeInv, UNCHANGED <<home, tx>>,
         gate' \in GateRecord,
         GateInv'
  PROVE  HomeInv'
<1>1. HomeTypeOK' /\ Apart' /\ EventsTell'
  BY DEF HomeInv, HomeTypeOK, Apart, EventsTell
<1>2. \A l \in Loop : TxOK(tx[l])'
  BY DEF HomeInv, TxOK
<1> QED
  BY <1>1, <1>2 DEF HomeInv

LEMMA GateFacts == HomeInv => gate \in GateRecord /\ GateInv
BY DEF HomeInv, HomeTypeOK, GateRecord

LEMMA GateAsks == ASSUME HomeInv, NEW id \in Chat \cup Player, allowKnown(id) PROVE HomeInv'
<1>0. PresentIn(home, id) \in BOOLEAN
  BY DEF PresentIn
<1>1. PICK saw \in BOOLEAN : saw = PresentIn(home, id)
  BY <1>0, Zenon
<1> DEFINE pc == IF id \in gate.cache THEN "passed" ELSE IF id \in allowed THEN "presence" ELSE "player"
           n == gate.calls + 1
           g == [[[[gate EXCEPT !.pc = pc] EXCEPT !.id = id] EXCEPT !.sawPresent = saw] EXCEPT !.calls = n]
<1>2. gate' = g /\ UNCHANGED <<home, tx>>
  BY <1>1, GateFacts, Zenon DEF allowKnown, GateRecord
<1>3. n \in Nat
  BY GateFacts DEF GateRecord
<1>4. /\ pc \in {"passed", "presence", "player"}
      /\ pc = "passed" => id \in gate.cache
      /\ pc = "presence" => id \in allowed
  OBVIOUS
<1> HIDE DEF pc, n
<1>5. /\ g \in GateRecord /\ g.cache = gate.cache /\ g.id = id /\ g.pc = pc /\ g.sawPresent = saw
  BY <1>3, <1>4, GateFacts DEF GateRecord
<1> HIDE DEF g
<1>6. GateInv'
  BY <1>1, <1>2, <1>4, <1>5, GateFacts DEF GateInv, PresentIn
<1> QED
  BY <1>2, <1>5, <1>6, GateStep

LEMMA GateMoves ==
  ASSUME HomeInv, BotPresentInChat \/ PlayerExists \/ Remember \/ CallOver
  PROVE  HomeInv'
<1>0. gate \in GateRecord /\ GateInv /\ UNCHANGED <<home, tx>>
  BY GateFacts DEF BotPresentInChat, PlayerExists, Remember, CallOver
<1>1. CASE BotPresentInChat
  <2>1. PICK pc \in {"passed", "player", "refused"} :
          /\ gate' = [gate EXCEPT !.pc = pc] /\ gate.pc = "presence"
          /\ pc = "passed" => PresentIn(home, gate.id)
    BY <1>1 DEF BotPresentInChat
  <2>2. /\ gate' \in GateRecord /\ gate'.pc = pc /\ gate'.cache = gate.cache /\ gate'.id = gate.id
        /\ gate'.sawPresent = gate.sawPresent
    BY <1>0, <2>1 DEF GateRecord
  <2>3. GateInv'
    BY <1>0, <2>1, <2>2 DEF GateInv, PresentIn
  <2> QED
    BY <1>0, <2>2, <2>3, GateStep
<1>2. CASE PlayerExists
  <2>1. PICK pc \in {"caching", "refused"} :
          /\ gate' = [gate EXCEPT !.pc = pc] /\ gate.pc = "player"
          /\ pc = "caching" => gate.id \in home.owner \cap Player
    BY <1>2 DEF PlayerExists
  <2>2. /\ gate' \in GateRecord /\ gate'.pc = pc /\ gate'.cache = gate.cache /\ gate'.id = gate.id
        /\ gate'.sawPresent = gate.sawPresent
    BY <1>0, <2>1 DEF GateRecord
  <2>3. GateInv'
    BY <1>0, <2>1, <2>2 DEF GateInv, PresentIn
  <2> QED
    BY <1>0, <2>2, <2>3, GateStep
<1>3. CASE Remember
  <2> DEFINE cache == gate.cache \cup {gate.id}
             g == [[gate EXCEPT !.cache = cache] EXCEPT !.pc = "passed"]
  <2>1. gate' = g /\ gate.pc = "caching" /\ gate.id \in home.owner \cap Player
    BY <1>0, <1>3, Zenon DEF Remember, GateInv
  <2>2. cache \subseteq home.owner \cap Player
    BY <1>0, <2>1 DEF GateInv
  <2> HIDE DEF cache
  <2>3. g \in GateRecord /\ g.pc = "passed" /\ g.cache = cache /\ g.id = gate.id /\ g.sawPresent = gate.sawPresent
    BY <1>0, <2>2 DEF GateRecord
  <2> HIDE DEF g
  <2>4. GateInv'
    BY <1>0, <2>1, <2>2, <2>3 DEF GateInv, PresentIn
  <2> QED
    BY <1>0, <2>1, <2>3, <2>4, GateStep
<1>4. CASE CallOver
  <2> DEFINE g == [[[gate EXCEPT !.pc = "idle"] EXCEPT !.id = NoChat] EXCEPT !.sawPresent = FALSE]
  <2>1. gate' = g
    BY <1>0, <1>4, Zenon DEF CallOver
  <2>2. g \in GateRecord /\ g.pc = "idle" /\ g.cache = gate.cache
    BY <1>0 DEF GateRecord
  <2> HIDE DEF g
  <2>3. GateInv'
    BY <1>0, <2>1, <2>2 DEF GateInv
  <2> QED
    BY <1>0, <2>1, <2>2, <2>3, GateStep
<1> QED
  BY <1>1, <1>2, <1>3, <1>4

LEMMA HomeKeepsInv == HomeInv /\ [HomeNext]_homeVars => HomeInv'
<1> SUFFICES ASSUME HomeInv, [HomeNext]_homeVars PROVE HomeInv'
  OBVIOUS
<1>1. ASSUME NEW l \in Loop, Fault(l) PROVE HomeInv'
  BY <1>1, RollBackStep DEF Fault, RolledBack
<1>2. CASE UNCHANGED homeVars
  <2>1. UNCHANGED <<home, tx, gate>>
    BY <1>2 DEF homeVars
  <2>2. GateInv'
    BY <2>1 DEF HomeInv, GateInv, PresentIn
  <2> QED
    BY <2>1, <2>2, GateFacts, GateStep
<1> QED
  BY <1>1, <1>2, HomeBegin, HomeEnsure, HomeCreate, HomeReadPresence, HomeSetPresence, HomeResolve,
     HomeMembership, HomeCommit, GateAsks, GateMoves DEF HomeNext

LEMMA HomeStart == HomeInit => HomeInv
<1> SUFFICES ASSUME HomeInit PROVE HomeInv
  OBVIOUS
<1>1. /\ home = [owner |-> {}, present |-> {}, member |-> {}, event |-> <<>>]
      /\ tx = [l \in Loop |-> NoTx(1)]
      /\ gate = [cache |-> {}, pc |-> "idle", id |-> NoChat, sawPresent |-> FALSE, calls |-> 0]
  BY DEF HomeInit, Rows
<1>2. /\ home.owner = {} /\ home.present = {} /\ home.member = {} /\ home.event = <<>>
      /\ <<>> \in Seq(HomeEvent) /\ DOMAIN <<>> = {}
  BY <1>1
<1> DEFINE x == NoTx(1)
<1>3. /\ x \in Tx /\ x.pc = "idle" /\ x.pos = 1 /\ x.joined = FALSE /\ x.owner = {} /\ x.member = {}
  BY DEF NoTx, Tx
<1>4. tx \in [Loop -> Tx] /\ \A l \in Loop : tx[l] = x
  BY <1>1, <1>3
<1> HIDE DEF x
<1>5. HomeTypeOK
  BY <1>1, <1>2, <1>4 DEF HomeTypeOK, Tx, GateRecord
<1>6. Apart /\ \A l \in Loop : TxOK(tx[l])
  BY <1>3, <1>4 DEF Apart, TxOK
<1>7. EventsTell
  BY <1>2 DEF EventsTell, MadeAt, JoinedAt
<1>8. GateInv
  BY <1>1 DEF GateInv
<1> QED
  BY <1>5, <1>6, <1>7, <1>8 DEF HomeInv

\* Whatever handlers overlap, fail or are repeated, the inductive invariant holds
\* (StartHandler, PresenceHandler, Gate).
THEOREM HomeInvariant == HomeSpec => []HomeInv
<1> QED
  BY HomeStart, HomeKeepsInv, PTL DEF HomeSpec

\* The set of one index counts one; StartedOnce is what EventsTell says.
LEMMA ToldOnce == HomeInv => StartedOnce
<1> SUFFICES ASSUME HomeInv, NEW p \in Player
             PROVE  /\ Cardinality({i \in Started(p) : home.event[i].made}) = Cardinality({p} \cap home.owner)
                    /\ \A c \in Chat :
                         Cardinality({i \in Started(p) : home.event[i].joined = c})
                           = Cardinality({<<c, p>>} \cap home.member)
  BY Zenon DEF StartedOnce
<1>0. /\ EventsTell /\ home.event \in Seq(HomeEvent)
      /\ Cardinality({}) = 0 /\ \A i : Cardinality({i}) = 1
  BY FS_EmptySet, FS_Singleton DEF HomeInv, HomeTypeOK
<1>1. \A i \in Started(p) : i \in DOMAIN home.event /\ home.event[i] \in HomeEvent /\ home.event[i].made \in BOOLEAN
  BY <1>0 DEF Started, HomeEvent
<1>2. {i \in Started(p) : home.event[i].made} = MadeAt(home.event, p)
  BY <1>1, Zenon DEF Started, MadeAt, IsMade, IsStart
<1>4. Cardinality(MadeAt(home.event, p)) = Cardinality({p} \cap home.owner)
  <2>1. CASE p \in home.owner
    <3>1. {p} \cap home.owner = {p}
      BY <2>1
    <3>2. \E i : MadeAt(home.event, p) = {i}
      BY <1>0, <2>1 DEF EventsTell
    <3> QED
      BY <1>0, <3>1, <3>2
  <2>2. CASE p \notin home.owner
    <3>1. {p} \cap home.owner = {} /\ MadeAt(home.event, p) = {}
      BY <1>0, <2>2 DEF EventsTell
    <3> QED
      BY <3>1
  <2> QED
    BY <2>1, <2>2
<1>5. ASSUME NEW c \in Chat
      PROVE  Cardinality({i \in Started(p) : home.event[i].joined = c}) = Cardinality({<<c, p>>} \cap home.member)
  <2>1. {i \in Started(p) : home.event[i].joined = c} = JoinedAt(home.event, c, p)
    BY Zenon DEF Started, JoinedAt, IsJoined, IsStart
  <2>2. CASE <<c, p>> \in home.member
    <3>1. {<<c, p>>} \cap home.member = {<<c, p>>}
      BY <2>2
    <3>2. \E i : JoinedAt(home.event, c, p) = {i}
      BY <1>0, <2>2 DEF EventsTell
    <3> QED
      BY <1>0, <2>1, <3>1, <3>2
  <2>3. CASE <<c, p>> \notin home.member
    <3>1. {<<c, p>>} \cap home.member = {} /\ JoinedAt(home.event, c, p) = {}
      BY <1>0, <2>3 DEF EventsTell
    <3> QED
      BY <2>1, <3>1
  <2> QED
    BY <2>2, <2>3
<1> QED
  BY <1>2, <1>4, <1>5

\* A player's creation and each of its memberships are told by exactly one
\* player_started event (StartHandler, EnsureOwner).
THEOREM StartedOnceTheorem == HomeSpec => []StartedOnce
<1> QED
  BY HomeInvariant, ToldOnce, PTL

\* A call passes only to a player that exists, or to an allowlisted chat the bot
\* was present in while the call was decided (Gate.allowKnown).
THEOREM GateIsHonestTheorem == HomeSpec => []GateIsHonest
<1>1. HomeInv => GateIsHonest
  BY DEF HomeInv, GateInv, GateIsHonest
<1> QED
  BY <1>1, HomeInvariant, PTL
----------------------------------------------------------------------------
(* The inside of a chunk (Maze): first, what a search over adjacencies finds, *)
(* and what it is for edges to span a set. *)

\* The search a step at a time: what is reached in i steps.
Search(start, adj, n, after) ==
  after = [i \in 0..n |-> IF i = 0 THEN {start}
                          ELSE after[i - 1] \cup UNION {adj[c] \cap DOMAIN adj : c \in after[i - 1]}]

\* There is one, of any length.
LEMMA SearchExists ==
  ASSUME NEW start, NEW adj, NEW n \in Nat
  PROVE  \E after : Search(start, adj, n, after)
<1> DEFINE Bad == {m \in Nat : ~ \E after : Search(start, adj, m, after)}
<1> SUFFICES ASSUME Bad # {} PROVE FALSE
  OBVIOUS
<1>1. PICK m \in Bad : \A k \in Bad : m <= k
  <2> HIDE DEF Bad
  <2>1. Bad \in SUBSET Nat
    BY DEF Bad
  <2> QED
    BY <2>1, LeastOf
<1>2. m # 0
  <2>1. Search(start, adj, 0, [i \in 0..0 |-> {start}])
    BY DEF Search
  <2> QED
    BY <1>1, <2>1
<1>3. m - 1 \in Nat /\ m - 1 \notin Bad
  BY <1>1, <1>2
<1>4. PICK f : Search(start, adj, m - 1, f)
  BY <1>3
<1> DEFINE Wider(s) == s \cup UNION {adj[c] \cap DOMAIN adj : c \in s}
           more == [i \in 0..m |-> IF i = 0 THEN {start} ELSE Wider(f[i - 1])]
<1> HIDE DEF Wider
<1>5. \A i \in 0 .. m - 1 : f[i] = IF i = 0 THEN {start} ELSE Wider(f[i - 1])
  BY <1>4 DEF Search, Wider
<1>6. \A i \in 0..m : more[i] = IF i = 0 THEN {start} ELSE Wider(f[i - 1])
  OBVIOUS
<1>7. more = [i \in 0..m |-> more[i]]
  OBVIOUS
<1> HIDE DEF more
<1>8. ASSUME NEW i \in 0..m PROVE more[i] = IF i = 0 THEN {start} ELSE Wider(more[i - 1])
  <2>1. CASE i = 0
    BY <1>6, <2>1
  <2>2. CASE i # 0
    <3>1. i - 1 \in 0 .. m - 1 /\ i - 1 \in 0..m
      BY <1>3, <2>2
    <3>2. more[i - 1] = f[i - 1]
      BY <1>5, <1>6, <3>1
    <3> QED
      BY <1>6, <2>2, <3>2
  <2> QED
    BY <2>1, <2>2
<1>9. more = [i \in 0..m |-> IF i = 0 THEN {start} ELSE Wider(more[i - 1])]
  BY <1>7, <1>8
<1>10. Search(start, adj, m, more)
  BY <1>9 DEF Search, Wider
<1> QED
  BY <1>1, <1>10

\* So what Reached gives is the end of such a search.
LEMMA ReachedIs ==
  ASSUME NEW start, NEW adj, IsFiniteSet(DOMAIN adj)
  PROVE  \E after : /\ Search(start, adj, Cardinality(DOMAIN adj), after)
                    /\ Reached(start, adj) = after[Cardinality(DOMAIN adj)]
<1> DEFINE n == Cardinality(DOMAIN adj)
           after == CHOOSE f : Search(start, adj, n, f)
<1>1. n \in Nat
  BY FS_CardinalityType
<1>2. Search(start, adj, n, after)
  BY <1>1, SearchExists
<1>3. Reached(start, adj) = after[n]
  BY Zenon DEF Reached, Search
<1> QED
  BY <1>2, <1>3

Wide(adj, S) == \A c \in S : adj[c] \cap DOMAIN adj \subseteq S

\* What is reached holds the start and is closed under adj, and is the least that
\* is: a search that has not closed after n steps has found more than n cells.
LEMMA ReachedCloses ==
  ASSUME NEW adj, IsFiniteSet(DOMAIN adj), NEW start \in DOMAIN adj
  PROVE  /\ Reached(start, adj) \subseteq DOMAIN adj
         /\ start \in Reached(start, adj)
         /\ Wide(adj, Reached(start, adj))
         /\ \A S : start \in S /\ Wide(adj, S) => Reached(start, adj) \subseteq S
<1> DEFINE n == Cardinality(DOMAIN adj)
<1>1. PICK after : Search(start, adj, n, after) /\ Reached(start, adj) = after[n]
  BY ReachedIs
<1>2. n \in Nat
  BY FS_CardinalityType
<1> DEFINE Wider(s) == s \cup UNION {adj[c] \cap DOMAIN adj : c \in s}
<1>3. \A i \in 0..n : after[i] = IF i = 0 THEN {start} ELSE Wider(after[i - 1])
  BY <1>1 DEF Search
<1>4. \A s : s \subseteq Wider(s) /\ (s \subseteq DOMAIN adj => Wider(s) \subseteq DOMAIN adj)
  OBVIOUS
<1>5. \A s : Wide(adj, s) => Wider(s) = s
  BY DEF Wide
<1>6. \A s : Wider(s) = s => Wide(adj, s)
  BY DEF Wide
<1>7. \A s, S : s \subseteq S /\ Wide(adj, S) => Wider(s) \subseteq S
  BY DEF Wide
<1> HIDE DEF n, Wider
<1>10. ASSUME NEW i \in 1..n PROVE i - 1 \in 0..n /\ after[i] = Wider(after[i - 1])
  BY <1>2, <1>3
<1>11. after[0] = {start}
  BY <1>2, <1>3
<1> DEFINE Found(i) ==
             /\ after[i] \subseteq DOMAIN adj /\ start \in after[i]
             /\ Wide(adj, after[i]) \/ Cardinality(after[i]) >= i + 1
             /\ \A S : start \in S /\ Wide(adj, S) => after[i] \subseteq S
           Bad == {i \in 0..n : ~Found(i)}
<1>12. Found(0)
  <2>1. Cardinality({start}) = 1
    BY FS_Singleton
  <2> QED
    BY <1>11, <2>1
<1>13. ASSUME NEW i \in 1..n, Found(i - 1) PROVE Found(i)
  <2>1. after[i] = Wider(after[i - 1])
    BY <1>10
  <2>2. after[i] \subseteq DOMAIN adj /\ start \in after[i]
    BY <1>4, <1>13, <2>1
  <2>3. \A S : start \in S /\ Wide(adj, S) => after[i] \subseteq S
    BY <1>7, <1>13, <2>1
  <2>4. CASE Wider(after[i - 1]) = after[i - 1]
    BY <1>6, <2>1, <2>2, <2>3, <2>4
  <2>5. CASE Wider(after[i - 1]) # after[i - 1]
    <3>1. ~Wide(adj, after[i - 1])
      BY <1>5, <2>5
    <3>2. Cardinality(after[i - 1]) >= i
      BY <1>13, <3>1
    <3>3. PICK x \in after[i] : x \notin after[i - 1]
      BY <1>4, <2>1, <2>5
    <3>4. IsFiniteSet(after[i]) /\ IsFiniteSet(after[i - 1])
      BY <1>13, <2>2, FS_Subset
    <3>5. /\ IsFiniteSet(after[i - 1] \cup {x})
          /\ Cardinality(after[i - 1] \cup {x}) = Cardinality(after[i - 1]) + 1
      BY <3>3, <3>4, FS_AddElement
    <3>6. after[i - 1] \cup {x} \subseteq after[i]
      BY <1>4, <2>1, <3>3
    <3>7. Cardinality(after[i - 1] \cup {x}) <= Cardinality(after[i])
      BY <3>4, <3>6, FS_Subset
    <3>8. /\ Cardinality(after[i]) \in Nat /\ Cardinality(after[i - 1]) \in Nat
      BY <3>4, FS_CardinalityType
    <3>9. Cardinality(after[i]) >= i + 1
      BY <3>2, <3>5, <3>7, <3>8
    <3> QED
      BY <2>2, <2>3, <3>9
  <2> QED
    BY <2>4, <2>5
<1>14. Bad = {}
  <2> SUFFICES ASSUME Bad # {} PROVE FALSE
    OBVIOUS
  <2>1. PICK m \in Bad : \A k \in Bad : m <= k
    <3>1. Bad \in SUBSET Nat
      BY <1>2
    <3> HIDE DEF Bad
    <3> QED
      BY <3>1, LeastOf
  <2> HIDE DEF Found
  <2>2. m # 0
    BY <1>12, <2>1
  <2>3. m \in 1..n /\ m - 1 \in 0..n
    BY <1>2, <2>1, <2>2
  <2>4. Found(m - 1)
    BY <2>1, <2>3
  <2>5. Found(m)
    BY <1>13, <2>3, <2>4
  <2> QED
    BY <2>1, <2>5
<1>15. Found(n)
  <2>1. n \in 0..n
    BY <1>2
  <2> HIDE DEF Found
  <2> QED
    BY <1>14, <2>1
<1>16. Cardinality(after[n]) <= n
  BY <1>15, FS_Subset DEF n
<1>17. Cardinality(after[n]) \in Nat
  BY <1>15, FS_Subset, FS_CardinalityType
<1>18. Wide(adj, after[n])
  BY <1>2, <1>15, <1>16, <1>17
<1> QED
  BY <1>1, <1>15, <1>18

\* The edges of E join all of V: no part of V but the whole is closed under them.
Spans(V, E) ==
  \A S \in SUBSET V : S # {} /\ (\A a \in S, b \in V : {a, b} \in E => b \in S) => S = V

LEMMA SpansOne ==
  ASSUME NEW v, NEW E
  PROVE  Spans({v}, E) /\ Spans({}, E)
BY DEF Spans

LEMMA SpansWider ==
  ASSUME NEW V, NEW E, NEW W, Spans(V, E), E \subseteq W
  PROVE  Spans(V, W)
BY DEF Spans

\* Two spanned sets with an edge between them are spanned together.
LEMMA SpansUnion ==
  ASSUME NEW A, NEW B, NEW E, NEW F, Spans(A, E), Spans(B, E), E \subseteq F,
         NEW a \in A, NEW b \in B, {a, b} \in F
  PROVE  Spans(A \cup B, F)
<1> SUFFICES ASSUME NEW S \in SUBSET (A \cup B), S # {},
                    \A x \in S, y \in A \cup B : {x, y} \in F => y \in S
             PROVE  S = A \cup B
  BY DEF Spans
<1>1. S \cap A # {} => A \subseteq S
  <2> SUFFICES ASSUME S \cap A # {} PROVE A \subseteq S
    OBVIOUS
  <2>1. \A x \in S \cap A, y \in A : {x, y} \in E => y \in S \cap A
    OBVIOUS
  <2>2. S \cap A = A
    BY <2>1, S \cap A \in SUBSET A DEF Spans
  <2> QED
    BY <2>2
<1>2. S \cap B # {} => B \subseteq S
  <2> SUFFICES ASSUME S \cap B # {} PROVE B \subseteq S
    OBVIOUS
  <2>1. \A x \in S \cap B, y \in B : {x, y} \in E => y \in S \cap B
    OBVIOUS
  <2>2. S \cap B = B
    BY <2>1, S \cap B \in SUBSET B DEF Spans
  <2> QED
    BY <2>2
<1>3. {b, a} \in F
  <2>1. {b, a} = {a, b}
    OBVIOUS
  <2> QED
    BY <2>1
<1>4. a \in S => b \in S
  OBVIOUS
<1>5. b \in S => a \in S
  BY <1>3
<1> QED
  BY <1>1, <1>2, <1>4, <1>5

\* A search over adjacencies that hold the edges finds all that they span.
LEMMA SpansReached ==
  ASSUME NEW V, NEW E, IsFiniteSet(V), Spans(V, E), NEW adj, DOMAIN adj = V, NEW start \in V,
         \A a, b \in V : {a, b} \in E => b \in adj[a]
  PROVE  Reached(start, adj) = V
<1>1. /\ Reached(start, adj) \subseteq V /\ start \in Reached(start, adj)
      /\ Wide(adj, Reached(start, adj))
  BY ReachedCloses
<1>2. \A a \in Reached(start, adj), b \in V : {a, b} \in E => b \in Reached(start, adj)
  BY <1>1 DEF Wide
<1> QED
  BY <1>1, <1>2 DEF Spans

\* And what a search finds, its edges span, when they lead both ways.
LEMMA ReachedSpans ==
  ASSUME NEW V, NEW E, IsFiniteSet(V), NEW adj, DOMAIN adj = V, NEW start \in V,
         Reached(start, adj) = V,
         \A a, b \in V : b \in adj[a] => {a, b} \in E
  PROVE  Spans(V, E)
<1> SUFFICES ASSUME NEW S \in SUBSET V, S # {},
                    \A x \in S, y \in V : {x, y} \in E => y \in S
             PROVE  S = V
  BY DEF Spans
<1>1. \A T : start \in T /\ Wide(adj, T) => V \subseteq T
  BY ReachedCloses
<1>2. start \in S
  <2> SUFFICES ASSUME start \notin S PROVE FALSE
    OBVIOUS
  <2>1. ASSUME NEW a \in V \ S, NEW b \in adj[a] \cap V PROVE b \in V \ S
    <3>1. {a, b} \in E /\ {a, b} = {b, a}
      OBVIOUS
    <3> QED
      BY <3>1
  <2>2. Wide(adj, V \ S)
    BY <2>1 DEF Wide
  <2>3. V \subseteq V \ S
    BY <1>1, <2>2
  <2> QED
    BY <2>3
<1>3. Wide(adj, S)
  BY DEF Wide
<1> QED
  BY <1>1, <1>2, <1>3
----------------------------------------------------------------------------
\* Two cells of the lattice that share a face, and the faces within a set of cells.
Touch(a, b) == \E d \in Direction : b = Neighbor(a, d)
Faces(cs) == {f \in SUBSET cs : \E a, b \in cs : Touch(a, b) /\ f = {a, b}}

LEMMA TouchBothWays ==
  ASSUME NEW a \in ChunkAt, NEW b, Touch(a, b)
  PROVE  b \in ChunkAt /\ Touch(b, a) /\ a # b
<1>1. PICK d \in Direction : b = Neighbor(a, d)
  BY DEF Touch
<1>2. Opposite(d) \in Direction /\ Neighbor(b, Opposite(d)) = a
  BY <1>1, StepsUndo, NeighborBack
<1> QED
  BY <1>1, <1>2, NeighborBack DEF Touch

LEMMA FaceTouches ==
  ASSUME NEW cs \in SUBSET ChunkAt, NEW a, NEW b
  PROVE  {a, b} \in Faces(cs) <=> a \in cs /\ b \in cs /\ Touch(a, b)
<1>1. ASSUME {a, b} \in Faces(cs) PROVE a \in cs /\ b \in cs /\ Touch(a, b)
  <2>1. PICK x, y \in cs : Touch(x, y) /\ {a, b} = {x, y}
    BY <1>1 DEF Faces
  <2>2. Touch(y, x) /\ x # y
    BY <2>1, TouchBothWays
  <2>3. (a = x /\ b = y) \/ (a = y /\ b = x)
    BY <2>1, <2>2
  <2> QED
    BY <2>1, <2>2, <2>3
<1>2. ASSUME a \in cs, b \in cs, Touch(a, b) PROVE {a, b} \in Faces(cs)
  BY <1>2 DEF Faces
<1> QED
  BY <1>1, <1>2

LEMMA FacesWithin ==
  ASSUME NEW cs, NEW V, cs \subseteq V
  PROVE  Faces(cs) \subseteq Faces(V)
BY DEF Faces

LEMMA FacesFinite ==
  ASSUME NEW cs, IsFiniteSet(cs)
  PROVE  IsFiniteSet(Faces(cs))
<1>1. IsFiniteSet(SUBSET cs)
  BY FS_SUBSET
<1>2. Faces(cs) \subseteq SUBSET cs
  BY DEF Faces
<1> QED
  BY <1>1, <1>2, FS_Subset

LEMMA LocalCellsAre ==
  ASSUME NEW r \in Nat
  PROVE  /\ LocalCells(r) = {c \in ChunkAt : Distance(c, Origin) <= r}
         /\ IsFiniteSet(LocalCells(r))
         /\ Origin \in LocalCells(r) /\ Distance(Origin, Origin) = 0
         /\ At2(r, 0) \in LocalCells(r) /\ Distance(At2(r, 0), Origin) = r
<1>0. Origin \in ChunkAt /\ Origin.q = 0 /\ Origin.r = 0
  BY DEF Origin, At2, ChunkAt
<1>1. ASSUME NEW c \in ChunkAt PROVE c \in LocalCells(r) <=> Distance(c, Origin) <= r
  <2>1. c.q \in Int /\ c.r \in Int
    BY DEF ChunkAt
  <2>2. Distance(c, Origin) <= r <=> /\ c.q <= r /\ -c.q <= r /\ c.r <= r /\ -c.r <= r
                                     /\ c.q + c.r <= r /\ -c.q - c.r <= r
    BY <1>0, <2>1, NearIs
  <2>3. c \in LocalCells(r) <=> c.q \in -r..r /\ c.r \in -r..r /\ c.q + c.r \in -r..r
    BY DEF LocalCells, ChunkAt
  <2> QED
    BY <2>1, <2>2, <2>3
<1>2. LocalCells(r) \subseteq ChunkAt
  BY DEF LocalCells, ChunkAt
<1>3. IsFiniteSet(LocalCells(r))
  <2> DEFINE I == -r..r
             Box == [q : I, r : I]
             f == [x \in I \X I |-> At2(x[1], x[2])]
  <2>1. IsFiniteSet(I)
    BY FS_Interval
  <2>2. IsFiniteSet(I \X I)
    BY <2>1, FS_Product
  <2>3. f \in Surjection(I \X I, Box)
    <3>1. f \in [I \X I -> Box]
      BY DEF At2
    <3>2. ASSUME NEW b \in Box PROVE \E x \in I \X I : f[x] = b
      <4>1. <<b.q, b.r>> \in I \X I /\ f[<<b.q, b.r>>] = b
        BY DEF At2
      <4> QED
        BY <4>1
    <3> QED
      BY <3>1, <3>2 DEF Surjection
  <2>4. IsFiniteSet(Box)
    BY <2>2, <2>3, FS_Surjection
  <2>5. LocalCells(r) \subseteq Box
    BY DEF LocalCells
  <2> QED
    BY <2>4, <2>5, FS_Subset
<1>4. Distance(Origin, Origin) = 0
  BY <1>0, DistanceIs
<1>5. At2(r, 0) \in ChunkAt /\ Distance(At2(r, 0), Origin) = r
  <2>1. At2(r, 0) \in ChunkAt /\ At2(r, 0).q = r /\ At2(r, 0).r = 0
    BY DEF At2, ChunkAt
  <2> DEFINE a == At2(r, 0)
  <2>2. a \in ChunkAt /\ a.q = r /\ a.r = 0
    BY <2>1
  <2> HIDE DEF a
  <2>3. LET D == Distance(a, Origin)
        IN  D \in Nat /\ r - 0 <= D /\ D \in {r - 0, -(r - 0), 0 - 0, -(0 - 0), (r - 0) + (0 - 0), -(r - 0) - (0 - 0)}
    BY <1>0, <2>2, DistanceIs
  <2>4. Distance(a, Origin) = r
    BY <2>3
  <2> QED
    BY <2>1, <2>4 DEF a
<1> QED
  BY <1>0, <1>1, <1>2, <1>3, <1>4, <1>5

\* Off the centre, some neighbour is nearer to it.
LEMMA Inward ==
  ASSUME NEW c \in ChunkAt, c # Origin
  PROVE  \E d \in Direction : Distance(Neighbor(c, d), Origin) < Distance(c, Origin)
<1> DEFINE q == c.q
           r == c.r
           D == Distance(c, Origin)
<1>0. Origin \in ChunkAt /\ Origin.q = 0 /\ Origin.r = 0
  BY DEF Origin, At2, ChunkAt
<1>1. q \in Int /\ r \in Int
  BY DEF ChunkAt
<1>2. D \in Nat /\ q <= D /\ -q <= D /\ r <= D /\ -r <= D /\ q + r <= D /\ -q - r <= D
  BY <1>0, <1>1, DistanceIs
<1>3. q # 0 \/ r # 0
  BY <1>0, SamePlace
<1>4. ASSUME NEW d \in Direction
      PROVE  LET x == q + directionDeltas[d].q  y == r + directionDeltas[d].r
             IN  /\ x <= D - 1 /\ -x <= D - 1 /\ y <= D - 1 /\ -y <= D - 1
                 /\ x + y <= D - 1 /\ -x - y <= D - 1
                 => Distance(Neighbor(c, d), Origin) < D
  <2>1. directionDeltas[d] \in ChunkAt
    BY StepsUndo
  <2>2. directionDeltas[d].q \in Int /\ directionDeltas[d].r \in Int
    BY <2>1 DEF ChunkAt
  <2> DEFINE n == Neighbor(c, d)
             x == q + directionDeltas[d].q
             y == r + directionDeltas[d].r
  <2>3. n \in ChunkAt /\ n.q = x /\ n.r = y
    BY <2>1, PlusIs DEF Neighbor
  <2>4. x \in Int /\ y \in Int
    BY <1>1, <2>2
  <2> HIDE DEF n, x, y, D, q, r
  <2>5. Distance(n, Origin) <= D - 1 <=> /\ x <= D - 1 /\ -x <= D - 1 /\ y <= D - 1 /\ -y <= D - 1
                                         /\ x + y <= D - 1 /\ -x - y <= D - 1
    <3>1. D - 1 \in Int
      BY <1>2
    <3> QED
      BY <1>0, <2>3, <2>4, <3>1, NearIs
  <2>6. Distance(n, Origin) \in Nat
    BY <1>0, <2>3, DistanceIs
  <2> QED
    BY <1>2, <2>5, <2>6 DEF n, x, y, D, q, r
<1> HIDE DEF D, q, r
<1>5. /\ {0, 1, 2, 3, 4, 5} = Direction
      /\ directionDeltas[0].q = 1  /\ directionDeltas[0].r = 0
      /\ directionDeltas[1].q = 1  /\ directionDeltas[1].r = -1
      /\ directionDeltas[2].q = 0  /\ directionDeltas[2].r = -1
      /\ directionDeltas[3].q = -1 /\ directionDeltas[3].r = 0
      /\ directionDeltas[4].q = -1 /\ directionDeltas[4].r = 1
      /\ directionDeltas[5].q = 0  /\ directionDeltas[5].r = 1
  BY SixSteps DEF At2, Direction
<1>6. CASE q > 0 /\ r >= 0
  <2>1. 3 \in Direction
    BY <1>5
  <2>2. Distance(Neighbor(c, 3), Origin) < D
    BY <1>1, <1>2, <1>4, <1>5, <1>6, <2>1
  <2> QED
    BY <2>1, <2>2 DEF D
<1>7. CASE q <= 0 /\ r > 0 /\ q + r > 0
  <2>1. 2 \in Direction
    BY <1>5
  <2>2. Distance(Neighbor(c, 2), Origin) < D
    BY <1>1, <1>2, <1>4, <1>5, <1>7, <2>1
  <2> QED
    BY <2>1, <2>2 DEF D
<1>8. CASE q < 0 /\ r > 0 /\ q + r <= 0
  <2>1. 1 \in Direction
    BY <1>5
  <2>2. Distance(Neighbor(c, 1), Origin) < D
    BY <1>1, <1>2, <1>4, <1>5, <1>8, <2>1
  <2> QED
    BY <2>1, <2>2 DEF D
<1>9. CASE q < 0 /\ r <= 0
  <2>1. 0 \in Direction
    BY <1>5
  <2>2. Distance(Neighbor(c, 0), Origin) < D
    BY <1>1, <1>2, <1>4, <1>5, <1>9, <2>1
  <2> QED
    BY <2>1, <2>2 DEF D
<1>10. CASE q >= 0 /\ r < 0 /\ q + r < 0
  <2>1. 5 \in Direction
    BY <1>5
  <2>2. Distance(Neighbor(c, 5), Origin) < D
    BY <1>1, <1>2, <1>4, <1>5, <1>10, <2>1
  <2> QED
    BY <2>1, <2>2 DEF D
<1>11. CASE q > 0 /\ r < 0 /\ q + r >= 0
  <2>1. 4 \in Direction
    BY <1>5
  <2>2. Distance(Neighbor(c, 4), Origin) < D
    BY <1>1, <1>2, <1>4, <1>5, <1>11, <2>1
  <2> QED
    BY <2>1, <2>2 DEF D
<1> QED
  BY <1>1, <1>3, <1>6, <1>7, <1>8, <1>9, <1>10, <1>11 DEF D

\* So the faces of a chunk join its cells.
LEMMA CellsSpan ==
  ASSUME NEW r \in Nat
  PROVE  Spans(LocalCells(r), Faces(LocalCells(r)))
<1> DEFINE C == LocalCells(r)
<1>1. C = {c \in ChunkAt : Distance(c, Origin) <= r}
  BY LocalCellsAre
<1> HIDE DEF C
<1>2. ASSUME NEW S \in SUBSET C, S # {}, \A a \in S, b \in C : {a, b} \in Faces(C) => b \in S
      PROVE  Origin \in S
  <2> DEFINE far == {Distance(c, Origin) : c \in S}
  <2>1. \A c \in ChunkAt : Distance(c, Origin) \in Nat
    BY DistanceIs DEF Origin, At2, ChunkAt
  <2>2. far \in SUBSET Nat /\ far # {}
    BY <1>1, <1>2, <2>1
  <2>3. PICK m \in far : \A x \in far : m <= x
    <3> HIDE DEF far
    <3> QED
      BY <2>2, LeastOf
  <2>4. PICK c \in S : Distance(c, Origin) = m
    BY <2>3
  <2> SUFFICES ASSUME c # Origin PROVE FALSE
    BY <2>4
  <2>5. c \in ChunkAt /\ c \in C
    BY <1>1, <1>2
  <2>6. PICK d \in Direction : Distance(Neighbor(c, d), Origin) < Distance(c, Origin)
    BY <2>5, Inward
  <2> DEFINE n == Neighbor(c, d)
  <2>7. n \in ChunkAt /\ Touch(c, n)
    BY <2>5, NeighborBack DEF Touch
  <2>8. Distance(n, Origin) < Distance(c, Origin)
    BY <2>6
  <2> HIDE DEF n
  <2>9. Distance(c, Origin) <= r /\ Distance(c, Origin) \in Nat /\ Distance(n, Origin) \in Nat
    BY <1>1, <2>1, <2>5, <2>7
  <2>10. n \in C
    BY <1>1, <2>7, <2>8, <2>9
  <2>11. C \in SUBSET ChunkAt
    BY <1>1
  <2>12. {c, n} \in Faces(C)
    BY <2>5, <2>7, <2>10, <2>11, FaceTouches
  <2>13. n \in S
    BY <1>2, <2>10, <2>12
  <2> QED
    BY <2>3, <2>4, <2>8, <2>9, <2>13
<1> SUFFICES ASSUME NEW S \in SUBSET C, S # {}, \A a \in S, b \in C : {a, b} \in Faces(C) => b \in S,
                    S # C
             PROVE  FALSE
  BY DEF Spans, C
<1>3. Origin \in S
  BY <1>2
<1>4. ASSUME NEW a \in C \ S, NEW b \in C, {a, b} \in Faces(C) PROVE b \in C \ S
  <2>1. {b, a} \in Faces(C)
    <3>1. {a, b} = {b, a}
      OBVIOUS
    <3> QED
      BY <1>4, <3>1
  <2> QED
    BY <2>1
<1>5. C \ S \in SUBSET C /\ C \ S # {}
  OBVIOUS
<1>6. Origin \in C \ S
  <2> DEFINE T == C \ S
  <2>1. T \in SUBSET C /\ T # {} /\ \A a \in T, b \in C : {a, b} \in Faces(C) => b \in T
    BY <1>4, <1>5
  <2> HIDE DEF T
  <2>2. Origin \in T
    BY <1>2, <2>1
  <2> QED
    BY <2>2 DEF T
<1> QED
  BY <1>3, <1>6

\* Maze, the inductive invariant, of a chunk under generation: its cells off the
\* islands, and that those stay joined.
OffIslands(m) == LocalCells(m.p.radius) \ m.islands

Inside(m) == {c \in LocalCells(m.p.radius) :
                Distance(c, Origin) < m.p.radius /\ ~(m.typ = "gate" /\ c = Origin)}

Fields(m) ==
  m = [p |-> m.p, typ |-> m.typ, phase |-> m.phase, islands |-> m.islands, todo |-> m.todo,
       algo |-> m.algo, open |-> m.open, inTree |-> m.inTree, path |-> m.path, edge |-> m.edge,
       label |-> m.label, next |-> m.next, start |-> m.start, cur |-> m.cur, portals |-> m.portals]

Chunk(m) ==
  /\ m.p \in Parameters /\ valid(m.p)
  /\ m.islands \subseteq Inside(m)
  /\ Spans(OffIslands(m), Faces(OffIslands(m)))
  /\ m.open \subseteq Faces(OffIslands(m))

\* The tree so far spans the cells it has visited, with one face less than cells.
Tree(m) ==
  /\ m.inTree \subseteq OffIslands(m) /\ m.inTree # {}
  /\ m.open \subseteq Faces(m.inTree)
  /\ Spans(m.inTree, m.open)
  /\ Cardinality(m.inTree) = Cardinality(m.open) + 1

Settled(m, c) == \A n \in OffIslands(m) : Touch(c, n) => n \in m.inTree

\* What is left to do is on the stack, in the frontier, among the active cells.
Stack(m) == /\ m.path \in Seq(m.inTree)
            /\ \A c \in m.inTree : Settled(m, c) \/ \E i \in 1 .. Len(m.path) : m.path[i] = c
Frontier(m) == m.edge = {n \in OffIslands(m) \ m.inTree : \E c \in m.inTree : Touch(c, n)}
Active(m) == m.edge \subseteq m.inTree /\ \A c \in m.inTree \ m.edge : Settled(m, c)

\* From every cell the walk left, the steps last taken lead to where it is.
Leads(next, cur, S) == S # {} /\ (\A c \in S \cap DOMAIN next : next[c] \in S) => cur \in S
Walked(m) ==
  IF m.cur = NoCell THEN m.next = <<>>
  ELSE /\ m.cur \in OffIslands(m) /\ m.start \in OffIslands(m) \ m.inTree
       /\ m.start \in DOMAIN m.next \cup {m.cur}
       /\ DOMAIN m.next \subseteq OffIslands(m) \ m.inTree
       /\ \A c \in DOMAIN m.next : Touch(c, m.next[c]) /\ m.next[c] \in DOMAIN m.next \cup {m.cur}
       /\ \A S \in SUBSET (DOMAIN m.next \cup {m.cur}) : Leads(m.next, m.cur, S)

\* Kruskal: the cells of one label are spanned, what has been looked at joins
\* equal labels, and every face opened has cost one label.
Labelled(m, l) == {c \in OffIslands(m) : m.label[c] = l}
Labels(m) == {m.label[c] : c \in OffIslands(m)}
Merged(m) ==
  /\ m.label \in [LocalCells(m.p.radius) -> LocalCells(m.p.radius)]
  /\ m.todo \subseteq Faces(OffIslands(m))
  /\ \A a, b \in OffIslands(m) : {a, b} \in m.open => m.label[a] = m.label[b]
  /\ \A a, b \in OffIslands(m) : Touch(a, b) /\ {a, b} \notin m.todo => m.label[a] = m.label[b]
  /\ \A l \in LocalCells(m.p.radius) : Spans(Labelled(m, l), m.open)
  /\ Cardinality(m.open) + Cardinality(Labels(m)) = Cardinality(OffIslands(m))

Progress(m) ==
  /\ m.algo \in Algorithm
  /\ m.algo # "kruskal" => Tree(m)
  /\ m.algo = "backtracker" => Stack(m)
  /\ m.algo = "prim" => Frontier(m)
  /\ m.algo = "growing_tree" => Active(m)
  /\ m.algo = "wilson_walk" => Walked(m)
  /\ m.algo = "kruskal" => Merged(m)

Spread(m) ==
  /\ m.portals \subseteq 0 .. 2 * m.p.radius
  /\ Cardinality(m.portals) \in m.p.lo .. m.p.hi
  /\ \A i \in m.portals : i + 1 \notin m.portals

MazeInv(m) ==
  \/ m = [phase |-> "none"]
  \/ /\ Fields(m) /\ Chunk(m) /\ m.phase \in {"islands", "build", "passages", "done"}
     /\ m.phase = "islands" => m.todo \subseteq Inside(m) /\ m.open = {} /\ m.next = <<>> /\ m.cur = NoCell
     /\ m.phase = "build" => Progress(m)
     /\ m.phase \in {"passages", "done"} => Cardinality(m.open) >= Cardinality(OffIslands(m)) - 1
     /\ m.phase = "done" => Spread(m)
----------------------------------------------------------------------------
\* The operators of the model on a chunk's cells.
LEMMA ChunkIs ==
  ASSUME maze.p \in Parameters
  PROVE  /\ maze.p.radius \in Nat
         /\ Cells = LocalCells(maze.p.radius) /\ Cells \in SUBSET ChunkAt /\ IsFiniteSet(Cells)
         /\ \A c \in Cells : neighbors(c) = {n \in Cells : Touch(c, n)}
         /\ \A cs \in SUBSET Cells : interiorFaces(cs) = Faces(cs)
         /\ nonIslandCells = OffIslands(maze)
         /\ \A c \in OffIslands(maze) : nonIslandNeighbors(c) = {n \in OffIslands(maze) : Touch(c, n)}
<1>1. maze.p.radius \in Nat
  BY MazeAssumption
<1>2. Cells = LocalCells(maze.p.radius) /\ Cells \in SUBSET ChunkAt /\ IsFiniteSet(Cells)
  BY <1>1, LocalCellsAre DEF Cells
<1>3. ASSUME NEW c \in Cells PROVE neighbors(c) = {n \in Cells : Touch(c, n)}
  <2>1. SidesOf[maze.p.radius] = Sides(maze.p.radius)
    BY DEF SidesOf
  <2>2. Sides(maze.p.radius)[c] = {Neighbor(c, d) : d \in Direction} \cap Cells
    BY <1>2, <1>3 DEF Sides
  <2> QED
    BY <2>1, <2>2 DEF neighbors, Touch
<1>4. ASSUME NEW cs \in SUBSET Cells PROVE interiorFaces(cs) = Faces(cs)
  <2>1. \A a, b \in cs : b \in neighbors(a) <=> Touch(a, b)
    BY <1>3, <1>4
  <2>2. ASSUME NEW f \in interiorFaces(cs) PROVE f \in Faces(cs)
    <3>1. PICK ab \in cs \X cs : ab[2] \in neighbors(ab[1]) /\ f = {ab[1], ab[2]}
      BY <2>2 DEF interiorFaces
    <3> QED
      BY <2>1, <3>1 DEF Faces
  <2>3. ASSUME NEW f \in Faces(cs) PROVE f \in interiorFaces(cs)
    <3>1. PICK a, b \in cs : Touch(a, b) /\ f = {a, b}
      BY <2>3 DEF Faces
    <3>2. <<a, b>> \in cs \X cs /\ <<a, b>>[2] \in neighbors(<<a, b>>[1]) /\ f = {<<a, b>>[1], <<a, b>>[2]}
      BY <2>1, <3>1
    <3> QED
      BY <3>2 DEF interiorFaces
  <2> QED
    BY <2>2, <2>3
<1>5. nonIslandCells = OffIslands(maze)
  BY <1>2 DEF nonIslandCells, OffIslands
<1>6. ASSUME NEW c \in OffIslands(maze) PROVE nonIslandNeighbors(c) = {n \in OffIslands(maze) : Touch(c, n)}
  <2>1. c \in Cells
    BY <1>2 DEF OffIslands
  <2> QED
    BY <1>2, <1>3, <2>1 DEF nonIslandNeighbors, OffIslands
<1> QED
  BY <1>1, <1>2, <1>3, <1>4, <1>5, <1>6

\* The cells off the islands are there, and finitely many; so are the faces.
LEMMA FreeIs ==
  ASSUME NEW m, Chunk(m)
  PROVE  /\ m.p.radius \in Nat
         /\ OffIslands(m) \in SUBSET ChunkAt /\ OffIslands(m) # {} /\ IsFiniteSet(OffIslands(m))
         /\ OffIslands(m) \subseteq LocalCells(m.p.radius)
         /\ At2(m.p.radius, 0) \in OffIslands(m)
         /\ IsFiniteSet(m.open)
<1>1. m.p.radius \in Nat
  BY MazeAssumption DEF Chunk
<1>2. /\ LocalCells(m.p.radius) \in SUBSET ChunkAt /\ IsFiniteSet(LocalCells(m.p.radius))
      /\ At2(m.p.radius, 0) \in LocalCells(m.p.radius)
      /\ Distance(At2(m.p.radius, 0), Origin) = m.p.radius
  BY <1>1, LocalCellsAre
<1>3. At2(m.p.radius, 0) \notin m.islands
  BY <1>1, <1>2 DEF Chunk, Inside
<1>4. IsFiniteSet(OffIslands(m)) /\ OffIslands(m) \in SUBSET ChunkAt
  BY <1>2, FS_Subset DEF OffIslands
<1>5. IsFiniteSet(m.open)
  BY <1>4, FacesFinite, FS_Subset DEF Chunk
<1> QED
  BY <1>1, <1>2, <1>3, <1>4, <1>5 DEF OffIslands

\* A tree all of whose cells are settled is the whole of it.
LEMMA SettledIsWhole ==
  ASSUME NEW m, Chunk(m), Tree(m), \A c \in m.inTree : Settled(m, c)
  PROVE  m.inTree = OffIslands(m)
<1>1. \A a \in m.inTree, b \in OffIslands(m) : {a, b} \in Faces(OffIslands(m)) => b \in m.inTree
  BY FreeIs, FaceTouches DEF Settled
<1> QED
  BY <1>1 DEF Chunk, Tree, Spans

\* When no face is left to look at, one label is left.
LEMMA MergedIsWhole ==
  ASSUME NEW m, Chunk(m), Merged(m), m.todo = {}
  PROVE  Cardinality(m.open) = Cardinality(OffIslands(m)) - 1 /\ Spans(OffIslands(m), m.open)
<1> DEFINE c0 == At2(m.p.radius, 0)
           l == m.label[c0]
<1>1. c0 \in OffIslands(m) /\ OffIslands(m) \subseteq LocalCells(m.p.radius) /\ OffIslands(m) \in SUBSET ChunkAt
      /\ IsFiniteSet(OffIslands(m)) /\ IsFiniteSet(m.open)
  BY FreeIs
<1> HIDE DEF c0
<1>2. l \in LocalCells(m.p.radius)
  BY <1>1 DEF Merged
<1>3. \A a \in Labelled(m, l), b \in OffIslands(m) : {a, b} \in Faces(OffIslands(m)) => b \in Labelled(m, l)
  <2> SUFFICES ASSUME NEW a \in Labelled(m, l), NEW b \in OffIslands(m), {a, b} \in Faces(OffIslands(m))
               PROVE  m.label[b] = l
    BY DEF Labelled
  <2>1. a \in OffIslands(m) /\ m.label[a] = l
    BY DEF Labelled
  <2>2. Touch(a, b)
    BY <1>1, FaceTouches
  <2>3. m.label[a] = m.label[b]
    BY <2>1, <2>2 DEF Merged
  <2> QED
    BY <2>1, <2>3
<1>4. Labelled(m, l) \in SUBSET OffIslands(m) /\ Labelled(m, l) # {}
  BY <1>1 DEF Labelled
<1>5. Labelled(m, l) = OffIslands(m)
  BY <1>3, <1>4 DEF Chunk, Spans
<1>6. Spans(OffIslands(m), m.open)
  BY <1>2, <1>5 DEF Merged
<1>7. Labels(m) = {l}
  BY <1>1, <1>5 DEF Labels, Labelled
<1>8. Cardinality(Labels(m)) = 1
  BY <1>7, FS_Singleton
<1>9. Cardinality(m.open) \in Nat /\ Cardinality(OffIslands(m)) \in Nat
  BY <1>1, FS_CardinalityType
<1>10. Cardinality(m.open) + Cardinality(Labels(m)) = Cardinality(OffIslands(m))
  BY DEF Merged
<1> QED
  BY <1>6, <1>8, <1>9, <1>10

\* Whatever the algorithm, what it ends with spans the cells without a cycle.
LEMMA BuiltSpans ==
  ASSUME MazeInv(maze), Built
  PROVE  Cardinality(maze.open) = Cardinality(OffIslands(maze)) - 1 /\ Spans(OffIslands(maze), maze.open)
<1>1. maze.phase = "build" /\ maze.todo = {} /\ maze.path = <<>> /\ maze.edge = {} /\ maze.cur = NoCell
      /\ (maze.algo = "wilson_walk" => nonIslandCells = maze.inTree)
  BY DEF Built
<1>2. Chunk(maze) /\ Progress(maze)
  <2>1. maze # [phase |-> "none"]
    BY <1>1
  <2> QED
    BY <1>1, <2>1 DEF MazeInv
<1>3. CASE maze.algo = "kruskal"
  BY <1>1, <1>2, <1>3, MergedIsWhole DEF Progress
<1>4. CASE maze.algo # "kruskal"
  <2>1. Tree(maze)
    BY <1>2, <1>4 DEF Progress
  <2>2. maze.inTree = OffIslands(maze)
    <3>1. CASE maze.algo = "wilson_walk"
      BY <1>1, <1>2, <3>1, ChunkIs DEF Chunk
    <3>2. CASE maze.algo = "backtracker"
      <4>1. Stack(maze)
        BY <1>2, <3>2 DEF Progress
      <4>2. 1 .. Len(maze.path) = {}
        BY <1>1
      <4>3. \A c \in maze.inTree : Settled(maze, c)
        BY <4>1, <4>2 DEF Stack
      <4> QED
        BY <1>2, <2>1, <4>3, SettledIsWhole
    <3>3. CASE maze.algo = "prim"
      <4>1. Frontier(maze)
        BY <1>2, <3>3 DEF Progress
      <4>2. \A c \in maze.inTree : Settled(maze, c)
        BY <1>1, <4>1 DEF Frontier, Settled
      <4> QED
        BY <1>2, <2>1, <4>2, SettledIsWhole
    <3>4. CASE maze.algo = "growing_tree"
      <4>1. Active(maze)
        BY <1>2, <3>4 DEF Progress
      <4>2. \A c \in maze.inTree : Settled(maze, c)
        BY <1>1, <4>1 DEF Active
      <4> QED
        BY <1>2, <2>1, <4>2, SettledIsWhole
    <3> QED
      BY <1>2, <1>4, <3>1, <3>2, <3>3, <3>4 DEF Progress, Algorithm
  <2>3. IsFiniteSet(maze.open)
    BY <1>2, FreeIs
  <2>4. Cardinality(maze.open) \in Nat
    BY <2>3, FS_CardinalityType
  <2> QED
    BY <2>1, <2>2, <2>4 DEF Tree
<1> QED
  BY <1>3, <1>4

LEMMA MazeInvImplies ==
  ASSUME MazeInv(maze)
  PROVE  StructureSpans
<1>1. CASE maze = [phase |-> "none"]
  <2>1. maze.phase = "none"
    BY <1>1
  <2> QED
    BY <2>1 DEF StructureSpans, PortalsApart, Built
<1>2. CASE maze # [phase |-> "none"]
  <2>1. Chunk(maze)
    BY <1>2 DEF MazeInv
  <2>2. nonIslandCells = OffIslands(maze)
    BY <2>1, ChunkIs DEF Chunk
  <2>3. PortalsApart
    BY <1>2 DEF MazeInv, PortalsApart, Spread
  <2>4. ASSUME Built
        PROVE  Reached(CHOOSE c \in nonIslandCells : TRUE, [c \in nonIslandCells |-> Through(c)])
                 = nonIslandCells
    <3> DEFINE V == OffIslands(maze)
               adj == [c \in V |-> Through(c)]
               start == CHOOSE c \in V : TRUE
    <3>1. V # {} /\ IsFiniteSet(V) /\ V \in SUBSET ChunkAt
      BY <2>1, FreeIs
    <3>2. start \in V
      BY <3>1
    <3>3. Spans(V, maze.open)
      BY <2>4, BuiltSpans
    <3>4. ASSUME NEW a \in V, NEW b \in V, {a, b} \in maze.open PROVE b \in adj[a]
      <4>1. Touch(a, b)
        BY <2>1, <3>1, <3>4, FaceTouches DEF Chunk
      <4>2. a \in Cells /\ b \in Cells
        BY <2>1, ChunkIs DEF Chunk, OffIslands
      <4>3. b \in neighbors(a)
        BY <2>1, <4>1, <4>2, ChunkIs DEF Chunk
      <4> QED
        BY <3>4, <4>3 DEF Through
    <3>5. DOMAIN adj = V
      OBVIOUS
    <3> HIDE DEF adj, start
    <3>6. Reached(start, adj) = V
      BY <3>1, <3>2, <3>3, <3>4, <3>5, SpansReached
    <3> QED
      BY <2>2, <3>6 DEF adj, start
  <2>5. Built => Cardinality(maze.open) = Cardinality(nonIslandCells) - 1
    BY <2>2, BuiltSpans
  <2>6. \A f \in maze.open : f \cap maze.islands = {}
    BY <2>1 DEF Chunk, Faces, OffIslands
  <2>7. maze.typ = "gate" => Origin \notin maze.islands
    BY <2>1 DEF Chunk, Inside
  <2>8. maze.phase \in {"passages", "done"} =>
          Cardinality(maze.open) >= Cardinality(nonIslandCells) - 1
    BY <1>2, <2>2 DEF MazeInv
  <2> QED
    BY <2>3, <2>4, <2>5, <2>6, <2>7, <2>8 DEF StructureSpans
<1> QED
  BY <1>1, <1>2

LEMMA MazeInitInv ==
  ASSUME MazeInit
  PROVE  MazeInv(maze)
BY DEF MazeInit, MazeInv

LEMMA GenerateStep ==
  ASSUME Generate
  PROVE  MazeInv(maze')
<1>1. PICK p \in {x \in Parameters : valid(x)} : \E typ \in p.types :
       maze' = [p |-> p, typ |-> typ, phase |-> "islands", islands |-> {},
                todo |-> {c \in LocalCells(p.radius) :
                            Distance(c, Origin) < p.radius /\ ~(typ = "gate" /\ c = Origin)},
                algo |-> "none", open |-> {}, inTree |-> {}, path |-> <<>>, edge |-> {},
                label |-> <<>>, next |-> <<>>, start |-> NoCell, cur |-> NoCell, portals |-> {}]
  BY DEF Generate
<1> DEFINE m == maze'
<1>2. /\ m.p = p /\ m.phase = "islands" /\ m.islands = {} /\ m.open = {}
      /\ m.next = <<>> /\ m.cur = NoCell
      /\ m.todo = {c \in LocalCells(p.radius) :
                     Distance(c, Origin) < p.radius /\ ~(m.typ = "gate" /\ c = Origin)}
      /\ Fields(m)
  BY <1>1 DEF Fields
<1> HIDE DEF m
<1>3. p.radius \in Nat /\ p \in Parameters /\ valid(p)
  BY MazeAssumption
<1>4. OffIslands(m) = LocalCells(p.radius)
  BY <1>2 DEF OffIslands
<1>5. Spans(OffIslands(m), Faces(OffIslands(m)))
  BY <1>3, <1>4, CellsSpan
<1>6. m.islands \subseteq Inside(m) /\ m.todo \subseteq Inside(m)
  BY <1>2 DEF Inside
<1>7. Chunk(m)
  BY <1>2, <1>3, <1>5, <1>6 DEF Chunk
<1>8. MazeInv(m)
  BY <1>2, <1>6, <1>7 DEF MazeInv
<1> QED
  BY <1>8 DEF m

\* An island is only made where the cells left stay joined.
LEMMA IslandKeepsJoined ==
  ASSUME maze.p \in Parameters, NEW islands,
         \A c \in islands : Distance(c, Origin) < maze.p.radius,
         connectedOverInduced(islands)
  PROVE  Spans(LocalCells(maze.p.radius) \ islands, Faces(LocalCells(maze.p.radius) \ islands))
<1> DEFINE rest == LocalCells(maze.p.radius) \ islands
           start == CHOOSE c \in rest : isBorderCell(c)
           adj == [c \in rest |-> neighbors(c)]
<1>1. /\ maze.p.radius \in Nat /\ Cells = LocalCells(maze.p.radius)
      /\ Cells \in SUBSET ChunkAt /\ IsFiniteSet(Cells)
      /\ \A c \in Cells : neighbors(c) = {n \in Cells : Touch(c, n)}
  BY ChunkIs
<1>2. rest \in SUBSET ChunkAt /\ IsFiniteSet(rest) /\ rest \subseteq Cells
  BY <1>1, FS_Subset
<1>3. start \in rest
  <2>1. At2(maze.p.radius, 0) \in Cells /\ Distance(At2(maze.p.radius, 0), Origin) = maze.p.radius
    BY <1>1, LocalCellsAre
  <2>2. At2(maze.p.radius, 0) \in rest /\ isBorderCell(At2(maze.p.radius, 0))
    BY <1>1, <2>1 DEF isBorderCell
  <2> QED
    BY <2>2
<1>4. DOMAIN adj = rest /\ \A a \in rest : adj[a] = neighbors(a)
  OBVIOUS
<1>5. Reached(start, adj) = rest
  BY <1>1 DEF connectedOverInduced
<1> HIDE DEF rest, start, adj
<1>6. \A a, b \in rest : b \in adj[a] => {a, b} \in Faces(rest)
  BY <1>1, <1>2, <1>4, FaceTouches
<1>7. Spans(rest, Faces(rest))
  BY <1>2, <1>3, <1>4, <1>5, <1>6, ReachedSpans
<1> QED
  BY <1>7 DEF rest

LEMMA TryIslandStep ==
  ASSUME MazeInv(maze), TryIsland
  PROVE  MazeInv(maze')
<1>1. maze.phase = "islands"
  BY DEF TryIsland
<1>2. /\ Fields(maze) /\ Chunk(maze)
      /\ maze.todo \subseteq Inside(maze) /\ maze.open = {} /\ maze.next = <<>> /\ maze.cur = NoCell
  <2>1. maze # [phase |-> "none"]
    BY <1>1
  <2> QED
    BY <1>1, <2>1 DEF MazeInv
<1>3. PICK c \in maze.todo :
        maze' = [maze EXCEPT !.todo = @ \ {c},
                             !.islands = IF connectedOverInduced(@ \cup {c}) THEN @ \cup {c} ELSE @]
  BY DEF TryIsland
<1> DEFINE m == maze'
           both == maze.islands \cup {c}
<1>4. /\ m.p = maze.p /\ m.typ = maze.typ /\ m.phase = "islands" /\ m.open = {} /\ m.next = <<>>
      /\ m.cur = NoCell /\ m.todo = maze.todo \ {c} /\ Fields(m)
      /\ m.islands = IF connectedOverInduced(both) THEN both ELSE maze.islands
  BY <1>1, <1>2, <1>3 DEF Fields
<1> HIDE DEF m
<1>5. Inside(m) = Inside(maze)
  BY <1>4 DEF Inside
<1>6. m.islands \subseteq Inside(m) /\ m.todo \subseteq Inside(m)
  BY <1>2, <1>4, <1>5 DEF Chunk
<1>7. Spans(OffIslands(m), Faces(OffIslands(m)))
  <2>1. CASE connectedOverInduced(both)
    <3>1. m.islands = both
      BY <1>4, <2>1
    <3>2. \A x \in both : Distance(x, Origin) < maze.p.radius
      BY <1>5, <1>6, <3>1 DEF Inside
    <3> QED
      BY <1>2, <1>4, <2>1, <3>1, <3>2, IslandKeepsJoined DEF Chunk, OffIslands
  <2>2. CASE ~connectedOverInduced(both)
    BY <1>2, <1>4, <2>2 DEF Chunk, OffIslands
  <2> QED
    BY <2>1, <2>2
<1>8. Chunk(m)
  BY <1>2, <1>4, <1>6, <1>7 DEF Chunk
<1>9. MazeInv(m)
  BY <1>4, <1>6, <1>8 DEF MazeInv
<1> QED
  BY <1>9 DEF m

LEMMA DrawAlgorithmStep ==
  ASSUME MazeInv(maze), DrawAlgorithm
  PROVE  MazeInv(maze')
<1>1. maze.phase = "islands"
  BY DEF DrawAlgorithm
<1>2. /\ Fields(maze) /\ Chunk(maze) /\ maze.open = {} /\ maze.next = <<>> /\ maze.cur = NoCell
  <2>1. maze # [phase |-> "none"]
    BY <1>1
  <2> QED
    BY <1>1, <2>1 DEF MazeInv
<1>3. PICK algo \in maze.p.algorithms, start \in Starts \cap nonIslandCells :
         maze' = [maze EXCEPT
            !.phase = "build", !.algo = algo,
            !.todo = IF algo = "kruskal" THEN interiorFaces(nonIslandCells) ELSE {},
            !.inTree = IF algo = "kruskal" THEN {} ELSE {start},
            !.path = IF algo = "backtracker" THEN <<start>> ELSE <<>>,
            !.edge = CASE algo = "prim" -> nonIslandNeighbors(start)
                       [] algo = "growing_tree" -> {start}
                       [] OTHER -> {},
            !.label = IF algo = "kruskal" THEN [c \in Cells |-> c] ELSE <<>>]
  BY DEF DrawAlgorithm
<1> DEFINE m == maze'
           C == LocalCells(maze.p.radius)
<1>4. /\ m.p = maze.p /\ m.typ = maze.typ /\ m.islands = maze.islands
      /\ m.phase = "build" /\ m.algo = algo /\ m.open = {} /\ m.next = <<>> /\ m.cur = NoCell
      /\ Fields(m)
      /\ m.todo = IF algo = "kruskal" THEN interiorFaces(nonIslandCells) ELSE {}
      /\ m.inTree = IF algo = "kruskal" THEN {} ELSE {start}
      /\ m.path = IF algo = "backtracker" THEN <<start>> ELSE <<>>
      /\ algo = "prim" => m.edge = nonIslandNeighbors(start)
      /\ algo = "growing_tree" => m.edge = {start}
      /\ m.label = IF algo = "kruskal" THEN [c \in Cells |-> c] ELSE <<>>
  BY <1>2, <1>3 DEF Fields
<1> HIDE DEF m
<1>5. OffIslands(m) = OffIslands(maze) /\ Inside(m) = Inside(maze)
  BY <1>4 DEF OffIslands, Inside
<1>6. Chunk(m)
  BY <1>2, <1>4, <1>5 DEF Chunk
<1>7. /\ nonIslandCells = OffIslands(m) /\ Cells = C /\ OffIslands(m) \subseteq C
      /\ interiorFaces(OffIslands(m)) = Faces(OffIslands(m))
      /\ nonIslandNeighbors(start) = {n \in OffIslands(m) : Touch(start, n)}
  <2>1. maze.p \in Parameters
    BY <1>2 DEF Chunk
  <2>2. nonIslandCells = OffIslands(m) /\ Cells = C /\ OffIslands(m) \subseteq C
    BY <1>4, <1>5, <1>6, <2>1, ChunkIs, FreeIs
  <2> QED
    BY <1>5, <2>1, <2>2, ChunkIs
<1>8. start \in OffIslands(m) /\ OffIslands(m) \in SUBSET ChunkAt /\ IsFiniteSet(OffIslands(m))
  BY <1>6, <1>7, FreeIs
<1>9. Cardinality({}) = 0 /\ Cardinality({start}) = 1
  BY FS_EmptySet, FS_Singleton
<1>10. ~Touch(start, start)
  BY <1>8, TouchBothWays
<1>11. algo \in Algorithm
  BY <1>2 DEF Chunk, valid
<1>12. CASE algo = "kruskal"
  <2>1. Labels(m) = OffIslands(m)
    BY <1>4, <1>7, <1>12 DEF Labels
  <2>2. \A l \in C : Spans(Labelled(m, l), m.open)
    <3> SUFFICES ASSUME NEW l \in C PROVE Spans(Labelled(m, l), m.open)
      OBVIOUS
    <3>1. Labelled(m, l) = {l} \/ Labelled(m, l) = {}
      BY <1>4, <1>7, <1>12 DEF Labelled
    <3> QED
      BY <3>1, SpansOne
  <2>3. m.label \in [C -> C] /\ m.todo = Faces(OffIslands(m))
    BY <1>4, <1>7, <1>12
  <2>4. \A a, b \in OffIslands(m) : Touch(a, b) => {a, b} \in m.todo
    BY <1>8, <2>3, FaceTouches
  <2>5. Cardinality(OffIslands(m)) \in Nat
    BY <1>8, FS_CardinalityType
  <2>6. Cardinality(m.open) + Cardinality(Labels(m)) = Cardinality(OffIslands(m))
    BY <1>4, <1>9, <2>1, <2>5
  <2>7. \A a, b \in OffIslands(m) : {a, b} \in m.open => m.label[a] = m.label[b]
    BY <1>4
  <2>8. Merged(m)
    BY <1>4, <2>2, <2>3, <2>4, <2>6, <2>7 DEF Merged
  <2>9. Progress(m)
    BY <1>4, <1>11, <1>12, <2>8 DEF Progress
  <2> QED
    BY <1>4, <1>6, <2>9 DEF MazeInv, m
<1>13. CASE algo # "kruskal"
  <2>1. m.inTree = {start}
    BY <1>4, <1>13
  <2>2. Tree(m)
    <3>1. Spans(m.inTree, m.open)
      BY <2>1, SpansOne
    <3>2. Cardinality(m.inTree) = Cardinality(m.open) + 1
      <4>1. m.open = {}
        BY <1>4
      <4>2. Cardinality(m.open) = 0 /\ Cardinality(m.inTree) = 1
        BY <1>9, <2>1, <4>1
      <4> QED
        BY <4>2
    <3>3. m.inTree \subseteq OffIslands(m) /\ m.inTree # {} /\ m.open \subseteq Faces(m.inTree)
      BY <1>4, <1>8, <2>1
    <3> QED
      BY <3>1, <3>2, <3>3 DEF Tree
  <2>3. algo = "backtracker" => Stack(m)
    <3> SUFFICES ASSUME algo = "backtracker" PROVE Stack(m)
      OBVIOUS
    <3>1. m.path = <<start>>
      BY <1>4
    <3>2. m.path \in Seq(m.inTree) /\ Len(m.path) = 1 /\ m.path[1] = start
      BY <2>1, <3>1
    <3> QED
      BY <2>1, <3>2 DEF Stack
  <2>4. algo = "prim" => Frontier(m)
    BY <1>4, <1>7, <1>10, <2>1 DEF Frontier
  <2>5. algo = "growing_tree" => Active(m)
    BY <1>4, <2>1 DEF Active
  <2>6. Walked(m)
    BY <1>4 DEF Walked
  <2>7. Progress(m)
    BY <1>4, <1>11, <1>13, <2>2, <2>3, <2>4, <2>5, <2>6 DEF Progress
  <2> QED
    BY <1>4, <1>6, <2>7 DEF MazeInv, m
<1> QED
  BY <1>12, <1>13

\* One cell more, over a face to the tree: the tree is still spanned, no cycle.
LEMMA TreeGrows ==
  ASSUME NEW m, NEW w, Chunk(m), Tree(m), w.p = m.p, w.islands = m.islands,
         NEW c \in m.inTree, NEW n \in OffIslands(m) \ m.inTree, Touch(c, n),
         w.inTree = m.inTree \cup {n}, w.open = m.open \cup {{c, n}}
  PROVE  Tree(w) /\ w.open \subseteq Faces(OffIslands(w)) /\ OffIslands(w) = OffIslands(m)
<1>1. OffIslands(w) = OffIslands(m)
  BY DEF OffIslands
<1>2. OffIslands(m) \in SUBSET ChunkAt /\ IsFiniteSet(OffIslands(m)) /\ IsFiniteSet(m.open)
  BY FreeIs
<1>3. m.inTree \subseteq OffIslands(m) /\ w.inTree \subseteq OffIslands(m) /\ w.inTree \in SUBSET ChunkAt
  BY <1>2 DEF Tree
<1>4. {c, n} \in Faces(w.inTree)
  BY <1>3, FaceTouches
<1>5. m.open \subseteq Faces(w.inTree)
  BY FacesWithin DEF Tree
<1>6. w.open \subseteq Faces(w.inTree) /\ w.open \subseteq Faces(OffIslands(m))
  BY <1>3, <1>4, <1>5, FacesWithin
<1>7. Spans(w.inTree, w.open)
  <2>1. Spans({n}, m.open)
    BY SpansOne
  <2>2. Spans(m.inTree, m.open) /\ m.open \subseteq w.open
    BY DEF Tree
  <2>3. c \in m.inTree /\ n \in {n} /\ {c, n} \in w.open
    OBVIOUS
  <2>4. Spans(m.inTree \cup {n}, w.open)
    BY <2>1, <2>2, <2>3, SpansUnion
  <2> QED
    BY <2>4
<1>8. {c, n} \notin m.open
  BY DEF Tree, Faces
<1>9. IsFiniteSet(m.inTree)
  BY <1>2, <1>3, FS_Subset
<1>10. /\ Cardinality(w.inTree) = Cardinality(m.inTree) + 1
       /\ Cardinality(w.open) = Cardinality(m.open) + 1
  <2>1. Cardinality(m.inTree \cup {n}) = Cardinality(m.inTree) + 1
    BY <1>9, FS_AddElement
  <2>2. Cardinality(m.open \cup {{c, n}}) = Cardinality(m.open) + 1
    BY <1>2, <1>8, FS_AddElement
  <2> QED
    BY <2>1, <2>2
<1>11. Cardinality(m.inTree) \in Nat /\ Cardinality(m.open) \in Nat
  BY <1>2, <1>9, FS_CardinalityType
<1>12. Cardinality(w.inTree) = Cardinality(w.open) + 1
  BY <1>10, <1>11 DEF Tree
<1>13. w.inTree # {}
  OBVIOUS
<1> QED
  BY <1>1, <1>3, <1>6, <1>7, <1>12, <1>13 DEF Tree

LEMMA BuildingIs ==
  ASSUME MazeInv(maze), maze.phase = "build"
  PROVE  Fields(maze) /\ Chunk(maze) /\ Progress(maze)
<1>1. maze # [phase |-> "none"]
  OBVIOUS
<1> QED
  BY <1>1 DEF MazeInv

LEMMA UnvisitedIs ==
  ASSUME Chunk(maze), NEW c \in OffIslands(maze)
  PROVE  /\ unvisited(c) = {n \in OffIslands(maze) \ maze.inTree : Touch(c, n)}
         /\ nonIslandNeighbors(c) = {n \in OffIslands(maze) : Touch(c, n)}
BY ChunkIs DEF Chunk, unvisited

LEMMA FrontIs ==
  ASSUME NEW S, NEW s \in Seq(S), Len(s) \in Nat \ {0}
  PROVE  /\ Front(s) \in Seq(S) /\ Len(Front(s)) = Len(s) - 1
         /\ \A i \in 1 .. Len(s) - 1 : Front(s)[i] = s[i]
<1> DEFINE n == Len(s) - 1
           t == SubSeq(s, 1, n)
<1>1. n \in Nat /\ \A i \in 1..n : s[i] \in S
  OBVIOUS
<1>2. Front(s) = t
  BY DEF Front
<1> HIDE DEF n
<1>3. /\ t \in Seq(S) /\ Len(t) = IF 1 <= n THEN n - 1 + 1 ELSE 0
      /\ \A i \in 1 .. n - 1 + 1 : t[i] = s[1 + i - 1]
  BY <1>1, SubSeqProperties, 1 \in Int, n \in Int
<1> HIDE DEF t
<1>4. Len(t) = n /\ \A i \in 1..n : t[i] = s[i]
  BY <1>1, <1>3
<1> QED
  BY <1>2, <1>3, <1>4 DEF n

LEMMA BacktrackerStep ==
  ASSUME MazeInv(maze), buildBacktracker
  PROVE  MazeInv(maze')
<1>1. /\ maze.phase = "build" /\ maze.algo = "backtracker" /\ maze.path # <<>>
      /\ IF unvisited(Last(maze.path)) = {}
         THEN maze' = [maze EXCEPT !.path = Front(@)]
         ELSE \E n \in unvisited(Last(maze.path)) :
                maze' = [maze EXCEPT !.inTree = @ \cup {n}, !.open = @ \cup {{Last(maze.path), n}},
                                     !.path = Append(@, n)]
  BY DEF buildBacktracker, Building
<1>2. Fields(maze) /\ Chunk(maze) /\ Tree(maze) /\ Stack(maze)
  BY <1>1, BuildingIs DEF Progress
<1> DEFINE path == maze.path
           c == path[Len(path)]
           m == maze'
<1>3. path \in Seq(maze.inTree) /\ Len(path) \in Nat \ {0} /\ c \in maze.inTree /\ Last(path) = c
  <2>1. path \in Seq(maze.inTree) /\ path # <<>>
    BY <1>1, <1>2 DEF Stack
  <2> QED
    BY <2>1 DEF Last
<1>4. /\ unvisited(c) = {n \in OffIslands(maze) \ maze.inTree : Touch(c, n)}
  BY <1>2, <1>3, UnvisitedIs DEF Tree
<1>5. CASE unvisited(c) = {}
  <2>1. /\ m.p = maze.p /\ m.typ = maze.typ /\ m.islands = maze.islands /\ m.phase = "build"
        /\ m.algo = "backtracker" /\ m.open = maze.open /\ m.inTree = maze.inTree
        /\ m.path = Front(path) /\ Fields(m)
    BY <1>1, <1>2, <1>3, <1>5 DEF Fields
  <2> HIDE DEF m
  <2>2. OffIslands(m) = OffIslands(maze) /\ Inside(m) = Inside(maze)
    BY <2>1 DEF OffIslands, Inside
  <2>3. Chunk(m) /\ Tree(m)
    BY <1>2, <2>1, <2>2 DEF Chunk, Tree
  <2>4. \A x : Settled(m, x) = Settled(maze, x)
    BY <2>1, <2>2 DEF Settled
  <2>5. /\ m.path \in Seq(m.inTree) /\ Len(m.path) = Len(path) - 1
        /\ \A i \in 1 .. Len(path) - 1 : m.path[i] = path[i]
    <3>1. m.path = Front(path) /\ m.inTree = maze.inTree
      BY <2>1
    <3> HIDE DEF path
    <3>2. path \in Seq(maze.inTree) /\ Len(path) \in Nat \ {0}
      BY <1>3 DEF path
    <3> QED
      BY <3>1, <3>2, FrontIs
  <2>6. Settled(maze, c)
    BY <1>4, <1>5 DEF Settled
  <2>7. ASSUME NEW x \in m.inTree, ~Settled(m, x) PROVE \E i \in 1 .. Len(m.path) : m.path[i] = x
    <3>1. PICK i \in 1 .. Len(path) : path[i] = x
      BY <1>2, <2>1, <2>4, <2>7 DEF Stack
    <3>2. i # Len(path)
      BY <2>4, <2>6, <2>7, <3>1
    <3>3. i \in 1 .. Len(path) - 1
      BY <1>3, <3>1, <3>2
    <3> QED
      BY <2>5, <3>1, <3>3
  <2>8. Stack(m)
    BY <2>5, <2>7 DEF Stack
  <2>9. Progress(m)
    BY <2>1, <2>3, <2>8 DEF Progress, Algorithm
  <2> QED
    BY <2>1, <2>3, <2>9 DEF MazeInv, m
<1>6. CASE unvisited(c) # {}
  <2>1. PICK n \in unvisited(c) :
          maze' = [maze EXCEPT !.inTree = @ \cup {n}, !.open = @ \cup {{c, n}}, !.path = Append(@, n)]
    BY <1>1, <1>3, <1>6
  <2>2. /\ m.p = maze.p /\ m.typ = maze.typ /\ m.islands = maze.islands /\ m.phase = "build"
        /\ m.algo = "backtracker" /\ m.open = maze.open \cup {{c, n}}
        /\ m.inTree = maze.inTree \cup {n}
        /\ m.path = Append(path, n) /\ Fields(m)
    BY <1>1, <1>2, <2>1 DEF Fields
  <2> HIDE DEF m
  <2>3. n \in OffIslands(maze) \ maze.inTree /\ Touch(c, n)
    BY <1>4, <2>1
  <2>4. Tree(m) /\ m.open \subseteq Faces(OffIslands(m)) /\ OffIslands(m) = OffIslands(maze)
    <3> HIDE DEF c
    <3> QED
      BY <1>2, <1>3, <2>2, <2>3, TreeGrows
  <2>5. Inside(m) = Inside(maze)
    BY <2>2 DEF Inside
  <2>6. Chunk(m)
    BY <1>2, <2>2, <2>4, <2>5 DEF Chunk
  <2>7. \A x : Settled(maze, x) => Settled(m, x)
    BY <2>2, <2>4 DEF Settled
  <2>8. /\ m.path \in Seq(m.inTree) /\ Len(m.path) = Len(path) + 1
        /\ m.path[Len(path) + 1] = n /\ \A i \in 1 .. Len(path) : m.path[i] = path[i]
    <3>1. path \in Seq(m.inTree) /\ n \in m.inTree
      BY <1>3, <2>2
    <3> QED
      BY <1>3, <2>2, <3>1
  <2>9. ASSUME NEW x \in m.inTree, ~Settled(m, x) PROVE \E i \in 1 .. Len(m.path) : m.path[i] = x
    <3>1. CASE x = n
      <4>1. Len(path) + 1 \in 1 .. Len(m.path)
        BY <1>3, <2>8
      <4> QED
        BY <2>8, <3>1, <4>1
    <3>2. CASE x # n
      <4>1. x \in maze.inTree /\ ~Settled(maze, x)
        BY <2>2, <2>7, <2>9, <3>2
      <4>2. PICK i \in 1 .. Len(path) : path[i] = x
        BY <1>2, <4>1 DEF Stack
      <4>3. i \in 1 .. Len(m.path)
        BY <1>3, <2>8, <4>2
      <4> QED
        BY <2>8, <4>2, <4>3
    <3> QED
      BY <3>1, <3>2
  <2>10. Stack(m)
    BY <2>8, <2>9 DEF Stack
  <2>11. Progress(m)
    BY <2>2, <2>4, <2>10 DEF Progress, Algorithm
  <2> QED
    BY <2>2, <2>6, <2>11 DEF MazeInv, m
<1> QED
  BY <1>5, <1>6

LEMMA PrimStep ==
  ASSUME MazeInv(maze), buildFrontierPrim
  PROVE  MazeInv(maze')
<1>1. maze.phase = "build" /\ maze.algo = "prim"
  BY DEF buildFrontierPrim, Building
<1>2. Fields(maze) /\ Chunk(maze) /\ Tree(maze) /\ Frontier(maze)
  BY <1>1, BuildingIs DEF Progress
<1>3. PICK c \in maze.edge : \E partner \in nonIslandNeighbors(c) \cap maze.inTree :
       maze' = [maze EXCEPT !.inTree = @ \cup {c}, !.open = @ \cup {{c, partner}},
                            !.edge = (@ \cup unvisited(c)) \ {c}]
  BY DEF buildFrontierPrim
<1>4. PICK t \in nonIslandNeighbors(c) \cap maze.inTree :
       maze' = [maze EXCEPT !.inTree = @ \cup {c}, !.open = @ \cup {{c, t}},
                            !.edge = (@ \cup unvisited(c)) \ {c}]
  BY <1>3
<1> DEFINE m == maze'
<1>5. /\ m.p = maze.p /\ m.typ = maze.typ /\ m.islands = maze.islands /\ m.phase = "build"
      /\ m.algo = "prim" /\ m.open = maze.open \cup {{c, t}} /\ m.inTree = maze.inTree \cup {c}
      /\ m.edge = (maze.edge \cup unvisited(c)) \ {c} /\ Fields(m)
  BY <1>1, <1>2, <1>4 DEF Fields
<1> HIDE DEF m
<1>6. c \in OffIslands(maze) \ maze.inTree
  BY <1>2, <1>3 DEF Frontier
<1>7. /\ unvisited(c) = {n \in OffIslands(maze) \ maze.inTree : Touch(c, n)}
      /\ nonIslandNeighbors(c) = {n \in OffIslands(maze) : Touch(c, n)}
  BY <1>2, <1>6, UnvisitedIs
<1>8. t \in maze.inTree /\ Touch(t, c) /\ {c, t} = {t, c}
  BY <1>2, <1>4, <1>6, <1>7, FreeIs, TouchBothWays
<1>9. Tree(m) /\ m.open \subseteq Faces(OffIslands(m)) /\ OffIslands(m) = OffIslands(maze)
  BY <1>2, <1>5, <1>6, <1>8, TreeGrows
<1>10. Inside(m) = Inside(maze)
  BY <1>5 DEF Inside
<1>11. Chunk(m)
  BY <1>2, <1>5, <1>9, <1>10 DEF Chunk
<1>12. ASSUME NEW n
       PROVE  n \in m.edge <=> n \in OffIslands(m) \ m.inTree /\ \E x \in m.inTree : Touch(x, n)
  BY <1>2, <1>5, <1>7, <1>9 DEF Frontier
<1>13. Frontier(m)
  BY <1>12 DEF Frontier
<1>14. Progress(m)
  BY <1>5, <1>9, <1>13 DEF Progress, Algorithm
<1> QED
  BY <1>5, <1>11, <1>14 DEF MazeInv, m

LEMMA GrowingTreeStep ==
  ASSUME MazeInv(maze), buildGrowingTree
  PROVE  MazeInv(maze')
<1>1. maze.phase = "build" /\ maze.algo = "growing_tree"
  BY DEF buildGrowingTree, Building
<1>2. Fields(maze) /\ Chunk(maze) /\ Tree(maze) /\ Active(maze)
  BY <1>1, BuildingIs DEF Progress
<1>3. PICK c \in maze.edge :
       IF unvisited(c) = {} THEN maze' = [maze EXCEPT !.edge = @ \ {c}]
       ELSE \E n \in unvisited(c) :
              maze' = [maze EXCEPT !.inTree = @ \cup {n}, !.open = @ \cup {{c, n}}, !.edge = @ \cup {n}]
  BY DEF buildGrowingTree
<1> DEFINE m == maze'
<1>4. c \in maze.inTree /\ unvisited(c) = {n \in OffIslands(maze) \ maze.inTree : Touch(c, n)}
  BY <1>2, <1>3, UnvisitedIs DEF Active, Tree
<1>5. CASE unvisited(c) = {}
  <2>1. /\ m.p = maze.p /\ m.typ = maze.typ /\ m.islands = maze.islands /\ m.phase = "build"
        /\ m.algo = "growing_tree" /\ m.open = maze.open /\ m.inTree = maze.inTree
        /\ m.edge = maze.edge \ {c} /\ Fields(m)
    BY <1>1, <1>2, <1>3, <1>5 DEF Fields
  <2> HIDE DEF m
  <2>2. OffIslands(m) = OffIslands(maze) /\ Inside(m) = Inside(maze)
    BY <2>1 DEF OffIslands, Inside
  <2>3. Chunk(m) /\ Tree(m)
    BY <1>2, <2>1, <2>2 DEF Chunk, Tree
  <2>4. \A x : Settled(m, x) = Settled(maze, x)
    BY <2>1, <2>2 DEF Settled
  <2>5. Settled(maze, c)
    BY <1>4, <1>5 DEF Settled
  <2>6. Active(m)
    BY <1>2, <2>1, <2>4, <2>5 DEF Active
  <2>7. Progress(m)
    BY <2>1, <2>3, <2>6 DEF Progress, Algorithm
  <2> QED
    BY <2>1, <2>3, <2>7 DEF MazeInv, m
<1>6. CASE unvisited(c) # {}
  <2>1. PICK n \in unvisited(c) :
          maze' = [maze EXCEPT !.inTree = @ \cup {n}, !.open = @ \cup {{c, n}}, !.edge = @ \cup {n}]
    BY <1>3, <1>6
  <2>2. /\ m.p = maze.p /\ m.typ = maze.typ /\ m.islands = maze.islands /\ m.phase = "build"
        /\ m.algo = "growing_tree" /\ m.open = maze.open \cup {{c, n}}
        /\ m.inTree = maze.inTree \cup {n} /\ m.edge = maze.edge \cup {n} /\ Fields(m)
    BY <1>1, <1>2, <2>1 DEF Fields
  <2> HIDE DEF m
  <2>3. n \in OffIslands(maze) \ maze.inTree /\ Touch(c, n)
    BY <1>4, <2>1
  <2>4. Tree(m) /\ m.open \subseteq Faces(OffIslands(m)) /\ OffIslands(m) = OffIslands(maze)
    BY <1>2, <1>4, <2>2, <2>3, TreeGrows
  <2>5. Inside(m) = Inside(maze)
    BY <2>2 DEF Inside
  <2>6. Chunk(m)
    BY <1>2, <2>2, <2>4, <2>5 DEF Chunk
  <2>7. \A x : Settled(maze, x) => Settled(m, x)
    BY <2>2, <2>4 DEF Settled
  <2>8. Active(m)
    BY <1>2, <2>2, <2>7 DEF Active
  <2>9. Progress(m)
    BY <2>2, <2>4, <2>8 DEF Progress, Algorithm
  <2> QED
    BY <2>2, <2>6, <2>9 DEF MazeInv, m
<1> QED
  BY <1>5, <1>6

LEMMA KruskalStep ==
  ASSUME MazeInv(maze), buildKruskal
  PROVE  MazeInv(maze')
<1>1. maze.phase = "build" /\ maze.algo = "kruskal"
  BY DEF buildKruskal, Building
<1>2. Fields(maze) /\ Chunk(maze) /\ Merged(maze)
  BY <1>1, BuildingIs DEF Progress
<1>3. PICK f \in maze.todo : LET a == CHOOSE x \in f : TRUE  b == CHOOSE x \in f : x # a IN
       maze' = [maze EXCEPT !.todo = @ \ {f},
                  !.open = IF maze.label[a] = maze.label[b] THEN @ ELSE @ \cup {f},
                  !.label = [c \in Cells |-> IF maze.label[c] = maze.label[a] THEN maze.label[b] ELSE maze.label[c]]]
  BY DEF buildKruskal
<1> DEFINE a == CHOOSE x \in f : TRUE
           b == CHOOSE x \in f : x # a
           m == maze'
           C == LocalCells(maze.p.radius)
           V == OffIslands(maze)
           label == maze.label
           la == label[a]
           lb == label[b]
<1>4. V \in SUBSET ChunkAt /\ V \subseteq C /\ IsFiniteSet(V) /\ IsFiniteSet(maze.open) /\ IsFiniteSet(C)
      /\ Cells = C
  BY <1>2, FreeIs, ChunkIs DEF Chunk
<1>5. a \in V /\ b \in V /\ a # b /\ f = {a, b} /\ Touch(a, b)
  <2>1. f \in Faces(V)
    BY <1>2, <1>3 DEF Merged
  <2>2. PICK x, y \in V : Touch(x, y) /\ f = {x, y}
    BY <2>1 DEF Faces
  <2>3. x # y /\ Touch(y, x)
    BY <1>4, <2>2, TouchBothWays
  <2>4. a \in f
    BY <2>2
  <2>5. b \in f /\ b # a
    <3>1. \E z \in f : z # a
      BY <2>2, <2>3
    <3> QED
      BY <3>1
  <2> HIDE DEF a, b
  <2> QED
    BY <2>2, <2>3, <2>4, <2>5
<1>6. /\ m.p = maze.p /\ m.typ = maze.typ /\ m.islands = maze.islands /\ m.phase = "build"
      /\ m.algo = "kruskal" /\ m.todo = maze.todo \ {f}
      /\ m.open = IF la = lb THEN maze.open ELSE maze.open \cup {f}
      /\ m.label = [c \in Cells |-> IF label[c] = la THEN lb ELSE label[c]]
      /\ Fields(m)
  <2> HIDE DEF a, b
  <2>1. maze' = [maze EXCEPT !.todo = @ \ {f},
                  !.open = IF la = lb THEN @ ELSE @ \cup {f},
                  !.label = [c \in Cells |-> IF label[c] = la THEN lb ELSE label[c]]]
    BY <1>3 DEF a, b
  <2> HIDE DEF la, lb, label
  <2> QED
    BY <1>1, <1>2, <2>1 DEF Fields
<1> HIDE DEF a, b, m
<1>7. OffIslands(m) = V /\ Inside(m) = Inside(maze)
  BY <1>6 DEF OffIslands, Inside
<1> HIDE DEF V
<1>8. label \in [C -> C] /\ la \in C /\ lb \in C
  BY <1>2, <1>4, <1>5 DEF Merged
<1>9. m.label \in [C -> C] /\ \A c \in C : m.label[c] = IF label[c] = la THEN lb ELSE label[c]
  BY <1>4, <1>6, <1>8
<1>10. f \in Faces(V)
  BY <1>2, <1>3 DEF Merged, V
<1>11. m.open \subseteq Faces(V) /\ maze.open \subseteq m.open
  <2>1. maze.open \subseteq Faces(V)
    BY <1>2 DEF Chunk, V
  <2> QED
    BY <1>6, <1>10, <2>1
<1>12. Chunk(m)
  BY <1>2, <1>6, <1>7, <1>11 DEF Chunk, V
<1>13. ASSUME NEW x \in V, NEW y \in V, {x, y} \in m.open PROVE m.label[x] = m.label[y]
  <2>1. CASE {x, y} \in maze.open
    <3>1. label[x] = label[y]
      BY <1>2, <1>13, <2>1 DEF Merged, V
    <3> QED
      BY <1>4, <1>9, <3>1
  <2>2. CASE {x, y} = f
    <3>1. (x = a /\ y = b) \/ (x = b /\ y = a)
      BY <1>5, <2>2
    <3>2. m.label[a] = lb /\ m.label[b] = lb
      BY <1>4, <1>5, <1>9
    <3> QED
      BY <3>1, <3>2
  <2> QED
    BY <1>6, <1>13, <2>1, <2>2
<1>14. ASSUME NEW x \in V, NEW y \in V, Touch(x, y), {x, y} \notin m.todo PROVE m.label[x] = m.label[y]
  <2>1. CASE {x, y} \notin maze.todo
    <3>1. label[x] = label[y]
      BY <1>2, <1>14, <2>1 DEF Merged, V
    <3> QED
      BY <1>4, <1>9, <3>1
  <2>2. CASE {x, y} = f
    <3>1. (x = a /\ y = b) \/ (x = b /\ y = a)
      BY <1>5, <2>2
    <3>2. m.label[a] = lb /\ m.label[b] = lb
      BY <1>4, <1>5, <1>9
    <3> QED
      BY <3>1, <3>2
  <2> QED
    BY <1>6, <1>14, <2>1, <2>2
<1>15. ASSUME NEW l \in C PROVE Spans(Labelled(m, l), m.open)
  <2>1. Spans(Labelled(maze, l), maze.open) /\ Spans(Labelled(maze, lb), maze.open)
        /\ Spans(Labelled(maze, la), maze.open)
    BY <1>2, <1>8, <1>15 DEF Merged
  <2>2. \A c \in V : m.label[c] = IF label[c] = la THEN lb ELSE label[c]
    BY <1>4, <1>9
  <2>3. \A k : /\ Labelled(m, k) = {c \in V : m.label[c] = k}
               /\ Labelled(maze, k) = {c \in V : label[c] = k}
    BY <1>7 DEF Labelled, V
  <2>4. CASE la = lb
    <3>1. Labelled(m, l) = Labelled(maze, l)
      BY <2>2, <2>3, <2>4
    <3> QED
      BY <1>11, <2>1, <3>1, SpansWider
  <2>5. CASE la # lb /\ l = la
    <3>1. Labelled(m, l) = {}
      BY <2>2, <2>3, <2>5
    <3> QED
      BY <3>1, SpansOne
  <2>6. CASE la # lb /\ l = lb
    <3>1. Labelled(m, l) = Labelled(maze, la) \cup Labelled(maze, lb)
      BY <2>2, <2>3, <2>6
    <3>2. a \in Labelled(maze, la) /\ b \in Labelled(maze, lb) /\ {a, b} \in m.open
      BY <1>5, <1>6, <2>3, <2>6
    <3>3. Spans(Labelled(maze, la) \cup Labelled(maze, lb), m.open)
      BY <1>11, <2>1, <3>2, SpansUnion
    <3> QED
      BY <3>1, <3>3
  <2>7. CASE l # la /\ l # lb
    <3>1. Labelled(m, l) = Labelled(maze, l)
      BY <2>2, <2>3, <2>7
    <3> QED
      BY <1>11, <2>1, <3>1, SpansWider
  <2> QED
    BY <2>4, <2>5, <2>6, <2>7
<1>16. Cardinality(m.open) + Cardinality(Labels(m)) = Cardinality(V)
  <2>1. Cardinality(maze.open) + Cardinality(Labels(maze)) = Cardinality(V)
    BY <1>2 DEF Merged, V
  <2>2. Labels(m) = {m.label[c] : c \in V} /\ Labels(maze) = {label[c] : c \in V}
    BY <1>7 DEF Labels, V
  <2>3. \A c \in V : m.label[c] = IF label[c] = la THEN lb ELSE label[c]
    BY <1>4, <1>9
  <2>4. CASE la = lb
    <3>1. Labels(m) = Labels(maze) /\ m.open = maze.open
      BY <1>6, <2>2, <2>3, <2>4
    <3> QED
      BY <2>1, <3>1
  <2>5. CASE la # lb
    <3>1. f \notin maze.open
      BY <1>2, <1>5, <2>5 DEF Merged, V
    <3>2. Cardinality(m.open) = Cardinality(maze.open) + 1
      <4>1. m.open = maze.open \cup {f}
        BY <1>6, <2>5
      <4>2. Cardinality(maze.open \cup {f}) = Cardinality(maze.open) + 1
        BY <1>4, <3>1, FS_AddElement
      <4> QED
        BY <4>1, <4>2
    <3>3. la \in Labels(maze) /\ Labels(maze) \subseteq C
      BY <1>4, <1>5, <1>8, <2>2
    <3>4. Labels(m) = Labels(maze) \ {la}
      <4>1. ASSUME NEW l \in Labels(m) PROVE l \in Labels(maze) \ {la}
        <5>1. PICK c \in V : l = m.label[c]
          BY <2>2, <4>1
        <5> QED
          BY <1>5, <2>2, <2>3, <2>5, <5>1
      <4>2. ASSUME NEW l \in Labels(maze) \ {la} PROVE l \in Labels(m)
        <5>1. PICK c \in V : l = label[c]
          BY <2>2, <4>2
        <5> QED
          BY <2>2, <2>3, <4>2, <5>1
      <4> QED
        BY <4>1, <4>2
    <3>5. IsFiniteSet(Labels(maze))
      BY <1>4, <3>3, FS_Subset
    <3>6. Cardinality(Labels(m)) = Cardinality(Labels(maze)) - 1
      BY <3>3, <3>4, <3>5, FS_RemoveElement
    <3>7. Cardinality(Labels(maze)) \in Nat /\ Cardinality(maze.open) \in Nat
      BY <1>4, <3>5, FS_CardinalityType
    <3> QED
      BY <2>1, <3>2, <3>6, <3>7
  <2> QED
    BY <2>4, <2>5
<1>17. m.todo \subseteq Faces(V)
  BY <1>2, <1>6 DEF Merged, V
<1>18. Merged(m)
  BY <1>6, <1>7, <1>9, <1>13, <1>14, <1>15, <1>16, <1>17 DEF Merged
<1>19. Progress(m)
  BY <1>6, <1>18 DEF Progress, Algorithm
<1> QED
  BY <1>6, <1>12, <1>19 DEF MazeInv, m

LEMMA NoCellIsNone == NoCell \notin ChunkAt
<1> SUFFICES ASSUME NoCell \in ChunkAt PROVE FALSE
  OBVIOUS
<1>1. DOMAIN NoCell = {"q", "r"}
  BY DEF ChunkAt
<1>2. DOMAIN NoCell = {"cell"}
  BY Zenon DEF NoCell
<1> QED
  BY <1>1, <1>2

\* Of some cells of a chunk one comes first.
LEMMA FirstBefore ==
  ASSUME NEW r \in Nat, NEW V \in SUBSET LocalCells(r), V # {}
  PROVE  \E c \in V : \A x \in V : x = c \/ Before(c, x)
<1>1. \A c \in V : c \in ChunkAt /\ c.r + r \in Nat /\ c.q + r \in Nat /\ c.q \in Int /\ c.r \in Int
  BY DEF LocalCells, ChunkAt
<1> DEFINE rows == {c.r + r : c \in V}
<1>2. rows \in SUBSET Nat /\ rows # {}
  BY <1>1
<1>3. PICK y \in rows : \A k \in rows : y <= k
  <2> HIDE DEF rows
  <2> QED
    BY <1>2, LeastOf
<1> DEFINE columns == {c.q + r : c \in {x \in V : x.r + r = y}}
<1>4. columns \in SUBSET Nat /\ columns # {}
  BY <1>1, <1>3
<1>5. PICK z \in columns : \A k \in columns : z <= k
  <2> HIDE DEF columns
  <2> QED
    BY <1>4, LeastOf
<1>6. PICK c \in V : c.r + r = y /\ c.q + r = z
  BY <1>5
<1>7. ASSUME NEW x \in V PROVE x = c \/ Before(c, x)
  <2>1. c.r + r <= x.r + r
    BY <1>3, <1>6
  <2>2. x.r + r = y => c.q + r <= x.q + r
    BY <1>5, <1>6
  <2>3. /\ c \in ChunkAt /\ x \in ChunkAt
        /\ c.q \in Int /\ c.r \in Int /\ x.q \in Int /\ x.r \in Int
    BY <1>1
  <2>4. CASE c.r = x.r /\ c.q = x.q
    BY <2>3, <2>4, SamePlace
  <2>5. CASE c.r = x.r /\ c.q # x.q
    BY <1>6, <2>2, <2>3, <2>5 DEF Before
  <2>6. CASE c.r # x.r
    BY <2>1, <2>3, <2>6 DEF Before
  <2> QED
    BY <2>4, <2>5, <2>6
<1> QED
  BY <1>7

LEMMA WalkFromStep ==
  ASSUME MazeInv(maze), WalkFrom
  PROVE  MazeInv(maze')
<1> DEFINE rest == nonIslandCells \ maze.inTree
           first == CHOOSE c \in rest : \A x \in rest : x = c \/ Before(c, x)
           m == maze'
<1>1. /\ maze.phase = "build" /\ maze.algo = "wilson_walk" /\ maze.cur = NoCell /\ rest # {}
      /\ maze' = [maze EXCEPT !.start = first, !.cur = first]
  BY DEF WalkFrom, Building
<1>2. Fields(maze) /\ Chunk(maze) /\ Tree(maze) /\ Walked(maze)
  BY <1>1, BuildingIs DEF Progress
<1>3. rest = OffIslands(maze) \ maze.inTree /\ rest \subseteq LocalCells(maze.p.radius) /\ maze.p.radius \in Nat
      /\ rest \in SUBSET ChunkAt
  BY <1>2, ChunkIs, FreeIs DEF Chunk
<1>4. first \in rest
  <2>1. \E c \in rest : \A x \in rest : x = c \/ Before(c, x)
    <3> HIDE DEF rest
    <3> QED
      BY <1>1, <1>3, FirstBefore
  <2> QED
    BY <2>1
<1> HIDE DEF first
<1>5. /\ m.p = maze.p /\ m.typ = maze.typ /\ m.islands = maze.islands /\ m.phase = "build"
      /\ m.algo = "wilson_walk" /\ m.open = maze.open /\ m.inTree = maze.inTree
      /\ m.next = maze.next /\ m.start = first /\ m.cur = first /\ Fields(m)
  BY <1>1, <1>2 DEF Fields
<1> HIDE DEF m
<1>6. OffIslands(m) = OffIslands(maze) /\ Inside(m) = Inside(maze)
  BY <1>5 DEF OffIslands, Inside
<1>7. Chunk(m) /\ Tree(m)
  BY <1>2, <1>5, <1>6 DEF Chunk, Tree
<1>8. first # NoCell
  BY <1>3, <1>4, NoCellIsNone
<1>9. maze.next = <<>>
  BY <1>1, <1>2 DEF Walked
<1>10. DOMAIN m.next = {}
  BY <1>5, <1>9
<1>11. \A S \in SUBSET (DOMAIN m.next \cup {first}) : Leads(m.next, first, S)
  BY <1>10 DEF Leads
<1>12. first \in OffIslands(m) \ m.inTree
  BY <1>3, <1>4, <1>5, <1>6
<1>13. Walked(m)
  BY <1>5, <1>8, <1>10, <1>11, <1>12 DEF Walked
<1>14. Progress(m)
  BY <1>5, <1>7, <1>13 DEF Progress, Algorithm
<1> QED
  BY <1>5, <1>7, <1>14 DEF MazeInv, m

LEMMA WalkOnStep ==
  ASSUME MazeInv(maze), WalkOn
  PROVE  MazeInv(maze')
<1>1. /\ maze.phase = "build" /\ maze.algo = "wilson_walk" /\ maze.cur # NoCell
      /\ maze.cur \notin maze.inTree
  BY DEF WalkOn, Building
<1>2. Fields(maze) /\ Chunk(maze) /\ Tree(maze) /\ Walked(maze)
  BY <1>1, BuildingIs DEF Progress
<1> DEFINE next == maze.next
           cur == maze.cur
           m == maze'
<1>3. PICK n \in nonIslandNeighbors(cur) :
       maze' = [maze EXCEPT !.next = [x \in DOMAIN @ \cup {cur} |-> IF x = cur THEN n ELSE @[x]],
                            !.cur = n]
  BY DEF WalkOn
<1>4. /\ m.p = maze.p /\ m.typ = maze.typ /\ m.islands = maze.islands /\ m.phase = "build"
      /\ m.algo = "wilson_walk" /\ m.open = maze.open /\ m.inTree = maze.inTree
      /\ m.next = [x \in DOMAIN next \cup {cur} |-> IF x = cur THEN n ELSE next[x]]
      /\ m.start = maze.start /\ m.cur = n /\ Fields(m)
  BY <1>1, <1>2, <1>3 DEF Fields
<1> HIDE DEF m
<1>5. OffIslands(m) = OffIslands(maze) /\ Inside(m) = Inside(maze)
  BY <1>4 DEF OffIslands, Inside
<1>6. Chunk(m) /\ Tree(m)
  BY <1>2, <1>4, <1>5 DEF Chunk, Tree
<1>7. /\ cur \in OffIslands(maze) \ maze.inTree /\ maze.start \in OffIslands(maze) \ maze.inTree
      /\ maze.start \in DOMAIN next \cup {cur}
      /\ DOMAIN next \subseteq OffIslands(maze) \ maze.inTree
      /\ \A c \in DOMAIN next : Touch(c, next[c]) /\ next[c] \in DOMAIN next \cup {cur}
      /\ \A S \in SUBSET (DOMAIN next \cup {cur}) : Leads(next, cur, S)
  BY <1>1, <1>2 DEF Walked
<1>8. n \in OffIslands(maze) /\ Touch(cur, n) /\ n # NoCell
  <2>1. nonIslandNeighbors(cur) = {x \in OffIslands(maze) : Touch(cur, x)}
    BY <1>2, <1>7, UnvisitedIs
  <2>2. OffIslands(maze) \in SUBSET ChunkAt
    BY <1>2, FreeIs
  <2> QED
    BY <1>3, <2>1, <2>2, NoCellIsNone
<1> HIDE DEF next, cur
<1>9. /\ DOMAIN m.next = DOMAIN next \cup {cur} /\ m.next[cur] = n
      /\ \A c \in DOMAIN next : c # cur => m.next[c] = next[c]
  BY <1>4
<1>10. ASSUME NEW c \in DOMAIN m.next
       PROVE  Touch(c, m.next[c]) /\ m.next[c] \in DOMAIN m.next \cup {n}
  <2>1. CASE c = cur
    BY <1>8, <1>9, <2>1
  <2>2. CASE c # cur
    BY <1>7, <1>9, <2>2
  <2> QED
    BY <2>1, <2>2
<1>11. ASSUME NEW S \in SUBSET (DOMAIN m.next \cup {n}) PROVE Leads(m.next, n, S)
  <2> SUFFICES ASSUME S # {}, \A c \in S \cap DOMAIN m.next : m.next[c] \in S, n \notin S
               PROVE  FALSE
    BY DEF Leads
  <2>1. cur \notin S
    BY <1>9
  <2>2. S \in SUBSET (DOMAIN next \cup {cur})
    BY <1>9, <1>11
  <2>3. \A c \in S \cap DOMAIN next : next[c] \in S
    BY <1>9, <2>1
  <2> QED
    BY <1>7, <2>1, <2>2, <2>3 DEF Leads
<1>12. Walked(m)
  <2>1. m.cur = n /\ n # NoCell /\ n \in OffIslands(m) /\ m.start \in OffIslands(m) \ m.inTree
    BY <1>4, <1>5, <1>7, <1>8
  <2>2. m.start \in DOMAIN m.next \cup {n} /\ DOMAIN m.next \subseteq OffIslands(m) \ m.inTree
    BY <1>4, <1>5, <1>7, <1>9
  <2> QED
    BY <1>10, <1>11, <2>1, <2>2 DEF Walked
<1>13. Progress(m)
  BY <1>4, <1>6, <1>12 DEF Progress, Algorithm
<1> QED
  BY <1>4, <1>6, <1>13 DEF MazeInv, m

LEMMA WalkJoinsStep ==
  ASSUME MazeInv(maze), WalkJoins
  PROVE  MazeInv(maze')
<1> DEFINE next == maze.next
           cur == maze.cur
           start == maze.start
           tree == maze.inTree
           adj == [c \in DOMAIN next |-> {next[c]}]
           line == Reached(start, adj)
           steps == {{c, next[c]} : c \in line}
           V == OffIslands(maze)
           m == maze'
<1>1. /\ maze.phase = "build" /\ maze.algo = "wilson_walk" /\ cur \in tree
      /\ maze' = [maze EXCEPT !.inTree = @ \cup line, !.open = @ \cup steps,
                              !.next = <<>>, !.start = NoCell, !.cur = NoCell]
  BY DEF WalkJoins, Building
<1>2. Fields(maze) /\ Chunk(maze) /\ Tree(maze) /\ Walked(maze)
  BY <1>1, BuildingIs DEF Progress
<1>3. V \in SUBSET ChunkAt /\ IsFiniteSet(V) /\ IsFiniteSet(maze.open) /\ tree \subseteq V
      /\ maze.open \subseteq Faces(tree) /\ Spans(tree, maze.open)
      /\ Cardinality(tree) = Cardinality(maze.open) + 1
  BY <1>2, FreeIs DEF Tree
<1>4. cur # NoCell
  BY <1>1, <1>3, NoCellIsNone
<1>5. /\ start \in V \ tree /\ start \in DOMAIN next \cup {cur}
      /\ DOMAIN next \subseteq V \ tree
      /\ \A c \in DOMAIN next : Touch(c, next[c]) /\ next[c] \in DOMAIN next \cup {cur}
      /\ \A S \in SUBSET (DOMAIN next \cup {cur}) : Leads(next, cur, S)
  BY <1>2, <1>4 DEF Walked
<1>6. /\ m.p = maze.p /\ m.typ = maze.typ /\ m.islands = maze.islands /\ m.phase = "build"
      /\ m.algo = "wilson_walk" /\ m.open = maze.open \cup steps /\ m.inTree = tree \cup line
      /\ m.next = <<>> /\ m.start = NoCell /\ m.cur = NoCell /\ Fields(m)
  <2> HIDE DEF line, steps
  <2> QED
    BY <1>1, <1>2 DEF Fields
<1>7. /\ line \subseteq DOMAIN next /\ start \in line
      /\ \A c \in line : next[c] \in line \cup {cur}
  <2>1. start \in DOMAIN next
    BY <1>1, <1>5
  <2>2. IsFiniteSet(DOMAIN next)
    BY <1>3, <1>5, FS_Subset
  <2>3. DOMAIN adj = DOMAIN next /\ \A c \in DOMAIN next : adj[c] = {next[c]}
    OBVIOUS
  <2> HIDE DEF adj
  <2>4. line \subseteq DOMAIN next /\ start \in line /\ Wide(adj, line)
    BY <2>1, <2>2, <2>3, ReachedCloses
  <2>5. ASSUME NEW c \in line PROVE next[c] \in line \cup {cur}
    <3>1. c \in DOMAIN next /\ next[c] \in DOMAIN next \cup {cur}
      BY <1>5, <2>4
    <3>2. adj[c] \cap DOMAIN adj \subseteq line
      BY <2>4 DEF Wide
    <3> QED
      BY <2>3, <3>1, <3>2
  <2> QED
    BY <2>4, <2>5
<1> HIDE DEF m, line, V, adj
<1>8. OffIslands(m) = V /\ Inside(m) = Inside(maze)
  BY <1>6 DEF OffIslands, Inside, V
<1>9. line \subseteq V \ tree /\ IsFiniteSet(line) /\ line \subseteq DOMAIN next
  BY <1>3, <1>5, <1>7, FS_Subset
<1>10. \A c \in line : Touch(c, next[c]) /\ next[c] \in line \cup tree
  BY <1>1, <1>5, <1>7
<1> DEFINE all == tree \cup line
<1>11. all \subseteq V /\ all \in SUBSET ChunkAt
  BY <1>3, <1>9
<1>12. steps \subseteq Faces(all)
  <2> SUFFICES ASSUME NEW c \in line PROVE {c, next[c]} \in Faces(all)
    OBVIOUS
  <2> HIDE DEF all
  <2>1. c \in all /\ next[c] \in all /\ Touch(c, next[c])
    BY <1>10 DEF all
  <2> QED
    BY <1>11, <2>1, FaceTouches
<1>13. m.open \subseteq Faces(all) /\ m.open \subseteq Faces(V)
  <2>1. Faces(tree) \subseteq Faces(all) /\ Faces(all) \subseteq Faces(V)
    BY <1>11, FacesWithin
  <2> QED
    BY <1>3, <1>6, <1>12, <2>1
<1> DEFINE Closed(S) == \A x \in S, y \in all : {x, y} \in m.open => y \in S
<1>14. \A c \in line : {c, next[c]} \in m.open /\ {next[c], c} \in m.open
  <2> SUFFICES ASSUME NEW c \in line PROVE {c, next[c]} \in m.open /\ {next[c], c} \in m.open
    OBVIOUS
  <2>1. {c, next[c]} = {next[c], c}
    OBVIOUS
  <2> QED
    BY <1>6, <2>1
<1> HIDE DEF steps
<1>15. ASSUME NEW S \in SUBSET all, S # {}, Closed(S) PROVE S = all
  <2>1. S \cap tree # {}
    <3> SUFFICES ASSUME S \cap tree = {} PROVE FALSE
      OBVIOUS
    <3>1. S \subseteq line /\ S \in SUBSET (DOMAIN next \cup {cur})
      BY <1>9, <1>15
    <3>2. \A c \in S \cap DOMAIN next : next[c] \in S
      BY <1>10, <1>14, <1>15, <3>1
    <3>3. cur \in S
      BY <1>5, <1>15, <3>1, <3>2 DEF Leads
    <3> QED
      BY <1>1, <3>3
  <2>2. tree \subseteq S
    <3>1. \A x \in S \cap tree, y \in tree : {x, y} \in maze.open => y \in S \cap tree
      BY <1>6, <1>15
    <3>2. S \cap tree \in SUBSET tree
      OBVIOUS
    <3>3. S \cap tree = tree
      BY <1>3, <2>1, <3>1, <3>2 DEF Spans
    <3> QED
      BY <3>3
  <2>3. line \subseteq S
    <3> SUFFICES ASSUME line \ S # {} PROVE FALSE
      OBVIOUS
    <3>1. line \ S \in SUBSET (DOMAIN next \cup {cur})
      BY <1>9
    <3>2. ASSUME NEW c \in line \ S PROVE next[c] \in line \ S
      <4>1. next[c] \notin S
        BY <1>14, <1>15
      <4>2. next[c] \in line \cup tree
        BY <1>10
      <4> QED
        BY <2>2, <4>1, <4>2
    <3>3. cur \in line \ S
      BY <1>5, <3>1, <3>2 DEF Leads
    <3> QED
      BY <1>1, <1>9, <3>3
  <2> QED
    BY <1>15, <2>2, <2>3
<1>16. Spans(all, m.open)
  BY <1>15 DEF Spans
<1>17. IsFiniteSet(steps) /\ Cardinality(steps) = Cardinality(line)
  <2> DEFINE g == [c \in line |-> {c, next[c]}]
  <2>1. g \in Surjection(line, steps)
    BY DEF Surjection, steps
  <2>2. ASSUME NEW c \in line, NEW d \in line, c # d, g[c] = g[d] PROVE FALSE
    <3>1. next[c] = d /\ next[d] = c
      BY <2>2
    <3>2. {c, d} \in SUBSET (DOMAIN next \cup {cur})
      BY <1>9
    <3>3. \A x \in {c, d} \cap DOMAIN next : next[x] \in {c, d}
      BY <3>1
    <3>4. cur \in {c, d}
      BY <1>5, <3>2, <3>3 DEF Leads
    <3> QED
      BY <1>1, <1>9, <3>4
  <2>3. g \in Injection(line, steps)
    BY <2>1, <2>2 DEF Injection, Surjection, IsInjective
  <2> QED
    BY <1>9, <2>1, <2>3, FS_Surjection
<1>18. maze.open \cap steps = {}
  <2> SUFFICES ASSUME NEW c \in line, {c, next[c]} \in maze.open PROVE FALSE
    BY DEF steps
  <2>1. {c, next[c]} \subseteq tree
    BY <1>3 DEF Faces
  <2> QED
    BY <1>9, <2>1
<1>19. Cardinality(all) = Cardinality(m.open) + 1
  <2>1. IsFiniteSet(tree) /\ tree \cap line = {}
    BY <1>3, <1>9, FS_Subset
  <2>2. Cardinality(tree \cup line) = Cardinality(tree) + Cardinality(line) - Cardinality(tree \cap line)
    BY <1>9, <2>1, FS_Union
  <2>3. Cardinality(maze.open \cup steps)
          = Cardinality(maze.open) + Cardinality(steps) - Cardinality(maze.open \cap steps)
    BY <1>3, <1>17, FS_Union
  <2>4. Cardinality({}) = 0
    BY FS_EmptySet
  <2>5. /\ Cardinality(tree) \in Nat /\ Cardinality(line) \in Nat
        /\ Cardinality(maze.open) \in Nat /\ Cardinality(steps) \in Nat
    BY <1>3, <1>9, <1>17, <2>1, FS_CardinalityType
  <2>6. Cardinality(all) = Cardinality(tree) + Cardinality(line)
    <3>1. Cardinality(tree \cap line) = 0
      BY <2>1, <2>4
    <3> QED
      BY <2>2, <2>5, <3>1
  <2>7. Cardinality(m.open) = Cardinality(maze.open) + Cardinality(line)
    <3>1. Cardinality(maze.open \cap steps) = 0 /\ m.open = maze.open \cup steps
      BY <1>6, <1>18, <2>4
    <3> QED
      BY <1>17, <2>3, <2>5, <3>1
  <2> QED
    BY <1>3, <2>5, <2>6, <2>7
<1>20. m.inTree = all /\ all # {}
  BY <1>1, <1>6
<1> HIDE DEF all
<1>21. Tree(m)
  BY <1>8, <1>11, <1>13, <1>16, <1>19, <1>20 DEF Tree
<1>22. Chunk(m)
  BY <1>2, <1>6, <1>8, <1>13 DEF Chunk, V
<1>23. Walked(m)
  BY <1>6 DEF Walked
<1>24. Progress(m)
  BY <1>6, <1>21, <1>23 DEF Progress, Algorithm
<1> QED
  BY <1>6, <1>22, <1>24 DEF MazeInv, m

LEMMA ExtraPassagesStep ==
  ASSUME MazeInv(maze), addExtraPassages
  PROVE  MazeInv(maze')
<1> DEFINE shut == interiorFaces(nonIslandCells) \ maze.open
           m == maze'
<1>1. maze.phase = "build" /\ Built
  BY DEF addExtraPassages, Built
<1>2. Fields(maze) /\ Chunk(maze) /\ Cardinality(maze.open) = Cardinality(OffIslands(maze)) - 1
  BY <1>1, BuildingIs, BuiltSpans
<1>3. PICK more \in SUBSET shut :
        maze' = [maze EXCEPT !.open = @ \cup more, !.phase = "passages", !.algo = "none",
                             !.inTree = {}, !.label = <<>>]
  BY DEF addExtraPassages
<1>4. /\ m.p = maze.p /\ m.typ = maze.typ /\ m.islands = maze.islands /\ m.phase = "passages"
      /\ m.open = maze.open \cup more /\ Fields(m)
  <2> HIDE DEF shut
  <2> QED
    BY <1>2, <1>3 DEF Fields
<1> HIDE DEF m
<1>5. OffIslands(m) = OffIslands(maze) /\ Inside(m) = Inside(maze)
  BY <1>4 DEF OffIslands, Inside
<1>6. more \subseteq Faces(OffIslands(maze))
  <2>1. nonIslandCells = OffIslands(maze) /\ OffIslands(maze) \in SUBSET Cells
    BY <1>2, ChunkIs, FreeIs DEF Chunk
  <2>2. interiorFaces(nonIslandCells) = Faces(OffIslands(maze))
    BY <1>2, <2>1, ChunkIs DEF Chunk
  <2> QED
    BY <1>3, <2>2
<1>7. Chunk(m)
  BY <1>2, <1>4, <1>5, <1>6 DEF Chunk
<1>8. Cardinality(m.open) >= Cardinality(OffIslands(m)) - 1
  <2>1. IsFiniteSet(m.open) /\ maze.open \subseteq m.open
    BY <1>4, <1>7, FreeIs
  <2>2. Cardinality(maze.open) <= Cardinality(m.open)
    BY <2>1, FS_Subset
  <2>3. IsFiniteSet(maze.open) /\ IsFiniteSet(OffIslands(maze))
    BY <1>2, FreeIs
  <2>4. Cardinality(m.open) \in Nat /\ Cardinality(maze.open) \in Nat /\ Cardinality(OffIslands(maze)) \in Nat
    BY <2>1, <2>3, FS_CardinalityType
  <2> QED
    BY <1>2, <1>5, <2>2, <2>4
<1> QED
  BY <1>4, <1>7, <1>8 DEF MazeInv, m

\* Moved up by its rank, each of the slots slots keeps its distance from the next.
LEMMA SpreadApart ==
  ASSUME NEW r \in Nat, NEW count \in 1 .. r + 1,
         NEW slots \in SUBSET (0 .. 2 * r + 1 - count), Cardinality(slots) = count
  PROVE  LET portals == nonConsecutivePositions(slots)
         IN  /\ portals \subseteq 0 .. 2 * r
             /\ Cardinality(portals) = count
             /\ \A i \in portals : i + 1 \notin portals
<1> DEFINE below(c) == {x \in slots : x < c}
           pos == [c \in slots |-> c + Cardinality(below(c))]
           portals == nonConsecutivePositions(slots)
<1>1. IsFiniteSet(slots) /\ slots \in SUBSET Nat
  <2> DEFINE top == 2 * r + 1 - count
  <2>1. top \in Int /\ 0 \in Int
    OBVIOUS
  <2>2. slots \in SUBSET (0 .. top)
    OBVIOUS
  <2> HIDE DEF top
  <2>3. IsFiniteSet(0 .. top)
    BY <2>1, FS_Interval
  <2>4. 0 .. top \subseteq Nat
    BY <2>1
  <2>5. IsFiniteSet(slots)
    BY <2>2, <2>3, FS_Subset
  <2> QED
    BY <2>2, <2>4, <2>5
<1>2. ASSUME NEW c \in slots
      PROVE  /\ IsFiniteSet(below(c)) /\ Cardinality(below(c)) \in Nat
             /\ Cardinality(below(c)) <= count - 1
  <2>1. IsFiniteSet(below(c)) /\ Cardinality(below(c)) \in Nat
    BY <1>1, FS_Subset, FS_CardinalityType
  <2>2. IsFiniteSet(slots \ {c}) /\ Cardinality(slots \ {c}) = count - 1
    BY <1>1, FS_RemoveElement
  <2>3. below(c) \subseteq slots \ {c}
    BY <1>1
  <2>4. Cardinality(below(c)) <= Cardinality(slots \ {c})
    BY <2>2, <2>3, FS_Subset
  <2> QED
    BY <2>1, <2>2, <2>4
<1>3. ASSUME NEW c \in slots, NEW d \in slots, c < d
      PROVE  Cardinality(below(c)) + 1 <= Cardinality(below(d))
  <2>1. below(c) \cup {c} \subseteq below(d)
    <3>1. c \in Nat /\ d \in Nat /\ \A x \in slots : x \in Nat
      BY <1>1
    <3>2. ASSUME NEW x \in slots, x < c PROVE x < d
      BY <1>3, <3>1, <3>2
    <3> QED
      BY <1>3, <3>2
  <2>2. c \notin below(c)
    BY <1>1
  <2>3. IsFiniteSet(below(c)) /\ IsFiniteSet(below(d))
    BY <1>2
  <2> HIDE DEF below
  <2>4. Cardinality(below(c) \cup {c}) = Cardinality(below(c)) + 1
    BY <2>2, <2>3, FS_AddElement
  <2>5. Cardinality(below(c) \cup {c}) <= Cardinality(below(d))
    BY <2>1, <2>3, FS_Subset
  <2> QED
    BY <2>4, <2>5
<1>4. portals = {pos[c] : c \in slots}
  BY DEF nonConsecutivePositions
<1>5. \A c \in slots : pos[c] = c + Cardinality(below(c))
  OBVIOUS
<1>6. DOMAIN pos = slots /\ pos = [c \in slots |-> pos[c]]
  OBVIOUS
<1> HIDE DEF below, pos, portals
<1>7. ASSUME NEW c \in slots PROVE pos[c] \in 0 .. 2 * r
  <2>1. c \in 0 .. 2 * r + 1 - count
    OBVIOUS
  <2>2. Cardinality(below(c)) \in Nat /\ Cardinality(below(c)) <= count - 1
    BY <1>2
  <2> QED
    BY <1>5, <2>1, <2>2
<1>8. ASSUME NEW c \in slots, NEW d \in slots, c < d PROVE pos[c] + 2 <= pos[d]
  <2>1. Cardinality(below(c)) \in Nat /\ Cardinality(below(d)) \in Nat
    BY <1>2
  <2>2. c \in Nat /\ d \in Nat
    BY <1>1
  <2>3. Cardinality(below(c)) + 1 <= Cardinality(below(d))
    BY <1>3, <1>8
  <2> QED
    BY <1>5, <1>8, <2>1, <2>2, <2>3
<1>9. ASSUME NEW c \in slots, NEW d \in slots PROVE (pos[c] = pos[d] => c = d) /\ pos[c] + 1 # pos[d]
  <2>1. c \in Nat /\ d \in Nat /\ pos[c] \in Nat /\ pos[d] \in Nat
    BY <1>1, <1>7
  <2>2. c < d => pos[c] + 2 <= pos[d]
    BY <1>8
  <2>3. d < c => pos[d] + 2 <= pos[c]
    BY <1>8
  <2> QED
    BY <2>1, <2>2, <2>3
<1>10. Cardinality(portals) = count
  <2>1. pos \in Surjection(slots, portals)
    BY <1>4, <1>6 DEF Surjection
  <2>2. pos \in Injection(slots, portals)
    BY <1>4, <1>6, <1>9 DEF Injection, IsInjective
  <2> QED
    BY <1>1, <2>1, <2>2, FS_Surjection
<1>11. portals \subseteq 0 .. 2 * r
  BY <1>4, <1>7
<1>12. \A i \in portals : i + 1 \notin portals
  BY <1>4, <1>9
<1> QED
  BY <1>10, <1>11, <1>12 DEF portals

LEMMA SelectPortalsStep ==
  ASSUME MazeInv(maze), selectPortals
  PROVE  MazeInv(maze')
<1> DEFINE m == maze'
           r == maze.p.radius
<1>1. maze.phase = "passages"
  BY DEF selectPortals
<1>2. Fields(maze) /\ Chunk(maze) /\ Cardinality(maze.open) >= Cardinality(OffIslands(maze)) - 1
  <2>1. maze # [phase |-> "none"]
    BY <1>1
  <2> QED
    BY <1>1, <2>1 DEF MazeInv
<1>3. PICK count \in maze.p.lo .. maze.p.hi :
       \E slots \in {s \in SUBSET (0 .. 2 * r + 1 - count) : Cardinality(s) = count} :
         maze' = [maze EXCEPT !.phase = "done", !.portals = nonConsecutivePositions(slots)]
  BY DEF selectPortals
<1>4. PICK slots \in SUBSET (0 .. 2 * r + 1 - count) :
        /\ Cardinality(slots) = count
        /\ maze' = [maze EXCEPT !.phase = "done", !.portals = nonConsecutivePositions(slots)]
  BY <1>3
<1>5. /\ m.p = maze.p /\ m.typ = maze.typ /\ m.islands = maze.islands /\ m.phase = "done"
      /\ m.open = maze.open /\ m.portals = nonConsecutivePositions(slots) /\ Fields(m)
  BY <1>2, <1>4 DEF Fields
<1> HIDE DEF m
<1>6. OffIslands(m) = OffIslands(maze) /\ Inside(m) = Inside(maze)
  BY <1>5 DEF OffIslands, Inside
<1>7. Chunk(m)
  BY <1>2, <1>5, <1>6 DEF Chunk
<1>8. r \in Nat /\ count \in 1 .. r + 1
  BY <1>2, MazeAssumption DEF Chunk, valid
<1>9. Spread(m)
  <2>1. LET portals == nonConsecutivePositions(slots)
        IN  /\ portals \subseteq 0 .. 2 * r
            /\ Cardinality(portals) = count
            /\ \A i \in portals : i + 1 \notin portals
    <3> HIDE DEF r
    <3> QED
      BY <1>4, <1>8, SpreadApart
  <2> QED
    BY <1>3, <1>5, <2>1 DEF Spread
<1> QED
  BY <1>2, <1>5, <1>6, <1>7, <1>9 DEF MazeInv, m

\* Maze.StructureSpans, for every radius, whatever the islands, the algorithm and
\* what is drawn: the structure spans the cells off the islands without a cycle,
\* no island is entered, and the portals of a border never touch.
THEOREM StructureSpansTheorem == MazeSpec => []StructureSpans
<1>1. MazeInit => MazeInv(maze)
  BY MazeInitInv
<1>2. MazeInv(maze) /\ [MazeNext]_maze => MazeInv(maze')
  <2> SUFFICES ASSUME MazeInv(maze), [MazeNext]_maze PROVE MazeInv(maze')
    OBVIOUS
  <2>1. CASE UNCHANGED maze
    BY <2>1
  <2>2. CASE MazeNext
    BY <2>2, GenerateStep, TryIslandStep, DrawAlgorithmStep, BacktrackerStep, KruskalStep, PrimStep,
       GrowingTreeStep, WalkFromStep, WalkOnStep, WalkJoinsStep, ExtraPassagesStep, SelectPortalsStep
       DEF MazeNext
  <2> QED
    BY <2>1, <2>2
<1>3. MazeInv(maze) => StructureSpans
  BY MazeInvImplies
<1> DEFINE I == MazeInv(maze)
<1>4. I /\ [MazeNext]_maze => I'
  BY <1>2
<1> HIDE DEF I
<1>5. MazeInit => I
  BY <1>1 DEF I
<1>6. I => StructureSpans
  BY <1>3 DEF I
<1> QED
  BY <1>4, <1>5, <1>6, PTL DEF MazeSpec
=============================================================================
