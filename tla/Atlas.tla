-------------------------------- MODULE Atlas --------------------------------
(***************************************************************************)
(* What the chunks of one maze promise: a chunk, once created, is never    *)
(* changed or created again, is told of exactly once, agrees with every    *)
(* neighbour on the border they share, and is a gate only of a chat that   *)
(* has none yet and only far enough from every other gate.                 *)
(***************************************************************************)
EXTENDS HexGrid

CONSTANTS
  Build,    \* whose derivation a border follows
  ChatOwner,     \* chats
  NoOwner,
  Spacing   \* the gate spacing k

VARIABLES
  atlas,    \* chunk -> [gate, border]
  told      \* the chunks told of, in order

ChunkRow == [gate : ChatOwner \cup {NoOwner}, border : [Direction -> Build]]

GateChunks == {ch \in DOMAIN atlas : atlas[ch].gate # NoOwner}

Agrees(ch, row) ==
  \A d \in Direction : Neighbor(ch, d) \in DOMAIN atlas =>
    row.border[d] = atlas[Neighbor(ch, d)].border[Opposite(d)]

AtlasInit == atlas = <<>> /\ told = <<>>

Create(ch, row) ==
  /\ ch \notin DOMAIN atlas
  /\ Agrees(ch, row)
  /\ row.gate # NoOwner => /\ \A g \in GateChunks : atlas[g].gate # row.gate
                          /\ farEnough(ch, GateChunks, Spacing)
  /\ atlas' = [c \in DOMAIN atlas \cup {ch} |-> IF c = ch THEN row ELSE atlas[c]]
  /\ told' = Append(told, ch)

\* The chunk and the row are read off the next state: TLC need not enumerate them.
AtlasNext == \E ch \in DOMAIN atlas' \ DOMAIN atlas : Create(ch, atlas'[ch])

AtlasSpec == AtlasInit /\ [][AtlasNext]_<<atlas, told>>

\* What that amounts to at every moment: stored neighbours agree on their border,
\* a chat has one gate, two gates are further apart than the spacing, and the
\* chunks told of are the stored ones, each once.
AtlasKept ==
  /\ \A ch \in DOMAIN atlas : Agrees(ch, atlas[ch])
  /\ \A g, h \in GateChunks : g # h =>
       atlas[g].gate # atlas[h].gate /\ Distance(g, h) > Spacing
  /\ \A ch \in DOMAIN atlas : \E i \in 1 .. Len(told) : told[i] = ch
  /\ \A i, j \in 1 .. Len(told) : told[i] \in DOMAIN atlas /\ (told[i] = told[j] => i = j)
=============================================================================
