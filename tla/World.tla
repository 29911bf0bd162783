-------------------------------- MODULE World --------------------------------
(***************************************************************************)
(* The chunks of one maze (package world): processes that may run          *)
(* different builds over one database create chunks on demand and place    *)
(* the gates of chats, each creation a READ COMMITTED transaction that     *)
(* holds the maze's row.                                                   *)
(***************************************************************************)
EXTENDS HexGrid

CONSTANTS
  Proc,        \* processes
  BuildOf,     \* the generation parameters each runs with (they may differ)
  SeedOf,      \* Spec.Seed of each
  ChatOwner, NoOwner,
  OwnerKind,   \* owner.kind of every id a caller may name; "none" has no row
  Spacing,     \* gateSpacing
  Wanted,      \* chunks of the cells players walk into
  MaxCreations     \* bound of the model: calls

ASSUME WorldAssumption ==
  /\ NoOwner \notin ChatOwner
  /\ DOMAIN BuildOf = Proc /\ DOMAIN SeedOf = Proc
  /\ OwnerKind \in [ChatOwner -> {"none", "player", "chat"}]
  /\ {Spacing, MaxCreations} \subseteq Nat
  /\ Wanted \subseteq [q : Int, r : Int]

VARIABLES
  stored,    \* the committed rows: maze (its seed), chunk, told (chunk_created events)
  proc,      \* per process: its open Maze and the call it is in
  calls      \* calls so far

worldVars == <<stored, proc, calls>>

NoSeed == -1
NoChunk == At2(1000, 1000)

\* want: the chunk asked for.  row: what the open transaction has inserted.
Free == [pc |-> "free", chat |-> NoOwner, want |-> NoChunk, row |-> <<>>, got |-> <<>>]

WorldInit ==
  /\ stored = [maze |-> NoSeed, chunk |-> <<>>, told |-> <<>>]
  /\ proc = [p \in Proc |-> [Free EXCEPT !.pc = "closed"]]
  /\ calls = 0

\* gate: the chat of a gate chunk.  border: whose derivation each side follows,
\* which stands for the portals on it.
chunkOfGate(chat) == {ch \in DOMAIN stored.chunk : stored.chunk[ch].gate = chat}
gateChunks == {ch \in DOMAIN stored.chunk : stored.chunk[ch].gate # NoOwner}

To(p, pc) == proc' = [proc EXCEPT ![p].pc = pc]

\* OpenMaze: the row is inserted unless there is one, then its seed must be ours.
OpenMaze(p) ==
  /\ proc[p].pc = "closed"
  /\ stored' = [stored EXCEPT !.maze = IF @ = NoSeed THEN SeedOf[p] ELSE @]
  /\ To(p, IF stored'.maze = SeedOf[p] THEN "free" ELSE "mismatch")
  /\ UNCHANGED calls

\* EnsureChunkAt: a stored chunk is returned without a lock.
EnsureChunkAt(p, ch) ==
  /\ proc[p].pc = "free" /\ calls < MaxCreations
  /\ calls' = calls + 1
  /\ proc' = [proc EXCEPT ![p] =
       IF ch \in DOMAIN stored.chunk
       THEN [Free EXCEPT !.pc = "returned", !.want = ch, !.got = <<stored.chunk[ch]>>]
       ELSE [Free EXCEPT !.pc = "lock", !.want = ch]]
  /\ UNCHANGED stored

\* ActivateChat: only of a chat, and a stored gate is returned without a lock.
ActivateChat(p, chat) ==
  /\ proc[p].pc = "free" /\ calls < MaxCreations
  /\ calls' = calls + 1
  /\ proc' = [proc EXCEPT ![p] =
       IF OwnerKind[chat] # "chat" THEN [Free EXCEPT !.pc = "error"]
       ELSE IF chunkOfGate(chat) # {}
       THEN LET ch == CHOOSE c \in chunkOfGate(chat) : TRUE
            IN  [Free EXCEPT !.pc = "returned", !.chat = chat, !.want = ch, !.got = <<stored.chunk[ch]>>]
       ELSE [Free EXCEPT !.pc = "lock", !.chat = chat]]
  /\ UNCHANGED stored

\* Mutant of lockMaze: the row is not locked.
lockMazeNot(p) ==
  /\ proc[p].pc = "lock"
  /\ To(p, "locked")
  /\ UNCHANGED <<stored, calls>>

\* SELECT ... FOR NO KEY UPDATE of the maze row, held to the end.
lockMaze(p) ==
  /\ proc[p].pc = "lock"
  /\ \A q \in Proc : proc[q].pc \notin {"locked", "inserted"}
  /\ To(p, "locked")
  /\ UNCHANGED <<stored, calls>>

\* Mutant of border: a stored neighbour is not asked.
borderDerived(p, ch, d) == BuildOf[p]

\* Generate takes the border of a stored neighbour from it, and derives the others.
border(p, ch, d) ==
  IF Neighbor(ch, d) \in DOMAIN stored.chunk THEN stored.chunk[Neighbor(ch, d)].border[Opposite(d)]
  ELSE BuildOf[p]

\* Where: the chunk asked for, or for a chat its gate if it got one meanwhile,
\* and otherwise the place the spiral gives over the chunks and gates as they are.
chosen(p) ==
  LET chat == proc[p].chat
  IN  IF chat = NoOwner THEN proc[p].want
      ELSE IF chunkOfGate(chat) # {} THEN CHOOSE c \in chunkOfGate(chat) : TRUE
      ELSE gateNext(DOMAIN stored.chunk, gateChunks, Spacing)

\* The body under the lock: a chunk that is there by now is returned; otherwise
\* it is generated against its neighbours, and inserted with its event.
createLocked(p) ==
  LET chat == proc[p].chat
      ch   == chosen(p)
  IN  /\ proc[p].pc = "locked"
      /\ proc' = [proc EXCEPT ![p].want = ch, ![p].pc = "inserted",
           ![p].row = IF ch \in DOMAIN stored.chunk THEN <<>>
                      ELSE << [gate |-> chat, border |-> [d \in Direction |-> border(p, ch, d)]] >>,
           ![p].got = IF ch \in DOMAIN stored.chunk THEN << stored.chunk[ch] >>
                      ELSE << [gate |-> chat, border |-> [d \in Direction |-> border(p, ch, d)]] >>]
      /\ UNCHANGED <<stored, calls>>

Inserted(p) ==
  IF proc[p].row = <<>> THEN stored
  ELSE [stored EXCEPT
    !.chunk = [c \in DOMAIN @ \cup {proc[p].want} |-> IF c = proc[p].want THEN proc[p].row[1] ELSE @[c]],
    !.told = Append(@, proc[p].want)]

\* Mutant of CommitChunk: the map is handed out although the commit failed.
CommitChunkUnchecked(p) ==
  /\ proc[p].pc = "inserted"
  /\ stored' \in {stored, Inserted(p)}
  /\ To(p, "returned")
  /\ UNCHANGED calls

\* The commit; an acknowledgement lost to the budget returns ErrCreateBudget.
CommitChunk(p) ==
  /\ proc[p].pc = "inserted"
  /\ stored' = Inserted(p)
  /\ \E pc \in {"returned", "error"} : To(p, pc)
  /\ UNCHANGED calls

\* The creation budget expires, a statement fails, or the process dies.
Budget(p) ==
  /\ proc[p].pc \in {"lock", "locked", "inserted"}
  /\ To(p, "error")
  /\ UNCHANGED <<stored, calls>>

Over(p) ==
  /\ proc[p].pc \in {"returned", "error"}
  /\ proc' = [proc EXCEPT ![p] = Free]
  /\ UNCHANGED <<stored, calls>>

WorldNext ==
  \E p \in Proc :
    \/ OpenMaze(p) \/ lockMaze(p) \/ createLocked(p) \/ CommitChunk(p) \/ Budget(p) \/ Over(p)
    \/ \E ch \in Wanted : EnsureChunkAt(p, ch)
    \/ \E chat \in ChatOwner : ActivateChat(p, chat)

WorldSpec == WorldInit /\ [][WorldNext]_worldVars
----------------------------------------------------------------------------
(* Properties *)

Map == INSTANCE Atlas WITH Build <- Range(BuildOf), atlas <- stored.chunk, told <- stored.told

\* Whoever creates chunks at the same time, under whatever builds, fails or
\* loses its acknowledgement, the stored chunks keep Atlas's promise.
ImplementsAtlas == Map!AtlasSpec

\* A map or a gate handed to a caller is the stored one, from then on
\* (createLocked, ActivateChat).
HandedOutIsStored ==
  \A p \in Proc : proc[p].pc = "returned" =>
    /\ proc[p].want \in DOMAIN stored.chunk
    /\ proc[p].got = << stored.chunk[proc[p].want] >>
    /\ proc[p].chat # NoOwner => stored.chunk[proc[p].want].gate = proc[p].chat
=============================================================================
