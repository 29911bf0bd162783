-------------------------------- MODULE Home ---------------------------------
(***************************************************************************)
(* Chats and players becoming known (packages onboard and chat, and the    *)
(* owner rows of package store): the two update handlers as READ COMMITTED *)
(* transactions of ingest loops that overlap, and the outbound gate        *)
(* (ingest.Gate) that reads what they commit.                              *)
(***************************************************************************)
EXTENDS Integers, Sequences, FiniteSets

CONSTANTS
  Chat, Player,  \* telegram ids
  allowed,       \* Gate.allowed: the allowlisted chats
  Log,           \* the updates, in the order of their ids
  Loop,          \* ingest loops over one database
  MaxFaults,     \* bound of the model: attempts that fail or lose their acknowledgement
  MaxCalls       \* bound of the model: outbound calls

NoChat == "none"

\* A my_chat_member update of a group, or a private /start, with or without the
\* chat its link names; other updates reach neither handler, or return at once.
Update ==
  [kind : {"presence"}, chat : Chat, was : BOOLEAN, is : BOOLEAN]
  \cup [kind : {"start"}, player : Player, chat : Chat \cup {NoChat}]

ASSUME HomeAssumption ==
  /\ Chat \cap Player = {} /\ NoChat \notin Chat \cup Player
  /\ allowed \subseteq Chat \cup Player
  /\ Log \in Seq(Update)
  /\ {MaxFaults, MaxCalls} \subseteq Nat

VARIABLES
  home,          \* the committed rows
  tx,            \* per loop: its position in Log and its open transaction
  faults,        \* faults so far
  gate           \* the Gate: its cache, and one call at a time

homeVars == <<home, tx, faults, gate>>

\* owner: ids with an owner row (its scopes, accounts and balances come with
\* it).  present: chat_presence, absent from its domain when there is no row.
Rows == [owner |-> {}, present |-> {}, member |-> {}, event |-> <<>>]

NoTx(pos) == [pos |-> pos, pc |-> "idle", prior |-> FALSE, joined |-> FALSE,
              owner |-> {}, present |-> {}, member |-> {}]

HomeInit ==
  /\ home = Rows
  /\ tx = [l \in Loop |-> NoTx(1)]
  /\ faults = 0
  /\ gate = [cache |-> {}, pc |-> "idle", id |-> NoChat, sawPresent |-> FALSE, calls |-> 0]

U(l) == Log[tx[l].pos]

\* The owner the handler ensures.
OwnerOf(u) == IF u.kind = "presence" THEN u.chat ELSE u.player

\* What a transaction reads: the committed rows and its own writes.
Owners(l) == home.owner \cup tx[l].owner
PresentRow(l, c) == {r \in home.present : r.chat = c}

Go(l, pc) == tx' = [tx EXCEPT ![l].pc = pc]

Others(l) == Loop \ {l}

\* Every attempt that ends without a commit is rolled back and made again.
RolledBack(l) == tx' = [tx EXCEPT ![l] = NoTx(@.pos)]
----------------------------------------------------------------------------
(* EnsureOwner *)

Begin(l) ==
  /\ tx[l].pc = "idle" /\ tx[l].pos <= Len(Log)
  /\ Go(l, "ensure")
  /\ UNCHANGED <<home, faults, gate>>

\* The find: a hit goes on, a miss is followed by CreateOwner.
EnsureOwner(l) ==
  /\ tx[l].pc = "ensure"
  /\ Go(l, IF OwnerOf(U(l)) \in Owners(l) THEN "read" ELSE "create")
  /\ UNCHANGED <<home, faults, gate>>

\* An insert waits for another transaction's insert of the same key.
Unclaimed(l) == \A k \in Others(l) : OwnerOf(U(l)) \notin tx[k].owner

\* Mutant of CreateOwner: the lost race is swallowed (ON CONFLICT DO NOTHING).
CreateOwnerSwallowed(l) ==
  /\ tx[l].pc = "create" /\ Unclaimed(l)
  /\ tx' = [tx EXCEPT ![l].pc = "read", ![l].owner = {OwnerOf(U(l))}]
  /\ UNCHANGED <<home, faults, gate>>

\* The insert; one that lost the race violates the unique index and fails the
\* attempt.
CreateOwner(l) ==
  /\ tx[l].pc = "create" /\ Unclaimed(l)
  /\ IF OwnerOf(U(l)) \in home.owner
     THEN RolledBack(l)
     ELSE tx' = [tx EXCEPT ![l].pc = "read", ![l].owner = {OwnerOf(U(l))}]
  /\ UNCHANGED <<home, faults, gate>>
----------------------------------------------------------------------------
(* PresenceHandler: read, write, append *)

\* Present, or the update's old status when there is no row.
ReadPresence(l) ==
  /\ tx[l].pc = "read" /\ U(l).kind = "presence"
  /\ LET rows == PresentRow(l, U(l).chat)
     IN  tx' = [tx EXCEPT ![l].pc = "write",
                          ![l].prior = IF rows = {} THEN U(l).was ELSE (CHOOSE r \in rows : TRUE).is]
  /\ UNCHANGED <<home, faults, gate>>

\* The upsert waits for another's of the same chat.  What it reports is not used.
SetPresence(l) ==
  /\ tx[l].pc = "write" /\ U(l).kind = "presence"
  /\ \A k \in Others(l) : \A r \in tx[k].present : r.chat # U(l).chat
  /\ tx' = [tx EXCEPT ![l].pc = "append",
                      ![l].present = IF [chat |-> U(l).chat, is |-> U(l).is] \in home.present THEN {}
                                     ELSE {[chat |-> U(l).chat, is |-> U(l).is]}]
  /\ UNCHANGED <<home, faults, gate>>

PresenceEvent(l) ==
  IF tx[l].prior = U(l).is THEN <<>>
  ELSE << [type |-> IF U(l).is THEN "bot_added_to_chat" ELSE "bot_kicked", chat |-> U(l).chat] >>
----------------------------------------------------------------------------
(* StartHandler *)

\* ChatOwnerID: a chat no row names is left out, never created.
ResolveChat(l) ==
  /\ tx[l].pc = "read" /\ U(l).kind = "start"
  /\ Go(l, IF U(l).chat \in Owners(l) THEN "write" ELSE "append")
  /\ UNCHANGED <<home, faults, gate>>

\* AddMembership: the insert waits for another's of the same pair, and does
\* nothing when the pair is there.
AddMembership(l) ==
  LET pair == <<U(l).chat, U(l).player>>
  IN  /\ tx[l].pc = "write" /\ U(l).kind = "start"
      /\ \A k \in Others(l) : pair \notin tx[k].member
      /\ tx' = [tx EXCEPT ![l].pc = "append", ![l].joined = pair \notin home.member,
                          ![l].member = IF pair \in home.member THEN {} ELSE {pair}]
      /\ UNCHANGED <<home, faults, gate>>

StartEvent(l) ==
  IF tx[l].owner = {} /\ ~tx[l].joined THEN <<>>
  ELSE << [type |-> "player_started", player |-> U(l).player, made |-> tx[l].owner # {},
           joined |-> IF tx[l].joined THEN U(l).chat ELSE NoChat] >>
----------------------------------------------------------------------------
AppendEvent(l) == IF U(l).kind = "presence" THEN PresenceEvent(l) ELSE StartEvent(l)

Committed(l) ==
  [owner   |-> home.owner \cup tx[l].owner,
   present |-> {r \in home.present : \A w \in tx[l].present : w.chat # r.chat} \cup tx[l].present,
   member  |-> home.member \cup tx[l].member,
   event   |-> home.event \o AppendEvent(l)]

PresentIn(rows, c) == [chat |-> c, is |-> TRUE] \in rows.present

\* The event, the offset and the commit; a lost acknowledgement makes the
\* attempt again.
CommitUpdate(l) ==
  /\ tx[l].pc = "append"
  /\ home' = Committed(l)
  /\ gate' = [gate EXCEPT !.sawPresent = @ \/ PresentIn(home', gate.id)]
  /\ \/ tx' = [tx EXCEPT ![l] = NoTx(@.pos + 1)] /\ UNCHANGED faults
     \/ RolledBack(l) /\ faults < MaxFaults /\ faults' = faults + 1

\* Any statement fails, the process dies, or the last attempt gives the update
\* up: nothing of the transaction remains.
Fault(l) ==
  /\ tx[l].pc # "idle" /\ faults < MaxFaults
  /\ faults' = faults + 1
  /\ tx' = [tx EXCEPT ![l] = NoTx(@.pos)]
  /\ UNCHANGED <<home, gate>>
----------------------------------------------------------------------------
(* The gate *)

\* AllowCall for a known destination; the cache is looked up under its mutex.
allowKnown(id) ==
  /\ gate.pc = "idle" /\ gate.calls < MaxCalls
  /\ gate' = [gate EXCEPT !.pc = IF id \in gate.cache THEN "passed"
                                 ELSE IF id \in allowed THEN "presence" ELSE "player",
                          !.id = id, !.sawPresent = PresentIn(home, id), !.calls = @ + 1]
  /\ UNCHANGED <<home, tx, faults>>

\* Mutant of BotPresentInChat: presence is remembered like a player.
BotPresentCached ==
  /\ gate.pc = "presence"
  /\ gate' = [gate EXCEPT !.pc = IF PresentIn(home, gate.id) THEN "passed" ELSE "player",
                          !.cache = IF PresentIn(home, gate.id) THEN @ \cup {gate.id} ELSE @]
  /\ UNCHANGED <<home, tx, faults>>

\* A lookup that fails refuses the call.
BotPresentInChat ==
  /\ gate.pc = "presence"
  /\ \/ gate' = [gate EXCEPT !.pc = IF PresentIn(home, gate.id) THEN "passed" ELSE "player"]
     \/ gate' = [gate EXCEPT !.pc = "refused"]
  /\ UNCHANGED <<home, tx, faults>>

PlayerExists ==
  /\ gate.pc = "player"
  /\ \/ gate' = [gate EXCEPT !.pc = IF gate.id \in home.owner \cap Player THEN "caching" ELSE "refused"]
     \/ gate' = [gate EXCEPT !.pc = "refused"]
  /\ UNCHANGED <<home, tx, faults>>

Remember ==
  /\ gate.pc = "caching"
  /\ gate' = [gate EXCEPT !.cache = @ \cup {gate.id}, !.pc = "passed"]
  /\ UNCHANGED <<home, tx, faults>>

CallOver ==
  /\ gate.pc \in {"passed", "refused"}
  /\ gate' = [gate EXCEPT !.pc = "idle", !.id = NoChat, !.sawPresent = FALSE]
  /\ UNCHANGED <<home, tx, faults>>

HomeNext ==
  \/ \E l \in Loop : Begin(l) \/ EnsureOwner(l) \/ CreateOwner(l) \/ ReadPresence(l) \/ SetPresence(l)
                     \/ ResolveChat(l) \/ AddMembership(l) \/ CommitUpdate(l) \/ Fault(l)
  \/ \E id \in Chat \cup Player : allowKnown(id)
  \/ BotPresentInChat \/ PlayerExists \/ Remember \/ CallOver

HomeSpec == HomeInit /\ [][HomeNext]_homeVars
----------------------------------------------------------------------------
(* Properties *)

Started(p) == {i \in DOMAIN home.event : home.event[i].type = "player_started" /\ home.event[i].player = p}

\* However loops overlap, retry or lose acknowledgements, a player's creation
\* and each of its memberships are told by exactly one player_started event,
\* and no event tells of a row that is not there (StartHandler, EnsureOwner).
StartedOnce ==
  \A p \in Player :
    /\ Cardinality({i \in Started(p) : home.event[i].made}) = Cardinality({p} \cap home.owner)
    /\ \A c \in Chat :
         Cardinality({i \in Started(p) : home.event[i].joined = c}) = Cardinality({<<c, p>>} \cap home.member)

\* A call is let through only to a player that exists, or to an allowlisted
\* chat the bot was present in while the call was being decided; the cache
\* never stands in for presence (Gate.allowKnown).
GateIsHonest ==
  /\ gate.cache \subseteq home.owner \cap Player
  /\ gate.pc = "passed" => \/ gate.id \in home.owner \cap Player
                           \/ gate.id \in allowed /\ gate.sawPresent

OfPresence(c) == SelectSeq(home.event, LAMBDA e : e.type # "player_started" /\ e.chat = c)

\* bot_added_to_chat and bot_kicked are appended "exactly when that presence
\* actually changes", so the events of one chat alternate.
PresenceEventsAlternate ==
  \A c \in Chat : \A i \in 1 .. Len(OfPresence(c)) - 1 :
    OfPresence(c)[i].type # OfPresence(c)[i + 1].type
=============================================================================
