------------------------------ MODULE MCProgram ------------------------------
(***************************************************************************)
(* Small instances of the parts of the bot that share no state with each   *)
(* other here.  A behaviour is one of the part it begins with; the others  *)
(* stay as they start.                                                     *)
(***************************************************************************)
EXTENDS Caller, Lifecycle, HealthServer, Canary, Home, Walk, Maze, World, Settings

CONSTANTS
  c1, c2,              \* calls
  A, P, l1, l2,        \* a chat, a player, two ingest loops
  p1, p2, old, new,    \* two processes, and the builds they run
  X, Y,                \* owner rows of two chats
  q1, q2, s1, s2       \* two requests, two callers of Shutdown

VARIABLE part

Part == {"calls", "life", "listener", "canary", "home", "walk", "maze", "world",
         "settings"}

\* Both calls send a message to one chat: two a window of four overall, one per
\* two and two per five to the chat.  The second call has a deadline.
MCRate(n, w) == [count |-> n, per |-> w]
MCLimits == [message |-> [global |-> MCRate(2, 4), chatRate |-> MCRate(1, 2), chatCap |-> MCRate(2, 5)],
             other   |-> [global |-> MCRate(0, 0), chatRate |-> MCRate(0, 0), chatCap |-> MCRate(0, 0)]]
MCClassOf  == [c \in Call |-> "message"]
MCChatOf   == [c \in Call |-> A]
MCDeadline == [c \in Call |-> IF c = c2 THEN 6 ELSE NoDeadline]

\* The bot is added, a player starts through the chat's link, the bot is kicked.
MCLog == << [kind |-> "presence", chat |-> A, was |-> FALSE, is |-> TRUE],
            [kind |-> "start", player |-> P, chat |-> A],
            [kind |-> "presence", chat |-> A, was |-> TRUE, is |-> FALSE] >>

MCGateSets ==
  {{}} \cup {{a, b} : a \in ringChunksAround(Origin, 1), b \in ringChunksAround(Origin, 2)}

\* A chunk of seven cells by each algorithm, and a gate chunk of nineteen with
\* every island its radius has room for.
MCParameters ==
  {[radius |-> 1, islandTarget |-> 0, extra |-> 1, lo |-> 1, hi |-> 2, algorithms |-> Algorithm,
    types |-> {"fabric"}],
   [radius |-> 2, islandTarget |-> 6, extra |-> 1, lo |-> 1, hi |-> 3, algorithms |-> {"backtracker"},
    types |-> {"gate"}]}
MCStarts == {At2(1, 0), At2(2, 0)}

MCBuild  == [p \in Proc |-> IF p = p1 THEN old ELSE new]
MCSeed   == [p \in Proc |-> 7]
MCKind   == [c \in ChatOwner |-> "chat"]
MCWanted == {Origin, At2(1, 0)}

vars == <<part, callerVars, life, healthVars, canaryVars, homeVars, walk, maze, worldVars, environ>>

Init ==
  /\ part \in Part
  /\ CallerInit /\ LifeInit /\ HealthInit /\ CanaryInit /\ HomeInit /\ WalkInit /\ MazeInit /\ WorldInit
  /\ SettingsInit

\* A step of one part leaves the others as they are.
InCalls == part = "calls" /\ UNCHANGED <<part, life, healthVars, canaryVars, homeVars, walk, maze, worldVars, environ>>

InLife == part = "life" /\ UNCHANGED <<part, callerVars, healthVars, canaryVars, homeVars, walk, maze, worldVars, environ>>

InListener == part = "listener" /\ UNCHANGED <<part, callerVars, life, canaryVars, homeVars, walk, maze, worldVars, environ>>

InCanary == part = "canary" /\ UNCHANGED <<part, callerVars, life, healthVars, homeVars, walk, maze, worldVars, environ>>

InHome == part = "home" /\ UNCHANGED <<part, callerVars, life, healthVars, canaryVars, walk, maze, worldVars, environ>>

InWalk == part = "walk" /\ UNCHANGED <<part, callerVars, life, healthVars, canaryVars, homeVars, maze, worldVars, environ>>

InMaze == part = "maze" /\ UNCHANGED <<part, callerVars, life, healthVars, canaryVars, homeVars, walk, worldVars, environ>>

InWorld == part = "world" /\ UNCHANGED <<part, callerVars, life, healthVars, canaryVars, homeVars, walk, maze, environ>>

InSettings == part = "settings" /\ UNCHANGED <<part, callerVars, life, healthVars, canaryVars, homeVars, walk, maze, worldVars>>

\* Every action of every part, each a disjunct of its own.
Next ==
  \/ InCalls /\ CallerTick
  \/ \E c \in Call : InCalls /\ PassGate(c)
  \/ \E c \in Call : InCalls /\ Acquire(c)
  \/ \E c \in Call : InCalls /\ ContextEnds(c)
  \/ \E c \in Call : InCalls /\ Cancelled(c)
  \/ \E c \in Call : InCalls /\ Attempt(c)
  \/ \E c \in Call : InCalls /\ Retry(c)
  \/ InLife /\ StepDone
  \/ InLife /\ StepFails
  \/ InLife /\ unwind
  \/ InLife /\ serve
  \/ InLife /\ BySignal
  \/ InLife /\ latch
  \/ InLife /\ stopRunner
  \/ InLife /\ Abandon
  \/ InLife /\ JoinDone
  \/ InLife /\ CloseNext
  \/ InLife /\ Signal
  \/ \E r \in Runner : InLife /\ ByRunner(r)
  \/ \E r \in Runner : InLife /\ RunnerReturns(r)
  \/ InListener /\ Start
  \/ InListener /\ setMigrated
  \/ InListener /\ setDraining
  \/ InListener /\ Breaks
  \/ InListener /\ Stopped
  \/ \E q \in Request : InListener /\ Arrive(q)
  \/ \E q \in Request : InListener /\ LoadMigrated(q)
  \/ \E q \in Request : InListener /\ LoadDraining(q)
  \/ \E q \in Request : InListener /\ Ping(q)
  \/ \E s \in Stopper : InListener /\ Shutdown(s)
  \/ \E s \in Stopper : InListener /\ Expire(s)
  \/ \E s \in Stopper : InListener /\ Return(s)
  \/ InCanary /\ StartCanary
  \/ InCanary /\ NextTick
  \/ InCanary /\ ShutdownCanary
  \/ InCanary /\ LoopEnds
  \/ InCanary /\ ShutdownReturns
  \/ \E l \in Leg, k \in Tick : InCanary /\ CallOfLeg(l, k)
  \/ \E l \in Leg, k \in Tick : InCanary /\ probeLeg(l, k)
  \/ InHome /\ BotPresentInChat
  \/ InHome /\ PlayerExists
  \/ InHome /\ Remember
  \/ InHome /\ CallOver
  \/ \E l \in Loop : InHome /\ Begin(l)
  \/ \E l \in Loop : InHome /\ EnsureOwner(l)
  \/ \E l \in Loop : InHome /\ CreateOwner(l)
  \/ \E l \in Loop : InHome /\ ReadPresence(l)
  \/ \E l \in Loop : InHome /\ SetPresence(l)
  \/ \E l \in Loop : InHome /\ ResolveChat(l)
  \/ \E l \in Loop : InHome /\ AddMembership(l)
  \/ \E l \in Loop : InHome /\ CommitUpdate(l)
  \/ \E l \in Loop : InHome /\ Fault(l)
  \/ \E id \in Chat \cup Player : InHome /\ allowKnown(id)
  \/ \E r \in Radii : InWalk /\ SetOut(r)
  \/ \E d \in Direction : InWalk /\ Move(d)
  \/ InMaze /\ Generate
  \/ InMaze /\ TryIsland
  \/ InMaze /\ DrawAlgorithm
  \/ InMaze /\ addExtraPassages
  \/ InMaze /\ selectPortals
  \/ InMaze /\ buildBacktracker
  \/ InMaze /\ buildKruskal
  \/ InMaze /\ buildFrontierPrim
  \/ InMaze /\ buildGrowingTree
  \/ InMaze /\ WalkFrom
  \/ InMaze /\ WalkOn
  \/ InMaze /\ WalkJoins
  \/ \E p \in Proc : InWorld /\ OpenMaze(p)
  \/ \E p \in Proc : InWorld /\ lockMaze(p)
  \/ \E p \in Proc : InWorld /\ createLocked(p)
  \/ \E p \in Proc : InWorld /\ CommitChunk(p)
  \/ \E p \in Proc : InWorld /\ Budget(p)
  \/ \E p \in Proc : InWorld /\ Over(p)
  \/ \E p \in Proc, ch \in Wanted : InWorld /\ EnsureChunkAt(p, ch)
  \/ \E p \in Proc, chat \in ChatOwner : InWorld /\ ActivateChat(p, chat)
  \/ \E k \in Keys : InSettings /\ Set(k)

\* The process's own goroutine runs on, and a cancelled runner returns.
Fairness ==
  /\ WF_life(part = "life" /\ Main)
  /\ \A r \in Runner : WF_life(part = "life" /\ GivesWay(r))

Spec == Init /\ [][Next]_vars /\ Fairness

\* What has begun ends: a drain by its budget at the latest (StopEnds), and every
\* call before the clock reaches its bound (CallsEnd).
StopsAndCallsEnd == StopEnds /\ []CallsEnd
=============================================================================
