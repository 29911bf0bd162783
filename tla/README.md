# TLA+ models of lab-game

lab-game is a Telegram game bot in Go on PostgreSQL. This directory holds the
TLA+ modules that model its concurrent core and the parts of the process around
it, the TLC configurations that check them on small instances, and theorems about them that TLAPS proves for every
value of the constants. `PROJECT.json` is the index: which module models which
lines (`map`), what each run checks (`runs`), the deliberate defects each
property is known to catch (`mutants`), what can go wrong here that a test
hardly reaches (`hazards`), and where the code and its documentation disagree
(`findings`).

    tlc -config MCScheduler.cfg MCScheduler.tla        # a run
    tlc -config MCProgram.cfg MCProgram.tla            # the parts around the scheduler and ingest
    tlapm Scheduler_proofs.tla                         # a module of proofs

## 1. Inventory

| Component | State | Operations | Hard part | What makes it correct |
|---|---|---|---|---|
| `internal/scheduler` Worker | `scheduled_task` rows and their row locks; per process the in-memory `pending` map | `RunOnce` = `drainPending`, `discoverDue`, then per id `executeOne` (re-claim, handler on its own goroutine, `settleAndAfter`); `enqueuePending`; `Run`, `Stop` | several processes on one table; a deadline that abandons a transaction with its locks; commits whose outcome is unknown; settlement long after the claim | each occurrence gets one verdict, atomically; failures are counted once; no row is lost, and due rows get settled |
| scheduler `Registry` | declarations, immutable | `Schedule`, `DeadTasks` | runs in a caller's transaction | one pending row per instance key |
| scheduler `Reconcile` | the same rows | seed and correct every recurrence | uses an instant read before its statements | exactly one row per recurrence; no occurrence repeated |
| scheduler `Liveness` | `process_liveness` row | `AbsorbDowntime`, `Refresh`, `Run`, `Stop` | rewrites rows workers execute; must fail no later than the threshold | after an outage overdue rows move by the gap, once |
| `internal/ingest` Loop | `ingest_offset`, `ingest_dead_update`; per process the fetched batch | `PollOnce`, `runAttempts`, `settleUnrouted`, `settleGivenUp`, `Run`, `Stop` | the offset both acknowledges and resumes; lost acknowledgements; crashes; overlapping deployments | no update lost, keyed effects once, no update blocks the rest, Stop returns and drops nothing |
| `internal/ingest` Gate (of outbound calls) | positive-only player cache | `AllowCall` | cached positives against uncached presence | never lets an unknown player or an absent chat through |
| `internal/store` | accounts, balances, journal, postings, items, movement chains, owners, events | `Post`, `Move`, `CreateOwner`, `EnsureOwner`, `AppendEvent`, `Migrate` | concurrent transactions, lock order, unlocked reads used later | zero-sum per kind, no overdraft, one holder per item, capacity agrees with holdings, idempotent operations |
| `internal/tg` | limiter schedules per class and per (chat, class) | `acquire`, `Call`, `doAttempt`, `classifyAttempt` | concurrent reservations under several windows; ambiguous requests | no window exceeded, no repeated ambiguous write, one observation per call |
| `cmd/bot` | opened resources, readiness flags, runners | `assemble`, `unwind`, `serve`, `drain`, `run` | signals, failing runners and one shutdown budget at once | what was opened is closed in reverse; the exit code tells the truth |
| `internal/world` | `maze`, `chunk`, gates, discovery rows | `Open`, `EnsureChunkAt`, `ActivateChat`, `RecordDiscovery`, `Depth` | unlocked read, lock, re-read | a chunk is created once and never changes; gates keep their distance |
| `internal/chat`, `internal/onboard` | presence, membership, owners | presence and `/start` handlers | redelivery, order of presence events | idempotent; a row and the event that tells of it come together |
| `internal/health` | metrics, a canary, an HTTP server | `Start`, `Shutdown`, `tick` | lifecycle of goroutines | shutdown joins what was started |
| `internal/backoff`, `gate`, `hexgrid`, `maze` | none (pure) | `Exponential`, `Next`, `Spiral`, `Locate`, `Generate` | numeric edges, search orders | contracts stated in their package comments |
| `internal/config` | none after start | `Load` and its readers; the constructors that take the result | two validations of one value far apart | what is accepted serves |
| `internal/contract` | none | registration, conformance | - | declarations agree |

How they meet. `cmd/bot` builds one pool, runs `store.Migrate`,
`Liveness.AbsorbDowntime`, then one scheduler Worker, one ingest Loop and one
heartbeat as runners, with health beside them. Worker and Loop never call each
other: they share the database. A handler of either gets the transaction its
driver opened and calls `store.Post`/`Move` in it, so effects, settlement and
offset commit together; `store.ErrAlreadyPosted` is what makes a replay
harmless. Everything sent to Telegram goes through `tg`, behind `ingest.Gate`.

## 2. Modules

| Module | What it is |
|---|---|
| `TaskTable` | rows of `scheduled_task` and what a settlement writes: `Every`, `DoneRow`, `FailedRow`, `PostponedRow` |
| `TaskContract` | the abstract specification of the scheduler: no workers, one atomic verdict per occurrence |
| `Scheduler` | the workers: drain, discovery, claim, handler, breach, settlement, commit, and their failures; implements `TaskContract` |
| `Ingest` | the long-poll loop(s), attempts, offset, give-up rows and the Bot API server's memory of updates |
| `Upkeep` | start-up, heartbeat and outages around `TaskContract`: `AbsorbDowntime`, `Reconcile`, `Refresh` |
| `LedgerRequest` | the documents given to `Post` and `Move`, their capacity legs and per-kind sums |
| `SerialLedger` | the abstract specification of `store`: documents take effect one at a time and whole |
| `Ledger` | the transactions that carry them, phase by phase and side by side; implements `SerialLedger` |
| `Backoff` | the retry ramp and its jitter, as operators |
| `Limiter`, `Caller` | the window schedules as operators; outbound calls through the gate, the schedules, attempts and waits |
| `Lifecycle` | one run of the process: assembly, unwinding, runners, signals, drain, exit |
| `HealthServer`, `Canary` | the listener with its readiness answers and its shutdown; the canary's ticks and probes |
| `Home` | chats, players and memberships becoming known through update handlers, and the gate that reads them |
| `HexGrid`, `Walk` | the lattice, chunk addressing, spiral and gate placement as operators; a walk that compares them cell by cell |
| `Maze` | the generation of one chunk, draw by draw |
| `Atlas` | the abstract specification of a maze's chunks |
| `World` | the transactions of several processes that create them; implements `Atlas` |
| `Settings` | the environment as `config.Load` reads it, and the constructors that take it |
| `TaskContract_proofs`, `Scheduler_proofs`, `Upkeep_proofs`, `Ingest_proofs` | the theorems about the modules they are named for |
| `Ledger_proofs` | theorems about `SerialLedger` and `Ledger` |
| `Walk_proofs` | theorems about `HexGrid` and `Walk` |
| `World_proofs` | theorems about `World` with `Atlas`, `Home`, and `Maze` |
| `Program_proofs` | theorems about `HealthServer`, `Canary`, `Lifecycle`, `Backoff`, `Limiter` with `Caller`, and `Settings` |
| `MCContract`, `MCScheduler`, `MCIngest`, `MCLedger`, `MCHome` | values of the function-valued constants, and symmetry sets |
| `MCProgram` | instances of the parts above that share no state, in one specification |

### TaskTable and TaskContract

A task is its row id. Ids in `OneShot` and `Recurrent` have a declaration of
that kind, any other id has a type this build does not declare. A row is
`unborn` (not inserted), `pending`, `dead` or `gone` (a one-shot deleted by its
success). Instants are numbers read from the one database clock `now`;
`Delays`, `Period`, `RetryDelay` and `RetryMaxDelay` are positive or
non-negative as `New`, `Schedule` and `backoff` enforce.

`done[t]` and `failed[t]` are history: the occurrences (the `run_at` values) of
`t` that were settled by a success or a counted failure. `Complete`, `Fail` and
`Refuse` are the three settlements, each one atomic step with the settlement
instant somewhere between the due instant and the present.

### Scheduler

`pc[w]` is where worker `w` is in a cycle:

| `pc` | Code | Steps out of it |
|---|---|---|
| `idle` | `Run` between cycles | `StartCycle` |
| `drain`, `probe` | `drainPending`, `drainOne` | `DrainApplied`, `DrainMissed`, `Probe`, `Discover`, and errors |
| `cycle` | `RunOnce`'s loop, `executeOne` to the re-claim | `Claim`, `Skip`, `BeginFails` |
| `claimed` | after the re-claim | `StartHandler`, `SettleUnregistered`, and errors |
| `running` | the `select` on result and deadline | `HandlerReturns`, `Breach` |
| `terminate` | `pg_terminate_backend` | `Terminate`, `TerminateFails` |
| `settle`, `commit` | `settleAndAfter` | `Settle`, `SettlePanicBusy`, `Commit...`, and errors |

`holder[t]` is the session holding the row lock: `Live(w)`, the transaction of
the worker's attempt, or `Orphan(w)`, one it abandoned. `work[w]` is the
claimed row (or the pending entry being probed), `result[w]` the
`handlerResult`, `instant[w]` the settlement or drain instant, `pending[w]`
the map of deferred settlements. A handler's result is drawn from
`HandlerResult`: `ok` (Done and Noop settle alike), `failed`, `busy` (returned
with rows open) and `panicBusy`.

Statements that are one SQL command are one step; a COMMIT may be applied with
its acknowledgement lost; a backend may die under a transaction, after which
the worker's next statement fails. `MaxFaults` bounds how many such faults a
behaviour has. Handlers' own writes live and die with the transaction that
`Commit` ends, so they need no variable.

Two abstractions to know. `Terminate` takes effect before the worker's next
cycle (`pg_terminate_backend` only signals); the later outcome is
`TerminateFails` followed by `OrphanEnds`, so nothing is excluded, but a late
signal costs a fault of the budget. And each process has one worker running
one cycle at a time: `Run` is sequential, and only tests call `RunOnce` beside
it.

### Upkeep

Processes over one database start, in the order of `cmd/bot`'s steps 9 and 10:
`Begin`, `Measure` (the liveness row is locked and the gap read), `Absorb`
(overdue rows move by the gap; the row is written), then `Reconcile`'s `Seed`
and `Correct` per recurrence, both from one instant read before the first.
While up, `RefreshOK` and `RefreshFails` are the heartbeat, whose ticker keeps
one tick in hand; it gives up after `failureTolerance` failures. `Exit` writes
the instant once more, `Die` does not. Tasks are settled meanwhile as
`TaskContract` says, by any process that is up. `Stall` bounds how long a
transaction or a reconciliation stays open and `Late` how long a refresh takes;
without such bounds the properties do not hold, and neither would the design.
A recurrence may have been declared with another period by an earlier build.

### Ingest

Updates are their update ids. `arrived` and `confirmed` are the Bot API
server's (external) state: what it has issued, and the offset below which it
was told to forget. `offset`, `dead` and `effects` are the database: the
singleton offset, the number of give-up rows, and how many runs of the handler
committed for each update. Per loop: `pc`, the transmitted offset, the batch,
the attempts spent on its head, and whether `Stop` was called. A `Keyed`
handler posts under the update's operation id, whose unique index makes a
second post either wait for the first's transaction or fail with
`ErrAlreadyPosted`; other routed handlers carry no such protection. A crash
covers a cancelled context, which leaves the same state behind.

### Limiter, Caller and Backoff

A schedule is its windows and the grants that `evict` has not dropped: a set,
for which the code keeps a sorted slice. A grant is its instant together with
the call and attempt it was made for, so two grants of one instant are two.
`holds` counts the grants in each interval that begins at a grant, where the
code compares grants `count` places apart. `Power` is the ramp's `math.Pow`, as
a recursive function on exact numbers. `Acquire` is one step, as the code holds
one mutex, but the instant it works from was read before (`at`), so calls may
evict and reserve in another order than they read the clock; `MaxLag` bounds the
difference. `Outcome` is what an attempt may come to, including a request
Telegram acted on without its answer arriving.

A call's context is state (`done`). `ContextEnds` ends it, because its caller
cancels it, at any time, or because its deadline has passed; the context's own
timer may be late, by `MaxLag` as well. Each place that looks at the context is a
step of the call: `Cancelled` is `waitUntil` returning the context's error while
it waits for a reserved instant or for the end of a back-off, which it can only
do if it found that instant still ahead (`timed`), and may also do beside the
timer, since `select` takes either; an `Attempt` under a context that has ended
writes nothing (`Unwritten`), and one cancelled under way is among the outcomes.
The limiter knows the deadline and not the context, so a cancelled call still
reserves, and its reservation stays. `GrantsKeepWindows` looks at everything ever granted. It holds
with windows shortened by `MaxLag - 1`: what an instant evicted, an earlier one
that takes the mutex later cannot see.

### Lifecycle and HealthServer

`life.pc` goes through `assembling`, `serving`, `draining` and closing to
`exited`; each step of assembly that opens something appends its closer, and a
failed one unwinds. `drain` stops the runners in their order, waits for all of
them until the budget ends or a second signal arrives, cancels the rest, and
closes in reverse order. `Uses` says what each runner uses. A closer that
returns an error counts as closed. `HealthServer` has the listener with its
requests, each one an `Arrive`, two atomic loads and a ping, and concurrent
callers of `Shutdown`, of which the first starts the graceful stop.

### Canary, Home

A tick starts one probe for every leg and waits for all; the recorder of a leg
keeps the last call's status. `Home` has the two handlers as READ COMMITTED
transactions of overlapping loops: `EnsureOwner` looks, `CreateOwner` inserts
and may find the row there after all, presence is read, written and told of,
memberships are added. `Fault` ends an attempt, or loses the acknowledgement of
its commit, and the update is attempted again. The gate is one call at a time,
as its only shared state is a set that grows.

### HexGrid, Walk, Maze

Coordinates are integers without width; the code keeps 32 bits and computes in
64. The walk compares each operator with its definition: location with the
distance to the centre, the spiral with its inverse and its rings, the depth and
the next gate with a search of every candidate. `Maze` takes one draw at a time
and makes each a free choice; its algorithms keep the code's working sets.

### Atlas and World

A chunk is its gate and its borders; a border follows the derivation of the
build that created it first. `World` has, per process, the unlocked read, the
maze's row lock, the second read, the neighbours' borders and the insert with
its event, for `EnsureChunkAt` and `ActivateChat`. It starts before the maze is
opened; a process may run another build than the one that opens it. The
refinement maps committed chunks and their events to `atlas` and `told`.

### Settings

`environ` holds the keys that differ from an environment with only the
required ones. `Refused` is what the readers reject, `Load` adds the
cross-check, and `NewClient`, `NewLoop`, `NewWorker`, `NewLiveness`, `NewLegs`
and `NewCanary` are the constructors' own checks. The balance file is read or
refused as a whole; of world files only their ids matter. `tg.New` refuses more
than `Load` does: a ceiling below the base, and a malformed token; the process
then ends only at step 11 of assembly, after migrations.

### LedgerRequest, SerialLedger and Ledger

A request is one document: its operation key (or `NoOp` for the bases without
one), its movements of instances and its own postings, net per account. Ids of
instances and accounts are numbers, because their order is the lock order; the
minted instance's id is drawn in advance, and no other transaction draws it.
`Delta(r, a)` adds the capacity legs `Move` derives to the postings.

`balance`, `posted`, `entries` and `chain` are the committed rows: balances,
the sum of each account's postings, journal entries per operation, and each
instance's movements in order. `Ledger` extends `SerialLedger` with what each
transaction has in hand, so the refinement mapping is the identity on these
four. `pc[p]` follows `Move` (a `Post` has no movements):

| `pc` | Code | Steps out of it |
|---|---|---|
| `idle` | the caller has no transaction | `Begin` (phase a) |
| `read` | phase b, `post`'s phases b and c | `ReadHeads`, `Refuse` |
| `basis` | phase d | `InsertBasis`, `AlreadyPosted` |
| `write` | the hook, then phases e and f | `InsertMovement`, `MoveConflict`, `UpdateBalance`, `Overdraft`, `Commit` |

A transaction waits only at `player_operation`'s unique index, at
`item_movement_successor_key`, and at an `account_balance` row; there the step
is disabled until the other transaction ends, and `Abort` may end any at any
time. Order is in the guards: `NextItem` and `NextAccount` give the one row a
transaction writes next. A COMMIT whose acknowledgement is lost is a `Commit`
after which the caller may begin the same request again.

Taken from the code's use, and not checked: a transaction makes one store call;
callers do not post to `slots_used` themselves; accounts and holders exist
beforehand. Amounts are integers, in units of the column's scale.

## 3. Runs

| Run | Instance | What it shows |
|---|---|---|
| `contract` | a one-shot of one attempt, a recurrence of period 2 declared with 5 before, an undeclared type; 2 processes, 2 starts, threshold 3, heartbeat 2; clock to 5 | `CInv`: settled occurrences stay behind a pending row, the failure count is the number of distinct failures since the last success, terminal states are earned, whatever start-up does to the rows; no outage moves a row twice (`AbsorbedOnce`), the heartbeat gives up before a restart would move rows a live process executes (`GivesUpHonestly`), and a recurrence keeps a row (`RecurrenceNeverLost`) |
| `scheduler` | 2 workers, a one-shot and a recurrence, `ClaimLimit` 1, 2 attempts, clock to 2, 1 fault, all four handler results | the refinement `ImplementsContract`, the inductive invariant, and the contract's properties read on the workers |
| `scheduler_live` | 1 worker (what `cmd/bot` runs), plus an undeclared type, `ClaimLimit` 2, 1 fault | due rows are settled even if handlers hang; deferred settlements do not linger |
| `scheduler_reclaim` | 1 worker, 1 task, 1 fault | **violated**: see the findings |
| `scheduler_busy` | 1 worker, 1 task, no fault | **violated**: see the findings |
| `ingest_overlap` | 2 loops, 3 updates (one unrouted, one keyed, one plain), batches of 2, 2 attempts, 2 faults | nothing is lost, keyed effects happen once, the offset never goes back, Stop drops nothing |
| `ingest` | 1 loop, 4 updates, 3 attempts, 3 faults | every update is settled, given up on at most once, and Stop returns |
| `ingest_given_up` | 1 keyed update, 2 attempts, 1 fault | **violated**: see the findings |
| `ingest_unsettled` | 1 unrouted update, 1 fault | **violated**: see the findings |
| `ledger` | 2 sessions; two backpacks and World, money beside slots, 2 instances, 8 documents: a grant, a mint, races for an instance and for a slot, a swap, replays, an unbalanced one; 2 documents without key | serializability `ImplementsSerial`, the inductive invariant, no circular wait, chains, capacity and zero sum, and that a lost race never looks like an overdraft of `slots_used` |
| `program` | one part per behaviour (`part`), see below | the twelve invariants and two temporal properties of section 4 |
| `home_presence` | 1 chat, 2 loops, the bot is added and kicked | **violated**: see the findings |

`MCProgram` begins every behaviour in one part and leaves the variables of the
others as they start: the parts share no state, so their interleavings would
only multiply states. `Next` names every action of every part as a disjunct of
its own, so that an action that never fires shows. Its instances: 2 calls of up
to 2 attempts to one chat under three windows, one that its caller may cancel
(`Cancellable`) and one with a deadline, `retry_after` 0 or 2; the whole
assembly with signals at any moment; 2 requests and 2 callers of `Shutdown`; 2
legs and 2 ticks; 1 chat, 1 player, 2 loops, 3 updates, 1 fault; walks of span 5
over chunks of radius 1 and 2 with gate pairs on two rings; chunks of 7 cells
by every algorithm, and a gate chunk of 19 with all its islands; 2 processes of
different builds, 2 chats and 4 creations; and 2 changed keys of the
environment. Two changed keys reach every pair the code relates (base and
ceiling, long poll and attempt timeout, a section refused beside one accepted).
Deadlock is not checked there: a part ends.

Bounds. Every hazard of the scheduler needs at most one worker that is late
and one that is not, hence two; a lost acknowledgement, a breach and another
worker's settlement between claim and drain all fit one fault and two clock
ticks, since a recurrence of period 1 reaches three occurrences. Two attempts
give both a retried and a final failure. Breaches and handler failures are not
faults and are unbounded. Deadlock is checked in the scheduler runs; it is not
in `contract`, where the clock stops for good, nor for `Ingest`, whose loops may
all have been stopped. In `ledger` it is checked too, but a transaction may always
abort; `NoDeadlock` is the property about waiting. Each property of a passing run has a mutant: a
plausible defect of the code (`PROJECT.json` says which) under which the same
instance violates it, so the bounds do reach the case. The ledger's races are
between two transactions for one row, and its
circular waits need two transactions and two rows, which two sessions, two
instances and two controlled accounts of each kind of leg give; the proofs
cover more.

Fairness. Scheduler: `WF` on a worker's own steps, because `Run` starts the
next cycle whatever `RunOnce` returned, and on `Breach` together with them,
because the deadline fires; `WF` on `OrphanEnds`, because
`idle_in_transaction_session_timeout` or the watchdog ends an abandoned
session. Nothing is assumed of a handler's return. With two workers a fair
worker may be kept from one row for ever only by the other settling it, so one
worker is the instance for liveness. Ingest: `WF` on a loop's own steps, the
handler's return among them, because the loop has no deadline for a handler;
and on `getUpdates` only when there is something to return, so that `Stop`
cannot rely on a long poll ending by itself. Program: `WF` on the main
goroutine, which waits for nothing without also waiting for its budget, and on
the return of a runner whose context was cancelled; a runner that ignores
`Stop` is not assumed to return before that.

## 4. The properties of `program`

| Property | Part | In words |
|---|---|---|
| `GrantsKeepWindows` | `Caller` | over everything granted, no window holds more than its count (but for `MaxLag`) |
| `SentOnceAndTold` | `Caller` | a call acts at Telegram at most once, and its caller is told so, or told it is ambiguous; also when its context ends in a wait or an attempt |
| `ClosedAfterUsers` | `Lifecycle` | nothing is closed before every runner and every resource that works through it is gone, in a drain and in an unwind; no runner is told to stop while the process answers ready |
| `ExitTellsTheTruth` | `Lifecycle` | a process that is over closed exactly what it opened; exit code 0 means every runner drained by itself, asked to and in time |
| `StopsAndCallsEnd` | `Lifecycle`, `Caller` | a drain ends, also when a handler never returns by itself; a call is over once its last wait and attempt are |
| `ListenerIsHonest` | `HealthServer` | a clean shutdown leaves no request; ready is never said before migration or to a request that came after the drain began |
| `ProbesAreTheirOwn` | `Canary` | a probe is counted with the outcome of its own call |
| `StartedOnce` | `Home` | one `player_started` event per creation and per membership |
| `GateIsHonest` | `Home` | a call passes only to a known player or to a chat the bot was in during the call |
| `GeometryHolds` | `Walk` | conversions invert each other; placement and depth are what they are defined to be |
| `StructureSpans` | `Maze` | a spanning tree off the islands, only added to; portals never touch |
| `HandedOutIsStored` | `World` | what a caller was given is what the database keeps |
| `ImplementsAtlas` | `World` | each commit is one chunk of the atlas, agreeing with its neighbours, its gate far from the others |
| `AcceptedSettingsServe` | `Settings` | what `Load` accepts every constructor takes (but for the two cases above), every ramp waits, and a long poll is held and ends in time |

## 5. Findings

1. `scheduler_reclaim`: `drainOne` keeps an entry whose row is locked, and
   discovery looks at the locks again. If the abandoned session ends in
   between, the worker claims the occurrence again while the earlier attempt
   is uncounted, which the design says draining first prevents. The contract
   still holds: the occurrence gets one verdict, the earlier attempt is just
   never counted.
2. `scheduler_busy`: a handler that returns with its rows still open, without
   panicking, makes the settlement fail; the attempt is not deferred, and the
   row is due again with no failure counted, for ever.
3. `ingest_given_up`: the offset advance or COMMIT that reports an error after
   being applied counts as a rolled-back attempt, and may end in a give-up row
   for an update that was handled.
4. `ingest_unsettled`: `processUpdate` returns database errors of the
   attempt-less settlements, not only a cancellation.
5. `home_presence`: the presence handler reads the prior presence, then writes
   the row, and discards the report of `SetPresence` whether the row changed.
   Two loops given the same update both append its event.

Divergences noted while modelling, with no run of their own:

* `backoff`'s package comment says a base above the ceiling is unreachable
  through any adopter's constructor or configuration; `config`, `scheduler.New`
  and `ingest.New` accept it (the ramp is then flat, and still waits).
* `process.go` describes `ShutdownTimeout` as one deadline of the whole drain;
  `drain` gives the closers a fresh budget of the same length.
* `Limiter.acquire` uses an instant read before its mutex, hence `MaxLag`.
* A 2xx answer whose body cannot be read is reported with `Ambiguous` false,
  although Telegram acted on it; its status tells.
* An assembly that fails after migrations answers ready while it unwinds.

## 6. Proofs

The proofs hold for arbitrary sets of tasks, workers, updates, loops, accounts,
chats, calls and keys and for arbitrary bounds, from the assumptions on the
constants that the modules name and the runs evaluate. "Invariant" below is the
inductive one; each part of it was model-checked before it was proved.

**Scheduler.** `TaskContract_proofs`: `ContractInvariant` (`Spec => []CInv`).
`FailuresAreDistinct` is not inductive: adding an occurrence to a set of
failures raises its cardinality only if it is new, and it is new because settled
occurrences lie strictly before a pending row's `run_at` (`SettledInv`), which
rests on `Every` and the retry delays moving strictly forward (`EveryIsLater`,
`DoneRowFacts`, `FailedRowFacts`). `ContractIsSound` reads three properties off
`CInv`. `Scheduler_proofs`: `SchedulerInvariant`, and from it `ClaimsAreStable`,
`DeferredSettlementsAreSafe`, `SchedulerImplementsContract` and
`SchedulerIsSound`. `IInv` says that the row under a live transaction is still
the one claimed (its lock keeps others away), and that every claimed or deferred
occurrence is the row's current one or lies behind it for good, so that
`run_at = $2` is a sufficient guard. With it every step of a worker maps to a
`Complete`, `Fail`, `Refuse` or a stutter of the contract.

**Upkeep.** `UpkeepInv` adds to the contract's invariant that everything settled
was due (so a shift of overdue rows overtakes nothing settled), that a process
works from an instant at most `Stall` back, what it has seeded so far, and two
facts about downtime: at most one process is between `Measure` and `Absorb`
(`LockHeld`), and the stored instant, as well as what that process read, is past
the beginning of every outage absorbed (`Baselines`, `SeenOK`). A second shift
from the same instant would need a stored instant that is not past it:
`AbsorbedOnceTheorem`. For the heartbeat, the next good refresh is due within
`fails + 1` intervals (`HeartOK`), so that `failureTolerance` failures fit into
the threshold: `GivesUpHonestlyTheorem`. The assumptions that bound a
transaction and a refresh (`Stall` below every period and the threshold, `Late`
below the heartbeat) are what the design rests on; a reconciliation that takes
longer than a period, and so corrects from an instant whose next occurrence has
been settled meanwhile, is outside what is checked and proved. Also
`RecurrenceNeverLostTheorem`, and `UpkeepKeepsContract`: verdicts stay sound
under shifts and corrections.

**Ingest.** `IngestInvariant`, and from it `NoUpdateIsLost`,
`KeyedTakesEffectOnce`, `OffsetIsMonotone` and `FetchedUpdatesAreSettled`.
`NoUpdateLost` needs that what a loop has fetched is gapless (`BatchInv`):
passing the head of a batch then passes nothing that is not settled.
`GivenUpOnceTheorem` assumes one loop (`OneLoop`), as one deployment runs: then
an update in hand is at or past the offset, and the give-up row and the offset
past it are one COMMIT. With two loops the property is false.

**Ledger.** `SerialInvariant`, of the serial ledger. Movements are as many as
their instances (`AsManyItems`), so a holder's instances change in number
exactly as its capacity legs say (`HeldAfter`). That the books balance rests on
sums over finite sets being linear (`SumOfSums`), which is proved of the
recursive function behind `SumFunctionOnSet`: it exists and is unique
(`SumsExist`, `SumsAgree`), and the smallest set on which linearity fails would
be one element larger than one on which it holds (`SmallestBad`).
`LedgerInvariant`, of the concurrent one, and from it `LedgerSerializable`: what phase
b read without locks is true again when it matters, since a movement goes in
only as the successor of the head that was read (`SlotInv`), and a balance or an
operation once taken is nobody else's (`LockInv`, `OpInv`).
`ChainAlwaysUnbroken`, `CapacityAlwaysAgrees` and `BooksAlwaysBalance` come
through the refinement from `SerialInvariant`; `UsedIsNeverOverdrawn` needs both
invariants, as the movements are inserted before the balances.
`NeverDeadlocked`: who holds a row waits, if at all, for a later one, so the
largest row waited for is held by someone who does not wait.

**Geometry.** `Walk_proofs`: `GeometryHoldsTheorem`, for every radius, at every
distance from the origin and for every set of gates. Distance is the greatest of
the three axes (`DistanceIs`), hence a metric. The cell's offset from the floor
of its lattice coordinates is near one of four corners (`OneCornerIsNear`), so
`Locate` finds a centre within the radius; two centres are more than two radii
apart (`CentresApart`), so it is the only one (`LocateIs`). A border is worked out place by place (`BorderAt`), and
which steps cross it direction by direction (`CrossesAt`); consecutive faces
meet because the side turns by a third (`SideTurns`). A chunk n from the origin
is at the position `SpiralIndex` says on ring n (`RingIsWhole`, by the six
cases of the code) and positions of a ring lie between those of the rings before
and after it (`RingAtIs`). `Depth` stops at the first ring at which its test
holds; it exists because `lowerBound` grows without end, and no later ring has a
nearer centre (`RingBounds`, `LowerBoundIs`).
`NextGateIsFreeAndFar`: what the spiral yields is a chunk (`RingAtIsRing`,
`RingChunkIsChunk`); a chunk it finds free is so by the search's own test, and
the one taken beyond the scan is further out than any stored chunk and further
than the spacing from every gate, by the triangle inequality (`Triangle`).

**World.** `WorldInv` says that at
most one process is past the maze's row lock (`OneInLock`), that what it read
there is still true (`InHand`), so the row it inserts may be created as the
chunks are (`MayCreate`); the unlocked first read needs no clause, as it is only
believed where it found a chunk, and chunks never change. From it
`WorldImplementsAtlas`, `AtlasKeptTheorem` and `HandedOutTheorem`, for any
processes and builds.

**Maze.** `StructureSpansTheorem`, in `World_proofs`, for every radius, whatever
the islands, the algorithm and the draws. A set of faces spans a set of cells
when no part of the cells but the whole is closed under it (`Spans`), which is
what the code's search for connectedness decides (`ReachedSpans`,
`SpansReached`: the search closes after as many steps as there are cells, or it
would have found more than there are). `MazeInv` says that the cells off the
islands stay spanned by their faces, and of each algorithm that its open faces
span the tree so far and number one less than its cells (`Tree`); that what is
left to do is on the stack, in the frontier or among the active cells (`Stack`,
`Frontier`, `Active`); that Kruskal's labels are spanned and every open face has
cost one of them (`Merged`); and that from every cell Wilson's walk has left, the
steps last taken lead to where it is (`Walked`), so the line that joins the tree
has no loop. An algorithm with nothing left to do has therefore reached every
cell. Portals are apart because a slot moved up by its rank gains two on the
slot before it (`SpreadApart`).

**Chats and players.** `HomeInv`: two open transactions never hold an insert of
one unique key (`Apart`), a transaction has inserted only what its update names
and what was not there (`TxOK`), and every owner and membership committed is
told by one event (`EventsTell`): `StartedOnceTheorem`. `GateIsHonestTheorem`
needs that the cache holds only players that exist, which is why it may be
positive only.

**The process.** `ListenerIsHonestTheorem`: the latched result of the graceful
stop is nil only once every request is over and the listener not broken, and
what a request loaded was true when it loaded it. `ProbesAreTheirOwnTheorem`:
only probes of the present tick are in flight, one per leg, so the recorder's
last call is the probe's own. `ClosedAfterUsersTheorem` and
`ExitTellsTheTruthTheorem`: the closers are the resources opened so far in the
order of assembly (`Stack`), and every runner and resource uses only resources
below its own; `Promise` ties each phase to what the exit code will say.

**Outbound calls.** `SentOnceAndToldTheorem`: an attempt is retried only after an
answer that says Telegram did not act, or when it was never written, so a call
that still waits has not acted, and one refused or cancelled then (`CallFails`)
says so; the end of a context changes nothing else of a call
(`CallIsCancelled`). `GrantsKeepWindowsTheorem`: the evicted
grants are older than the clock less the longest window (`KeyInv`), so a call
whose instant was read less than `MaxLag` ago misses only grants that a window
shortened by `MaxLag - 1` does not reach; among those still kept, `holds` is
what the property says, and an interval that breaks it contains the newest
grant. `RampWaitsAndGrows` is package `backoff`'s contract, for every attempt,
base, ceiling and factor; powers are the recursive function's, by the least
exponent at which a claim about them would fail.

**Settings.** `AcceptedSettingsServeTheorem`: whatever keys are set to whatever
numbers, each field of an accepted configuration is what its reader lets
through, which is at least what the constructors ask; the long poll's whole
seconds are positive and shorter than an attempt, by the cross-check.

Only model-checked: liveness, which needs fairness and `ENABLED`:
`DueIsSettled`, `DeferredIsDrained`, `ArrivedIsSettled`, `StopReturns`,
`StopsAndCallsEnd`.

## 7. Not modelled, and the plan

Next: the pool of connections, of which a caller inside a transaction needs a
second one to create a chunk (`src/internal/world/chunk.go:94`), as a module of
its own over `World`'s phases.

Not modelled, and why:

* `EnsureOwner` beside `Post`, and two store calls in one transaction: no
  production code does either yet.
* `RecordDiscovery`, chunk names, `ChunkMap`: single statements or reads.
* The live-duplicate refusal of `Schedule` and `Worker.Stop` inside a cycle.
* The number of connections in the pool, so a wait for a second connection.
* The row locks `AbsorbDowntime`'s shift waits behind (`absorbShiftSQL` does not
  skip locked rows): in `Upkeep` a worker's settlement and the shift are one
  step each, in either order, so how long the start waits for workers, and which
  of them wait for it, is not seen. `AbsorbedOnce` is about the liveness row.
* The schema of the balance and world files, metric families and their labels,
  logging, request and answer bodies: data the properties do not tell apart.
* Reproducibility of generation from a seed: the draws are free choices.
* `contract` (a comparison of declarations), test and repository tooling.
