------------------------------- MODULE Caller --------------------------------
(***************************************************************************)
(* Outbound Bot API calls (package tg): concurrent calls pass the outbound *)
(* gate, reserve an instant in the limiter's schedules under its mutex,    *)
(* wait for it, send one attempt, and retry what may be retried.           *)
(*                                                                         *)
(* A call reads its instant before it takes the mutex, so another call may *)
(* evict and reserve in between.                                           *)
(***************************************************************************)
EXTENDS Limiter, Backoff

CONSTANTS
  Call,              \* the calls of a run
  ClassOf,           \* classifyMethod of each call's method
  ChatOf,            \* chatRefFromData: a chat, ChatNone or ChatUnknown
  ChatNone, ChatUnknown,
  Multipart,         \* calls whose body is a stream
  DeadlineOf,        \* the context's deadline; NoDeadline
  NoDeadline,
  Cancellable,       \* calls whose caller may cancel the context
  MaxAttempts,       \* config.Transport.RetryMaxAttempts
  RetryBaseDelay, RetryMaxDelay, RetryFactor,  \* config.Transport's
  RetryAfter,        \* the retry_after a 429 may carry; zero is none
  MaxClock,          \* bound of the model: the clock stops here
  MaxStart,          \* bound of the model: every call has started by then
  MaxLag             \* bound of the model: longest time from reading the instant to
                     \* holding the mutex, and from an instant to waking at it

ASSUME CallerAssumption ==
  /\ ClassOf \in [Call -> Class]
  /\ Multipart \subseteq Call /\ Cancellable \subseteq Call
  /\ MaxAttempts \in Nat \ {0}
  /\ {RetryBaseDelay, RetryMaxDelay} \subseteq Nat \ {0} /\ RetryBaseDelay <= RetryMaxDelay
  /\ RetryFactor \in Nat /\ ValidFactor(RetryFactor)
  /\ RetryAfter \subseteq Nat
  /\ {MaxClock, MaxStart, MaxLag} \subseteq Nat

VARIABLES
  clock,      \* the process clock
  sched,      \* Limiter.global and Limiter.chats
  granted,    \* history: every instant granted, per schedule, nothing evicted
  call        \* per call: its goroutine

callerVars == <<clock, sched, granted, call>>

(***************************************************************************)
(* at: the instant read, the instant granted, or the end of the back-off,  *)
(* as pc says.  sent: history, how many attempts took effect at Telegram.  *)
(* status and ambiguous describe the last attempt, for the error returned. *)
(* done: the call's context has ended.  timed: waitUntil found the instant *)
(* ahead, and waits for its timer and for the context; it looks at neither *)
(* when the instant has come.                                              *)
(***************************************************************************)
Goroutine ==
  [pc : {"idle", "acquire", "wait", "backoff", "ok", "error"}, at : Nat, attempts : 0..MaxAttempts,
   status : {"none", "ok", "tooMany", "server", "other"}, ambiguous : BOOLEAN, sent : Nat,
   done : BOOLEAN, timed : BOOLEAN]

Grant == [at : Nat, by : Call, attempt : 0 .. MaxAttempts - 1]

Idle == [pc |-> "idle", at |-> 0, attempts |-> 0, status |-> "none", ambiguous |-> FALSE, sent |-> 0,
         done |-> FALSE, timed |-> FALSE]

\* One schedule per class, and one per chat (or the reserved unknown chat) of a
\* bounded class.  Building the latter lazily changes nothing: an empty schedule
\* constrains nothing.
GlobalKey(c) == <<"global", ClassOf[c]>>
ChatKey(c)   == <<"chat", ClassOf[c], ChatOf[c]>>

chatScheduled(c) == ChatOf[c] # ChatNone /\ chatWindows(ClassOf[c]) # {}

Charged(c) == {GlobalKey(c)} \cup (IF chatScheduled(c) THEN {ChatKey(c)} ELSE {})

Key == UNION {Charged(c) : c \in Call}

newLimiter ==
  [k \in Key |-> IF k[1] = "global" THEN globalSchedule(k[2])
                 ELSE schedule("ordered", chatWindows(k[2]))]

CallerInit ==
  /\ clock = 0
  /\ sched = newLimiter
  /\ granted = [k \in Key |-> {}]
  /\ call = [c \in Call |-> Idle]
----------------------------------------------------------------------------
Unfinished(c) == call[c].pc \notin {"ok", "error"}

Expired(c) == DeadlineOf[c] # NoDeadline /\ clock >= DeadlineOf[c]

\* The context ends, once and for good: its caller cancels it, at any time, or
\* its deadline has passed.
ContextEnds(c) ==
  /\ Unfinished(c) /\ ~call[c].done
  /\ c \in Cancellable \/ Expired(c)
  /\ call' = [call EXCEPT ![c].done = TRUE]
  /\ UNCHANGED <<clock, sched, granted>>

\* What the last attempt came to stays, for the error.
Fails(c) == call' = [call EXCEPT ![c].pc = "error", ![c].at = 0]

\* The gate refuses, before any attempt and any reservation; or lets pass.  A
\* destination that cannot be read is always refused.
PassGate(c) ==
  /\ call[c].pc = "idle"
  /\ \/ Fails(c)
     \/ /\ ChatOf[c] # ChatUnknown
        /\ call' = [call EXCEPT ![c].pc = "acquire", ![c].at = clock]
  /\ UNCHANGED <<clock, sched, granted>>

\* One reservation per attempt: an instant, for the call's next attempt.
GrantOf(c, t) == [at |-> t, by |-> c, attempt |-> call[c].attempts]

\* Limiter.acquire, under the mutex: evict, decide against every schedule, then
\* commit to every schedule, or refuse and commit to none.  It knows the deadline
\* and not the context: a call already cancelled reserves as well.
Acquire(c) ==
  LET now  == call[c].at
      keys == Charged(c)
  IN  /\ call[c].pc = "acquire"
      /\ \E evicted \in {[k \in Key |-> IF k \in keys THEN evict(sched[k], now) ELSE sched[k]]} :
         \E t \in {acquireFixedPoint({evicted[k] : k \in keys}, now)} :
           IF DeadlineOf[c] # NoDeadline /\ t > DeadlineOf[c]
           THEN /\ sched' = evicted
                /\ Fails(c)
                /\ UNCHANGED granted
           ELSE /\ sched' = [k \in Key |-> IF k \in keys THEN commit(evicted[k], GrantOf(c, t)) ELSE sched[k]]
                /\ granted' = [k \in Key |-> IF k \in keys THEN granted[k] \cup {GrantOf(c, t)} ELSE granted[k]]
                /\ call' = [call EXCEPT ![c].pc = "wait", ![c].at = t, ![c].timed = t > clock]
      /\ UNCHANGED clock

\* waitUntil returns the context's error, before the timer or beside it: select
\* takes either when both are ready.
Cancelled(c) ==
  /\ call[c].pc \in {"wait", "backoff"} /\ call[c].timed
  /\ call[c].done
  /\ Fails(c)
  /\ UNCHANGED <<clock, sched, granted>>

(***************************************************************************)
(* What one attempt may come to: the HTTP status, whether the request was  *)
(* seen fully written, the wait asked for, and whether Telegram acted on   *)
(* it.  Telegram is taken to act on a request only when it answers with    *)
(* success, or when the answer does not arrive.  A context that ends while *)
(* the request is under way leaves it unwritten, unanswered or its answer  *)
(* unread; one that has ended before lets nothing be written.              *)
(***************************************************************************)
Unwritten == [status |-> "none", good |-> FALSE, wrote |-> FALSE, after |-> 0, acted |-> FALSE]

Outcome ==
  {[status |-> "ok",     good |-> TRUE,  wrote |-> TRUE,  after |-> 0, acted |-> TRUE],
   [status |-> "ok",     good |-> FALSE, wrote |-> TRUE,  after |-> 0, acted |-> TRUE],
   [status |-> "server", good |-> FALSE, wrote |-> TRUE,  after |-> 0, acted |-> FALSE],
   [status |-> "other",  good |-> FALSE, wrote |-> TRUE,  after |-> 0, acted |-> FALSE],
   [status |-> "none",   good |-> FALSE, wrote |-> TRUE,  after |-> 0, acted |-> TRUE],
   [status |-> "none",   good |-> FALSE, wrote |-> TRUE,  after |-> 0, acted |-> FALSE],
   Unwritten}
  \cup {[status |-> "tooMany", good |-> FALSE, wrote |-> TRUE, after |-> a, acted |-> FALSE] : a \in RetryAfter}

\* Mutant of Retryable: no answer is taken for no request.
RetryableUnanswered(o) == o.status \in {"tooMany", "server", "none"}

\* classifyAttempt: a refusal or a server error, or a request never written.
Retryable(o) == o.status \in {"tooMany", "server"} \/ (o.status = "none" /\ ~o.wrote)

Ambiguous(o) == o.status = "none" /\ o.wrote

\* Mutant of AttemptNo: the counter starts again with every attempt.
AttemptNoReset(c) == 1

AttemptNo(c) == call[c].attempts + 1

\* What Telegram asked for, or else equal jitter.
Waits(c, o) ==
  IF o.after > 0 THEN {o.after}
  ELSE EqualJitter(AttemptNo(c) - 1, RetryBaseDelay, RetryMaxDelay, RetryFactor)

\* The wait is over: one attempt, and what the loop makes of its outcome.
Attempt(c) ==
  /\ call[c].pc = "wait" /\ clock >= call[c].at
  /\ \E o \in IF call[c].done THEN {Unwritten} ELSE Outcome :
     \E wait \in Waits(c, o) :
       LET n    == AttemptNo(c)
           late == DeadlineOf[c] # NoDeadline /\ clock + wait > DeadlineOf[c]
           ends == ~Retryable(o) \/ c \in Multipart \/ n >= MaxAttempts \/ late
       IN  call' = [call EXCEPT ![c] =
             [pc |-> IF o.good THEN "ok" ELSE IF ends THEN "error" ELSE "backoff",
              at |-> IF o.good \/ ends THEN 0 ELSE clock + wait,
              attempts |-> n, status |-> o.status, ambiguous |-> Ambiguous(o),
              sent |-> @.sent + IF o.acted THEN 1 ELSE 0,
              done |-> @.done, timed |-> wait > 0]]
  /\ UNCHANGED <<clock, sched, granted>>

\* The back-off is over: the next attempt reserves again.
Retry(c) ==
  /\ call[c].pc = "backoff" /\ clock >= call[c].at
  /\ call' = [call EXCEPT ![c].pc = "acquire", ![c].at = clock]
  /\ UNCHANGED <<clock, sched, granted>>

CallStep(c) == PassGate(c) \/ Acquire(c) \/ Cancelled(c) \/ Attempt(c) \/ Retry(c)

\* Time passes, while a call is open and no goroutine, nor the timer of a
\* context's deadline, is late by more than MaxLag.
CallerTick ==
  /\ clock < MaxClock
  /\ \E c \in Call : Unfinished(c)
  /\ \A c \in Call : call[c].pc = "idle" => clock < MaxStart
  /\ \A c \in Call : call[c].pc \in {"acquire", "wait", "backoff"} => clock - call[c].at < MaxLag
  /\ \A c \in Call : Unfinished(c) /\ Expired(c) => call[c].done \/ clock - DeadlineOf[c] < MaxLag
  /\ clock' = clock + 1
  /\ UNCHANGED <<sched, granted, call>>

CallerNext == CallerTick \/ \E c \in Call : CallStep(c) \/ ContextEnds(c)

CallerSpec == CallerInit /\ [][CallerNext]_callerVars
----------------------------------------------------------------------------
(* Properties *)

CallerTypeOK ==
  /\ clock \in 0..MaxClock
  /\ \A k \in Key : sched[k].grants \subseteq granted[k] /\ granted[k] \subseteq Grant
  /\ call \in [Call -> Goroutine]

\* A call is over in bounded time: its attempts, its waits and what others
\* reserved before it are bounded.  MaxClock is above the sum of them for the
\* calls of a run.
CallsEnd == clock = MaxClock => \A c \in Call : call[c].pc \in {"ok", "error"}

\* Over everything ever granted, evicted or not, no half-open interval of a
\* window's length holds more than its count, in whatever order concurrent calls
\* read their instant and take the mutex, but for the lag between the two
\* (Limiter.acquire: what a later instant evicted, an earlier one cannot see).
GrantsKeepWindows ==
  /\ CallerTypeOK
  /\ \A k \in Key : \A w \in sched[k].windows :
       Respects(granted[k], [w EXCEPT !.per = IF MaxLag > 0 THEN @ - MaxLag + 1 ELSE @])

\* Whatever is lost, refused or retried, and whenever its context ends, a call
\* acts at Telegram at most once, and one that did is over and reported as a
\* success, as ambiguous, or with the success status of an answer that could not
\* be read (Error.Ambiguous: do not re-send).  An error that tells none of these,
\* a refused or cancelled call's among them, means that nothing took effect.
SentOnceAndTold ==
  \A c \in Call :
    /\ call[c].sent <= 1
    /\ call[c].sent = 1 => \/ call[c].pc = "ok"
                           \/ call[c].pc = "error" /\ (call[c].ambiguous \/ call[c].status = "ok")
=============================================================================
