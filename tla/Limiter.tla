------------------------------- MODULE Limiter -------------------------------
(***************************************************************************)
(* The window schedules of package tg (limit.go) as operators: a schedule  *)
(* is a record of its kind, its windows and its grants.  Instants are      *)
(* natural numbers.  The code keeps a sorted slice of the instants         *)
(* granted; here a grant is a record of its instant and of what it was     *)
(* made for, so that a set of them tells two of one instant apart.         *)
(***************************************************************************)
EXTENDS Integers, FiniteSets

CONSTANT
  Limits             \* class -> [global, chatRate, chatCap], each a Rate

\* config.Rate; a count of zero is unbounded.
Rate == [count : Nat, per : Nat]
ClassLimits == [global : Rate, chatRate : Rate, chatCap : Rate]

ASSUME LimiterAssumption ==
  /\ \A c \in DOMAIN Limits : Limits[c] \in ClassLimits
  /\ \A c \in DOMAIN Limits : \A k \in DOMAIN Limits[c] :
       Limits[c][k].count > 0 => Limits[c][k].per > 0

Class == DOMAIN Limits

ceilDiv(w, n) == (w + n - 1) \div n

\* A pacing key: one per ceil(W/N), and N per W.
paceWindows(r) ==
  IF r.count = 0 THEN {} ELSE {[count |-> 1, per |-> ceilDiv(r.per, r.count)], r}

quotaWindows(r) == IF r.count = 0 THEN {} ELSE {r}

----------------------------------------------------------------------------
(* One schedule *)

schedule(kind, windows) == [kind |-> kind, windows |-> windows, grants |-> {}]

globalSchedule(class) == schedule("unordered", paceWindows(Limits[class].global))

chatWindows(class) ==
  paceWindows(Limits[class].chatRate) \cup quotaWindows(Limits[class].chatCap)

Latest(instants) == CHOOSE t \in instants : \A u \in instants : u <= t

Earliest(instants) == CHOOSE t \in instants : \A u \in instants : t <= u

maxPer(s) == IF s.windows = {} THEN 0 ELSE Latest({w.per : w \in s.windows})

Instants(grants) == {g.at : g \in grants}

\* The grants in the half-open interval of length per that begins at u.
Within(grants, u, per) == {g \in grants : g.at \in u .. u + per - 1}

\* No half-open interval of length w.per holds more than w.count of grants: it
\* is enough to look at those that begin at a grant.
Respects(grants, w) ==
  \A u \in Instants(grants) : Cardinality(Within(grants, u, w.per)) <= w.count

\* One more grant at t keeps every window of s, those of later grants included:
\* each interval with t in it that begins at t or at a grant has room.
holds(s, t) ==
  \A w \in s.windows : \A u \in {t} \cup Instants(s.grants) :
    t \in u .. u + w.per - 1 => Cardinality(Within(s.grants, u, w.per)) < w.count

\* Every instant after a grant at which a window closes; the grants themselves,
\* which an ordered schedule does not go behind.
Proposals(s) == {t + d : t \in Instants(s.grants), d \in {0} \cup {w.per : w \in s.windows}}

\* The earliest admissible instant from candidate on; an ordered schedule first
\* raises the candidate to its newest grant.
earliest(s, candidate) ==
  LET from == IF s.kind = "ordered" THEN Latest({candidate} \cup Instants(s.grants)) ELSE candidate
  IN  Earliest({t \in {from} \cup Proposals(s) : t >= from /\ holds(s, t)})

\* A schedule without windows constrains nothing and remembers nothing.
commit(s, g) == IF s.windows = {} THEN s ELSE [s EXCEPT !.grants = @ \cup {g}]

\* Mutant of evict: grants of half the longest window are already forgotten.
evictEarly(s, now) == [s EXCEPT !.grants = {g \in @ : 2 * (now - g.at) <= maxPer(s)}]

\* Retention is by real time alone: a grant leaves once the longest window after
\* it has passed.
evict(s, now) == [s EXCEPT !.grants = {g \in @ : g.at >= now - maxPer(s)}]
----------------------------------------------------------------------------
(* The fixed point over the schedules a call is charged to *)

\* The first instant from start on that every schedule would grant as it is.  The
\* code climbs to it, each pass to the latest of the earliest answers; its bound
\* of 4096 passes is far above the instants that can be proposed.
acquireFixedPoint(ss, start) ==
  LET proposed == {start} \cup UNION {Proposals(s) : s \in ss}
  IN  Earliest({t \in proposed : t >= start /\ \A s \in ss : earliest(s, t) = t})
=============================================================================
