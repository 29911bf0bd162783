------------------------------ MODULE Settings -------------------------------
(***************************************************************************)
(* The process environment as config.Load reads it (package config), and   *)
(* the constructors that take what it accepted.  An environment starts     *)
(* with the required keys present and well formed and everything else      *)
(* absent, and is changed key by key.                                      *)
(*                                                                         *)
(* A value is what its reader's parser makes of it; "junk" is a value the  *)
(* parser refuses.  Durations are in quarters of a second, factors in      *)
(* tenths.  The balance file is read or refused as a whole.                *)
(***************************************************************************)
EXTENDS Backoff, Sequences, FiniteSets

CONSTANT MaxSet    \* bound of the model: how many keys are changed

VARIABLE environ   \* the changed keys: what Lookup answers for each

second == 4

Field(kind, default) == [kind |-> kind, default |-> default]

Off == <<0, 0>>    \* the Rate of "off", and of an absent key without a default

defaultTransport ==
  [RetryMaxAttempts |-> Field("count", 3),
   RetryBaseDelay |-> Field("duration", 2), RetryMaxDelay |-> Field("duration", 30 * second),
   RetryFactor |-> Field("factor", DefaultFactor), AttemptTimeout |-> Field("duration", 30 * second),
   MessageGlobal |-> Field("rate", <<30, second>>), MessageChatRate |-> Field("rate", <<1, second>>),
   MessageChatCap |-> Field("rate", <<20, 60 * second>>),
   EditGlobal |-> Field("rate", Off), EditChatRate |-> Field("rate", Off), EditChatCap |-> Field("rate", Off),
   OtherGlobal |-> Field("rate", Off), OtherChatRate |-> Field("rate", Off), OtherChatCap |-> Field("rate", Off)]

defaultScheduler ==
  [PollInterval |-> Field("duration", second), ClaimLimit |-> Field("count", 32),
   RetryMaxAttempts |-> Field("count", 5),
   RetryBaseDelay |-> Field("duration", second), RetryMaxDelay |-> Field("duration", 300 * second),
   RetryFactor |-> Field("factor", DefaultFactor), TaskTimeout |-> Field("duration", 30 * second)]

defaultIngest ==
  [PollInterval |-> Field("duration", second), LongPollTimeout |-> Field("duration", 25 * second),
   BatchLimit |-> Field("batch", 100), RetryMaxAttempts |-> Field("count", 5),
   RetryBaseDelay |-> Field("duration", second), RetryMaxDelay |-> Field("duration", 8 * second),
   RetryFactor |-> Field("factor", DefaultFactor)]

\* A text value is 1, or 0 where it is a token no Bot API client accepts.
NoToken == 2       \* no cloud leg

defaultHealth ==
  [MetricsAddr |-> Field("address", 1), CanaryInterval |-> Field("duration", 60 * second),
   CanaryCloudToken |-> Field("optional", NoToken), CanaryCloudBaseURL |-> Field("address", 1)]

defaultProcess ==
  [MigrateOnStart |-> Field("bool", TRUE), ShutdownTimeout |-> Field("duration", 30 * second),
   LivenessInterval |-> Field("duration", 30 * second), DowntimeThreshold |-> Field("duration", 300 * second)]

\* No defaults: what the environment starts with.  A world set is the sequence
\* of its files' world ids, zero for a file that does not decode.
required ==
  [BotToken |-> Field("text", 1), DSN |-> Field("text", 1), BotAPIBaseURL |-> Field("parsed", 1),
   AllowedChatIDs |-> Field("parsed", 1), BalancePath |-> Field("parsed", 1), WorldPath |-> Field("worlds", <<1>>)]

EnvKeys ==
  [env |-> required, tg |-> defaultTransport, scheduler |-> defaultScheduler, ingest |-> defaultIngest,
   health |-> defaultHealth, process |-> defaultProcess]

Keys == UNION {{<<section, name>> : name \in DOMAIN EnvKeys[section]} : section \in DOMAIN EnvKeys}

Of(k) == EnvKeys[k[1]][k[2]]

Absent   == <<"absent">>
Empty    == <<"empty">>
Junk     == <<"junk">>
Value(v) == <<"value", v>>

\* What an operator may set a key to, besides what it starts with.
Samples(kind) ==
  CASE kind = "count"    -> {Junk, Value(0), Value(1)}
    [] kind = "batch"    -> {Junk, Value(0), Value(1), Value(101)}
    [] kind = "duration" -> {Junk, Value(0), Value(3), Value(second), Value(30 * second)}
    [] kind = "factor"   -> {Junk, Value(10), Value(15), Value(40)}
    [] kind = "bool"     -> {Junk, Value(FALSE)}
    [] kind = "rate"     -> {Junk, Value(Off), Value(<<0, second>>), Value(<<1, 0>>), Value(<<2, second>>)}
    [] kind = "address"  -> {Empty, Junk}
    [] kind = "optional" -> {Empty, Value(0), Value(1)}
    [] kind = "text"     -> {Absent, Empty, Value(0)}
    [] kind = "parsed"   -> {Absent, Empty, Junk}
    [] kind = "worlds"   -> {Absent, Empty, Junk, Value(<<>>), Value(<<1, 0>>), Value(<<1, 1>>), Value(<<1, 2>>)}

SettingsInit == environ = <<>>

Set(k) ==
  /\ k \notin DOMAIN environ /\ Cardinality(DOMAIN environ) < MaxSet
  /\ \E v \in Samples(Of(k).kind) : environ' = [x \in DOMAIN environ \cup {k} |-> IF x = k THEN v ELSE environ[x]]

SettingsNext == \E k \in Keys : Set(k)

SettingsSpec == SettingsInit /\ [][SettingsNext]_environ
----------------------------------------------------------------------------
\* Mutant of lookupPositive: zero is let through.
lookupPositiveOrZero(v) == v >= 0

lookupPositive(v) == v > 0

lookupRate(v) == v = Off \/ (lookupPositive(v[1]) /\ lookupPositive(v[2]))

loadWorldSet(files) ==
  /\ files # <<>>
  /\ \A i \in DOMAIN files : files[i] # 0 /\ \A j \in DOMAIN files : files[i] = files[j] => i = j

\* A reader lets a value through that its parser read and its predicate holds of.
Legal(kind, v) ==
  CASE kind \in {"count", "duration"} -> lookupPositive(v)
    [] kind = "batch"  -> lookupPositive(v) /\ v <= 100
    [] kind = "factor" -> ValidFactor(v)
    [] kind = "rate"   -> lookupRate(v)
    [] kind = "worlds" -> loadWorldSet(v)
    [] OTHER           -> TRUE

\* The keys refused when the environment is read, each by its own reader.
Refused ==
  {k \in DOMAIN environ :
     \/ environ[k] \in {Absent, Junk}
     \/ environ[k] = Empty /\ Of(k).kind # "optional"
     \/ environ[k][1] = "value" /\ ~Legal(Of(k).kind, environ[k][2])}

\* A setting of a section that loaded: the value read, or the default.
Setting(section, name) ==
  LET k == <<section, name>>
  IN  IF k \in DOMAIN environ /\ environ[k][1] = "value" THEN environ[k][2] ELSE Of(k).default

Loaded(section) == \A k \in Refused : k[1] # section

\* Mutant of checkIngestLongPollTimeout: fractions of a second are let through.
checkIngestLongPollTimeoutAny ==
  Setting("ingest", "LongPollTimeout") < Setting("tg", "AttemptTimeout")

checkIngestLongPollTimeout ==
  /\ Setting("ingest", "LongPollTimeout") % second = 0
  /\ Setting("ingest", "LongPollTimeout") < Setting("tg", "AttemptTimeout")

\* Load: every section is read, whatever the others come to; the cross-check
\* only when both of its sections loaded.
Load == Refused = {} /\ (Loaded("ingest") /\ Loaded("tg") => checkIngestLongPollTimeout)
----------------------------------------------------------------------------
\* The constructors assemble calls with the settings, each with its own checks.
Positive(section, names) == \A name \in names : Setting(section, name) > 0

NewLiveness == Positive("process", {"LivenessInterval", "DowntimeThreshold"})

NewWorker ==
  /\ Positive("scheduler", {"PollInterval", "ClaimLimit", "RetryMaxAttempts", "RetryBaseDelay", "RetryMaxDelay",
                            "TaskTimeout"})
  /\ ValidFactor(Setting("scheduler", "RetryFactor"))

NewLoop ==
  /\ Positive("ingest", {"PollInterval", "LongPollTimeout", "RetryBaseDelay", "RetryMaxDelay", "BatchLimit",
                         "RetryMaxAttempts"})
  /\ ValidFactor(Setting("ingest", "RetryFactor"))

RampOrdered == Setting("tg", "RetryMaxDelay") >= Setting("tg", "RetryBaseDelay")

\* tg.New, for the bot's own client and for each leg of the canary.
NewClient(token) ==
  /\ Positive("tg", {"RetryMaxAttempts", "RetryBaseDelay", "RetryMaxDelay", "AttemptTimeout"})
  /\ RampOrdered
  /\ ValidFactor(Setting("tg", "RetryFactor"))
  /\ token = 1

NewLegs ==
  /\ NewClient(Setting("env", "BotToken"))
  /\ Setting("health", "CanaryCloudToken") # NoToken => NewClient(Setting("health", "CanaryCloudToken"))

NewCanary == Positive("health", {"CanaryInterval"})

\* The long-poll timeout sent to Telegram, in seconds.
PollSeconds == Setting("ingest", "LongPollTimeout") \div second
----------------------------------------------------------------------------
(* Properties *)

\* A retry ramp of accepted settings waits: never a delay that is zero or above
\* the ceiling, never a shorter one than before, whatever the order of base and
\* ceiling (backoff package comment).
RampWaits(section) ==
  LET base    == Setting(section, "RetryBaseDelay")
      ceiling == Setting(section, "RetryMaxDelay")
      factor  == Setting(section, "RetryFactor")
      delay   == [n \in 0..3 |-> Exponential(n, base, ceiling, factor)]
  IN  \A n \in 0..3 :
        /\ delay[n] > 0 /\ delay[n] <= ceiling
        /\ n > 0 => delay[n] >= delay[n - 1]

\* What Load accepts, whichever keys an operator sets, serves: every constructor
\* takes it (tg.New, which also refuses a malformed token and a ceiling below
\* the base, once these are right), every retry ramp waits, and a long poll asks
\* Telegram to hold it and ends before the attempt's own timeout cuts it off.
AcceptedSettingsServe ==
  Load =>
    /\ NewLiveness /\ NewWorker /\ NewLoop /\ NewCanary
    /\ RampOrdered /\ Setting("env", "BotToken") = 1 => NewClient(1)
    /\ RampOrdered /\ Setting("env", "BotToken") = 1 /\ Setting("health", "CanaryCloudToken") \in {NoToken, 1} => NewLegs
    /\ \A section \in {"scheduler", "ingest", "tg"} : RampWaits(section)
    /\ PollSeconds >= 1 /\ PollSeconds * second < Setting("tg", "AttemptTimeout")
=============================================================================
