CONSTANTS
  c1 = c1  c2 = c2  A = A  P = P  l1 = l1  l2 = l2
  p1 = p1  p2 = p2  old = old  new = new  X = X  Y = Y
  q1 = q1  q2 = q2  s1 = s1  s2 = s2
  Request = {q1, q2}
  Stopper = {s1, s2}
  Leg = {"own", "cloud"}
  MaxTicks = 2
  Call = {c1, c2}
  Limits <- MCLimits
  ClassOf <- MCClassOf
  ChatOf <- MCChatOf
  ChatNone = ChatNone
  ChatUnknown = ChatUnknown
  Multipart = {}
  DeadlineOf <- MCDeadline
  NoDeadline = NoDeadline
  Cancellable = {c1}
  MaxAttempts = 2
  RetryBaseDelay = 2
  RetryMaxDelay = 4
  RetryFactor = 20
  RetryAfter = {0, 2}
  MaxClock = 16
  MaxStart = 2
  MaxLag = 2
  SigCap = 2
  Chat = {A}
  Player = {P}
  allowed = {A}
  Log <- MCLog
  Loop = {l1, l2}
  MaxFaults = 1
  MaxCalls = 2
  Radii = {1, 2}
  Span = 5
  GateSets <- MCGateSets
  Parameters <- MCParameters
  Starts <- MCStarts
  MinRadius = 1
  Proc = {p1, p2}
  BuildOf <- MCBuild
  SeedOf <- MCSeed
  ChatOwner = {X, Y}
  NoOwner = NoOwner
  OwnerKind <- MCKind
  Spacing = 1
  Wanted <- MCWanted
  MaxCreations = 4
  MaxSet = 2
SPECIFICATION Spec
INVARIANTS
  GrantsKeepWindows
  SentOnceAndTold
  ClosedAfterUsers
  ExitTellsTheTruth
  ListenerIsHonest
  ProbesAreTheirOwn
  StartedOnce
  GateIsHonest
  GeometryHolds
  StructureSpans
  HandedOutIsStored
  AcceptedSettingsServe
PROPERTIES
  StopsAndCallsEnd
  ImplementsAtlas
CHECK_DEADLOCK FALSE
