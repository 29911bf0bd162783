SPECIFICATION Spec
CONSTANTS
  w = w  b1 = b1  b2 = b2
  p1 = p1  p2 = p2
  grant = grant  fetch = fetch  trade = trade  none = none  nowhere = nowhere
  MaxId = 8
  Account <- MCAccount
  Controlled <- MCControlled
  Kind = {"money", "slots"}
  KindOf <- MCKindOf
  Holder = {w, b1, b2}
  World = w
  Nowhere = nowhere
  Free <- MCFree
  Used <- MCUsed
  Item = {1, 2}
  Op = {grant, fetch, trade}
  NoOp = none
  Request <- MCRequest
  Tx = {p1, p2}
  MaxUnkeyed = 2
SYMMETRY Sessions
INVARIANTS LedgerInv ChainUnbroken NoDeadlock ZeroSum CapacityAgrees
PROPERTIES UsedNeverOverdrawn ImplementsSerial
