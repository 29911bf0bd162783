\* One update whose last attempt commits and loses the acknowledgement.
CONSTANTS
  Update = {0}
  Unrouted = {}
  Keyed = {0}
  Loop = {l1}
  BatchLimit = 1
  RetryMaxAttempts = 2
  MaxFaults = 1
SPECIFICATION Spec
INVARIANTS GivenUpHasNoEffect
CHECK_DEADLOCK FALSE
