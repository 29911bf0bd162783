\* One unrouted update and one failure of the database.
CONSTANTS
  Update = {0}
  Unrouted = {0}
  Keyed = {}
  Loop = {l1}
  BatchLimit = 1
  RetryMaxAttempts = 2
  MaxFaults = 1
SPECIFICATION Spec
PROPERTIES OnlyCancellationUnsettles
CHECK_DEADLOCK FALSE
