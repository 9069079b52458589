\* Two callers whose requests are refused at the same time.
CONSTANTS
  Callers = {c1, c2}
  MaxCalls = 1
  Keepers = {}
  Leavers = {}
  Freshness = FALSE
  Expirable = {1, 2}
  Blockable = TRUE
  MaxFaults = 1
  NoOne = NoOne
SPECIFICATION Spec
INVARIANT MutexHeldByRefresher
