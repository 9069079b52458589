\* A service call and a keepalive at the same time.
CONSTANTS
  Callers = {c1}
  MaxCalls = 1
  Keepers = {k1}
  Leavers = {}
  Freshness = FALSE
  Expirable = {1}
  Blockable = FALSE
  MaxFaults = 1
  NoOne = NoOne
SPECIFICATION FairSpec
INVARIANT TypeOK
PROPERTIES
  EveryOperationEnds
  KeepAliveKeepsWarm
