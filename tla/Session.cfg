\* Two service calls, one after the other, and a logout beside them.
CONSTANTS
  Callers = {c1}
  MaxCalls = 2
  Keepers = {}
  Leavers = {l1}
  Freshness = TRUE
  Expirable = {1, 2}
  Blockable = TRUE
  MaxFaults = 1
  NoOne = NoOne
SPECIFICATION FairSpec
INVARIANTS
  WindowNeedsConfirmation
  EnsuredSessionHolds
PROPERTIES
  TokenStaysStored
  EveryOperationEnds
