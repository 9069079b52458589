\* Two service calls, no expiry during the run and no logout.
CONSTANTS
  Callers = {c1, c2}
  MaxCalls = 1
  Keepers = {}
  Leavers = {}
  Freshness = FALSE
  Expirable = {}
  Blockable = FALSE
  MaxFaults = 0
  NoOne = NoOne
SPECIFICATION Spec
INVARIANT EnsuredSessionHolds
