\* A logout between two service calls, with a freshness window.
CONSTANTS
  Callers = {c1}
  MaxCalls = 2
  Keepers = {}
  Leavers = {l1}
  Freshness = TRUE
  Expirable = {}
  Blockable = FALSE
  MaxFaults = 0
  NoOne = NoOne
SPECIFICATION FairSpec
PROPERTY LogoutForcesReauth
