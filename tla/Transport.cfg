CONSTANTS
  Requests = {r1, r2}
  Mutating = {r1}
  Denied = {r2}
  Cancellable = {r1}
  Expirable = {1, 2}
  MaxAttempts = 1
  NoOne = NoOne
SPECIFICATION FairSpec
INVARIANTS
  TypeOK
  SendsBounded
  RefreshesCurrentEpoch
  InFlightShareRefresh
  ForbiddenOnlyAfterRetry
PROPERTIES
  EveryCallReturns
  GateSpec
