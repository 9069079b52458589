\* One writing request, a session that expired, a server that accepts every
\* request made with a live session.
CONSTANTS
  Requests = {r1, r2}
  Mutating = {r1}
  Denied = {}
  Cancellable = {}
  Expirable = {1}
  MaxAttempts = 0
  NoOne = NoOne
SPECIFICATION Spec
INVARIANT RetryUsesRefreshedSession
