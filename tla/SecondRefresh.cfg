\* Two requests that read run into the same expired session; no session
\* expires after it, and the server accepts every live one.
CONSTANTS
  Requests = {r1, r2}
  Mutating = {}
  Denied = {}
  Cancellable = {}
  Expirable = {1}
  MaxAttempts = 0
  NoOne = NoOne
SPECIFICATION Spec
INVARIANT ExpiredSessionRefreshedOnce
