\* Two clients, three operations, one retry, equal files.
CONSTANTS
  Clients = {c1, c2}
  Files = {f1}
  MaxOps = 3
  MaxAttempts = 1
SPECIFICATION Spec
SYMMETRY Symmetry
INVARIANTS
  TypeOK
  NoLostUpdate
  AcknowledgedIsApplied
  DuplicateIsForeign
PROPERTY AtomicSpec
CHECK_DEADLOCK FALSE
