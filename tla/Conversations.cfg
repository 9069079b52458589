\* Two clients, three calls, one retry each, two faults.
CONSTANTS
  Clients = {c1, c2}
  MaxOps = 3
  MaxFaults = 2
  MaxAttempts = 1
SPECIFICATION Spec
SYMMETRY Symmetry
INVARIANTS
  TypeOK
  LateMessagesAreRepeats
  EffectsInOrder
  NothingMissed
  NotFoundWasAbsent
CHECK_DEADLOCK FALSE
