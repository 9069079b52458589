\* Durations of five bits, delays that run over and out of them within five
\* retries, contexts with and without a deadline.
CONSTANTS
  Width = 5
  BaseDelays = {1, 2, 3}
  MaxDelays = {1, 5}
  MaxAttempts = 5
  Intervals = {0, 2}
  DefaultInterval = 3
  Deadlines = {0, 4}
SPECIFICATION FairSpec
INVARIANTS
  TypeOK
  ReturnsSoonAfterDeadline
PROPERTIES
  DelaysBounded
  WaitEnds
CHECK_DEADLOCK FALSE
