\* Two workers, two attempts, two faults of any kind.
SPECIFICATION FairSpec
CONSTANTS
  w1 = w1
  w2 = w2
  Workers = {w1, w2}
  MaxAttempts = 2
  FaultKinds = {"db", "settle", "drop", "lease", "crash"}
  MaxFaults = 2
  MaxWakeups = 3
INVARIANTS TypeOK AttemptsBounded ProjectionAgrees
PROPERTIES JobSpec JobEnds
\* A saved message is the end.
CHECK_DEADLOCK FALSE
