\* Two workers, no faults, no requests: is the next task always woken?
SPECIFICATION Spec
CONSTANTS
  w1 = w1
  w2 = w2
  w3 = w3
  p1 = p1
  p2 = p2
  Workers = {w1, w2}
  Procs = {p1, p2}
  ProcOf <- OneEach
  MaxTasks = 4
  MaxClaims = 3
  MaxRetries <- Budgets
  MaxClock = 2
  MaxRestarts = 1
  Scenarios <- Undisturbed
  MaxFaults = 2
  MaxRequests = 2
  MaxWakeups = 1
INVARIANTS NextIsWoken
\* Claims are bounded: a run may come to rest.
CHECK_DEADLOCK FALSE
