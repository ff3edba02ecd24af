\* Two workers in one process and one in another: does the connector lock hold?
SPECIFICATION Spec
CONSTANTS
  w1 = w1
  w2 = w2
  w3 = w3
  p1 = p1
  p2 = p2
  Workers = {w1, w2, w3}
  Procs = {p1, p2}
  ProcOf <- TwoAndOne
  MaxTasks = 4
  MaxClaims = 3
  MaxRetries <- Budgets
  MaxClock = 2
  MaxRestarts = 1
  Scenarios <- Contended
  MaxFaults = 2
  MaxRequests = 2
  MaxWakeups = 1
INVARIANTS OneExecutor
\* Claims are bounded: a run may come to rest.
CHECK_DEADLOCK FALSE
