\* Two documents, two compile workers, one refresher; one fault.
SPECIFICATION Spec
CONSTANTS
  d1 = d1
  d2 = d2
  w1 = w1
  w2 = w2
  r1 = r1
  Docs = {d1, d2}
  Workers = {w1, w2}
  Refreshers = {r1}
  BatchSize = 2
  MaxEvents = 8
  MaxClaims = 10
  Scenarios <- AllScenarios
  MaxRequests = 4
  MaxFaults = 1
SYMMETRY Symmetric
INVARIANTS TypeOK WikiConverges NavConverges MarkNotLost
PROPERTIES LedgerSpec
\* Requests and faults are bounded: the system may come to rest.
CHECK_DEADLOCK FALSE
