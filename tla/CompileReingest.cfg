\* A document is parsed again while the deletion of its old products is under way.
SPECIFICATION Spec
CONSTANTS
  d1 = d1
  d2 = d2
  w1 = w1
  w2 = w2
  r1 = r1
  Docs = {d1}
  Workers = {w1}
  Refreshers = {r1}
  BatchSize = 2
  MaxEvents = 8
  MaxClaims = 9
  Scenarios <- Reparse
  MaxRequests = 4
  MaxFaults = 0
SYMMETRY Symmetric
PROPERTIES ReingestSurvives
\* Requests and faults are bounded: the system may come to rest.
CHECK_DEADLOCK FALSE
