\* Liveness: one document, two faults; no symmetry.
SPECIFICATION FairSpec
CONSTANTS
  d1 = d1
  d2 = d2
  w1 = w1
  w2 = w2
  r1 = r1
  Docs = {d1}
  Workers = {w1, w2}
  Refreshers = {r1}
  BatchSize = 2
  MaxEvents = 4
  MaxClaims = 7
  Scenarios <- Failures
  MaxRequests = 2
  MaxFaults = 2
PROPERTIES Settles
\* Requests and faults are bounded: the system may come to rest.
CHECK_DEADLOCK FALSE
