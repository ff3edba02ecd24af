\* A stop between the worker's swap to RUNNING and its second read.
SPECIFICATION FairSpec
CONSTANTS
  NoTaskId = NoTaskId
  NoMsg = NoMsg
  w1 = w1
  w2 = w2
  p1 = p1
  p2 = p2
  Clients = {c1}
  Procs = {p1}
  Workers = {w1}
  ProcOf <- OneProcess
  TaskIds = {t1}
  MsgIds = {m1}
  MaxRuns = 1
  Ops = {"create", "stop"}
  FaultKinds = {}
  MaxFaults = 0
PROPERTY StopEnds
\* Requests and faults are bounded: the system may come to rest.
CHECK_DEADLOCK FALSE
