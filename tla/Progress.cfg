\* Liveness with a crash, a shutdown or a failing statement; no symmetry.
SPECIFICATION FairSpec
CONSTANTS
  NoTaskId = NoTaskId
  NoMsg = NoMsg
  w1 = w1
  w2 = w2
  p1 = p1
  p2 = p2
  Clients = {c1}
  Procs = {p1}
  Workers = {w1}
  ProcOf <- OneProcess
  TaskIds = {t1}
  MsgIds = {m1, m2}
  MaxRuns = 2
  Ops = {"create", "stop"}
  FaultKinds = {"crash", "shutdown", "db", "settle"}
  MaxFaults = 1
PROPERTY RunEnds
PROPERTY MessagesSettle
\* Requests and faults are bounded: the system may come to rest.
CHECK_DEADLOCK FALSE
