\* One user who parses again by deleting the task; two workers.
SPECIFICATION Spec
CONSTANTS
  NoTaskId = NoTaskId
  NoMsg = NoMsg
  w1 = w1
  w2 = w2
  p1 = p1
  p2 = p2
  Clients = {c1}
  Procs = {p1}
  Workers = {w1, w2}
  ProcOf <- OneProcess
  TaskIds = {t1, t2}
  MsgIds = {m1, m2}
  MaxRuns = 2
  Ops = {"rerun", "stop", "remove", "wipe"}
  FaultKinds = {"publish", "giveup"}
  MaxFaults = 1
SYMMETRY SymmetryOneProcess
INVARIANT NoOrphanRow
INVARIANT LedgerAgrees
INVARIANT CompiledRunsDone
 
\* Requests and faults are bounded: the system may come to rest.
CHECK_DEADLOCK FALSE
