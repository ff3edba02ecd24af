\* One user creating, stopping and retrying; two workers of one process; any fault.
SPECIFICATION Spec
CONSTANTS
  NoTaskId = NoTaskId
  NoMsg = NoMsg
  w1 = w1
  w2 = w2
  p1 = p1
  p2 = p2
  Clients = {c1}
  Procs = {p1}
  Workers = {w1, w2}
  ProcOf <- OneProcess
  TaskIds = {t1}
  MsgIds = {m1, m2}
  MaxRuns = 2
  Ops = {"create", "stop"}
  FaultKinds = {"db", "publish", "ambiguous", "panic", "giveup", "settle", "lease", "shutdown", "crash"}
  MaxFaults = 1
SYMMETRY SymmetryOneProcess
INVARIANT TypeOK
INVARIANT OneExecutorPerProcess
PROPERTY LifecycleSpec
\* Requests and faults are bounded: the system may come to rest.
CHECK_DEADLOCK FALSE
