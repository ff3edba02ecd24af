\* Two users at once, two processes; a request dies or a settlement is lost.
SPECIFICATION Spec
CONSTANTS
  NoTaskId = NoTaskId
  NoMsg = NoMsg
  w1 = w1
  w2 = w2
  p1 = p1
  p2 = p2
  Clients = {c1, c2}
  Procs = {p1, p2}
  Workers = {w1, w2}
  ProcOf <- TwoProcesses
  TaskIds = {t1}
  MsgIds = {m1, m2}
  MaxRuns = 1
  Ops = {"create", "stop", "rerun", "remove"}
  FaultKinds = {"settle", "abort"}
  MaxFaults = 1
SYMMETRY SymmetryTwoProcesses
INVARIANT RunningHasMessage
PROPERTY LifecycleSpec
\* Requests and faults are bounded: the system may come to rest.
CHECK_DEADLOCK FALSE
