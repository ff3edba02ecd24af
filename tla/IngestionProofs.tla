-------------------------- MODULE IngestionProofs --------------------------
(***************************************************************************)
(* What the workers of the ingestion subsystem guarantee: one executor per *)
(* task and process, and no RUNNING task without a message.                *)
(***************************************************************************)
EXTENDS IngestionTypeProofs

-----------------------------------------------------------------------------
(* One executor per task and process *)

\* The claim of an executing worker is in its process's map.
ClaimsHeld == \A w \in Workers : Executing(w) => TaskOf(w) \in claims[ProcOf[w]]

\* The inductive invariant behind ExecutorsExclude.
ClaimInv == ClaimsHeld /\ OneExecutorPerProcess

\* An operation of a caller leaves the ingestor alone.
LEMMA ServiceFrame ==
  ASSUME NEW c \in Callers, ServiceNext(c)
  PROVE  UNCHANGED ingestorVars
<1>1. CreateNext(c) => UNCHANGED ingestorVars
  BY Zenon DEF CreateNext, CreateNew, CreateAgain, CreateRetry, CreateRefused, ClearRun, EnsureReuse,
     EnsureNew, EnsureError, Rollback, Publish, PublishAmbiguous, PublishError,
     SettlePublishFailure, FailRow, MarkScheduled, MarkRow
<1>2. StopNext(c) => UNCHANGED ingestorVars
  BY Zenon DEF StopNext, StopQueued, StopRunning, CancelRow, SetFlag
<1>3. CleanupStep(c) => UNCHANGED ingestorVars
  BY Zenon DEF CleanupStep, ReadUnstarted, SkipSupersede, CleanupWithoutTask, Supersede, SupersedeRow,
     Delete, Clear
<1>4. Abort(c) => UNCHANGED ingestorVars
  BY DEF Abort
<1>5. QED
  BY Zenon, <1>1, <1>2, <1>3, <1>4 DEF ServiceNext

\* A worker that moves on within the execution, or outside of it, keeps ClaimInv.
LEMMA KeepsClaim ==
  ASSUME ClaimInv, NEW w \in Workers, UNCHANGED claims, NEW pc, NEW m, NEW ok,
         \/ WorkerMoves(w, pc, m, ok) /\ (pc \in ExecutionPC => Executing(w))
         \/ worker \in [Workers -> WorkRecord] /\ Idles(w)
  PROVE  ClaimInv'
<1>1. /\ \A v \in Workers : v # w => worker'[v] = worker[v]
      /\ Executing(w)' => Executing(w) /\ TaskOf(w)' = TaskOf(w)
  BY Zenon, IdlesFrame DEF WorkerMoves, Executing, TaskOf, ExecutionPC
<1>2. QED
  BY <1>1 DEF ClaimInv, ClaimsHeld, OneExecutorPerProcess, Executing, TaskOf

LEMMA WorkerClaim ==
  ASSUME TInv, ClaimInv, NEW w \in Workers, WorkerStep(w) \/ WorkerFault(w)
  PROVE  ClaimInv'
<1>0. worker \in [Workers -> WorkRecord] /\ claims \in [Procs -> SUBSET TaskIds] /\ ProcOf[w] \in Procs
  BY Zenon, ProcAssumption DEF TInv, TypeOK, IngestorTypeOK
<1>1. ASSUME \/ Begin(w) \/ ToRunning(w) \/ Reread(w) \/ ToStopped(w) \/ StoppedRow(w)
             \/ Validate(w) \/ Reject(w) \/ RejectRow(w) \/ AdmissionError(w)
      PROVE  ClaimInv'
  <2>1. PICK pc \in {"toRunning", "toStopped", "validate", "ack", "reread", "nack", "cancelRow",
                     "reject", "claim", "rejectRow"} : Same(w, pc)
    BY ZenonT(60), <1>1, AdmissionMoves
  <2>2. UNCHANGED claims
    BY <1>1 DEF Begin, ToRunning, Reread, ToStopped, StoppedRow, Validate, Reject, RejectRow, AdmissionError
  <2>3. pc \notin ExecutionPC
    BY <2>1 DEF ExecutionPC
  <2>4. QED
    BY Zenon, <2>1, <2>2, <2>3, KeepsClaim DEF Same
<1>2. ASSUME \/ Prepare(w) \/ ClearStaleFlag(w) \/ Panic(w) \/ StopFlag(w) \/ StopQueuedRow(w)
             \/ Close(w) \/ Precheck(w) \/ RunDocumentTask(w) \/ Complete(w) \/ Fail(w)
             \/ PanicHandler(w) \/ Stop(w) \/ StopMark(w) \/ ExecutionError(w) \/ Settle(w)
      PROVE  ClaimInv'
  <2>1. Executing(w) /\ UNCHANGED claims
    BY Zenon, <1>2 DEF Executing, ExecutionPC, Is, Prepare, ClearStaleFlag, Panic, StopFlag, StopQueuedRow, Close,
       Precheck, RunDocumentTask, Complete, Fail, PanicHandler, Stop, StopMark, ExecutionError, Settle
  <2>2. \E pc, m, ok : WorkerMoves(w, pc, m, ok)
    BY Zenon, <1>2, AdmissionMoves, ExecutionMoves DEF Same, Returned, Closing
  <2>3. QED
    BY Zenon, <2>1, <2>2, KeepsClaim
<1>3. CASE Claim(w)
  <2>1. CASE TaskOf(w) \in claims[ProcOf[w]]
    BY Zenon, <1>0, <1>3, <2>1, KeepsClaim DEF Claim
  <2>2. CASE TaskOf(w) \notin claims[ProcOf[w]]
    <3>1. claims' = [claims EXCEPT ![ProcOf[w]] = @ \cup {TaskOf(w)}] /\ Step(w, "prepare")
      BY Zenon, <1>3, <2>2 DEF Claim
    <3>2. Same(w, "prepare")
      BY Zenon, <1>0, <3>1, StepFrame, WorkerPCs DEF Same
    <3>3. \A v \in Workers : v # w /\ Executing(v) /\ ProcOf[v] = ProcOf[w] => TaskOf(v) # TaskOf(w)
      BY Zenon, <2>2 DEF ClaimInv, ClaimsHeld
    <3>4. /\ \A v \in Workers : TaskOf(v)' = TaskOf(v)
          /\ \A v \in Workers : v # w => (Executing(v)' <=> Executing(v))
      BY Zenon, <3>2 DEF Same, WorkerMoves, TaskOf, Executing
    <3>5. \A p \in Procs : claims[p] \subseteq claims'[p]
      BY Zenon, <1>0, <3>1
    <3>6. TaskOf(w) \in claims'[ProcOf[w]]
      BY Zenon, <1>0, <3>1
    <3>7. QED
      BY Zenon, <3>3, <3>4, <3>5, <3>6, ProcAssumption DEF ClaimInv, ClaimsHeld, OneExecutorPerProcess
  <2>3. QED
    BY Zenon, <2>1, <2>2
<1>4. CASE AckHandle(w) \/ NackHandle(w)
  BY Zenon, <1>0, <1>4, KeepsClaim DEF AckHandle, NackHandle
<1>5. CASE Release(w)
  <2>1. /\ claims' = [claims EXCEPT ![ProcOf[w]] = @ \ {TaskOf(w)}]
        /\ \A v \in Workers : v # w => worker'[v] = worker[v]
        /\ ~ Executing(w)'
    BY <1>0, <1>5, IdlesFrame DEF Release, Executing, ExecutionPC
  <2>2. Executing(w)
    BY <1>5 DEF Release, Executing, Is, ExecutionPC
  <2>3. \A v \in Workers : Executing(v)' => /\ v # w /\ Executing(v) /\ TaskOf(v)' = TaskOf(v)
    BY Zenon, <2>1 DEF Executing, TaskOf
  <2>4. \A v \in Workers : Executing(v)' => TaskOf(v) \in claims'[ProcOf[v]]
    BY Zenon, <1>0, <2>1, <2>2, <2>3, ProcAssumption DEF ClaimInv, ClaimsHeld, OneExecutorPerProcess
  <2>5. QED
    BY ZenonT(60), <2>3, <2>4 DEF ClaimInv, ClaimsHeld, OneExecutorPerProcess
<1>6. ASSUME NEW m \in MsgIds, Pull(w, m) PROVE ClaimInv'
  <2>1. /\ UNCHANGED claims
        /\ \A v \in Workers : v # w => worker'[v] = worker[v]
        /\ worker'[w].pc = "begin"
    BY Zenon, <1>0, <1>6, PullFrame DEF Pull, TInv, TypeOK, QueueTypeOK
  <2>2. QED
    BY <2>1 DEF ClaimInv, ClaimsHeld, OneExecutorPerProcess, Executing, TaskOf, ExecutionPC
<1>7. QED
  BY Zenon, <1>1, <1>2, <1>3, <1>4, <1>5, <1>6 DEF WorkerStep, WorkerFault, Admission, Execution

LEMMA LifetimeClaim ==
  ASSUME TInv, ClaimInv, NEW p \in Procs, Lifetime(p)
  PROVE  ClaimInv'
<1>1. CASE GoDown(p)
  <2>1. \A v \in Workers : Executing(v)' => ProcOf[v] # p /\ worker'[v] = worker[v]
    BY Zenon, <1>1, NoWorkType DEF GoDown, Executing, ExecutionPC
  <2>2. \A q \in Procs : q # p => claims'[q] = claims[q]
    BY <1>1 DEF GoDown, TInv, TypeOK, IngestorTypeOK
  <2>3. QED
    BY ZenonT(60), <2>1, <2>2, ProcAssumption DEF ClaimInv, ClaimsHeld, OneExecutorPerProcess, Executing, TaskOf
<1>2. CASE UNCHANGED <<worker, claims>>
  BY <1>2 DEF ClaimInv, ClaimsHeld, OneExecutorPerProcess, Executing, TaskOf
<1>3. QED
  BY Zenon, <1>1, <1>2 DEF Lifetime, Crash, Exit, Shutdown, AbandonLeases, Start

LEMMA NextClaim == TInv /\ ClaimInv /\ [Next]_vars => ClaimInv'
<1> SUFFICES ASSUME TInv, ClaimInv, [Next]_vars PROVE ClaimInv'
  OBVIOUS
<1>1. CASE UNCHANGED <<worker, claims>>
  BY <1>1 DEF ClaimInv, ClaimsHeld, OneExecutorPerProcess, Executing, TaskOf
<1>2. ASSUME NEW c \in Callers, ServiceNext(c) PROVE ClaimInv'
  BY Zenon, <1>1, <1>2, ServiceFrame DEF ingestorVars
<1>3. ASSUME NEW w \in Workers, WorkerStep(w) \/ WorkerFault(w) PROVE ClaimInv'
  BY Zenon, <1>3, WorkerClaim
<1>4. ASSUME NEW m \in MsgIds, Expire(m) \/ GiveUp(m) PROVE ClaimInv'
  BY Zenon, <1>1, <1>4 DEF Expire, GiveUp, ingestorVars
<1>5. ASSUME NEW p \in Procs, Lifetime(p) PROVE ClaimInv'
  BY Zenon, <1>5, LifetimeClaim
<1>6. CASE UNCHANGED vars
  BY <1>1, <1>6 DEF vars, ingestorVars
<1>7. QED
  BY <1>2, <1>3, <1>4, <1>5, <1>6 DEF Next

\* However many workers, copies of a message, redeliveries, crashes and restarts
\* there are, two workers of one process never execute one task at the same time
\* (claimTask before the pipeline, releaseTask after the settlement).
THEOREM ExecutorsExclude == Spec => []OneExecutorPerProcess
<1>1. Init => ClaimInv
  BY DEF Init, IngestorInit, ClaimInv, ClaimsHeld, OneExecutorPerProcess, Executing, ExecutionPC, NoWork
<1>2. QED
  BY <1>1, NextClaim, TInvHolds, PTL DEF Spec, ClaimInv

-----------------------------------------------------------------------------
(* A RUNNING task has a message *)

\* Heartbeats arrive in time, and no process is shut down while it works; it may
\* crash, and everything else may fail.
LeasesKept == "lease" \notin FaultKinds /\ "shutdown" \notin FaultKinds

\* As long as no lease is lost, a worker's message is in flight, carries its task
\* and is with this worker only.
Handle(w) ==
  /\ worker[w].pc # "idle" => proc[ProcOf[w]] = "up"
  /\ worker[w].pc \in {"idle", "release"} <=> worker[w].msg = NoMsg
  /\ worker[w].msg # NoMsg => /\ queue[worker[w].msg] = "inflight"
                             /\ msgTask[worker[w].msg] = worker[w].t

NoShared == \A v, w \in Workers : v # w /\ worker[v].msg = worker[w].msg => worker[v].msg = NoMsg

Leased ==
  /\ \A p \in Procs : proc[p] \in {"up", "down"}
  /\ \A w \in Workers : Handle(w)
  /\ NoShared

\* Workers that stay as they are keep their handle when its message stays as it is.
LEMMA HandleStays ==
  ASSUME NEW v \in Workers, Handle(v), worker'[v] = worker[v], proc'[ProcOf[v]] = proc[ProcOf[v]],
         worker[v].msg # NoMsg => /\ queue'[worker[v].msg] = queue[worker[v].msg]
                                 /\ msgTask'[worker[v].msg] = msgTask[worker[v].msg]
  PROVE  Handle(v)'
BY DEF Handle

\* No worker gets a message: the handles stay apart.
LEMMA LeasedStep ==
  ASSUME Leased, \A p \in Procs : proc'[p] \in {"up", "down"},
         \A v \in Workers : Handle(v)' /\ worker'[v].msg \in {worker[v].msg, NoMsg}
  PROVE  Leased'
<1>1. NoShared'
  BY Zenon DEF Leased, NoShared
<1>2. QED
  BY <1>1 DEF Leased

\* The worker is going to ack its message whatever becomes of the task.
AckBound(w) ==
  \/ worker[w].pc \in {"ack", "rejectRow", "cancelRow"}
  \/ worker[w].pc \in {"close", "settle"} /\ worker[w].ok

\* A RUNNING task has a message that nobody is going to ack.
Kept(t) ==
  \E m \in MsgIds : /\ msgTask[m] = t
                    /\ Live(m)
                    /\ \A w \in Workers : worker[w].msg = m => ~ AckBound(w)

RunningKept == \A t \in TaskIds : status[t] = "RUNNING" => Kept(t) \/ GivenUp(t)

\* The inductive invariant behind RunningKeepsMessage.
KInv == Leased /\ RunningKept

\* The calls of the service neither move a task to RUNNING nor touch a published message.
ServiceKeeps ==
  /\ \A t \in TaskIds : status'[t] = "RUNNING" => status[t] = "RUNNING"
  /\ \A m \in MsgIds : queue[m] # "unused" => queue'[m] = queue[m] /\ msgTask'[m] = msgTask[m]

LEMMA CreateKeeps ==
  ASSUME TInv, NEW c \in Callers, CreateNext(c)
  PROVE  ServiceKeeps
<1> USE DEF ServiceKeeps, storeVars, queueVars
<1>0. status \in [TaskIds -> Statuses] /\ QueueTypeOK
  BY Zenon DEF TInv, TypeOK, StoreTypeOK
<1>1. ASSUME NEW t \in TaskIds, CreateNew(c, t) \/ CreateAgain(c, t) \/ CreateRetry(c, t) PROVE ServiceKeeps
  BY Zenon, <1>0, <1>1 DEF CreateNew, CreateAgain, CreateRetry, CreateTask, Transition
<1>2. ASSUME NEW m \in MsgIds, Publish(c, m) \/ PublishAmbiguous(c, m) PROVE ServiceKeeps
  BY Zenon, <1>0, <1>2 DEF Publish, PublishAmbiguous, PublishTask, QueueTypeOK
<1>3. CASE CreateRefused(c) \/ ClearRun(c) \/ EnsureReuse(c) \/ EnsureNew(c) \/ EnsureError(c)
             \/ PublishError(c) \/ FailRow(c) \/ MarkRow(c)
  BY Zenon, <1>3 DEF CreateRefused, ClearRun, EnsureReuse, EnsureNew, EnsureError, PublishError, FailRow, MarkRow
<1>4. CASE Rollback(c)
  BY Zenon, <1>0, <1>4 DEF Rollback, TInv, WellFormed, At
<1>5. CASE SettlePublishFailure(c)
  BY Zenon, <1>0, <1>5 DEF SettlePublishFailure, AfterMarkFailed
<1>6. CASE MarkScheduled(c)
  BY Zenon, <1>0, <1>6 DEF MarkScheduled, Transition
<1>7. QED
  BY Zenon, <1>1, <1>2, <1>3, <1>4, <1>5, <1>6 DEF CreateNext

LEMMA OtherKeeps ==
  ASSUME TInv, NEW c \in Callers, StopNext(c) \/ CleanupStep(c) \/ Abort(c)
  PROVE  ServiceKeeps
<1> USE DEF ServiceKeeps, storeVars, queueVars
<1>0. status \in [TaskIds -> Statuses]
  BY Zenon DEF TInv, TypeOK, StoreTypeOK
<1>1. CASE StopNext(c)
  BY Zenon, <1>0, <1>1 DEF StopNext, StopQueued, StopRunning, CancelRow, SetFlag, Transition
<1>2. CASE CleanupStep(c)
  BY Zenon, <1>0, <1>2 DEF CleanupStep, ReadUnstarted, SkipSupersede, CleanupWithoutTask, Supersede,
     SupersedeRow, Delete, Clear, Transition, DeleteTask
<1>3. CASE Abort(c)
  BY Zenon, <1>3 DEF Abort
<1>4. QED
  BY <1>1, <1>2, <1>3

LEMMA ServiceKInv ==
  ASSUME TInv, KInv, NEW c \in Callers, ServiceNext(c)
  PROVE  KInv'
<1>1. ServiceKeeps /\ UNCHANGED <<worker, proc>>
  BY Zenon, CreateKeeps, OtherKeeps, ServiceFrame DEF ServiceNext, ingestorVars
<1>2. \A w \in Workers : worker[w].msg # NoMsg => worker[w].msg \in MsgIds
  BY DEF TInv, TypeOK, IngestorTypeOK, WorkRecord
<1>3. Leased'
  <2>1. ASSUME NEW v \in Workers PROVE Handle(v)'
    <3>1. Handle(v) /\ (worker[v].msg # NoMsg => queue[worker[v].msg] # "unused")
      BY DEF KInv, Leased, Handle
    <3>2. QED
      BY Zenon, <1>1, <1>2, <3>1, HandleStays DEF ServiceKeeps
  <2>2. QED
    BY Zenon, <1>1, <2>1, LeasedStep DEF KInv, Leased
<1>4. ASSUME NEW t \in TaskIds, status'[t] = "RUNNING" PROVE Kept(t)' \/ GivenUp(t)'
  <2>1. Kept(t) \/ GivenUp(t)
    BY Zenon, <1>1, <1>4 DEF ServiceKeeps, KInv, RunningKept
  <2>2. CASE Kept(t)
    BY <1>1, <2>2 DEF Kept, Live, ServiceKeeps, AckBound
  <2>3. CASE GivenUp(t)
    BY Zenon, <1>1, <2>3 DEF GivenUp, ServiceKeeps
  <2>4. QED
    BY ZenonT(60), <2>1, <2>2, <2>3
<1>5. QED
  BY Zenon, <1>3, <1>4 DEF KInv, RunningKept

\* A worker moves on with its message, and does not start to let go of the message
\* of a task that is RUNNING after the step.
LEMMA KeepsMessage ==
  ASSUME KInv, NEW w \in Workers, NEW pc, NEW ok, WorkerMoves(w, pc, worker[w].msg, ok),
         worker[w].pc \notin {"idle", "release"}, pc \notin {"idle", "release"},
         UNCHANGED <<queue, msgTask, proc>>,
         \A t \in TaskIds : status'[t] = "RUNNING" => status[t] = "RUNNING",
         AckBound(w)' => AckBound(w) \/ status'[worker[w].t] # "RUNNING"
  PROVE  KInv'
<1>1. Leased'
  <2>1. Handle(w)'
    BY DEF KInv, Leased, Handle, WorkerMoves
  <2>2. ASSUME NEW v \in Workers, v # w PROVE Handle(v)'
    BY Zenon, <2>2, HandleStays DEF KInv, Leased, WorkerMoves
  <2>3. \A v \in Workers : worker'[v].msg = worker[v].msg
    BY Zenon DEF WorkerMoves
  <2>4. QED
    BY Zenon, <2>1, <2>2, <2>3, LeasedStep DEF KInv, Leased
<1>2. ASSUME NEW t \in TaskIds, status'[t] = "RUNNING" PROVE Kept(t)' \/ GivenUp(t)'
  <2>1. Kept(t) \/ GivenUp(t)
    BY Zenon, <1>2 DEF KInv, RunningKept
  <2>2. CASE Kept(t)
    <3>1. PICK m \in MsgIds : /\ msgTask[m] = t /\ Live(m)
                             /\ \A v \in Workers : worker[v].msg = m => ~ AckBound(v)
      BY Zenon, <2>2 DEF Kept
    <3>2. worker[w].msg = m /\ m # NoMsg => worker[w].t = t
      BY ZenonT(60), <3>1 DEF KInv, Leased, Handle, NoShared
    <3>3. ASSUME NEW v \in Workers, worker'[v].msg = m PROVE ~ AckBound(v)'
      <4>1. CASE v # w
        BY Zenon, <3>1, <3>3, <4>1 DEF WorkerMoves, AckBound
      <4>2. CASE v = w
        BY Zenon, <1>2, <3>1, <3>2, <3>3, <4>2, NoMsgAssumption DEF WorkerMoves
      <4>3. QED
        BY Zenon, <4>1, <4>2
    <3>4. QED
      BY Zenon, <3>1, <3>3 DEF Kept, Live
  <2>3. CASE GivenUp(t)
    BY Zenon, <2>3 DEF GivenUp
  <2>4. QED
    BY Zenon, <2>1, <2>2, <2>3
<1>3. QED
  BY Zenon, <1>1, <1>2 DEF KInv, RunningKept

\* A worker lets go of its message: it leaves it in flight, nacks it, or acks it
\* when it was bound to or when the task is not RUNNING.
LEMMA LetsGo ==
  ASSUME TInv, KInv, NEW w \in Workers, UNCHANGED <<status, msgTask, proc>>,
         \A v \in Workers : v # w => worker'[v] = worker[v],
         worker'[w].msg = NoMsg, worker'[w].pc \in {"idle", "release"},
         worker[w].pc # "idle",
         \/ UNCHANGED queue
         \/ worker[w].msg # NoMsg /\ queue' = AfterNack(worker[w].msg)
         \/ /\ worker[w].msg # NoMsg
            /\ queue' = AfterAck(worker[w].msg)
            /\ AckBound(w) \/ status[worker[w].t] # "RUNNING"
  PROVE  KInv'
<1>0. /\ queue \in [MsgIds -> {"unused", "ready", "inflight", "acked", "dropped"}]
      /\ \A v \in Workers : worker[v].msg # NoMsg => worker[v].msg \in MsgIds
  BY ZenonT(60) DEF TInv, TypeOK, QueueTypeOK, IngestorTypeOK, WorkRecord
<1>1. \A m \in MsgIds : m # worker[w].msg => queue'[m] = queue[m]
  BY Zenon, <1>0 DEF AfterAck, AfterNack
<1>2. Leased'
  <2>1. \A v \in Workers : v # w /\ worker[v].msg # NoMsg =>
          /\ worker[v].msg # worker[w].msg
          /\ queue'[worker[v].msg] = queue[worker[v].msg]
    BY ZenonT(60), <1>0, <1>1 DEF KInv, Leased, Handle, NoShared
  <2>2. QED
    <3>1. Handle(w)'
      BY Zenon DEF KInv, Leased, Handle
    <3>2. ASSUME NEW v \in Workers, v # w PROVE Handle(v)'
      BY Zenon, <2>1, <3>2, HandleStays DEF KInv, Leased
    <3>3. QED
      BY Zenon, <3>1, <3>2, LeasedStep DEF KInv, Leased
<1>3. ASSUME NEW t \in TaskIds, status'[t] = "RUNNING" PROVE Kept(t)' \/ GivenUp(t)'
  <2>1. Kept(t) \/ GivenUp(t)
    BY Zenon, <1>3 DEF KInv, RunningKept
  <2>2. CASE Kept(t)
    <3>1. PICK m \in MsgIds : /\ msgTask[m] = t /\ Live(m)
                             /\ \A v \in Workers : worker[v].msg = m => ~ AckBound(v)
      BY Zenon, <2>2 DEF Kept
    <3>2. Live(m)'
      <4>1. CASE m # worker[w].msg
        BY Zenon, <1>1, <3>1, <4>1 DEF Live
      <4>2. CASE m = worker[w].msg
        BY ZenonT(60), <1>0, <1>3, <3>1, <4>2, NoMsgAssumption DEF Live, AfterNack, KInv, Leased, Handle, NoShared
      <4>3. QED
        BY Zenon, <4>1, <4>2
    <3>3. ASSUME NEW v \in Workers, worker'[v].msg = m PROVE ~ AckBound(v)'
      BY Zenon, <3>1, <3>3, NoMsgAssumption DEF AckBound
    <3>4. QED
      BY Zenon, <3>1, <3>2, <3>3 DEF Kept
  <2>3. CASE GivenUp(t)
    <3>1. PICK m \in MsgIds : msgTask[m] = t /\ queue[m] = "dropped"
      BY Zenon, <2>3 DEF GivenUp
    <3>2. queue'[m] = "dropped"
      BY <1>0, <3>1 DEF AfterAck, AfterNack
    <3>3. QED
      BY Zenon, <3>1, <3>2 DEF GivenUp
  <2>4. QED
    BY Zenon, <2>1, <2>2, <2>3
<1>4. QED
  BY Zenon, <1>2, <1>3 DEF KInv, RunningKept

\* The swap to RUNNING: the task's message is in flight with this worker alone.
LEMMA ToRunningKInv ==
  ASSUME TInv, KInv, NEW w \in Workers, ToRunning(w)
  PROVE  KInv'
<1>t. PICK t \in TaskIds : t = TaskOf(w)
  BY DEF TInv, WellFormed, ToRunning, Is, TaskOf
<1>0. status \in [TaskIds -> Statuses]
  BY Zenon DEF TInv, TypeOK, StoreTypeOK
<1>1. UNCHANGED <<queue, msgTask, proc>> /\ worker[w].pc = "toRunning"
  BY Zenon DEF ToRunning, queueVars, Is
<1>2. CASE status[t] \notin Unstarted
  <2>1. \/ Same(w, "nack")
        \/ Same(w, "ack") /\ status[t] \notin Present
    BY Zenon, <1>t, <1>2, StepFrame, WorkerPCs DEF ToRunning, Same, TInv, TypeOK, IngestorTypeOK
  <2>2. UNCHANGED status
    BY Zenon, <1>t, <1>2, <1>0 DEF ToRunning
  <2>3. CASE Same(w, "nack")
    BY Zenon, <1>1, <2>2, <2>3, KeepsMessage DEF Same, AckBound, WorkerMoves
  <2>4. CASE Same(w, "ack") /\ status[t] \notin Present
    <3>1. status'[worker[w].t] # "RUNNING"
      BY Zenon, <1>t, <2>2, <2>4 DEF TaskOf, Present, Active, InProgress
    <3>2. PICK pc \in {"ack"}, ok \in BOOLEAN : WorkerMoves(w, pc, worker[w].msg, ok)
      BY Zenon, <2>4 DEF Same, TInv, TypeOK, IngestorTypeOK, WorkRecord
    <3>3. worker[w].pc \notin {"idle", "release"} /\ pc \notin {"idle", "release"}
      BY Zenon, <1>1, <3>2
    <3>4. QED
      BY Zenon, <1>1, <2>2, <3>1, <3>2, <3>3, KeepsMessage
  <2>5. QED
    BY Zenon, <2>1, <2>3, <2>4
<1>3. CASE status[t] \in Unstarted
  <2>1. Same(w, "reread") /\ status' = [status EXCEPT ![t] = "RUNNING"]
    BY Zenon, <1>t, <1>3, StepFrame, WorkerPCs DEF ToRunning, Transition, Same, TInv, TypeOK, IngestorTypeOK
  <2>2. Leased'
    <3>1. Handle(w)'
      <4>1. /\ worker'[w].pc = "reread" /\ worker'[w].msg = worker[w].msg
            /\ worker'[w].t = worker[w].t
        BY Zenon, <2>1 DEF Same, WorkerMoves
      <4>2. QED
        BY ZenonT(60), <1>1, <4>1 DEF KInv, Leased, Handle
    <3>2. ASSUME NEW v \in Workers, v # w PROVE Handle(v)'
      BY Zenon, <1>1, <2>1, <3>2, HandleStays DEF KInv, Leased, Same, WorkerMoves
    <3>3. \A v \in Workers : worker'[v].msg = worker[v].msg
      BY Zenon, <2>1 DEF Same, WorkerMoves
    <3>4. QED
      BY Zenon, <1>1, <3>1, <3>2, <3>3, LeasedStep DEF KInv, Leased
  <2>3. Kept(t)'
    <3>1. /\ worker[w].msg \in MsgIds
          /\ msgTask[worker[w].msg] = t
          /\ queue[worker[w].msg] = "inflight"
          /\ \A v \in Workers : worker[v].msg = worker[w].msg => v = w
      <4>1. worker[w].msg \in MsgIds \cup {NoMsg} /\ worker[w].msg # NoMsg
        BY Zenon, <1>1 DEF KInv, Leased, Handle, TInv, TypeOK, IngestorTypeOK, WorkRecord
      <4>2. QED
        BY Zenon, <1>t, <4>1 DEF KInv, Leased, Handle, NoShared, TaskOf
    <3>2. \A v \in Workers : worker'[v].msg = worker[v].msg
      BY <2>1 DEF Same, WorkerMoves
    <3>3. ~ AckBound(w)'
      BY Zenon, <2>1 DEF Same, WorkerMoves, AckBound
    <3>4. PICK m \in MsgIds : m = worker[w].msg
      BY Zenon, <3>1
    <3>5. Live(m)' /\ msgTask'[m] = t
      BY Zenon, <1>1, <3>1, <3>4 DEF Live
    <3>6. \A v \in Workers : worker'[v].msg = m => ~ AckBound(v)'
      BY Zenon, <3>1, <3>2, <3>3, <3>4
    <3>7. QED
      BY Zenon, <3>5, <3>6 DEF Kept
  <2>4. ASSUME NEW u \in TaskIds, u # t, status'[u] = "RUNNING" PROVE Kept(u)' \/ GivenUp(u)'
    <3>1. status[u] = "RUNNING"
      BY Zenon, <1>0, <2>1, <2>4
    <3>2. CASE Kept(u)
      BY <1>1, <2>1, <3>2 DEF Kept, Live, Same, WorkerMoves, AckBound
    <3>3. CASE GivenUp(u)
      BY Zenon, <1>1, <3>3 DEF GivenUp
    <3>4. QED
      BY Zenon, <3>1, <3>2, <3>3 DEF KInv, RunningKept
  <2>5. QED
    BY Zenon, <2>2, <2>3, <2>4 DEF KInv, RunningKept
<1>4. QED
  BY ZenonT(60), <1>2, <1>3

\* The steps that are not about to ack, and those that were before.
LEMMA QuietKInv ==
  ASSUME TInv, KInv, NEW w \in Workers,
         \/ Validate(w) \/ AdmissionError(w) \/ Prepare(w) \/ ClearStaleFlag(w) \/ Panic(w)
         \/ StopFlag(w) \/ StopQueuedRow(w) \/ Precheck(w) \/ RunDocumentTask(w)
         \/ PanicHandler(w) \/ Stop(w) \/ ExecutionError(w)
         \/ StoppedRow(w) \/ RejectRow(w) \/ Close(w)
  PROVE  KInv'
<1>0. status \in [TaskIds -> Statuses]
  BY Zenon DEF TInv, TypeOK, StoreTypeOK
<1> DEFINE Rest == /\ UNCHANGED <<queue, msgTask, proc>>
                   /\ worker[w].pc \notin {"idle", "release"}
                   /\ \A t \in TaskIds : status'[t] = "RUNNING" => status[t] = "RUNNING"
<1>1. Rest
  <2>1. CASE \/ Validate(w) \/ AdmissionError(w) \/ Prepare(w) \/ ClearStaleFlag(w) \/ Panic(w)
             \/ StopFlag(w) \/ StopQueuedRow(w) \/ Precheck(w) \/ RunDocumentTask(w)
             \/ ExecutionError(w) \/ StoppedRow(w) \/ RejectRow(w) \/ Close(w)
    BY Zenon, <2>1 DEF Validate, AdmissionError, Prepare, ClearStaleFlag, Panic, StopFlag, StopQueuedRow,
       Precheck, RunDocumentTask, ExecutionError, StoppedRow, RejectRow, Close, storeVars, queueVars, Is
  <2>2. CASE PanicHandler(w)
    BY Zenon, <1>0, <2>2 DEF PanicHandler, AfterMarkFailed, queueVars, Is
  <2>3. CASE Stop(w)
    BY Zenon, <1>0, <2>3 DEF Stop, Transition, queueVars, Is
  <2>4. QED
    BY Zenon, <2>1, <2>2, <2>3
<1>2. ASSUME NEW pc, NEW ok, WorkerMoves(w, pc, worker[w].msg, ok), pc \notin {"idle", "release"},
             AckBound(w)' => AckBound(w)
      PROVE  KInv'
  BY Zenon, <1>1, <1>2, KeepsMessage
<1>3. CASE \/ Validate(w) \/ AdmissionError(w) \/ Prepare(w) \/ ClearStaleFlag(w) \/ Panic(w)
           \/ StopFlag(w) \/ StopQueuedRow(w)
  <2>1. PICK pc \in {"nack", "reject", "claim", "precheck", "run", "panic", "stopMark"} : Same(w, pc)
    BY Zenon, <1>3, AdmissionMoves
  <2>2. ~ AckBound(w)'
    BY Zenon, <2>1 DEF Same, WorkerMoves, AckBound
  <2>3. QED
    BY Zenon, <1>2, <2>1, <2>2 DEF Same
<1>4. CASE \/ Precheck(w) \/ RunDocumentTask(w) \/ PanicHandler(w) \/ Stop(w) \/ ExecutionError(w)
  <2>1. \/ \E pc \in {"stop", "clearFlag", "complete", "fail", "stopFlag", "stopQueuedRow", "stopMark"} : Same(w, pc)
        \/ Returned(w)
        \/ Closing(w, FALSE)
    BY Zenon, <1>4, ExecutionMoves
  <2>2. PICK pc \in {"stop", "clearFlag", "complete", "fail", "stopFlag", "stopQueuedRow", "stopMark", "settle", "close"},
             ok \in BOOLEAN : WorkerMoves(w, pc, worker[w].msg, ok) /\ (pc \in {"settle", "close"} => ok = FALSE)
    <3>1. worker[w].ok \in BOOLEAN
      BY Zenon DEF TInv, TypeOK, IngestorTypeOK, WorkRecord
    <3>2. QED
      BY Zenon, <2>1, <3>1 DEF Same, Returned, Closing
  <2>3. ~ AckBound(w)'
    BY Zenon, <2>2 DEF WorkerMoves, AckBound
  <2>4. QED
    BY Zenon, <1>2, <2>2, <2>3
<1>5. CASE StoppedRow(w) \/ RejectRow(w)
  <2>1. AckBound(w) /\ Same(w, "ack")
    BY Zenon, <1>5, AdmissionMoves DEF StoppedRow, RejectRow, Is, AckBound
  <2>2. QED
    BY <1>2, <2>1 DEF Same
<1>6. CASE Close(w)
  <2>1. Is(w, "close") /\ Same(w, "settle")
    BY Zenon, <1>6, AdmissionMoves DEF Close
  <2>2. AckBound(w)' => AckBound(w)
    BY Zenon, <2>1 DEF Is, Same, WorkerMoves, AckBound
  <2>3. QED
    BY <1>2, <2>1, <2>2 DEF Same
<1>7. QED
  BY Zenon, <1>3, <1>4, <1>5, <1>6

\* The steps after which the worker acks because the task is not RUNNING any more.
LEMMA SettlingKInv ==
  ASSUME TInv, KInv, NEW w \in Workers,
         \/ Begin(w) \/ Reread(w) \/ ToStopped(w) \/ Reject(w) \/ Complete(w) \/ Fail(w) \/ StopMark(w)
  PROVE  KInv'
<1>t. PICK t \in TaskIds : t = worker[w].t
  BY Zenon DEF TInv, WellFormed, Begin, Reread, ToStopped, Reject, Complete, Fail, StopMark, Is
<1>0. status \in [TaskIds -> Statuses] /\ worker \in [Workers -> WorkRecord]
      /\ bound \in [TaskIds -> 0 .. MaxRuns] /\ worker[w].t \in TaskIds /\ worker[w].fin \in ClosedRow
  BY Zenon, <1>t DEF TInv, TypeOK, StoreTypeOK, IngestorTypeOK, WorkRecord
<1>1. /\ UNCHANGED <<queue, msgTask, proc>>
      /\ worker[w].pc \notin {"idle", "release"}
      /\ \A u \in TaskIds : status'[u] = "RUNNING" => status[u] = "RUNNING"
  BY Zenon, <1>0 DEF Begin, Reread, ToStopped, Reject, Complete, Fail, StopMark, Is, storeVars, queueVars, Transition,
     AfterMarkFailed
<1>2. ASSUME NEW pc, NEW ok, WorkerMoves(w, pc, worker[w].msg, ok), pc \notin {"idle", "release"},
             \/ pc \notin {"ack", "rejectRow", "cancelRow", "close"} /\ (pc = "settle" => ok = FALSE)
             \/ status'[t] # "RUNNING"
      PROVE  KInv'
  <2>1. AckBound(w)' => status'[worker[w].t] # "RUNNING"
    BY Zenon, <1>t, <1>2 DEF AckBound, WorkerMoves
  <2>2. QED
    BY Zenon, <1>1, <1>2, <2>1, KeepsMessage
<1>q. ASSUME NEW pc \in {"toRunning", "toStopped", "validate", "nack", "stop"}, Same(w, pc) PROVE KInv'
  BY Zenon, <1>2, <1>q DEF Same
<1>r. ASSUME Returned(w) PROVE KInv'
  <2>1. PICK pc \in {"settle"}, ok \in BOOLEAN : ok = FALSE /\ WorkerMoves(w, pc, worker[w].msg, ok)
    BY Zenon, <1>r DEF Returned
  <2>2. ~ AckBound(w)'
    BY <2>1 DEF WorkerMoves, AckBound
  <2>3. QED
    BY Zenon, <1>1, <2>1, <2>2, KeepsMessage
<1>s. ASSUME NEW pc \in {"ack", "rejectRow", "cancelRow"}, Same(w, pc), status'[t] # "RUNNING" PROVE KInv'
  BY Zenon, <1>2, <1>s DEF Same
<1>c. ASSUME Closing(w, TRUE), status'[t] # "RUNNING" PROVE KInv'
  <2>1. PICK pc \in {"close"}, ok \in BOOLEAN : WorkerMoves(w, pc, worker[w].msg, ok)
    BY Zenon, <1>c DEF Closing
  <2>2. QED
    BY Zenon, <1>t, <1>1, <1>c, <2>1, KeepsMessage
<1>f. MarkFailedOK(t) => [status EXCEPT ![t] = "FAILED"][t] # "RUNNING" /\ AfterMarkFailed(t)[t] # "RUNNING"
  BY <1>0 DEF MarkFailedOK, AfterMarkFailed, Terminal
<1>3. CASE Begin(w)
  <2>1. \/ Same(w, "toRunning") \/ Same(w, "toStopped") \/ Same(w, "validate")
        \/ Same(w, "ack") /\ status'[t] # "RUNNING"
    BY ZenonT(60), <1>t, <1>0, <1>3, StepFrame, CaptureFrame, WorkerPCs DEF Same, Returned, Closing, Begin, TaskOf, Active, InProgress, storeVars
  <2>2. QED
    BY <1>q, <1>r, <1>s, <1>c, <2>1
<1>4. CASE Reread(w)
  <2>1. Same(w, "validate") \/ (Same(w, "ack") /\ status'[t] # "RUNNING")
    BY Zenon, <1>t, <1>0, <1>4, StepFrame, CaptureFrame, WorkerPCs DEF Same, Returned, Closing, Reread, TaskOf, storeVars
  <2>2. QED
    BY Zenon, <1>q, <1>r, <1>s, <1>c, <2>1
<1>5. CASE ToStopped(w)
  <2>1. Same(w, "nack") \/ ((Same(w, "ack") \/ Same(w, "cancelRow")) /\ status'[t] # "RUNNING")
    BY Zenon, <1>t, <1>0, <1>5, StepFrame, WorkerPCs DEF Same, Returned, Closing, ToStopped, TaskOf, Transition, Present, Active, InProgress
  <2>2. QED
    BY Zenon, <1>q, <1>r, <1>s, <1>c, <2>1
<1>6. CASE Reject(w)
  <2>1. Same(w, "nack") \/ (Same(w, "rejectRow") /\ status'[t] # "RUNNING")
    BY Zenon, <1>t, <1>0, <1>f, <1>6, StepFrame, WorkerPCs DEF Same, Returned, Closing, Reject, TaskOf
  <2>2. QED
    BY Zenon, <1>q, <1>r, <1>s, <1>c, <2>1
<1>7. CASE Complete(w)
  <2>1. Same(w, "stop") \/ Returned(w) \/ (Closing(w, TRUE) /\ status'[t] # "RUNNING")
    BY ZenonT(60), <1>t, <1>0, <1>7, ClosesFrame, StopsFrame, ReturnsFrame, WorkerPCs DEF Same, Returned, Closing, Complete, TaskOf, Transition, Terminal
  <2>2. QED
    BY Zenon, <1>q, <1>r, <1>s, <1>c, <2>1
<1>8. CASE Fail(w)
  <2>1. Returned(w) \/ (Closing(w, TRUE) /\ status'[t] # "RUNNING")
    BY ZenonT(60), <1>t, <1>0, <1>f, <1>8, ClosesFrame, ReturnsFrame, WorkerPCs DEF Same, Returned, Closing, Fail, TaskOf
  <2>2. QED
    BY Zenon, <1>q, <1>r, <1>s, <1>c, <2>1
<1>9. CASE StopMark(w)
  <2>1. Returned(w) \/ (Closing(w, TRUE) /\ status'[t] # "RUNNING")
    BY ZenonT(60), <1>t, <1>0, <1>9, ClosesFrame, ReturnsFrame, WorkerPCs DEF Same, Returned, Closing, StopMark, TaskOf, Transition, Terminal
  <2>2. QED
    BY ZenonT(60), <1>q, <1>r, <1>s, <1>c, <2>1
<1>10. QED
  BY ZenonT(60), <1>3, <1>4, <1>5, <1>6, <1>7, <1>8, <1>9

LEMMA WorkerKInv ==
  ASSUME TInv, KInv, NEW w \in Workers, WorkerStep(w) \/ WorkerFault(w)
  PROVE  KInv'
<1>0. /\ worker \in [Workers -> WorkRecord] /\ worker[w].ok \in BOOLEAN
      /\ \A v \in Workers : worker[v].msg # NoMsg => worker[v].msg \in MsgIds
      /\ queue \in [MsgIds -> {"unused", "ready", "inflight", "acked", "dropped"}]
      /\ msgTask \in [MsgIds -> TaskIds \cup {NoTaskId}]
  BY Zenon DEF TInv, TypeOK, QueueTypeOK, IngestorTypeOK, WorkRecord
<1>a. worker[w].pc # "idle" => ~ Abandoned(w)
  BY DEF KInv, Leased, Handle, NoShared, Abandoned
<1>1. CASE ToRunning(w)
  BY Zenon, <1>1, ToRunningKInv
<1>2. CASE Claim(w)
  <2>1. CASE TaskOf(w) \in claims[ProcOf[w]]
    BY Zenon, <1>0, <1>2, <2>1, IdlesFrame, LetsGo DEF Claim, storeVars, queueVars, Is
  <2>2. CASE TaskOf(w) \notin claims[ProcOf[w]]
    <3>1. Same(w, "prepare") /\ UNCHANGED <<status, queue, msgTask, proc>> /\ Is(w, "claim")
      BY ZenonT(60), <1>0, <1>2, <2>2, StepFrame, WorkerPCs DEF Claim, Same, storeVars, queueVars
    <3>2. ~ AckBound(w)'
      BY Zenon, <3>1 DEF Same, WorkerMoves, AckBound
    <3>3. PICK pc \in {"prepare"}, ok \in BOOLEAN : WorkerMoves(w, pc, worker[w].msg, ok)
      BY Zenon, <1>0, <3>1 DEF Same
    <3>4. worker[w].pc \notin {"idle", "release"} /\ pc \notin {"idle", "release"}
      BY Zenon, <3>1, <3>3 DEF Is
    <3>5. QED
      BY Zenon, <3>1, <3>2, <3>3, <3>4, KeepsMessage
  <2>3. QED
    BY <2>1, <2>2
<1>3. CASE AckHandle(w)
  <2>1. AckBound(w) /\ worker[w].msg # NoMsg /\ worker[w].pc # "idle"
    BY Zenon, <1>3 DEF AckHandle, Is, AckBound, KInv, Leased, Handle, NoShared
  <2>2. queue' = AfterAck(worker[w].msg) \/ UNCHANGED queue
    BY Zenon, <1>3, <1>a, <2>1 DEF AckHandle, Settled
  <2>3. QED
    BY Zenon, <1>0, <1>3, <2>1, <2>2, IdlesFrame, LetsGo DEF AckHandle, storeVars
<1>4. CASE NackHandle(w)
  <2>1. worker[w].msg # NoMsg /\ worker[w].pc # "idle"
    BY Zenon, <1>4 DEF NackHandle, Is, KInv, Leased, Handle, NoShared
  <2>2. queue' = AfterNack(worker[w].msg) \/ UNCHANGED queue
    BY Zenon, <1>4, <1>a, <2>1 DEF NackHandle, Settled
  <2>3. QED
    BY Zenon, <1>0, <1>4, <2>1, <2>2, IdlesFrame, LetsGo DEF NackHandle, storeVars
<1>5. CASE Settle(w)
  <2>1. worker[w].msg # NoMsg /\ worker[w].pc = "settle"
    BY Zenon, <1>5 DEF Settle, Is, KInv, Leased, Handle, NoShared
  <2>2. \/ UNCHANGED queue
        \/ queue' = AfterNack(worker[w].msg)
        \/ /\ queue' = AfterAck(worker[w].msg)
           /\ AckBound(w) \/ status[worker[w].t] # "RUNNING"
    BY Zenon, <1>5, <1>a, <2>1 DEF Settle, Settled, TaskOf, Terminal, Present, Active, InProgress, AckBound
  <2>3. /\ UNCHANGED <<status, msgTask, proc>>
        /\ \A v \in Workers : v # w => worker'[v] = worker[v]
        /\ worker'[w].msg = NoMsg /\ worker'[w].pc = "release"
    BY Zenon, <1>0, <1>5, LetGoFrame DEF Settle, WorkerMoves, storeVars
  <2>4. QED
    BY Zenon, <2>1, <2>2, <2>3, LetsGo
<1>6. CASE Release(w)
  BY Zenon, <1>0, <1>6, IdlesFrame, LetsGo DEF Release, Is, storeVars, queueVars
<1>7. ASSUME NEW m \in MsgIds, Pull(w, m) PROVE KInv'
  <2>1. /\ queue[m] = "ready" /\ queue' = [queue EXCEPT ![m] = "inflight"]
        /\ UNCHANGED <<status, msgTask, proc>>
        /\ proc[ProcOf[w]] = "up" /\ worker[w].pc = "idle"
    BY Zenon, <1>7 DEF Pull, Deliver, Serving, Is, storeVars
  <2>2. /\ \A v \in Workers : v # w => worker'[v] = worker[v]
        /\ worker'[w].pc = "begin" /\ worker'[w].t = msgTask[m] /\ worker'[w].msg = m
    BY Zenon, <1>0, <1>7, PullFrame
  <2>3. \A v \in Workers : worker[v].msg # m
    BY ZenonT(60), <2>1, NoMsgAssumption DEF KInv, Leased, Handle, NoShared
  <2>4. Leased'
    <3>1. \A p \in Procs : proc'[p] \in {"up", "down"}
      BY Zenon, <2>1 DEF KInv, Leased, Handle, NoShared
    <3>2. Handle(w)'
      BY Zenon, <1>0, <2>1, <2>2, NoMsgAssumption DEF Handle
    <3>3. ASSUME NEW v \in Workers, v # w PROVE Handle(v)'
      <4>1. worker[v].msg # NoMsg => queue'[worker[v].msg] = queue[worker[v].msg]
        BY Zenon, <1>0, <2>1, <2>3
      <4>2. QED
        BY Zenon, <2>1, <2>2, <3>3, <4>1, HandleStays DEF KInv, Leased
    <3>4. NoShared'
      <4> SUFFICES ASSUME NEW u \in Workers, NEW v \in Workers, u # v, worker'[u].msg = worker'[v].msg
                   PROVE  worker'[u].msg = NoMsg
        BY Zenon DEF NoShared
      <4>1. CASE u = w \/ v = w
        BY Zenon, <2>2, <2>3, <4>1
      <4>2. CASE u # w /\ v # w
        BY ZenonT(60), <2>2, <4>2 DEF KInv, Leased, NoShared
      <4>3. QED
        BY Zenon, <4>1, <4>2
    <3>5. QED
      BY Zenon, <3>1, <3>2, <3>3, <3>4 DEF Leased
  <2>5. ASSUME NEW t \in TaskIds, status'[t] = "RUNNING" PROVE Kept(t)' \/ GivenUp(t)'
    <3>1. CASE Kept(t)
      <4>1. PICK n \in MsgIds : /\ msgTask[n] = t /\ Live(n)
                               /\ \A v \in Workers : worker[v].msg = n => ~ AckBound(v)
        BY Zenon, <3>1 DEF Kept
      <4>2. Live(n)'
        BY Zenon, <1>0, <2>1, <4>1 DEF Live
      <4>3. \A v \in Workers : worker'[v].msg = n => ~ AckBound(v)'
        BY Zenon, <2>2, <4>1 DEF AckBound
      <4>4. QED
        BY Zenon, <2>1, <4>1, <4>2, <4>3 DEF Kept
    <3>2. CASE GivenUp(t)
      BY Zenon, <1>0, <2>1, <3>2 DEF GivenUp
    <3>3. QED
      BY Zenon, <2>1, <2>5, <3>1, <3>2 DEF KInv, RunningKept
  <2>6. QED
    BY Zenon, <2>4, <2>5 DEF KInv, RunningKept
<1>8. QED
  BY ZenonT(60), <1>1, <1>2, <1>3, <1>4, <1>5, <1>6, <1>7, QuietKInv, SettlingKInv
     DEF WorkerStep, WorkerFault, Admission, Execution

LEMMA BrokerKInv ==
  ASSUME TInv, KInv, LeasesKept, NEW m \in MsgIds, Expire(m) \/ GiveUp(m)
  PROVE  KInv'
<1>0. queue \in [MsgIds -> {"unused", "ready", "inflight", "acked", "dropped"}]
  BY Zenon DEF TInv, TypeOK, QueueTypeOK
<1>1. /\ queue[m] \in {"ready", "inflight"}
      /\ \/ queue' = [queue EXCEPT ![m] = "ready"]
         \/ queue' = [queue EXCEPT ![m] = "dropped"]
      /\ UNCHANGED <<status, msgTask, worker, proc>>
  BY DEF Expire, GiveUp, storeVars, ingestorVars
<1>2. \A w \in Workers : worker[w].msg # m
  <2>1. CASE Expire(m)
    BY ZenonT(60), <2>1, NoMsgAssumption DEF Expire, Fault, LeasesKept, Renewed, KInv, Leased, Handle, NoShared
  <2>2. CASE GiveUp(m)
    BY Zenon, <2>2, NoMsgAssumption DEF GiveUp, KInv, Leased, Handle, NoShared
  <2>3. QED
    BY Zenon, <2>1, <2>2
<1>3. Leased'
  <2>1. \A w \in Workers : worker[w].msg # NoMsg =>
          worker[w].msg \in MsgIds /\ queue'[worker[w].msg] = queue[worker[w].msg]
    BY ZenonT(60), <1>0, <1>1, <1>2 DEF TInv, TypeOK, IngestorTypeOK, WorkRecord
  <2>2. ASSUME NEW v \in Workers PROVE Handle(v)'
    BY Zenon, <1>1, <2>1, HandleStays DEF KInv, Leased
  <2>3. QED
    BY Zenon, <1>1, <2>2, LeasedStep DEF KInv, Leased
<1>4. ASSUME NEW t \in TaskIds, status'[t] = "RUNNING" PROVE Kept(t)' \/ GivenUp(t)'
  <2>1. CASE Kept(t)
    <3>1. PICK n \in MsgIds : /\ msgTask[n] = t /\ Live(n)
                             /\ \A v \in Workers : worker[v].msg = n => ~ AckBound(v)
      BY Zenon, <2>1 DEF Kept
    <3>2. Live(n)' \/ queue'[n] = "dropped"
      BY Zenon, <1>0, <1>1, <3>1 DEF Live
    <3>3. QED
      <4>1. msgTask'[n] = t /\ \A v \in Workers : worker'[v].msg = n => ~ AckBound(v)'
        BY Zenon, <1>1, <3>1 DEF AckBound
      <4>2. QED
        BY Zenon, <3>2, <4>1 DEF Kept, GivenUp
  <2>2. CASE GivenUp(t)
    <3>1. PICK n \in MsgIds : msgTask[n] = t /\ queue[n] = "dropped"
      BY Zenon, <2>2 DEF GivenUp
    <3>2. queue'[n] = "dropped"
      BY Zenon, <1>0, <1>1, <3>1
    <3>3. QED
      BY Zenon, <1>1, <3>1, <3>2 DEF GivenUp
  <2>3. QED
    BY Zenon, <1>1, <1>4, <2>1, <2>2 DEF KInv, RunningKept
<1>5. QED
  BY Zenon, <1>3, <1>4 DEF KInv, RunningKept

LEMMA LifetimeKInv ==
  ASSUME TInv, KInv, LeasesKept, NEW p \in Procs, Lifetime(p)
  PROVE  KInv'
<1>0. proc \in [Procs -> {"up", "draining", "abandoned", "down"}] /\ proc[p] \in {"up", "down"}
  BY Zenon DEF TInv, TypeOK, IngestorTypeOK, KInv, Leased, Handle, NoShared
<1>1. UNCHANGED <<status, queue, msgTask>>
  BY Zenon DEF Lifetime, Crash, Exit, Shutdown, AbandonLeases, Start, GoDown, storeVars, queueVars
<1>2. CASE Crash(p)
  <2>1. /\ proc' = [proc EXCEPT ![p] = "down"]
        /\ \A w \in Workers : worker'[w] = IF ProcOf[w] = p THEN NoWork ELSE worker[w]
    BY Zenon, <1>2 DEF Crash, GoDown
  <2>2. Leased'
    <3>1. \A q \in Procs : proc'[q] \in {"up", "down"} /\ (q # p => proc'[q] = proc[q])
      BY Zenon, <1>0, <2>1 DEF KInv, Leased, Handle, NoShared
    <3>2. \A w \in Workers : \/ ProcOf[w] # p /\ worker'[w] = worker[w]
                             \/ worker'[w].pc = "idle" /\ worker'[w].msg = NoMsg
      BY <2>1, NoWorkType
    <3>3. \A w \in Workers : ProcOf[w] \in Procs
      BY Zenon, ProcAssumption
    <3>4. ASSUME NEW v \in Workers PROVE Handle(v)' /\ worker'[v].msg \in {worker[v].msg, NoMsg}
      <4>1. CASE ProcOf[v] # p /\ worker'[v] = worker[v]
        BY Zenon, <1>1, <3>1, <3>3, <4>1, HandleStays DEF KInv, Leased
      <4>2. CASE worker'[v].pc = "idle" /\ worker'[v].msg = NoMsg
        BY Zenon, <4>2 DEF Handle
      <4>3. QED
        BY Zenon, <3>2, <4>1, <4>2
    <3>5. QED
      BY Zenon, <3>1, <3>4, LeasedStep DEF KInv
  <2>3. \A w \in Workers : worker'[w].msg # NoMsg => worker'[w] = worker[w]
    BY Zenon, <2>1, NoWorkType
  <2>4. ASSUME NEW t \in TaskIds, status'[t] = "RUNNING" PROVE Kept(t)' \/ GivenUp(t)'
    <3>1. CASE Kept(t)
      BY <1>1, <2>3, <3>1, NoMsgAssumption DEF Kept, Live, AckBound
    <3>2. CASE GivenUp(t)
      BY Zenon, <1>1, <3>2 DEF GivenUp
    <3>3. QED
      BY ZenonT(60), <1>1, <2>4, <3>1, <3>2 DEF KInv, RunningKept
  <2>5. QED
    BY Zenon, <2>2, <2>4 DEF KInv, RunningKept
<1>3. CASE Start(p)
  <2>1. proc' = [proc EXCEPT ![p] = "up"] /\ UNCHANGED worker
    BY Zenon, <1>3 DEF Start
  <2>2. Leased'
    <3>1. \A q \in Procs : proc'[q] \in {"up", "down"} /\ (proc[q] = "up" => proc'[q] = "up")
      BY Zenon, <1>0, <2>1 DEF KInv, Leased
    <3>2. ASSUME NEW v \in Workers PROVE Handle(v)'
      BY ZenonT(60), <1>1, <2>1, <3>1, ProcAssumption DEF KInv, Leased, Handle
    <3>3. QED
      BY Zenon, <2>1, <3>1, <3>2, LeasedStep DEF KInv
  <2>3. QED
    <3>1. RunningKept'
      BY <1>1, <2>1 DEF KInv, RunningKept, Kept, GivenUp, Live, AckBound
    <3>2. QED
      BY Zenon, <2>2, <3>1 DEF KInv
<1>4. QED
  BY Zenon, <1>0, <1>2, <1>3 DEF Lifetime, Exit, Shutdown, AbandonLeases, Fault, LeasesKept

LEMMA NextKInv ==
  ASSUME LeasesKept
  PROVE  TInv /\ KInv /\ [Next]_vars => KInv'
<1> SUFFICES ASSUME TInv, KInv, [Next]_vars PROVE KInv'
  BY Zenon
<1>1. CASE UNCHANGED vars
  <2>1. UNCHANGED <<status, queue, msgTask, worker, proc>>
    BY Zenon, <1>1 DEF vars, storeVars, queueVars, ingestorVars
  <2>2. Leased'
    BY Zenon, <2>1 DEF KInv, Leased, Handle, NoShared
  <2>3. ASSUME NEW t \in TaskIds PROVE Kept(t)' = Kept(t) /\ GivenUp(t)' = GivenUp(t)
    BY <2>1 DEF Kept, GivenUp, Live, AckBound
  <2>4. QED
    BY Zenon, <2>1, <2>2, <2>3 DEF KInv, RunningKept
<1>2. QED
  BY Zenon, <1>1, ServiceKInv, WorkerKInv, BrokerKInv, LifetimeKInv DEF Next

\* As long as leases are kept, a RUNNING task always has a message that the broker
\* will deliver again if the worker dies, unless the broker gave one up: through
\* crashes, failing statements, panics, ambiguous publishes, and a user stopping
\* and retrying the task at any moment (settleMessage, ackHandle).
THEOREM RunningKeepsMessage ==
  ASSUME LeasesKept
  PROVE  Spec => []RunningHasMessage
<1>1. Init => KInv
  <2>1. Init => Leased
    <3> SUFFICES ASSUME Init PROVE Leased
      BY Zenon
    <3>1. /\ \A p \in Procs : proc[p] = "up"
          /\ \A w \in Workers : worker[w].pc = "idle" /\ worker[w].msg = NoMsg
      BY Zenon, NoWorkType DEF Init, IngestorInit
    <3>2. QED
      BY <3>1 DEF Leased, Handle, NoShared
  <2>2. Init => RunningKept
    BY Zenon DEF Init, StoreInit, RunningKept
  <2>3. QED
    BY Zenon, <2>1, <2>2 DEF KInv
<1>2. KInv => RunningHasMessage
  BY DEF KInv, RunningKept, Kept, RunningHasMessage, HasMessage
<1>3. QED
  BY <1>1, <1>2, NextKInv, TInvHolds, PTL DEF Spec
=============================================================================
