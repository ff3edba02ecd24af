------------------------ MODULE IngestionTypeProofs ------------------------
(***************************************************************************)
(* Type correctness of the ingestion subsystem, for any number of tasks,   *)
(* runs, messages, clients, workers and processes; and the frame lemmas    *)
(* the other proofs cite.                                                  *)
(***************************************************************************)
EXTENDS IngestionSystem, TLAPS

-----------------------------------------------------------------------------
(* What the control operators do to a caller's and to a worker's record *)

\* Only caller c moves: to pc, with task t and origin orig.
CallMoves(c, pc, t, orig) ==
  /\ call' \in [Callers -> CallRecord]
  /\ \A d \in Callers : d # c => call'[d] = call[d]
  /\ call'[c].pc = pc
  /\ call'[c].t = t
  /\ call'[c].orig = orig

\* Only worker w moves: to pc, with message m and verdict ok, and the task it has.
WorkerMoves(w, pc, m, ok) ==
  /\ worker' \in [Workers -> WorkRecord]
  /\ \A v \in Workers : v # w => worker'[v] = worker[v]
  /\ worker'[w].pc = pc
  /\ worker'[w].t = worker[w].t
  /\ worker'[w].msg = m
  /\ worker'[w].ok = ok

LEMMA GotoFrame ==
  ASSUME call \in [Callers -> CallRecord], NEW c \in Callers, NEW pc \in CallPC, Goto(c, pc)
  PROVE  CallMoves(c, pc, call[c].t, call[c].orig)
BY DEF Goto, CallRecord, CallMoves

LEMMA ReturnFrame ==
  ASSUME call \in [Callers -> CallRecord], NEW c \in Callers, Return(c)
  PROVE  CallMoves(c, "idle", NoTaskId, "none")
BY RunBound DEF CallMoves, Return, CallRecord, NoCall, CallPC, Origins, Statuses

LEMMA EnterFrame ==
  ASSUME call \in [Callers -> CallRecord], NEW c \in Callers, NEW pc \in CallPC,
         NEW t \in TaskIds, NEW r \in 0 .. MaxRuns, NEW orig \in Origins, Enter(c, pc, t, r, orig)
  PROVE  CallMoves(c, pc, t, orig)
BY ZenonT(60) DEF Enter, CallRecord, CallMoves

LEMMA StepFrame ==
  ASSUME worker \in [Workers -> WorkRecord], NEW w \in Workers,
         NEW pc \in AdmissionPC \cup ExecutionPC, Step(w, pc)
  PROVE  WorkerMoves(w, pc, worker[w].msg, worker[w].ok)
BY DEF WorkerMoves, Step, WorkRecord

LEMMA CaptureFrame ==
  ASSUME worker \in [Workers -> WorkRecord], bound \in [TaskIds -> 0 .. MaxRuns], NEW w \in Workers,
         worker[w].t \in TaskIds, NEW pc \in AdmissionPC \cup ExecutionPC, Capture(w, pc)
  PROVE  WorkerMoves(w, pc, worker[w].msg, worker[w].ok)
BY ZenonT(60) DEF WorkerMoves, Capture, WorkRecord

LEMMA ReturnsFrame ==
  ASSUME worker \in [Workers -> WorkRecord], NEW w \in Workers, NEW ok \in BOOLEAN, Returns(w, ok)
  PROVE  WorkerMoves(w, "settle", worker[w].msg, ok)
BY ZenonT(60) DEF WorkerMoves, Returns, WorkRecord, ExecutionPC

LEMMA ClosesFrame ==
  ASSUME worker \in [Workers -> WorkRecord], NEW w \in Workers, NEW fin \in ClosedRow,
         NEW ok \in BOOLEAN, Closes(w, fin, ok)
  PROVE  WorkerMoves(w, "close", worker[w].msg, ok)
BY ZenonT(60) DEF WorkerMoves, Closes, WorkRecord, ExecutionPC

LEMMA StopsFrame ==
  ASSUME worker \in [Workers -> WorkRecord], NEW w \in Workers, NEW fin \in ClosedRow, Stops(w, fin)
  PROVE  WorkerMoves(w, "stop", worker[w].msg, worker[w].ok)
BY ZenonT(60) DEF WorkerMoves, Stops, WorkRecord, ExecutionPC

LEMMA LetGoFrame ==
  ASSUME worker \in [Workers -> WorkRecord], NEW w \in Workers, LetGo(w)
  PROVE  WorkerMoves(w, "release", NoMsg, worker[w].ok)
BY ZenonT(60) DEF WorkerMoves, LetGo, WorkRecord, ExecutionPC

LEMMA NoWorkType == NoWork \in WorkRecord /\ NoWork.pc = "idle" /\ NoWork.msg = NoMsg
BY RunBound DEF NoWork, WorkRecord, ClosedRow

LEMMA IdlesFrame ==
  ASSUME worker \in [Workers -> WorkRecord], NEW w \in Workers, Idles(w)
  PROVE  /\ worker' \in [Workers -> WorkRecord]
         /\ \A v \in Workers : v # w => worker'[v] = worker[v]
         /\ worker'[w].pc = "idle"
         /\ worker'[w].msg = NoMsg
BY NoWorkType DEF Idles

LEMMA PullFrame ==
  ASSUME worker \in [Workers -> WorkRecord], msgTask \in [MsgIds -> TaskIds \cup {NoTaskId}],
         NEW w \in Workers, NEW m \in MsgIds, Pull(w, m)
  PROVE  /\ worker' \in [Workers -> WorkRecord]
         /\ \A v \in Workers : v # w => worker'[v] = worker[v]
         /\ worker'[w].pc = "begin"
         /\ worker'[w].t = msgTask[m]
         /\ worker'[w].msg = m
BY ZenonT(60) DEF Pull, WorkRecord, AdmissionPC

\* A ledger write leaves the ledger well typed.
LEMMA AdvanceType ==
  ASSUME row \in [Runs -> RowStatuses], faults \in 0 .. MaxFaults, NEW r, NEW from,
         NEW to \in RowStatuses, AdvanceLog(r, from, to)
  PROVE  row' \in [Runs -> RowStatuses] /\ faults' \in 0 .. MaxFaults
BY FaultBound DEF AdvanceLog, Advanced, Fault

LEMMA BeginFrame ==
  ASSUME call \in [Callers -> CallRecord], NEW c \in Callers, NEW pc \in CallPC,
         NEW t \in TaskIds \cup {NoTaskId}, NEW orig \in Origins, NEW lock \in BOOLEAN,
         call' = [call EXCEPT ![c] = [@ EXCEPT !.pc = pc, !.t = t, !.orig = orig, !.lock = lock]]
  PROVE  CallMoves(c, pc, t, orig)
BY ZenonT(60) DEF CallRecord, CallMoves

\* Starting a cleanup operation.
LEMMA CleanupFrame ==
  ASSUME TypeOK, NEW c \in Callers, NEW op \in {"remove", "rerun", "wipe"},
         \/ \E t \in TaskIds : ReadUnstarted(c, t, op) \/ SkipSupersede(c, t, op)
         \/ CleanupWithoutTask(c, op)
  PROVE  /\ call' \in [Callers -> CallRecord]
         /\ \A d \in Callers : d # c => call'[d] = call[d]
         /\ call'[c].pc \in {"supersede", "delete", "clear"}
         /\ call'[c].pc # "clear" => call'[c].t \in TaskIds
<1> USE DEF TypeOK, StoreTypeOK, ServiceTypeOK, CallPC, Origins
<1>1. ASSUME NEW t \in TaskIds, ReadUnstarted(c, t, op)
      PROVE  /\ call' \in [Callers -> CallRecord]
             /\ \A d \in Callers : d # c => call'[d] = call[d]
             /\ call'[c].pc = "supersede"
             /\ call'[c].t \in TaskIds
  BY <1>1 DEF ReadUnstarted, CallRecord
<1>2. ASSUME NEW t \in TaskIds, SkipSupersede(c, t, op)
      PROVE  /\ call' \in [Callers -> CallRecord]
             /\ \A d \in Callers : d # c => call'[d] = call[d]
             /\ call'[c].pc \in {"delete", "clear"}
             /\ call'[c].t \in TaskIds
  <2> DEFINE b == (op = "rerun")
  <2>1. b \in BOOLEAN /\ CleanupNext(op) \in {"delete", "clear"}
    BY DEF CleanupNext
  <2>2. call' = [call EXCEPT ![c] = [@ EXCEPT !.pc = CleanupNext(op), !.t = t, !.orig = op, !.lock = b]]
    BY Zenon, <1>2 DEF SkipSupersede
  <2> HIDE DEF b
  <2>3. CleanupNext(op) \in CallPC /\ op \in Origins
    BY Zenon, <2>1
  <2>4. CallMoves(c, CleanupNext(op), t, op)
    BY ZenonT(60), <2>1, <2>2, <2>3, BeginFrame
  <2>5. QED
    BY <2>1, <2>4 DEF CallMoves
<1>3. CASE CleanupWithoutTask(c, op)
  <2> DEFINE b == (op = "rerun")
  <2>1. b \in BOOLEAN
    OBVIOUS
  <2>2. call' = [call EXCEPT ![c] = [@ EXCEPT !.pc = "clear", !.orig = op, !.lock = b]]
    BY <1>3 DEF CleanupWithoutTask
  <2> HIDE DEF b
  <2>3. "clear" \in CallPC /\ op \in Origins
    OBVIOUS
  <2> HIDE DEF CallPC, Origins
  <2>4. QED
    BY ZenonT(60), <2>1, <2>2, <2>3 DEF CallRecord
<1>4. QED
  BY <1>1, <1>2, <1>3

-----------------------------------------------------------------------------
(* Type correctness *)

\* Every operation that is under way has its task, every message in the queue too.
WellFormed ==
  /\ \A c \in Callers :
       /\ call[c].pc \notin {"idle", "create", "clear"} => call[c].t \in TaskIds
       /\ At(c, "rollback") => call[c].orig \in {"new", "FAILED", "STOPPED"}
  /\ \A w \in Workers : worker[w].pc # "idle" => worker[w].t \in TaskIds
  /\ \A m \in MsgIds : queue[m] # "unused" => msgTask[m] \in TaskIds

\* The inductive invariant behind TypeCorrect.
TInv == TypeOK /\ WellFormed

LEMMA InitTInv == Init => TInv
BY RunBound, FaultBound
   DEF Init, StoreInit, QueueInit, ServiceInit, IngestorInit, TInv, TypeOK, WellFormed,
       StoreTypeOK, QueueTypeOK, ServiceTypeOK, IngestorTypeOK, NoCall, NoWork, CallRecord,
       WorkRecord, CallPC, Origins, Statuses, RowStatuses, ClosedRow, At

\* A caller moves on with a task it has: what it wrote only has to be well typed.
LEMMA CallerTInv ==
  ASSUME TInv, NEW c \in Callers, NEW pc, NEW t, NEW orig, CallMoves(c, pc, t, orig),
         pc \notin {"idle", "create", "clear"} => t \in TaskIds,
         pc = "rollback" => orig \in {"new", "FAILED", "STOPPED"},
         StoreTypeOK', QueueTypeOK', faults' \in 0 .. MaxFaults, asked' \in SUBSET Runs,
         \A m \in MsgIds : queue'[m] # "unused" => msgTask'[m] \in TaskIds,
         UNCHANGED ingestorVars
  PROVE  TInv'
<1>1. TypeOK'
  BY Zenon DEF TInv, TypeOK, ServiceTypeOK, IngestorTypeOK, CallMoves, ingestorVars
<1>2. WellFormed'
  BY Zenon DEF TInv, WellFormed, CallMoves, At, ingestorVars
<1>3. QED
  BY Zenon, <1>1, <1>2 DEF TInv

LEMMA CreateTInv ==
  ASSUME TInv, NEW c \in Callers, CreateNext(c)
  PROVE  TInv'
<1>a. /\ "clearRun" \in CallPC /\ "ensure" \in CallPC /\ "rollback" \in CallPC
      /\ "publish" \in CallPC /\ "settle" \in CallPC /\ "failRow" \in CallPC
      /\ "mark" \in CallPC /\ "markRow" \in CallPC
  BY DEF CallPC
<1>b. /\ "new" \in Origins /\ "created" \in Origins
      /\ "FAILED" \in Origins /\ "STOPPED" \in Origins
  BY DEF Origins
<1>c. /\ "CREATED" \in Statuses /\ "SCHEDULED" \in Statuses /\ "FAILED" \in Statuses
      /\ "STOPPED" \in Statuses /\ "DELETED" \in Statuses
  BY DEF Statuses, Present, Active, Unstarted, Terminal
<1>d. 0 \in 0 .. MaxRuns
  BY RunBound
<1>f. ASSUME NEW k, Fault(k) PROVE faults' \in 0 .. MaxFaults
  BY <1>f, FaultBound DEF Fault, TInv, TypeOK, ServiceTypeOK
<1> USE RunBound, FaultBound
    DEF TInv, TypeOK, WellFormed, StoreTypeOK, QueueTypeOK, ServiceTypeOK, IngestorTypeOK, At,
        storeVars, queueVars, ingestorVars
<1>1. ASSUME NEW t \in TaskIds, CreateNew(c, t) PROVE TInv'
  <2>1. Enter(c, "ensure", t, 0, "new") /\ status' \in [TaskIds -> Statuses]
    BY Zenon, <1>1, <1>c DEF CreateNew, CreateTask
  <2>2. CallMoves(c, "ensure", t, "new")
    BY Zenon, <1>a, <1>b, <1>d, <2>1, EnterFrame
  <2>3. QED
    BY Zenon, <1>1, <2>1, <2>2 DEF CreateNew, CallMoves
<1>2. ASSUME NEW t \in TaskIds, CreateAgain(c, t) PROVE TInv'
  <2>1. CallMoves(c, "ensure", t, "created")
    BY Zenon, <1>2, <1>a, <1>b, <1>d, EnterFrame DEF CreateAgain
  <2>2. QED
    BY Zenon, <1>2, <2>1 DEF CreateAgain, CallMoves
<1>3. ASSUME NEW t \in TaskIds, CreateRetry(c, t) PROVE TInv'
  <2>1. Enter(c, "clearRun", t, 0, status[t]) /\ status[t] \in Origins /\ status' \in [TaskIds -> Statuses]
    BY Zenon, <1>3, <1>b, <1>c DEF CreateRetry, Transition
  <2>2. CallMoves(c, "clearRun", t, status[t])
    BY Zenon, <1>a, <1>d, <2>1, EnterFrame
  <2>3. QED
    BY ZenonT(60), <1>3, <2>1, <2>2 DEF CreateRetry, CallMoves
<1>4. CASE CreateRefused(c)
  BY ZenonT(60), <1>4, ReturnFrame DEF CreateRefused, CallMoves
<1>5. CASE ClearRun(c)
  BY <1>5, <1>a, GotoFrame DEF ClearRun, CallMoves
<1>6. CASE EnsureReuse(c)
  <2>1. call[c].t \in TaskIds /\ bound[call[c].t] \in 0 .. MaxRuns /\ call[c].orig \in Origins
    BY Zenon, <1>6 DEF EnsureReuse, CallRecord
  <2>2. CallMoves(c, "publish", call[c].t, call[c].orig)
    BY Zenon, <1>6, <1>a, <2>1, EnterFrame DEF EnsureReuse
  <2>3. QED
    BY <1>6, <2>1, <2>2 DEF EnsureReuse, CallMoves
<1>7. CASE EnsureNew(c)
  <2>1. call[c].t \in TaskIds /\ call[c].orig \in Origins
    BY Zenon, <1>7 DEF EnsureNew, CallRecord
  <2>2. NextRun \in Runs /\ NextRun \in 0 .. MaxRuns
    BY <1>7 DEF EnsureNew, Runs
  <2>3. CallMoves(c, "publish", call[c].t, call[c].orig)
    BY Zenon, <1>7, <1>a, <2>1, <2>2, EnterFrame DEF EnsureNew
  <2>4. row' \in [Runs -> RowStatuses]
    BY Zenon, <1>7 DEF EnsureNew, RowStatuses, OpenRow
  <2>5. QED
    BY ZenonT(60), <1>7, <2>1, <2>2, <2>3, <2>4 DEF EnsureNew, CallMoves
<1>8. CASE EnsureError(c)
  <2>1. faults' \in 0 .. MaxFaults
    BY Zenon, <1>8, <1>f DEF EnsureError
  <2>2. CASE call[c].orig \in {"new", "FAILED", "STOPPED"}
    <3>1. CallMoves(c, "rollback", call[c].t, call[c].orig)
      BY Zenon, <1>8, <1>a, <2>2, GotoFrame DEF EnsureError
    <3>2. QED
      BY Zenon, <1>8, <2>1, <2>2, <3>1 DEF EnsureError, CallMoves
  <2>3. CASE call[c].orig \notin {"new", "FAILED", "STOPPED"}
    BY ZenonT(60), <1>8, <2>1, <2>3, ReturnFrame DEF EnsureError, CallMoves
  <2>4. QED
    BY Zenon, <2>2, <2>3
<1>9. CASE Rollback(c)
  BY ZenonT(60), <1>9, <1>c, ReturnFrame DEF Rollback, CallMoves
<1>10. ASSUME NEW m \in MsgIds, Publish(c, m) PROVE TInv'
  <2>1. CallMoves(c, "mark", call[c].t, call[c].orig) /\ call[c].t \in TaskIds
    BY Zenon, <1>10, <1>a, GotoFrame DEF Publish
  <2>2. /\ queue' \in [MsgIds -> {"unused", "ready", "inflight", "acked", "dropped"}]
        /\ msgTask' \in [MsgIds -> TaskIds \cup {NoTaskId}]
        /\ \A n \in MsgIds : queue'[n] # "unused" => msgTask'[n] \in TaskIds
    BY Zenon, <1>10, <2>1 DEF Publish, PublishTask
  <2>3. QED
    BY Zenon, <1>10, <2>1, <2>2, CallerTInv DEF Publish
<1>11. ASSUME NEW m \in MsgIds, PublishAmbiguous(c, m) PROVE TInv'
  <2>1. CallMoves(c, "settle", call[c].t, call[c].orig) /\ call[c].t \in TaskIds
    BY Zenon, <1>11, <1>a, GotoFrame DEF PublishAmbiguous
  <2>2. /\ queue' \in [MsgIds -> {"unused", "ready", "inflight", "acked", "dropped"}]
        /\ msgTask' \in [MsgIds -> TaskIds \cup {NoTaskId}]
        /\ \A n \in MsgIds : queue'[n] # "unused" => msgTask'[n] \in TaskIds
    BY Zenon, <1>11, <2>1 DEF PublishAmbiguous, PublishTask
  <2>3. faults' \in 0 .. MaxFaults
    BY Zenon, <1>11, <1>f DEF PublishAmbiguous
  <2>4. QED
    BY Zenon, <1>11, <2>1, <2>2, <2>3, CallerTInv DEF PublishAmbiguous
<1>12. CASE PublishError(c)
  <2>1. CallMoves(c, "settle", call[c].t, call[c].orig) /\ call[c].t \in TaskIds
    BY Zenon, <1>12, <1>a, GotoFrame DEF PublishError
  <2>2. faults' \in 0 .. MaxFaults
    BY Zenon, <1>12, <1>f DEF PublishError
  <2>3. QED
    BY Zenon, <1>12, <2>1, <2>2, CallerTInv DEF PublishError
<1>13. CASE SettlePublishFailure(c)
  <2>1. \/ CallMoves(c, "failRow", call[c].t, call[c].orig) /\ call[c].t \in TaskIds
        \/ CallMoves(c, "idle", NoTaskId, "none")
    BY Zenon, <1>13, <1>a, GotoFrame, ReturnFrame DEF SettlePublishFailure
  <2>2. status' \in [TaskIds -> Statuses]
    BY Zenon, <1>13, <1>c DEF SettlePublishFailure, AfterMarkFailed
  <2>3. QED
    BY Zenon, <1>13, <2>1, <2>2, CallerTInv DEF SettlePublishFailure
<1>14. CASE FailRow(c)
  BY ZenonT(60), <1>14, AdvanceType, ReturnFrame DEF FailRow, RowStatuses, ClosedRow, CallMoves
<1>15. CASE MarkScheduled(c)
  <2>1. \/ CallMoves(c, "markRow", call[c].t, call[c].orig) /\ call[c].t \in TaskIds
        \/ CallMoves(c, "idle", NoTaskId, "none")
    BY Zenon, <1>15, <1>a, GotoFrame, ReturnFrame DEF MarkScheduled
  <2>2. status' \in [TaskIds -> Statuses]
    BY ZenonT(60), <1>15, <1>c DEF MarkScheduled, Transition
  <2>3. QED
    BY Zenon, <1>15, <2>1, <2>2, CallerTInv DEF MarkScheduled
<1>16. CASE MarkRow(c)
  BY ZenonT(60), <1>16, AdvanceType, ReturnFrame DEF MarkRow, RowStatuses, OpenRow, CallMoves
<1>17. QED
  BY ZenonT(60), <1>1, <1>2, <1>3, <1>4, <1>5, <1>6, <1>7, <1>8, <1>9, <1>10, <1>11, <1>12, <1>13,
     <1>14, <1>15, <1>16 DEF CreateNext

LEMMA StopTInv ==
  ASSUME TInv, NEW c \in Callers, StopNext(c)
  PROVE  TInv'
<1>a. "cancelRow" \in CallPC /\ "setFlag" \in CallPC /\ "none" \in Origins /\ 0 \in 0 .. MaxRuns
  BY RunBound DEF CallPC, Origins
<1>b. "STOPPED" \in Statuses /\ "STOPPING" \in Statuses
  BY Zenon DEF Statuses, Present, Active, InProgress, Terminal
<1> USE RunBound, FaultBound
    DEF TInv, TypeOK, WellFormed, StoreTypeOK, QueueTypeOK, ServiceTypeOK, IngestorTypeOK, At,
        storeVars, queueVars, ingestorVars
<1>1. ASSUME NEW t \in TaskIds, StopQueued(c, t) PROVE TInv'
  <2>1. CallMoves(c, "cancelRow", t, "none")
    BY Zenon, <1>1, <1>a, EnterFrame DEF StopQueued
  <2>2. QED
    BY Zenon, <1>1, <1>b, <2>1 DEF StopQueued, Transition, CallMoves
<1>2. ASSUME NEW t \in TaskIds, StopRunning(c, t) PROVE TInv'
  <2>1. CallMoves(c, "setFlag", t, "none")
    BY Zenon, <1>2, <1>a, EnterFrame DEF StopRunning
  <2>2. QED
    BY ZenonT(60), <1>2, <1>b, <2>1 DEF StopRunning, Transition, CallMoves
<1>3. CASE CancelRow(c)
  BY ZenonT(60), <1>3, AdvanceType, ReturnFrame DEF CancelRow, RowStatuses, ClosedRow, CallMoves
<1>4. CASE SetFlag(c)
  BY ZenonT(60), <1>4, ReturnFrame DEF SetFlag, CallMoves
<1>5. QED
  BY Zenon, <1>1, <1>2, <1>3, <1>4 DEF StopNext

LEMMA CleanupTInv ==
  ASSUME TInv, NEW c \in Callers, CleanupStep(c)
  PROVE  TInv'
<1>a. "STOPPED" \in Statuses /\ "DELETED" \in Statuses
  BY DEF Statuses, Present, Terminal
<1>b. /\ "create" \in CallPC /\ "delete" \in CallPC /\ "clear" \in CallPC
      /\ "supersedeRow" \in CallPC
  BY Zenon DEF CallPC
<1> USE RunBound, FaultBound
    DEF TInv, TypeOK, WellFormed, StoreTypeOK, QueueTypeOK, ServiceTypeOK, IngestorTypeOK, At,
        storeVars, queueVars, ingestorVars
<1>1. ASSUME NEW op \in {"remove", "rerun", "wipe"},
             \/ \E t \in TaskIds : ReadUnstarted(c, t, op) \/ SkipSupersede(c, t, op)
             \/ CleanupWithoutTask(c, op)
      PROVE  TInv'
  <2>1. /\ call' \in [Callers -> CallRecord]
        /\ \A d \in Callers : d # c => call'[d] = call[d]
        /\ call'[c].pc \in {"supersede", "delete", "clear"}
        /\ call'[c].pc # "clear" => call'[c].t \in TaskIds
    BY Zenon, <1>1, CleanupFrame
  <2>2. UNCHANGED <<storeVars, queueVars, faults, asked, ingestorVars>>
    BY Zenon, <1>1 DEF ReadUnstarted, SkipSupersede, CleanupWithoutTask
  <2>3. QED
    BY Zenon, <2>1, <2>2
<1>2. CASE Supersede(c)
  <2>1. \/ CallMoves(c, "supersedeRow", call[c].t, call[c].orig) /\ call[c].t \in TaskIds
        \/ CallMoves(c, "idle", NoTaskId, "none")
    BY Zenon, <1>2, <1>b, GotoFrame, ReturnFrame DEF Supersede
  <2>2. status' \in [TaskIds -> Statuses] /\ asked' \in SUBSET Runs
    BY ZenonT(60), <1>2, <1>a DEF Supersede, Transition
  <2>3. QED
    BY Zenon, <1>2, <2>1, <2>2, CallerTInv DEF Supersede
<1>3. CASE SupersedeRow(c)
  <2>1. /\ call[c].t \in TaskIds
        /\ \/ CallMoves(c, "delete", call[c].t, call[c].orig)
           \/ CallMoves(c, "clear", call[c].t, call[c].orig)
    BY Zenon, <1>3, <1>b, GotoFrame DEF SupersedeRow, CleanupNext
  <2>2. row' \in [Runs -> RowStatuses] /\ faults' \in 0 .. MaxFaults
    BY Zenon, <1>3, AdvanceType DEF SupersedeRow, RowStatuses, ClosedRow
  <2>3. QED
    BY Zenon, <1>3, <2>1, <2>2, CallerTInv DEF SupersedeRow
<1>4. CASE Delete(c)
  <2>1. CallMoves(c, "idle", NoTaskId, "none")
    BY Zenon, <1>4, ReturnFrame DEF Delete
  <2>2. status' \in [TaskIds -> Statuses]
    BY Zenon, <1>4, <1>a DEF Delete, DeleteTask
  <2>3. QED
    BY Zenon, <1>4, <2>1, <2>2, CallerTInv DEF Delete
<1>5. CASE Clear(c)
  <2>1. CallMoves(c, "create", call[c].t, call[c].orig) \/ CallMoves(c, "idle", NoTaskId, "none")
    BY Zenon, <1>5, <1>b, GotoFrame, ReturnFrame DEF Clear
  <2>2. status' \in [TaskIds -> Statuses]
    BY ZenonT(60), <1>5, <1>a DEF Clear, DeleteTask
  <2>3. QED
    BY ZenonT(60), <1>5, <2>1, <2>2 DEF Clear, CallMoves
<1>6. QED
  BY Zenon, <1>1, <1>2, <1>3, <1>4, <1>5 DEF CleanupStep

LEMMA AbortTInv ==
  ASSUME TInv, NEW c \in Callers, Abort(c)
  PROVE  TInv'
<1>1. CallMoves(c, "idle", NoTaskId, "none")
  BY ReturnFrame DEF Abort, TInv, TypeOK, ServiceTypeOK
<1>2. faults' \in 0 .. MaxFaults
  BY FaultBound DEF Abort, Fault, TInv, TypeOK, ServiceTypeOK
<1>3. QED
  BY Zenon, <1>1, <1>2, CallerTInv
     DEF Abort, TInv, TypeOK, WellFormed, StoreTypeOK, QueueTypeOK, ServiceTypeOK, storeVars, queueVars

-----------------------------------------------------------------------------
(* Where each step of a worker leads *)

Same(w, pc) == WorkerMoves(w, pc, worker[w].msg, worker[w].ok)

LEMMA WorkerPCs ==
  /\ \A pc \in {"toRunning", "toStopped", "validate", "ack", "reread", "nack", "cancelRow",
               "reject", "claim", "rejectRow"} : pc \in AdmissionPC \cup ExecutionPC
  /\ \A pc \in {"prepare", "precheck", "clearFlag", "run", "panic", "complete", "fail", "stopFlag",
               "stopMark", "stopQueuedRow", "settle"} : pc \in AdmissionPC \cup ExecutionPC
  /\ \A fin \in {"DONE", "FAIL", "CANCEL"} : fin \in ClosedRow
BY Zenon DEF AdmissionPC, ExecutionPC, ClosedRow

\* Admission: what the message and the verdict are does not change.
LEMMA AdmissionMoves ==
  ASSUME TInv, NEW w \in Workers
  PROVE  /\ Begin(w) => Same(w, "toRunning") \/ Same(w, "toStopped") \/ Same(w, "validate") \/ Same(w, "ack")
         /\ ToRunning(w) => Same(w, "reread") \/ Same(w, "nack") \/ Same(w, "ack")
         /\ Reread(w) => Same(w, "validate") \/ Same(w, "ack")
         /\ ToStopped(w) => Same(w, "cancelRow") \/ Same(w, "nack") \/ Same(w, "ack")
         /\ StoppedRow(w) => Same(w, "ack")
         /\ Validate(w) => Same(w, "nack") \/ Same(w, "reject") \/ Same(w, "claim")
         /\ Reject(w) => Same(w, "rejectRow") \/ Same(w, "nack")
         /\ RejectRow(w) => Same(w, "ack")
         /\ AdmissionError(w) => Same(w, "nack")
         /\ Prepare(w) => Same(w, "precheck")
         /\ ClearStaleFlag(w) => Same(w, "run")
         /\ Panic(w) => Same(w, "panic")
         /\ StopFlag(w) => Same(w, "stopMark")
         /\ StopQueuedRow(w) => Same(w, "stopMark")
         /\ Close(w) => Same(w, "settle")
<1>0. worker \in [Workers -> WorkRecord] /\ bound \in [TaskIds -> 0 .. MaxRuns]
  BY Zenon DEF TInv, TypeOK, IngestorTypeOK, StoreTypeOK
<1>t. worker[w].pc # "idle" => worker[w].t \in TaskIds
  BY Zenon DEF TInv, WellFormed
<1> USE DEF Same
<1>1. Begin(w) => Same(w, "toRunning") \/ Same(w, "toStopped") \/ Same(w, "validate") \/ Same(w, "ack")
  BY Zenon, <1>0, <1>t, WorkerPCs, StepFrame, CaptureFrame DEF Begin, Is
<1>2. ToRunning(w) => Same(w, "reread") \/ Same(w, "nack") \/ Same(w, "ack")
  BY Zenon, <1>0, WorkerPCs, StepFrame DEF ToRunning
<1>3. Reread(w) => Same(w, "validate") \/ Same(w, "ack")
  BY Zenon, <1>0, <1>t, WorkerPCs, StepFrame, CaptureFrame DEF Reread, Is
<1>4. ToStopped(w) => Same(w, "cancelRow") \/ Same(w, "nack") \/ Same(w, "ack")
  BY Zenon, <1>0, WorkerPCs, StepFrame DEF ToStopped
<1>5. StoppedRow(w) => Same(w, "ack")
  BY Zenon, <1>0, WorkerPCs, StepFrame DEF StoppedRow
<1>6. Validate(w) => Same(w, "nack") \/ Same(w, "reject") \/ Same(w, "claim")
  BY Zenon, <1>0, <1>t, WorkerPCs, StepFrame, CaptureFrame DEF Validate, Is
<1>7. Reject(w) => Same(w, "rejectRow") \/ Same(w, "nack")
  BY Zenon, <1>0, WorkerPCs, StepFrame DEF Reject
<1>8. RejectRow(w) => Same(w, "ack")
  BY Zenon, <1>0, WorkerPCs, StepFrame DEF RejectRow
<1>9. AdmissionError(w) => Same(w, "nack")
  BY Zenon, <1>0, WorkerPCs, StepFrame DEF AdmissionError
<1>10. Prepare(w) => Same(w, "precheck")
  BY Zenon, <1>0, WorkerPCs, StepFrame DEF Prepare
<1>11. ClearStaleFlag(w) => Same(w, "run")
  BY Zenon, <1>0, WorkerPCs, StepFrame DEF ClearStaleFlag
<1>12. Panic(w) => Same(w, "panic")
  BY Zenon, <1>0, WorkerPCs, StepFrame DEF Panic
<1>13. StopFlag(w) => Same(w, "stopMark")
  BY Zenon, <1>0, WorkerPCs, StepFrame DEF StopFlag
<1>14. StopQueuedRow(w) => Same(w, "stopMark")
  BY Zenon, <1>0, WorkerPCs, StepFrame DEF StopQueuedRow
<1>15. Close(w) => Same(w, "settle")
  BY Zenon, <1>0, WorkerPCs, StepFrame DEF Close
<1>16. QED
  BY ZenonT(60), <1>1, <1>2, <1>3, <1>4, <1>5, <1>6, <1>7, <1>8, <1>9, <1>10, <1>11, <1>12, <1>13, <1>14, <1>15

Returned(w) == WorkerMoves(w, "settle", worker[w].msg, FALSE)

Closing(w, ok) == WorkerMoves(w, "close", worker[w].msg, ok)

\* Execution: the verdict is set where the body returns or the task is settled.
LEMMA ExecutionMoves ==
  ASSUME TInv, NEW w \in Workers
  PROVE  /\ Precheck(w) => Returned(w) \/ Same(w, "stop") \/ Same(w, "clearFlag")
         /\ RunDocumentTask(w) => Same(w, "complete") \/ Same(w, "fail") \/ Same(w, "stop") \/ Returned(w)
         /\ Complete(w) => Closing(w, TRUE) \/ Same(w, "stop") \/ Returned(w)
         /\ Fail(w) => Closing(w, TRUE) \/ Returned(w)
         /\ PanicHandler(w) => Closing(w, FALSE)
         /\ Stop(w) => Same(w, "stopFlag") \/ Same(w, "stopQueuedRow") \/ Same(w, "stopMark") \/ Returned(w)
         /\ StopMark(w) => Closing(w, TRUE) \/ Returned(w)
         /\ ExecutionError(w) => Returned(w)
         /\ Settle(w) => WorkerMoves(w, "release", NoMsg, worker[w].ok)
         /\ Claim(w) => Same(w, "prepare") \/ Idles(w)
<1>0. worker \in [Workers -> WorkRecord] /\ worker[w].fin \in ClosedRow
  BY Zenon DEF TInv, TypeOK, IngestorTypeOK, WorkRecord
<1> USE DEF Same, Returned, Closing
<1>1. Precheck(w) => Returned(w) \/ Same(w, "stop") \/ Same(w, "clearFlag")
  BY Zenon, <1>0, WorkerPCs, StepFrame, StopsFrame, ReturnsFrame DEF Precheck
<1>2. RunDocumentTask(w) => Same(w, "complete") \/ Same(w, "fail") \/ Same(w, "stop") \/ Returned(w)
  BY Zenon, <1>0, WorkerPCs, StepFrame, StopsFrame, ReturnsFrame DEF RunDocumentTask
<1>3. Complete(w) => Closing(w, TRUE) \/ Same(w, "stop") \/ Returned(w)
  BY Zenon, <1>0, WorkerPCs, ClosesFrame, StopsFrame, ReturnsFrame DEF Complete
<1>4. Fail(w) => Closing(w, TRUE) \/ Returned(w)
  BY Zenon, <1>0, WorkerPCs, ClosesFrame, ReturnsFrame DEF Fail
<1>5. PanicHandler(w) => Closing(w, FALSE)
  BY Zenon, <1>0, WorkerPCs, ClosesFrame DEF PanicHandler
<1>6. Stop(w) => Same(w, "stopFlag") \/ Same(w, "stopQueuedRow") \/ Same(w, "stopMark") \/ Returned(w)
  BY Zenon, <1>0, WorkerPCs, StepFrame, ReturnsFrame DEF Stop
<1>7. StopMark(w) => Closing(w, TRUE) \/ Returned(w)
  BY Zenon, <1>0, WorkerPCs, ClosesFrame, ReturnsFrame DEF StopMark
<1>8. ExecutionError(w) => Returned(w)
  BY Zenon, <1>0, WorkerPCs, ReturnsFrame DEF ExecutionError
<1>9. Settle(w) => WorkerMoves(w, "release", NoMsg, worker[w].ok)
  BY <1>0, WorkerPCs, LetGoFrame DEF Settle
<1>10. Claim(w) => Same(w, "prepare") \/ Idles(w)
  BY Zenon, <1>0, WorkerPCs, StepFrame DEF Claim
<1>11. QED
  BY Zenon, <1>1, <1>2, <1>3, <1>4, <1>5, <1>6, <1>7, <1>8, <1>9, <1>10

\* Every move of a worker that starts from a step of it keeps its task.
LEMMA WorkerTInv ==
  ASSUME TInv, NEW w \in Workers, worker[w].pc # "idle", NEW pc, NEW m, NEW ok,
         WorkerMoves(w, pc, m, ok) \/ Idles(w),
         StoreTypeOK', queue' \in [MsgIds -> {"unused", "ready", "inflight", "acked", "dropped"}],
         \A n \in MsgIds : queue'[n] # "unused" => queue[n] # "unused",
         UNCHANGED <<msgTask, call, asked, proc>>, faults' \in 0 .. MaxFaults,
         claims' \in [Procs -> SUBSET TaskIds], compiled' \in SUBSET Runs
  PROVE  TInv'
<1>1. worker' \in [Workers -> WorkRecord] /\ \A v \in Workers : worker'[v].pc # "idle" => worker'[v].t \in TaskIds
  BY IdlesFrame DEF TInv, TypeOK, WellFormed, IngestorTypeOK, WorkerMoves
<1>2. QED
  BY ZenonT(60), <1>1 DEF TInv, TypeOK, WellFormed, QueueTypeOK, ServiceTypeOK, IngestorTypeOK, At

\* The moves of task statuses stay within the statuses.
LEMMA MoveType ==
  ASSUME status \in [TaskIds -> Statuses], NEW t, NEW to,
         Transition(t, to) \/ status' = AfterMarkFailed(t) \/ UNCHANGED status
  PROVE  status' \in [TaskIds -> Statuses]
<1>1. \A from : CanTransition(from, to) => to \in Statuses
  BY DEF CanTransition, Statuses, Present, Active, Unstarted, InProgress, Terminal
<1>2. "FAILED" \in Statuses
  BY DEF Statuses, Present, Terminal
<1>3. QED
  BY <1>1, <1>2 DEF Transition, AfterMarkFailed

LEMMA QueueMoves ==
  ASSUME queue \in [MsgIds -> {"unused", "ready", "inflight", "acked", "dropped"}], NEW m,
         queue' = AfterAck(m) \/ queue' = AfterNack(m) \/ UNCHANGED queue
  PROVE  /\ queue' \in [MsgIds -> {"unused", "ready", "inflight", "acked", "dropped"}]
         /\ \A n \in MsgIds : queue'[n] # "unused" => queue[n] # "unused"
BY Zenon DEF AfterAck, AfterNack

LEMMA WorkerStepTInv ==
  ASSUME TInv, NEW w \in Workers, WorkerStep(w) \/ WorkerFault(w)
  PROVE  TInv'
<1> DEFINE Rest == /\ StoreTypeOK'
                   /\ queue' \in [MsgIds -> {"unused", "ready", "inflight", "acked", "dropped"}]
                   /\ \A n \in MsgIds : queue'[n] # "unused" => queue[n] # "unused"
                   /\ UNCHANGED <<msgTask, call, asked, proc>>
                   /\ faults' \in 0 .. MaxFaults
                   /\ claims' \in [Procs -> SUBSET TaskIds]
                   /\ compiled' \in SUBSET Runs
                   /\ worker[w].pc # "idle"
<1>t. /\ StoreTypeOK /\ QueueTypeOK /\ ServiceTypeOK /\ IngestorTypeOK
      /\ worker[w].pc # "idle" => worker[w].t \in TaskIds
      /\ ProcOf[w] \in Procs
      /\ worker[w].fin \in RowStatuses
  BY Zenon, ProcAssumption DEF TInv, TypeOK, WellFormed, IngestorTypeOK, WorkRecord, RowStatuses
<1>r. /\ "RUNNING" \in RowStatuses /\ "DONE" \in RowStatuses
      /\ "FAIL" \in RowStatuses /\ "CANCEL" \in RowStatuses
  BY Zenon DEF RowStatuses, OpenRow, ClosedRow
<1>m. ASSUME Rest, NEW pc, NEW m, NEW ok, WorkerMoves(w, pc, m, ok) \/ Idles(w) PROVE TInv'
  BY Zenon, <1>m, WorkerTInv
<1> USE RunBound, FaultBound DEF Is, RecordPipelineLog, storeVars, queueVars, serviceVars
<1>1. CASE Begin(w)
  <2>1. Rest
    BY Zenon, <1>1, <1>t DEF Begin, StoreTypeOK, QueueTypeOK, ServiceTypeOK, IngestorTypeOK
  <2>2. QED
    BY Zenon, <1>1, <1>m, <2>1, AdmissionMoves DEF Same
<1>2. CASE ToRunning(w)
  <2>1. Rest
    BY Zenon, <1>2, <1>t, MoveType DEF ToRunning, StoreTypeOK, QueueTypeOK, ServiceTypeOK, IngestorTypeOK
  <2>2. QED
    BY Zenon, <1>2, <1>m, <2>1, AdmissionMoves DEF Same
<1>3. CASE Reread(w)
  <2>1. Rest
    BY Zenon, <1>3, <1>t DEF Reread, StoreTypeOK, QueueTypeOK, ServiceTypeOK, IngestorTypeOK
  <2>2. QED
    BY Zenon, <1>3, <1>m, <2>1, AdmissionMoves DEF Same
<1>4. CASE ToStopped(w)
  <2>1. Rest
    BY Zenon, <1>4, <1>t, MoveType DEF ToStopped, StoreTypeOK, QueueTypeOK, ServiceTypeOK, IngestorTypeOK
  <2>2. QED
    BY Zenon, <1>4, <1>m, <2>1, AdmissionMoves DEF Same
<1>5. CASE StoppedRow(w)
  <2>1. Rest
    BY ZenonT(60), <1>5, <1>t, <1>r, AdvanceType DEF StoppedRow, StoreTypeOK, QueueTypeOK, ServiceTypeOK, IngestorTypeOK
  <2>2. QED
    BY Zenon, <1>5, <1>m, <2>1, AdmissionMoves DEF Same
<1>6. CASE Validate(w)
  <2>1. Rest
    BY Zenon, <1>6, <1>t DEF Validate, StoreTypeOK, QueueTypeOK, ServiceTypeOK, IngestorTypeOK
  <2>2. QED
    BY ZenonT(60), <1>6, <1>m, <2>1, AdmissionMoves DEF Same
<1>7. CASE Reject(w)
  <2>1. Rest
    BY Zenon, <1>7, <1>t, MoveType DEF Reject, StoreTypeOK, QueueTypeOK, ServiceTypeOK, IngestorTypeOK
  <2>2. QED
    BY Zenon, <1>7, <1>m, <2>1, AdmissionMoves DEF Same
<1>8. CASE RejectRow(w)
  <2>1. Rest
    BY Zenon, <1>8, <1>t, <1>r, AdvanceType DEF RejectRow, StoreTypeOK, QueueTypeOK, ServiceTypeOK, IngestorTypeOK
  <2>2. QED
    BY Zenon, <1>8, <1>m, <2>1, AdmissionMoves DEF Same
<1>9. CASE AdmissionError(w)
  <2>1. Rest
    BY <1>9, <1>t DEF AdmissionError, DBError, Fault, StoreTypeOK, QueueTypeOK, ServiceTypeOK, IngestorTypeOK
  <2>2. QED
    BY ZenonT(60), <1>9, <1>m, <2>1, AdmissionMoves DEF Same
<1>10. CASE Prepare(w)
  <2>1. Rest
    BY Zenon, <1>10, <1>t, <1>r, AdvanceType DEF Prepare, StoreTypeOK, QueueTypeOK, ServiceTypeOK, IngestorTypeOK
  <2>2. QED
    BY Zenon, <1>10, <1>m, <2>1, AdmissionMoves DEF Same
<1>11. CASE ClearStaleFlag(w)
  <2>1. Rest
    BY Zenon, <1>11, <1>t DEF ClearStaleFlag, StoreTypeOK, QueueTypeOK, ServiceTypeOK, IngestorTypeOK
  <2>2. QED
    BY Zenon, <1>11, <1>m, <2>1, AdmissionMoves DEF Same
<1>12. CASE Panic(w)
  <2>1. Rest
    BY <1>12, <1>t DEF Panic, DBError, Fault, StoreTypeOK, QueueTypeOK, ServiceTypeOK, IngestorTypeOK
  <2>2. QED
    BY Zenon, <1>12, <1>m, <2>1, AdmissionMoves DEF Same
<1>13. CASE StopFlag(w)
  <2>1. Rest
    BY Zenon, <1>13, <1>t DEF StopFlag, TaskOf, StoreTypeOK, QueueTypeOK, ServiceTypeOK, IngestorTypeOK
  <2>2. QED
    BY Zenon, <1>13, <1>m, <2>1, AdmissionMoves DEF Same
<1>14. CASE StopQueuedRow(w)
  <2>1. Rest
    BY Zenon, <1>14, <1>t, <1>r, AdvanceType DEF StopQueuedRow, StoreTypeOK, QueueTypeOK, ServiceTypeOK, IngestorTypeOK
  <2>2. QED
    BY Zenon, <1>14, <1>m, <2>1, AdmissionMoves DEF Same
<1>15. CASE Close(w)
  <2>1. Rest
    BY Zenon, <1>15, <1>t, <1>r, AdvanceType DEF Close, StoreTypeOK, QueueTypeOK, ServiceTypeOK, IngestorTypeOK
  <2>2. QED
    BY Zenon, <1>15, <1>m, <2>1, AdmissionMoves DEF Same
<1>16. CASE Precheck(w)
  <2>1. Rest
    BY Zenon, <1>16, <1>t DEF Precheck, StoreTypeOK, QueueTypeOK, ServiceTypeOK, IngestorTypeOK
  <2>2. QED
    BY Zenon, <1>16, <1>m, <2>1, ExecutionMoves DEF Same, Returned, Closing
<1>17. CASE RunDocumentTask(w)
  <2>1. Rest
    BY Zenon, <1>17, <1>t, <1>r, AdvanceType DEF RunDocumentTask, StoreTypeOK, QueueTypeOK, ServiceTypeOK, IngestorTypeOK
  <2>2. QED
    BY Zenon, <1>17, <1>m, <2>1, ExecutionMoves DEF Same, Returned, Closing
<1>18. CASE Complete(w)
  <2>1. Rest
    BY Zenon, <1>18, <1>t, MoveType DEF Complete, StoreTypeOK, QueueTypeOK, ServiceTypeOK, IngestorTypeOK
  <2>2. QED
    BY Zenon, <1>18, <1>m, <2>1, ExecutionMoves DEF Same, Returned, Closing
<1>19. CASE Fail(w)
  <2>1. Rest
    BY Zenon, <1>19, <1>t, MoveType DEF Fail, StoreTypeOK, QueueTypeOK, ServiceTypeOK, IngestorTypeOK
  <2>2. QED
    BY Zenon, <1>19, <1>m, <2>1, ExecutionMoves DEF Same, Returned, Closing
<1>20. CASE PanicHandler(w)
  <2>1. Rest
    BY Zenon, <1>20, <1>t, MoveType DEF PanicHandler, StoreTypeOK, QueueTypeOK, ServiceTypeOK, IngestorTypeOK
  <2>2. QED
    BY Zenon, <1>20, <1>m, <2>1, ExecutionMoves DEF Same, Returned, Closing
<1>21. CASE Stop(w)
  <2>1. Rest
    BY Zenon, <1>21, <1>t, MoveType DEF Stop, StoreTypeOK, QueueTypeOK, ServiceTypeOK, IngestorTypeOK
  <2>2. QED
    BY Zenon, <1>21, <1>m, <2>1, ExecutionMoves DEF Same, Returned, Closing
<1>22. CASE StopMark(w)
  <2>1. Rest
    BY Zenon, <1>22, <1>t, MoveType DEF StopMark, StoreTypeOK, QueueTypeOK, ServiceTypeOK, IngestorTypeOK
  <2>2. QED
    BY Zenon, <1>22, <1>m, <2>1, ExecutionMoves DEF Same, Returned, Closing
<1>23. CASE ExecutionError(w)
  <2>1. Rest
    BY <1>23, <1>t DEF ExecutionError, DBError, Fault, StoreTypeOK, QueueTypeOK, ServiceTypeOK, IngestorTypeOK
  <2>2. QED
    BY Zenon, <1>23, <1>m, <2>1, ExecutionMoves DEF Same, Returned, Closing
<1>24. CASE Settle(w)
  <2>1. Rest
    <3>1. /\ \/ queue' = AfterAck(worker[w].msg) \/ queue' = AfterNack(worker[w].msg)
             \/ UNCHANGED queue
          /\ faults' \in 0 .. MaxFaults
      <4>1. \/ UNCHANGED faults
            \/ Fault("settle")
            \/ Fault("db")
        BY Zenon, <1>24 DEF Settle, Settled, DBError
      <4>2. faults' \in 0 .. MaxFaults
        BY <1>t, <4>1, FaultBound DEF Fault, ServiceTypeOK
      <4>3. QED
        BY Zenon, <1>24, <4>2 DEF Settle, Settled
    <3>2. QED
      BY Zenon, <1>24, <1>t, <3>1, QueueMoves DEF Settle, StoreTypeOK, QueueTypeOK, ServiceTypeOK, IngestorTypeOK
  <2>2. QED
    BY Zenon, <1>24, <1>m, <2>1, ExecutionMoves DEF Same
<1>25. CASE Claim(w)
  <2>1. Rest
    BY <1>25, <1>t DEF Claim, TaskOf, StoreTypeOK, QueueTypeOK, ServiceTypeOK, IngestorTypeOK
  <2>2. QED
    BY ZenonT(60), <1>25, <1>m, <2>1, ExecutionMoves DEF Same
<1>26. CASE AckHandle(w)
  <2>1. Rest
    <3>1. /\ queue' = AfterAck(worker[w].msg) \/ UNCHANGED queue
          /\ faults' \in 0 .. MaxFaults
      <4>1. UNCHANGED faults \/ Fault("settle")
        BY Zenon, <1>26 DEF AckHandle, Settled
      <4>2. faults' \in 0 .. MaxFaults
        BY <1>t, <4>1, FaultBound DEF Fault, ServiceTypeOK
      <4>3. QED
        BY Zenon, <1>26, <4>2 DEF AckHandle, Settled
    <3>2. QED
      BY Zenon, <1>26, <1>t, <3>1, QueueMoves DEF AckHandle, StoreTypeOK, QueueTypeOK, ServiceTypeOK, IngestorTypeOK
  <2>2. QED
    BY Zenon, <1>26, <1>m, <2>1 DEF AckHandle
<1>27. CASE NackHandle(w)
  <2>1. Rest
    <3>1. /\ queue' = AfterNack(worker[w].msg) \/ UNCHANGED queue
          /\ faults' \in 0 .. MaxFaults
      <4>1. UNCHANGED faults \/ Fault("settle")
        BY Zenon, <1>27 DEF NackHandle, Settled
      <4>2. faults' \in 0 .. MaxFaults
        BY <1>t, <4>1, FaultBound DEF Fault, ServiceTypeOK
      <4>3. QED
        BY Zenon, <1>27, <4>2 DEF NackHandle, Settled
    <3>2. QED
      BY Zenon, <1>27, <1>t, <3>1, QueueMoves DEF NackHandle, StoreTypeOK, QueueTypeOK, ServiceTypeOK, IngestorTypeOK
  <2>2. QED
    BY Zenon, <1>27, <1>m, <2>1 DEF NackHandle
<1>28. CASE Release(w)
  <2>1. Rest
    BY Zenon, <1>28, <1>t DEF Release, StoreTypeOK, QueueTypeOK, ServiceTypeOK, IngestorTypeOK
  <2>2. QED
    BY Zenon, <1>28, <1>m, <2>1 DEF Release
<1>29. ASSUME NEW m \in MsgIds, Pull(w, m) PROVE TInv'
  <2>1. msgTask[m] \in TaskIds
    BY Zenon, <1>29 DEF Pull, Deliver, TInv, WellFormed
  <2>2. /\ worker' \in [Workers -> WorkRecord]
        /\ \A v \in Workers : worker'[v].pc # "idle" => worker'[v].t \in TaskIds
    <3>1. /\ worker' \in [Workers -> WorkRecord]
          /\ \A v \in Workers : v # w => worker'[v] = worker[v]
          /\ worker'[w].t = msgTask[m]
      BY <1>29, <1>t, PullFrame DEF QueueTypeOK, IngestorTypeOK
    <3>2. QED
      BY Zenon, <2>1, <3>1 DEF TInv, WellFormed
  <2>3. QED
    BY Zenon, <1>29, <1>t, <2>2
       DEF Pull, Deliver, TInv, TypeOK, WellFormed, StoreTypeOK, QueueTypeOK, ServiceTypeOK, IngestorTypeOK, At
<1>30. QED
  BY ZenonT(60), <1>1, <1>2, <1>3, <1>4, <1>5, <1>6, <1>7, <1>8, <1>9, <1>10, <1>11, <1>12, <1>13, <1>14, <1>15, <1>16, <1>17, <1>18, <1>19, <1>20, <1>21, <1>22, <1>23, <1>24, <1>25, <1>26, <1>27, <1>28, <1>29
     DEF WorkerStep, WorkerFault, Admission, Execution

LEMMA BrokerTInv ==
  ASSUME TInv, NEW m \in MsgIds, Expire(m) \/ GiveUp(m)
  PROVE  TInv'
<1>1. /\ queue' \in [MsgIds -> {"unused", "ready", "inflight", "acked", "dropped"}]
      /\ \A n \in MsgIds : queue'[n] # "unused" => queue[n] # "unused"
  BY Zenon DEF Expire, GiveUp, TInv, TypeOK, QueueTypeOK
<1>2. faults' \in 0 .. MaxFaults
  BY FaultBound DEF Expire, GiveUp, Fault, TInv, TypeOK, StoreTypeOK, QueueTypeOK, ServiceTypeOK
<1>3. /\ UNCHANGED <<status, bound, row, maxRun, flag>>
      /\ UNCHANGED <<msgTask, call, asked, worker, claims, proc, compiled>>
  BY Zenon DEF Expire, GiveUp, storeVars, ingestorVars
<1>4. QED
  BY Zenon, <1>1, <1>2, <1>3
     DEF TInv, TypeOK, WellFormed, StoreTypeOK, QueueTypeOK, ServiceTypeOK, IngestorTypeOK, At

\* A process changes state: what its workers and its startup pass hold is typed still.
LEMMA ProcessTInv ==
  ASSUME TInv, UNCHANGED <<storeVars, queueVars, asked, compiled>>, faults' \in 0 .. MaxFaults,
         proc' \in [Procs -> {"up", "draining", "abandoned", "down"}],
         claims' \in [Procs -> SUBSET TaskIds],
         worker' \in [Workers -> WorkRecord],
         \A w \in Workers : worker'[w] = worker[w] \/ worker'[w].pc = "idle",
         call' \in [Callers -> CallRecord],
         \A c \in Callers : \/ call'[c] = call[c]
                            \/ call'[c].pc = "idle"
                            \/ call'[c].pc = "ensure" /\ call'[c].t \in TaskIds
  PROVE  TInv'
<1>1. TypeOK'
  BY Zenon DEF TInv, TypeOK, StoreTypeOK, QueueTypeOK, ServiceTypeOK, IngestorTypeOK, storeVars, queueVars
<1>2. WellFormed'
  BY Zenon DEF TInv, WellFormed, At, queueVars
<1>3. QED
  BY Zenon, <1>1, <1>2 DEF TInv

LEMMA LifetimeTInv ==
  ASSUME TInv, NEW p \in Procs, Lifetime(p)
  PROVE  TInv'
<1>p. p \in Callers
  BY Zenon DEF Callers
<1>t. /\ call \in [Callers -> CallRecord]
      /\ worker \in [Workers -> WorkRecord]
      /\ claims \in [Procs -> SUBSET TaskIds]
      /\ proc \in [Procs -> {"up", "draining", "abandoned", "down"}]
      /\ faults \in 0 .. MaxFaults
  BY DEF TInv, TypeOK, StoreTypeOK, QueueTypeOK, ServiceTypeOK, IngestorTypeOK
<1>e. "ensure" \in CallPC /\ "boot" \in Origins /\ 0 \in 0 .. MaxRuns
  BY RunBound DEF CallPC, Origins
<1>f. ASSUME Fault("crash") \/ Fault("shutdown") PROVE faults' \in 0 .. MaxFaults
  BY <1>t, <1>f, FaultBound DEF Fault
<1>1. ASSUME GoDown(p), faults' \in 0 .. MaxFaults PROVE TInv'
  <2>1. CallMoves(p, "idle", NoTaskId, "none")
    BY Zenon, <1>1, <1>p, <1>t, ReturnFrame DEF GoDown, Return
  <2>2. /\ worker' \in [Workers -> WorkRecord]
        /\ \A w \in Workers : worker'[w] = worker[w] \/ worker'[w].pc = "idle"
    BY <1>1, <1>t, NoWorkType DEF GoDown
  <2>3. /\ UNCHANGED <<storeVars, queueVars, asked, compiled>>
        /\ claims' \in [Procs -> SUBSET TaskIds]
        /\ proc' \in [Procs -> {"up", "draining", "abandoned", "down"}]
    BY <1>1, <1>t DEF GoDown
  <2>4. QED
    BY Zenon, <1>1, <2>1, <2>2, <2>3, ProcessTInv DEF CallMoves
<1>2. CASE Crash(p)
  BY <1>1, <1>2, <1>f DEF Crash
<1>3. CASE Exit(p)
  BY Zenon, <1>1, <1>3, <1>t DEF Exit
<1>4. CASE Shutdown(p)
  BY Zenon, <1>4, <1>t, <1>f, ProcessTInv DEF Shutdown, serviceVars
<1>5. CASE AbandonLeases(p)
  BY Zenon, <1>5, <1>t, ProcessTInv DEF AbandonLeases, serviceVars
<1>6. CASE Start(p)
  <2>1. /\ proc' \in [Procs -> {"up", "draining", "abandoned", "down"}]
        /\ UNCHANGED <<storeVars, queueVars, faults, asked, compiled, worker, claims>>
    BY Zenon, <1>6, <1>t DEF Start
  <2>2. ASSUME NEW t \in TaskIds, Enter(p, "ensure", t, 0, "boot") PROVE TInv'
    <3>1. CallMoves(p, "ensure", t, "boot")
      BY Zenon, <1>p, <1>t, <1>e, <2>2, EnterFrame
    <3>2. QED
      BY Zenon, <1>t, <2>1, <3>1, ProcessTInv DEF CallMoves
  <2>3. CASE UNCHANGED call
    BY Zenon, <1>t, <2>1, <2>3, ProcessTInv
  <2>4. QED
    BY Zenon, <1>6, <2>2, <2>3 DEF Start
<1>7. QED
  BY Zenon, <1>2, <1>3, <1>4, <1>5, <1>6 DEF Lifetime

LEMMA NextTInv == TInv /\ [Next]_vars => TInv'
<1> SUFFICES ASSUME TInv, [Next]_vars PROVE TInv'
  BY Zenon
<1>1. ASSUME NEW c \in Callers, ServiceNext(c) PROVE TInv'
  BY Zenon, <1>1, CreateTInv, StopTInv, CleanupTInv, AbortTInv DEF ServiceNext
<1>2. ASSUME NEW w \in Workers, WorkerStep(w) \/ WorkerFault(w) PROVE TInv'
  BY <1>2, WorkerStepTInv
<1>3. ASSUME NEW m \in MsgIds, Expire(m) \/ GiveUp(m) PROVE TInv'
  BY <1>3, BrokerTInv
<1>4. ASSUME NEW p \in Procs, Lifetime(p) PROVE TInv'
  BY Zenon, <1>4, LifetimeTInv
<1>5. CASE UNCHANGED vars
  BY Zenon, <1>5 DEF vars, storeVars, queueVars, serviceVars, ingestorVars, TInv, TypeOK, WellFormed,
     StoreTypeOK, QueueTypeOK, ServiceTypeOK, IngestorTypeOK, At
<1>6. QED
  BY Zenon, <1>1, <1>2, <1>3, <1>4, <1>5 DEF Next

LEMMA TInvHolds == Spec => []TInv
BY InitTInv, NextTInv, PTL DEF Spec

\* Whatever callers, workers, the broker and failing processes do, every variable
\* keeps its type: in particular a rollback restores a status the task had, never
\* the marker of a new task, and no step works on a task it does not have.
THEOREM TypeCorrect == Spec => []TypeOK
BY TInvHolds, PTL DEF TInv
=============================================================================
