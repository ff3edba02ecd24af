-------------------------- MODULE LifecycleProofs --------------------------
(***************************************************************************)
(* The ingestion subsystem implements TaskLifecycle: every step of every   *)
(* caller, worker and failing process is a step of the abstract life of    *)
(* the task and of its ledger, or leaves both alone.                       *)
(***************************************************************************)
EXTENDS IngestionTypeProofs

\* Run numbers beyond MAX(run_count) have no row.
RowsNumbered == \A r \in Runs : r > maxRun => row[r] = "NONE"

\* A step of TaskLifecycle, or none.
Allowed == Lifecycle!Next \/ UNCHANGED <<status, row, maxRun>>

\* The statuses TaskLifecycle is about are those of the store.
LEMMA SameStatuses ==
  /\ Lifecycle!Present = Present
  /\ Lifecycle!Active = Active
  /\ Lifecycle!Unstarted = Unstarted
  /\ Lifecycle!Terminal = Terminal
  /\ Lifecycle!Runs = Runs
  /\ Lifecycle!ClosedRow = ClosedRow
  /\ Lifecycle!RowStatuses = RowStatuses
BY DEF Present, Active, Unstarted, InProgress, Terminal, Runs, OpenRow, ClosedRow, RowStatuses,
   Lifecycle!Present, Lifecycle!Active, Lifecycle!Unstarted, Lifecycle!InProgress, Lifecycle!Terminal,
   Lifecycle!Runs, Lifecycle!OpenRow, Lifecycle!ClosedRow, Lifecycle!RowStatuses

-----------------------------------------------------------------------------
(* The statements of TaskStore are steps of TaskLifecycle *)

LEMMA EdgeAllowed ==
  ASSUME NEW t \in TaskIds, NEW to \in Present, <<status[t], to>> \in Lifecycle!Edge,
         status' = [status EXCEPT ![t] = to], UNCHANGED <<row, maxRun>>
  PROVE  Allowed
BY Zenon, SameStatuses DEF Allowed, Lifecycle!Next, Lifecycle!MoveTask

LEMMA TransitionEdge ==
  ASSUME NEW from, NEW to, CanTransition(from, to)
  PROVE  to \in Present /\ <<from, to>> \in Lifecycle!Edge
BY DEF CanTransition, Present, Active, Unstarted, InProgress, Terminal, Lifecycle!Edge

LEMMA TransitionAllowed ==
  ASSUME NEW t \in TaskIds, NEW to, Transition(t, to), UNCHANGED <<row, maxRun>>
  PROVE  Allowed
BY Zenon, TransitionEdge, EdgeAllowed DEF Transition

LEMMA FailAllowed ==
  ASSUME NEW t \in TaskIds, status' = AfterMarkFailed(t), UNCHANGED <<row, maxRun>>
  PROVE  Allowed
BY Zenon, TransitionEdge, EdgeAllowed DEF AfterMarkFailed, Allowed

LEMMA DeleteAllowed ==
  ASSUME NEW t \in TaskIds, DeleteTask(t), UNCHANGED <<row, maxRun>>
  PROVE  Allowed
BY Zenon, SameStatuses DEF DeleteTask, Deletable, Allowed, Lifecycle!Next, Lifecycle!DeleteTask

LEMMA AdvanceAllowed ==
  ASSUME NEW r, NEW from, NEW to \in RowStatuses, AdvanceLog(r, from, to),
         \A s \in from : Lifecycle!CanAdvance(s, to), UNCHANGED <<status, maxRun>>
  PROVE  Allowed
BY SameStatuses DEF AdvanceLog, Advanced, Allowed, Lifecycle!Next, Lifecycle!AdvanceRun

\* The ledger only moves forward along the writes the code makes.
LEMMA Forward ==
  /\ \A s \in OpenRow, to \in ClosedRow : Lifecycle!CanAdvance(s, to)
  /\ \A s \in {"UNSTART", "SCHEDULE"} : Lifecycle!CanAdvance(s, "RUNNING") /\ Lifecycle!CanAdvance(s, "CANCEL")
  /\ \A s \in {"UNSTART"} : Lifecycle!CanAdvance(s, "SCHEDULE")
  /\ \A to \in ClosedRow : to \in RowStatuses
  /\ "DONE" \in ClosedRow /\ "FAIL" \in ClosedRow /\ "CANCEL" \in ClosedRow
  /\ "RUNNING" \in RowStatuses /\ "SCHEDULE" \in RowStatuses
BY SameStatuses DEF OpenRow, ClosedRow, RowStatuses, Lifecycle!CanAdvance

-----------------------------------------------------------------------------
(* Every step of the subsystem *)

LEMMA CreateAllowed ==
  ASSUME TInv, RowsNumbered, NEW c \in Callers, CreateNext(c)
  PROVE  Allowed
<1> USE DEF storeVars
<1>t. call[c].pc \notin {"idle", "create", "clear"} => call[c].t \in TaskIds
  BY DEF TInv, WellFormed
<1>1. ASSUME NEW t \in TaskIds, CreateNew(c, t) PROVE Allowed
  BY Zenon, <1>1, SameStatuses DEF CreateNew, CreateTask, NoTask, Allowed, Lifecycle!Next, Lifecycle!CreateTask, Lifecycle!NoTask
<1>2. ASSUME NEW t \in TaskIds, CreateRetry(c, t) PROVE Allowed
  BY ZenonT(60), <1>2, TransitionAllowed DEF CreateRetry
<1>3. ASSUME \/ \E t \in TaskIds : CreateAgain(c, t)
             \/ CreateRefused(c) \/ ClearRun(c) \/ EnsureReuse(c) \/ EnsureError(c) \/ PublishError(c)
             \/ \E m \in MsgIds : Publish(c, m) \/ PublishAmbiguous(c, m)
      PROVE  Allowed
  BY <1>3 DEF CreateAgain, CreateRefused, ClearRun, EnsureReuse, EnsureError, PublishError, Publish, PublishAmbiguous, Allowed
<1>4. CASE EnsureNew(c)
  <2>1. maxRun \in 0 .. MaxRuns /\ maxRun + 1 \in Runs /\ call[c].t \in TaskIds
    BY <1>t, <1>4 DEF EnsureNew, NextRun, At, TInv, TypeOK, StoreTypeOK
  <2>2. maxRun < MaxRuns /\ row[maxRun + 1] = "NONE"
    BY <2>1, RunBound DEF RowsNumbered, Runs
  <2>3. Lifecycle!OpenRun
    BY <1>4, <2>1, <2>2, SameStatuses DEF EnsureNew, NextRun, Lifecycle!OpenRun
  <2>4. QED
    BY <2>3 DEF Allowed, Lifecycle!Next
<1>5. CASE Rollback(c)
  <2> DEFINE t == call[c].t
  <2>1. t \in TaskIds /\ call[c].orig \in {"new", "FAILED", "STOPPED"} /\ UNCHANGED <<row, maxRun>>
    BY <1>t, <1>5 DEF Rollback, At, TInv, WellFormed
  <2>2. CASE UNCHANGED status
    BY <2>1, <2>2 DEF Allowed
  <2>3. CASE DeleteTask(t)
    BY Zenon, <2>1, <2>3, DeleteAllowed
  <2>4. CASE status[t] = "CREATED" /\ call[c].orig # "new" /\ status' = [status EXCEPT ![t] = call[c].orig]
    <3>1. CanTransition(status[t], call[c].orig)
      BY <2>1, <2>4 DEF CanTransition
    <3>2. QED
      BY Zenon, <2>1, <2>4, <3>1, TransitionAllowed DEF Transition
  <2>5. QED
    BY Zenon, <1>5, <2>2, <2>3, <2>4 DEF Rollback, DeleteTask
<1>6. CASE SettlePublishFailure(c)
  BY <1>t, <1>6, FailAllowed DEF SettlePublishFailure, At
<1>7. CASE FailRow(c)
  BY <1>7, Forward, AdvanceAllowed DEF FailRow
<1>8. CASE MarkScheduled(c)
  BY <1>t, <1>8, TransitionAllowed DEF MarkScheduled, At, Allowed
<1>9. CASE MarkRow(c)
  BY <1>9, Forward, AdvanceAllowed DEF MarkRow, Allowed
<1>10. QED
  BY ZenonT(60), <1>1, <1>2, <1>3, <1>4, <1>5, <1>6, <1>7, <1>8, <1>9 DEF CreateNext

LEMMA OtherAllowed ==
  ASSUME TInv, NEW c \in Callers, StopNext(c) \/ CleanupStep(c) \/ Abort(c)
  PROVE  Allowed
<1> USE DEF storeVars
<1>t. call[c].pc \notin {"idle", "create", "clear"} => call[c].t \in TaskIds
  BY DEF TInv, WellFormed
<1>1. ASSUME NEW t \in TaskIds, StopQueued(c, t) \/ StopRunning(c, t) PROVE Allowed
  BY <1>1, TransitionAllowed DEF StopQueued, StopRunning
<1>2. CASE CancelRow(c)
  BY <1>2, Forward, AdvanceAllowed DEF CancelRow, Allowed
<1>3. ASSUME \/ SetFlag(c) \/ Abort(c)
             \/ \E t \in TaskIds, op \in {"remove", "rerun", "wipe"} :
                  ReadUnstarted(c, t, op) \/ SkipSupersede(c, t, op)
             \/ \E op \in {"rerun", "wipe"} : CleanupWithoutTask(c, op)
      PROVE  Allowed
  BY ZenonT(60), <1>3 DEF SetFlag, Abort, ReadUnstarted, SkipSupersede, CleanupWithoutTask, Allowed
<1>4. CASE Supersede(c)
  BY <1>t, <1>4, TransitionAllowed DEF Supersede, At, Allowed
<1>5. CASE SupersedeRow(c)
  BY <1>5, Forward, AdvanceAllowed DEF SupersedeRow
<1>6. CASE Delete(c)
  BY Zenon, <1>t, <1>6, DeleteAllowed DEF Delete, At, Allowed
<1>7. CASE Clear(c)
  BY Zenon, <1>7, DeleteAllowed DEF Clear, Allowed
<1>8. QED
  BY <1>1, <1>2, <1>3, <1>4, <1>5, <1>6, <1>7 DEF StopNext, CleanupStep

LEMMA WorkerAllowed ==
  ASSUME TInv, NEW w \in Workers, WorkerStep(w) \/ WorkerFault(w)
  PROVE  Allowed
<1> USE DEF storeVars, RecordPipelineLog
<1>t. /\ worker[w].pc # "idle" => TaskOf(w) \in TaskIds
      /\ worker[w].fin \in ClosedRow
  BY Zenon DEF TInv, TypeOK, WellFormed, IngestorTypeOK, WorkRecord, TaskOf
<1>1. ASSUME \/ \E m \in MsgIds : Pull(w, m)
             \/ Begin(w) \/ Reread(w) \/ Validate(w) \/ Claim(w) \/ AckHandle(w) \/ NackHandle(w)
             \/ Precheck(w) \/ ClearStaleFlag(w) \/ StopFlag(w) \/ Settle(w)
             \/ Release(w) \/ AdmissionError(w) \/ ExecutionError(w) \/ Panic(w)
      PROVE  Allowed
  BY Zenon, <1>1 DEF Pull, Begin, Reread, Validate, Claim, AckHandle, NackHandle, Precheck, ClearStaleFlag,
     StopFlag, Settle, Release, AdmissionError, ExecutionError, Panic, Allowed
<1>2. CASE ToRunning(w) \/ ToStopped(w) \/ Complete(w) \/ Stop(w) \/ StopMark(w)
  <2>1. TaskOf(w) \in TaskIds /\ UNCHANGED <<row, maxRun>>
    BY Zenon, <1>t, <1>2 DEF ToRunning, ToStopped, Complete, Stop, StopMark, Is
  <2>2. UNCHANGED status \/ \E to : Transition(TaskOf(w), to)
    BY Zenon, <1>2 DEF ToRunning, ToStopped, Complete, Stop, StopMark
  <2>3. QED
    BY Zenon, <2>1, <2>2, TransitionAllowed DEF Allowed
<1>3. CASE Reject(w) \/ Fail(w) \/ PanicHandler(w)
  BY Zenon, <1>t, <1>3, FailAllowed DEF Reject, Fail, PanicHandler, Is
<1>4. CASE StoppedRow(w)
  BY ZenonT(60), <1>4, Forward, AdvanceAllowed DEF StoppedRow
<1>5. CASE RejectRow(w)
  BY <1>5, Forward, AdvanceAllowed DEF RejectRow
<1>6. CASE Prepare(w)
  BY <1>6, Forward, AdvanceAllowed DEF Prepare
<1>7. CASE StopQueuedRow(w)
  BY <1>7, Forward, AdvanceAllowed DEF StopQueuedRow, Allowed
<1>8. CASE Close(w)
  BY <1>t, <1>8, Forward, AdvanceAllowed DEF Close
<1>9. CASE RunDocumentTask(w)
  BY ZenonT(60), <1>9, Forward, AdvanceAllowed DEF RunDocumentTask, Allowed
<1>10. QED
  BY Zenon, <1>1, <1>2, <1>3, <1>4, <1>5, <1>6, <1>7, <1>8, <1>9 DEF WorkerStep, WorkerFault, Admission, Execution

LEMMA NextAllowed == TInv /\ RowsNumbered /\ [Next]_vars => Allowed
<1> SUFFICES ASSUME TInv, RowsNumbered, [Next]_vars PROVE Allowed
  OBVIOUS
<1>1. ASSUME NEW c \in Callers, ServiceNext(c) PROVE Allowed
  BY <1>1, CreateAllowed, OtherAllowed DEF ServiceNext
<1>2. ASSUME NEW w \in Workers, WorkerStep(w) \/ WorkerFault(w) PROVE Allowed
  BY <1>2, WorkerAllowed
<1>3. ASSUME NEW m \in MsgIds, Expire(m) \/ GiveUp(m) PROVE Allowed
  BY <1>3 DEF Expire, GiveUp, storeVars, Allowed
<1>4. ASSUME NEW p \in Procs, Lifetime(p) PROVE Allowed
  BY <1>4 DEF Lifetime, Crash, Exit, Shutdown, AbandonLeases, Start, GoDown, storeVars, Allowed
<1>5. CASE UNCHANGED vars
  BY <1>5 DEF vars, storeVars, Allowed
<1>6. QED
  BY <1>1, <1>2, <1>3, <1>4, <1>5 DEF Next

\* Steps of TaskLifecycle keep the rows beyond MAX(run_count) absent.
LEMMA NumberedStep ==
  ASSUME TInv, RowsNumbered, Allowed
  PROVE  RowsNumbered'
<1>0. row \in [Runs -> RowStatuses] /\ maxRun \in 0 .. MaxRuns
  BY DEF TInv, TypeOK, StoreTypeOK
<1>1. CASE UNCHANGED <<row, maxRun>>
  BY <1>1 DEF RowsNumbered
<1>2. CASE Lifecycle!OpenRun
  BY <1>0, <1>2, RunBound DEF RowsNumbered, Lifecycle!OpenRun, Runs
<1>3. ASSUME NEW r \in Runs, NEW to \in RowStatuses, Lifecycle!AdvanceRun(r, to) PROVE RowsNumbered'
  <2>1. row[r] # "NONE"
    BY <1>3 DEF Lifecycle!AdvanceRun, Lifecycle!CanAdvance
  <2>2. QED
    BY <1>0, <1>3, <2>1 DEF RowsNumbered, Lifecycle!AdvanceRun
<1>4. QED
  BY Zenon, <1>1, <1>2, <1>3, SameStatuses
     DEF Allowed, Lifecycle!Next, Lifecycle!CreateTask, Lifecycle!DeleteTask, Lifecycle!MoveTask

\* The subsystem implements TaskLifecycle: one task row per document, statuses that
\* move along validateTransition only, no deletion of a task in progress, run
\* numbers that are never reused and ledger rows that never leave a closed status.
THEOREM ImplementsLifecycle == Spec => LifecycleSpec
<1>1. Init => Lifecycle!Init /\ RowsNumbered
  BY SameStatuses DEF Init, StoreInit, Lifecycle!Init, RowsNumbered
<1>2. TInv /\ RowsNumbered /\ [Next]_vars => RowsNumbered'
  BY NextAllowed, NumberedStep
<1>3. TInv /\ RowsNumbered /\ [Next]_vars => [Lifecycle!Next]_(Lifecycle!lifecycleVars)
  BY NextAllowed DEF Allowed, Lifecycle!lifecycleVars
<1>4. QED
  BY <1>1, <1>2, <1>3, TInvHolds, PTL DEF Spec, LifecycleSpec, Lifecycle!Spec
=============================================================================
