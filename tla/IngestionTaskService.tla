------------------------ MODULE IngestionTaskService ------------------------
(***************************************************************************)
(* The operations a user (through the API server) or a starting ingestor   *)
(* performs on the document's ingestion task.  A caller is a goroutine     *)
(* inside one such operation; an action is one statement of it, so that    *)
(* callers interleave with each other and with the workers between any two *)
(* statements.                                                             *)
(*                                                                         *)
(*   create    create-and-enqueue: first parse, or retry of a FAILED or    *)
(*             STOPPED task                                                *)
(*   stop      RequestStop                                                 *)
(*   remove    Remove                                                      *)
(*   rerun     StartParseDocuments with RerunWithDelete: clear, then create*)
(*   wipe      clearDocumentParseResults alone                             *)
(*   boot      ScheduleCreatedTasks of a starting ingestor process         *)
(***************************************************************************)
EXTENDS TaskStore, TaskQueue

CONSTANTS Clients,     \* request handlers of the API server
          Procs,       \* ingestor processes
          Ops,         \* operations the clients perform (chosen per run)
          FaultKinds,  \* faults the environment may inject (chosen per run)
          MaxFaults    \* bound on their number

ASSUME FaultBound == MaxFaults \in Nat

VARIABLES call,        \* call[c]: the operation caller c is in
          faults,      \* number of faults so far
          asked        \* history: runs somebody asked to stop, supersede or remove

serviceVars == <<call, faults, asked>>

\* The state of the ingestor processes, which module Ingestor is about and no
\* operation of this module changes.
VARIABLES worker,      \* worker[w]: what worker w is doing, and for which message
          claims,      \* claims[p]: currentTasks of process p
          proc,        \* proc[p]: life of process p
          compiled     \* runs whose doc_completed compile event was published

ingestorVars == <<worker, claims, proc, compiled>>

Callers == Clients \cup Procs

CallPC == {"idle", "create", "clearRun", "ensure", "rollback", "publish",
           "settle", "failRow", "mark", "markRow", "cancelRow", "setFlag",
           "supersede", "supersedeRow", "delete", "clear"}

Origins == {"none", "new", "created", "FAILED", "STOPPED", "boot",
            "remove", "rerun", "wipe"}

\* pc: next statement; t, log: the task and the run it works on; orig: why it is
\* there; seen: status the task had when it was read; lock: holds the parse lock.
NoCall == [pc |-> "idle", t |-> NoTaskId, log |-> 0, orig |-> "none",
           seen |-> "UNUSED", lock |-> FALSE]

CallRecord == [pc : CallPC, t : TaskIds \cup {NoTaskId}, log : 0 .. MaxRuns,
               orig : Origins, seen : Statuses, lock : BOOLEAN]

ServiceTypeOK ==
  /\ call \in [Callers -> CallRecord]
  /\ faults \in 0 .. MaxFaults
  /\ asked \in SUBSET Runs

ServiceInit ==
  /\ call = [c \in Callers |-> NoCall]
  /\ faults = 0
  /\ asked = {}

-----------------------------------------------------------------------------
\* The environment injects a fault of kind k.
Fault(k) ==
  /\ k \in FaultKinds
  /\ faults < MaxFaults
  /\ faults' = faults + 1

\* advanceOpenLog: a ledger write that fails is only logged.
AdvanceLog(r, from, to) ==
  \/ row' = Advanced(r, from, to) /\ UNCHANGED faults
  \/ row' = row /\ Fault("db")

At(c, pc) == call[c].pc = pc

Goto(c, pc) == call' = [call EXCEPT ![c].pc = pc]

Return(c) == call' = [call EXCEPT ![c] = NoCall]

\* A client that is idle starts operation op.
Starts(c, op) == c \in Clients /\ op \in Ops /\ At(c, "idle")

\* Bound: a client asks for one more run only while there is room for its ledger
\* row and its message.
Room == maxRun < MaxRuns /\ \E m \in MsgIds : queue[m] = "unused"

\* Continue at pc with task t, bound to run r.
Enter(c, pc, t, r, orig) ==
  call' = [call EXCEPT ![c] = [@ EXCEPT !.pc = pc, !.t = t, !.log = r, !.orig = orig]]

-----------------------------------------------------------------------------
(* create: createAndEnqueueWithKBCache *)

\* No row for the document: insert one.
CreateNew(c, t) ==
  /\ (Starts(c, "create") /\ Room) \/ At(c, "create")
  /\ CreateTask(t)
  /\ Enter(c, "ensure", t, 0, "new")
  /\ UNCHANGED <<bound, row, maxRun, flag, queueVars, faults, asked, ingestorVars>>

\* The row is still CREATED: publish it again.
CreateAgain(c, t) ==
  /\ (Starts(c, "create") /\ Room) \/ At(c, "create")
  /\ status[t] = "CREATED"
  /\ Enter(c, "ensure", t, 0, "created")
  /\ UNCHANGED <<storeVars, queueVars, faults, asked, ingestorVars>>

\* The row is FAILED or STOPPED: retry it.
CreateRetry(c, t) ==
  /\ (Starts(c, "create") /\ Room) \/ At(c, "create")
  /\ status[t] \in {"FAILED", "STOPPED"}
  /\ Transition(t, "CREATED")
  /\ Enter(c, "clearRun", t, 0, status[t])
  /\ UNCHANGED <<bound, row, maxRun, flag, queueVars, faults, asked, ingestorVars>>

\* The row is active or COMPLETED: "already exists".
CreateRefused(c) ==
  /\ At(c, "create")
  /\ \E t \in TaskIds : status[t] \in {"SCHEDULED", "RUNNING", "STOPPING", "COMPLETED"}
  /\ Return(c)
  /\ UNCHANGED <<storeVars, queueVars, faults, asked, ingestorVars>>

\* The retry detaches the task from its previous run and drops its cancel flag.
ClearRun(c) ==
  LET t == call[c].t IN
  /\ At(c, "clearRun")
  /\ bound' = IF status[t] \in Present THEN [bound EXCEPT ![t] = 0] ELSE bound
  /\ flag' = flag \ {t}
  /\ Goto(c, "ensure")
  /\ UNCHANGED <<status, row, maxRun, queueVars, faults, asked, ingestorVars>>

\* ensureRunIdentity on a task that is bound already: reuse its run.
EnsureReuse(c) ==
  LET t == call[c].t IN
  /\ At(c, "ensure")
  /\ status[t] \in Active
  /\ bound[t] # 0
  /\ Enter(c, "publish", t, bound[t], call[c].orig)
  /\ UNCHANGED <<storeVars, queueVars, faults, asked, ingestorVars>>

\* ensureRunIdentity on an unbound task: number a new run and bind the task to
\* it, in one transaction under the document's row lock.
EnsureNew(c) ==
  LET t == call[c].t
      r == NextRun IN
  /\ At(c, "ensure")
  /\ status[t] \in Active
  /\ bound[t] = 0
  /\ r \in Runs
  /\ maxRun' = r
  /\ row' = [row EXCEPT ![r] = "UNSTART"]
  /\ bound' = [bound EXCEPT ![t] = r]
  /\ Enter(c, "publish", t, r, call[c].orig)
  /\ UNCHANGED <<status, flag, queueVars, faults, asked, ingestorVars>>

\* ensureRunIdentity fails: the task is terminal or gone, or the database fails
\* (it always does past the MaxRuns bound).  A new or retried task is rolled
\* back; a task that was CREATED before stays so.
EnsureError(c) ==
  LET t == call[c].t IN
  /\ At(c, "ensure")
  /\ \/ /\ status[t] \notin Active \/ (bound[t] = 0 /\ maxRun = MaxRuns)
        /\ UNCHANGED faults
     \/ Fault("db")
  /\ IF call[c].orig \in {"new", "FAILED", "STOPPED"} THEN Goto(c, "rollback") ELSE Return(c)
  /\ UNCHANGED <<storeVars, queueVars, asked, ingestorVars>>

\* Mutant of Rollback: one rollback for both, which restores what it was told.
RollbackBlindly(c) ==
  /\ At(c, "rollback")
  /\ status' = [status EXCEPT ![call[c].t] = call[c].orig]
  /\ Return(c)
  /\ UNCHANGED <<bound, row, maxRun, flag, queueVars, faults, asked, ingestorVars>>

\* rollbackCreatedTask deletes the new row; rollbackRetriedTask restores the
\* status if the task is still CREATED.
Rollback(c) ==
  LET t == call[c].t IN
  /\ At(c, "rollback")
  /\ status' = IF call[c].orig = "new"
                 THEN IF Deletable(t) THEN [status EXCEPT ![t] = "DELETED"] ELSE status
                 ELSE IF status[t] = "CREATED" THEN [status EXCEPT ![t] = call[c].orig] ELSE status
  /\ Return(c)
  /\ UNCHANGED <<bound, row, maxRun, flag, queueVars, faults, asked, ingestorVars>>

\* enqueueTask succeeds.
Publish(c, m) ==
  /\ At(c, "publish")
  /\ PublishTask(m, call[c].t)
  /\ Goto(c, "mark")
  /\ UNCHANGED <<storeVars, faults, asked, ingestorVars>>

\* enqueueTask fails and the message was not stored (always so when the bound on
\* messages is reached).
PublishError(c) ==
  /\ At(c, "publish")
  /\ \/ Fault("publish")
     \/ (\A m \in MsgIds : queue[m] # "unused") /\ UNCHANGED faults
  /\ Goto(c, "settle")
  /\ UNCHANGED <<storeVars, queueVars, asked, ingestorVars>>

\* enqueueTask times out although the broker stored the message.
PublishAmbiguous(c, m) ==
  /\ At(c, "publish")
  /\ Fault("ambiguous")
  /\ PublishTask(m, call[c].t)
  /\ Goto(c, "settle")
  /\ UNCHANGED <<storeVars, asked, ingestorVars>>

\* MarkFailed, as settlePublishFailure and the worker call it: nothing to do for
\* a terminal task, an error (FALSE) for a STOPPING or missing one.
MarkFailedOK(t) == status[t] \in Terminal \/ CanTransition(status[t], "FAILED")

AfterMarkFailed(t) ==
  IF CanTransition(status[t], "FAILED") THEN [status EXCEPT ![t] = "FAILED"] ELSE status

\* settlePublishFailure: fail the task, ...
SettlePublishFailure(c) ==
  LET t == call[c].t IN
  /\ At(c, "settle")
  /\ status' = AfterMarkFailed(t)
  /\ IF MarkFailedOK(t) THEN Goto(c, "failRow") ELSE Return(c)
  /\ UNCHANGED <<bound, row, maxRun, flag, queueVars, faults, asked, ingestorVars>>

\* ... then close the run it was about to publish.
FailRow(c) ==
  /\ At(c, "failRow")
  /\ AdvanceLog(call[c].log, OpenRow, "FAIL")
  /\ Return(c)
  /\ UNCHANGED <<status, bound, maxRun, flag, queueVars, asked, ingestorVars>>

\* markScheduledAfterPublish: CREATED -> SCHEDULED unless a worker was faster.
MarkScheduled(c) ==
  LET t == call[c].t IN
  /\ At(c, "mark")
  /\ IF status[t] = "CREATED"
       THEN Transition(t, "SCHEDULED") /\ Goto(c, "markRow")
       ELSE Return(c) /\ UNCHANGED status
  /\ UNCHANGED <<bound, row, maxRun, flag, queueVars, faults, asked, ingestorVars>>

\* It then reads the task again and advances the row the task is bound to now.
MarkRow(c) ==
  /\ At(c, "markRow")
  /\ IF status[call[c].t] \in Present
       THEN AdvanceLog(bound[call[c].t], {"UNSTART"}, "SCHEDULE")
       ELSE UNCHANGED <<row, faults>>
  /\ Return(c)
  /\ UNCHANGED <<status, bound, maxRun, flag, queueVars, asked, ingestorVars>>

-----------------------------------------------------------------------------
(* stop: RequestStop *)

\* A queued task is stopped on the spot.
StopQueued(c, t) ==
  /\ Starts(c, "stop")
  /\ status[t] \in Unstarted
  /\ Transition(t, "STOPPED")
  /\ Enter(c, "cancelRow", t, 0, "none")
  /\ asked' = asked \cup ({bound[t]} \cap Runs)
  /\ UNCHANGED <<bound, row, maxRun, flag, queueVars, faults, ingestorVars>>

\* The task is read again and the row it is bound to now is cancelled, unless a
\* worker has advanced it.
CancelRow(c) ==
  /\ At(c, "cancelRow")
  /\ IF status[call[c].t] \in Present
       THEN AdvanceLog(bound[call[c].t], {"UNSTART", "SCHEDULE"}, "CANCEL")
       ELSE UNCHANGED <<row, faults>>
  /\ Return(c)
  /\ UNCHANGED <<status, bound, maxRun, flag, queueVars, asked, ingestorVars>>

\* A running task is asked to stop; its worker will find out.
StopRunning(c, t) ==
  /\ Starts(c, "stop")
  /\ status[t] = "RUNNING"
  /\ Transition(t, "STOPPING")
  /\ Enter(c, "setFlag", t, 0, "none")
  /\ asked' = asked \cup ({bound[t]} \cap Runs)
  /\ UNCHANGED <<bound, row, maxRun, flag, queueVars, faults, ingestorVars>>

\* The Redis flag follows the status.
SetFlag(c) ==
  /\ At(c, "setFlag")
  /\ flag' = flag \cup {call[c].t}
  /\ Return(c)
  /\ UNCHANGED <<status, bound, row, maxRun, queueVars, faults, asked, ingestorVars>>

-----------------------------------------------------------------------------
(* remove: Remove; rerun and wipe: clearDocumentParseResults *)

\* The parse lock of the document is free; every client is in one API server.
ParseLockFree == \A c \in Clients : ~ call[c].lock

CleanupStarts(c, op) ==
  /\ op \in {"remove", "rerun", "wipe"}
  /\ Starts(c, op)
  /\ op = "rerun" => ParseLockFree /\ Room

CleanupNext(op) == IF op = "remove" THEN "delete" ELSE "clear"

\* SupersedeUnstartedTask on a queued task (remove: only if it owns a run): read
\* it, ...
ReadUnstarted(c, t, op) ==
  /\ CleanupStarts(c, op)
  /\ status[t] \in Unstarted
  /\ op = "remove" => bound[t] # 0
  /\ call' = [call EXCEPT ![c] = [pc |-> "supersede", t |-> t, log |-> bound[t], orig |-> op,
                                  seen |-> status[t], lock |-> op = "rerun"]]
  /\ UNCHANGED <<storeVars, queueVars, faults, asked, ingestorVars>>

\* ... stop it if it still has the status that was read, ...
Supersede(c) ==
  LET t == call[c].t IN
  /\ At(c, "supersede")
  /\ IF status[t] = call[c].seen
       THEN /\ Transition(t, "STOPPED")
            /\ asked' = asked \cup ({bound[t]} \cap Runs)
            /\ Goto(c, "supersedeRow")
       ELSE Return(c) /\ UNCHANGED <<status, asked>>
  /\ UNCHANGED <<bound, row, maxRun, flag, queueVars, faults, ingestorVars>>

\* Mutant of SupersedeRow: the run is not cancelled.
SupersedeWithoutRow(c) ==
  /\ At(c, "supersedeRow")
  /\ Goto(c, CleanupNext(call[c].orig))
  /\ UNCHANGED <<storeVars, queueVars, faults, asked, ingestorVars>>

\* ... and cancel the run it was bound to when it was read.
SupersedeRow(c) ==
  /\ At(c, "supersedeRow")
  /\ AdvanceLog(call[c].log, OpenRow, "CANCEL")
  /\ Goto(c, CleanupNext(call[c].orig))
  /\ UNCHANGED <<status, bound, maxRun, flag, queueVars, asked, ingestorVars>>

\* A settled task (for remove also a queued one without a run) is deleted as is.
SkipSupersede(c, t, op) ==
  /\ CleanupStarts(c, op)
  /\ status[t] \in Terminal \/ (op = "remove" /\ status[t] \in Unstarted /\ bound[t] = 0)
  /\ call' = [call EXCEPT ![c] = [@ EXCEPT !.pc = CleanupNext(op), !.t = t,
                                           !.orig = op, !.lock = (op = "rerun")]]
  /\ UNCHANGED <<storeVars, queueVars, faults, asked, ingestorVars>>

\* clearDocumentParseResults finds no task: there is nothing to supersede.
CleanupWithoutTask(c, op) ==
  /\ op # "remove"
  /\ CleanupStarts(c, op)
  /\ NoTask
  /\ call' = [call EXCEPT ![c] = [@ EXCEPT !.pc = "clear", !.orig = op, !.lock = (op = "rerun")]]
  /\ UNCHANGED <<storeVars, queueVars, faults, asked, ingestorVars>>

\* IngestionTaskDAO.Delete, by task id.
Delete(c) ==
  LET t == call[c].t IN
  /\ At(c, "delete")
  /\ \/ DeleteTask(t)
     \/ ~ Deletable(t) /\ UNCHANGED status
  /\ Return(c)
  /\ UNCHANGED <<bound, row, maxRun, flag, queueVars, faults, asked, ingestorVars>>

\* DeleteIfTerminal deletes the row the document has by now.  A rerun goes on to
\* create, unless the task it saw started running and was not deleted.
Clear(c) ==
  LET next == IF call[c].orig = "rerun" THEN Goto(c, "create") ELSE Return(c) IN
  /\ At(c, "clear")
  /\ \/ (\E t \in TaskIds : DeleteTask(t)) /\ next
     \/ /\ \A t \in TaskIds : ~ Deletable(t)
        /\ IF call[c].t = NoTaskId THEN next ELSE Return(c)
        /\ UNCHANGED status
  /\ UNCHANGED <<bound, row, maxRun, flag, queueVars, faults, asked, ingestorVars>>

-----------------------------------------------------------------------------
\* The API server dies, or a statement that is not followed by a compensation
\* fails, in the middle of an operation.
Abort(c) ==
  /\ c \in Clients
  /\ ~ At(c, "idle")
  /\ Fault("abort")
  /\ Return(c)
  /\ UNCHANGED <<storeVars, queueVars, asked, ingestorVars>>

CreateNext(c) ==
  \/ \E t \in TaskIds : CreateNew(c, t) \/ CreateAgain(c, t) \/ CreateRetry(c, t)
  \/ CreateRefused(c) \/ ClearRun(c)
  \/ EnsureReuse(c) \/ EnsureNew(c) \/ EnsureError(c) \/ Rollback(c)
  \/ \E m \in MsgIds : Publish(c, m) \/ PublishAmbiguous(c, m)
  \/ PublishError(c) \/ SettlePublishFailure(c) \/ FailRow(c)
  \/ MarkScheduled(c) \/ MarkRow(c)

StopNext(c) ==
  \/ \E t \in TaskIds : StopQueued(c, t) \/ StopRunning(c, t)
  \/ CancelRow(c) \/ SetFlag(c)

CleanupStep(c) ==
  \/ \E t \in TaskIds, op \in {"remove", "rerun", "wipe"} :
       ReadUnstarted(c, t, op) \/ SkipSupersede(c, t, op)
  \/ \E op \in {"rerun", "wipe"} : CleanupWithoutTask(c, op)
  \/ Supersede(c) \/ SupersedeRow(c) \/ Delete(c) \/ Clear(c)

ServiceNext(c) == CreateNext(c) \/ StopNext(c) \/ CleanupStep(c) \/ Abort(c)
=============================================================================
