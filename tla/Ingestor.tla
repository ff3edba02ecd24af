------------------------------ MODULE Ingestor ------------------------------
(***************************************************************************)
(* The ingestor processes: each one has a pool of workers, and an          *)
(* in-memory claim map its workers share.  A worker pulls one message,     *)
(* keeps its broker lease alive with a heartbeat, moves the task to        *)
(* RUNNING, runs the document pipeline, settles the task, settles the      *)
(* message and only then releases its claim.                               *)
(***************************************************************************)
EXTENDS IngestionTaskService

CONSTANTS Workers,   \* workers of all processes
          ProcOf,    \* ProcOf[w]: the process of worker w
          NoMsg      \* a worker without a message

ASSUME ProcAssumption == ProcOf \in [Workers -> Procs]
ASSUME NoMsgAssumption == NoMsg \notin MsgIds

vars == <<storeVars, queueVars, serviceVars, ingestorVars>>

\* Before the claim; from the claim to its release; after the pipeline.
AdmissionPC == {"begin", "toRunning", "reread", "toStopped", "cancelRow",
                "validate", "reject", "rejectRow", "claim", "ack", "nack"}
ExecutionPC == {"prepare", "precheck", "clearFlag", "run", "complete", "fail",
                "panic", "stop", "stopQueuedRow", "stopFlag", "stopMark",
                "close", "settle", "release"}

NoWork == [pc |-> "idle", msg |-> NoMsg, t |-> NoTaskId, log |-> 0,
           fin |-> "FAIL", ok |-> FALSE]

WorkRecord == [pc : AdmissionPC \cup ExecutionPC \cup {"idle"},
               msg : MsgIds \cup {NoMsg}, t : TaskIds \cup {NoTaskId},
               log : 0 .. MaxRuns, fin : ClosedRow, ok : BOOLEAN]

IngestorTypeOK ==
  /\ worker \in [Workers -> WorkRecord]
  /\ claims \in [Procs -> SUBSET TaskIds]
  /\ proc \in [Procs -> {"up", "draining", "abandoned", "down"}]
  /\ compiled \in SUBSET Runs

IngestorInit ==
  /\ worker = [w \in Workers |-> NoWork]
  /\ claims = [p \in Procs |-> {}]
  /\ proc = [p \in Procs |-> "up"]
  /\ compiled = {}

-----------------------------------------------------------------------------
Is(w, pc) == worker[w].pc = pc

TaskOf(w) == worker[w].t

Step(w, pc) == worker' = [worker EXCEPT ![w].pc = pc]

\* Continue at pc with the run the task is bound to in this read.
Capture(w, pc) ==
  worker' = [worker EXCEPT ![w] = [@ EXCEPT !.pc = pc, !.log = bound[worker[w].t]]]

\* The body of the task returned: settle the message with this verdict.
Returns(w, ok) ==
  worker' = [worker EXCEPT ![w] = [@ EXCEPT !.pc = "settle", !.ok = ok]]

\* The task is settled: write the outcome to its row, then return the verdict.
Closes(w, fin, ok) ==
  worker' = [worker EXCEPT ![w] = [@ EXCEPT !.pc = "close", !.fin = fin, !.ok = ok]]

\* markStopped, for a run whose row will be closed with fin.
Stops(w, fin) ==
  worker' = [worker EXCEPT ![w] = [@ EXCEPT !.pc = "stop", !.fin = fin]]

\* The message is settled; the claim is still held.
LetGo(w) ==
  worker' = [worker EXCEPT ![w] = [@ EXCEPT !.pc = "release", !.msg = NoMsg]]

\* returnWorker: the worker goes back to the pool.
Idles(w) == worker' = [worker EXCEPT ![w] = NoWork]

Executing(w) == worker[w].pc \in ExecutionPC

\* Stop(ctx) was called: the contexts of this process are cancelled, so that a
\* database call of the worker may fail at any time.
ShuttingDown(w) == proc[ProcOf[w]] \in {"draining", "abandoned"}

DBError(w) == \/ Fault("db")
              \/ ShuttingDown(w) /\ UNCHANGED faults

\* The leases of the process were abandoned: its messages are left unsettled.
Abandoned(w) == proc[ProcOf[w]] = "abandoned"

\* RecordPipelineLog writes the outcome of run r to its row, if it is still open.
RecordPipelineLog(r, outcome) == AdvanceLog(r, OpenRow, outcome)

-----------------------------------------------------------------------------
(* Admission: consumeLoop, handleAndExecute, TransitionTaskToRunning *)

\* A process serves when it is up and its startup recovery pass is over.
Serving(p) == proc[p] = "up" /\ At(p, "idle")

Pull(w, m) ==
  /\ Serving(ProcOf[w])
  /\ Is(w, "idle")
  /\ Deliver(m)
  /\ worker' = [worker EXCEPT ![w] = [@ EXCEPT !.pc = "begin", !.msg = m, !.t = msgTask[m]]]
  /\ UNCHANGED <<storeVars, serviceVars, claims, proc, compiled>>

\* Mutant of Begin: a task that is settled already is nacked.
BeginNacksSettled(w) ==
  LET s == status[TaskOf(w)] IN
  /\ Is(w, "begin")
  /\ \/ s \in Unstarted /\ Step(w, "toRunning")
     \/ s = "STOPPING" /\ Capture(w, "toStopped")
     \/ s = "RUNNING" /\ Capture(w, "validate")
     \/ s \notin Active /\ Step(w, "nack")
  /\ UNCHANGED <<storeVars, queueVars, serviceVars, claims, proc, compiled>>

\* GetTask, and the switch on the status it returned.
Begin(w) ==
  LET s == status[TaskOf(w)] IN
  /\ Is(w, "begin")
  /\ \/ s \in Unstarted /\ Step(w, "toRunning")
     \/ s = "STOPPING" /\ Capture(w, "toStopped")
     \/ s = "RUNNING" /\ Capture(w, "validate")
     \/ s \notin Active /\ Step(w, "ack")
  /\ UNCHANGED <<storeVars, queueVars, serviceVars, claims, proc, compiled>>

\* transitionFrom {CREATED, SCHEDULED} -> RUNNING.  A lost swap is an error and
\* nacks the message, unless the row is gone.
ToRunning(w) ==
  LET t == TaskOf(w) IN
  /\ Is(w, "toRunning")
  /\ \/ /\ status[t] \in Unstarted
        /\ Transition(t, "RUNNING")
        /\ Step(w, "reread")
     \/ /\ status[t] \notin Unstarted
        /\ Step(w, IF status[t] \in Present THEN "nack" ELSE "ack")
        /\ UNCHANGED status
  /\ UNCHANGED <<bound, row, maxRun, flag, queueVars, serviceVars, claims, proc, compiled>>

\* transitionFrom returns the task as it reads it after the swap.  Whatever is
\* not RUNNING any more, STOPPING included, is acked and skipped.
Reread(w) ==
  /\ Is(w, "reread")
  /\ IF status[TaskOf(w)] = "RUNNING" THEN Capture(w, "validate") ELSE Step(w, "ack")
  /\ UNCHANGED <<storeVars, queueVars, serviceVars, claims, proc, compiled>>

\* A redelivered STOPPING task is finalized without running it: ...
ToStopped(w) ==
  LET t == TaskOf(w) IN
  /\ Is(w, "toStopped")
  /\ \/ /\ status[t] = "STOPPING"
        /\ Transition(t, "STOPPED")
        /\ Step(w, "cancelRow")
     \/ /\ status[t] # "STOPPING"
        /\ Step(w, IF status[t] \in Present THEN "nack" ELSE "ack")
        /\ UNCHANGED status
  /\ UNCHANGED <<bound, row, maxRun, flag, queueVars, serviceVars, claims, proc, compiled>>

\* ... its flag is dropped and the row of its run is cancelled.
StoppedRow(w) ==
  /\ Is(w, "cancelRow")
  /\ flag' = flag \ {TaskOf(w)}
  /\ AdvanceLog(worker[w].log, OpenRow, "CANCEL")
  /\ Step(w, "ack")
  /\ UNCHANGED <<status, bound, maxRun, queueVars, call, asked, claims, proc, compiled>>

\* ReloadAndValidateRunIdentity: the task must be bound to a run.
Validate(w) ==
  LET t == TaskOf(w) IN
  /\ Is(w, "validate")
  /\ \/ status[t] \notin Present /\ Step(w, "nack")
     \/ status[t] \in Present /\ bound[t] = 0 /\ Step(w, "reject")
     \/ status[t] \in Present /\ bound[t] # 0 /\ Capture(w, "claim")
  /\ UNCHANGED <<storeVars, queueVars, serviceVars, claims, proc, compiled>>

\* InvalidRunIdentityError: the task is failed, ...
Reject(w) ==
  LET t == TaskOf(w) IN
  /\ Is(w, "reject")
  /\ status' = AfterMarkFailed(t)
  /\ Step(w, IF MarkFailedOK(t) THEN "rejectRow" ELSE "nack")
  /\ UNCHANGED <<bound, row, maxRun, flag, queueVars, serviceVars, claims, proc, compiled>>

\* ... and so is the run it was bound to when it was admitted, if any.
RejectRow(w) ==
  /\ Is(w, "rejectRow")
  /\ RecordPipelineLog(worker[w].log, "FAIL")
  /\ Step(w, "ack")
  /\ UNCHANGED <<status, bound, maxRun, flag, queueVars, call, asked, claims, proc, compiled>>

\* Mutant of Claim: the claim map is not consulted.
ClaimBlindly(w) ==
  LET p == ProcOf[w]
      t == TaskOf(w) IN
  /\ Is(w, "claim")
  /\ claims' = [claims EXCEPT ![p] = @ \cup {t}]
  /\ Step(w, "prepare")
  /\ UNCHANGED <<storeVars, queueVars, serviceVars, proc, compiled>>

\* claimTask: the first worker of the process gets the task; a duplicate only
\* renews its broker lease (renewDuplicateHandle) and leaves it unsettled.
Claim(w) ==
  LET p == ProcOf[w]
      t == TaskOf(w) IN
  /\ Is(w, "claim")
  /\ \/ /\ t \notin claims[p]
        /\ claims' = [claims EXCEPT ![p] = @ \cup {t}]
        /\ Step(w, "prepare")
     \/ /\ t \in claims[p]
        /\ Idles(w)
        /\ UNCHANGED claims
  /\ UNCHANGED <<storeVars, queueVars, serviceVars, proc, compiled>>

\* A database call of the admission fails: nack.
AdmissionError(w) ==
  /\ worker[w].pc \in {"begin", "toRunning", "reread", "toStopped", "validate", "reject"}
  /\ DBError(w)
  /\ Step(w, "nack")
  /\ UNCHANGED <<storeVars, queueVars, call, asked, claims, proc, compiled>>

\* The worker settles its message.  An ack or nack that does not reach the broker
\* is only logged: the message stays in flight until its deadline passes.
Settled(after) ==
  \/ queue' = after /\ UNCHANGED faults
  \/ UNCHANGED queue /\ Fault("settle")

\* ackHandle and nackHandle stop the heartbeat and settle, unless the lease was
\* abandoned.
AckHandle(w) ==
  /\ Is(w, "ack")
  /\ IF Abandoned(w) THEN UNCHANGED <<queue, faults>> ELSE Settled(AfterAck(worker[w].msg))
  /\ Idles(w)
  /\ UNCHANGED <<storeVars, msgTask, call, asked, claims, proc, compiled>>

NackHandle(w) ==
  /\ Is(w, "nack")
  /\ IF Abandoned(w) THEN UNCHANGED <<queue, faults>> ELSE Settled(AfterNack(worker[w].msg))
  /\ Idles(w)
  /\ UNCHANGED <<storeVars, msgTask, call, asked, claims, proc, compiled>>

-----------------------------------------------------------------------------
(* Execution: executeTaskWithHeartbeat, runTask *)

\* PrepareValidatedRun advances the row of the run.
Prepare(w) ==
  /\ Is(w, "prepare")
  /\ AdvanceLog(worker[w].log, {"UNSTART", "SCHEDULE"}, "RUNNING")
  /\ Step(w, "precheck")
  /\ UNCHANGED <<status, bound, maxRun, flag, queueVars, call, asked, claims, proc, compiled>>


\* defaultCancelCheck: the Redis flag, or the status in the database.
CancelCheck(t) == t \in flag \/ status[t] = "STOPPING"

\* The synchronous check before the pipeline starts.  A process that is shutting
\* down leaves the task for redelivery.
Precheck(w) ==
  /\ Is(w, "precheck")
  /\ \/ ShuttingDown(w) /\ Returns(w, FALSE)
     \/ ~ ShuttingDown(w) /\ CancelCheck(TaskOf(w)) /\ Stops(w, "CANCEL")
     \/ ~ CancelCheck(TaskOf(w)) /\ Step(w, "clearFlag")
  /\ UNCHANGED <<storeVars, queueVars, serviceVars, claims, proc, compiled>>

\* A flag that exists now is taken for a leftover of an earlier run.
ClearStaleFlag(w) ==
  /\ Is(w, "clearFlag")
  /\ flag' = flag \ {TaskOf(w)}
  /\ Step(w, "run")
  /\ UNCHANGED <<status, bound, row, maxRun, queueVars, serviceVars, claims, proc, compiled>>

\* The document pipeline ends: it succeeds, and the executor writes DONE to the
\* row of the run before the task is completed; or it fails or times out, is
\* cancelled by pollCancel or by a shutdown.
RunDocumentTask(w) ==
  /\ Is(w, "run")
  /\ \/ RecordPipelineLog(worker[w].log, "DONE") /\ Step(w, "complete")
     \/ /\ \/ Step(w, "fail")
           \/ ~ ShuttingDown(w) /\ CancelCheck(TaskOf(w)) /\ Stops(w, "CANCEL")
           \/ ShuttingDown(w) /\ Returns(w, FALSE)
        /\ UNCHANGED <<row, faults>>
  /\ UNCHANGED <<status, bound, maxRun, flag, queueVars, call, asked, claims, proc, compiled>>

\* The pipeline panics, or what follows it in the body of the task.
Panic(w) ==
  /\ worker[w].pc \in {"run", "complete"}
  /\ Fault("panic")
  /\ Step(w, "panic")
  /\ UNCHANGED <<storeVars, queueVars, call, asked, claims, proc, compiled>>

\* completeTask / completeOrSettle: COMPLETED if still RUNNING; a task that is
\* STOPPING is stopped instead (settleToTerminal), a settled one is left alone,
\* and any other status is an error.  pollCancel may have cancelled the context.
Complete(w) ==
  LET t == TaskOf(w) IN
  /\ Is(w, "complete")
  /\ \/ Transition(t, "COMPLETED") /\ Closes(w, "DONE", TRUE)
     \/ /\ status[t] = "STOPPING"
        /\ Stops(w, "DONE")
        /\ UNCHANGED status
     \/ status[t] \in Terminal /\ Closes(w, "DONE", TRUE) /\ UNCHANGED status
     \/ /\ status[t] \notin InProgress \cup Terminal \/ CancelCheck(t)
        /\ Returns(w, FALSE)
        /\ UNCHANGED status
  /\ UNCHANGED <<bound, row, maxRun, flag, queueVars, serviceVars, claims, proc, compiled>>

\* Mutant of Fail: the outcome of the successful branch is recorded.
FailClosesDone(w) ==
  LET t == TaskOf(w) IN
  /\ Is(w, "fail")
  /\ status' = AfterMarkFailed(t)
  /\ IF MarkFailedOK(t) THEN Closes(w, "DONE", TRUE) ELSE Returns(w, FALSE)
  /\ UNCHANGED <<bound, row, maxRun, flag, queueVars, serviceVars, claims, proc, compiled>>

\* markFailed, then the FAIL row.
Fail(w) ==
  LET t == TaskOf(w) IN
  /\ Is(w, "fail")
  /\ status' = AfterMarkFailed(t)
  /\ IF MarkFailedOK(t) THEN Closes(w, "FAIL", TRUE) ELSE Returns(w, FALSE)
  /\ UNCHANGED <<bound, row, maxRun, flag, queueVars, serviceVars, claims, proc, compiled>>

\* The recovered panic of settleMessage: markFailed, and the FAIL row whether or
\* not it succeeded.
PanicHandler(w) ==
  LET t == TaskOf(w) IN
  /\ Is(w, "panic")
  /\ status' = AfterMarkFailed(t)
  /\ Closes(w, "FAIL", FALSE)
  /\ UNCHANGED <<bound, row, maxRun, flag, queueVars, serviceVars, claims, proc, compiled>>

\* markStopped begins with RequestStop: ...
Stop(w) ==
  LET t == TaskOf(w) IN
  /\ Is(w, "stop")
  /\ \/ Transition(t, "STOPPING") /\ Step(w, "stopFlag")
     \/ status[t] \in Unstarted /\ Transition(t, "STOPPED") /\ Step(w, "stopQueuedRow")
     \/ status[t] \in Terminal \cup {"STOPPING"} /\ Step(w, "stopMark") /\ UNCHANGED status
     \/ status[t] \notin Present /\ Returns(w, FALSE) /\ UNCHANGED status
  /\ UNCHANGED <<bound, row, maxRun, flag, queueVars, serviceVars, claims, proc, compiled>>

\* ... which sets the cancel flag of a running task, ...
StopFlag(w) ==
  /\ Is(w, "stopFlag")
  /\ flag' = flag \cup {TaskOf(w)}
  /\ Step(w, "stopMark")
  /\ UNCHANGED <<status, bound, row, maxRun, queueVars, serviceVars, claims, proc, compiled>>

\* ... or cancels the row of a queued one, ...
StopQueuedRow(w) ==
  /\ Is(w, "stopQueuedRow")
  /\ IF status[TaskOf(w)] \in Present
       THEN AdvanceLog(bound[TaskOf(w)], {"UNSTART", "SCHEDULE"}, "CANCEL")
       ELSE UNCHANGED <<row, faults>>
  /\ Step(w, "stopMark")
  /\ UNCHANGED <<status, bound, maxRun, flag, queueVars, call, asked, claims, proc, compiled>>

\* ... goes on with MarkStopped, and drops the flag.
StopMark(w) ==
  LET t == TaskOf(w) IN
  /\ Is(w, "stopMark")
  /\ \/ /\ \/ Transition(t, "STOPPED")
           \/ status[t] \in Terminal /\ UNCHANGED status
        /\ flag' = flag \ {t}
        /\ Closes(w, worker[w].fin, TRUE)
     \/ /\ status[t] \notin Terminal
        /\ ~ CanTransition(status[t], "STOPPED")
        /\ Returns(w, FALSE)
        /\ UNCHANGED <<status, flag>>
  /\ UNCHANGED <<bound, row, maxRun, queueVars, serviceVars, claims, proc, compiled>>

\* A database call of the execution fails: the body returns false (the panic
\* handler ignores the error).
ExecutionError(w) ==
  /\ worker[w].pc \in {"complete", "fail", "stop", "stopMark"}
  /\ DBError(w)
  /\ Returns(w, FALSE)
  /\ UNCHANGED <<storeVars, queueVars, call, asked, claims, proc, compiled>>

\* Mutant of Close: the compile event is published whatever the outcome is.
CloseAlwaysCompiles(w) ==
  LET r == worker[w].log IN
  /\ Is(w, "close")
  /\ RecordPipelineLog(r, worker[w].fin)
  /\ compiled' = compiled \cup ({r} \cap Runs)
  /\ Step(w, "settle")
  /\ UNCHANGED <<status, bound, maxRun, flag, queueVars, call, asked, claims, proc>>

\* recordTerminalPipelineLog writes the outcome to the row of the captured run, if
\* that row is still open (the row of a successful run seldom is); a successful
\* run then publishes its compile event.
Close(w) ==
  LET r == worker[w].log IN
  /\ Is(w, "close")
  /\ RecordPipelineLog(r, worker[w].fin)
  /\ compiled' = IF worker[w].fin = "DONE" THEN compiled \cup ({r} \cap Runs) ELSE compiled
  /\ Step(w, "settle")
  /\ UNCHANGED <<status, bound, maxRun, flag, queueVars, call, asked, claims, proc>>

-----------------------------------------------------------------------------
(* Settlement: settleMessage, ackOrNack, releaseTask *)

\* Mutant of Settle: the message is acked whatever the status of the task is.
SettleAlwaysAcks(w) ==
  /\ Is(w, "settle")
  /\ queue' = AfterAck(worker[w].msg)
  /\ LetGo(w)
  /\ UNCHANGED <<storeVars, msgTask, serviceVars, claims, proc, compiled>>

\* The message is acked if the task is terminal in the database, nacked if it is
\* not; the body's verdict decides only when the task cannot be read.
Settle(w) ==
  LET t == TaskOf(w)
      m == worker[w].msg IN
  /\ Is(w, "settle")
  /\ \/ /\ ~ Abandoned(w)
        /\ \/ status[t] \in Terminal /\ Settled(AfterAck(m))
           \/ status[t] \in Active /\ Settled(AfterNack(m))
           \/ /\ status[t] \notin Present
              /\ Settled(IF worker[w].ok THEN AfterAck(m) ELSE AfterNack(m))
     \/ /\ ~ Abandoned(w)
        /\ DBError(w)
        /\ queue' = IF worker[w].ok THEN AfterAck(m) ELSE AfterNack(m)
     \/ Abandoned(w) /\ UNCHANGED <<queue, faults>>
  /\ LetGo(w)
  /\ UNCHANGED <<storeVars, msgTask, call, asked, claims, proc, compiled>>

\* releaseTask is deferred: it runs after the message is settled.
Release(w) ==
  /\ Is(w, "release")
  /\ claims' = [claims EXCEPT ![ProcOf[w]] = @ \ {TaskOf(w)}]
  /\ Idles(w)
  /\ UNCHANGED <<storeVars, queueVars, serviceVars, proc, compiled>>

-----------------------------------------------------------------------------
(* The broker and the life of a process *)

\* Some worker's heartbeat renews the lease of the message.
Renewed(m) ==
  \E w \in Workers : worker[w].msg = m /\ proc[ProcOf[w]] \in {"up", "draining"}

\* The ack deadline passes: nobody renews the lease, or the renewals are lost.
\* The message is delivered again, or given up after MaxDeliver deliveries.
Expire(m) ==
  /\ queue[m] = "inflight"
  /\ \/ ~ Renewed(m) /\ UNCHANGED faults
     \/ Renewed(m) /\ Fault("lease")
  /\ queue' = [queue EXCEPT ![m] = "ready"]
  /\ UNCHANGED <<storeVars, msgTask, call, asked, ingestorVars>>

GiveUp(m) ==
  /\ queue[m] = "ready"
  /\ Fault("giveup")
  /\ queue' = [queue EXCEPT ![m] = "dropped"]
  /\ UNCHANGED <<storeVars, msgTask, call, asked, ingestorVars>>

\* Everything in the memory of the process is gone.
GoDown(p) ==
  /\ proc' = [proc EXCEPT ![p] = "down"]
  /\ claims' = [claims EXCEPT ![p] = {}]
  /\ worker' = [w \in Workers |-> IF ProcOf[w] = p THEN NoWork ELSE worker[w]]
  /\ call' = [call EXCEPT ![p] = NoCall]
  /\ UNCHANGED <<storeVars, queueVars, asked, compiled>>

Crash(p) ==
  /\ proc[p] # "down"
  /\ Fault("crash")
  /\ GoDown(p)

\* Ingestor.Stop: no more pulls; then the contexts of the workers are cancelled.
Shutdown(p) ==
  /\ Serving(p)
  /\ Fault("shutdown")
  /\ proc' = [proc EXCEPT ![p] = "draining"]
  /\ UNCHANGED <<storeVars, queueVars, call, asked, worker, claims, compiled>>

\* Its deadline passes: stopActiveLeases.
AbandonLeases(p) ==
  /\ proc[p] = "draining"
  /\ \E w \in Workers : ProcOf[w] = p /\ ~ Is(w, "idle")
  /\ proc' = [proc EXCEPT ![p] = "abandoned"]
  /\ UNCHANGED <<storeVars, queueVars, serviceVars, worker, claims, compiled>>

\* The process exits: drained, or with its workers still busy.
Exit(p) ==
  /\ \/ proc[p] = "abandoned"
     \/ proc[p] = "draining" /\ \A w \in Workers : ProcOf[w] = p => Is(w, "idle")
  /\ GoDown(p)
  /\ UNCHANGED faults

\* Start: ScheduleCreatedTasks publishes what is CREATED before any pull.
Start(p) ==
  /\ proc[p] = "down"
  /\ proc' = [proc EXCEPT ![p] = "up"]
  /\ \/ \E t \in TaskIds : status[t] = "CREATED" /\ Enter(p, "ensure", t, 0, "boot")
     \/ (\A t \in TaskIds : status[t] # "CREATED") /\ UNCHANGED call
  /\ UNCHANGED <<storeVars, queueVars, faults, asked, worker, claims, compiled>>

-----------------------------------------------------------------------------
Admission(w) ==
  \/ \E m \in MsgIds : Pull(w, m)
  \/ Begin(w) \/ ToRunning(w) \/ Reread(w) \/ ToStopped(w) \/ StoppedRow(w)
  \/ Validate(w) \/ Reject(w) \/ RejectRow(w) \/ Claim(w)
  \/ AckHandle(w) \/ NackHandle(w)

Execution(w) ==
  \/ Prepare(w) \/ Precheck(w) \/ ClearStaleFlag(w) \/ RunDocumentTask(w)
  \/ Complete(w) \/ Fail(w) \/ PanicHandler(w)
  \/ Stop(w) \/ StopFlag(w) \/ StopQueuedRow(w) \/ StopMark(w)
  \/ Close(w) \/ Settle(w) \/ Release(w)

WorkerFault(w) == AdmissionError(w) \/ ExecutionError(w) \/ Panic(w)

Lifetime(p) ==
  \/ Crash(p) \/ Shutdown(p) \/ AbandonLeases(p) \/ Exit(p) \/ Start(p)

\* What the workers' own progress consists of.
WorkerStep(w) == Admission(w) \/ Execution(w)
=============================================================================
