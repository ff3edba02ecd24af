-------------------------- MODULE IngestionSystem --------------------------
(***************************************************************************)
(* The ingestion subsystem for one document: API server, MySQL and Redis   *)
(* state, broker and ingestor processes together, and what it guarantees.  *)
(***************************************************************************)
EXTENDS Ingestor

Init == StoreInit /\ QueueInit /\ ServiceInit /\ IngestorInit

Next ==
  \/ \E c \in Callers : ServiceNext(c)
  \/ \E w \in Workers : WorkerStep(w) \/ WorkerFault(w)
  \/ \E m \in MsgIds : Expire(m) \/ GiveUp(m)
  \/ \E p \in Procs : Lifetime(p)

Spec == Init /\ [][Next]_vars

\* What the code keeps doing by itself: a request handler that started goes on, a
\* worker keeps pulling and working (a pipeline ends, at the latest by its
\* timeout), the broker redelivers what is not renewed, a stopped process exits
\* and is started again.  Users owe nothing, and faults need not happen.
Fairness ==
  /\ \A c \in Callers : WF_vars(~ At(c, "idle") /\ ServiceNext(c))
  /\ \A w \in Workers : WF_vars(WorkerStep(w))
  /\ \A m \in MsgIds : WF_vars(Expire(m))
  /\ \A p \in Procs : WF_vars(Exit(p)) /\ WF_vars(Start(p))

FairSpec == Spec /\ Fairness

TypeOK == StoreTypeOK /\ QueueTypeOK /\ ServiceTypeOK /\ IngestorTypeOK

-----------------------------------------------------------------------------
(* The task row and the run ledger *)

\* Whatever callers, workers, crashes and redeliveries do, the task row and the
\* run ledger evolve as TaskLifecycle promises.
Lifecycle == INSTANCE TaskLifecycle
LifecycleSpec == Lifecycle!Spec

\* Nobody is in the middle of an operation, and the queue is empty.
Quiet ==
  /\ \A c \in Callers : At(c, "idle")
  /\ \A w \in Workers : worker[w].pc = "idle"
  /\ \A m \in MsgIds : ~ Live(m)

\* When the dust has settled, a ledger row is open only if it is the run of a task
\* that is still queued or in progress: nothing will ever close it otherwise
\* (OpenPipelineOperationStatuses, and the comments of RequestStop and Remove).
NoOrphanRow ==
  Quiet => \A r \in Runs : row[r] \in OpenRow =>
             \E t \in TaskIds : bound[t] = r /\ status[t] \in Active

\* The outcomes a run may have when its task ended with status s.  A stop that
\* comes when the pipeline is done leaves the run DONE (completeOrSettle).
Outcomes(s) == CASE s = "COMPLETED" -> {"DONE"}
                 [] s = "FAILED"    -> {"FAIL"}
                 [] s = "STOPPED"   -> {"CANCEL", "DONE"}

\* When the dust has settled, the status of a settled task and the outcome of the
\* run it is bound to tell the same story, although two statements wrote them.
LedgerAgrees ==
  Quiet => \A t \in TaskIds :
             status[t] \in Terminal /\ bound[t] # 0 => row[bound[t]] \in Outcomes(status[t])


\* The compile event of a document is only published for a run that the ledger
\* shows as DONE (runTask records the outcome, then publishes).
CompiledRunsDone == \A r \in compiled : row[r] = "DONE"

-----------------------------------------------------------------------------
(* Workers and messages *)

\* Two workers of one process never execute one task at the same time, however
\* many copies of its message they got (claimTask, releaseTask).
OneExecutorPerProcess ==
  \A v, w \in Workers :
    v # w /\ Executing(v) /\ Executing(w) /\ ProcOf[v] = ProcOf[w] => TaskOf(v) # TaskOf(w)

\* A message of the task that the broker still has, or had to give up.
HasMessage(t) == \E m \in MsgIds : msgTask[m] = t /\ Live(m)
GivenUp(t) == \E m \in MsgIds : msgTask[m] = t /\ queue[m] = "dropped"

\* A RUNNING task is never without a message that brings a worker back to it if
\* the present one dies: settleMessage and the admission ack only what is settled.
\* (The broker's own delivery limit may still drop the message.)
RunningHasMessage ==
  \A t \in TaskIds : status[t] = "RUNNING" => HasMessage(t) \/ GivenUp(t)

-----------------------------------------------------------------------------
(* Progress *)

\* A task that was queued or started does not stay so: a worker picks it up and
\* finishes it, also when processes crash or shut down under it.
RunEnds ==
  \A t \in TaskIds :
    status[t] \in {"SCHEDULED", "RUNNING"} ~> status[t] \notin {"SCHEDULED", "RUNNING"}

\* The broker gets rid of every message: no message is nacked or left to expire
\* for ever, whatever became of its task.
MessagesSettle == \A m \in MsgIds : Live(m) ~> ~ Live(m)

\* A task that is asked to stop does stop: what Ingest tells the user to wait for
\* before parsing the document again.
StopEnds == \A t \in TaskIds : status[t] = "STOPPING" ~> status[t] # "STOPPING"
=============================================================================
