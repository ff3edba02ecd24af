----------------------------- MODULE TaskStore -----------------------------
(***************************************************************************)
(* The durable state ingestion works on, for one document: its rows in     *)
(* MySQL (ingestion_task, pipeline_operation_log) and the Redis cancel     *)
(* flag.  Every operator is one statement (or one transaction) of the DAO  *)
(* layer, so it is atomic; the services compose several of them.           *)
(*                                                                         *)
(* Documents share no row, so one document is enough; what they share (the *)
(* worker pool and the queue) is in Ingestor and TaskQueue.                *)
(***************************************************************************)
EXTENDS TaskStatus

VARIABLES status,   \* status[t]: ingestion_task.status
          bound,    \* bound[t]: ingestion_task.pipeline_log_id, 0 for NULL
          row,      \* row[r]: operation_status of the ledger row of run r
          maxRun,   \* MAX(run_count) over the document's ledger rows
          flag      \* tasks whose {task_id}-cancel key exists in Redis

storeVars == <<status, bound, row, maxRun, flag>>

StoreTypeOK ==
  /\ status \in [TaskIds -> Statuses]
  /\ bound \in [TaskIds -> 0 .. MaxRuns]
  /\ row \in [Runs -> RowStatuses]
  /\ maxRun \in 0 .. MaxRuns
  /\ flag \in SUBSET TaskIds

StoreInit ==
  /\ status = [t \in TaskIds |-> "UNUSED"]
  /\ bound = [t \in TaskIds |-> 0]
  /\ row = [r \in Runs |-> "NONE"]
  /\ maxRun = 0
  /\ flag = {}

-----------------------------------------------------------------------------
\* GetByDocumentID returns nothing.
NoTask == \A t \in TaskIds : status[t] \notin Present

\* IngestionTaskDAO.Create: refuses a second row for the document.
CreateTask(t) ==
  /\ NoTask
  /\ status[t] = "UNUSED"
  /\ status' = [status EXCEPT ![t] = "CREATED"]

\* Mutant of validateTransition: a task that is being stopped may still fail.
CanTransitionStoppingFails(from, to) ==
  \/ from = "CREATED"   /\ to \in {"SCHEDULED", "RUNNING", "STOPPED", "FAILED"}
  \/ from = "SCHEDULED" /\ to \in {"RUNNING", "STOPPED", "FAILED"}
  \/ from = "RUNNING"   /\ to \in {"STOPPING", "COMPLETED", "FAILED"}
  \/ from = "STOPPING"  /\ to \in {"STOPPED", "FAILED"}
  \/ from \in {"FAILED", "STOPPED"} /\ to = "CREATED"

\* validateTransition: the edges of the task state machine.
CanTransition(from, to) ==
  \/ from = "CREATED"   /\ to \in {"SCHEDULED", "RUNNING", "STOPPED", "FAILED"}
  \/ from = "SCHEDULED" /\ to \in {"RUNNING", "STOPPED", "FAILED"}
  \/ from = "RUNNING"   /\ to \in {"STOPPING", "COMPLETED", "FAILED"}
  \/ from = "STOPPING"  /\ to = "STOPPED"
  \/ from \in {"FAILED", "STOPPED"} /\ to = "CREATED"

\* transition / transitionFrom: validate the move and apply it with a
\* compare-and-swap on the status.  The read that precedes the swap is folded
\* into it: a swap that loses a race returns the error that a failing
\* statement returns, and changes nothing.
Transition(t, to) ==
  /\ CanTransition(status[t], to)
  /\ status' = [status EXCEPT ![t] = to]

\* Mutant of Delete: the status list of the WHERE clause is forgotten.
DeletableAny(t) == status[t] \in Present

\* IngestionTaskDAO.Delete and DeleteIfTerminal skip a task in progress.
Deletable(t) == status[t] \in Unstarted \cup Terminal

DeleteTask(t) ==
  /\ Deletable(t)
  /\ status' = [status EXCEPT ![t] = "DELETED"]

\* AdvanceOpenLog, and updateOpenLogRow for the worker's terminal write: the
\* row with this id moves to "to" if it is still in one of the from-states.
Advanced(r, from, to) ==
  IF r \in Runs /\ row[r] \in from THEN [row EXCEPT ![r] = to] ELSE row

\* NextRunCount.
NextRun == maxRun + 1
=============================================================================
