--------------------------- MODULE TaskLifecycle ---------------------------
(***************************************************************************)
(* What the ingestion_task table and the pipeline_operation_log ledger of  *)
(* one document promise to every reader, whoever writes them:              *)
(*                                                                         *)
(*   - a document has at most one task row (unique index on document_id);  *)
(*   - a task's status only moves along the edges of validateTransition;   *)
(*   - a RUNNING or STOPPING task row is never deleted;                    *)
(*   - run numbers are handed out 1, 2, 3, ... and never reused;           *)
(*   - a run's ledger row only moves forward, and once it is closed        *)
(*     (DONE, FAIL, CANCEL) it never changes again.                        *)
(*                                                                         *)
(* The detailed specification (IngestionSystem) implements this one.       *)
(***************************************************************************)
EXTENDS TaskStatus

VARIABLES status,    \* status[t]: ingestion_task.status, or that there is no row
          row,       \* row[r]: operation_status of the ledger row with run_count r
          maxRun     \* MAX(run_count) of the document, 0 without rows

lifecycleVars == <<status, row, maxRun>>

-----------------------------------------------------------------------------
\* The life of a task: queued, run, settled; a failed or stopped one may start
\* over.  Stopping a running task always goes through STOPPING.
Edge == ({"CREATED"} \X {"SCHEDULED", "RUNNING", "STOPPED", "FAILED"})
  \cup ({"SCHEDULED"} \X {"RUNNING", "STOPPED", "FAILED"})
  \cup ({"RUNNING"} \X {"STOPPING", "COMPLETED", "FAILED"})
  \cup {<<"STOPPING", "STOPPED">>, <<"STOPPED", "CREATED">>, <<"FAILED", "CREATED">>}

\* A ledger row only moves forward, and never leaves a closed status.
CanAdvance(from, to) ==
  \/ from = "UNSTART"  /\ to \in {"SCHEDULE", "RUNNING"} \cup ClosedRow
  \/ from = "SCHEDULE" /\ to \in {"RUNNING"} \cup ClosedRow
  \/ from = "RUNNING"  /\ to \in ClosedRow

-----------------------------------------------------------------------------
Init ==
  /\ status = [t \in TaskIds |-> "UNUSED"]
  /\ row = [r \in Runs |-> "NONE"]
  /\ maxRun = 0

NoTask == \A t \in TaskIds : status[t] \notin Present

CreateTask(t) ==
  /\ NoTask
  /\ status[t] = "UNUSED"
  /\ status' = [status EXCEPT ![t] = "CREATED"]
  /\ UNCHANGED <<row, maxRun>>

MoveTask(t, to) ==
  /\ <<status[t], to>> \in Edge
  /\ status' = [status EXCEPT ![t] = to]
  /\ UNCHANGED <<row, maxRun>>

DeleteTask(t) ==
  /\ status[t] \in Unstarted \cup Terminal
  /\ status' = [status EXCEPT ![t] = "DELETED"]
  /\ UNCHANGED <<row, maxRun>>

\* A new run is opened only for a task that has a row and is not terminal.
OpenRun ==
  /\ \E t \in TaskIds : status[t] \in Active
  /\ maxRun < MaxRuns
  /\ row[maxRun + 1] = "NONE"
  /\ maxRun' = maxRun + 1
  /\ row' = [row EXCEPT ![maxRun + 1] = "UNSTART"]
  /\ UNCHANGED status

AdvanceRun(r, to) ==
  /\ CanAdvance(row[r], to)
  /\ row' = [row EXCEPT ![r] = to]
  /\ UNCHANGED <<status, maxRun>>

Next ==
  \/ \E t \in TaskIds :
       \/ CreateTask(t)
       \/ DeleteTask(t)
       \/ \E to \in Present : MoveTask(t, to)
  \/ OpenRun
  \/ \E r \in Runs, to \in RowStatuses : AdvanceRun(r, to)

Spec == Init /\ [][Next]_lifecycleVars
=============================================================================
