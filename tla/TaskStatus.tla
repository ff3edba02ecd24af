----------------------------- MODULE TaskStatus -----------------------------
(***************************************************************************)
(* The statuses of an ingestion task and of a row of the run ledger.       *)
(***************************************************************************)
EXTENDS Naturals

CONSTANTS TaskIds,  \* ids of the task rows the document ever has
          MaxRuns   \* bound on the ledger rows of the document

ASSUME RunBound == MaxRuns \in Nat

\* Run numbers; a ledger row is identified by its run_count.
Runs == 1 .. MaxRuns

\* Task statuses. "UNUSED" and "DELETED" are the two ways of having no row: the
\* identifier was never inserted, or its row was deleted (ids are UUIDs and are
\* never reused).
Unstarted  == {"CREATED", "SCHEDULED"}
InProgress == {"RUNNING", "STOPPING"}
Terminal   == {"COMPLETED", "STOPPED", "FAILED"}
Active     == Unstarted \cup InProgress
Present    == Active \cup Terminal
Statuses   == Present \cup {"UNUSED", "DELETED"}

\* operation_status of a pipeline_operation_log row: the open ones in the order
\* a run goes through them, the closed ones, and "NONE" for a row not inserted.
OpenRow     == {"UNSTART", "SCHEDULE", "RUNNING"}
ClosedRow   == {"DONE", "FAIL", "CANCEL"}
RowStatuses == OpenRow \cup ClosedRow \cup {"NONE"}
=============================================================================
