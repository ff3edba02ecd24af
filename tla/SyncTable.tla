----------------------------- MODULE SyncTable -----------------------------
(***************************************************************************)
(* The sync_logs rows and the status of one connector that feeds one       *)
(* dataset.  Every operator is a statement or a transaction of the sync    *)
(* task DAO or of the connector DAO.  Points in time are the numbers of    *)
(* the documents created in the source so far; time_started, which only    *)
(* tells claims apart, is the number of the claim.                         *)
(***************************************************************************)
EXTENDS Integers, FiniteSets, FiniteSetsExt

CONSTANTS MaxTasks,    \* bound: rows ever inserted
          MaxClaims,   \* bound: claims
          MaxRetries   \* maxTaskRetries of an error class

ASSUME TableAssumption ==
  /\ MaxTasks \in Nat \ {0} /\ MaxClaims \in Nat
  /\ MaxRetries \in [{"transient", "non_transient"} -> Nat \ {0}]

VARIABLES task,     \* the rows
          conn,     \* connector.status
          claims,   \* claims so far
          lastEnd   \* poll_range_end of the SYNC completed last

TaskIds == 1 .. MaxTasks
Types == {"sync", "prune"}
Classes == DOMAIN MaxRetries
ConnStatus == {"schedule", "running", "cancel", "done", "fail"}

NoTask == [status |-> "absent", type |-> "sync", started |-> 0, start |-> 0, retries |-> 0, class |-> "none"]

TableTypeOK ==
  /\ task \in [TaskIds ->
       [status : ConnStatus \cup {"absent", "deleted"}, type : Types, started : 0 .. MaxClaims,
        start : Nat, retries : Nat, class : Classes \cup {"none"}]]
  /\ conn \in ConnStatus /\ claims \in 0 .. MaxClaims /\ lastEnd \in Nat
  /\ \A t, u \in TaskIds : t < u /\ task[u].status # "absent" => task[t].status # "absent"

With(rows, type, status) == {t \in TaskIds : rows[t].type = type /\ rows[t].status = status}
Unused(rows) == {t \in TaskIds : rows[t].status = "absent"}

\* A new row, as long as the bound allows.
Insert(rows, type, start) ==
  IF Unused(rows) = {} THEN rows
  ELSE [rows EXCEPT ![Min(Unused(rows))] = [NoTask EXCEPT !.status = "schedule", !.type = type, !.start = start]]

Claimable(t) == task[t].status = "schedule" /\ \A u \in TaskIds : task[u].status # "running"

\* ClaimTask, when it claims.
ClaimTask(t) ==
  /\ Claimable(t)
  /\ claims < MaxClaims
  /\ claims' = claims + 1
  /\ task' = [task EXCEPT ![t].status = "running", ![t].started = claims + 1]
  /\ UNCHANGED <<conn, lastEnd>>

MarkConnectorRunning == conn' = "running" /\ UNCHANGED <<task, claims, lastEnd>>

Restore(ids) ==
  /\ task' = [t \in TaskIds |-> IF t \in ids THEN [task[t] EXCEPT !.status = "schedule"] ELSE task[t]]
  /\ conn' = IF ids # {} /\ conn = "running" THEN "schedule" ELSE conn
  /\ UNCHANGED <<claims, lastEnd>>

Claimed(t, started) == task[t].status = "running" /\ (started = 0 \/ task[t].started = started)

\* RescheduleClaimed; 0 for any claim.
RescheduleClaimed(t, started) == Restore(IF Claimed(t, started) THEN {t} ELSE {})

\* Mutant of RecoverRunning: only the connector is reset.
RecoverConnector ==
  /\ conn' = IF conn = "running" THEN "schedule" ELSE conn
  /\ UNCHANGED <<task, claims, lastEnd>>

\* RecoverRunning
RecoverRunning == Restore({t \in TaskIds : task[t].status = "running"})

\* FailTask, without a connector.
FailTask(t) ==
  /\ task' = IF task[t].status \in {"absent", "deleted", "cancel"} THEN task
             ELSE [task EXCEPT ![t].status = "fail"]
  /\ UNCHANGED <<conn, claims, lastEnd>>

Attempts(t, class) == IF task[t].class = class THEN task[t].retries + 1 ELSE 1

\* HandleTransientFailure
HandleTransientFailure(t, class) ==
  LET attempts == Attempts(t, class)
      status == IF attempts >= MaxRetries[class] THEN "fail" ELSE "schedule"
  IN IF task[t].status # "running" THEN UNCHANGED <<task, conn, claims, lastEnd>>
     ELSE /\ task' = [task EXCEPT ![t].status = status, ![t].retries = attempts, ![t].class = class]
          /\ conn' = status
          /\ UNCHANGED <<claims, lastEnd>>

\* CompleteSyncTask and CompletePruneTask of a running task.  createScheduledTask
\* leaves the connector alone when the next task is there already.
Complete(t, end) ==
  LET type == task[t].type
      rows == [task EXCEPT ![t].status = "done"]
  IN
  /\ task[t].status = "running"
  /\ IF With(rows, type, "schedule") # {}
     THEN task' = rows /\ conn' = "done"
     ELSE /\ task' = Insert(rows, type, IF type = "sync" THEN end ELSE 0)
          /\ conn' = "schedule"
  /\ lastEnd' = IF type = "sync" THEN end ELSE lastEnd
  /\ UNCHANGED claims

\* CancelRunningOrScheduledLogs
CancelRunningOrScheduledLogs ==
  /\ task' = [t \in TaskIds |-> IF task[t].status \in {"schedule", "running"}
                                 THEN [task[t] EXCEPT !.status = "cancel"] ELSE task[t]]
  /\ UNCHANGED <<conn, claims, lastEnd>>

\* scheduleConnectorTask: nothing to do if such a task is scheduled or running.
ScheduleConnectorTask(rows, type) ==
  IF With(rows, type, "schedule") \cup With(rows, type, "running") # {} THEN rows
  ELSE Insert(rows, type, IF type = "sync" THEN lastEnd ELSE 0)

\* ScheduleConnectorTasks; prune is the connector's sync_deleted_files.
ScheduleConnectorTasks(prune) ==
  /\ LET rows == ScheduleConnectorTask(task, "sync") IN
     task' = IF prune THEN ScheduleConnectorTask(rows, "prune") ELSE rows
  /\ conn' = "schedule"
  /\ UNCHANGED <<claims, lastEnd>>

\* RebuildConnector, as far as it concerns these tables.
RebuildConnector(prune) ==
  LET rows == [t \in TaskIds |-> IF task[t].status = "absent" THEN task[t] ELSE [NoTask EXCEPT !.status = "deleted"]]
      new == Insert(rows, "sync", 0)
  IN
  /\ task' = IF prune THEN Insert(new, "prune", 0) ELSE new
  /\ conn' = "schedule" /\ lastEnd' = 0
  /\ UNCHANGED claims

\* ResumeFailedSyncTask
ResumeFailedSyncTask(t) ==
  /\ task[t].status = "fail" /\ task[t].type = "sync"
  /\ task' = [task EXCEPT ![t].status = "schedule"]
  /\ conn' = "schedule"
  /\ UNCHANGED <<claims, lastEnd>>
=============================================================================
