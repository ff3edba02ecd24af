----------------------------- MODULE SyncProofs -----------------------------
(***************************************************************************)
(* What the connector syncers keep true for any number of processes,       *)
(* workers, tasks, documents and faults: the types of the tables, a task   *)
(* that runs is in somebody's hands, and, as long as each process has one  *)
(* task worker, the connector lock excludes and no document is missed.     *)
(***************************************************************************)
EXTENDS SyncSystem, TLAPS

-----------------------------------------------------------------------------
(* The rows of the task table.                                             *)

Statuses == ConnStatus \cup {"absent", "deleted"}

\* A row, when the latest document is number c.
TaskRow(c) ==
  [status : Statuses, type : Types, started : 0 .. MaxClaims, start : 0 .. c, retries : Nat, class : Classes \cup {"none"}]

\* Ids are given in order: those up to a number n.
InOrder(rows) == \E n \in 0 .. MaxTasks : \A t \in TaskIds : rows[t].status # "absent" <=> t <= n

Rows(rows, c) == rows \in [TaskIds -> TaskRow(c)] /\ InOrder(rows)

\* A row that createScheduledTask inserts.
NewRow(type, start) == [NoTask EXCEPT !.status = "schedule", !.type = type, !.start = start]

\* Its fields.
LEMMA NewRowTyped ==
  ASSUME NEW c \in Nat, NEW type \in Types, NEW start \in 0 .. c
  PROVE  /\ NewRow(type, start) \in TaskRow(c)
         /\ NewRow(type, start).status = "schedule" /\ NewRow(type, start).start = start
         /\ NewRow(type, start).type = type
<1>1. NoTask \in TaskRow(c)
  BY TableAssumption DEF NoTask, TaskRow, Statuses, Types
<1> QED
  BY Zenon, <1>1 DEF NewRow, TaskRow, Statuses, ConnStatus

\* The table with another row t.
LEMMA RowTyped ==
  ASSUME NEW c \in Nat, NEW rows, Rows(rows, c), NEW t \in TaskIds, NEW r \in TaskRow(c),
         r.status = "absent" <=> rows[t].status = "absent"
  PROVE  Rows([rows EXCEPT ![t] = r], c)
<1> DEFINE new == [rows EXCEPT ![t] = r]
<1>1. new \in [TaskIds -> TaskRow(c)]
  BY Zenon DEF Rows
<1>2. \A u \in TaskIds : new[u].status = "absent" <=> rows[u].status = "absent"
  BY Zenon DEF Rows
<1> HIDE DEF new
<1>3. InOrder(new)
  BY Zenon, <1>2 DEF Rows, InOrder
<1> QED
  BY Zenon, <1>1, <1>3 DEF Rows, new

\* createScheduledTask inserts one row after all others, or the bound is reached.
LEMMA InsertTyped ==
  ASSUME NEW c \in Nat, NEW rows, Rows(rows, c), NEW type \in Types, NEW start \in 0 .. c
  PROVE  /\ Rows(Insert(rows, type, start), c)
         /\ \/ Insert(rows, type, start) = rows
            \/ \E n \in TaskIds : rows[n].status = "absent" /\ Insert(rows, type, start) = [rows EXCEPT ![n] = NewRow(type, start)]
<1>1. CASE Unused(rows) = {}
  BY Zenon, <1>1 DEF Insert
<1>2. CASE Unused(rows) # {}
  <2> DEFINE n == Min(Unused(rows))
             new == [rows EXCEPT ![n] = NewRow(type, start)]
  <2>1. PICK k \in 0 .. MaxTasks : \A t \in TaskIds : rows[t].status # "absent" <=> t <= k
    BY Zenon DEF Rows, InOrder
  <2>2. k + 1 \in TaskIds /\ Unused(rows) = k + 1 .. MaxTasks
    <3>1. Unused(rows) = {t \in TaskIds : ~ (t <= k)}
      BY Zenon, <2>1 DEF Unused
    <3> QED
      BY <1>2, <3>1, TableAssumption DEF TaskIds
  <2>3. n = k + 1 /\ n \in TaskIds
    <3>1. k + 1 \in Unused(rows) /\ \A u \in Unused(rows) : k + 1 <= u
      BY <2>2, TableAssumption DEF TaskIds
    <3>2. \A m \in Unused(rows) : m <= k + 1 => m = k + 1
      BY <2>2, TableAssumption
    <3> QED
      BY Zenon, <2>2, <3>1, <3>2 DEF Min
  <2>4. Insert(rows, type, start) = new
    BY Zenon, <1>2 DEF Insert, NewRow
  <2>5. NewRow(type, start) \in TaskRow(c) /\ NewRow(type, start).status = "schedule"
    BY Zenon, NewRowTyped
  <2>6. new \in [TaskIds -> TaskRow(c)]
    BY Zenon, <2>5 DEF Rows
  <2>7. \A u \in TaskIds : new[u] = IF u = n THEN NewRow(type, start) ELSE rows[u]
    BY Zenon DEF Rows
  <2> HIDE DEF n, new
  <2>8. rows[n].status = "absent"
    <3>1. ~ (n <= k)
      BY <2>3
    <3> QED
      BY Zenon, <2>1, <2>3, <3>1
  <2>9. n \in 0 .. MaxTasks /\ \A u \in TaskIds : u <= n <=> u = n \/ u <= k
    BY <2>3 DEF TaskIds
  <2>10. InOrder(new)
    BY Zenon, <2>1, <2>5, <2>7, <2>9 DEF InOrder
  <2> QED
    BY Zenon, <2>3, <2>4, <2>6, <2>8, <2>10 DEF Rows, new
<1> QED
  BY Zenon, <1>1, <1>2

-----------------------------------------------------------------------------
(* The statements that change the table.                                   *)

TableOK ==
  /\ Rows(task, clock) /\ conn \in ConnStatus /\ claims \in 0 .. MaxClaims /\ lastEnd \in 0 .. clock
  /\ clock \in Nat

\* What any statement but ClaimTask may do to a row r: a SYNC starts at 0 or where the last
\* one ended, cancelled and deleted rows remain so, and no row begins to run.
Follows(r, s, end) ==
  \/ s = r
  \/ r.status = "absent" /\ s.status = "schedule" /\ s.start \in {0, end}
  \/ /\ r.status \in ConnStatus \ {"cancel"} /\ s.status \in ConnStatus \ {"running"}
     /\ s.type = r.type /\ s.start = r.start
  \/ r.status # "absent" /\ s.status = "deleted"

RowsFollow(rows, new, end) == \A t \in TaskIds : Follows(rows[t], new[t], end)

TableStep == RowsFollow(task, task', lastEnd')

\* Only the connector changes, if anything does.
LEMMA TableRests ==
  ASSUME TableOK, task' = task, clock' = clock, conn' \in ConnStatus, claims' = claims, lastEnd' = lastEnd
  PROVE  TableOK' /\ TableStep
<1>1. Rows(task, clock)'
  BY Zenon DEF TableOK, Rows, InOrder
<1> QED
  BY Zenon, <1>1 DEF TableOK, TableStep, RowsFollow, Follows

\* Row t becomes r.
LEMMA TableSets ==
  ASSUME TableOK, clock' = clock, NEW t \in TaskIds, NEW r \in TaskRow(clock),
         task' = [task EXCEPT ![t] = r], r.status = "absent" <=> task[t].status = "absent",
         conn' \in ConnStatus, claims' \in 0 .. MaxClaims, lastEnd' \in 0 .. clock
  PROVE  /\ TableOK'
         /\ Follows(task[t], r, lastEnd') => TableStep
<1>1. Rows(task', clock)
  BY Zenon, RowTyped DEF TableOK
<1>2. Rows(task, clock)'
  BY Zenon, <1>1 DEF Rows, InOrder
<1>3. \A u \in TaskIds : task'[u] = IF u = t THEN r ELSE task[u]
  BY Zenon DEF TableOK, Rows
<1>4. Follows(task[t], r, lastEnd') => TableStep
  BY Zenon, <1>3 DEF TableStep, RowsFollow, Follows
<1> QED
  BY Zenon, <1>2, <1>4 DEF TableOK

\* ClaimTask
LEMMA ClaimTyped ==
  ASSUME TableOK, clock' = clock, NEW t \in TaskIds, ClaimTask(t)
  PROVE  /\ TableOK'
         /\ task'[t].status = "running" /\ task'[t].type = task[t].type /\ task'[t].start = task[t].start
         /\ \A u \in TaskIds \ {t} : task'[u] = task[u]
<1> DEFINE r == [task[t] EXCEPT !.status = "running", !.started = claims + 1]
<1>1. task' = [task EXCEPT ![t] = r]
  BY Zenon DEF ClaimTask, TableOK, Rows
<1>2. claims + 1 \in 0 .. MaxClaims
  BY TableAssumption DEF ClaimTask, TableOK
<1>3. task[t] \in TaskRow(clock)
  BY Zenon DEF TableOK, Rows
<1>4. /\ r \in TaskRow(clock) /\ r.status = "running"
      /\ r.type = task[t].type /\ r.start = task[t].start
  BY Zenon, <1>2, <1>3 DEF TaskRow, Statuses, ConnStatus
<1> HIDE DEF r
<1>5. TableOK'
  BY Zenon, <1>1, <1>2, <1>4, TableSets DEF ClaimTask, Claimable, TableOK
<1>6. task'[t] = r /\ \A u \in TaskIds \ {t} : task'[u] = task[u]
  BY Zenon, <1>1 DEF TableOK, Rows
<1> QED
  BY Zenon, <1>4, <1>5, <1>6

\* RescheduleClaimed and RecoverRunning put rows back that run.
LEMMA RestoreTyped ==
  ASSUME TableOK, clock' = clock, NEW ids \in SUBSET TaskIds, \A t \in ids : task[t].status = "running", Restore(ids)
  PROVE  TableOK' /\ TableStep /\ \A t \in ids : task'[t].status = "schedule"
<1>0. clock \in Nat /\ \A t \in TaskIds : task[t] \in TaskRow(clock)
  BY Zenon DEF TableOK, Rows
<1>1. \A t \in TaskIds : task'[t] = IF t \in ids THEN [task[t] EXCEPT !.status = "schedule"] ELSE task[t]
  BY Zenon DEF Restore
<1>2. "schedule" \in Statuses /\ "schedule" \in ConnStatus \ {"running"} /\ "running" \in ConnStatus \ {"cancel"}
  BY DEF Statuses, ConnStatus
<1>3. \A t \in ids : /\ task'[t] \in TaskRow(clock) /\ task'[t].status = "schedule"
                     /\ task'[t].type = task[t].type /\ task'[t].start = task[t].start
  <2> SUFFICES ASSUME NEW t \in ids
               PROVE  /\ task'[t] \in TaskRow(clock) /\ task'[t].status = "schedule"
                      /\ task'[t].type = task[t].type /\ task'[t].start = task[t].start
    BY Zenon
  <2> DEFINE r == [task[t] EXCEPT !.status = "schedule"]
  <2>1. task'[t] = r /\ task[t] \in TaskRow(clock)
    BY Zenon, <1>0, <1>1
  <2>2. r \in TaskRow(clock) /\ r.status = "schedule" /\ r.type = task[t].type /\ r.start = task[t].start
    BY <1>2, <2>1 DEF TaskRow
  <2> HIDE DEF r
  <2> QED
    BY Zenon, <2>1, <2>2
<1>4. \A t \in TaskIds : task'[t] \in TaskRow(clock) /\ (task'[t].status = "absent" <=> task[t].status = "absent")
  BY Zenon, <1>0, <1>1, <1>3
<1>5. task' \in [TaskIds -> TaskRow(clock)]
  BY Zenon, <1>4 DEF Restore
<1>6. InOrder(task)'
  BY Zenon, <1>4 DEF TableOK, Rows, InOrder
<1>7. TableStep
  BY Zenon, <1>1, <1>2, <1>3 DEF TableStep, RowsFollow, Follows
<1>8. conn' \in ConnStatus /\ claims' = claims /\ lastEnd' = lastEnd
  BY Zenon, <1>2 DEF Restore, TableOK
<1> QED
  BY Zenon, <1>3, <1>5, <1>6, <1>7, <1>8 DEF TableOK, Rows

\* RescheduleClaimed
LEMMA RescheduleTyped ==
  ASSUME TableOK, clock' = clock, NEW t \in TaskIds, NEW started, RescheduleClaimed(t, started)
  PROVE  TableOK' /\ TableStep /\ (Claimed(t, started) => task'[t].status = "schedule")
<1>1. CASE Claimed(t, started)
  <2>1. Restore({t}) /\ \A u \in {t} : task[u].status = "running"
    BY Zenon, <1>1 DEF RescheduleClaimed, Claimed
  <2> QED
    BY Zenon, <2>1, RestoreTyped
<1>2. CASE ~ Claimed(t, started)
  <2>1. Restore({}) /\ \A u \in {} : task[u].status = "running"
    BY Zenon, <1>2 DEF RescheduleClaimed
  <2> QED
    BY Zenon, <1>2, <2>1, RestoreTyped
<1> QED
  BY Zenon, <1>1, <1>2

\* RecoverRunning
LEMMA RecoverTyped ==
  ASSUME TableOK, clock' = clock, RecoverRunning
  PROVE  TableOK' /\ TableStep /\ \A t \in TaskIds : task'[t].status # "running"
<1> DEFINE ids == {t \in TaskIds : task[t].status = "running"}
<1>1. ids \in SUBSET TaskIds /\ (\A t \in ids : task[t].status = "running") /\ Restore(ids)
  BY Zenon DEF RecoverRunning
<1>2. TableOK' /\ TableStep /\ \A t \in ids : task'[t].status = "schedule"
  BY Zenon, <1>1, RestoreTyped
<1>3. \A t \in TaskIds : t \notin ids => task'[t] = task[t]
  BY Zenon, <1>1 DEF Restore
<1> QED
  BY Zenon, <1>2, <1>3

\* FailTask
LEMMA FailTyped ==
  ASSUME TableOK, clock' = clock, NEW t \in TaskIds, FailTask(t)
  PROVE  TableOK' /\ TableStep /\ task'[t].status # "running"
<1>0. clock \in Nat /\ task[t] \in TaskRow(clock) /\ conn' \in ConnStatus /\ claims' = claims /\ lastEnd' = lastEnd
  BY Zenon DEF TableOK, Rows, FailTask
<1>1. CASE task[t].status \in {"absent", "deleted", "cancel"}
  <2>1. task' = task /\ task'[t].status # "running"
    BY Zenon, <1>1 DEF FailTask
  <2> QED
    BY Zenon, <1>0, <2>1, TableRests
<1>2. CASE task[t].status \notin {"absent", "deleted", "cancel"}
  <2> DEFINE r == [task[t] EXCEPT !.status = "fail"]
  <2>1. task' = [task EXCEPT ![t] = r]
    BY <1>2 DEF FailTask, TableOK, Rows
  <2>2. "fail" \in Statuses /\ "fail" \in ConnStatus \ {"running"} /\ task[t].status \in ConnStatus \ {"cancel"}
    BY <1>0, <1>2 DEF TaskRow, Statuses, ConnStatus
  <2>3. r \in TaskRow(clock) /\ r.status = "fail" /\ r.type = task[t].type /\ r.start = task[t].start
    BY <1>0, <2>2 DEF TaskRow
  <2> HIDE DEF r
  <2>4. Follows(task[t], r, lastEnd') /\ r.status # "absent" /\ task[t].status # "absent"
    BY Zenon, <1>2, <2>2, <2>3 DEF Follows
  <2>5. task'[t] = r
    BY Zenon, <2>1 DEF TableOK, Rows
  <2>6. claims \in 0 .. MaxClaims /\ lastEnd \in 0 .. clock
    BY Zenon DEF TableOK
  <2>7. TableOK' /\ TableStep
    BY Zenon, <1>0, <2>1, <2>3, <2>4, <2>6, TableSets
  <2> QED
    BY Zenon, <2>3, <2>5, <2>7
<1> QED
  BY Zenon, <1>1, <1>2

\* HandleTransientFailure
LEMMA FailureTyped ==
  ASSUME TableOK, clock' = clock, NEW t \in TaskIds, NEW class \in Classes, HandleTransientFailure(t, class)
  PROVE  TableOK' /\ TableStep /\ task'[t].status # "running"
<1>0. clock \in Nat /\ task[t] \in TaskRow(clock)
  BY Zenon DEF TableOK, Rows
<1>1. CASE task[t].status # "running"
  <2>1. task' = task /\ conn' \in ConnStatus /\ claims' = claims /\ lastEnd' = lastEnd
    BY Zenon, <1>1 DEF HandleTransientFailure, TableOK
  <2> QED
    BY Zenon, <1>1, <2>1, TableRests
<1>2. CASE task[t].status = "running"
  <2>1. PICK status \in {"fail", "schedule"} :
          /\ task' = [task EXCEPT ![t].status = status, ![t].retries = Attempts(t, class), ![t].class = class]
          /\ conn' = status /\ claims' = claims /\ lastEnd' = lastEnd
    BY Zenon, <1>2 DEF HandleTransientFailure
  <2> DEFINE r == [task[t] EXCEPT !.status = status, !.retries = Attempts(t, class), !.class = class]
  <2>2. task' = [task EXCEPT ![t] = r]
    BY Zenon, <2>1 DEF TableOK, Rows
  <2>3. Attempts(t, class) \in Nat
    BY <1>0 DEF Attempts, TaskRow
  <2>4. /\ status \in Statuses /\ status \in ConnStatus \ {"running"} /\ "running" \in ConnStatus \ {"cancel"}
        /\ status # "absent"
    BY DEF Statuses, ConnStatus
  <2>5. r \in TaskRow(clock) /\ r.status = status /\ r.type = task[t].type /\ r.start = task[t].start
    BY Zenon, <1>0, <2>3, <2>4 DEF TaskRow
  <2> HIDE DEF r
  <2>6. Follows(task[t], r, lastEnd') /\ r.status # "absent" /\ task[t].status # "absent"
    BY Zenon, <1>2, <2>4, <2>5 DEF Follows
  <2>7. task'[t] = r
    BY Zenon, <2>2 DEF TableOK, Rows
  <2>8. claims \in 0 .. MaxClaims /\ lastEnd \in 0 .. clock
    BY Zenon DEF TableOK
  <2>9. conn' \in ConnStatus
    BY Zenon, <2>1, <2>4
  <2>10. TableOK' /\ TableStep
    BY Zenon, <2>1, <2>2, <2>5, <2>6, <2>8, <2>9, TableSets
  <2> QED
    BY Zenon, <2>4, <2>5, <2>7, <2>10
<1> QED
  BY Zenon, <1>1, <1>2

\* A row is inserted after other changes.
LEMMA InsertFollows ==
  ASSUME NEW c \in Nat, NEW rows, NEW new, Rows(new, c), NEW end, RowsFollow(rows, new, end),
         NEW type \in Types, NEW start \in 0 .. c, start \in {0, end}
  PROVE  Rows(Insert(new, type, start), c) /\ RowsFollow(rows, Insert(new, type, start), end)
<1>1. CASE Insert(new, type, start) = new
  BY Zenon, <1>1
<1>2. ASSUME NEW n \in TaskIds, new[n].status = "absent", Insert(new, type, start) = [new EXCEPT ![n] = NewRow(type, start)]
      PROVE  RowsFollow(rows, Insert(new, type, start), end)
  <2> DEFINE ins == Insert(new, type, start)
             row == NewRow(type, start)
  <2>1. \A t \in TaskIds : ins[t] = IF t = n THEN row ELSE new[t]
    BY Zenon, <1>2 DEF Rows
  <2>2. row.status = "schedule" /\ row.start = start
    BY Zenon, NewRowTyped
  <2>3. rows[n].status = "absent"
    <3>1. "absent" \notin ConnStatus
      BY DEF ConnStatus
    <3> QED
      BY Zenon, <1>2, <3>1 DEF RowsFollow, Follows
  <2> HIDE DEF ins, row
  <2>4. Follows(rows[n], row, end)
    BY Zenon, <2>2, <2>3 DEF Follows
  <2>5. RowsFollow(rows, ins, end)
    BY Zenon, <2>1, <2>4 DEF RowsFollow
  <2> QED
    BY Zenon, <2>5 DEF ins
<1>3. /\ Rows(Insert(new, type, start), c)
      /\ \/ Insert(new, type, start) = new
         \/ \E n \in TaskIds : new[n].status = "absent" /\ Insert(new, type, start) = [new EXCEPT ![n] = NewRow(type, start)]
  BY InsertTyped
<1> QED
  BY Zenon, <1>1, <1>2, <1>3

\* Rows that exist stay as they are.
LEMMA InsertKeeps ==
  ASSUME NEW c \in Nat, NEW new, Rows(new, c), NEW type \in Types, NEW start \in 0 .. c,
         NEW t \in TaskIds, new[t].status # "absent"
  PROVE  Insert(new, type, start)[t] = new[t]
<1>1. \/ Insert(new, type, start) = new
      \/ \E n \in TaskIds : new[n].status = "absent" /\ Insert(new, type, start) = [new EXCEPT ![n] = NewRow(type, start)]
  BY InsertTyped
<1> QED
  BY Zenon, <1>1 DEF Rows

\* CompleteSyncTask and CompletePruneTask
LEMMA CompleteTyped ==
  ASSUME TableOK, clock' = clock, NEW t \in TaskIds, NEW end \in 0 .. clock, Complete(t, end)
  PROVE  /\ TableOK' /\ TableStep /\ task'[t].status # "running"
         /\ task[t].status = "running" /\ lastEnd' = IF task[t].type = "sync" THEN end ELSE lastEnd
<1> DEFINE r == [task[t] EXCEPT !.status = "done"]
           rows == [task EXCEPT ![t] = r]
           start == IF task[t].type = "sync" THEN end ELSE 0
<1>0. clock \in Nat /\ task[t] \in TaskRow(clock) /\ task \in [TaskIds -> TaskRow(clock)]
  BY Zenon DEF TableOK, Rows
<1>1. rows = [task EXCEPT ![t].status = "done"]
  BY <1>0
<1>2. /\ r \in TaskRow(clock) /\ r.status = "done" /\ r.type = task[t].type /\ r.start = task[t].start
      /\ task[t].type \in Types
  BY <1>0 DEF TaskRow, Statuses, ConnStatus
<1>3. /\ task[t].status = "running" /\ claims' = claims
      /\ lastEnd' = IF task[t].type = "sync" THEN end ELSE lastEnd
      /\ conn' \in {"done", "schedule"}
      /\ task' = rows \/ task' = Insert(rows, task[t].type, start)
  BY Zenon, <1>1 DEF Complete
<1>4. start \in 0 .. clock /\ start \in {0, lastEnd'} /\ lastEnd' \in 0 .. clock
  BY <1>0, <1>3 DEF TableOK
<1>5. /\ "done" \in ConnStatus \ {"running"} /\ "running" \in ConnStatus \ {"cancel"} /\ conn' \in ConnStatus
  BY <1>3 DEF ConnStatus
<1>6. \A u \in TaskIds : rows[u] = IF u = t THEN r ELSE task[u]
  BY Zenon, <1>0
<1>7. Rows(rows, clock)
  BY Zenon, <1>0, <1>2, <1>3, RowTyped DEF TableOK
<1> HIDE DEF r, rows, start
<1>8. RowsFollow(task, rows, lastEnd')
  BY Zenon, <1>2, <1>3, <1>5, <1>6 DEF RowsFollow, Follows
<1>9. Rows(task', clock) /\ RowsFollow(task, task', lastEnd')
  <2>1. Rows(Insert(rows, task[t].type, start), clock) /\ RowsFollow(task, Insert(rows, task[t].type, start), lastEnd')
    BY <1>0, <1>2, <1>4, <1>7, <1>8, InsertFollows
  <2> QED
    BY Zenon, <1>3, <1>7, <1>8, <2>1
<1>10. task'[t].status # "running"
  <2>1. Insert(rows, task[t].type, start)[t] = rows[t]
    BY <1>0, <1>2, <1>4, <1>6, <1>7, InsertKeeps
  <2> QED
    BY Zenon, <1>2, <1>3, <1>6, <2>1
<1>11. Rows(task, clock)'
  BY Zenon, <1>9 DEF Rows, InOrder
<1> QED
  BY Zenon, <1>0, <1>3, <1>4, <1>5, <1>9, <1>10, <1>11 DEF TableOK, TableStep

\* Many rows change at once, and each keeps its place.
LEMMA TableMaps ==
  ASSUME TableOK, clock' = clock, task' \in [TaskIds -> TaskRow(clock)],
         \A t \in TaskIds : task'[t].status = "absent" <=> task[t].status = "absent",
         conn' \in ConnStatus, claims' = claims, lastEnd' = lastEnd
  PROVE  TableOK'
<1>1. InOrder(task)'
  BY Zenon DEF TableOK, Rows, InOrder
<1> QED
  BY Zenon, <1>1 DEF TableOK, Rows

\* CancelRunningOrScheduledLogs
LEMMA CancelTyped ==
  ASSUME TableOK, clock' = clock, CancelRunningOrScheduledLogs
  PROVE  TableOK' /\ TableStep
<1>0. clock \in Nat /\ conn' \in ConnStatus /\ claims' = claims /\ lastEnd' = lastEnd
  BY Zenon DEF TableOK, CancelRunningOrScheduledLogs
<1>1. ASSUME NEW t \in TaskIds
      PROVE  /\ task'[t] \in TaskRow(clock) /\ Follows(task[t], task'[t], lastEnd')
             /\ task'[t].status = "absent" <=> task[t].status = "absent"
  <2> DEFINE r == [task[t] EXCEPT !.status = "cancel"]
  <2>1. task[t] \in TaskRow(clock)
    BY Zenon DEF TableOK, Rows
  <2>2. /\ r \in TaskRow(clock) /\ r.status = "cancel" /\ r.type = task[t].type /\ r.start = task[t].start
        /\ "cancel" \in ConnStatus \ {"running"} /\ {"schedule", "running"} \in SUBSET (ConnStatus \ {"cancel"})
    BY <2>1 DEF TaskRow, Statuses, ConnStatus
  <2>3. task'[t] = IF task[t].status \in {"schedule", "running"} THEN r ELSE task[t]
    BY Zenon DEF CancelRunningOrScheduledLogs
  <2> HIDE DEF r
  <2>4. CASE task[t].status \in {"schedule", "running"}
    BY Zenon, <2>2, <2>3, <2>4 DEF Follows
  <2>5. CASE task[t].status \notin {"schedule", "running"}
    BY Zenon, <2>1, <2>3, <2>5 DEF Follows
  <2> QED
    BY Zenon, <2>4, <2>5
<1>2. task' \in [TaskIds -> TaskRow(clock)]
  BY Zenon, <1>1 DEF CancelRunningOrScheduledLogs
<1> QED
  BY Zenon, <1>0, <1>1, <1>2, TableMaps DEF TableStep, RowsFollow

\* scheduleConnectorTask
LEMMA ScheduleOneTyped ==
  ASSUME TableOK, NEW new, Rows(new, clock), RowsFollow(task, new, lastEnd), NEW type \in Types
  PROVE  /\ Rows(ScheduleConnectorTask(new, type), clock)
         /\ RowsFollow(task, ScheduleConnectorTask(new, type), lastEnd)
<1> DEFINE start == IF type = "sync" THEN lastEnd ELSE 0
<1>1. ScheduleConnectorTask(new, type) \in {new, Insert(new, type, start)}
  BY Zenon DEF ScheduleConnectorTask
<1>2. clock \in Nat /\ start \in 0 .. clock /\ start \in {0, lastEnd}
  BY DEF TableOK
<1> HIDE DEF start
<1>3. Rows(Insert(new, type, start), clock) /\ RowsFollow(task, Insert(new, type, start), lastEnd)
  BY <1>2, InsertFollows
<1> QED
  BY Zenon, <1>1, <1>3

\* ScheduleConnectorTasks
LEMMA ScheduleTyped ==
  ASSUME TableOK, clock' = clock, NEW prune, ScheduleConnectorTasks(prune)
  PROVE  TableOK' /\ TableStep
<1>1. "sync" \in Types /\ "prune" \in Types /\ "schedule" \in ConnStatus
  BY DEF Types, ConnStatus
<1>2. Rows(task, clock) /\ RowsFollow(task, task, lastEnd)
  BY Zenon DEF TableOK, RowsFollow, Follows
<1> DEFINE new == ScheduleConnectorTask(task, "sync")
<1>3. Rows(new, clock) /\ RowsFollow(task, new, lastEnd)
  BY Zenon, <1>1, <1>2, ScheduleOneTyped
<1>4. task' \in {new, ScheduleConnectorTask(new, "prune")} /\ conn' = "schedule" /\ claims' = claims /\ lastEnd' = lastEnd
  BY Zenon DEF ScheduleConnectorTasks
<1> HIDE DEF new
<1>5. Rows(task', clock) /\ RowsFollow(task, task', lastEnd)
  BY Zenon, <1>1, <1>3, <1>4, ScheduleOneTyped
<1>6. Rows(task, clock)'
  BY Zenon, <1>5 DEF Rows, InOrder
<1> QED
  BY Zenon, <1>1, <1>4, <1>5, <1>6 DEF TableOK, TableStep

\* RebuildConnector
LEMMA RebuildTyped ==
  ASSUME TableOK, clock' = clock, NEW prune, RebuildConnector(prune)
  PROVE  /\ TableOK' /\ TableStep /\ lastEnd' = 0
         /\ \A t \in TaskIds : task[t].status # "absent" => task'[t].status = "deleted"
<1> DEFINE gone == [NoTask EXCEPT !.status = "deleted"]
           rows == [t \in TaskIds |-> IF task[t].status = "absent" THEN task[t] ELSE gone]
           new == Insert(rows, "sync", 0)
<1>0. clock \in Nat /\ 0 \in 0 .. clock
  BY DEF TableOK
<1>1. "sync" \in Types /\ "prune" \in Types /\ "schedule" \in ConnStatus
  BY DEF Types, ConnStatus
<1>2. gone \in TaskRow(clock) /\ gone.status = "deleted"
  <2>1. NoTask \in TaskRow(clock)
    BY <1>0, TableAssumption DEF NoTask, TaskRow, Statuses, Types
  <2> QED
    BY <2>1 DEF TaskRow, Statuses
<1>3. task' \in {new, Insert(new, "prune", 0)} /\ conn' = "schedule" /\ claims' = claims /\ lastEnd' = 0
  BY Zenon DEF RebuildConnector
<1> HIDE DEF gone
<1>4. \A t \in TaskIds : rows[t] = IF task[t].status = "absent" THEN task[t] ELSE gone
  BY Zenon
<1>5. rows \in [TaskIds -> TaskRow(clock)]
  <2>1. \A t \in TaskIds : rows[t] \in TaskRow(clock)
    BY Zenon, <1>2, <1>4 DEF TableOK, Rows
  <2> QED
    BY Zenon, <2>1
<1> HIDE DEF rows
<1>6. InOrder(rows)
  BY Zenon, <1>2, <1>4 DEF TableOK, Rows, InOrder
<1>7. Rows(rows, clock) /\ RowsFollow(task, rows, 0)
  BY Zenon, <1>2, <1>4, <1>5, <1>6 DEF Rows, RowsFollow, Follows
<1>8. Rows(new, clock) /\ RowsFollow(task, new, 0)
  BY <1>0, <1>1, <1>7, InsertFollows
<1>9. Rows(Insert(new, "prune", 0), clock) /\ RowsFollow(task, Insert(new, "prune", 0), 0)
  BY <1>0, <1>1, <1>8, InsertFollows
<1>10. Rows(task', clock) /\ RowsFollow(task, task', 0)
  BY Zenon, <1>3, <1>8, <1>9
<1>11. Rows(task, clock)'
  BY Zenon, <1>10 DEF Rows, InOrder
<1>12. TableOK' /\ TableStep
  BY Zenon, <1>0, <1>1, <1>3, <1>10, <1>11 DEF TableOK, TableStep
<1>13. ASSUME NEW t \in TaskIds, task[t].status # "absent"
       PROVE  task'[t].status = "deleted"
  <2>1. rows[t].status = "deleted"
    BY Zenon, <1>2, <1>4, <1>13
  <2>2. \A r \in TaskRow(clock) : r.status \in Statuses
    BY DEF TaskRow
  <2>3. new[t] = rows[t]
    BY Zenon, <1>0, <1>1, <1>7, <2>1, InsertKeeps
  <2>4. Insert(new, "prune", 0)[t] = new[t]
    BY Zenon, <1>0, <1>1, <1>8, <2>1, <2>3, InsertKeeps
  <2> QED
    BY Zenon, <1>3, <2>1, <2>3, <2>4
<1> QED
  BY Zenon, <1>3, <1>12, <1>13

\* ResumeFailedSyncTask
LEMMA ResumeTyped ==
  ASSUME TableOK, clock' = clock, NEW t \in TaskIds, ResumeFailedSyncTask(t)
  PROVE  TableOK' /\ TableStep
<1> DEFINE r == [task[t] EXCEPT !.status = "schedule"]
<1>1. clock \in Nat /\ task[t] \in TaskRow(clock) /\ task \in [TaskIds -> TaskRow(clock)]
  BY Zenon DEF TableOK, Rows
<1>2. task' = [task EXCEPT ![t] = r]
  BY <1>1 DEF ResumeFailedSyncTask
<1>3. /\ r \in TaskRow(clock) /\ r.status = "schedule" /\ r.type = task[t].type /\ r.start = task[t].start
      /\ "schedule" \in ConnStatus \ {"running"} /\ "fail" \in ConnStatus \ {"cancel"}
  BY <1>1 DEF TaskRow, Statuses, ConnStatus
<1>4. task[t].status = "fail" /\ conn' = "schedule" /\ claims' = claims /\ lastEnd' = lastEnd
  BY Zenon DEF ResumeFailedSyncTask
<1> HIDE DEF r
<1>5. Follows(task[t], r, lastEnd') /\ r.status # "absent" /\ task[t].status # "absent"
  BY Zenon, <1>3, <1>4 DEF Follows
<1>6. claims' \in 0 .. MaxClaims /\ lastEnd' \in 0 .. clock /\ conn' \in ConnStatus
  BY Zenon, <1>3, <1>4 DEF TableOK
<1> QED
  BY Zenon, <1>2, <1>3, <1>5, <1>6, TableSets

-----------------------------------------------------------------------------
(* The types of workers and checkpoints.                                   *)

CheckpointsAt(c) == [start : 0 .. c, end : 0 .. c, mark : 0 .. c, restarts : 0 .. MaxRestarts]

WorkerRow(c) ==
  [pc : Places, t : TaskIds \cup {0}, type : Types, started : 0 .. MaxClaims, start : 0 .. c,
   cp : CheckpointsAt(c), last : 0 .. c, queued : SUBSET (1 .. c), ok : SUBSET (1 .. c), bad : SUBSET (1 .. c),
   retain : SUBSET (1 .. c), error : {"none", "failed", "canceled"}, next : TaskIds \cup {0}]

\* A worker that has a delivery has a task.
Placed(x) == x.pc \notin {"idle", "unlock", "release"} => x.t \in TaskIds

WorkersOK == worker \in [Workers -> WorkerRow(clock)] /\ \A w \in Workers : Placed(worker[w])

RunOK ==
  /\ scenario \in Scenarios
  /\ clock \in Docs /\ source \subseteq 1 .. clock /\ kb \subseteq 1 .. clock
  /\ ckpt \in [TaskIds -> CheckpointsAt(clock)]

\* Worker w becomes x.
LEMMA WorkerBecomes ==
  ASSUME WorkersOK, clock' = clock, NEW w \in Workers, NEW x \in WorkerRow(clock), Placed(x), Becomes(w, x)
  PROVE  WorkersOK'
<1>1. worker' \in [Workers -> WorkerRow(clock)]
  BY Zenon DEF WorkersOK, Becomes
<1>2. \A v \in Workers : worker'[v] = IF v = w THEN x ELSE worker[v]
  BY Zenon DEF WorkersOK, Becomes
<1>3. \A v \in Workers : Placed(worker'[v])
  BY Zenon, <1>2 DEF WorkersOK
<1>4. worker' \in [Workers -> WorkerRow(clock')]
  BY Zenon, <1>1
<1> QED
  BY Zenon, <1>3, <1>4 DEF WorkersOK, WorkerRow, CheckpointsAt, Placed

\* Its place changes.
LEMMA PlaceTyped ==
  ASSUME NEW c, NEW x \in WorkerRow(c), NEW pc \in Places
  PROVE  /\ [x EXCEPT !.pc = pc] \in WorkerRow(c)
         /\ [x EXCEPT !.pc = pc].pc = pc /\ [x EXCEPT !.pc = pc].t = x.t
BY DEF WorkerRow

\* Goes is a case of Becomes.
LEMMA GoesBecomes ==
  ASSUME WorkersOK, NEW w \in Workers, NEW pc, Goes(w, pc)
  PROVE  Becomes(w, [worker[w] EXCEPT !.pc = pc])
BY DEF Goes, Becomes, WorkersOK

\* A worker goes on with its task.
LEMMA WorkerGoes ==
  ASSUME WorkersOK, clock' = clock, NEW w \in Workers, NEW pc \in Places, Goes(w, pc),
         worker[w].pc \in {"idle", "unlock", "release"} => pc \in {"idle", "unlock", "release"}
  PROVE  WorkersOK'
<1> DEFINE x == [worker[w] EXCEPT !.pc = pc]
<1>1. worker[w] \in WorkerRow(clock) /\ Placed(worker[w])
  BY Zenon DEF WorkersOK
<1>2. x \in WorkerRow(clock) /\ x.pc = pc /\ x.t = worker[w].t
  BY <1>1 DEF WorkerRow
<1>3. Becomes(w, x)
  BY Zenon, GoesBecomes
<1> HIDE DEF x
<1>4. Placed(x)
  BY Zenon, <1>1, <1>2 DEF Placed
<1> QED
  BY Zenon, <1>2, <1>3, <1>4, WorkerBecomes

\* A worker without a task.
LEMMA RestingTyped ==
  ASSUME NEW c \in Nat
  PROVE  Resting \in WorkerRow(c) /\ Resting.pc = "idle" /\ Resting.t = 0
<1>1. NoCheckpoint \in CheckpointsAt(c)
  BY RunnerAssumption DEF NoCheckpoint, CheckpointsAt
<1> QED
  BY <1>1, TableAssumption DEF Resting, WorkerRow, Places, Types

\* A worker that has settled its delivery.
LEMMA WorkerRests ==
  ASSUME WorkersOK, clock \in Nat, clock' = clock, NEW w \in Workers, NEW pc \in {"idle", "unlock"},
         Becomes(w, [Resting EXCEPT !.pc = pc])
  PROVE  WorkersOK'
<1> DEFINE x == [Resting EXCEPT !.pc = pc]
<1>1. pc \in Places
  BY DEF Places
<1>2. x \in WorkerRow(clock) /\ x.pc = pc
  BY <1>1, RestingTyped, PlaceTyped
<1>3. Becomes(w, x)
  BY Zenon
<1> HIDE DEF x
<1>4. Placed(x)
  BY Zenon, <1>2 DEF Placed
<1> QED
  BY Zenon, <1>2, <1>3, <1>4, WorkerBecomes

\* The same, for a worker that has finished.
LEMMA WorkerIdles ==
  ASSUME WorkersOK, clock \in Nat, clock' = clock, NEW w \in Workers, Becomes(w, Resting)
  PROVE  WorkersOK'
<1>1. Resting \in WorkerRow(clock) /\ Placed(Resting)
  BY Zenon, RestingTyped DEF Placed
<1> QED
  BY Zenon, <1>1, WorkerBecomes

\* A run ends with an error.
LEMMA WorkerEnds ==
  ASSUME WorkersOK, clock' = clock, NEW w \in Workers, NEW error, Ends(w, error),
         worker[w].pc \notin {"idle", "unlock", "release"}
  PROVE  WorkersOK'
<1> DEFINE pc == IF error = "canceled" THEN "ack" ELSE "failed"
           x == [worker[w] EXCEPT !.pc = pc, !.queued = {}]
<1>1. worker[w] \in WorkerRow(clock) /\ worker[w].t \in TaskIds
  BY Zenon DEF WorkersOK, Placed
<1>2. Becomes(w, x) /\ pc \in Places
  BY Zenon DEF Ends, Places
<1> HIDE DEF pc
<1>3. x \in WorkerRow(clock) /\ x.t = worker[w].t
  BY Zenon, <1>1, <1>2 DEF WorkerRow
<1> HIDE DEF x
<1> QED
  BY Zenon, <1>1, <1>2, <1>3, WorkerBecomes DEF Placed

\* A worker's checkpoint changes, in its memory and in the table.
LEMMA CheckpointTyped ==
  ASSUME RunOK, UNCHANGED worldVars, kb' = kb, NEW t, NEW cp \in CheckpointsAt(clock), ckpt' = [ckpt EXCEPT ![t] = cp]
  PROVE  RunOK'
<1>1. UNCHANGED <<scenario, clock, source>>
  BY Zenon DEF worldVars
<1>2. ckpt' \in [TaskIds -> CheckpointsAt(clock)]
  BY Zenon DEF RunOK
<1>3. ckpt' \in [TaskIds -> CheckpointsAt(clock')]
  BY Zenon, <1>1, <1>2
<1> QED
  BY Zenon, <1>1, <1>3 DEF RunOK, CheckpointsAt

\* Nothing changes there.
LEMMA RunRests ==
  ASSUME RunOK, UNCHANGED worldVars, kb' \subseteq 1 .. clock, ckpt' = ckpt
  PROVE  RunOK'
<1>1. UNCHANGED <<scenario, clock, source>>
  BY Zenon DEF worldVars
<1>2. ckpt' \in [TaskIds -> CheckpointsAt(clock')]
  BY Zenon, <1>1 DEF RunOK
<1> QED
  BY Zenon, <1>1, <1>2 DEF RunOK, CheckpointsAt

\* The table stays as it is.
LEMMA TableSame ==
  ASSUME TableOK, clock' = clock, UNCHANGED tableVars
  PROVE  TableOK' /\ TableStep
<1>1. UNCHANGED <<task, conn, claims, lastEnd>>
  BY Zenon DEF tableVars
<1> QED
  BY Zenon, <1>1, TableRests DEF TableOK

\* A step of prepareCheckpoint, the loop of Run, an executor's job, collectResults,
\* DeleteStale, CompleteSync or CompletePrune.
LEMMA RunTyped ==
  ASSUME TableOK, WorkersOK, RunOK, NEW w \in Workers, RunStep(w)
  PROVE  TableOK' /\ TableStep /\ WorkersOK' /\ RunOK'
<1> DEFINE x == worker[w]
<1>0. /\ clock' = clock /\ UNCHANGED worldVars
      /\ clock \in Nat /\ x \in WorkerRow(clock) /\ Placed(x)
      /\ source \in SUBSET (1 .. clock) /\ kb \in SUBSET (1 .. clock)
  <2>1. UNCHANGED worldVars
    BY ZenonT(60) DEF RunStep, Open, List, Restart, Job, Collect, Snapshot, Purge, Finish, Uncheck, Breaks
  <2>2. x \in WorkerRow(clock) /\ Placed(x)
    BY Zenon DEF WorkersOK
  <2> QED
    BY Zenon, <2>1, <2>2 DEF worldVars, TableOK, RunOK
<1>1. /\ x.cp \in CheckpointsAt(clock) /\ x.queued \in SUBSET (1 .. clock) /\ x.ok \in SUBSET (1 .. clock)
      /\ x.bad \in SUBSET (1 .. clock) /\ x.last \in 0 .. clock /\ x.start \in 0 .. clock /\ x.type \in Types
      /\ x.error \in {"none", "failed", "canceled"} /\ x.t \in TaskIds \cup {0}
  BY <1>0 DEF WorkerRow
<1>2. ASSUME x.pc \in Running PROVE x.t \in TaskIds
  BY Zenon, <1>0, <1>2 DEF Running, Placed
<1>3. Running \in SUBSET Places /\ \A pc \in Running : pc \notin {"idle", "unlock", "release"}
  BY Zenon DEF Places, Running
<1>4. ASSUME NEW pc \in Places, Goes(w, pc), x.pc \in Running
      PROVE  WorkersOK'
  BY Zenon, <1>0, <1>3, <1>4, WorkerGoes
<1>5. ASSUME NEW error, Ends(w, error), x.pc \in Running
      PROVE  WorkersOK'
  BY Zenon, <1>0, <1>3, <1>5, WorkerEnds
<1>6. ASSUME NEW y \in WorkerRow(clock), y.t = x.t, y.pc \in Running \/ y.pc = x.pc, x.pc \in Running \/ y.pc = x.pc,
             Becomes(w, y)
      PROVE  WorkersOK'
  <2>1. Placed(y)
    BY Zenon, <1>0, <1>2, <1>6 DEF Placed
  <2> QED
    BY Zenon, <1>0, <1>6, <2>1, WorkerBecomes
<1>7. UNCHANGED tableVars => TableOK' /\ TableStep
  BY Zenon, <1>0, TableSame
<1>8. ASSUME kb' = kb, ckpt' = ckpt PROVE RunOK'
  BY Zenon, <1>0, <1>8, RunRests
<1>9. "snapshot" \in Running /\ "list" \in Running /\ "collect" \in Running /\ "complete" \in Running
      /\ "uncheck" \in Running /\ "purge" \in Running /\ "open" \in Running /\ "next" \in Places
  BY DEF Running, Places
<1>10. CASE Open(w)
  <2> DEFINE old == ckpt[x.t]
             fresh == [NoCheckpoint EXCEPT !.start = x.start, !.end = clock]
             new == IF old.end # 0 THEN old ELSE fresh
             y == [x EXCEPT !.pc = "list", !.cp = new, !.last = new.mark]
  <2>1. x.pc = "open" /\ kb' = kb /\ UNCHANGED tableVars
    BY Zenon, <1>10 DEF Open
  <2>2. CASE x.type = "sync"
    <3>1. ckpt' = [ckpt EXCEPT ![x.t] = new] /\ Becomes(w, y)
      BY Zenon, <1>10, <2>2 DEF Open
    <3>2. old \in CheckpointsAt(clock)
      BY Zenon, <1>2, <1>9, <2>1 DEF RunOK
    <3>3. fresh \in CheckpointsAt(clock)
      <4>1. NoCheckpoint \in CheckpointsAt(clock)
        BY <1>0, RunnerAssumption DEF NoCheckpoint, CheckpointsAt
      <4>2. x.start \in 0 .. clock /\ clock \in 0 .. clock
        BY <1>0, <1>1
      <4> HIDE DEF x
      <4> QED
        BY Zenon, <4>1, <4>2 DEF CheckpointsAt
    <3> HIDE DEF old, fresh
    <3>4. new \in CheckpointsAt(clock)
      BY Zenon, <3>2, <3>3
    <3> HIDE DEF new
    <3>5. new.mark \in 0 .. clock
      BY <3>4 DEF CheckpointsAt
    <3>6. y \in WorkerRow(clock) /\ y.t = x.t /\ y.pc = "list"
      BY Zenon, <1>0, <1>3, <1>9, <3>4, <3>5 DEF WorkerRow
    <3> HIDE DEF y
    <3>7. WorkersOK'
      BY Zenon, <1>6, <1>9, <2>1, <3>1, <3>6
    <3>8. RunOK'
      BY Zenon, <1>0, <2>1, <3>1, <3>4, CheckpointTyped
    <3> QED
      BY Zenon, <1>7, <2>1, <3>7, <3>8
  <2>3. CASE x.type # "sync"
    <3>1. ckpt' = ckpt /\ Goes(w, "snapshot")
      BY Zenon, <1>10, <2>3 DEF Open
    <3> QED
      BY Zenon, <1>3, <1>4, <1>7, <1>8, <1>9, <2>1, <3>1
  <2> QED
    BY Zenon, <2>2, <2>3
<1>11. CASE List(w)
  <2>1. x.pc = "list" /\ kb' = kb /\ ckpt' = ckpt /\ UNCHANGED tableVars
    BY Zenon, <1>11 DEF List
  <2>2. CASE Ends(w, StopError(w)) \/ Goes(w, "collect")
    BY Zenon, <1>3, <1>4, <1>5, <1>7, <1>8, <1>9, <2>1, <2>2
  <2>3. ASSUME NEW i \in Earliest(Unlisted(w)), Becomes(w, [x EXCEPT !.last = i, !.queued = @ \cup {i}])
        PROVE  WorkersOK'
    <3> DEFINE y == [x EXCEPT !.last = i, !.queued = @ \cup {i}]
    <3>1. i \in source
      BY Zenon DEF Earliest, Unlisted
    <3>2. i \in 1 .. clock /\ i \in 0 .. clock
      BY <1>0, <3>1
    <3>3. Becomes(w, y)
      BY Zenon, <2>3
    <3>4. y \in WorkerRow(clock) /\ y.t = x.t /\ y.pc = x.pc
      BY Zenon, <1>0, <3>2 DEF WorkerRow
    <3> HIDE DEF y
    <3> QED
      BY Zenon, <1>6, <3>3, <3>4
  <2>4. ASSUME Becomes(w, [x EXCEPT !.pc = "collect", !.error = "failed"])
        PROVE  WorkersOK'
    <3> DEFINE y == [x EXCEPT !.pc = "collect", !.error = "failed"]
    <3>1. y \in WorkerRow(clock) /\ y.t = x.t /\ y.pc = "collect"
      BY Zenon, <1>0, <1>3, <1>9 DEF WorkerRow
    <3>2. Becomes(w, y)
      BY Zenon, <2>4
    <3> HIDE DEF y
    <3> QED
      BY Zenon, <1>6, <1>9, <2>1, <3>1, <3>2
  <2> QED
    BY Zenon, <1>7, <1>8, <1>11, <2>1, <2>2, <2>3, <2>4 DEF List
<1>12. CASE Restart(w)
  <2> DEFINE new == [x.cp EXCEPT !.mark = 0, !.restarts = @ + 1]
             y == [x EXCEPT !.cp = new, !.last = 0]
  <2>1. x.pc = "list" /\ kb' = kb /\ UNCHANGED tableVars
    BY Zenon, <1>12 DEF Restart
  <2>2. CASE x.cp.restarts < MaxRestarts
    <3>1. ckpt' = [ckpt EXCEPT ![x.t] = new] /\ Becomes(w, y)
      BY Zenon, <1>12, <2>2 DEF Restart
    <3>2. new \in CheckpointsAt(clock)
      <4> DEFINE cp == x.cp
      <4>1. cp \in CheckpointsAt(clock) /\ cp.restarts < MaxRestarts /\ 0 \in 0 .. clock
        BY <1>0, <1>1, <2>2
      <4> HIDE DEF cp
      <4>2. cp.restarts + 1 \in 0 .. MaxRestarts
        BY <4>1, RunnerAssumption DEF CheckpointsAt
      <4>3. [cp EXCEPT !.mark = 0, !.restarts = @ + 1] \in CheckpointsAt(clock)
        BY Zenon, <4>1, <4>2 DEF CheckpointsAt
      <4> QED
        BY Zenon, <4>3 DEF cp
    <3> HIDE DEF new
    <3>3. y \in WorkerRow(clock) /\ y.t = x.t /\ y.pc = x.pc
      <4>1. 0 \in 0 .. clock
        BY <1>0
      <4> QED
        BY Zenon, <1>0, <3>2, <4>1 DEF WorkerRow
    <3> HIDE DEF y
    <3>4. WorkersOK'
      BY Zenon, <1>6, <3>1, <3>3
    <3>5. RunOK'
      BY Zenon, <1>0, <2>1, <3>1, <3>2, CheckpointTyped
    <3> QED
      BY Zenon, <1>7, <2>1, <3>4, <3>5
  <2>3. CASE ~ (x.cp.restarts < MaxRestarts)
    <3>1. Ends(w, "failed") /\ ckpt' = ckpt
      BY Zenon, <1>12, <2>3 DEF Restart
    <3> QED
      BY Zenon, <1>5, <1>7, <1>8, <1>9, <2>1, <3>1
  <2> QED
    BY Zenon, <2>2, <2>3
<1>13. CASE Job(w)
  <2>1. PICK i \in x.queued :
          /\ \/ kb' = kb \cup {i} /\ Becomes(w, [x EXCEPT !.queued = @ \ {i}, !.ok = @ \cup {i}])
             \/ /\ kb' = kb
                /\ \E error \in {IF Stopped(w) THEN StopError(w) ELSE "failed"} \cup ({x.error} \ {"none"}) :
                     Becomes(w, [x EXCEPT !.queued = @ \ {i}, !.bad = @ \cup {i}, !.error = error])
          /\ ckpt' = ckpt /\ UNCHANGED tableVars
    BY Zenon, <1>13 DEF Job
  <2>2. i \in 1 .. clock
    BY Zenon, <1>1
  <2>3. CASE kb' = kb \cup {i} /\ Becomes(w, [x EXCEPT !.queued = @ \ {i}, !.ok = @ \cup {i}])
    <3> DEFINE y == [x EXCEPT !.queued = @ \ {i}, !.ok = @ \cup {i}]
    <3>1. y \in WorkerRow(clock) /\ y.t = x.t /\ y.pc = x.pc
      BY Zenon, <1>0, <2>2 DEF WorkerRow
    <3>2. Becomes(w, y)
      BY Zenon, <2>3
    <3> HIDE DEF y
    <3>3. kb' \subseteq 1 .. clock
      BY Zenon, <1>0, <2>2, <2>3
    <3>4. RunOK'
      BY Zenon, <1>0, <2>1, <3>3, RunRests
    <3> QED
      BY Zenon, <1>6, <1>7, <2>1, <3>1, <3>2, <3>4
  <2>4. CASE kb' = kb /\ \E error \in {IF Stopped(w) THEN StopError(w) ELSE "failed"} \cup ({x.error} \ {"none"}) :
                           Becomes(w, [x EXCEPT !.queued = @ \ {i}, !.bad = @ \cup {i}, !.error = error])
    <3>1. PICK error \in {IF Stopped(w) THEN StopError(w) ELSE "failed"} \cup ({x.error} \ {"none"}) :
            Becomes(w, [x EXCEPT !.queued = @ \ {i}, !.bad = @ \cup {i}, !.error = error])
      BY Zenon, <2>4
    <3>2. error \in {"none", "failed", "canceled"}
      BY Zenon, <1>1, <3>1 DEF StopError
    <3> DEFINE y == [x EXCEPT !.queued = @ \ {i}, !.bad = @ \cup {i}, !.error = error]
    <3>3. y \in WorkerRow(clock) /\ y.t = x.t /\ y.pc = x.pc
      BY Zenon, <1>0, <2>2, <3>2 DEF WorkerRow
    <3>4. Becomes(w, y)
      BY Zenon, <3>1
    <3> HIDE DEF y
    <3> QED
      BY Zenon, <1>6, <1>7, <1>8, <2>1, <2>4, <3>3, <3>4
  <2> QED
    BY Zenon, <2>1, <2>3, <2>4
<1>14. CASE Collect(w)
  <2>1. x.pc = "collect" /\ kb' = kb /\ UNCHANGED tableVars
    BY Zenon, <1>14 DEF Collect
  <2>2. ASSUME NEW i \in Earliest(Uncollected(w)), Commits(w, i)
        PROVE  TableOK' /\ WorkersOK' /\ RunOK' /\ TableStep
    <3> DEFINE new == [x.cp EXCEPT !.mark = i]
               y == [x EXCEPT !.cp = new]
    <3>1. Uncollected(w) \in SUBSET (1 .. clock)
      BY <1>0, <1>1 DEF Uncollected
    <3>2. i \in Uncollected(w)
      BY Zenon DEF Earliest
    <3>3. i \in 0 .. clock
      BY <1>0, <3>1, <3>2
    <3>4. ckpt' = [ckpt EXCEPT ![x.t] = new] /\ Becomes(w, y)
      BY Zenon, <2>2 DEF Commits
    <3>5. new \in CheckpointsAt(clock)
      BY <1>1, <3>3 DEF CheckpointsAt
    <3> HIDE DEF new
    <3>6. y \in WorkerRow(clock) /\ y.t = x.t /\ y.pc = x.pc
      BY <1>0, <3>5 DEF WorkerRow
    <3> HIDE DEF y
    <3>7. WorkersOK'
      BY Zenon, <1>6, <3>4, <3>6
    <3>8. RunOK'
      BY Zenon, <1>0, <2>1, <3>4, <3>5, CheckpointTyped
    <3> QED
      BY Zenon, <1>7, <2>1, <3>7, <3>8
  <2>3. CASE (Goes(w, "complete") \/ \E e : Ends(w, e)) /\ ckpt' = ckpt
    BY Zenon, <1>3, <1>4, <1>5, <1>7, <1>8, <1>9, <2>1, <2>3
  <2> QED
    BY Zenon, <1>14, <2>2, <2>3 DEF Collect
<1>15. CASE Snapshot(w)
  <2>1. x.pc = "snapshot" /\ kb' = kb /\ ckpt' = ckpt /\ UNCHANGED tableVars
    BY Zenon, <1>15 DEF Snapshot
  <2>2. CASE Becomes(w, [x EXCEPT !.pc = "purge", !.retain = source])
    <3> DEFINE y == [x EXCEPT !.pc = "purge", !.retain = source]
    <3>1. y \in WorkerRow(clock) /\ y.t = x.t /\ y.pc = "purge"
      BY Zenon, <1>0, <1>3, <1>9 DEF WorkerRow
    <3>2. Becomes(w, y)
      BY Zenon, <2>2
    <3> HIDE DEF y
    <3> QED
      BY Zenon, <1>6, <1>7, <1>8, <1>9, <2>1, <3>1, <3>2
  <2> QED
    BY Zenon, <1>5, <1>7, <1>8, <1>9, <1>15, <2>1, <2>2 DEF Snapshot
<1>16. CASE Purge(w)
  <2>1. x.pc = "purge" /\ ckpt' = ckpt /\ UNCHANGED tableVars /\ kb' \subseteq kb
    BY Zenon, <1>16 DEF Purge
  <2>2. RunOK'
    <3>1. kb' \subseteq 1 .. clock
      BY Zenon, <1>0, <2>1
    <3> QED
      BY Zenon, <1>0, <2>1, <3>1, RunRests
  <2>3. Goes(w, "complete") \/ \E e : Ends(w, e)
    BY Zenon, <1>16 DEF Purge
  <2> QED
    BY Zenon, <1>3, <1>4, <1>5, <1>7, <1>9, <2>1, <2>2, <2>3
<1>17. CASE Finish(w)
  <2>1. x.pc = "complete" /\ kb' = kb /\ ckpt' = ckpt
    BY Zenon, <1>17 DEF Finish
  <2>2. CASE /\ Complete(x.t, x.cp.end)
             /\ \E next \in (IF With(task', x.type, "schedule") = {} THEN {0} ELSE With(task', x.type, "schedule")) :
                  Becomes(w, [x EXCEPT !.pc = "uncheck", !.next = next])
    <3>1. PICK next : /\ next \in TaskIds \cup {0}
                      /\ Becomes(w, [x EXCEPT !.pc = "uncheck", !.next = next])
      BY Zenon, <2>2 DEF With
    <3> DEFINE y == [x EXCEPT !.pc = "uncheck", !.next = next]
    <3>2. y \in WorkerRow(clock) /\ y.t = x.t /\ y.pc = "uncheck"
      BY Zenon, <1>0, <1>3, <1>9, <3>1 DEF WorkerRow
    <3>3. Becomes(w, y)
      BY Zenon, <3>1
    <3> HIDE DEF y
    <3>4. x.cp.end \in 0 .. clock
      BY <1>1 DEF CheckpointsAt
    <3>5. TableOK' /\ TableStep
      BY Zenon, <1>0, <1>2, <1>9, <2>1, <2>2, <3>4, CompleteTyped
    <3> QED
      BY Zenon, <1>6, <1>8, <1>9, <2>1, <3>2, <3>3, <3>5
  <2>3. CASE (Goes(w, "uncheck") \/ Ends(w, "failed")) /\ UNCHANGED tableVars
    BY Zenon, <1>3, <1>4, <1>5, <1>7, <1>8, <1>9, <2>1, <2>3
  <2> QED
    BY Zenon, <1>17, <2>2, <2>3 DEF Finish
<1>18. CASE Uncheck(w)
  <2>1. x.pc = "uncheck" /\ kb' = kb /\ Goes(w, "next") /\ UNCHANGED tableVars
    BY Zenon, <1>18 DEF Uncheck
  <2>2. NoCheckpoint \in CheckpointsAt(clock)
    BY <1>0, RunnerAssumption DEF NoCheckpoint, CheckpointsAt
  <2>3. RunOK'
    BY Zenon, <1>0, <1>8, <1>18, <2>1, <2>2, CheckpointTyped DEF Uncheck
  <2> QED
    BY Zenon, <1>4, <1>7, <1>9, <2>1, <2>3
<1>19. CASE Breaks(w)
  <2>1. x.pc \in Running /\ kb' = kb /\ ckpt' = ckpt /\ UNCHANGED tableVars /\ Ends(w, "failed")
    BY Zenon, <1>9, <1>19 DEF Breaks
  <2> QED
    BY Zenon, <1>5, <1>7, <1>8, <2>1
<1> QED
  BY Zenon, <1>10, <1>11, <1>12, <1>13, <1>14, <1>15, <1>16, <1>17, <1>18, <1>19 DEF RunStep

\* The steps of TaskWorker.handle around the run.
LEMMA HandleTyped ==
  ASSUME TableOK, WorkersOK, RunOK, NEW w \in Workers, WorkerStep(w)
  PROVE  TableOK' /\ WorkersOK' /\ RunOK' /\ (TableStep \/ (ClaimTask(worker[w].t) /\ Claim(w)))
<1> DEFINE x == worker[w]
           t == worker[w].t
<1>1. CASE Runs(w)
  <2>1. RunStep(w)
    BY Zenon, <1>1 DEF Runs
  <2> QED
    BY Zenon, <2>1, RunTyped
<1> SUFFICES ASSUME ~ Runs(w)
             PROVE  TableOK' /\ WorkersOK' /\ RunOK' /\ (TableStep \/ (ClaimTask(worker[w].t) /\ Claim(w)))
  BY Zenon, <1>1
<1>2. UNCHANGED worldVars /\ kb' = kb /\ ckpt' = ckpt
  BY ZenonT(60)
  DEF WorkerStep, Deliver, Claim, CheckStatus, MarkRunning, Load, Lock, PutBack, HandleError, ScheduleNext, Ack, Unlock,
      Release, Interrupted
<1>3. /\ clock' = clock /\ clock \in Nat /\ x \in WorkerRow(clock) /\ Placed(x)
      /\ task \in [TaskIds -> TaskRow(clock)]
  BY Zenon, <1>2 DEF worldVars, WorkersOK, TableOK, Rows
<1>4. RunOK'
  <2>1. kb' \subseteq 1 .. clock
    BY Zenon, <1>2 DEF RunOK
  <2> QED
    BY Zenon, <1>2, <2>1, RunRests
<1>5. UNCHANGED tableVars => TableOK' /\ TableStep
  BY Zenon, <1>3, TableSame
<1>6. ASSUME NEW pc \in {"idle", "unlock"}, Nack(w, pc)
      PROVE  WorkersOK'
  BY Zenon, <1>3, <1>6, WorkerRests DEF Nack
<1>7. ASSUME NEW pc \in {"idle", "unlock"}, Strands(w, pc)
      PROVE  WorkersOK' /\ TableOK' /\ TableStep
  BY Zenon, <1>5, <1>6, <1>7 DEF Strands
<1>8. ASSUME Becomes(w, Resting) PROVE WorkersOK'
  BY Zenon, <1>3, <1>8, WorkerIdles
<1>9. ASSUME NEW pc \in Places, Goes(w, pc), x.pc \notin {"idle", "unlock", "release"}
      PROVE  WorkersOK'
  BY Zenon, <1>3, <1>9, WorkerGoes
<1>10. /\ "mark" \in Places /\ "status" \in Places /\ "load" \in Places /\ "open" \in Places /\ "back" \in Places
       /\ "ack" \in Places /\ "release" \in Places /\ "lock" \in Places /\ "claim" \in Places /\ "halt" \in Places
       /\ "unlock" \in Places
  BY DEF Places, Running
<1>11. ASSUME x.pc \notin {"idle", "unlock", "release"} PROVE t \in TaskIds
  BY Zenon, <1>3, <1>11 DEF Placed
<1>12. CASE Deliver(w)
  <2>1. PICK u \in TaskIds : Becomes(w, [Resting EXCEPT !.pc = "claim", !.t = u, !.type = task[u].type])
    BY Zenon, <1>12 DEF Deliver
  <2> DEFINE y == [Resting EXCEPT !.pc = "claim", !.t = u, !.type = task[u].type]
  <2>2. task[u].type \in Types
    BY <1>3 DEF TaskRow
  <2>3. Resting \in WorkerRow(clock)
    BY Zenon, <1>3, RestingTyped
  <2>4. y \in WorkerRow(clock) /\ y.t = u
    BY Zenon, <1>10, <2>2, <2>3 DEF WorkerRow
  <2>5. Becomes(w, y)
    BY Zenon, <2>1
  <2> HIDE DEF y
  <2>6. WorkersOK'
    BY Zenon, <1>3, <2>4, <2>5, WorkerBecomes DEF Placed
  <2>7. UNCHANGED tableVars
    BY Zenon, <1>12 DEF Deliver
  <2> QED
    BY Zenon, <1>4, <1>5, <2>6, <2>7
<1>13. CASE Claim(w)
  <2>1. x.pc = "claim"
    BY Zenon, <1>13 DEF Claim
  <2>2. CASE ClaimTask(t) /\ Goes(w, "mark")
    <3>1. TableOK'
      BY Zenon, <1>3, <1>11, <2>1, <2>2, ClaimTyped
    <3> QED
      BY Zenon, <1>4, <1>9, <1>10, <1>13, <2>1, <2>2, <3>1
  <2>3. CASE Goes(w, "status") /\ UNCHANGED tableVars
    BY Zenon, <1>4, <1>5, <1>9, <1>10, <2>1, <2>3
  <2>4. CASE Nack(w, "idle") /\ UNCHANGED tableVars
    BY Zenon, <1>4, <1>5, <1>6, <2>4
  <2> QED
    BY Zenon, <1>13, <2>2, <2>3, <2>4 DEF Claim
<1>14. CASE CheckStatus(w)
  BY Zenon, <1>4, <1>5, <1>6, <1>8, <1>14 DEF CheckStatus
<1>15. CASE MarkRunning(w)
  <2>1. x.pc = "mark"
    BY Zenon, <1>15 DEF MarkRunning
  <2>2. CASE MarkConnectorRunning /\ Goes(w, "load")
    <3>1. TableOK' /\ TableStep
      <4>1. "running" \in ConnStatus
        BY DEF ConnStatus
      <4> QED
        BY Zenon, <1>3, <2>2, <4>1, TableRests DEF MarkConnectorRunning
    <3> QED
      BY Zenon, <1>4, <1>9, <1>10, <2>1, <2>2, <3>1
  <2>3. CASE Nack(w, "idle") /\ UNCHANGED tableVars
    BY Zenon, <1>4, <1>5, <1>6, <2>3
  <2> QED
    BY Zenon, <1>4, <1>7, <1>15, <2>2, <2>3 DEF MarkRunning
<1>16. CASE Load(w)
  <2>1. x.pc = "load" /\ t \in TaskIds
    BY Zenon, <1>11, <1>16 DEF Load
  <2>2. CASE Becomes(w, [x EXCEPT !.pc = "lock", !.started = task[t].started, !.start = task[t].start]) /\ UNCHANGED tableVars
    <3> DEFINE y == [x EXCEPT !.pc = "lock", !.started = task[t].started, !.start = task[t].start]
    <3>1. task[t].started \in 0 .. MaxClaims /\ task[t].start \in 0 .. clock
      BY <1>3, <2>1 DEF TaskRow
    <3>2. y \in WorkerRow(clock) /\ y.t = t
      BY Zenon, <1>3, <1>10, <3>1 DEF WorkerRow
    <3>3. Becomes(w, y)
      BY Zenon, <2>2
    <3> HIDE DEF y
    <3>4. WorkersOK'
      BY Zenon, <1>3, <2>1, <3>2, <3>3, WorkerBecomes DEF Placed
    <3> QED
      BY Zenon, <1>4, <1>5, <2>2, <3>4
  <2>3. CASE Becomes(w, Resting) /\ UNCHANGED tableVars
    BY Zenon, <1>4, <1>5, <1>8, <2>3
  <2>4. CASE FailTask(t) /\ Becomes(w, Resting)
    BY Zenon, <1>3, <1>4, <1>8, <2>1, <2>4, FailTyped
  <2>5. CASE RescheduleClaimed(t, 0) /\ Nack(w, "idle")
    BY Zenon, <1>3, <1>4, <1>6, <2>1, <2>5, RescheduleTyped
  <2> QED
    BY Zenon, <1>4, <1>7, <1>16, <2>2, <2>3, <2>4, <2>5 DEF Load
<1>17. CASE Lock(w)
  BY Zenon, <1>4, <1>5, <1>9, <1>10, <1>17 DEF Lock
<1>18. CASE PutBack(w)
  <2>1. x.pc \in {"back", "halt"} /\ t \in TaskIds
    BY Zenon, <1>11, <1>18 DEF PutBack
  <2>2. PICK pc \in {"idle", "unlock"} :
          \/ RescheduleClaimed(t, x.started) /\ Becomes(w, [Resting EXCEPT !.pc = pc])
          \/ Strands(w, pc)
    BY Zenon, <1>18 DEF PutBack
  <2> QED
    BY Zenon, <1>3, <1>4, <1>7, <2>1, <2>2, RescheduleTyped, WorkerRests
<1>19. CASE HandleError(w)
  <2>1. x.pc = "failed" /\ t \in TaskIds
    BY Zenon, <1>11, <1>19 DEF HandleError
  <2>2. ASSUME NEW class \in Classes, HandleTransientFailure(t, class), Goes(w, "ack")
        PROVE  TableOK' /\ TableStep /\ WorkersOK'
    BY Zenon, <1>3, <1>9, <1>10, <2>1, <2>2, FailureTyped
  <2>3. CASE RescheduleClaimed(t, x.started) /\ Nack(w, "unlock")
    BY Zenon, <1>3, <1>4, <1>6, <2>1, <2>3, RescheduleTyped
  <2> QED
    BY Zenon, <1>4, <1>7, <1>19, <2>2, <2>3 DEF HandleError
<1>20. CASE ScheduleNext(w)
  BY Zenon, <1>4, <1>5, <1>9, <1>10, <1>20 DEF ScheduleNext
<1>21. CASE Ack(w)
  BY Zenon, <1>3, <1>4, <1>5, <1>21, WorkerRests DEF Ack
<1>22. CASE Unlock(w)
  <2>1. Goes(w, "release") /\ UNCHANGED tableVars
    BY Zenon, <1>22 DEF Unlock
  <2> QED
    BY Zenon, <1>3, <1>4, <1>5, <1>10, <2>1, WorkerGoes
<1>23. CASE Release(w)
  BY Zenon, <1>4, <1>5, <1>8, <1>23 DEF Release
<1>24. CASE Interrupted(w)
  <2>1. CASE Nack(w, "idle") /\ UNCHANGED tableVars
    BY Zenon, <1>4, <1>5, <1>6, <2>1
  <2>2. CASE x.pc = "load" /\ RescheduleClaimed(t, 0) /\ Nack(w, "idle")
    BY Zenon, <1>3, <1>4, <1>6, <1>11, <2>2, RescheduleTyped
  <2>3. CASE /\ x.pc \in (Running \ {"uncheck"}) \cup {"failed"}
             /\ Becomes(w, [x EXCEPT !.pc = "halt", !.queued = {}]) /\ UNCHANGED tableVars
    <3> DEFINE y == [x EXCEPT !.pc = "halt", !.queued = {}]
    <3>1. y \in WorkerRow(clock) /\ y.t = t
      BY Zenon, <1>3, <1>10 DEF WorkerRow
    <3>2. t \in TaskIds
      BY Zenon, <1>11, <2>3 DEF Running
    <3>3. Becomes(w, y)
      BY Zenon, <2>3
    <3> HIDE DEF y
    <3>4. WorkersOK'
      BY Zenon, <1>3, <3>1, <3>2, <3>3, WorkerBecomes DEF Placed
    <3> QED
      BY Zenon, <1>4, <1>5, <2>3, <3>4
  <2> QED
    BY Zenon, <1>24, <2>1, <2>2, <2>3 DEF Interrupted
<1> QED
  BY Zenon, <1>12, <1>13, <1>14, <1>15, <1>16, <1>17, <1>18, <1>19, <1>20, <1>21, <1>22, <1>23, <1>24 DEF WorkerStep

\* The workers, the rows and the checkpoints when a process or a request takes a step.
LEMMA OthersTyped ==
  ASSUME TableOK, WorkersOK, RunOK,
         \/ \E p \in Procs : ProcStep(p)
         \/ \E t \in TaskIds : Redeliver(t) \/ Drop(t)
         \/ LockExpires \/ CallStep \/ UNCHANGED vars
  PROVE  TableOK' /\ TableStep /\ WorkersOK' /\ RunOK'
<1>0. UNCHANGED worldVars /\ clock' = clock /\ clock \in Nat
  <2>1. CASE \E p \in Procs : ProcStep(p)
    BY Zenon, <2>1 DEF TableOK, ProcStep, TimerFires, Recover, ScanTable, Start, Stop, Exit, Crash, worldVars
  <2>2. CASE \E t \in TaskIds : Redeliver(t) \/ Drop(t)
    BY Zenon, <2>2 DEF TableOK, Redeliver, Drop, worldVars
  <2>3. CASE LockExpires \/ CallStep \/ UNCHANGED vars
    BY Zenon, <2>3 DEF TableOK, LockExpires, CallStep, Cancel, Schedule, Resume, Rebuild, Publish, Abandon, otherVars,
                       worldVars, vars
  <2> QED
    BY Zenon, <2>1, <2>2, <2>3
<1>1. ASSUME worker' = worker PROVE WorkersOK'
  <2>1. worker' \in [Workers -> WorkerRow(clock')]
    BY Zenon, <1>0, <1>1 DEF WorkersOK
  <2> QED
    BY Zenon, <1>1, <2>1 DEF WorkersOK, WorkerRow, CheckpointsAt, Placed
<1>2. ASSUME kb' = kb, ckpt' = ckpt PROVE RunOK'
  <2>1. kb' \subseteq 1 .. clock
    BY Zenon, <1>2 DEF RunOK
  <2> QED
    BY Zenon, <1>0, <1>2, <2>1, RunRests
<1>3. UNCHANGED tableVars => TableOK' /\ TableStep
  BY Zenon, <1>0, TableSame
<1>4. ASSUME worker' = worker, kb' = kb, ckpt' = ckpt, UNCHANGED tableVars
      PROVE  TableOK' /\ TableStep /\ WorkersOK' /\ RunOK'
  BY Zenon, <1>1, <1>2, <1>3, <1>4
<1>5. ASSUME NEW p \in Procs, Crash(p)
      PROVE  TableOK' /\ TableStep /\ WorkersOK' /\ RunOK'
  <2>1. kb' = kb /\ ckpt' = ckpt /\ UNCHANGED tableVars
    BY Zenon, <1>5 DEF Crash
  <2>2. worker' = [w \in Workers |-> IF w \in WorkersOf(p) THEN Resting ELSE worker[w]]
    BY Zenon, <1>5 DEF Crash
  <2>3. Resting \in WorkerRow(clock) /\ Placed(Resting)
    BY Zenon, <1>0, RestingTyped DEF Placed
  <2>4. \A w \in Workers : worker'[w] = IF w \in WorkersOf(p) THEN Resting ELSE worker[w]
    BY Zenon, <2>2
  <2>5. \A w \in Workers : worker'[w] \in WorkerRow(clock) /\ Placed(worker'[w])
    BY Zenon, <2>3, <2>4 DEF WorkersOK
  <2>6. worker' \in [Workers -> WorkerRow(clock')]
    BY Zenon, <1>0, <2>2, <2>5
  <2>7. WorkersOK'
    BY Zenon, <2>5, <2>6 DEF WorkersOK, WorkerRow, CheckpointsAt, Placed
  <2> QED
    BY Zenon, <1>2, <1>3, <2>1, <2>7
<1>6. ASSUME NEW p \in Procs, Recover(p)
      PROVE  TableOK' /\ TableStep /\ WorkersOK' /\ RunOK'
  <2>1. worker' = worker /\ kb' = kb /\ ckpt' = ckpt /\ (RecoverRunning \/ UNCHANGED tableVars)
    BY Zenon, <1>6 DEF Recover
  <2> QED
    BY Zenon, <1>0, <1>1, <1>2, <1>3, <2>1, RecoverTyped
<1>7. ASSUME NEW p \in Procs, TimerFires(p) \/ ScanTable(p) \/ Start(p) \/ Stop(p) \/ Exit(p)
      PROVE  TableOK' /\ TableStep /\ WorkersOK' /\ RunOK'
  <2>1. worker' = worker /\ kb' = kb /\ ckpt' = ckpt /\ UNCHANGED tableVars
    BY Zenon, <1>7 DEF TimerFires, ScanTable, Start, Stop, Exit, runnerVars
  <2> QED
    BY Zenon, <1>4, <2>1
<1>8. CASE (\E t \in TaskIds : Redeliver(t) \/ Drop(t)) \/ LockExpires \/ UNCHANGED vars \/ Publish \/ Abandon
  <2>1. worker' = worker /\ kb' = kb /\ ckpt' = ckpt /\ UNCHANGED tableVars
    BY Zenon, <1>8 DEF Redeliver, Drop, LockExpires, Publish, Abandon, runnerVars, tableVars, vars
  <2> QED
    BY Zenon, <1>4, <2>1
<1>9. CASE Cancel
  <2>1. worker' = worker /\ kb' = kb /\ ckpt' = ckpt
    BY Zenon, <1>9 DEF Cancel, otherVars, runnerVars
  <2>2. CancelRunningOrScheduledLogs \/ (conn' = "cancel" /\ UNCHANGED <<task, claims, lastEnd>>)
    BY Zenon, <1>9 DEF Cancel
  <2>3. "cancel" \in ConnStatus
    BY DEF ConnStatus
  <2>4. TableOK' /\ TableStep
    BY Zenon, <1>0, <2>2, <2>3, CancelTyped, TableRests
  <2> QED
    BY Zenon, <1>1, <1>2, <2>1, <2>4
<1>10. CASE Schedule
  <2>1. worker' = worker /\ kb' = kb /\ ckpt' = ckpt /\ ScheduleConnectorTasks(scenario.prune)
    BY Zenon, <1>10 DEF Schedule, otherVars, runnerVars
  <2> QED
    BY Zenon, <1>0, <1>1, <1>2, <2>1, ScheduleTyped
<1>11. CASE Resume
  <2>1. worker' = worker /\ kb' = kb /\ ckpt' = ckpt /\ \E t \in TaskIds : ResumeFailedSyncTask(t)
    BY Zenon, <1>11 DEF Resume, otherVars, runnerVars
  <2> QED
    BY Zenon, <1>0, <1>1, <1>2, <2>1, ResumeTyped
<1>12. CASE Rebuild
  <2>1. CASE worker' = worker /\ kb' = kb /\ ckpt' = ckpt /\ UNCHANGED tableVars
    BY Zenon, <1>4, <2>1
  <2>2. CASE RebuildConnector(scenario.prune) /\ kb' = kb \ call.docs /\ worker' = worker /\ ckpt' = ckpt
    <3>1. kb' \subseteq 1 .. clock
      BY Zenon, <2>2 DEF RunOK
    <3>2. RunOK'
      BY Zenon, <1>0, <2>2, <3>1, RunRests
    <3> QED
      BY Zenon, <1>0, <1>1, <2>2, <3>2, RebuildTyped
  <2>3. CASE /\ ckpt' = [t \in TaskIds |-> IF task[t].status = "deleted" THEN NoCheckpoint ELSE ckpt[t]]
             /\ worker' = worker /\ kb' = kb /\ UNCHANGED tableVars
    <3>1. NoCheckpoint \in CheckpointsAt(clock)
      BY <1>0, RunnerAssumption DEF NoCheckpoint, CheckpointsAt
    <3>2. ckpt' \in [TaskIds -> CheckpointsAt(clock)]
      BY Zenon, <2>3, <3>1 DEF RunOK
    <3>3. UNCHANGED <<scenario, clock, source>>
      BY Zenon, <1>0 DEF worldVars
    <3>4. ckpt' \in [TaskIds -> CheckpointsAt(clock')]
      BY Zenon, <3>2, <3>3
    <3>5. RunOK'
      BY Zenon, <2>3, <3>3, <3>4 DEF RunOK, CheckpointsAt
    <3> QED
      BY Zenon, <1>1, <1>3, <2>3, <3>5
  <2> QED
    BY Zenon, <1>12, <2>1, <2>2, <2>3 DEF Rebuild, otherVars, runnerVars
<1> QED
  BY Zenon, <1>5, <1>6, <1>7, <1>8, <1>9, <1>10, <1>11, <1>12 DEF ProcStep, CallStep

\* The clock goes on: everything that was bounded still is.
LEMMA WorldTyped ==
  ASSUME TableOK, WorkersOK, RunOK, World
  PROVE  TableOK' /\ TableStep /\ WorkersOK' /\ RunOK'
<1>0. /\ UNCHANGED <<scenario, worker, kb, ckpt>> /\ UNCHANGED <<task, conn, claims, lastEnd>>
      /\ clock \in Nat /\ clock \in Docs
  BY Zenon DEF World, SourceChanges, tableVars, TableOK, RunOK
<1>1. /\ clock' \in Nat /\ clock <= clock' /\ clock' \in Docs /\ source' \subseteq 1 .. clock'
  <2>1. CASE clock < scenario.docs /\ clock' = clock + 1 /\ source' = source \cup {clock + 1}
    <3>1. scenario.docs \in Docs
      BY RunnerAssumption DEF RunOK, Scenario
    <3>2. clock' \in Nat /\ clock <= clock' /\ clock' \in Docs
      BY <1>0, <2>1, <3>1, RunnerAssumption DEF Docs
    <3>3. source \subseteq 1 .. clock
      BY Zenon DEF RunOK
    <3>4. source' \subseteq 1 .. clock'
      BY <1>0, <2>1, <3>3
    <3> QED
      BY Zenon, <3>2, <3>4
  <2>2. CASE clock' = clock /\ source' \subseteq source
    <3>1. clock <= clock
      BY <1>0
    <3> QED
      BY Zenon, <1>0, <2>2, <3>1 DEF RunOK
  <2> QED
    BY Zenon, <2>1, <2>2 DEF World, SourceChanges
<1>2. 0 .. clock \subseteq 0 .. clock' /\ 1 .. clock \subseteq 1 .. clock'
  BY <1>0, <1>1
<1>3. CheckpointsAt(clock) \subseteq CheckpointsAt(clock')
  BY Zenon, <1>2 DEF CheckpointsAt
<1>4. WorkerRow(clock) \subseteq WorkerRow(clock')
  BY Zenon, <1>2, <1>3 DEF WorkerRow
<1>5. TaskRow(clock) \subseteq TaskRow(clock')
  BY Zenon, <1>2 DEF TaskRow
<1>6. WorkersOK'
  <2>1. worker' \in [Workers -> WorkerRow(clock')]
    BY Zenon, <1>0, <1>4 DEF WorkersOK
  <2> QED
    BY Zenon, <1>0, <2>1 DEF WorkersOK, WorkerRow, CheckpointsAt, Placed
<1>7. RunOK'
  <2>1. ckpt' \in [TaskIds -> CheckpointsAt(clock')]
    BY Zenon, <1>0, <1>3 DEF RunOK
  <2> QED
    BY Zenon, <1>0, <1>1, <1>2, <2>1 DEF RunOK, CheckpointsAt
<1>8. TableOK' /\ TableStep
  <2>1. task' \in [TaskIds -> TaskRow(clock')]
    BY Zenon, <1>0, <1>5 DEF TableOK, Rows
  <2>2. InOrder(task)'
    BY Zenon, <1>0 DEF TableOK, Rows, InOrder
  <2>3. TableStep
    BY Zenon, <1>0 DEF TableStep, RowsFollow, Follows
  <2>4. lastEnd' \in 0 .. clock' /\ conn' \in ConnStatus /\ claims' \in 0 .. MaxClaims
    BY Zenon, <1>0, <1>2 DEF TableOK
  <2> QED
    BY Zenon, <1>1, <2>1, <2>2, <2>3, <2>4 DEF TableOK, Rows, TaskRow
<1> QED
  BY Zenon, <1>6, <1>7, <1>8

-----------------------------------------------------------------------------
(* Wake-ups, processes, requests.                                          *)

Wakeups == [TaskIds -> 0 .. MaxWakeups]

QueuesOK ==
  /\ ready \in Wakeups /\ unsettled \in Wakeups /\ published \subseteq TaskIds
  /\ timers \in [Procs -> SUBSET TaskIds]

ProcsOK ==
  /\ proc \in [Procs -> {"down", "recover", "list", "up"}] /\ stopping \subseteq Procs
  /\ local \subseteq Procs /\ redis \in Procs \cup {"free", "dead"}

CallPlaces == {"none", "conn", "schedule", "rebuild", "uncheck", "publish"}

Calls == [pc : CallPlaces, again : BOOLEAN, ids : SUBSET TaskIds, docs : SUBSET Docs, wakeup : BOOLEAN]

CallOK ==
  /\ call \in Calls /\ (call.wakeup => call.ids # {})
  /\ requests \in 0 .. MaxRequests /\ stranded \subseteq TaskIds

FaultsOK == faults \in 0 .. MaxFaults

StateOK == TableOK /\ WorkersOK /\ RunOK /\ QueuesOK /\ ProcsOK /\ CallOK /\ FaultsOK

\* One more wake-up, up to the bound, or one less.
LEMMA MoreTyped ==
  ASSUME NEW f \in Wakeups, NEW t \in TaskIds
  PROVE  /\ More(f, t) \in Wakeups /\ More(f, t)[t] \in 0 .. MaxWakeups
         /\ f[t] > 0 => [f EXCEPT ![t] = @ - 1] \in Wakeups
<1>1. f[t] \in 0 .. MaxWakeups
  BY Zenon DEF Wakeups
<1>2. f[t] < MaxWakeups => f[t] + 1 \in 0 .. MaxWakeups
  BY <1>1, SystemAssumption
<1>3. f[t] > 0 => f[t] - 1 \in 0 .. MaxWakeups
  BY <1>1, SystemAssumption
<1>4. More(f, t) \in Wakeups
  <2>1. CASE f[t] < MaxWakeups
    BY Zenon, <1>2, <2>1 DEF More, Wakeups
  <2>2. CASE ~ (f[t] < MaxWakeups)
    BY Zenon, <2>2 DEF More
  <2> QED
    BY Zenon, <2>1, <2>2
<1>5. More(f, t)[t] \in 0 .. MaxWakeups
  BY Zenon, <1>4 DEF Wakeups
<1>6. f[t] > 0 => [f EXCEPT ![t] = @ - 1] \in Wakeups
  BY Zenon, <1>3 DEF Wakeups
<1> QED
  BY Zenon, <1>4, <1>5, <1>6

\* PublishSyncerTaskWakeup
LEMMA WakeupTyped ==
  ASSUME QueuesOK, NEW t \in TaskIds, Wakeup(t), timers' \in [Procs -> SUBSET TaskIds]
  PROVE  QueuesOK'
BY Zenon, MoreTyped DEF QueuesOK, Wakeup, Wakeups

\* PublishSyncerTask
LEMMA PublishTyped ==
  ASSUME QueuesOK, NEW ids \in SUBSET TaskIds, PublishAll(ids), timers' \in [Procs -> SUBSET TaskIds]
  PROVE  QueuesOK'
<1>1. PICK sent \in SUBSET ids : ready' = [t \in TaskIds |-> IF t \in sent THEN More(ready, t)[t] ELSE ready[t]]
  BY Zenon DEF PublishAll
<1>2. \A t \in TaskIds : More(ready, t)[t] \in 0 .. MaxWakeups /\ ready[t] \in 0 .. MaxWakeups
  BY Zenon, MoreTyped DEF QueuesOK, Wakeups
<1>3. ready' \in Wakeups
  BY Zenon, <1>1, <1>2 DEF Wakeups
<1>4. published' \subseteq TaskIds /\ unsettled' = unsettled
  BY Zenon DEF PublishAll, QueuesOK
<1> QED
  BY Zenon, <1>3, <1>4 DEF QueuesOK, Wakeups

\* A step that leaves the wake-ups alone.
LEMMA QueuesRest ==
  ASSUME QueuesOK, UNCHANGED queueVars, timers' \in [Procs -> SUBSET TaskIds]
  PROVE  QueuesOK'
BY Zenon DEF QueuesOK, queueVars, Wakeups

\* A timer is set, fires, or is stopped.
LEMMA TimersTyped ==
  ASSUME timers \in [Procs -> SUBSET TaskIds], NEW p \in Procs, NEW ids \in SUBSET TaskIds
  PROVE  /\ Arm(p, ids) => timers' \in [Procs -> SUBSET TaskIds]
         /\ [timers EXCEPT ![p] = {}] \in [Procs -> SUBSET TaskIds]
         /\ \A t : [timers EXCEPT ![p] = @ \ {t}] \in [Procs -> SUBSET TaskIds]
<1>1. Arm(p, ids) => timers' \in [Procs -> SUBSET TaskIds]
  BY Zenon DEF Arm
<1>2. [timers EXCEPT ![p] = {}] \in [Procs -> SUBSET TaskIds]
  BY Zenon
<1>3. \A t : [timers EXCEPT ![p] = @ \ {t}] \in [Procs -> SUBSET TaskIds]
  BY Zenon
<1> QED
  BY Zenon, <1>1, <1>2, <1>3

\* A worker's delivery, nack, timer or publish.
LEMMA WorkerQueues ==
  ASSUME StateOK, NEW w \in Workers, WorkerStep(w)
  PROVE  QueuesOK'
<1> DEFINE x == worker[w]
           t == worker[w].t
<1>0. /\ QueuesOK /\ timers \in [Procs -> SUBSET TaskIds] /\ ProcOf[w] \in Procs
      /\ x \in WorkerRow(clock) /\ Placed(x)
  BY Zenon, SystemAssumption DEF StateOK, QueuesOK, WorkersOK
<1>1. ASSUME UNCHANGED queueVars, timers' = timers PROVE QueuesOK'
  BY Zenon, <1>0, <1>1, QueuesRest
<1>2. ASSUME NEW u \in TaskIds, Arm(ProcOf[w], {u}), UNCHANGED queueVars PROVE QueuesOK'
  <2>1. {u} \in SUBSET TaskIds
    BY Zenon
  <2> QED
    BY Zenon, <1>0, <1>2, <2>1, QueuesRest, TimersTyped
<1>3. ASSUME NEW pc, Nack(w, pc), timers' = timers, x.pc \notin {"idle", "unlock", "release"} PROVE QueuesOK'
  <2>1. t \in TaskIds
    BY Zenon, <1>0, <1>3 DEF Placed
  <2> QED
    BY Zenon, <1>0, <1>3, <2>1, WakeupTyped DEF Nack
<1>4. CASE Deliver(w)
  <2>1. PICK u \in TaskIds : ready[u] > 0 /\ ready' = [ready EXCEPT ![u] = @ - 1]
    BY Zenon, <1>4 DEF Deliver
  <2>2. ready' \in Wakeups
    BY Zenon, <1>0, <2>1, MoreTyped DEF QueuesOK
  <2>3. UNCHANGED <<unsettled, published, timers>>
    BY Zenon, <1>4 DEF Deliver
  <2> QED
    BY Zenon, <1>0, <2>2, <2>3 DEF QueuesOK, Wakeups
<1>5. CASE Claim(w)
  BY Zenon, <1>1, <1>3, <1>5 DEF Claim
<1>6. CASE CheckStatus(w)
  <2>1. x.pc = "status" /\ t \in TaskIds
    BY Zenon, <1>0, <1>6 DEF CheckStatus, Placed
  <2> QED
    BY Zenon, <1>1, <1>2, <1>3, <1>6, <2>1 DEF CheckStatus
<1>7. CASE MarkRunning(w)
  BY Zenon, <1>1, <1>3, <1>7 DEF MarkRunning, Strands
<1>8. CASE Load(w)
  BY Zenon, <1>1, <1>3, <1>8 DEF Load, Strands
<1>9. CASE Lock(w) \/ Ack(w) \/ Unlock(w) \/ Release(w) \/ Runs(w)
  BY Zenon, <1>1, <1>9 DEF Lock, Ack, Unlock, Release, Runs
<1>10. CASE PutBack(w)
  <2>1. x.pc \in {"back", "halt"} /\ t \in TaskIds
    BY Zenon, <1>0, <1>10 DEF PutBack, Placed
  <2>2. \/ Arm(ProcOf[w], {t}) /\ UNCHANGED queueVars
        \/ timers' = timers /\ UNCHANGED queueVars
        \/ timers' = timers /\ \E pc : Nack(w, pc)
    BY Zenon, <1>10 DEF PutBack, Strands
  <2> QED
    BY Zenon, <1>1, <1>2, <1>3, <2>1, <2>2
<1>11. CASE HandleError(w)
  <2>1. x.pc = "failed" /\ t \in TaskIds
    BY Zenon, <1>0, <1>11 DEF HandleError, Placed
  <2>2. \/ Arm(ProcOf[w], {t}) /\ UNCHANGED queueVars
        \/ timers' = timers /\ UNCHANGED queueVars
        \/ timers' = timers /\ \E pc : Nack(w, pc)
    BY Zenon, <1>11 DEF HandleError, Strands
  <2> QED
    BY Zenon, <1>1, <1>2, <1>3, <2>1, <2>2
<1>12. CASE ScheduleNext(w)
  <2>1. \/ UNCHANGED queueVars /\ timers' = timers
        \/ x.next # 0 /\ Arm(ProcOf[w], {x.next}) /\ UNCHANGED queueVars
        \/ x.next # 0 /\ PublishAll({x.next}) /\ timers' = timers
    BY Zenon, <1>12 DEF ScheduleNext
  <2>2. x.next # 0 => x.next \in TaskIds
    BY <1>0 DEF WorkerRow
  <2>3. x.next # 0 => {x.next} \in SUBSET TaskIds
    BY Zenon, <2>2
  <2> QED
    BY Zenon, <1>0, <1>1, <1>2, <2>1, <2>2, <2>3, PublishTyped
<1>13. CASE Interrupted(w)
  <2>1. timers' = timers
    BY Zenon, <1>13 DEF Interrupted
  <2>2. UNCHANGED queueVars \/ (x.pc \notin {"idle", "unlock", "release"} /\ Nack(w, "idle"))
    BY Zenon, <1>13 DEF Interrupted
  <2> QED
    BY Zenon, <1>1, <1>3, <2>1, <2>2
<1> QED
  BY Zenon, <1>4, <1>5, <1>6, <1>7, <1>8, <1>9, <1>10, <1>11, <1>12, <1>13 DEF WorkerStep

\* A process's timer, startup scan, crash, or a redelivery.
LEMMA ProcQueues ==
  ASSUME StateOK, \/ \E p \in Procs : ProcStep(p)
                  \/ \E t \in TaskIds : Redeliver(t) \/ Drop(t)
                  \/ LockExpires \/ World \/ UNCHANGED vars
  PROVE  QueuesOK'
<1>0. /\ QueuesOK /\ timers \in [Procs -> SUBSET TaskIds] /\ ready \in Wakeups /\ unsettled \in Wakeups
      /\ worker \in [Workers -> WorkerRow(clock)]
  BY Zenon DEF StateOK, QueuesOK, WorkersOK
<1>1. ASSUME UNCHANGED queueVars, timers' = timers PROVE QueuesOK'
  BY Zenon, <1>0, <1>1, QueuesRest
<1>2. ASSUME NEW p \in Procs, TimerFires(p) PROVE QueuesOK'
  <2>1. PICK t \in timers[p] : \/ Wakeup(t) /\ timers' = [timers EXCEPT ![p] = @ \ {t}]
                               \/ UNCHANGED queueVars /\ timers' = timers
    BY Zenon, <1>2 DEF TimerFires
  <2>2. t \in TaskIds /\ {} \in SUBSET TaskIds
    BY Zenon, <1>0
  <2>3. [timers EXCEPT ![p] = @ \ {t}] \in [Procs -> SUBSET TaskIds]
    BY Zenon, <1>0, <2>2, TimersTyped
  <2> QED
    BY Zenon, <1>0, <1>1, <2>1, <2>2, <2>3, WakeupTyped
<1>3. ASSUME NEW p \in Procs, ScanTable(p) PROVE QueuesOK'
  <2> DEFINE listed == {t \in TaskIds : Listed(t)}
  <2>1. PICK due \in SUBSET listed : \/ PublishAll(due) /\ Arm(p, listed \ due)
                                     \/ UNCHANGED queueVars /\ timers' = timers
    BY Zenon, <1>3 DEF ScanTable
  <2>2. due \in SUBSET TaskIds /\ listed \ due \in SUBSET TaskIds
    BY Zenon
  <2> HIDE DEF listed
  <2> QED
    BY Zenon, <1>0, <1>1, <2>1, <2>2, PublishTyped, TimersTyped
<1>4. ASSUME NEW p \in Procs, Exit(p) PROVE QueuesOK'
  <2>1. UNCHANGED queueVars /\ timers' = [timers EXCEPT ![p] = {}]
    BY Zenon, <1>4 DEF Exit
  <2>2. timers' \in [Procs -> SUBSET TaskIds]
    BY Zenon, <1>0, <2>1
  <2> QED
    BY Zenon, <1>0, <2>1, <2>2, QueuesRest
<1>5. ASSUME NEW p \in Procs, Crash(p) PROVE QueuesOK'
  <2>1. PICK held : unsettled' = [t \in TaskIds |-> IF t \in held THEN More(unsettled, t)[t] ELSE unsettled[t]]
    BY Zenon, <1>5 DEF Crash
  <2>2. \A t \in TaskIds : More(unsettled, t)[t] \in 0 .. MaxWakeups /\ unsettled[t] \in 0 .. MaxWakeups
    BY Zenon, <1>0, MoreTyped DEF Wakeups
  <2>3. unsettled' \in Wakeups
    BY Zenon, <2>1, <2>2 DEF Wakeups
  <2>4. ready' = ready /\ published' = published /\ timers' = [timers EXCEPT ![p] = {}]
    BY Zenon, <1>5 DEF Crash
  <2>5. timers' \in [Procs -> SUBSET TaskIds]
    BY Zenon, <1>0, <2>4
  <2> QED
    BY Zenon, <1>0, <2>3, <2>4, <2>5 DEF QueuesOK, Wakeups
<1>6. ASSUME NEW p \in Procs, Recover(p) \/ Start(p) \/ Stop(p) PROVE QueuesOK'
  BY Zenon, <1>1, <1>6 DEF Recover, Start, Stop
<1>7. ASSUME NEW t \in TaskIds, Redeliver(t) PROVE QueuesOK'
  <2>1. /\ unsettled[t] > 0 /\ unsettled' = [unsettled EXCEPT ![t] = @ - 1]
        /\ ready' = More(ready, t) /\ published' = published /\ timers' = timers
    BY Zenon, <1>7 DEF Redeliver
  <2>2. unsettled' \in Wakeups /\ ready' \in Wakeups
    BY Zenon, <1>0, <2>1, MoreTyped
  <2> QED
    BY Zenon, <1>0, <2>1, <2>2 DEF QueuesOK, Wakeups
<1>8. ASSUME NEW t \in TaskIds, Drop(t) PROVE QueuesOK'
  <2>1. /\ ready[t] > 0 /\ ready' = [ready EXCEPT ![t] = @ - 1]
        /\ unsettled' = unsettled /\ published' = published /\ timers' = timers
    BY Zenon, <1>8 DEF Drop
  <2>2. ready' \in Wakeups
    BY Zenon, <1>0, <2>1, MoreTyped
  <2> QED
    BY Zenon, <1>0, <2>1, <2>2 DEF QueuesOK, Wakeups
<1>9. CASE LockExpires \/ World \/ UNCHANGED vars
  BY Zenon, <1>1, <1>9 DEF LockExpires, World, vars, queueVars
<1> QED
  BY Zenon, <1>2, <1>3, <1>4, <1>5, <1>6, <1>7, <1>8, <1>9 DEF ProcStep

\* A request publishes.
LEMMA CallQueues ==
  ASSUME StateOK, CallStep
  PROVE  QueuesOK'
<1>0. QueuesOK /\ timers \in [Procs -> SUBSET TaskIds] /\ timers' = timers
  BY Zenon DEF StateOK, QueuesOK, CallStep, Cancel, Schedule, Resume, Rebuild, Publish, Abandon, otherVars
<1>1. call.ids \in SUBSET TaskIds
  BY Zenon DEF StateOK, CallOK, Calls
<1>2. CASE Publish
  <2>1. UNCHANGED queueVars \/ PublishAll(call.ids) \/ (call.wakeup /\ \A t \in call.ids : Wakeup(t))
    BY Zenon, <1>2 DEF Publish
  <2>2. CASE call.wakeup /\ \A t \in call.ids : Wakeup(t)
    <3>1. PICK t \in call.ids : TRUE
      BY Zenon, <2>2 DEF StateOK, CallOK
    <3> QED
      BY Zenon, <1>0, <1>1, <2>2, <3>1, WakeupTyped
  <2> QED
    BY Zenon, <1>0, <1>1, <2>1, <2>2, QueuesRest, PublishTyped
<1>3. CASE ~ Publish
  <2>1. UNCHANGED queueVars
    BY Zenon, <1>3 DEF CallStep, Cancel, Schedule, Resume, Rebuild, Abandon
  <2> QED
    BY Zenon, <1>0, <2>1, QueuesRest
<1> QED
  BY Zenon, <1>2, <1>3

-----------------------------------------------------------------------------
(* All types.                                                              *)

\* Processes start, stop and crash, and take and release the lock.
LEMMA ProcsTyped ==
  ASSUME ProcsOK, [Next]_vars
  PROVE  ProcsOK'
<1>1. ASSUME UNCHANGED <<procVars, lockVars>> PROVE ProcsOK'
  BY Zenon, <1>1 DEF ProcsOK, procVars, lockVars
<1>2. ASSUME NEW w \in Workers, WorkerStep(w) PROVE ProcsOK'
  <2>0. ProcOf[w] \in Procs
    BY Zenon, SystemAssumption
  <2>1. proc' = proc /\ stopping' = stopping
    BY ZenonT(60), <1>2
    DEF WorkerStep, Deliver, Claim, CheckStatus, MarkRunning, Load, Lock, PutBack, HandleError, ScheduleNext, Ack, Unlock,
        Release, Interrupted, Runs, procVars
  <2>2. local' \subseteq Procs /\ redis' \in Procs \cup {"free", "dead"}
    <3>1. CASE Lock(w)
      BY Zenon, <2>0, <3>1 DEF Lock, ProcsOK, lockVars
    <3>2. CASE Unlock(w)
      BY Zenon, <3>2 DEF Unlock, ProcsOK
    <3>3. CASE Release(w)
      BY Zenon, <3>3 DEF Release, ProcsOK
    <3>4. CASE ~ Lock(w) /\ ~ Unlock(w) /\ ~ Release(w)
      BY ZenonT(60), <1>2, <3>4
      DEF WorkerStep, Deliver, Claim, CheckStatus, MarkRunning, Load, PutBack, HandleError, ScheduleNext, Ack,
          Interrupted, Runs, lockVars, ProcsOK
    <3> QED
      BY Zenon, <3>1, <3>2, <3>3, <3>4
  <2> QED
    BY Zenon, <2>1, <2>2 DEF ProcsOK
<1>3. ASSUME NEW p \in Procs, ProcStep(p) PROVE ProcsOK'
  <2>1. stopping' \subseteq Procs
    BY Zenon, <1>3 DEF ProcStep, TimerFires, Recover, ScanTable, Start, Stop, Exit, Crash, procVars, ProcsOK
  <2>2. local' \subseteq Procs /\ redis' \in Procs \cup {"free", "dead"}
    BY Zenon, <1>3 DEF ProcStep, TimerFires, Recover, ScanTable, Start, Stop, Exit, Crash, lockVars, ProcsOK
  <2>3. proc' = proc \/ \E pc \in {"down", "recover", "list", "up"} : proc' = [proc EXCEPT ![p] = pc]
    BY Zenon, <1>3 DEF ProcStep, TimerFires, Recover, ScanTable, Start, Stop, Exit, Crash, procVars
  <2>4. proc' \in [Procs -> {"down", "recover", "list", "up"}]
    BY Zenon, <2>3 DEF ProcsOK
  <2> QED
    BY Zenon, <2>1, <2>2, <2>4 DEF ProcsOK
<1>4. CASE (\E t \in TaskIds : Redeliver(t) \/ Drop(t)) \/ CallStep \/ World \/ UNCHANGED vars
  <2>1. UNCHANGED <<procVars, lockVars>>
    BY Zenon, <1>4 DEF Redeliver, Drop, CallStep, Cancel, Schedule, Resume, Rebuild, Publish, Abandon, otherVars, World,
                       vars, procVars, lockVars
  <2> QED
    BY Zenon, <1>1, <2>1
<1>5. CASE LockExpires
  BY Zenon, <1>5 DEF LockExpires, ProcsOK, procVars
<1> QED
  BY Zenon, <1>2, <1>3, <1>4, <1>5 DEF Next

\* Faults are counted.
LEMMA FaultsTyped ==
  ASSUME scenario \in Scenarios, FaultsOK, [Next]_vars
  PROVE  FaultsOK'
<1>1. scenario.hits \in 0 .. MaxFaults
  BY RunnerAssumption DEF Scenario
<1>2. ASSUME NEW kind, Fault(kind) PROVE FaultsOK'
  BY <1>1, <1>2, RunnerAssumption DEF Fault, FaultsOK
<1>3. ASSUME faults' = faults PROVE FaultsOK'
  BY Zenon, <1>3 DEF FaultsOK
<1>4. ASSUME NEW w \in Workers, WorkerStep(w) PROVE faults' = faults \/ \E kind : Fault(kind)
  <2>1. CASE Runs(w)
    BY ZenonT(60), <2>1
    DEF Runs, RunStep, Open, List, Restart, Job, Collect, Snapshot, Purge, Finish, Uncheck, Breaks, NoFault
  <2>2. CASE ~ Runs(w)
    BY ZenonT(60), <1>4, <2>2
    DEF WorkerStep, Deliver, Claim, CheckStatus, MarkRunning, Load, Lock, PutBack, HandleError, ScheduleNext, Ack, Unlock,
        Release, Interrupted, Strands, NoFault
  <2> QED
    BY Zenon, <2>1, <2>2
<1>5. ASSUME NEW p \in Procs, ProcStep(p) PROVE faults' = faults \/ \E kind : Fault(kind)
  BY Zenon, <1>5 DEF ProcStep, TimerFires, Recover, ScanTable, Start, Stop, Exit, Crash, NoFault, runnerVars
<1>6. CASE (\E t \in TaskIds : Redeliver(t) \/ Drop(t)) \/ LockExpires \/ CallStep \/ World \/ UNCHANGED vars
  <2>1. faults' = faults \/ \E kind : Fault(kind)
    BY Zenon, <1>6 DEF Redeliver, Drop, LockExpires, CallStep, Cancel, Schedule, Resume, Rebuild, Publish, Abandon, otherVars,
                       World, SourceChanges, vars, NoFault, runnerVars
  <2> QED
    BY Zenon, <1>2, <1>3, <2>1
<1> QED
  BY Zenon, <1>2, <1>3, <1>4, <1>5, <1>6 DEF Next

\* No request is in progress.
LEMMA NoCallTyped == NoCall \in Calls /\ NoCall.wakeup = FALSE /\ NoCall.ids = {}
<1>1. NoCall \in Calls
  BY Zenon DEF NoCall, Calls, CallPlaces
<1>2. NoCall.wakeup = FALSE /\ NoCall.ids = {}
  BY Zenon DEF NoCall
<1> QED
  BY Zenon, <1>1, <1>2

\* A field of a request in progress changes.
LEMMA CallFields ==
  ASSUME NEW c \in Calls
  PROVE  /\ \A v \in CallPlaces : [c EXCEPT !.pc = v] \in Calls
         /\ \A v \in BOOLEAN : [c EXCEPT !.again = v] \in Calls
         /\ \A v \in SUBSET TaskIds : [c EXCEPT !.ids = v] \in Calls
         /\ \A v \in SUBSET Docs : [c EXCEPT !.docs = v] \in Calls
         /\ \A v \in BOOLEAN : [c EXCEPT !.wakeup = v] \in Calls
<1>1. \A v \in CallPlaces : [c EXCEPT !.pc = v] \in Calls
  BY Zenon DEF Calls
<1>2. \A v \in BOOLEAN : [c EXCEPT !.again = v] \in Calls
  BY Zenon DEF Calls
<1>3. \A v \in SUBSET TaskIds : [c EXCEPT !.ids = v] \in Calls
  BY Zenon DEF Calls
<1>4. \A v \in SUBSET Docs : [c EXCEPT !.docs = v] \in Calls
  BY Zenon DEF Calls
<1>5. \A v \in BOOLEAN : [c EXCEPT !.wakeup = v] \in Calls
  BY Zenon DEF Calls
<1> QED
  BY Zenon, <1>1, <1>2, <1>3, <1>4, <1>5

\* Requests begin, go on, publish and end.
LEMMA CallTyped ==
  ASSUME StateOK, [Next]_vars
  PROVE  CallOK'
<1>0. /\ call \in Calls /\ (call.wakeup => call.ids # {}) /\ requests \in 0 .. MaxRequests /\ stranded \subseteq TaskIds
      /\ worker \in [Workers -> WorkerRow(clock)] /\ kb \subseteq Docs
  <2>1. kb \subseteq Docs
    BY RunnerAssumption DEF StateOK, RunOK, Docs
  <2> QED
    BY Zenon, <2>1 DEF StateOK, CallOK, WorkersOK
<1>1. stranded' \subseteq TaskIds
  <2>1. ASSUME NEW w \in Workers, WorkerStep(w) PROVE stranded' \subseteq TaskIds
    <3>1. stranded' = stranded \/ (stranded' = stranded \cup {worker[w].t} /\ worker[w].pc \notin {"idle", "unlock", "release"})
      BY ZenonT(60), <2>1
      DEF WorkerStep, Deliver, Claim, CheckStatus, MarkRunning, Load, Lock, PutBack, HandleError, ScheduleNext, Ack, Unlock,
          Release, Interrupted, Strands, Runs
    <3>2. worker[w].pc \notin {"idle", "unlock", "release"} => worker[w].t \in TaskIds
      BY Zenon DEF StateOK, WorkersOK, Placed
    <3> QED
      BY <1>0, <3>1, <3>2
  <2>2. ASSUME NEW p \in Procs, ProcStep(p) PROVE stranded' \subseteq TaskIds
    BY Zenon, <1>0, <2>2 DEF ProcStep, TimerFires, Recover, ScanTable, Start, Stop, Exit, Crash
  <2>3. CASE (\E t \in TaskIds : Redeliver(t) \/ Drop(t)) \/ LockExpires \/ CallStep \/ World \/ UNCHANGED vars
    BY Zenon, <1>0, <2>3 DEF Redeliver, Drop, LockExpires, CallStep, Cancel, Schedule, Resume, Rebuild, Publish, Abandon,
                             otherVars, World, vars
  <2> QED
    BY Zenon, <2>1, <2>2, <2>3 DEF Next
<1>2. ASSUME UNCHANGED callVars PROVE CallOK'
  BY Zenon, <1>0, <1>1, <1>2 DEF CallOK, callVars, Calls
<1>3. ASSUME NEW w \in Workers, WorkerStep(w) PROVE CallOK'
  <2>1. UNCHANGED callVars
    BY ZenonT(60), <1>3
    DEF WorkerStep, Deliver, Claim, CheckStatus, MarkRunning, Load, Lock, PutBack, HandleError, ScheduleNext, Ack, Unlock,
        Release, Interrupted, Runs
  <2> QED
    BY Zenon, <1>2, <2>1
<1>4. ASSUME NEW p \in Procs, ProcStep(p) PROVE CallOK'
  <2>1. UNCHANGED callVars
    BY Zenon, <1>4 DEF ProcStep, TimerFires, Recover, ScanTable, Start, Stop, Exit, Crash
  <2> QED
    BY Zenon, <1>2, <2>1
<1>5. CASE (\E t \in TaskIds : Redeliver(t) \/ Drop(t)) \/ LockExpires \/ World \/ UNCHANGED vars
  <2>1. UNCHANGED callVars
    BY Zenon, <1>5 DEF Redeliver, Drop, LockExpires, World, vars, callVars
  <2> QED
    BY Zenon, <1>2, <2>1
<1>6. CASE CallStep
  <2>1. requests' \in 0 .. MaxRequests
    <3>1. requests' = requests \/ (requests < MaxRequests /\ requests' = requests + 1)
      BY Zenon, <1>6 DEF CallStep, Cancel, Schedule, Resume, Rebuild, Publish, Abandon, Begins
    <3>2. requests < MaxRequests => requests + 1 \in 0 .. MaxRequests
      BY <1>0, SystemAssumption
    <3> QED
      BY Zenon, <1>0, <3>1, <3>2
  <2>2. call' \in Calls /\ (call'.wakeup => call'.ids # {})
    <3>1. NoCall \in Calls /\ NoCall.wakeup = FALSE
      BY Zenon, NoCallTyped
    <3>2. \A p \in CallPlaces : [NoCall EXCEPT !.pc = p] \in Calls /\ [NoCall EXCEPT !.pc = p].wakeup = NoCall.wakeup
      BY <3>1 DEF Calls
    <3>3. ASSUME call' = NoCall PROVE call' \in Calls /\ (call'.wakeup => call'.ids # {})
      BY Zenon, <3>1, <3>3
    <3>4. {"conn", "schedule", "rebuild", "uncheck", "publish"} \subseteq CallPlaces
      BY Zenon DEF CallPlaces
    <3>5. ASSUME NEW p \in CallPlaces, NEW ids \in SUBSET TaskIds, call' = [NoCall EXCEPT !.pc = p, !.ids = ids]
          PROVE  call' \in Calls /\ (call'.wakeup => call'.ids # {})
      <4>1. [NoCall EXCEPT !.pc = p, !.ids = ids] \in Calls
        BY Zenon, <3>1, CallFields
      <4>2. [NoCall EXCEPT !.pc = p, !.ids = ids].wakeup = NoCall.wakeup
        BY <3>1 DEF Calls
      <4> QED
        BY Zenon, <3>1, <3>5, <4>1, <4>2
    <3>6. CASE Cancel
      <4> DEFINE c == [NoCall EXCEPT !.pc = "conn"]
                 d == [NoCall EXCEPT !.pc = "conn", !.again = TRUE]
                 e == [NoCall EXCEPT !.pc = "schedule"]
      <4>1. c \in Calls /\ d \in Calls /\ e \in Calls
        BY Zenon, <3>1, <3>4, CallFields
      <4>2. c.wakeup = NoCall.wakeup /\ d.wakeup = NoCall.wakeup /\ e.wakeup = NoCall.wakeup
        BY <3>1 DEF Calls
      <4>3. call' \in {c, d, e, NoCall}
        BY Zenon, <3>6 DEF Cancel
      <4> HIDE DEF c, d, e
      <4> QED
        BY Zenon, <3>1, <4>1, <4>2, <4>3
    <3>7. CASE Schedule
      <4>1. PICK ids \in SUBSET TaskIds : call' = [NoCall EXCEPT !.pc = "publish", !.ids = ids]
        BY Zenon, <3>7 DEF Schedule
      <4> QED
        BY Zenon, <3>4, <3>5, <4>1
    <3>8. CASE Resume
      <4>1. PICK t \in TaskIds : call' = [NoCall EXCEPT !.pc = "publish", !.ids = {t}, !.wakeup = TRUE]
        BY Zenon, <3>8 DEF Resume
      <4> DEFINE c == [NoCall EXCEPT !.pc = "publish", !.ids = {t}]
                 d == [c EXCEPT !.wakeup = TRUE]
      <4>2. c \in Calls /\ d \in Calls
        BY Zenon, <3>1, <3>4, CallFields
      <4>3. call' = d
        BY Zenon, <4>1
      <4>4. c.ids = {t}
        BY <3>1 DEF Calls
      <4> HIDE DEF c
      <4>5. d.ids = c.ids
        BY <4>2 DEF Calls
      <4> HIDE DEF d
      <4> QED
        BY Zenon, <4>2, <4>3, <4>4, <4>5
    <3>9. CASE Rebuild
      <4>1. CASE call' = [NoCall EXCEPT !.pc = "rebuild", !.docs = kb]
        <5>1. [NoCall EXCEPT !.pc = "rebuild", !.docs = kb] \in Calls
          BY Zenon, <1>0, <3>1, <3>4, CallFields
        <5>2. [NoCall EXCEPT !.pc = "rebuild", !.docs = kb].wakeup = NoCall.wakeup
          BY <3>1 DEF Calls
        <5> QED
          BY Zenon, <3>1, <4>1, <5>1, <5>2
      <4>2. CASE call' = [NoCall EXCEPT !.pc = "uncheck", !.ids = {t \in TaskIds : task'[t].status = "schedule"}]
        <5> DEFINE ids == {t \in TaskIds : task'[t].status = "schedule"}
        <5>1. ids \in SUBSET TaskIds /\ call' = [NoCall EXCEPT !.pc = "uncheck", !.ids = ids]
          BY Zenon, <4>2
        <5> HIDE DEF ids
        <5> QED
          BY Zenon, <3>4, <3>5, <5>1
      <4>3. CASE call' = [call EXCEPT !.pc = "publish"]
        <5> DEFINE c == [call EXCEPT !.pc = "publish"]
        <5>1. c \in Calls
          BY Zenon, <1>0, <3>4, CallFields
        <5>2. c.wakeup = call.wakeup /\ c.ids = call.ids
          BY <1>0 DEF Calls
        <5>3. call' = c
          BY Zenon, <4>3
        <5> HIDE DEF c
        <5> QED
          BY Zenon, <1>0, <5>1, <5>2, <5>3
      <4> QED
        BY Zenon, <3>9, <4>1, <4>2, <4>3 DEF Rebuild
    <3> QED
      BY Zenon, <1>6, <3>3, <3>6, <3>7, <3>8, <3>9 DEF CallStep, Publish, Abandon
  <2> QED
    BY Zenon, <1>1, <2>1, <2>2 DEF CallOK, Calls
<1> QED
  BY Zenon, <1>3, <1>4, <1>5, <1>6 DEF Next

\* The rows of a connector that was just linked.
LEMMA InitRows ==
  ASSUME Init
  PROVE  /\ Rows(task, clock) /\ clock = 1
         /\ \A t \in TaskIds : task[t].status \in {"absent", "schedule"} /\ task[t].start = 0
<1> DEFINE a == [NoTask EXCEPT !.status = "schedule"]
           b == [NoTask EXCEPT !.status = "schedule", !.type = "prune"]
<1>1. clock = 1 /\ 0 \in 0 .. clock /\ 0 \in 0 .. MaxClaims
  BY TableAssumption DEF Init
<1>2. NoTask \in TaskRow(clock) /\ NoTask.status = "absent" /\ NoTask.start = 0
  BY Zenon, <1>1 DEF NoTask, TaskRow, Statuses, Types
<1>3. a \in TaskRow(clock) /\ a.status = "schedule" /\ a.start = NoTask.start
  BY <1>2 DEF TaskRow, Statuses, ConnStatus
<1>4. b \in TaskRow(clock) /\ b.status = "schedule" /\ b.start = NoTask.start
  BY Zenon, <1>2 DEF TaskRow, Statuses, ConnStatus, Types
<1>5. task = [t \in TaskIds |-> CASE t = 1 -> a [] t = 2 /\ scenario.prune -> b [] OTHER -> NoTask]
  BY Zenon DEF Init
<1> HIDE DEF a, b
<1>6. ASSUME NEW t \in TaskIds
      PROVE  task[t] = IF t = 1 THEN a ELSE IF t = 2 /\ scenario.prune THEN b ELSE NoTask
  BY <1>5
<1>7. task \in [TaskIds -> TaskRow(clock)]
  BY <1>2, <1>3, <1>4, <1>5, <1>6
<1>8. \A t \in TaskIds : task[t].status # "absent" <=> t = 1 \/ (t = 2 /\ scenario.prune)
  BY Zenon, <1>2, <1>3, <1>4, <1>6
<1>9. ASSUME scenario.prune, 2 \in TaskIds
      PROVE  InOrder(task)
  <2>1. 2 \in 0 .. MaxTasks /\ \A t \in TaskIds : t <= 2 <=> t = 1 \/ t = 2
    BY <1>9 DEF TaskIds
  <2>2. \A t \in TaskIds : task[t].status # "absent" <=> t <= 2
    BY Zenon, <1>8, <1>9, <2>1
  <2> QED
    BY Zenon, <2>1, <2>2 DEF InOrder
<1>10. ASSUME ~ (scenario.prune /\ 2 \in TaskIds)
       PROVE  InOrder(task)
  <2>1. 1 \in 0 .. MaxTasks /\ \A t \in TaskIds : t <= 1 <=> t = 1
    BY TableAssumption DEF TaskIds
  <2>2. \A t \in TaskIds : task[t].status # "absent" <=> t <= 1
    BY Zenon, <1>8, <1>10, <2>1
  <2> QED
    BY Zenon, <2>1, <2>2 DEF InOrder
<1>11. InOrder(task)
  BY Zenon, <1>9, <1>10
<1>12. \A t \in TaskIds : task[t].status \in {"absent", "schedule"} /\ task[t].start = 0
  BY Zenon, <1>2, <1>3, <1>4, <1>6
<1> QED
  BY Zenon, <1>1, <1>7, <1>11, <1>12 DEF Rows

\* A connector that was just linked.
LEMMA SyncInit ==
  ASSUME Init
  PROVE  StateOK
<1>0. /\ clock = 1 /\ clock \in Nat /\ clock \in Docs /\ 0 \in 0 .. clock /\ 0 \in 0 .. MaxClaims /\ 0 \in 0 .. MaxRequests
      /\ 0 \in 0 .. MaxFaults /\ 0 \in 0 .. MaxWakeups /\ 1 \in 0 .. MaxWakeups /\ source = {1} /\ source \subseteq 1 .. clock
      /\ 0 \in 0 .. MaxRestarts
  BY TableAssumption, RunnerAssumption, SystemAssumption DEF Init, Docs
<1>1. Rows(task, clock)
  BY Zenon, InitRows
<1>2. TableOK
  BY Zenon, <1>0, <1>1 DEF Init, TableOK, ConnStatus
<1>3. WorkersOK
  <2>1. Resting \in WorkerRow(clock) /\ Placed(Resting)
    BY Zenon, <1>0, RestingTyped DEF Placed
  <2> QED
    BY Zenon, <2>1 DEF Init, WorkersOK
<1>4. RunOK
  <2>1. NoCheckpoint \in CheckpointsAt(clock)
    BY Zenon, <1>0 DEF NoCheckpoint, CheckpointsAt
  <2> QED
    BY Zenon, <1>0, <2>1 DEF Init, RunOK
<1>5. QueuesOK
  BY Zenon, <1>0 DEF Init, QueuesOK, Wakeups
<1>6. ProcsOK
  BY Zenon DEF Init, ProcsOK
<1>7. CallOK
  <2>1. call \in Calls /\ call.wakeup = FALSE
    BY Zenon, NoCallTyped DEF Init
  <2> QED
    BY Zenon, <1>0, <2>1 DEF Init, CallOK
<1>8. FaultsOK
  BY Zenon, <1>0 DEF Init, FaultsOK
<1> QED
  BY Zenon, <1>2, <1>3, <1>4, <1>5, <1>6, <1>7, <1>8 DEF StateOK

\* Every step preserves the types, and all but a claim follow the rules for rows.
LEMMA SyncStep ==
  ASSUME StateOK, [Next]_vars
  PROVE  StateOK' /\ (TableStep \/ \E w \in Workers : ClaimTask(worker[w].t) /\ Claim(w))
<1>1. TableOK /\ WorkersOK /\ RunOK /\ QueuesOK /\ ProcsOK /\ CallOK /\ FaultsOK /\ scenario \in Scenarios
  BY Zenon DEF StateOK, RunOK
<1>2. ProcsOK' /\ CallOK' /\ FaultsOK'
  BY Zenon, <1>1, ProcsTyped, CallTyped, FaultsTyped
<1>3. ASSUME NEW w \in Workers, WorkerStep(w)
      PROVE  StateOK' /\ (TableStep \/ \E v \in Workers : ClaimTask(worker[v].t) /\ Claim(v))
  <2>1. TableOK' /\ WorkersOK' /\ RunOK' /\ (TableStep \/ (ClaimTask(worker[w].t) /\ Claim(w)))
    BY <1>1, <1>3, HandleTyped
  <2>2. QueuesOK'
    BY <1>3, WorkerQueues
  <2> QED
    BY Zenon, <1>2, <2>1, <2>2 DEF StateOK
<1>4. CASE \/ \E p \in Procs : ProcStep(p)
           \/ \E t \in TaskIds : Redeliver(t) \/ Drop(t)
           \/ LockExpires \/ CallStep \/ UNCHANGED vars
  <2>1. TableOK' /\ TableStep /\ WorkersOK' /\ RunOK'
    BY Zenon, <1>1, <1>4, OthersTyped
  <2>2. QueuesOK'
    BY Zenon, <1>4, ProcQueues, CallQueues
  <2> QED
    BY Zenon, <1>2, <2>1, <2>2 DEF StateOK
<1>5. CASE World
  <2>1. TableOK' /\ TableStep /\ WorkersOK' /\ RunOK'
    BY Zenon, <1>1, <1>5, WorldTyped
  <2>2. QueuesOK'
    BY Zenon, <1>5, ProcQueues
  <2> QED
    BY Zenon, <1>2, <2>1, <2>2 DEF StateOK
<1> QED
  BY Zenon, <1>3, <1>4, <1>5 DEF Next

\* The strengthened types hold always.
LEMMA SyncInvariant == Spec => []StateOK
<1>1. Init => StateOK
  BY SyncInit
<1>2. StateOK /\ [Next]_vars => StateOK'
  BY SyncStep
<1> QED
  BY <1>1, <1>2, PTL DEF Spec

\* TaskDAO, TaskWorker and TaskScheduler: every variable keeps its type in every reachable
\* state; in particular ids are given in order, no window, checkpoint or listed document is
\* ahead of the source, and only a worker without a task has no row.
THEOREM SyncTypes == Spec => []TypeOK
<1>1. StateOK => TypeOK
  <2> SUFFICES ASSUME StateOK PROVE TypeOK
    OBVIOUS
  <2>0. clock \in Nat /\ (0 .. clock) \subseteq Nat /\ (1 .. clock) \subseteq Docs
    <3>1. clock \in Docs
      BY Zenon DEF StateOK, RunOK
    <3> QED
      BY <3>1, RunnerAssumption DEF Docs
  <2>1. TableTypeOK
    <3>1. task \in [TaskIds -> [status : ConnStatus \cup {"absent", "deleted"}, type : Types, started : 0 .. MaxClaims,
                                start : Nat, retries : Nat, class : Classes \cup {"none"}]]
      <4>1. \A x \in TaskRow(clock) :
              x \in [status : ConnStatus \cup {"absent", "deleted"}, type : Types, started : 0 .. MaxClaims,
                     start : Nat, retries : Nat, class : Classes \cup {"none"}]
        BY <2>0 DEF TaskRow, Statuses
      <4> QED
        BY Zenon, <4>1 DEF StateOK, TableOK, Rows
    <3>2. lastEnd \in Nat
      BY <2>0 DEF StateOK, TableOK
    <3>3. PICK n \in 0 .. MaxTasks : \A t \in TaskIds : task[t].status # "absent" <=> t <= n
      BY Zenon DEF StateOK, TableOK, Rows, InOrder
    <3>4. \A t, u \in TaskIds : t < u /\ u <= n => t <= n
      BY DEF TaskIds
    <3>5. \A t, u \in TaskIds : t < u /\ task[u].status # "absent" => task[t].status # "absent"
      BY Zenon, <3>3, <3>4
    <3> QED
      BY Zenon, <3>1, <3>2, <3>5 DEF StateOK, TableOK, TableTypeOK
  <2>2. RunnerTypeOK
    <3>1. \A x \in WorkerRow(clock) :
            x \in [pc : Places, t : TaskIds \cup {0}, type : Types, started : 0 .. MaxClaims, start : 0 .. clock,
                   cp : Checkpoints, last : 0 .. clock, queued : SUBSET Docs, ok : SUBSET Docs, bad : SUBSET Docs,
                   retain : SUBSET Docs, error : {"none", "failed", "canceled"}, next : TaskIds \cup {0}]
      <4>1. \A S \in SUBSET (1 .. clock) : S \in SUBSET Docs
        BY <2>0
      <4> QED
        BY <4>1 DEF WorkerRow, CheckpointsAt, Checkpoints
    <3> QED
      BY Zenon, <3>1 DEF StateOK, WorkersOK, RunOK, FaultsOK, RunnerTypeOK, CheckpointsAt, Checkpoints
  <2> QED
    BY Zenon, <2>1, <2>2 DEF StateOK, QueuesOK, ProcsOK, CallOK, Wakeups, Calls, CallPlaces, TypeOK
<1> QED
  BY <1>1, SyncInvariant, PTL

-----------------------------------------------------------------------------
(* Tasks that run are in somebody's hands.                                 *)

\* Statuses no statement leaves.
Over == {"cancel", "deleted"}

\* Where a worker is responsible for the claim it has loaded.
HoldsTask == (Running \ {"uncheck"}) \cup {"lock", "back", "halt", "failed"}

Has(w, t) ==
  /\ worker[w].t = t
  /\ worker[w].pc \in {"mark", "load"} \/ (worker[w].pc \in HoldsTask /\ worker[w].started = task[t].started)

Restarting == \E p \in scenario.procs : proc[p] \in {"down", "recover"} \/ p \in stopping

ProcsDeployed == (\A p \in Procs : proc[p] # "down" => p \in scenario.procs) /\ stopping \subseteq scenario.procs

\* A worker only gives up as cancelled what is cancelled.
CanceledIsOver == \A w \in Workers : worker[w].error = "canceled" /\ worker[w].t \in TaskIds => Status(w) \in Over

AllHeld == \A t \in TaskIds : task[t].status = "running" => (\E w \in Workers : Has(w, t)) \/ Restarting \/ t \in stranded

HeldInv == ProcsDeployed /\ CanceledIsOver /\ AllHeld

\* Cancelled and deleted rows remain so.
LEMMA OverKept ==
  ASSUME StateOK, clock' = clock, TableStep \/ \E u \in TaskIds : ClaimTask(u), NEW t \in TaskIds, task[t].status \in Over
  PROVE  task'[t].status \in Over
<1>1. CASE TableStep
  BY Zenon, <1>1 DEF TableStep, RowsFollow, Follows, Over, ConnStatus
<1>2. ASSUME NEW u \in TaskIds, ClaimTask(u) PROVE task'[t].status \in Over
  <2>1. TableOK
    BY Zenon DEF StateOK
  <2>2. \A v \in TaskIds \ {u} : task'[v] = task[v]
    BY Zenon, <1>2, <2>1, ClaimTyped
  <2>3. task[u].status = "schedule"
    BY Zenon, <1>2 DEF ClaimTask, Claimable
  <2> QED
    BY Zenon, <2>2, <2>3 DEF Over
<1> QED
  BY Zenon, <1>1, <1>2

\* Only ClaimTask makes a task run.
LEMMA NoneBegins ==
  ASSUME TableStep, NEW t \in TaskIds, task'[t].status = "running"
  PROVE  task'[t] = task[t]
BY Zenon DEF TableStep, RowsFollow, Follows, ConnStatus

\* Becomes changes one worker.
LEMMA OneBecomes ==
  ASSUME WorkersOK, NEW w \in Workers, NEW x, Becomes(w, x)
  PROVE  worker'[w] = x /\ \A v \in Workers \ {w} : worker'[v] = worker[v]
BY Zenon DEF WorkersOK, Becomes

\* A run's step leaves the task with the worker, or the task does not run any more.
LEMMA RunHolds ==
  ASSUME StateOK, NEW w \in Workers, CanceledIsOver, RunStep(w)
  PROVE  /\ \A v \in Workers \ {w} : worker'[v] = worker[v]
         /\ worker'[w].t = worker[w].t /\ worker'[w].started = worker[w].started
         /\ worker[w].pc \in HoldsTask => worker'[w].pc \in HoldsTask \/ task'[worker[w].t].status # "running"
         /\ worker'[w].error = "canceled" => worker[w].error = "canceled" \/ Status(w) = "cancel"
<1> DEFINE x == worker[w]
           Goal == /\ \A v \in Workers \ {w} : worker'[v] = worker[v]
                   /\ worker'[w].t = x.t /\ worker'[w].started = x.started
                   /\ x.pc \in HoldsTask => worker'[w].pc \in HoldsTask \/ task'[x.t].status # "running"
                   /\ worker'[w].error = "canceled" => x.error = "canceled" \/ Status(w) = "cancel"
<1>1. WorkersOK /\ TableOK /\ x \in WorkerRow(clock) /\ Placed(x)
  BY Zenon DEF StateOK, WorkersOK
<1>2. ASSUME NEW y, Becomes(w, y), y.t = x.t, y.started = x.started, y.error = x.error,
             x.pc \in HoldsTask => y.pc \in HoldsTask \/ task'[x.t].status # "running"
      PROVE  Goal
  BY Zenon, <1>1, <1>2, OneBecomes
<1>3. ASSUME NEW pc, Goes(w, pc), x.pc \in HoldsTask => pc \in HoldsTask \/ task'[x.t].status # "running"
      PROVE  Goal
  <2> DEFINE y == [x EXCEPT !.pc = pc]
  <2>1. Becomes(w, y)
    BY Zenon, <1>1, <1>3, GoesBecomes
  <2>2. y.t = x.t /\ y.started = x.started /\ y.error = x.error /\ y.pc = pc
    BY <1>1 DEF WorkerRow
  <2> HIDE DEF y
  <2> QED
    BY <1>2, <1>3, <2>1, <2>2
<1>4. ASSUME NEW e, Ends(w, e), e = "canceled" => task'[x.t].status # "running"
      PROVE  Goal
  <2> DEFINE y == [x EXCEPT !.pc = IF e = "canceled" THEN "ack" ELSE "failed", !.queued = {}]
  <2>1. Becomes(w, y)
    BY Zenon, <1>4 DEF Ends
  <2>2. y.t = x.t /\ y.started = x.started /\ y.error = x.error /\ y.pc = IF e = "canceled" THEN "ack" ELSE "failed"
    BY <1>1 DEF WorkerRow
  <2>3. x.pc \in HoldsTask => y.pc \in HoldsTask \/ task'[x.t].status # "running"
    BY Zenon, <1>4, <2>2 DEF HoldsTask
  <2> HIDE DEF y
  <2> QED
    BY <1>2, <2>1, <2>2, <2>3
<1> SUFFICES Goal
  BY Zenon
<1> HIDE DEF Goal
<1>5. ASSUME Ends(w, StopError(w)), task' = task PROVE Goal
  <2>1. StopError(w) = "canceled" => task'[x.t].status # "running"
    BY Zenon, <1>5 DEF StopError, Status
  <2> QED
    BY Zenon, <1>4, <1>5, <2>1
<1>6. ASSUME Ends(w, "failed") PROVE Goal
  BY Zenon, <1>4, <1>6
<1>7. CASE Open(w)
  <2>1. \/ Goes(w, "snapshot")
        \/ \E a, b : Becomes(w, [x EXCEPT !.pc = "list", !.cp = a, !.last = b])
    BY Zenon, <1>7 DEF Open
  <2>2. ASSUME NEW a, NEW b, Becomes(w, [x EXCEPT !.pc = "list", !.cp = a, !.last = b]) PROVE Goal
    <3> DEFINE y == [x EXCEPT !.pc = "list", !.cp = a, !.last = b]
    <3>1. y.t = x.t /\ y.started = x.started /\ y.error = x.error /\ y.pc = "list"
      BY <1>1 DEF WorkerRow
    <3>2. Becomes(w, y)
      BY Zenon, <2>2
    <3> HIDE DEF y
    <3> QED
      BY Zenon, <1>2, <3>1, <3>2 DEF HoldsTask, Running
  <2>3. "snapshot" \in HoldsTask
    BY Zenon DEF HoldsTask, Running
  <2> QED
    BY Zenon, <1>3, <2>1, <2>2, <2>3
<1>8. CASE List(w)
  <2>1. task' = task /\ x.t \in TaskIds
    BY Zenon, <1>1, <1>8 DEF List, tableVars, Placed
  <2>2. CASE Ends(w, StopError(w))
    BY Zenon, <1>5, <2>1, <2>2
  <2>3. ASSUME NEW i, Becomes(w, [x EXCEPT !.last = i, !.queued = @ \cup {i}]) PROVE Goal
    <3> DEFINE y == [x EXCEPT !.last = i, !.queued = @ \cup {i}]
    <3>1. y.t = x.t /\ y.started = x.started /\ y.error = x.error /\ y.pc = x.pc
      BY <1>1 DEF WorkerRow
    <3>2. Becomes(w, y)
      BY Zenon, <2>3
    <3> HIDE DEF y
    <3> QED
      BY Zenon, <1>2, <3>1, <3>2
  <2>4. CASE Goes(w, "collect")
    <3>1. "collect" \in HoldsTask
      BY Zenon DEF HoldsTask, Running
    <3> QED
      BY Zenon, <1>3, <2>4, <3>1
  <2>5. CASE Becomes(w, [x EXCEPT !.pc = "collect", !.error = "failed"])
    <3> DEFINE y == [x EXCEPT !.pc = "collect", !.error = "failed"]
    <3>1. y.t = x.t /\ y.started = x.started /\ y.error = "failed" /\ y.pc = "collect"
      BY <1>1 DEF WorkerRow
    <3>2. Becomes(w, y)
      BY Zenon, <2>5
    <3> HIDE DEF y
    <3>3. worker'[w] = y /\ \A v \in Workers \ {w} : worker'[v] = worker[v]
      BY Zenon, <1>1, <3>2, OneBecomes
    <3> QED
      BY Zenon, <3>1, <3>3 DEF HoldsTask, Running, Goal
  <2> QED
    BY Zenon, <1>8, <2>2, <2>3, <2>4, <2>5 DEF List
<1>9. CASE Restart(w)
  <2>1. ASSUME NEW a, Becomes(w, [x EXCEPT !.cp = a, !.last = 0]) PROVE Goal
    <3> DEFINE y == [x EXCEPT !.cp = a, !.last = 0]
    <3>1. y.t = x.t /\ y.started = x.started /\ y.error = x.error /\ y.pc = x.pc
      BY <1>1 DEF WorkerRow
    <3>2. Becomes(w, y)
      BY Zenon, <2>1
    <3> HIDE DEF y
    <3> QED
      BY Zenon, <1>2, <3>1, <3>2
  <2> QED
    BY Zenon, <1>6, <1>9, <2>1 DEF Restart
<1>10. CASE Job(w)
  <2>1. PICK i \in x.queued :
          \/ Becomes(w, [x EXCEPT !.queued = @ \ {i}, !.ok = @ \cup {i}])
          \/ \E e \in {IF Stopped(w) THEN StopError(w) ELSE "failed"} \cup ({x.error} \ {"none"}) :
               Becomes(w, [x EXCEPT !.queued = @ \ {i}, !.bad = @ \cup {i}, !.error = e])
    BY Zenon, <1>10 DEF Job
  <2>2. CASE Becomes(w, [x EXCEPT !.queued = @ \ {i}, !.ok = @ \cup {i}])
    <3> DEFINE y == [x EXCEPT !.queued = @ \ {i}, !.ok = @ \cup {i}]
    <3>1. y.t = x.t /\ y.started = x.started /\ y.error = x.error /\ y.pc = x.pc
      BY <1>1 DEF WorkerRow
    <3>2. Becomes(w, y)
      BY Zenon, <2>2
    <3> HIDE DEF y
    <3> QED
      BY Zenon, <1>2, <3>1, <3>2
  <2>3. ASSUME NEW e \in {IF Stopped(w) THEN StopError(w) ELSE "failed"} \cup ({x.error} \ {"none"}),
               Becomes(w, [x EXCEPT !.queued = @ \ {i}, !.bad = @ \cup {i}, !.error = e])
        PROVE  Goal
    <3> DEFINE y == [x EXCEPT !.queued = @ \ {i}, !.bad = @ \cup {i}, !.error = e]
    <3>1. y.t = x.t /\ y.started = x.started /\ y.error = e /\ y.pc = x.pc
      BY <1>1 DEF WorkerRow
    <3>2. Becomes(w, y)
      BY Zenon, <2>3
    <3> HIDE DEF y
    <3>3. worker'[w] = y /\ \A v \in Workers \ {w} : worker'[v] = worker[v]
      BY Zenon, <1>1, <3>2, OneBecomes
    <3>4. e = "canceled" => x.error = "canceled" \/ Status(w) = "cancel"
      BY Zenon, <2>3 DEF StopError
    <3> QED
      BY Zenon, <3>1, <3>3, <3>4 DEF Goal
  <2> QED
    BY Zenon, <2>1, <2>2, <2>3
<1>11. CASE Collect(w)
  <2>1. task' = task /\ x.t \in TaskIds
    BY Zenon, <1>1, <1>11 DEF Collect, tableVars, Placed
  <2>2. ASSUME NEW a, Becomes(w, [x EXCEPT !.cp = a]) PROVE Goal
    <3> DEFINE y == [x EXCEPT !.cp = a]
    <3>1. y.t = x.t /\ y.started = x.started /\ y.error = x.error /\ y.pc = x.pc
      BY <1>1 DEF WorkerRow
    <3>2. Becomes(w, y)
      BY Zenon, <2>2
    <3> HIDE DEF y
    <3> QED
      BY Zenon, <1>2, <3>1, <3>2
  <2>3. CASE Ends(w, x.error)
    <3>1. x.error = "canceled" => task'[x.t].status # "running"
      BY Zenon, <2>1 DEF CanceledIsOver, Status, Over
    <3> QED
      BY Zenon, <1>4, <2>3, <3>1
  <2>4. CASE Goes(w, "complete")
    <3>1. "complete" \in HoldsTask
      BY Zenon DEF HoldsTask, Running
    <3> QED
      BY Zenon, <1>3, <2>4, <3>1
  <2>5. CASE Ends(w, StopError(w))
    BY Zenon, <1>5, <2>1, <2>5
  <2> QED
    BY Zenon, <1>11, <2>2, <2>3, <2>4, <2>5 DEF Collect, Commits
<1>12. CASE Snapshot(w)
  <2>1. task' = task
    BY Zenon, <1>12 DEF Snapshot, tableVars
  <2>2. CASE Becomes(w, [x EXCEPT !.pc = "purge", !.retain = source])
    <3> DEFINE y == [x EXCEPT !.pc = "purge", !.retain = source]
    <3>1. y.t = x.t /\ y.started = x.started /\ y.error = x.error /\ y.pc = "purge"
      BY <1>1 DEF WorkerRow
    <3>2. Becomes(w, y)
      BY Zenon, <2>2
    <3>3. y.pc \in HoldsTask
      BY Zenon, <3>1 DEF HoldsTask, Running
    <3> HIDE DEF y
    <3> QED
      BY Zenon, <1>2, <3>1, <3>2, <3>3
  <2>3. CASE Ends(w, StopError(w))
    BY Zenon, <1>5, <2>1, <2>3
  <2> QED
    BY Zenon, <1>12, <2>2, <2>3 DEF Snapshot
<1>13. CASE Purge(w)
  <2>1. task' = task
    BY Zenon, <1>13 DEF Purge, tableVars
  <2>2. "complete" \in HoldsTask
    BY Zenon DEF HoldsTask, Running
  <2>3. Ends(w, StopError(w)) \/ Goes(w, "complete") \/ Ends(w, "failed")
    BY Zenon, <1>13 DEF Purge
  <2> QED
    BY Zenon, <1>3, <1>5, <1>6, <2>1, <2>2, <2>3
<1>14. CASE Finish(w)
  <2>1. x.t \in TaskIds /\ clock' = clock
    BY Zenon, <1>1, <1>14 DEF Finish, worldVars, Placed
  <2>2. ASSUME Complete(x.t, x.cp.end), NEW next, Becomes(w, [x EXCEPT !.pc = "uncheck", !.next = next]) PROVE Goal
    <3> DEFINE y == [x EXCEPT !.pc = "uncheck", !.next = next]
    <3>1. y.t = x.t /\ y.started = x.started /\ y.error = x.error
      BY <1>1 DEF WorkerRow
    <3>2. Becomes(w, y)
      BY Zenon, <2>2
    <3>3. x.cp.end \in 0 .. clock
      BY <1>1 DEF WorkerRow, CheckpointsAt
    <3>4. task'[x.t].status # "running"
      BY Zenon, <1>1, <2>1, <2>2, <3>3, CompleteTyped
    <3> HIDE DEF y
    <3> QED
      BY Zenon, <1>2, <3>1, <3>2, <3>4
  <2>3. CASE Status(w) # "running" /\ Goes(w, "uncheck") /\ task' = task
    <3>1. task'[x.t].status # "running"
      BY Zenon, <2>3 DEF Status
    <3> QED
      BY Zenon, <1>3, <2>3, <3>1
  <2>4. CASE Ends(w, "failed")
    BY Zenon, <1>6, <2>4
  <2> QED
    BY Zenon, <1>14, <2>2, <2>3, <2>4 DEF Finish, tableVars
<1>15. CASE Uncheck(w)
  <2>1. Goes(w, "next") /\ x.pc \notin HoldsTask
    BY Zenon, <1>15 DEF Uncheck, HoldsTask, Running
  <2> QED
    BY Zenon, <1>3, <2>1
<1>16. CASE Breaks(w)
  BY Zenon, <1>6, <1>16 DEF Breaks
<1> QED
  BY Zenon, <1>7, <1>8, <1>9, <1>10, <1>11, <1>12, <1>13, <1>14, <1>15, <1>16 DEF RunStep

\* What a step of w may not forget.
Responsible(w) ==
  /\ \A v \in Workers \ {w} : worker'[v] = worker[v]
  /\ worker'[w].error = "canceled" =>
       worker'[w].t = worker[w].t /\ (worker[w].error = "canceled" \/ Status(w) = "cancel")
  /\ Has(w, worker[w].t) /\ task'[worker[w].t].status = "running" =>
       \/ /\ worker'[w].t = worker[w].t
          /\ \/ worker'[w].pc \in {"mark", "load"}
             \/ worker'[w].pc \in HoldsTask /\ worker'[w].started = task[worker[w].t].started
       \/ ProcOf[w] \in stopping
       \/ worker[w].t \in stranded'

\* The worker lets go of its task, which is not running, stranded, or of a process that stops.
LEMMA LetsGo ==
  ASSUME StateOK, NEW w \in Workers, NEW pc, Becomes(w, [Resting EXCEPT !.pc = pc]) \/ Becomes(w, Resting),
         \/ ~ Has(w, worker[w].t) \/ task'[worker[w].t].status # "running" \/ ProcOf[w] \in stopping
         \/ worker[w].t \in stranded'
  PROVE  Responsible(w)
<1>1. WorkersOK /\ clock \in Nat
  BY Zenon DEF StateOK, TableOK
<1>2. Resting \in WorkerRow(clock) /\ Resting.error = "none"
  <2>1. Resting \in WorkerRow(clock)
    BY Zenon, <1>1, RestingTyped
  <2> QED
    BY Zenon, <2>1 DEF Resting
<1> DEFINE y == [Resting EXCEPT !.pc = pc]
<1>3. y.error = "none"
  BY <1>2 DEF WorkerRow
<1>4. Becomes(w, y) \/ Becomes(w, Resting)
  BY Zenon
<1> HIDE DEF y
<1>5. /\ worker'[w].error = "none"
      /\ \A v \in Workers \ {w} : worker'[v] = worker[v]
  BY Zenon, <1>1, <1>2, <1>3, <1>4, OneBecomes
<1> QED
  BY Zenon, <1>5 DEF Responsible

\* The worker goes on with it.
LEMMA GoesOn ==
  ASSUME StateOK, NEW w \in Workers, NEW pc, Goes(w, pc),
         \/ ~ Has(w, worker[w].t) \/ task'[worker[w].t].status # "running" \/ pc = "load"
         \/ pc \in HoldsTask /\ worker[w].pc \in HoldsTask
  PROVE  Responsible(w)
<1> DEFINE x == worker[w]
           y == [x EXCEPT !.pc = pc]
<1>1. WorkersOK /\ x \in WorkerRow(clock)
  BY Zenon DEF StateOK, WorkersOK
<1>2. Becomes(w, y)
  BY Zenon, <1>1, GoesBecomes
<1>3. y.t = x.t /\ y.started = x.started /\ y.error = x.error /\ y.pc = pc
  BY <1>1 DEF WorkerRow
<1> HIDE DEF y
<1>4. worker'[w] = y /\ \A v \in Workers \ {w} : worker'[v] = worker[v]
  BY Zenon, <1>1, <1>2, OneBecomes
<1>5. "mark" \notin HoldsTask /\ "load" \notin HoldsTask
  BY Zenon DEF HoldsTask, Running
<1> QED
  BY Zenon, <1>3, <1>4, <1>5 DEF Responsible, Has

\* A job does not move its worker.
LEMMA JobPlace ==
  ASSUME WorkersOK, NEW w \in Workers, Job(w)
  PROVE  worker'[w].pc = worker[w].pc
<1> DEFINE x == worker[w]
<1>1. x \in WorkerRow(clock)
  BY Zenon DEF WorkersOK
<1>2. PICK i : \/ Becomes(w, [x EXCEPT !.queued = @ \ {i}, !.ok = @ \cup {i}])
               \/ \E e : Becomes(w, [x EXCEPT !.queued = @ \ {i}, !.bad = @ \cup {i}, !.error = e])
  BY Zenon DEF Job
<1>3. [x EXCEPT !.queued = @ \ {i}, !.ok = @ \cup {i}].pc = x.pc
  BY <1>1 DEF WorkerRow
<1>4. \A e : [x EXCEPT !.queued = @ \ {i}, !.bad = @ \cup {i}, !.error = e].pc = x.pc
  BY <1>1 DEF WorkerRow
<1> QED
  BY Zenon, <1>2, <1>3, <1>4, OneBecomes

\* The steps of TaskWorker.handle.
LEMMA HandleHolds ==
  ASSUME StateOK, NEW w \in Workers, CanceledIsOver, WorkerStep(w)
  PROVE  Responsible(w)
<1> DEFINE x == worker[w]
           t == worker[w].t
<1>0. WorkersOK /\ TableOK /\ clock \in Nat /\ x \in WorkerRow(clock) /\ Placed(x)
  BY Zenon DEF StateOK, TableOK, WorkersOK
<1>1. CASE Deliver(w)
  <2>1. PICK u \in TaskIds : Becomes(w, [Resting EXCEPT !.pc = "claim", !.t = u, !.type = task[u].type])
    BY Zenon, <1>1 DEF Deliver
  <2> DEFINE y == [Resting EXCEPT !.pc = "claim", !.t = u, !.type = task[u].type]
  <2>2. Resting \in WorkerRow(clock) /\ Resting.error = "none"
    <3>1. Resting \in WorkerRow(clock)
      BY Zenon, <1>0, RestingTyped
    <3> QED
      BY Zenon, <3>1 DEF Resting
  <2>3. y.error = "none"
    BY <2>2 DEF WorkerRow
  <2>4. Becomes(w, y)
    BY Zenon, <2>1
  <2> HIDE DEF y
  <2>5. worker'[w] = y /\ \A v \in Workers \ {w} : worker'[v] = worker[v]
    BY Zenon, <1>0, <2>4, OneBecomes
  <2>6. ~ Has(w, t)
    BY Zenon, <1>1 DEF Deliver, Has, HoldsTask, Running
  <2> QED
    BY Zenon, <2>3, <2>5, <2>6 DEF Responsible
<1>2. CASE Claim(w)
  <2>1. ~ Has(w, t)
    BY Zenon, <1>2 DEF Claim, Has, HoldsTask, Running
  <2>2. Goes(w, "mark") \/ Goes(w, "status") \/ Becomes(w, [Resting EXCEPT !.pc = "idle"])
    BY Zenon, <1>2 DEF Claim, Nack
  <2> QED
    BY Zenon, <2>1, <2>2, GoesOn, LetsGo
<1>3. CASE CheckStatus(w)
  <2>1. ~ Has(w, t)
    BY Zenon, <1>3 DEF CheckStatus, Has, HoldsTask, Running
  <2>2. Becomes(w, Resting) \/ Becomes(w, [Resting EXCEPT !.pc = "idle"])
    BY Zenon, <1>3 DEF CheckStatus, Nack
  <2> QED
    BY Zenon, <2>1, <2>2, LetsGo
<1>4. CASE MarkRunning(w)
  <2>1. \/ Goes(w, "load")
        \/ Becomes(w, [Resting EXCEPT !.pc = "idle"]) /\ (task'[t].status # "running" \/ t \in stranded')
    BY Zenon, <1>4 DEF MarkRunning, Nack, Strands, tableVars
  <2> QED
    BY Zenon, <2>1, GoesOn, LetsGo
<1>5. CASE Load(w)
  <2>0. t \in TaskIds /\ clock' = clock
    BY Zenon, <1>0, <1>5 DEF Load, Placed, worldVars
  <2>1. CASE FailTask(t) /\ Becomes(w, Resting)
    <3>1. task'[t].status # "running"
      BY Zenon, <1>0, <2>0, <2>1, FailTyped
    <3> QED
      BY Zenon, <2>1, <3>1, LetsGo
  <2>2. CASE RescheduleClaimed(t, 0) /\ Nack(w, "idle")
    <3>1. TableStep /\ (Claimed(t, 0) => task'[t].status = "schedule")
      BY Zenon, <1>0, <2>0, <2>2, RescheduleTyped
    <3>2. task'[t].status # "running"
      BY Zenon, <2>0, <3>1, NoneBegins DEF Claimed
    <3> QED
      BY Zenon, <2>2, <3>2, LetsGo DEF Nack
  <2>3. CASE task' = task /\ Becomes(w, [x EXCEPT !.pc = "lock", !.started = task[t].started, !.start = task[t].start])
    <3> DEFINE y == [x EXCEPT !.pc = "lock", !.started = task[t].started, !.start = task[t].start]
    <3>1. y.t = x.t /\ y.error = x.error /\ y.pc = "lock" /\ y.started = task[t].started
      BY <1>0 DEF WorkerRow
    <3>2. Becomes(w, y)
      BY Zenon, <2>3
    <3> HIDE DEF y
    <3>3. worker'[w] = y /\ \A v \in Workers \ {w} : worker'[v] = worker[v]
      BY Zenon, <1>0, <3>2, OneBecomes
    <3> QED
      BY Zenon, <3>1, <3>3 DEF Responsible, HoldsTask
  <2>4. CASE task[t].status = "deleted" /\ Becomes(w, Resting) /\ task' = task
    BY Zenon, <2>4, LetsGo
  <2>5. CASE Strands(w, "idle")
    <3>1. t \in stranded'
      BY Zenon, <2>5 DEF Strands
    <3> QED
      BY Zenon, <2>5, <3>1, LetsGo DEF Strands, Nack
  <2> QED
    BY Zenon, <1>5, <2>1, <2>2, <2>3, <2>4, <2>5 DEF Load, tableVars
<1>6. CASE Lock(w)
  <2>1. x.pc = "lock" /\ (Goes(w, "open") \/ Goes(w, "back"))
    BY Zenon, <1>6 DEF Lock
  <2>2. {"open", "back", "lock"} \subseteq HoldsTask
    BY Zenon DEF HoldsTask, Running
  <2> QED
    BY Zenon, <2>1, <2>2, GoesOn
<1>7. ASSUME x.pc \in HoldsTask, t \in TaskIds, clock' = clock, RescheduleClaimed(t, x.started), NEW pc,
             Becomes(w, [Resting EXCEPT !.pc = pc])
      PROVE  Responsible(w)
  <2>1. TableStep /\ (Claimed(t, x.started) => task'[t].status = "schedule")
    BY Zenon, <1>0, <1>7, RescheduleTyped
  <2>2. Has(w, t) => task'[t].status # "running"
    <3> SUFFICES ASSUME Has(w, t), task'[t].status = "running" PROVE FALSE
      BY Zenon
    <3>1. task[t].status = "running"
      BY Zenon, <1>7, <2>1, NoneBegins
    <3>2. x.started = task[t].started
      BY Zenon, <1>7 DEF Has, HoldsTask, Running
    <3> QED
      BY Zenon, <2>1, <3>1, <3>2 DEF Claimed
  <2> QED
    BY Zenon, <1>7, <2>2, LetsGo
<1>8. CASE PutBack(w)
  <2>0. x.pc \in HoldsTask /\ t \in TaskIds /\ clock' = clock
    BY Zenon, <1>0, <1>8 DEF PutBack, HoldsTask, Placed, worldVars
  <2> DEFINE pc == IF x.pc = "halt" THEN "unlock" ELSE "idle"
  <2>1. \/ RescheduleClaimed(t, x.started) /\ Becomes(w, [Resting EXCEPT !.pc = pc])
        \/ t \in stranded' /\ Becomes(w, [Resting EXCEPT !.pc = pc])
    BY Zenon, <1>8 DEF PutBack, Strands, Nack
  <2> HIDE DEF pc
  <2> QED
    BY Zenon, <1>7, <2>0, <2>1, LetsGo
<1>9. CASE HandleError(w)
  <2>0. x.pc \in HoldsTask /\ t \in TaskIds /\ clock' = clock
    BY Zenon, <1>0, <1>9 DEF HandleError, HoldsTask, Placed, worldVars
  <2>1. ASSUME NEW class \in Classes, HandleTransientFailure(t, class), Goes(w, "ack")
        PROVE  Responsible(w)
    <3>1. task'[t].status # "running"
      BY Zenon, <1>0, <2>0, <2>1, FailureTyped
    <3> QED
      BY Zenon, <2>1, <3>1, GoesOn
  <2>2. CASE RescheduleClaimed(t, x.started) /\ Nack(w, "unlock")
    BY Zenon, <1>7, <2>0, <2>2 DEF Nack
  <2>3. CASE Strands(w, "unlock")
    <3>1. t \in stranded'
      BY Zenon, <2>3 DEF Strands
    <3> QED
      BY Zenon, <2>3, <3>1, LetsGo DEF Strands, Nack
  <2> QED
    BY Zenon, <1>9, <2>1, <2>2, <2>3 DEF HandleError
<1>10. CASE ScheduleNext(w) \/ Ack(w) \/ Unlock(w) \/ Release(w)
  <2>1. ~ Has(w, t)
    BY Zenon, <1>10 DEF ScheduleNext, Ack, Unlock, Release, Has, HoldsTask, Running
  <2>2. Goes(w, "ack") \/ Goes(w, "release") \/ Becomes(w, Resting) \/ Becomes(w, [Resting EXCEPT !.pc = "unlock"])
    BY Zenon, <1>10 DEF ScheduleNext, Ack, Unlock, Release
  <2> QED
    BY Zenon, <2>1, <2>2, GoesOn, LetsGo
<1>11. CASE Interrupted(w)
  <2>1. ProcOf[w] \in stopping
    BY Zenon, <1>11 DEF Interrupted
  <2>2. CASE Becomes(w, [Resting EXCEPT !.pc = "idle"])
    BY Zenon, <2>1, <2>2, LetsGo
  <2>3. CASE Becomes(w, [x EXCEPT !.pc = "halt", !.queued = {}])
    <3> DEFINE y == [x EXCEPT !.pc = "halt", !.queued = {}]
    <3>1. y.t = x.t /\ y.error = x.error
      BY <1>0 DEF WorkerRow
    <3>2. Becomes(w, y)
      BY Zenon, <2>3
    <3> HIDE DEF y
    <3>3. worker'[w] = y /\ \A v \in Workers \ {w} : worker'[v] = worker[v]
      BY Zenon, <1>0, <3>2, OneBecomes
    <3> QED
      BY Zenon, <2>1, <3>1, <3>3 DEF Responsible
  <2> QED
    BY Zenon, <1>11, <2>2, <2>3 DEF Interrupted, Nack
<1>12. CASE Runs(w)
  <2>0. RunStep(w)
    BY Zenon, <1>12 DEF Runs
  <2>1. /\ \A v \in Workers \ {w} : worker'[v] = worker[v]
        /\ worker'[w].t = worker[w].t /\ worker'[w].started = worker[w].started
        /\ worker[w].pc \in HoldsTask => worker'[w].pc \in HoldsTask \/ task'[worker[w].t].status # "running"
        /\ worker'[w].error = "canceled" => worker[w].error = "canceled" \/ Status(w) = "cancel"
    BY <2>0, RunHolds
  <2>2. x.pc \in {"mark", "load"} => worker'[w].pc = x.pc
    <3>1. x.pc \in Running \/ Job(w)
      BY Zenon, <2>0 DEF RunStep, Open, List, Restart, Collect, Snapshot, Purge, Finish, Uncheck, Breaks, Running
    <3>2. Job(w) => worker'[w].pc = x.pc
      BY Zenon, <1>0, JobPlace
    <3> QED
      BY Zenon, <3>1, <3>2 DEF Running
  <2> QED
    BY Zenon, <2>1, <2>2 DEF Responsible, Has
<1> QED
  BY Zenon, <1>1, <1>2, <1>3, <1>4, <1>5, <1>6, <1>8, <1>9, <1>10, <1>11, <1>12 DEF WorkerStep

\* The workers keep every running task in somebody's hands.
LEMMA WorkersHold ==
  ASSUME StateOK, HeldInv, NEW w \in Workers, WorkerStep(w)
  PROVE  HeldInv'
<1>0. TableOK /\ WorkersOK /\ RunOK /\ worker[w] \in WorkerRow(clock) /\ Placed(worker[w]) /\ CanceledIsOver
  BY Zenon DEF StateOK, HeldInv, WorkersOK
<1>1. scenario' = scenario /\ proc' = proc /\ stopping' = stopping /\ clock' = clock /\ stranded \subseteq stranded'
  BY ZenonT(60)
  DEF WorkerStep, Deliver, Claim, CheckStatus, MarkRunning, Load, Lock, PutBack, HandleError, ScheduleNext, Ack, Unlock,
      Release, Interrupted, Strands, Runs, RunStep, Open, List, Restart, Job, Collect, Snapshot, Purge, Finish, Uncheck, Breaks,
      worldVars, procVars
<1>2. Responsible(w)
  BY Zenon, <1>0, HandleHolds
<1>3. TableStep \/ (ClaimTask(worker[w].t) /\ Claim(w) /\ worker[w].t \in TaskIds)
  <2>1. TableStep \/ (ClaimTask(worker[w].t) /\ Claim(w))
    BY <1>0, HandleTyped
  <2>2. Claim(w) => worker[w].t \in TaskIds
    BY Zenon, <1>0 DEF Claim, Placed
  <2> QED
    BY Zenon, <2>1, <2>2
<1>4. ProcsDeployed'
  BY Zenon, <1>1 DEF HeldInv, ProcsDeployed
<1>5. CanceledIsOver'
  <2> SUFFICES ASSUME NEW v \in Workers, worker'[v].error = "canceled", worker'[v].t \in TaskIds
               PROVE  task'[worker'[v].t].status \in Over
    BY Zenon DEF CanceledIsOver, Status
  <2>1. worker'[v].t = worker[v].t /\ task[worker[v].t].status \in Over
    <3>1. CASE v = w
      BY Zenon, <1>0, <1>2, <3>1 DEF Responsible, CanceledIsOver, Status, Over
    <3>2. CASE v # w
      BY Zenon, <1>0, <1>2, <3>2 DEF Responsible, CanceledIsOver, Status
    <3> QED
      BY Zenon, <3>1, <3>2
  <2> QED
    BY Zenon, <1>1, <1>3, <2>1, OverKept
<1>6. AllHeld'
  <2> SUFFICES ASSUME NEW t \in TaskIds, task'[t].status = "running"
               PROVE  (\E v \in Workers : Has(v, t)') \/ Restarting' \/ t \in stranded'
    BY Zenon DEF AllHeld
  <2>1. Restarting => Restarting'
    BY Zenon, <1>1 DEF Restarting
  <2>2. CASE task'[t] = task[t]
    <3>1. (\E v \in Workers : Has(v, t)) \/ Restarting \/ t \in stranded
      BY Zenon, <2>2 DEF HeldInv, AllHeld
    <3>2. ASSUME NEW v \in Workers, Has(v, t), v # w PROVE Has(v, t)'
      BY Zenon, <1>2, <2>2, <3>2 DEF Responsible, Has
    <3>3. ASSUME Has(w, t) PROVE Has(w, t)' \/ Restarting \/ t \in stranded'
      <4>0. worker[w].t = t
        BY Zenon, <3>3 DEF Has
      <4>1. \/ /\ worker'[w].t = t
               /\ \/ worker'[w].pc \in {"mark", "load"}
                  \/ worker'[w].pc \in HoldsTask /\ worker'[w].started = task[t].started
            \/ ProcOf[w] \in stopping
            \/ t \in stranded'
        BY Zenon, <1>2, <3>3, <4>0 DEF Responsible
      <4>2. ProcOf[w] \in stopping => Restarting
        BY Zenon DEF HeldInv, ProcsDeployed, Restarting
      <4> QED
        BY Zenon, <2>2, <4>1, <4>2 DEF Has
    <3> QED
      BY Zenon, <1>1, <2>1, <3>1, <3>2, <3>3
  <2>3. CASE task'[t] # task[t]
    <3>1. ClaimTask(worker[w].t) /\ Claim(w) /\ worker[w].t \in TaskIds
      BY Zenon, <1>3, <2>3, NoneBegins
    <3>2. \A u \in TaskIds \ {worker[w].t} : task'[u] = task[u]
      BY Zenon, <1>0, <1>1, <3>1, ClaimTyped
    <3>3. worker[w].t = t
      BY Zenon, <2>3, <3>2
    <3>4. Goes(w, "mark")
      <4>1. task' = task \/ Goes(w, "mark")
        BY Zenon, <3>1 DEF Claim, tableVars
      <4> QED
        BY Zenon, <2>3, <4>1
    <3>5. [worker[w] EXCEPT !.pc = "mark"].t = t /\ [worker[w] EXCEPT !.pc = "mark"].pc = "mark"
      BY <1>0, <3>3 DEF WorkerRow
    <3>6. Has(w, t)'
      BY Zenon, <1>0, <3>4, <3>5, GoesBecomes, OneBecomes DEF Has
    <3> QED
      BY Zenon, <3>6
  <2> QED
    BY Zenon, <2>2, <2>3
<1> QED
  BY Zenon, <1>4, <1>5, <1>6 DEF HeldInv

\* So do the processes, the requests and the rest.
LEMMA OthersHold ==
  ASSUME StateOK, HeldInv,
         \/ \E p \in Procs : ProcStep(p)
         \/ \E t \in TaskIds : Redeliver(t) \/ Drop(t)
         \/ LockExpires \/ CallStep \/ World \/ UNCHANGED vars
  PROVE  HeldInv'
<1>0. TableOK /\ WorkersOK /\ RunOK /\ ProcsOK /\ proc \in [Procs -> {"down", "recover", "list", "up"}]
  BY Zenon DEF StateOK, ProcsOK
<1>1. TableStep
  BY Zenon, <1>0, OthersTyped, WorldTyped
<1>2. \A t \in TaskIds : task[t].status \in Over => task'[t].status \in Over
  BY Zenon, <1>1 DEF TableStep, RowsFollow, Follows, Over, ConnStatus
<1>3. ASSUME worker' = worker, scenario' = scenario, stranded \subseteq stranded', ProcsDeployed', Restarting => Restarting'
      PROVE  HeldInv'
  <2>1. CanceledIsOver'
    BY Zenon, <1>2, <1>3 DEF HeldInv, CanceledIsOver, Status
  <2>2. AllHeld'
    <3> SUFFICES ASSUME NEW t \in TaskIds, task'[t].status = "running"
                 PROVE  (\E v \in Workers : Has(v, t)') \/ Restarting' \/ t \in stranded'
      BY Zenon DEF AllHeld
    <3>1. task'[t] = task[t]
      BY Zenon, <1>1, NoneBegins
    <3>2. (\E v \in Workers : Has(v, t)) \/ Restarting \/ t \in stranded
      BY Zenon, <3>1 DEF HeldInv, AllHeld
    <3>3. ASSUME NEW v \in Workers, Has(v, t) PROVE Has(v, t)'
      BY Zenon, <1>3, <3>1, <3>3 DEF Has
    <3> QED
      BY Zenon, <1>3, <3>2, <3>3
  <2> QED
    BY Zenon, <1>3, <2>1, <2>2 DEF HeldInv
<1>4. ASSUME worker' = worker, scenario' = scenario, stranded' = stranded, proc' = proc, stopping' = stopping
      PROVE  HeldInv'
  BY Zenon, <1>3, <1>4 DEF HeldInv, ProcsDeployed, Restarting
<1>5. CASE (\E t \in TaskIds : Redeliver(t) \/ Drop(t)) \/ LockExpires \/ CallStep \/ World \/ UNCHANGED vars
  <2>1. worker' = worker /\ scenario' = scenario /\ stranded' = stranded /\ proc' = proc /\ stopping' = stopping
    BY ZenonT(60), <1>5 DEF Redeliver, Drop, LockExpires, CallStep, Cancel, Schedule, Resume, Rebuild, Publish, Abandon,
                   otherVars, runnerVars, worldVars, procVars, World, SourceChanges, vars
  <2> QED
    BY Zenon, <1>4, <2>1
<1>6. ASSUME NEW p \in Procs, ProcStep(p) PROVE HeldInv'
  <2>0. scenario' = scenario
    BY Zenon, <1>6 DEF ProcStep, TimerFires, Recover, ScanTable, Start, Stop, Exit, Crash, worldVars
  <2>1. CASE TimerFires(p)
    BY Zenon, <1>4, <2>0, <2>1 DEF TimerFires, procVars
  <2>2. CASE Start(p) \/ ScanTable(p)
    <3>1. PICK s : /\ proc' = [proc EXCEPT ![p] = s] /\ p \in scenario.procs
                   /\ proc[p] = "list" \/ s = "recover"
                   /\ worker' = worker /\ stranded' = stranded /\ stopping' = stopping
      BY Zenon, <2>2 DEF Start, ScanTable, runnerVars, HeldInv, ProcsDeployed
    <3>2. proc'[p] = s /\ \A q \in Procs \ {p} : proc'[q] = proc[q]
      BY Zenon, <1>0, <3>1
    <3>3. ProcsDeployed'
      BY Zenon, <2>0, <3>1, <3>2 DEF HeldInv, ProcsDeployed
    <3>4. \A q \in scenario.procs : q \in Procs
      BY Zenon, <1>0, RunnerAssumption DEF RunOK, Scenario
    <3>5. Restarting => Restarting'
      BY Zenon, <2>0, <3>1, <3>2, <3>4 DEF Restarting
    <3> QED
      BY Zenon, <1>3, <2>0, <3>1, <3>3, <3>5
  <2>3. CASE Stop(p)
    BY Zenon, <1>3, <2>0, <2>3 DEF Stop, HeldInv, ProcsDeployed, Restarting
  <2>4. CASE Exit(p) \/ Crash(p)
    <3>1. /\ proc' = [proc EXCEPT ![p] = "down"] /\ p \in scenario.procs /\ stopping' = stopping \ {p}
          /\ worker' = worker \/ worker' = [w \in Workers |-> IF w \in WorkersOf(p) THEN Resting ELSE worker[w]]
      BY Zenon, <2>4 DEF Exit, Crash, runnerVars, HeldInv, ProcsDeployed
    <3>2. proc'[p] = "down" /\ \A q \in Procs \ {p} : proc'[q] = proc[q]
      BY Zenon, <1>0, <3>1
    <3>3. ProcsDeployed'
      BY Zenon, <2>0, <3>1, <3>2 DEF HeldInv, ProcsDeployed
    <3>4. Restarting'
      BY Zenon, <2>0, <3>1, <3>2 DEF Restarting
    <3>5. CanceledIsOver'
      <4> SUFFICES ASSUME NEW v \in Workers, worker'[v].error = "canceled", worker'[v].t \in TaskIds
                   PROVE  task'[worker'[v].t].status \in Over
        BY Zenon DEF CanceledIsOver, Status
      <4>1. worker'[v] = worker[v] \/ worker'[v] = Resting
        BY Zenon, <3>1
      <4>2. Resting.error # "canceled"
        BY Zenon DEF Resting
      <4> QED
        BY Zenon, <1>2, <4>1, <4>2 DEF HeldInv, CanceledIsOver, Status
    <3> QED
      BY Zenon, <3>3, <3>4, <3>5 DEF HeldInv, AllHeld
  <2>5. CASE Recover(p)
    <3>1. PICK s : proc' = [proc EXCEPT ![p] = s] /\ worker' = worker /\ stopping' = stopping
      BY Zenon, <2>5 DEF Recover
    <3>2. proc'[p] = s /\ \A q \in Procs \ {p} : proc'[q] = proc[q]
      BY Zenon, <1>0, <3>1
    <3>3. ProcsDeployed'
      BY Zenon, <2>0, <2>5, <3>1, <3>2 DEF HeldInv, ProcsDeployed, Recover
    <3>4. CanceledIsOver'
      BY Zenon, <1>2, <3>1 DEF HeldInv, CanceledIsOver, Status
    <3>5. CASE RecoverRunning
      <4>1. clock' = clock
        BY Zenon, <2>5 DEF Recover, worldVars
      <4>2. \A t \in TaskIds : task'[t].status # "running"
        BY Zenon, <1>0, <3>5, <4>1, RecoverTyped
      <4> QED
        BY Zenon, <3>3, <3>4, <4>2 DEF HeldInv, AllHeld
    <3>6. CASE stranded' = stranded \cup {t \in TaskIds : task[t].status = "running"} /\ task' = task
      BY Zenon, <3>3, <3>4, <3>6 DEF HeldInv, AllHeld
    <3> QED
      BY Zenon, <2>5, <3>5, <3>6 DEF Recover, tableVars
  <2> QED
    BY Zenon, <1>6, <2>1, <2>2, <2>3, <2>4, <2>5 DEF ProcStep
<1> QED
  BY Zenon, <1>5, <1>6

\* Nothing runs at first.
LEMMA HeldInit ==
  ASSUME Init
  PROVE  HeldInv
<1>1. ProcsDeployed
  BY Zenon DEF Init, ProcsDeployed
<1>2. CanceledIsOver
  BY Zenon DEF Init, CanceledIsOver, Resting
<1>3. \A t \in TaskIds : task[t].status # "running"
  BY Zenon, InitRows
<1> QED
  BY Zenon, <1>1, <1>2, <1>3 DEF HeldInv, AllHeld

\* Every step keeps what runs in somebody's hands.
LEMMA HeldStep ==
  ASSUME StateOK, HeldInv, [Next]_vars
  PROVE  HeldInv'
BY Zenon, WorkersHold, OthersHold DEF Next

\* RecoverRunning and the worker's error paths: in whatever way workers and processes are
\* stopped, crash, restart and fail, and whoever cancels or rebuilds, a RUNNING task is in
\* the hands of a worker that will finish it or put it back, or of a process that will
\* reset it when it starts, unless a statement failed that nobody repeats.
THEOREM RunningHeld == Spec => []RunningIsHeld
<1>1. Init => HeldInv
  BY Zenon, HeldInit
<1>2. StateOK /\ HeldInv /\ [Next]_vars => HeldInv'
  BY Zenon, HeldStep
<1>3. StateOK /\ HeldInv => RunningIsHeld
  <2> SUFFICES ASSUME StateOK, HeldInv, NEW t \in TaskIds, task[t].status = "running"
               PROVE  \/ \E w \in Workers : worker[w].t = t /\ worker[w].pc \notin {"claim", "status", "ack"}
                      \/ \E p \in scenario.procs : proc[p] \in {"down", "recover"} \/ p \in stopping
                      \/ t \in stranded
    BY Zenon DEF RunningIsHeld, With
  <2>1. (\E w \in Workers : Has(w, t)) \/ Restarting \/ t \in stranded
    BY Zenon DEF HeldInv, AllHeld
  <2> QED
    BY Zenon, <2>1 DEF Has, HoldsTask, Running, Restarting
<1> QED
  BY <1>1, <1>2, <1>3, SyncInvariant, PTL DEF Spec

-----------------------------------------------------------------------------
(* Nothing is missed.                                                      *)

Used(r) == r.status # "absent"
Alive(r) == r.status \notin {"absent", "deleted"}

\* Whatever of the source src has a number after s, up to n, is among docs.
Between(src, docs, s, n) == \A i \in src : s < i /\ i <= n => i \in docs
Arrived(src, docs, n) == \A i \in src : i <= n => i \in docs

\* A session of x: what it passed has arrived, waits for the executor or failed, and what
\* the checkpoint passed has arrived.
Listing(x, docs, src) ==
  /\ Between(src, docs, x.cp.start, x.cp.mark)
  /\ Between(src, docs \cup x.queued \cup x.bad, x.cp.start, x.last)
  /\ x.ok \cap src \subseteq docs
  /\ \A i \in x.queued \cup x.ok \cup x.bad : i <= x.last
  /\ x.bad # {} => x.error # "none"
  /\ x.pc = "list" => x.cp.mark <= x.last /\ (x.last = x.cp.mark => x.queued \cup x.ok \cup x.bad = {})
  /\ x.pc = "collect" => x.error # "none" \/ ~ \E i \in src : i > x.last /\ i > x.cp.start /\ i <= x.cp.end

Early == {"idle", "claim", "status", "mark", "load", "lock", "open"}

\* What a worker x knows of its task, a row of rows.
WorkOK(x, rows, docs, src) ==
  /\ x.pc \notin {"list", "collect"} => x.queued = {}
  /\ x.pc \in Early => x.ok = {} /\ x.bad = {} /\ x.error = "none"
  /\ x.pc \in {"snapshot", "purge"} => x.type # "sync"
  /\ x.t \in TaskIds =>
       /\ Used(rows[x.t])
       /\ Alive(rows[x.t]) =>
            /\ x.type = rows[x.t].type
            /\ x.pc \in {"lock", "open"} => x.start = rows[x.t].start
            /\ x.pc \in {"list", "collect"} => x.cp.start = rows[x.t].start /\ Listing(x, docs, src)
            /\ x.pc = "complete" /\ x.type = "sync" => x.cp.start = rows[x.t].start /\ Between(src, docs, x.cp.start, x.cp.end)

\* What the table and a checkpoint cp promise of row r.
RowOK(r, cp, docs, src) ==
  /\ ~ Used(r) => cp.end = 0
  /\ Alive(r) => Arrived(src, docs, r.start)
  /\ Alive(r) /\ cp.end # 0 => cp.start = r.start /\ Between(src, docs, cp.start, cp.mark)

Awaited(t) == ready[t] > 0 \/ unsettled[t] > 0 \/ (\E p \in Procs : t \in timers[p]) \/ t \in call.ids

MissInv ==
  /\ \A t \in TaskIds : Awaited(t) => Used(task[t])
  /\ Arrived(source, kb, lastEnd)
  /\ \A t \in TaskIds : RowOK(task[t], ckpt[t], kb, source)
  /\ \A w \in Workers : WorkOK(worker[w], task, kb, source)
  /\ \A w \in Workers : worker[w].pc = "purge" => kb \cap source \subseteq worker[w].retain

\* Rows that exist never disappear, and keep their type and their start while they are alive.
RowKept(r, s) == Used(r) => Used(s) /\ (Alive(s) => Alive(r) /\ s.type = r.type /\ s.start = r.start)

\* Every statement does so.
LEMMA RowsKept ==
  ASSUME StateOK, clock' = clock, TableStep \/ \E u \in TaskIds : ClaimTask(u)
  PROVE  \A t \in TaskIds : RowKept(task[t], task'[t])
<1>1. CASE TableStep
  <2> SUFFICES ASSUME NEW t \in TaskIds PROVE RowKept(task[t], task'[t])
    BY Zenon
  <2>1. Follows(task[t], task'[t], lastEnd')
    BY Zenon, <1>1 DEF TableStep, RowsFollow
  <2> QED
    BY Zenon, <2>1 DEF Follows, RowKept, Used, Alive, ConnStatus
<1>2. ASSUME NEW u \in TaskIds, ClaimTask(u) PROVE \A t \in TaskIds : RowKept(task[t], task'[t])
  <2>1. TableOK
    BY Zenon DEF StateOK
  <2>2. /\ task'[u].status = "running" /\ task'[u].type = task[u].type /\ task'[u].start = task[u].start
        /\ \A v \in TaskIds \ {u} : task'[v] = task[v]
    BY Zenon, <1>2, <2>1, ClaimTyped
  <2>3. task[u].status = "schedule"
    BY Zenon, <1>2 DEF ClaimTask, Claimable
  <2> QED
    BY Zenon, <2>2, <2>3 DEF RowKept, Used, Alive
<1> QED
  BY Zenon, <1>1, <1>2

\* A change of the source and the dataset that takes nothing away.
Grows(c, src, docs, src2, docs2) ==
  /\ c \in Nat /\ src2 \subseteq Nat
  /\ \A i \in src2 : i \in src \/ i > c
  /\ docs \cap src \subseteq docs2

\* What has arrived remains so.
LEMMA BetweenKept ==
  ASSUME NEW c, NEW src, NEW docs, NEW src2, NEW docs2, Grows(c, src, docs, src2, docs2),
         NEW s, NEW n \in 0 .. c, Between(src, docs, s, n)
  PROVE  Between(src2, docs2, s, n)
BY DEF Grows, Between

\* The same, from the beginning.
LEMMA ArrivedKept ==
  ASSUME NEW c, NEW src, NEW docs, NEW src2, NEW docs2, Grows(c, src, docs, src2, docs2),
         NEW n \in 0 .. c, Arrived(src, docs, n)
  PROVE  Arrived(src2, docs2, n)
BY DEF Grows, Arrived

\* A worker's knowledge survives what others do.
LEMMA WorkKept ==
  ASSUME NEW c, NEW src, NEW docs, NEW src2, NEW docs2, Grows(c, src, docs, src2, docs2),
         NEW rows, NEW rows2, \A t \in TaskIds : RowKept(rows[t], rows2[t]),
         NEW x \in WorkerRow(c), WorkOK(x, rows, docs, src)
  PROVE  WorkOK(x, rows2, docs2, src2)
<1>1. x.last \in 0 .. c /\ x.cp.mark \in 0 .. c /\ x.cp.end \in 0 .. c /\ x.ok \subseteq 1 .. c
  BY DEF WorkerRow, CheckpointsAt
<1>2. ASSUME Listing(x, docs, src) PROVE Listing(x, docs2, src2)
  <2>1. Between(src2, docs2, x.cp.start, x.cp.mark)
    BY <1>1, <1>2 DEF Listing, Between, Grows
  <2>2. Between(src2, docs2 \cup x.queued \cup x.bad, x.cp.start, x.last)
    BY <1>1, <1>2 DEF Listing, Between, Grows
  <2>3. x.ok \cap src2 \subseteq docs2
    BY <1>1, <1>2 DEF Listing, Grows
  <2>4. x.pc = "collect" => x.error # "none" \/ ~ \E i \in src2 : i > x.last /\ i > x.cp.start /\ i <= x.cp.end
    BY <1>1, <1>2 DEF Listing, Grows
  <2> QED
    BY Zenon, <1>2, <2>1, <2>2, <2>3, <2>4 DEF Listing
<1>3. Between(src, docs, x.cp.start, x.cp.end) => Between(src2, docs2, x.cp.start, x.cp.end)
  BY <1>1 DEF Between, Grows
<1> QED
  BY Zenon, <1>2, <1>3 DEF WorkOK, RowKept

\* A worker that is done with the run.
LEMMA PlainWork ==
  ASSUME NEW rows, NEW docs, NEW src, NEW x, NEW y, WorkOK(x, rows, docs, src), y.t = x.t, y.type = x.type,
         y.queued = {}, y.pc \in {"back", "failed", "ack", "uncheck", "next", "halt", "release"}
  PROVE  WorkOK(y, rows, docs, src)
BY Zenon DEF WorkOK, Early

\* A run that ends with an error.
LEMMA EndsWork ==
  ASSUME WorkersOK, NEW w \in Workers, NEW e, Ends(w, e), NEW rows, NEW docs, NEW src, WorkOK(worker[w], rows, docs, src)
  PROVE  WorkOK(worker'[w], rows, docs, src)
<1> DEFINE x == worker[w]
           y == [x EXCEPT !.pc = IF e = "canceled" THEN "ack" ELSE "failed", !.queued = {}]
<1>1. x \in WorkerRow(clock)
  BY Zenon DEF WorkersOK
<1>2. y.t = x.t /\ y.type = x.type /\ y.queued = {} /\ y.pc \in {"ack", "failed"}
  BY <1>1 DEF WorkerRow
<1>3. Becomes(w, y)
  BY Zenon DEF Ends
<1> HIDE DEF y
<1>4. worker'[w] = y
  BY Zenon, <1>3, OneBecomes
<1> QED
  BY Zenon, <1>2, <1>4, PlainWork

\* prepareCheckpoint: a new window starts where the row says, a saved one goes on at its mark.
LEMMA OpenWork ==
  ASSUME StateOK, NEW w \in Workers, Open(w), WorkOK(worker[w], task, kb, source),
         RowOK(task[worker[w].t], ckpt[worker[w].t], kb, source)
  PROVE  WorkOK(worker'[w], task, kb, source)
<1> DEFINE x == worker[w]
<1>1. WorkersOK /\ x \in WorkerRow(clock) /\ Placed(x) /\ source \subseteq 1 .. clock /\ clock \in Nat
      /\ ckpt \in [TaskIds -> CheckpointsAt(clock)] /\ clock \in 0 .. clock
  <2>1. clock \in Nat => clock \in 0 .. clock
    OBVIOUS
  <2> QED
    BY Zenon, <2>1 DEF StateOK, WorkersOK, RunOK, TableOK
<1>2. x.t \in TaskIds /\ x.pc = "open"
  BY Zenon, <1>1 DEF Open, Placed
<1>3. x.queued = {} /\ x.ok = {} /\ x.bad = {} /\ x.error = "none"
  BY Zenon, <1>2 DEF WorkOK, Early
<1>4. CASE x.type # "sync"
  <2> DEFINE y == [x EXCEPT !.pc = "snapshot"]
  <2>1. y.t = x.t /\ y.type = x.type /\ y.queued = x.queued /\ y.pc = "snapshot"
    BY <1>1 DEF WorkerRow
  <2>2. worker'[w] = y
    <3>1. Goes(w, "snapshot")
      BY Zenon, <1>4 DEF Open
    <3> QED
      BY Zenon, <1>1, <3>1, GoesBecomes, OneBecomes
  <2> HIDE DEF y
  <2> QED
    BY Zenon, <1>3, <1>4, <2>1, <2>2 DEF WorkOK, Early
<1>5. CASE x.type = "sync"
  <2> DEFINE fresh == [NoCheckpoint EXCEPT !.start = x.start, !.end = clock]
             new == IF ckpt[x.t].end # 0 THEN ckpt[x.t] ELSE fresh
             y == [x EXCEPT !.pc = "list", !.cp = new, !.last = new.mark]
  <2>1. NoCheckpoint \in CheckpointsAt(clock) /\ NoCheckpoint.mark = 0
    <3>1. 0 \in 0 .. clock /\ 0 \in 0 .. MaxRestarts
      BY <1>1, RunnerAssumption
    <3> QED
      BY Zenon, <3>1 DEF NoCheckpoint, CheckpointsAt
  <2>2. fresh.start = x.start /\ fresh.mark = NoCheckpoint.mark
    BY <2>1 DEF CheckpointsAt
  <2>3. Becomes(w, y)
    BY Zenon, <1>5 DEF Open
  <2> HIDE DEF fresh
  <2>4. Alive(task[x.t]) => new.start = task[x.t].start /\ Between(source, kb, new.start, new.mark)
    <3>1. CASE ckpt[x.t].end # 0
      BY Zenon, <3>1 DEF RowOK
    <3>2. CASE ckpt[x.t].end = 0
      <4>1. new = fresh
        BY Zenon, <3>2
      <4>2. Alive(task[x.t]) => x.start = task[x.t].start
        BY Zenon, <1>2 DEF WorkOK
      <4>3. new.mark = 0
        BY Zenon, <2>1, <2>2, <4>1
      <4> HIDE DEF new
      <4>4. Between(source, kb, new.start, new.mark)
        BY <1>1, <4>3 DEF Between
      <4> QED
        BY Zenon, <2>2, <4>1, <4>2, <4>4
    <3> QED
      BY Zenon, <3>1, <3>2
  <2>5. new.mark \in Nat
    <3>1. ckpt[x.t].mark \in Nat
      BY <1>1, <1>2 DEF CheckpointsAt
    <3> QED
      BY <2>1, <2>2, <3>1
  <2> HIDE DEF new
  <2>6. /\ y.t = x.t /\ y.type = x.type /\ y.queued = x.queued /\ y.ok = x.ok /\ y.bad = x.bad /\ y.error = x.error
        /\ y.pc = "list" /\ y.cp = new /\ y.last = new.mark
    BY <1>1 DEF WorkerRow
  <2> HIDE DEF y
  <2>7. worker'[w] = y
    BY Zenon, <1>1, <2>3, OneBecomes
  <2>8. ASSUME Alive(task[x.t]) PROVE y.cp.start = task[x.t].start /\ Listing(y, kb, source)
    <3>1. new.mark <= new.mark
      BY <2>5
    <3>2. y.queued \cup y.ok \cup y.bad = {}
      BY Zenon, <1>3, <2>6
    <3> QED
      BY Zenon, <2>4, <2>6, <2>8, <3>1, <3>2 DEF Listing, Between
  <2> QED
    BY Zenon, <1>2, <2>6, <2>7, <2>8 DEF WorkOK, Early
<1> QED
  BY Zenon, <1>4, <1>5

\* The loop of Run passes nothing by.
LEMMA ListWork ==
  ASSUME StateOK, NEW w \in Workers, List(w), WorkOK(worker[w], task, kb, source)
  PROVE  WorkOK(worker'[w], task, kb, source)
<1> DEFINE x == worker[w]
<1>1. WorkersOK /\ x \in WorkerRow(clock) /\ Placed(x) /\ source \subseteq 1 .. clock /\ clock \in Nat
  BY Zenon DEF StateOK, WorkersOK, RunOK, TableOK
<1>2. x.t \in TaskIds /\ x.pc = "list"
  BY Zenon, <1>1 DEF List, Placed
<1>3. ASSUME NEW e, Ends(w, e) PROVE WorkOK(worker'[w], task, kb, source)
  BY Zenon, <1>1, <1>3, EndsWork
<1>4. ASSUME NEW i \in Earliest(Unlisted(w)), Becomes(w, [x EXCEPT !.last = i, !.queued = @ \cup {i}])
      PROVE  WorkOK(worker'[w], task, kb, source)
  <2>1. Unlisted(w) \in SUBSET Nat
    <3>1. source \subseteq Nat
      BY <1>1
    <3> QED
      BY Zenon, <3>1 DEF Unlisted
  <2> DEFINE y == [x EXCEPT !.last = i, !.queued = @ \cup {i}]
  <2>4. /\ y.t = x.t /\ y.type = x.type /\ y.queued = x.queued \cup {i} /\ y.ok = x.ok /\ y.bad = x.bad /\ y.error = x.error
        /\ y.pc = "list" /\ y.cp = x.cp /\ y.last = i
    BY <1>1, <1>2 DEF WorkerRow
  <2>5. Becomes(w, y)
    BY Zenon, <1>4
  <2> HIDE DEF y
  <2>6. worker'[w] = y
    BY Zenon, <1>1, <2>5, OneBecomes
  <2>7. i \in Unlisted(w) /\ \A n \in Unlisted(w) : i <= n
    BY Zenon DEF Earliest
  <2>8. i \in Nat /\ i > x.last /\ i <= x.cp.end /\ x.last \in Nat /\ x.cp.mark \in Nat
    <3>1. x.last \in Nat /\ x.cp.mark \in Nat
      BY <1>1 DEF WorkerRow, CheckpointsAt
    <3>2. i \in Nat
      BY Zenon, <2>1, <2>7
    <3> QED
      BY Zenon, <2>7, <3>1, <3>2 DEF Unlisted
  <2>9. ASSUME Listing(x, kb, source) PROVE Listing(y, kb, source)
    <3>1. Between(source, kb \cup y.queued \cup y.bad, y.cp.start, y.last)
      <4> SUFFICES ASSUME NEW j \in source, x.cp.start < j, j <= i PROVE j \in kb \cup x.queued \cup {i} \cup x.bad
        BY Zenon, <2>4 DEF Between
      <4>1. CASE j <= x.last
        BY Zenon, <2>9, <4>1 DEF Listing, Between
      <4>2. CASE ~ (j <= x.last)
        <5>0. x.cp.start \in Nat /\ x.cp.end \in Nat /\ j \in Nat
          BY <1>1 DEF WorkerRow, CheckpointsAt
        <5>1. j > x.last /\ j > x.cp.start /\ j <= x.cp.end
          BY <2>8, <4>2, <5>0
        <5>2. i <= j
          BY Zenon, <2>7, <5>1 DEF Unlisted
        <5>3. i = j
          BY <2>8, <5>0, <5>2
        <5> QED
          BY Zenon, <5>3
      <4> QED
        BY Zenon, <4>1, <4>2
    <3>2. \A n \in y.queued \cup y.ok \cup y.bad : n <= y.last
      <4>0. x.queued \cup x.ok \cup x.bad \subseteq Nat
        BY <1>1 DEF WorkerRow
      <4>1. \A n \in x.queued \cup x.ok \cup x.bad : n <= x.last
        BY Zenon, <2>9 DEF Listing
      <4>2. \A n \in x.queued \cup x.ok \cup x.bad : n <= i
        BY <2>8, <4>0, <4>1
      <4>3. i <= i
        BY <2>8
      <4> QED
        BY Zenon, <2>4, <4>2, <4>3
    <3>3. y.cp.mark <= y.last /\ y.last # y.cp.mark
      <4>1. x.cp.mark <= x.last
        BY Zenon, <1>2, <2>9 DEF Listing
      <4> QED
        BY <2>4, <2>8, <4>1
    <3> QED
      BY Zenon, <2>4, <2>9, <3>1, <3>2, <3>3 DEF Listing
  <2> QED
    BY Zenon, <1>2, <2>4, <2>6, <2>9 DEF WorkOK, Early
<1>5. ASSUME NEW e, x.error # "none" \/ Unlisted(w) = {} \/ e = "failed",
             Becomes(w, [x EXCEPT !.pc = "collect", !.error = e]), e = "failed" \/ e = x.error
      PROVE  WorkOK(worker'[w], task, kb, source)
  <2> DEFINE y == [x EXCEPT !.pc = "collect", !.error = e]
  <2>1. /\ y.t = x.t /\ y.type = x.type /\ y.queued = x.queued /\ y.ok = x.ok /\ y.bad = x.bad /\ y.error = e
        /\ y.pc = "collect" /\ y.cp = x.cp /\ y.last = x.last
    BY <1>1 DEF WorkerRow
  <2>2. Becomes(w, y)
    BY Zenon, <1>5
  <2> HIDE DEF y
  <2>3. worker'[w] = y
    BY Zenon, <1>1, <2>2, OneBecomes
  <2>4. y.error # "none" \/ ~ \E i \in source : i > y.last /\ i > y.cp.start /\ i <= y.cp.end
    BY Zenon, <1>5, <2>1 DEF Unlisted
  <2>5. Listing(x, kb, source) => Listing(y, kb, source)
    <3> SUFFICES ASSUME Listing(x, kb, source) PROVE Listing(y, kb, source)
      BY Zenon
    <3>1. y.bad # {} => y.error # "none"
      BY Zenon, <1>5, <2>1 DEF Listing
    <3> QED
      BY Zenon, <2>1, <2>4, <3>1 DEF Listing
  <2> QED
    BY Zenon, <1>2, <2>1, <2>3, <2>5 DEF WorkOK, Early
<1>6. ASSUME Unlisted(w) = {}, Goes(w, "collect") PROVE WorkOK(worker'[w], task, kb, source)
  <2>1. Becomes(w, [x EXCEPT !.pc = "collect"])
    BY Zenon, <1>1, <1>6, GoesBecomes
  <2>2. [x EXCEPT !.pc = "collect"] = [x EXCEPT !.pc = "collect", !.error = x.error]
    BY Zenon, <1>1 DEF WorkerRow
  <2>3. Becomes(w, [x EXCEPT !.pc = "collect", !.error = x.error])
    BY Zenon, <2>1, <2>2
  <2> QED
    BY Zenon, <1>5, <1>6, <2>3
<1> QED
  BY Zenon, <1>3, <1>4, <1>5, <1>6 DEF List

\* ErrSyncResumeInvalid, before anything was listed.
LEMMA RestartWork ==
  ASSUME StateOK, NEW w \in Workers, Restart(w), WorkOK(worker[w], task, kb, source)
  PROVE  WorkOK(worker'[w], task, kb, source)
<1> DEFINE x == worker[w]
           new == [x.cp EXCEPT !.mark = 0, !.restarts = @ + 1]
           y == [x EXCEPT !.cp = new, !.last = 0]
<1>1. WorkersOK /\ x \in WorkerRow(clock) /\ Placed(x) /\ source \subseteq 1 .. clock
  BY Zenon DEF StateOK, WorkersOK, RunOK
<1>2. x.t \in TaskIds /\ x.pc = "list" /\ x.last = x.cp.mark
  BY Zenon, <1>1 DEF Restart, Placed
<1>3. CASE Ends(w, "failed")
  BY Zenon, <1>1, <1>3, EndsWork
<1>4. CASE Becomes(w, y)
  <2>1. new.mark = 0 /\ new.start = x.cp.start
    BY <1>1 DEF WorkerRow, CheckpointsAt
  <2> HIDE DEF new
  <2>2. /\ y.t = x.t /\ y.type = x.type /\ y.queued = x.queued /\ y.ok = x.ok /\ y.bad = x.bad /\ y.error = x.error
        /\ y.pc = "list" /\ y.cp = new /\ y.last = 0
    BY <1>1, <1>2 DEF WorkerRow
  <2> HIDE DEF y
  <2>3. worker'[w] = y
    BY Zenon, <1>1, <1>4, OneBecomes
  <2>4. \A docs : Between(source, docs, y.cp.start, 0)
    BY <1>1 DEF Between
  <2>5. 0 <= 0
    OBVIOUS
  <2>6. ASSUME Listing(x, kb, source) PROVE Listing(y, kb, source)
    <3>1. x.queued \cup x.ok \cup x.bad = {}
      BY Zenon, <1>2, <2>6 DEF Listing
    <3> QED
      BY Zenon, <2>1, <2>2, <2>4, <2>5, <2>6, <3>1 DEF Listing
  <2> QED
    BY Zenon, <1>2, <2>1, <2>2, <2>3, <2>6 DEF WorkOK, Early
<1> QED
  BY Zenon, <1>3, <1>4 DEF Restart

\* A job puts its document into the dataset, or reports that it failed.
LEMMA JobWork ==
  ASSUME StateOK, NEW w \in Workers, Job(w), WorkOK(worker[w], task, kb', source)
  PROVE  WorkOK(worker'[w], task, kb', source)
<1> DEFINE x == worker[w]
<1>1. WorkersOK /\ x \in WorkerRow(clock)
  BY Zenon DEF StateOK, WorkersOK
<1>2. PICK i \in x.queued :
        \/ i \in kb' /\ Becomes(w, [x EXCEPT !.queued = @ \ {i}, !.ok = @ \cup {i}])
        \/ \E e \in {IF Stopped(w) THEN StopError(w) ELSE "failed"} \cup ({x.error} \ {"none"}) :
             Becomes(w, [x EXCEPT !.queued = @ \ {i}, !.bad = @ \cup {i}, !.error = e])
  BY Zenon DEF Job
<1>3. x.pc \in {"list", "collect"}
  BY Zenon, <1>2 DEF WorkOK
<1>4. ASSUME i \in kb', Becomes(w, [x EXCEPT !.queued = @ \ {i}, !.ok = @ \cup {i}])
      PROVE  WorkOK(worker'[w], task, kb', source)
  <2> DEFINE y == [x EXCEPT !.queued = @ \ {i}, !.ok = @ \cup {i}]
  <2>1. /\ y.t = x.t /\ y.type = x.type /\ y.queued = x.queued \ {i} /\ y.ok = x.ok \cup {i} /\ y.bad = x.bad /\ y.error = x.error
        /\ y.pc = x.pc /\ y.cp = x.cp /\ y.last = x.last
    BY <1>1 DEF WorkerRow
  <2>2. Becomes(w, y)
    BY Zenon, <1>4
  <2> HIDE DEF y
  <2>3. worker'[w] = y
    BY Zenon, <1>1, <2>2, OneBecomes
  <2>4. ASSUME Listing(x, kb', source) PROVE Listing(y, kb', source)
    <3>1. Between(source, kb' \cup y.queued \cup y.bad, y.cp.start, y.last)
      BY Zenon, <1>4, <2>1, <2>4 DEF Listing, Between
    <3>2. y.ok \cap source \subseteq kb'
      BY Zenon, <1>4, <2>1, <2>4 DEF Listing
    <3>3. \A n \in y.queued \cup y.ok \cup y.bad : n <= y.last
      BY Zenon, <1>2, <2>1, <2>4 DEF Listing
    <3>4. y.pc = "list" => y.cp.mark <= y.last /\ y.last # y.cp.mark
      BY Zenon, <1>2, <2>1, <2>4 DEF Listing
    <3> QED
      BY Zenon, <2>1, <2>4, <3>1, <3>2, <3>3, <3>4 DEF Listing
  <2> QED
    BY Zenon, <1>3, <2>1, <2>3, <2>4 DEF WorkOK, Early
<1>5. ASSUME NEW e \in {IF Stopped(w) THEN StopError(w) ELSE "failed"} \cup ({x.error} \ {"none"}),
             Becomes(w, [x EXCEPT !.queued = @ \ {i}, !.bad = @ \cup {i}, !.error = e])
      PROVE  WorkOK(worker'[w], task, kb', source)
  <2> DEFINE y == [x EXCEPT !.queued = @ \ {i}, !.bad = @ \cup {i}, !.error = e]
  <2>1. /\ y.t = x.t /\ y.type = x.type /\ y.queued = x.queued \ {i} /\ y.ok = x.ok /\ y.bad = x.bad \cup {i} /\ y.error = e
        /\ y.pc = x.pc /\ y.cp = x.cp /\ y.last = x.last
    BY <1>1 DEF WorkerRow
  <2>2. Becomes(w, y)
    BY Zenon, <1>5
  <2> HIDE DEF y
  <2>3. worker'[w] = y
    BY Zenon, <1>1, <2>2, OneBecomes
  <2>4. e # "none"
    BY Zenon, <1>5 DEF StopError
  <2>5. ASSUME Listing(x, kb', source) PROVE Listing(y, kb', source)
    <3>1. Between(source, kb' \cup y.queued \cup y.bad, y.cp.start, y.last)
      BY Zenon, <2>1, <2>5 DEF Listing, Between
    <3>3. \A n \in y.queued \cup y.ok \cup y.bad : n <= y.last
      BY Zenon, <1>2, <2>1, <2>5 DEF Listing
    <3>4. y.pc = "list" => y.cp.mark <= y.last /\ y.last # y.cp.mark
      BY Zenon, <1>2, <2>1, <2>5 DEF Listing
    <3> QED
      BY Zenon, <2>1, <2>4, <2>5, <3>1, <3>3, <3>4 DEF Listing
  <2> QED
    BY Zenon, <1>3, <2>1, <2>3, <2>5 DEF WorkOK, Early
<1> QED
  BY Zenon, <1>2, <1>4, <1>5

\* collectResults commits up to the first batch that failed, and is done only when there is none.
LEMMA CollectWork ==
  ASSUME StateOK, NEW w \in Workers, Collect(w), WorkOK(worker[w], task, kb, source)
  PROVE  WorkOK(worker'[w], task, kb, source)
<1> DEFINE x == worker[w]
           listed == x.queued \cup x.ok \cup x.bad
<1>1. WorkersOK /\ x \in WorkerRow(clock) /\ Placed(x) /\ source \subseteq 1 .. clock
  BY Zenon DEF StateOK, WorkersOK, RunOK
<1>2. x.t \in TaskIds /\ x.pc = "collect"
  BY Zenon, <1>1 DEF Collect, Placed
<1>0. /\ source \subseteq Nat /\ listed \subseteq Nat
      /\ x.cp.mark \in Nat /\ x.cp.start \in Nat /\ x.cp.end \in Nat /\ x.last \in Nat
  BY <1>1 DEF WorkerRow, CheckpointsAt
<1>3. ASSUME NEW i \in Earliest(Uncollected(w)) \cap x.ok, Commits(w, i)
      PROVE  WorkOK(worker'[w], task, kb, source)
  <2>4. i \in Nat /\ i \in listed /\ i \in x.ok /\ \A n \in Uncollected(w) : i <= n
    BY Zenon, <1>0 DEF Earliest, Uncollected
  <2> DEFINE new == [x.cp EXCEPT !.mark = i]
             y == [x EXCEPT !.cp = new]
  <2>5. Becomes(w, y)
    BY Zenon, <1>3 DEF Commits
  <2>6. new.start = x.cp.start /\ new.mark = i /\ new.end = x.cp.end
    BY <1>1 DEF WorkerRow, CheckpointsAt
  <2> HIDE DEF new
  <2>7. /\ y.t = x.t /\ y.type = x.type /\ y.queued = x.queued /\ y.ok = x.ok /\ y.bad = x.bad /\ y.error = x.error
        /\ y.pc = "collect" /\ y.cp = new /\ y.last = x.last
    BY <1>1, <1>2 DEF WorkerRow
  <2> HIDE DEF y
  <2>8. worker'[w] = y
    BY Zenon, <1>1, <2>5, OneBecomes
  <2>9. ASSUME Listing(x, kb, source) PROVE Listing(y, kb, source)
    <3>1. Between(source, kb, x.cp.start, i)
      <4> SUFFICES ASSUME NEW j \in source, x.cp.start < j, j <= i PROVE j \in kb
        BY Zenon DEF Between
      <4>0. j \in Nat /\ i <= x.last
        BY Zenon, <1>0, <2>4, <2>9 DEF Listing
      <4>1. CASE j <= x.cp.mark
        BY Zenon, <2>9, <4>1 DEF Listing, Between
      <4>2. CASE ~ (j <= x.cp.mark)
        <5>1. j <= x.last /\ j > x.cp.mark
          BY <1>0, <2>4, <4>0, <4>2
        <5>2. j \in kb \cup x.queued \cup x.bad
          BY Zenon, <2>9, <5>1 DEF Listing, Between
        <5>3. CASE j \in x.queued \cup x.bad
          <6>1. i <= j
            BY Zenon, <2>4, <5>1, <5>3 DEF Uncollected
          <6>2. i = j
            BY <2>4, <4>0, <6>1
          <6> QED
            BY Zenon, <2>4, <2>9, <6>2 DEF Listing
        <5> QED
          BY Zenon, <5>2, <5>3
      <4> QED
        BY Zenon, <4>1, <4>2
    <3>2. y.cp.start = x.cp.start /\ y.cp.mark = i /\ y.cp.end = x.cp.end
      BY Zenon, <2>6, <2>7
    <3>3. y.error # "none" \/ ~ \E n \in source : n > y.last /\ n > y.cp.start /\ n <= y.cp.end
      BY Zenon, <1>2, <2>7, <2>9, <3>2 DEF Listing
    <3>4. Between(source, kb \cup y.queued \cup y.bad, y.cp.start, y.last)
      BY Zenon, <2>7, <2>9, <3>2 DEF Listing
    <3> QED
      BY Zenon, <2>7, <2>9, <3>1, <3>2, <3>3, <3>4 DEF Listing
  <2> QED
    BY Zenon, <1>2, <2>6, <2>7, <2>8, <2>9 DEF WorkOK, Early
<1>4. ASSUME x.queued = {}, x.error = "none", Goes(w, "complete")
      PROVE  WorkOK(worker'[w], task, kb, source)
  <2> DEFINE y == [x EXCEPT !.pc = "complete"]
  <2>1. y.t = x.t /\ y.type = x.type /\ y.queued = x.queued /\ y.cp = x.cp /\ y.pc = "complete"
    BY <1>1 DEF WorkerRow
  <2>2. Becomes(w, y)
    BY Zenon, <1>1, <1>4, GoesBecomes
  <2> HIDE DEF y
  <2>3. worker'[w] = y
    BY Zenon, <1>1, <2>2, OneBecomes
  <2>4. ASSUME Listing(x, kb, source) PROVE Between(source, kb, x.cp.start, x.cp.end)
    <3> SUFFICES ASSUME NEW j \in source, x.cp.start < j, j <= x.cp.end PROVE j \in kb
      BY Zenon DEF Between
    <3>1. x.bad = {}
      BY Zenon, <1>4, <2>4 DEF Listing
    <3>2. CASE j <= x.last
      BY Zenon, <1>4, <2>4, <3>1, <3>2 DEF Listing, Between
    <3>3. CASE ~ (j <= x.last)
      <4>1. j > x.last /\ j > x.cp.start
        BY <1>0, <3>3
      <4> QED
        BY Zenon, <1>2, <1>4, <2>4, <4>1 DEF Listing
    <3> QED
      BY Zenon, <3>2, <3>3
  <2> QED
    BY Zenon, <1>2, <1>4, <2>1, <2>3, <2>4 DEF WorkOK, Early
<1>5. ASSUME NEW e, Ends(w, e) PROVE WorkOK(worker'[w], task, kb, source)
  BY Zenon, <1>1, <1>5, EndsWork
<1> QED
  BY Zenon, <1>3, <1>4, <1>5 DEF Collect

\* What a PRUNE will delete is not in the source.
PurgeOK == \A w \in Workers : worker[w].pc = "purge" => kb \cap source \subseteq worker[w].retain

\* A run takes nothing from the dataset that is in the source.
LEMMA RunGrows ==
  ASSUME StateOK, NEW w \in Workers, RunStep(w), PurgeOK
  PROVE  source' = source /\ clock' = clock /\ Grows(clock, source, kb, source', kb')
<1>1. source \subseteq Nat /\ clock \in Nat
  <2>1. source \subseteq 1 .. clock /\ clock \in Nat
    BY Zenon DEF StateOK, RunOK, TableOK
  <2> QED
    BY <2>1
<1>2. source' = source /\ clock' = clock
  BY Zenon DEF RunStep, Open, List, Restart, Job, Collect, Snapshot, Purge, Finish, Uncheck, Breaks, worldVars
<1>3. kb \cap source \subseteq kb'
  <2>1. CASE Purge(w)
    <3>1. kb \cap source \subseteq worker[w].retain
      BY Zenon, <2>1 DEF Purge, PurgeOK
    <3>2. kb' = kb \/ kb' = kb \cap worker[w].retain \/ \E gone \in SUBSET (kb \ worker[w].retain) : kb' = kb \ gone
      BY Zenon, <2>1 DEF Purge
    <3> QED
      BY <3>1, <3>2
  <2>2. CASE Job(w)
    BY Zenon, <2>2 DEF Job
  <2>3. CASE ~ Purge(w) /\ ~ Job(w)
    BY Zenon, <2>3 DEF RunStep, Open, List, Restart, Collect, Snapshot, Finish, Uncheck, Breaks
  <2> QED
    BY Zenon, <2>1, <2>2, <2>3
<1> QED
  BY Zenon, <1>1, <1>2, <1>3 DEF Grows

\* A run and the worker's knowledge.
LEMMA RunWork ==
  ASSUME StateOK, NEW w \in Workers, RunStep(w), WorkOK(worker[w], task, kb, source), WorkOK(worker[w], task', kb', source'),
         \A t \in TaskIds : RowOK(task[t], ckpt[t], kb, source), source' = source
  PROVE  WorkOK(worker'[w], task', kb', source')
<1> DEFINE x == worker[w]
<1>1. WorkersOK /\ x \in WorkerRow(clock) /\ Placed(x)
  BY Zenon DEF StateOK, WorkersOK
<1>2. ASSUME NEW e, Ends(w, e) PROVE WorkOK(worker'[w], task', kb', source')
  BY Zenon, <1>1, <1>2, EndsWork
<1>3. CASE Open(w)
  <2>1. x.t \in TaskIds /\ task' = task /\ kb' = kb
    BY Zenon, <1>1, <1>3 DEF Open, Placed, tableVars
  <2> QED
    BY Zenon, <1>3, <2>1, OpenWork
<1>4. CASE List(w)
  BY Zenon, <1>4, ListWork DEF List, tableVars
<1>5. CASE Restart(w)
  BY Zenon, <1>5, RestartWork DEF Restart, tableVars
<1>6. CASE Job(w)
  BY Zenon, <1>6, JobWork DEF Job, tableVars
<1>7. CASE Collect(w)
  BY Zenon, <1>7, CollectWork DEF Collect, tableVars
<1>8. CASE Snapshot(w)
  <2>1. CASE Becomes(w, [x EXCEPT !.pc = "purge", !.retain = source]) /\ x.pc = "snapshot"
    <3> DEFINE y == [x EXCEPT !.pc = "purge", !.retain = source]
    <3>1. y.t = x.t /\ y.type = x.type /\ y.queued = x.queued /\ y.pc = "purge"
      BY <1>1 DEF WorkerRow
    <3>2. Becomes(w, y)
      BY Zenon, <2>1
    <3> HIDE DEF y
    <3>3. worker'[w] = y
      BY Zenon, <1>1, <3>2, OneBecomes
    <3> QED
      BY Zenon, <2>1, <3>1, <3>3 DEF WorkOK, Early
  <2> QED
    BY Zenon, <1>2, <1>8, <2>1 DEF Snapshot
<1>9. CASE Purge(w)
  <2>1. CASE Goes(w, "complete") /\ x.pc = "purge"
    <3> DEFINE y == [x EXCEPT !.pc = "complete"]
    <3>1. y.t = x.t /\ y.type = x.type /\ y.queued = x.queued /\ y.pc = "complete"
      BY <1>1 DEF WorkerRow
    <3>2. Becomes(w, y)
      BY Zenon, <1>1, <2>1, GoesBecomes
    <3> HIDE DEF y
    <3>3. worker'[w] = y
      BY Zenon, <1>1, <3>2, OneBecomes
    <3> QED
      BY Zenon, <2>1, <3>1, <3>3 DEF WorkOK, Early
  <2> QED
    BY Zenon, <1>2, <1>9, <2>1 DEF Purge
<1>10. ASSUME NEW pc \in {"uncheck", "next"}, Goes(w, pc), x.queued = {} PROVE WorkOK(worker'[w], task', kb', source')
  <2> DEFINE y == [x EXCEPT !.pc = pc]
  <2>1. y.t = x.t /\ y.type = x.type /\ y.queued = x.queued /\ y.pc = pc
    BY <1>1 DEF WorkerRow
  <2>2. Becomes(w, y)
    BY Zenon, <1>1, <1>10, GoesBecomes
  <2> HIDE DEF y
  <2>3. worker'[w] = y
    BY Zenon, <1>1, <2>2, OneBecomes
  <2> QED
    BY Zenon, <1>10, <2>1, <2>3, PlainWork
<1>11. CASE Finish(w)
  <2>1. x.queued = {}
    BY Zenon, <1>11 DEF Finish, WorkOK
  <2>2. ASSUME NEW next, Becomes(w, [x EXCEPT !.pc = "uncheck", !.next = next]) PROVE WorkOK(worker'[w], task', kb', source')
    <3> DEFINE y == [x EXCEPT !.pc = "uncheck", !.next = next]
    <3>1. y.t = x.t /\ y.type = x.type /\ y.queued = x.queued /\ y.pc = "uncheck"
      BY <1>1 DEF WorkerRow
    <3>2. Becomes(w, y)
      BY Zenon, <2>2
    <3> HIDE DEF y
    <3>3. worker'[w] = y
      BY Zenon, <1>1, <3>2, OneBecomes
    <3> QED
      BY Zenon, <2>1, <3>1, <3>3, PlainWork
  <2> QED
    BY Zenon, <1>2, <1>10, <1>11, <2>1, <2>2 DEF Finish
<1>12. CASE Uncheck(w)
  <2>1. x.queued = {}
    BY Zenon, <1>12 DEF Uncheck, WorkOK
  <2> QED
    BY Zenon, <1>10, <1>12, <2>1 DEF Uncheck
<1>13. CASE Breaks(w)
  BY Zenon, <1>2, <1>13 DEF Breaks
<1> QED
  BY Zenon, <1>3, <1>4, <1>5, <1>6, <1>7, <1>8, <1>9, <1>11, <1>12, <1>13 DEF RunStep

\* SaveSyncCheckpoint and DeleteSyncCheckpoint: the table gets the worker's checkpoint, or none.
LEMMA RunSaves ==
  ASSUME StateOK, NEW w \in Workers, RunStep(w)
  PROVE  \/ ckpt' = ckpt
         \/ worker[w].t \in TaskIds /\ ckpt' = [ckpt EXCEPT ![worker[w].t] = NoCheckpoint]
         \/ /\ worker[w].t \in TaskIds /\ ckpt' = [ckpt EXCEPT ![worker[w].t] = worker'[w].cp]
            /\ worker'[w].t = worker[w].t /\ worker'[w].pc \in {"list", "collect"}
<1> DEFINE x == worker[w]
<1>1. WorkersOK /\ x \in WorkerRow(clock) /\ Placed(x)
  BY Zenon DEF StateOK, WorkersOK
<1>2. CASE Open(w)
  <2> DEFINE new == IF ckpt[x.t].end # 0 THEN ckpt[x.t] ELSE [NoCheckpoint EXCEPT !.start = x.start, !.end = clock]
             y == [x EXCEPT !.pc = "list", !.cp = new, !.last = new.mark]
  <2>1. ckpt' = ckpt \/ (ckpt' = [ckpt EXCEPT ![x.t] = new] /\ Becomes(w, y))
    BY Zenon, <1>2 DEF Open
  <2>2. x.t \in TaskIds
    BY Zenon, <1>1, <1>2 DEF Open, Placed
  <2> HIDE DEF new
  <2>3. y.t = x.t /\ y.pc = "list" /\ y.cp = new
    BY <1>1 DEF WorkerRow
  <2> HIDE DEF y
  <2> QED
    BY Zenon, <1>1, <2>1, <2>2, <2>3, OneBecomes
<1>3. CASE Restart(w)
  <2> DEFINE new == [x.cp EXCEPT !.mark = 0, !.restarts = @ + 1]
             y == [x EXCEPT !.cp = new, !.last = 0]
  <2>1. ckpt' = ckpt \/ (ckpt' = [ckpt EXCEPT ![x.t] = new] /\ Becomes(w, y))
    BY Zenon, <1>3 DEF Restart
  <2>2. x.t \in TaskIds /\ x.pc = "list"
    BY Zenon, <1>1, <1>3 DEF Restart, Placed
  <2> HIDE DEF new
  <2>3. y.t = x.t /\ y.pc = x.pc /\ y.cp = new
    BY <1>1 DEF WorkerRow
  <2> HIDE DEF y
  <2> QED
    BY Zenon, <1>1, <2>1, <2>2, <2>3, OneBecomes
<1>4. CASE Collect(w)
  <2>1. PICK new : ckpt' = ckpt \/ (ckpt' = [ckpt EXCEPT ![x.t] = new] /\ Becomes(w, [x EXCEPT !.cp = new]))
    BY Zenon, <1>4 DEF Collect, Commits
  <2> DEFINE y == [x EXCEPT !.cp = new]
  <2>2. x.t \in TaskIds /\ x.pc = "collect"
    BY Zenon, <1>1, <1>4 DEF Collect, Placed
  <2>3. y.t = x.t /\ y.pc = x.pc /\ y.cp = new
    BY <1>1 DEF WorkerRow
  <2>4. ckpt' = ckpt \/ (ckpt' = [ckpt EXCEPT ![x.t] = new] /\ Becomes(w, y))
    BY Zenon, <2>1
  <2> HIDE DEF y
  <2> QED
    BY Zenon, <1>1, <2>2, <2>3, <2>4, OneBecomes
<1>5. CASE Uncheck(w)
  BY Zenon, <1>1, <1>5 DEF Uncheck, Placed
<1>6. CASE ~ Open(w) /\ ~ Restart(w) /\ ~ Collect(w) /\ ~ Uncheck(w)
  BY Zenon, <1>6 DEF RunStep, List, Job, Snapshot, Purge, Finish, Breaks
<1> QED
  BY Zenon, <1>2, <1>3, <1>4, <1>5, <1>6

\* Only the snapshot leads to the deletions.
LEMMA RunPlaces ==
  ASSUME WorkersOK, NEW w \in Workers, RunStep(w), ~ Job(w), ~ Snapshot(w)
  PROVE  worker'[w].pc # "purge"
<1> DEFINE x == worker[w]
<1>1. x \in WorkerRow(clock)
  BY Zenon DEF WorkersOK
<1>2. ASSUME NEW pc, Goes(w, pc) PROVE worker'[w].pc = pc
  <2>1. [x EXCEPT !.pc = pc].pc = pc
    BY <1>1 DEF WorkerRow
  <2> QED
    BY Zenon, <1>2, <2>1, GoesBecomes, OneBecomes
<1>3. ASSUME NEW e, Ends(w, e) PROVE worker'[w].pc # "purge"
  <2>1. [x EXCEPT !.pc = IF e = "canceled" THEN "ack" ELSE "failed", !.queued = {}].pc \in {"ack", "failed"}
    BY <1>1 DEF WorkerRow
  <2> QED
    BY Zenon, <1>3, <2>1, OneBecomes DEF Ends
<1>4. CASE Open(w)
  <2> DEFINE y(a, b) == [x EXCEPT !.pc = "list", !.cp = a, !.last = b]
  <2>1. \A a, b : y(a, b).pc = "list"
    BY <1>1 DEF WorkerRow
  <2>2. Goes(w, "snapshot") \/ \E a, b : Becomes(w, y(a, b))
    BY Zenon, <1>4 DEF Open
  <2> HIDE DEF y
  <2>3. ASSUME NEW a, NEW b, Becomes(w, y(a, b)) PROVE worker'[w] = y(a, b)
    BY Zenon, <2>3, OneBecomes
  <2> QED
    BY Zenon, <1>2, <2>1, <2>2, <2>3
<1>5. CASE List(w)
  <2> DEFINE y(i) == [x EXCEPT !.last = i, !.queued = @ \cup {i}]
             z == [x EXCEPT !.pc = "collect", !.error = "failed"]
  <2>1. (\A i : y(i).pc = x.pc) /\ z.pc = "collect"
    BY <1>1 DEF WorkerRow
  <2>2. (\E e : Ends(w, e)) \/ (\E i : Becomes(w, y(i))) \/ Goes(w, "collect") \/ Becomes(w, z)
    BY Zenon, <1>5 DEF List
  <2>3. x.pc # "purge"
    BY Zenon, <1>5 DEF List
  <2> HIDE DEF y, z
  <2>4. ASSUME NEW i, Becomes(w, y(i)) PROVE worker'[w] = y(i)
    BY Zenon, <2>4, OneBecomes
  <2>5. Becomes(w, z) => worker'[w] = z
    BY Zenon, OneBecomes
  <2> QED
    BY Zenon, <1>2, <1>3, <2>1, <2>2, <2>3, <2>4, <2>5
<1>6. CASE Restart(w) \/ Collect(w)
  <2> DEFINE y(a) == [x EXCEPT !.cp = a, !.last = 0]
             z(a) == [x EXCEPT !.cp = a]
  <2>1. \A a : y(a).pc = x.pc /\ z(a).pc = x.pc
    BY <1>1 DEF WorkerRow
  <2>2. (\E e : Ends(w, e)) \/ Goes(w, "complete") \/ \E a : Becomes(w, y(a)) \/ Becomes(w, z(a))
    BY Zenon, <1>6 DEF Restart, Collect, Commits
  <2>3. x.pc # "purge"
    BY Zenon, <1>6 DEF Restart, Collect
  <2> HIDE DEF y, z
  <2>4. ASSUME NEW a PROVE (Becomes(w, y(a)) => worker'[w] = y(a)) /\ (Becomes(w, z(a)) => worker'[w] = z(a))
    BY Zenon, OneBecomes
  <2> QED
    BY Zenon, <1>2, <1>3, <2>1, <2>2, <2>3, <2>4
<1>7. CASE Purge(w) \/ Finish(w) \/ Uncheck(w) \/ Breaks(w)
  <2>1. \A n : [x EXCEPT !.pc = "uncheck", !.next = n].pc = "uncheck"
    BY <1>1 DEF WorkerRow
  <2>2. \/ (\E e : Ends(w, e)) \/ Goes(w, "complete") \/ Goes(w, "uncheck") \/ Goes(w, "next")
        \/ \E n : Becomes(w, [x EXCEPT !.pc = "uncheck", !.next = n])
    BY Zenon, <1>7 DEF Purge, Finish, Uncheck, Breaks
  <2> QED
    BY Zenon, <1>2, <1>3, <2>1, <2>2, OneBecomes
<1> QED
  BY Zenon, <1>4, <1>5, <1>6, <1>7 DEF RunStep

\* No job runs between the snapshot of a PRUNE and its deletions.
LEMMA RunPurges ==
  ASSUME StateOK, NEW w \in Workers, RunStep(w), PurgeOK, OneExecutor, CanceledIsOver, WorkOK(worker[w], task, kb, source)
  PROVE  PurgeOK'
<1> DEFINE x == worker[w]
<1>1. WorkersOK /\ x \in WorkerRow(clock)
  BY Zenon DEF StateOK, WorkersOK
<1>2. source' = source /\ \A v \in Workers \ {w} : worker'[v] = worker[v]
  BY Zenon, RunGrows, RunHolds
<1>3. CASE Job(w)
  <2>1. x.pc \in {"list", "collect"}
    BY Zenon, <1>3 DEF Job, WorkOK
  <2>2. \A v \in Workers : worker[v].pc # "purge"
    BY Zenon, <2>1 DEF OneExecutor, Executes, Running
  <2>3. worker'[w].pc = x.pc
    BY Zenon, <1>3, <1>1, JobPlace
  <2> QED
    BY Zenon, <1>2, <2>1, <2>2, <2>3 DEF PurgeOK
<1>4. CASE ~ Job(w)
  <2>1. kb' \subseteq kb
    BY Zenon, <1>4 DEF RunStep, Open, List, Restart, Collect, Snapshot, Purge, Finish, Uncheck, Breaks
  <2>2. worker'[w].pc = "purge" => worker'[w].retain = source
    <3>1. CASE Snapshot(w)
      <4> DEFINE y == [x EXCEPT !.pc = "purge", !.retain = source]
                 z(e) == [x EXCEPT !.pc = IF e = "canceled" THEN "ack" ELSE "failed", !.queued = {}]
      <4>1. y.retain = source
        BY <1>1 DEF WorkerRow
      <4>2. \A e : z(e).pc # "purge"
        BY <1>1 DEF WorkerRow
      <4>3. Becomes(w, y) \/ \E e : Becomes(w, z(e))
        BY Zenon, <3>1 DEF Snapshot, Ends
      <4> HIDE DEF y, z
      <4> QED
        BY Zenon, <1>1, <4>1, <4>2, <4>3, OneBecomes
    <3> QED
      BY Zenon, <1>1, <1>4, <3>1, RunPlaces
  <2> QED
    BY Zenon, <1>2, <2>1, <2>2 DEF PurgeOK
<1> QED
  BY Zenon, <1>3, <1>4

\* A worker without a task has nothing to know.
LEMMA RestWork ==
  ASSUME StateOK, NEW w \in Workers, NEW pc \in {"idle", "unlock"},
         Becomes(w, [Resting EXCEPT !.pc = pc]) \/ Becomes(w, Resting), NEW rows, NEW docs, NEW src
  PROVE  WorkOK(worker'[w], rows, docs, src) /\ worker'[w].pc # "purge"
<1> DEFINE y == [Resting EXCEPT !.pc = pc]
<1>1. WorkersOK /\ clock \in Nat
  BY Zenon DEF StateOK, TableOK
<1>2. /\ Resting \in WorkerRow(clock) /\ Resting.t = 0 /\ Resting.queued = {} /\ Resting.ok = {} /\ Resting.bad = {}
      /\ Resting.error = "none" /\ Resting.pc = "idle"
  <2>1. Resting \in WorkerRow(clock)
    BY Zenon, <1>1, RestingTyped
  <2> QED
    BY Zenon, <2>1 DEF Resting
<1>3. y.t = 0 /\ y.queued = {} /\ y.ok = {} /\ y.bad = {} /\ y.error = "none" /\ y.pc = pc
  BY <1>2 DEF WorkerRow
<1>4. 0 \notin TaskIds
  BY DEF TaskIds
<1>5. Becomes(w, y) \/ Becomes(w, Resting)
  BY Zenon
<1> HIDE DEF y
<1>6. WorkOK(y, rows, docs, src) /\ WorkOK(Resting, rows, docs, src) /\ y.pc # "purge" /\ Resting.pc # "purge"
  BY Zenon, <1>2, <1>3, <1>4 DEF WorkOK, Early
<1> QED
  BY Zenon, <1>1, <1>5, <1>6, OneBecomes

\* A worker on its way.
LEMMA GoesWork ==
  ASSUME WorkersOK, NEW w \in Workers, NEW pc, Goes(w, pc), NEW rows, NEW docs, NEW src, WorkOK(worker[w], rows, docs, src),
         \/ pc \in {"back", "ack", "release"} /\ worker[w].pc \notin {"list", "collect"}
         \/ pc \in {"mark", "status", "load"} /\ worker[w].pc \in Early
         \/ pc = "open" /\ worker[w].pc = "lock"
  PROVE  WorkOK(worker'[w], rows, docs, src) /\ worker'[w].pc # "purge"
<1> DEFINE x == worker[w]
           y == [x EXCEPT !.pc = pc]
<1>1. x \in WorkerRow(clock) /\ Becomes(w, y)
  BY Zenon, GoesBecomes DEF WorkersOK
<1>2. /\ y.t = x.t /\ y.type = x.type /\ y.queued = x.queued /\ y.ok = x.ok /\ y.bad = x.bad /\ y.error = x.error
      /\ y.pc = pc /\ y.start = x.start
  BY <1>1 DEF WorkerRow
<1> HIDE DEF y
<1>3. worker'[w] = y
  BY Zenon, <1>1, OneBecomes
<1>4. x.queued = {}
  BY Zenon DEF WorkOK, Early
<1>5. CASE pc \in {"back", "ack", "release"}
  BY Zenon, <1>2, <1>3, <1>4, <1>5, PlainWork
<1>6. CASE pc \in {"mark", "status", "load"} /\ x.pc \in Early
  BY Zenon, <1>2, <1>3, <1>4, <1>6 DEF WorkOK, Early
<1>7. CASE pc = "open" /\ x.pc = "lock"
  BY Zenon, <1>2, <1>3, <1>4, <1>7 DEF WorkOK, Early
<1> QED
  BY Zenon, <1>5, <1>6, <1>7

\* TaskWorker.handle around the run, and the worker's knowledge.
LEMMA HandleWork ==
  ASSUME StateOK, NEW w \in Workers, WorkerStep(w), ~ Runs(w), WorkOK(worker[w], task', kb, source),
         \A t \in TaskIds : Awaited(t) => Used(task[t])
  PROVE  WorkOK(worker'[w], task', kb, source) /\ worker'[w].pc # "purge"
<1> DEFINE x == worker[w]
           t == worker[w].t
<1>0. WorkersOK /\ clock \in Nat /\ x \in WorkerRow(clock) /\ Placed(x)
  BY Zenon DEF StateOK, TableOK, WorkersOK
<1>1. CASE Deliver(w)
  <2>1. PICK u \in TaskIds : ready[u] > 0 /\ Becomes(w, [Resting EXCEPT !.pc = "claim", !.t = u, !.type = task[u].type])
    BY Zenon, <1>1 DEF Deliver
  <2> DEFINE y == [Resting EXCEPT !.pc = "claim", !.t = u, !.type = task[u].type]
  <2>2. /\ Resting \in WorkerRow(clock) /\ Resting.queued = {} /\ Resting.ok = {} /\ Resting.bad = {}
        /\ Resting.error = "none"
    <3>1. Resting \in WorkerRow(clock)
      BY Zenon, <1>0, RestingTyped
    <3> QED
      BY Zenon, <3>1 DEF Resting
  <2>3. /\ y.queued = {} /\ y.ok = {} /\ y.bad = {} /\ y.error = "none" /\ y.pc = "claim" /\ y.t = u
        /\ y.type = task[u].type
    BY <2>2 DEF WorkerRow
  <2>4. Becomes(w, y)
    BY Zenon, <2>1
  <2> HIDE DEF y
  <2>5. worker'[w] = y
    BY Zenon, <1>0, <2>4, OneBecomes
  <2>6. Used(task[u]) /\ task' = task
    BY Zenon, <1>1, <2>1 DEF Awaited, Deliver, tableVars
  <2> QED
    BY Zenon, <2>3, <2>5, <2>6 DEF WorkOK, Early
<1>2. CASE Claim(w)
  <2>1. x.pc \in Early
    BY Zenon, <1>2 DEF Claim, Early
  <2>2. Goes(w, "mark") \/ Goes(w, "status") \/ Becomes(w, [Resting EXCEPT !.pc = "idle"])
    BY Zenon, <1>2 DEF Claim, Nack
  <2> QED
    BY Zenon, <1>0, <2>1, <2>2, GoesWork, RestWork
<1>3. CASE CheckStatus(w)
  <2>2. Becomes(w, Resting) \/ Becomes(w, [Resting EXCEPT !.pc = "idle"])
    BY Zenon, <1>3 DEF CheckStatus, Nack
  <2> QED
    BY Zenon, <2>2, RestWork
<1>4. CASE MarkRunning(w)
  <2>1. x.pc \in Early
    BY Zenon, <1>4 DEF MarkRunning, Early
  <2>2. Goes(w, "load") \/ Becomes(w, [Resting EXCEPT !.pc = "idle"])
    BY Zenon, <1>4 DEF MarkRunning, Nack, Strands
  <2> QED
    BY Zenon, <1>0, <2>1, <2>2, GoesWork, RestWork
<1>5. CASE Load(w)
  <2>1. CASE task' = task /\ Becomes(w, [x EXCEPT !.pc = "lock", !.started = task[t].started, !.start = task[t].start])
    <3> DEFINE y == [x EXCEPT !.pc = "lock", !.started = task[t].started, !.start = task[t].start]
    <3>1. /\ y.t = x.t /\ y.type = x.type /\ y.queued = x.queued /\ y.ok = x.ok /\ y.bad = x.bad /\ y.error = x.error
          /\ y.pc = "lock" /\ y.start = task[t].start
      BY <1>0 DEF WorkerRow
    <3>2. Becomes(w, y)
      BY Zenon, <2>1
    <3> HIDE DEF y
    <3>3. worker'[w] = y
      BY Zenon, <1>0, <3>2, OneBecomes
    <3>4. x.pc = "load"
      BY Zenon, <1>5 DEF Load
    <3> QED
      BY Zenon, <2>1, <3>1, <3>3, <3>4 DEF WorkOK, Early
  <2>2. CASE Becomes(w, Resting) \/ Becomes(w, [Resting EXCEPT !.pc = "idle"])
    BY Zenon, <2>2, RestWork
  <2> QED
    BY Zenon, <1>5, <2>1, <2>2 DEF Load, Nack, Strands, tableVars
<1>6. CASE Lock(w)
  <2>1. x.pc = "lock" /\ (Goes(w, "open") \/ Goes(w, "back"))
    BY Zenon, <1>6 DEF Lock
  <2> QED
    BY Zenon, <1>0, <2>1, GoesWork
<1>7. CASE PutBack(w)
  <2> DEFINE pc == IF x.pc = "halt" THEN "unlock" ELSE "idle"
  <2>1. Becomes(w, [Resting EXCEPT !.pc = pc]) /\ pc \in {"idle", "unlock"}
    BY Zenon, <1>7 DEF PutBack, Strands, Nack
  <2> HIDE DEF pc
  <2> QED
    BY Zenon, <2>1, RestWork
<1>8. CASE HandleError(w) \/ ScheduleNext(w) \/ Ack(w) \/ Unlock(w) \/ Release(w)
  <2>1. \/ x.pc \notin {"list", "collect"} /\ (Goes(w, "ack") \/ Goes(w, "release"))
        \/ Becomes(w, Resting) \/ Becomes(w, [Resting EXCEPT !.pc = "unlock"])
    BY Zenon, <1>8 DEF HandleError, ScheduleNext, Ack, Unlock, Release, Strands, Nack
  <2> QED
    BY Zenon, <1>0, <2>1, GoesWork, RestWork
<1>9. CASE Interrupted(w)
  <2>1. CASE Becomes(w, [Resting EXCEPT !.pc = "idle"])
    BY Zenon, <2>1, RestWork
  <2>2. CASE Becomes(w, [x EXCEPT !.pc = "halt", !.queued = {}])
    <3> DEFINE y == [x EXCEPT !.pc = "halt", !.queued = {}]
    <3>1. y.t = x.t /\ y.type = x.type /\ y.queued = {} /\ y.pc = "halt"
      BY <1>0 DEF WorkerRow
    <3>2. Becomes(w, y)
      BY Zenon, <2>2
    <3> HIDE DEF y
    <3>3. worker'[w] = y
      BY Zenon, <1>0, <3>2, OneBecomes
    <3> QED
      BY Zenon, <3>1, <3>3, PlainWork
  <2> QED
    BY Zenon, <1>9, <2>1, <2>2 DEF Interrupted, Nack
<1> QED
  BY Zenon, <1>1, <1>2, <1>3, <1>4, <1>5, <1>6, <1>7, <1>8, <1>9 DEF WorkerStep

\* A wake-up concerns its task only.
LEMMA WakesOne ==
  ASSUME QueuesOK, NEW t \in TaskIds, NEW u \in TaskIds, u # t
  PROVE  More(ready, t)[u] = ready[u] /\ (Wakeup(t) => ready'[u] = ready[u])
BY Zenon DEF QueuesOK, Wakeups, More, Wakeup

\* Publishing does not touch other tasks.
LEMMA PublishesOnly ==
  ASSUME NEW ids, PublishAll(ids), NEW u \in TaskIds, u \notin ids
  PROVE  ready'[u] = ready[u]
BY Zenon DEF PublishAll

\* Neither does a timer.
LEMMA ArmsOnly ==
  ASSUME QueuesOK, NEW p, NEW ids, Arm(p, ids), NEW q \in Procs
  PROVE  timers'[q] \subseteq timers[q] \cup ids
BY Zenon DEF QueuesOK, Arm

\* What the system may be reminded of next: what it was, a worker's task, or a scheduled one.
Reminded ==
  \A t \in TaskIds : Awaited(t)' =>
    \/ Awaited(t) \/ task[t].status = "schedule" \/ task'[t].status = "schedule"
    \/ \E w \in Workers : worker[w].t = t

\* The workers' wake-ups.
LEMMA WorkersRemind ==
  ASSUME StateOK, NEW w \in Workers, WorkerStep(w)
  PROVE  Reminded
<1> DEFINE x == worker[w]
           Fine(u) == u = x.t \/ task[u].status = "schedule"
<1>0. /\ QueuesOK /\ ready \in Wakeups /\ Placed(x) /\ ProcOf[w] \in Procs
      /\ x.next \in TaskIds \cup {0}
  <2>1. worker[w] \in WorkerRow(clock)
    BY Zenon DEF StateOK, WorkersOK
  <2>2. x.next \in TaskIds \cup {0}
    BY <2>1 DEF WorkerRow
  <2> QED
    BY Zenon, <2>2, SystemAssumption DEF StateOK, WorkersOK, QueuesOK
<1>1. call' = call /\ unsettled' = unsettled
  BY ZenonT(60)
  DEF WorkerStep, Deliver, Claim, CheckStatus, MarkRunning, Load, Lock, PutBack, HandleError, ScheduleNext, Ack, Unlock,
      Release, Interrupted, Strands, Nack, Runs, Wakeup, PublishAll, queueVars, callVars
<1>2. ASSUME NEW u \in TaskIds, ready'[u] > 0 PROVE ready[u] > 0 \/ Fine(u)
  <2>1. CASE Deliver(w)
    <3>1. PICK t \in TaskIds : ready[t] > 0 /\ ready' = [ready EXCEPT ![t] = @ - 1]
      BY Zenon, <2>1 DEF Deliver
    <3> QED
      BY Zenon, <1>0, <1>2, <3>1 DEF Wakeups
  <2>2. CASE ~ Deliver(w)
    <3>1. \/ ready' = ready
          \/ x.pc \notin {"idle", "unlock", "release"} /\ Wakeup(x.t)
          \/ x.next # 0 /\ Listed(x.next) /\ PublishAll({x.next})
      BY ZenonT(60), <2>2
      DEF WorkerStep, Claim, CheckStatus, MarkRunning, Load, Lock, PutBack, HandleError, ScheduleNext, Ack, Unlock,
          Release, Interrupted, Strands, Nack, Runs, queueVars
    <3>2. ASSUME x.t \in TaskIds, Wakeup(x.t), u # x.t PROVE ready'[u] = ready[u]
      BY Zenon, <1>0, <3>2, WakesOne
    <3>3. ASSUME PublishAll({x.next}), u # x.next PROVE ready'[u] = ready[u]
      <4>1. u \notin {x.next}
        BY Zenon, <3>3
      <4> HIDE DEF x
      <4> QED
        BY Zenon, <3>3, <4>1, PublishesOnly
    <3> QED
      BY Zenon, <1>0, <1>2, <3>1, <3>2, <3>3 DEF Placed, Listed
  <2> QED
    BY Zenon, <2>1, <2>2
<1>3. ASSUME NEW u \in TaskIds, NEW q \in Procs, u \in timers'[q] PROVE u \in timers[q] \/ Fine(u)
  <2>1. \/ timers' = timers \/ Arm(ProcOf[w], {x.t})
        \/ x.next # 0 /\ Listed(x.next) /\ Arm(ProcOf[w], {x.next})
    BY ZenonT(60)
    DEF WorkerStep, Deliver, Claim, CheckStatus, MarkRunning, Load, Lock, PutBack, HandleError, ScheduleNext, Ack, Unlock,
        Release, Interrupted, Runs
  <2>2. /\ Arm(ProcOf[w], {x.t}) => timers'[q] \subseteq timers[q] \cup {x.t}
        /\ Arm(ProcOf[w], {x.next}) => timers'[q] \subseteq timers[q] \cup {x.next}
    BY Zenon, <1>0, ArmsOnly
  <2> QED
    BY Zenon, <1>3, <2>1, <2>2 DEF Listed
<1> QED
  BY Zenon, <1>1, <1>2, <1>3 DEF Reminded, Awaited

\* ResumeFailedSyncTask schedules its task.
LEMMA ResumeSchedules ==
  ASSUME StateOK, NEW t \in TaskIds, ResumeFailedSyncTask(t)
  PROVE  task'[t].status = "schedule"
<1>1. task \in [TaskIds -> TaskRow(clock)]
  BY Zenon DEF StateOK, TableOK, Rows
<1>2. task' = [task EXCEPT ![t].status = "schedule"]
  BY Zenon DEF ResumeFailedSyncTask
<1> QED
  BY <1>1, <1>2 DEF TaskRow

\* The other wake-ups.
LEMMA OthersRemind ==
  ASSUME StateOK, [Next]_vars, \A w \in Workers : ~ WorkerStep(w)
  PROVE  Reminded
<1>0. /\ QueuesOK /\ ready \in Wakeups /\ unsettled \in Wakeups /\ timers \in [Procs -> SUBSET TaskIds]
      /\ call \in Calls
  BY Zenon DEF StateOK, QueuesOK, CallOK
<1>1. ASSUME NEW p \in Procs, ProcStep(p) PROVE Reminded
  <2>0. call' = call
    BY Zenon, <1>1 DEF ProcStep, TimerFires, Recover, ScanTable, Start, Stop, Exit, Crash, callVars
  <2>1. CASE TimerFires(p)
    <3>1. PICK t \in timers[p] :
            \/ Wakeup(t) /\ timers' = [timers EXCEPT ![p] = @ \ {t}]
            \/ UNCHANGED <<timers, queueVars>>
      BY Zenon, <2>1 DEF TimerFires
    <3>2. t \in TaskIds /\ Awaited(t)
      BY Zenon, <1>0 DEF Awaited
    <3>3. \A q \in Procs : timers'[q] \subseteq timers[q]
      BY Zenon, <1>0, <3>1
    <3>4. \A u \in TaskIds \ {t} : ready'[u] = ready[u]
      BY Zenon, <1>0, <3>1, <3>2, WakesOne DEF queueVars
    <3>5. unsettled' = unsettled
      BY Zenon, <3>1 DEF Wakeup, queueVars
    <3> QED
      BY Zenon, <2>0, <3>2, <3>3, <3>4, <3>5 DEF Reminded, Awaited
  <2>2. CASE ScanTable(p)
    <3> DEFINE listed == {t \in TaskIds : Listed(t)}
    <3>1. PICK due \in SUBSET listed : (PublishAll(due) /\ Arm(p, listed \ due)) \/ UNCHANGED <<queueVars, timers>>
      BY Zenon, <2>2 DEF ScanTable
    <3>2. \A t \in listed : task[t].status = "schedule"
      BY Zenon DEF Listed
    <3> HIDE DEF listed
    <3>3. \A q \in Procs : timers'[q] \subseteq timers[q] \cup listed
      <4>1. Arm(p, listed \ due) => \A q \in Procs : timers'[q] \subseteq timers[q] \cup (listed \ due)
        BY Zenon, <1>0, ArmsOnly
      <4> QED
        BY Zenon, <3>1, <4>1
    <3>4. \A u \in TaskIds \ listed : ready'[u] = ready[u]
      <4>1. PublishAll(due) => \A u \in TaskIds \ due : ready'[u] = ready[u]
        BY Zenon, PublishesOnly
      <4> QED
        BY Zenon, <3>1, <4>1 DEF queueVars
    <3>5. unsettled' = unsettled
      BY Zenon, <3>1 DEF PublishAll, queueVars
    <3> QED
      BY Zenon, <2>0, <3>2, <3>3, <3>4, <3>5 DEF Reminded, Awaited
  <2>3. CASE Crash(p)
    <3> DEFINE held == {worker[w].t : w \in WorkersOf(p)} \ {0}
    <3>1. /\ unsettled' = [t \in TaskIds |-> IF t \in held THEN More(unsettled, t)[t] ELSE unsettled[t]]
          /\ timers' = [timers EXCEPT ![p] = {}] /\ ready' = ready
      BY Zenon, <2>3 DEF Crash
    <3>2. \A t \in held : \E w \in Workers : worker[w].t = t
      BY Zenon DEF WorkersOf
    <3> HIDE DEF held
    <3>3. \A q \in Procs : timers'[q] \subseteq timers[q]
      BY Zenon, <1>0, <3>1
    <3>4. \A u \in TaskIds \ held : unsettled'[u] = unsettled[u]
      BY Zenon, <3>1
    <3> QED
      BY Zenon, <2>0, <3>1, <3>2, <3>3, <3>4 DEF Reminded, Awaited
  <2>4. CASE Recover(p) \/ Start(p) \/ Stop(p) \/ Exit(p)
    <3>1. ready' = ready /\ unsettled' = unsettled /\ (timers' = timers \/ timers' = [timers EXCEPT ![p] = {}])
      BY Zenon, <2>4 DEF Recover, Start, Stop, Exit, queueVars
    <3>2. \A q \in Procs : timers'[q] \subseteq timers[q]
      BY Zenon, <1>0, <3>1
    <3> QED
      BY Zenon, <2>0, <3>1, <3>2 DEF Reminded, Awaited
  <2> QED
    BY Zenon, <1>1, <2>1, <2>2, <2>3, <2>4 DEF ProcStep
<1>2. ASSUME NEW t \in TaskIds, Redeliver(t) \/ Drop(t) PROVE Reminded
  <2>1. call' = call /\ timers' = timers /\ Awaited(t)
    BY Zenon, <1>2 DEF Redeliver, Drop, callVars, Awaited
  <2>2. \A u \in TaskIds \ {t} : ready'[u] = ready[u] /\ unsettled'[u] = unsettled[u]
    <3>1. CASE Redeliver(t)
      <4>2. \A u \in TaskIds \ {t} : More(ready, t)[u] = ready[u]
        BY Zenon, <1>0, WakesOne
      <4> QED
        BY Zenon, <1>0, <3>1, <4>2 DEF Redeliver, Wakeups
    <3>2. CASE Drop(t)
      BY Zenon, <1>0, <3>2 DEF Drop, Wakeups
    <3> QED
      BY Zenon, <1>2, <3>1, <3>2
  <2> QED
    BY Zenon, <2>1, <2>2 DEF Reminded, Awaited
<1>3. CASE LockExpires \/ World \/ UNCHANGED vars
  BY Zenon, <1>3 DEF LockExpires, World, vars, queueVars, callVars, Reminded, Awaited
<1>4. CASE CallStep
  <2>0. timers' = timers /\ unsettled' = unsettled
    <3>1. CASE Publish
      <4>1. call.wakeup => call.ids # {}
        BY Zenon DEF StateOK, CallOK
      <4> QED
        BY Zenon, <3>1, <4>1 DEF Publish, Wakeup, PublishAll, queueVars
    <3> QED
      BY Zenon, <1>4, <3>1 DEF CallStep, Cancel, Schedule, Resume, Rebuild, Abandon, otherVars, queueVars
  <2>1. \A u \in TaskIds \ call.ids : ready'[u] = ready[u]
    <3>1. CASE Publish
      <4>0. call.ids \subseteq TaskIds /\ (call.wakeup => call.ids # {})
        <5>1. call.ids \subseteq TaskIds
          BY <1>0 DEF Calls
        <5> QED
          BY Zenon, <5>1 DEF StateOK, CallOK
      <4>1. \A t \in TaskIds : Wakeup(t) => \A u \in TaskIds \ {t} : ready'[u] = ready[u]
        BY Zenon, <1>0, WakesOne
      <4>2. PublishAll(call.ids) => \A u \in TaskIds \ call.ids : ready'[u] = ready[u]
        BY Zenon, PublishesOnly
      <4> QED
        BY Zenon, <3>1, <4>0, <4>1, <4>2 DEF Publish, queueVars
    <3> QED
      BY Zenon, <1>4, <3>1 DEF CallStep, Cancel, Schedule, Resume, Rebuild, Abandon, queueVars
  <2>2. ASSUME NEW u \in TaskIds, u \in call'.ids PROVE u \in call.ids \/ task'[u].status = "schedule"
    <3>0. NoCall \in Calls /\ NoCall.ids = {}
      <4>1. NoCall \in Calls
        BY Zenon, NoCallTyped
      <4> QED
        BY Zenon, <4>1 DEF NoCall
    <3>1. ASSUME NEW pc, NEW ids, call' = [NoCall EXCEPT !.pc = pc, !.ids = ids] PROVE u \in ids
      <4>1. [NoCall EXCEPT !.pc = pc, !.ids = ids].ids = ids
        BY <3>0 DEF Calls
      <4> QED
        BY Zenon, <2>2, <3>1, <4>1
    <3>2. CASE Cancel
      <4> DEFINE c == [NoCall EXCEPT !.pc = "conn"]
                 d == [NoCall EXCEPT !.pc = "conn", !.again = TRUE]
                 e == [NoCall EXCEPT !.pc = "schedule"]
      <4>1. c.ids = NoCall.ids /\ d.ids = NoCall.ids /\ e.ids = NoCall.ids
        BY <3>0 DEF Calls
      <4>2. call' \in {c, d, e, NoCall}
        BY Zenon, <3>2 DEF Cancel
      <4> HIDE DEF c, d, e
      <4> QED
        BY Zenon, <2>2, <3>0, <4>1, <4>2
    <3>3. CASE Schedule
      BY Zenon, <3>1, <3>3 DEF Schedule
    <3>4. CASE Resume
      <4>1. PICK t \in TaskIds : ResumeFailedSyncTask(t) /\ call' = [NoCall EXCEPT !.pc = "publish", !.ids = {t}, !.wakeup = TRUE]
        BY Zenon, <3>4 DEF Resume
      <4>2. [NoCall EXCEPT !.pc = "publish", !.ids = {t}, !.wakeup = TRUE].ids = {t}
        BY <3>0 DEF Calls
      <4>3. u = t
        BY Zenon, <2>2, <4>1, <4>2
      <4>4. task'[t].status = "schedule"
        BY ResumeSchedules, <4>1
      <4> QED
        BY Zenon, <4>3, <4>4
    <3>5. CASE Rebuild
      <4> DEFINE c == [NoCall EXCEPT !.pc = "rebuild", !.docs = kb]
                 d == [call EXCEPT !.pc = "publish"]
      <4>1. c.ids = NoCall.ids /\ d.ids = call.ids
        BY <1>0, <3>0 DEF Calls
      <4>2. call' \in {c, d} \/ call' = [NoCall EXCEPT !.pc = "uncheck", !.ids = {t \in TaskIds : task'[t].status = "schedule"}]
        BY Zenon, <3>5 DEF Rebuild
      <4> HIDE DEF c, d
      <4> QED
        BY Zenon, <2>2, <3>0, <3>1, <4>1, <4>2
    <3> QED
      BY Zenon, <1>4, <2>2, <3>0, <3>2, <3>3, <3>4, <3>5 DEF CallStep, Publish, Abandon
  <2> QED
    BY Zenon, <2>0, <2>1, <2>2 DEF Reminded, Awaited
<1> QED
  BY Zenon, <1>1, <1>2, <1>3, <1>4 DEF Next

\* Rows and checkpoints after a statement of a step that takes nothing away.
LEMMA RowsMiss ==
  ASSUME StateOK, StateOK', MissInv, Grows(clock, source, kb, source', kb'), Arrived(source', kb', lastEnd'),
         \A t \in TaskIds : RowKept(task[t], task'[t]),
         TableStep \/ (clock' = clock /\ \E u \in TaskIds : ClaimTask(u)), NEW t \in TaskIds
  PROVE  RowOK(task'[t], ckpt[t], kb', source')
<1>1. /\ RowOK(task[t], ckpt[t], kb, source) /\ RowKept(task[t], task'[t])
      /\ task[t] \in TaskRow(clock) /\ ckpt[t] \in CheckpointsAt(clock) /\ source' \subseteq 1 .. clock'
  BY Zenon DEF MissInv, StateOK, TableOK, Rows, RunOK
<1>2. task[t].start \in 0 .. clock /\ ckpt[t].mark \in 0 .. clock
  BY <1>1 DEF TaskRow, CheckpointsAt
<1>3. Arrived(source', kb', 0)
  BY <1>1 DEF Arrived
<1>4. CASE Used(task[t])
  <2>1. Arrived(source, kb, task[t].start) => Arrived(source', kb', task[t].start)
    BY <1>2, ArrivedKept
  <2>2. Between(source, kb, ckpt[t].start, ckpt[t].mark) => Between(source', kb', ckpt[t].start, ckpt[t].mark)
    BY <1>2, BetweenKept
  <2> QED
    BY Zenon, <1>1, <1>4, <2>1, <2>2 DEF RowOK, RowKept
<1>5. CASE ~ Used(task[t])
  <2>1. ckpt[t].end = 0
    BY Zenon, <1>1, <1>5 DEF RowOK
  <2>2. Alive(task'[t]) => task'[t].start \in {0, lastEnd'}
    <3>1. CASE TableStep
      BY Zenon, <1>5, <3>1 DEF TableStep, RowsFollow, Follows, Used, Alive, ConnStatus
    <3>2. ASSUME NEW u \in TaskIds, clock' = clock, ClaimTask(u) PROVE ~ Alive(task'[t])
      <4>1. task[u].status = "schedule" /\ task' = [task EXCEPT ![u].status = "running", ![u].started = claims + 1]
        BY Zenon, <3>2 DEF ClaimTask, Claimable
      <4>2. u # t
        BY Zenon, <1>5, <4>1 DEF Used
      <4>3. task'[t] = task[t]
        <5>1. TableOK
          BY Zenon DEF StateOK
        <5> QED
          BY Zenon, <3>2, <4>2, <5>1, ClaimTyped
      <4> QED
        BY Zenon, <1>5, <4>3 DEF Used, Alive
    <3> QED
      BY Zenon, <3>1, <3>2
  <2> QED
    BY Zenon, <1>3, <2>1, <2>2 DEF RowOK
<1> QED
  BY Zenon, <1>4, <1>5

\* A row without a checkpoint.
LEMMA RowUnchecked ==
  ASSUME NEW r, NEW cp, NEW docs, NEW src, RowOK(r, cp, docs, src)
  PROVE  RowOK(r, NoCheckpoint, docs, src)
<1>1. NoCheckpoint.end = 0
  BY Zenon DEF NoCheckpoint
<1> QED
  BY Zenon, <1>1 DEF RowOK

\* CompleteSyncTask is the only statement that moves the end of the last SYNC forward, and
\* then everything up to the new end has arrived.
LEMMA EndArrives ==
  ASSUME StateOK, MissInv, NEW w \in Workers, WorkerStep(w), Grows(clock, source, kb, source', kb'),
         source' = source, clock' = clock
  PROVE  Arrived(source', kb', lastEnd')
<1> DEFINE x == worker[w]
<1>0. /\ TableOK /\ x \in WorkerRow(clock) /\ Placed(x) /\ lastEnd \in 0 .. clock /\ WorkOK(x, task, kb, source)
      /\ Arrived(source, kb, lastEnd)
  BY Zenon DEF StateOK, WorkersOK, TableOK, MissInv
<1>1. lastEnd' = lastEnd \/ (Finish(w) /\ Complete(x.t, x.cp.end))
  BY ZenonT(60)
  DEF WorkerStep, Deliver, Claim, CheckStatus, MarkRunning, Load, Lock, PutBack, HandleError, ScheduleNext, Ack, Unlock,
      Release, Interrupted, Strands, Runs, RunStep, Open, List, Restart, Job, Collect, Snapshot, Purge, Finish, Uncheck, Breaks,
      tableVars, ClaimTask, MarkConnectorRunning, FailTask, RescheduleClaimed, Restore, HandleTransientFailure
<1>2. CASE lastEnd' = lastEnd
  BY Zenon, <1>0, <1>2, ArrivedKept
<1>3. CASE Finish(w) /\ Complete(x.t, x.cp.end)
  <2>1. x.t \in TaskIds /\ x.pc = "complete" /\ kb' = kb
    BY Zenon, <1>0, <1>3 DEF Finish, Placed
  <2>2. x.cp.end \in 0 .. clock
    BY <1>0 DEF WorkerRow, CheckpointsAt
  <2>3. task[x.t].status = "running" /\ lastEnd' = IF task[x.t].type = "sync" THEN x.cp.end ELSE lastEnd
    BY Zenon, <1>0, <1>3, <2>1, <2>2, CompleteTyped
  <2>4. CASE task[x.t].type # "sync"
    BY Zenon, <1>2, <2>3, <2>4
  <2>5. CASE task[x.t].type = "sync"
    <3>1. Alive(task[x.t])
      BY Zenon, <2>3 DEF Alive
    <3>2. x.cp.start = task[x.t].start /\ Between(source, kb, x.cp.start, x.cp.end)
      BY Zenon, <1>0, <2>1, <2>5, <3>1 DEF WorkOK
    <3>3. Arrived(source, kb, task[x.t].start)
      BY Zenon, <2>1, <3>1 DEF MissInv, RowOK
    <3>4. source \subseteq Nat /\ x.cp.start \in Nat
      <4>1. source \subseteq 1 .. clock
        BY Zenon DEF StateOK, RunOK
      <4> QED
        BY <1>0, <4>1 DEF WorkerRow, CheckpointsAt
    <3>5. Arrived(source, kb, x.cp.end)
      <4> SUFFICES ASSUME NEW i \in source, i <= x.cp.end PROVE i \in kb
        BY Zenon DEF Arrived
      <4>1. i <= x.cp.start \/ x.cp.start < i
        BY <3>4
      <4> QED
        BY Zenon, <3>2, <3>3, <4>1 DEF Arrived, Between
    <3> QED
      BY Zenon, <2>1, <2>3, <2>5, <3>5
  <2> QED
    BY Zenon, <2>4, <2>5
<1> QED
  BY Zenon, <1>1, <1>2, <1>3

\* What a wake-up is for exists.
LEMMA AwaitedKept ==
  ASSUME MissInv, Reminded, \A t \in TaskIds : RowKept(task[t], task'[t])
  PROVE  \A t \in TaskIds : Awaited(t)' => Used(task'[t])
<1> SUFFICES ASSUME NEW t \in TaskIds, Awaited(t)' PROVE Used(task'[t])
  BY Zenon
<1>1. CASE task'[t].status = "schedule"
  BY Zenon, <1>1 DEF Used
<1>2. CASE Awaited(t) \/ task[t].status = "schedule" \/ \E w \in Workers : worker[w].t = t
  <2>1. Used(task[t])
    BY Zenon, <1>2 DEF MissInv, WorkOK, Used
  <2> QED
    BY Zenon, <2>1 DEF RowKept
<1> QED
  BY Zenon, <1>1, <1>2 DEF Reminded

\* A step of a worker, if no two execute at a time.
LEMMA WorkersMiss ==
  ASSUME StateOK, StateOK', OneExecutor, CanceledIsOver, MissInv, NEW w \in Workers, WorkerStep(w)
  PROVE  MissInv'
<1> DEFINE x == worker[w]
<1>0. /\ TableOK /\ WorkersOK /\ RunOK /\ x \in WorkerRow(clock) /\ Placed(x) /\ worker \in [Workers -> WorkerRow(clock)]
      /\ PurgeOK /\ ckpt \in [TaskIds -> CheckpointsAt(clock)]
  BY Zenon DEF StateOK, WorkersOK, RunOK, MissInv, PurgeOK
<1>1. clock' = clock /\ source' = source
  BY ZenonT(60)
  DEF WorkerStep, Deliver, Claim, CheckStatus, MarkRunning, Load, Lock, PutBack, HandleError, ScheduleNext, Ack, Unlock,
      Release, Interrupted, Runs, RunStep, Open, List, Restart, Job, Collect, Snapshot, Purge, Finish, Uncheck, Breaks, worldVars
<1>2. ~ Runs(w) => kb' = kb /\ ckpt' = ckpt
  BY ZenonT(60)
  DEF WorkerStep, Deliver, Claim, CheckStatus, MarkRunning, Load, Lock, PutBack, HandleError, ScheduleNext, Ack, Unlock,
      Release, Interrupted
<1>3. Grows(clock, source, kb, source', kb')
  <2>1. CASE Runs(w)
    BY Zenon, <1>0, <2>1, RunGrows DEF Runs
  <2>2. CASE ~ Runs(w)
    <3>1. source \subseteq Nat /\ clock \in Nat
      BY <1>0 DEF RunOK, TableOK
    <3> QED
      BY Zenon, <1>1, <1>2, <2>2, <3>1 DEF Grows
  <2> QED
    BY Zenon, <2>1, <2>2
<1>4. TableStep \/ (clock' = clock /\ \E u \in TaskIds : ClaimTask(u))
  <2>1. TableStep \/ (ClaimTask(worker[w].t) /\ Claim(w))
    BY <1>0, HandleTyped
  <2>2. Claim(w) => x.t \in TaskIds
    BY Zenon, <1>0 DEF Claim, Placed
  <2> QED
    BY Zenon, <1>1, <2>1, <2>2
<1>5. \A t \in TaskIds : RowKept(task[t], task'[t])
  BY Zenon, <1>1, <1>4, RowsKept
<1>6. \A v \in Workers \ {w} : worker'[v] = worker[v]
  BY Zenon, HandleHolds DEF Responsible
<1>7. Arrived(source', kb', lastEnd')
  BY Zenon, <1>1, <1>3, EndArrives
<1>8. \A v \in Workers : WorkOK(worker[v], task', kb', source')
  <2> SUFFICES ASSUME NEW v \in Workers PROVE WorkOK(worker[v], task', kb', source')
    BY Zenon
  <2>1. worker[v] \in WorkerRow(clock) /\ WorkOK(worker[v], task, kb, source)
    BY Zenon, <1>0 DEF MissInv
  <2> QED
    BY Zenon, <1>3, <1>5, <2>1, WorkKept
<1>9. WorkOK(worker'[w], task', kb', source')
  <2>1. CASE Runs(w)
    <3>1. WorkOK(x, task, kb, source) /\ (\A t \in TaskIds : RowOK(task[t], ckpt[t], kb, source)) /\ RunStep(w)
      BY Zenon, <2>1 DEF MissInv, Runs
    <3> QED
      BY Zenon, <1>1, <1>8, <3>1, RunWork
  <2>2. CASE ~ Runs(w)
    <3>1. (\A t \in TaskIds : Awaited(t) => Used(task[t])) /\ WorkOK(x, task', kb, source)
      BY Zenon, <1>1, <1>2, <1>8, <2>2 DEF MissInv
    <3>2. WorkOK(worker'[w], task', kb, source)
      BY Zenon, <2>2, <3>1, HandleWork
    <3> QED
      BY Zenon, <1>1, <1>2, <2>2, <3>2
  <2> QED
    BY Zenon, <2>1, <2>2
<1>10. \A v \in Workers : WorkOK(worker'[v], task', kb', source')
  BY Zenon, <1>6, <1>8, <1>9
<1>11. \A t \in TaskIds : RowOK(task'[t], ckpt[t], kb', source')
  BY Zenon, <1>3, <1>4, <1>5, <1>7, RowsMiss
<1>12. \A t \in TaskIds : RowOK(task'[t], ckpt'[t], kb', source')
  <2>1. CASE ckpt' = ckpt
    BY Zenon, <1>11, <2>1
  <2>2. CASE x.t \in TaskIds /\ ckpt' = [ckpt EXCEPT ![x.t] = NoCheckpoint]
    <3>1. \A t \in TaskIds : ckpt'[t] = ckpt[t] \/ ckpt'[t] = NoCheckpoint
      BY Zenon, <1>0, <2>2
    <3> QED
      BY Zenon, <1>11, <3>1, RowUnchecked
  <2>3. CASE /\ x.t \in TaskIds /\ ckpt' = [ckpt EXCEPT ![x.t] = worker'[w].cp]
             /\ worker'[w].t = x.t /\ worker'[w].pc \in {"list", "collect"}
    <3>1. ckpt'[x.t] = worker'[w].cp /\ \A t \in TaskIds \ {x.t} : ckpt'[t] = ckpt[t]
      BY Zenon, <1>0, <2>3
    <3>2. RowOK(task'[x.t], worker'[w].cp, kb', source')
      <4>1. Used(task'[x.t])
        BY Zenon, <1>9, <2>3 DEF WorkOK
      <4>2. Alive(task'[x.t]) => /\ worker'[w].cp.start = task'[x.t].start
                                 /\ Between(source', kb', worker'[w].cp.start, worker'[w].cp.mark)
        BY Zenon, <1>9, <2>3 DEF WorkOK, Listing
      <4>3. Alive(task'[x.t]) => Arrived(source', kb', task'[x.t].start)
        BY Zenon, <1>11, <2>3 DEF RowOK
      <4> QED
        BY Zenon, <4>1, <4>2, <4>3 DEF RowOK
    <3> QED
      BY Zenon, <1>11, <3>1, <3>2
  <2>4. RunStep(w) => \/ ckpt' = ckpt
                      \/ x.t \in TaskIds /\ ckpt' = [ckpt EXCEPT ![x.t] = NoCheckpoint]
                      \/ /\ x.t \in TaskIds /\ ckpt' = [ckpt EXCEPT ![x.t] = worker'[w].cp]
                         /\ worker'[w].t = x.t /\ worker'[w].pc \in {"list", "collect"}
    BY RunSaves
  <2> QED
    BY Zenon, <1>2, <2>1, <2>2, <2>3, <2>4 DEF Runs
<1>13. PurgeOK'
  <2>1. CASE Runs(w)
    BY Zenon, <1>0, <2>1, RunPurges DEF MissInv, Runs
  <2>2. CASE ~ Runs(w)
    <3>1. worker'[w].pc # "purge"
      <4>1. (\A t \in TaskIds : Awaited(t) => Used(task[t])) /\ WorkOK(x, task', kb, source)
        BY Zenon, <1>1, <1>2, <1>8, <2>2 DEF MissInv
      <4> QED
        BY Zenon, <2>2, <4>1, HandleWork
    <3> QED
      BY Zenon, <1>0, <1>1, <1>2, <1>6, <2>2, <3>1 DEF PurgeOK
  <2> QED
    BY Zenon, <2>1, <2>2
<1>14. \A t \in TaskIds : Awaited(t)' => Used(task'[t])
  BY Zenon, <1>5, WorkersRemind, AwaitedKept
<1> QED
  BY Zenon, <1>7, <1>10, <1>12, <1>13, <1>14 DEF MissInv, PurgeOK

\* RebuildConnector deletes the documents and all rows, and starts from the beginning.
LEMMA RebuildMiss ==
  ASSUME StateOK, StateOK', MissInv, Rebuild, call.pc = "rebuild", Reminded
  PROVE  MissInv'
<1>1. /\ RebuildConnector(scenario.prune) /\ kb' = kb \ call.docs /\ worker' = worker /\ ckpt' = ckpt
      /\ clock' = clock /\ source' = source
  BY Zenon DEF Rebuild, Begins, worldVars
<1>2. TableOK
  BY Zenon DEF StateOK
<1>3. TableStep /\ lastEnd' = 0 /\ \A t \in TaskIds : Used(task[t]) => task'[t].status = "deleted"
  BY Zenon, <1>1, <1>2, RebuildTyped DEF Used
<1>4. \A t \in TaskIds : RowKept(task[t], task'[t])
  BY Zenon, <1>1, <1>3, RowsKept
<1>5. Arrived(source', kb', 0)
  <2>1. source' \subseteq 1 .. clock'
    BY Zenon DEF StateOK, RunOK
  <2> QED
    BY <2>1 DEF Arrived
<1>6. \A t \in TaskIds : RowOK(task'[t], ckpt'[t], kb', source')
  <2> SUFFICES ASSUME NEW t \in TaskIds PROVE RowOK(task'[t], ckpt'[t], kb', source')
    BY Zenon
  <2>1. CASE Used(task[t])
    BY Zenon, <1>3, <2>1 DEF RowOK, Used, Alive
  <2>2. CASE ~ Used(task[t])
    <3>1. ckpt'[t].end = 0
      BY Zenon, <1>1, <2>2 DEF MissInv, RowOK
    <3>2. Alive(task'[t]) => task'[t].start = 0
      BY Zenon, <1>3, <2>2 DEF TableStep, RowsFollow, Follows, Used, Alive, ConnStatus
    <3> QED
      BY Zenon, <1>5, <3>1, <3>2 DEF RowOK
  <2> QED
    BY Zenon, <2>1, <2>2
<1>7. \A w \in Workers : WorkOK(worker'[w], task', kb', source')
  BY Zenon, <1>1, <1>3 DEF MissInv, WorkOK, Used, Alive
<1>8. PurgeOK'
  BY Zenon, <1>1 DEF MissInv, PurgeOK
<1>9. \A t \in TaskIds : Awaited(t)' => Used(task'[t])
  BY Zenon, <1>4, AwaitedKept
<1> QED
  BY Zenon, <1>3, <1>5, <1>6, <1>7, <1>8, <1>9 DEF MissInv, PurgeOK

\* A step that deletes no document, completes no task and moves no worker but to rest.
LEMMA QuietMiss ==
  ASSUME StateOK, StateOK', MissInv, Reminded, TableStep, \A t \in TaskIds : RowKept(task[t], task'[t]),
         kb' = kb, lastEnd' = lastEnd, Grows(clock, source, kb, source', kb'),
         \A w \in Workers : worker'[w] = worker[w] \/ worker'[w] = Resting,
         \A t \in TaskIds : ckpt'[t] = ckpt[t] \/ ckpt'[t] = NoCheckpoint
  PROVE  MissInv'
<1>0. clock \in Nat /\ lastEnd \in 0 .. clock /\ kb \subseteq 1 .. clock /\ worker \in [Workers -> WorkerRow(clock)]
  BY Zenon DEF StateOK, TableOK, RunOK, WorkersOK
<1>1. Arrived(source', kb', lastEnd')
  <2>1. Arrived(source, kb, lastEnd)
    BY Zenon DEF MissInv
  <2>2. Arrived(source', kb', lastEnd)
    BY <1>0, <2>1, ArrivedKept
  <2> QED
    BY Zenon, <2>2
<1>2. \A t \in TaskIds : RowOK(task'[t], ckpt[t], kb', source')
  BY Zenon, <1>1, RowsMiss
<1>3. \A t \in TaskIds : RowOK(task'[t], ckpt'[t], kb', source')
  BY Zenon, <1>2, RowUnchecked
<1>4. \A w \in Workers : WorkOK(worker[w], task', kb', source')
  BY Zenon, <1>0, WorkKept DEF MissInv
<1>5. WorkOK(Resting, task', kb', source') /\ Resting.pc # "purge"
  <2>1. 0 \notin TaskIds
    BY DEF TaskIds
  <2> QED
    BY Zenon, <2>1 DEF WorkOK, Early, Resting
<1>6. \A w \in Workers : WorkOK(worker'[w], task', kb', source')
  BY Zenon, <1>4, <1>5
<1>7. kb' \cap source' \subseteq kb \cap source
  BY <1>0 DEF Grows
<1>8. \A w \in Workers : worker'[w].pc = "purge" => kb' \cap source' \subseteq worker'[w].retain
  BY Zenon, <1>5, <1>7 DEF MissInv
<1>9. \A t \in TaskIds : Awaited(t)' => Used(task'[t])
  BY Zenon, AwaitedKept
<1> QED
  BY Zenon, <1>1, <1>3, <1>6, <1>8, <1>9 DEF MissInv

\* The processes, the requests, the messages and the source.
LEMMA OthersMiss ==
  ASSUME StateOK, StateOK', MissInv, Reminded,
         \/ \E p \in Procs : ProcStep(p)
         \/ \E t \in TaskIds : Redeliver(t) \/ Drop(t)
         \/ LockExpires \/ CallStep \/ World \/ UNCHANGED vars
  PROVE  MissInv'
<1>0. /\ TableOK /\ WorkersOK /\ RunOK /\ clock \in Nat /\ source \subseteq 1 .. clock
      /\ worker \in [Workers -> WorkerRow(clock)] /\ ckpt \in [TaskIds -> CheckpointsAt(clock)]
  BY Zenon DEF StateOK, TableOK, WorkersOK, RunOK
<1>1. TableStep
  BY Zenon, <1>0, OthersTyped, WorldTyped
<1>2. source \subseteq Nat
  BY <1>0
<1>3. ASSUME clock' = clock, source' = source, kb' = kb, lastEnd' = lastEnd,
             \A w \in Workers : worker'[w] = worker[w] \/ worker'[w] = Resting,
             \A t \in TaskIds : ckpt'[t] = ckpt[t] \/ ckpt'[t] = NoCheckpoint
      PROVE  MissInv'
  <2>1. Grows(clock, source, kb, source', kb')
    BY Zenon, <1>0, <1>2, <1>3 DEF Grows
  <2>2. \A t \in TaskIds : RowKept(task[t], task'[t])
    BY Zenon, <1>1, <1>3, RowsKept
  <2> QED
    BY Zenon, <1>1, <1>3, <2>1, <2>2, QuietMiss
<1>4. CASE World
  <2>1. task' = task /\ worker' = worker /\ kb' = kb /\ ckpt' = ckpt /\ lastEnd' = lastEnd
    BY Zenon, <1>4 DEF World, SourceChanges, tableVars
  <2>2. source' \subseteq source \cup {clock + 1}
    BY Zenon, <1>4 DEF World, SourceChanges
  <2>3. source' \subseteq Nat /\ \A i \in source' : i \in source \/ i > clock
    BY <1>0, <1>2, <2>2
  <2>4. Grows(clock, source, kb, source', kb')
    BY Zenon, <1>0, <2>1, <2>3 DEF Grows
  <2>5. \A t \in TaskIds : RowKept(task[t], task'[t])
    BY Zenon, <2>1 DEF RowKept, Alive, Used
  <2> QED
    BY Zenon, <1>1, <2>1, <2>4, <2>5, QuietMiss
<1>5. ASSUME NEW p \in Procs, ProcStep(p) PROVE MissInv'
  <2>1. clock' = clock /\ source' = source /\ kb' = kb /\ ckpt' = ckpt /\ lastEnd' = lastEnd
    BY ZenonT(60), <1>5 DEF ProcStep, TimerFires, Recover, ScanTable, Start, Stop, Exit, Crash, RecoverRunning, Restore,
                            runnerVars, tableVars, worldVars
  <2>2. worker' = worker \/ worker' = [w \in Workers |-> IF w \in WorkersOf(p) THEN Resting ELSE worker[w]]
    BY ZenonT(60), <1>5 DEF ProcStep, TimerFires, Recover, ScanTable, Start, Stop, Exit, Crash, runnerVars
  <2>3. \A w \in Workers : worker'[w] = worker[w] \/ worker'[w] = Resting
    BY Zenon, <2>2
  <2> QED
    BY Zenon, <1>3, <2>1, <2>3
<1>6. CASE (\E t \in TaskIds : Redeliver(t) \/ Drop(t)) \/ LockExpires \/ UNCHANGED vars
  <2>1. /\ clock' = clock /\ source' = source /\ kb' = kb /\ ckpt' = ckpt /\ lastEnd' = lastEnd
        /\ worker' = worker
    BY Zenon, <1>6 DEF Redeliver, Drop, LockExpires, runnerVars, tableVars, worldVars, vars
  <2> QED
    BY Zenon, <1>3, <2>1
<1>7. CASE CallStep
  <2>1. CASE Rebuild /\ call.pc = "rebuild"
    BY Zenon, <2>1, RebuildMiss
  <2>2. CASE Rebuild /\ call.pc # "rebuild"
    <3>1. clock' = clock /\ source' = source /\ kb' = kb /\ lastEnd' = lastEnd /\ worker' = worker
      BY Zenon, <2>2 DEF Rebuild, otherVars, runnerVars, tableVars, worldVars
    <3>2. ckpt' = ckpt \/ ckpt' = [t \in TaskIds |-> IF task[t].status = "deleted" THEN NoCheckpoint ELSE ckpt[t]]
      BY Zenon, <2>2 DEF Rebuild, otherVars, runnerVars
    <3>3. \A t \in TaskIds : ckpt'[t] = ckpt[t] \/ ckpt'[t] = NoCheckpoint
      BY Zenon, <3>2
    <3> QED
      BY Zenon, <1>3, <3>1, <3>3
  <2>3. CASE Cancel \/ Schedule \/ Resume \/ Publish \/ Abandon
    <3>1. /\ clock' = clock /\ source' = source /\ kb' = kb /\ ckpt' = ckpt /\ lastEnd' = lastEnd
          /\ worker' = worker
      BY ZenonT(60), <2>3 DEF Cancel, Schedule, Resume, Publish, Abandon, CancelRunningOrScheduledLogs,
           ScheduleConnectorTasks, ResumeFailedSyncTask, otherVars, runnerVars, tableVars, worldVars
    <3> QED
      BY Zenon, <1>3, <3>1
  <2> QED
    BY Zenon, <1>7, <2>1, <2>2, <2>3 DEF CallStep
<1> QED
  BY Zenon, <1>4, <1>5, <1>6, <1>7

\* A connector that was just linked has synchronized nothing, and promises nothing.
LEMMA MissInit ==
  ASSUME Init
  PROVE  MissInv
<1>1. /\ clock = 1 /\ \A t \in TaskIds : task[t].status \in {"absent", "schedule"} /\ task[t].start = 0
  BY Zenon, InitRows
<1>2. /\ worker = [w \in Workers |-> Resting] /\ ckpt = [t \in TaskIds |-> NoCheckpoint] /\ lastEnd = 0
      /\ timers = [p \in Procs |-> {}] /\ call = NoCall /\ unsettled = [t \in TaskIds |-> 0]
  BY Zenon DEF Init
<1>3. source \subseteq 1 .. clock
  BY Zenon, SyncInit DEF StateOK, RunOK
<1>4. Arrived(source, kb, 0)
  BY <1>1, <1>3 DEF Arrived
<1>5. \A t \in TaskIds : RowOK(task[t], ckpt[t], kb, source)
  BY Zenon, <1>1, <1>2, <1>4 DEF RowOK, NoCheckpoint
<1>6. \A w \in Workers : WorkOK(worker[w], task, kb, source) /\ worker[w].pc # "purge"
  <2>1. 0 \notin TaskIds
    BY DEF TaskIds
  <2> QED
    BY Zenon, <1>2, <2>1 DEF WorkOK, Early, Resting
<1>7. ASSUME NEW t \in TaskIds, Awaited(t) PROVE Used(task[t])
  <2>1. ready[t] > 0
    <3>1. unsettled[t] = 0 /\ ~ (0 > 0)
      BY <1>2
    <3>2. t \notin call.ids /\ \A p \in Procs : t \notin timers[p]
      BY Zenon, <1>2, NoCallTyped
    <3> QED
      BY Zenon, <1>7, <3>1, <3>2 DEF Awaited
  <2>2. ready[t] = IF task[t].status = "schedule" THEN 1 ELSE 0
    BY Zenon DEF Init
  <2>3. task[t].status = "schedule"
    BY <2>1, <2>2
  <2> QED
    BY Zenon, <2>3 DEF Used
<1> QED
  BY Zenon, <1>2, <1>4, <1>5, <1>6, <1>7 DEF MissInv

-----------------------------------------------------------------------------
(* The connector lock.                                                     *)

\* Where a worker has the lock: from TryLock to the end of Unlock.
Holding == Running \cup {"failed", "next", "ack", "halt", "unlock", "release"}

Shape == DOMAIN worker = Workers /\ \A w \in Workers : "pc" \in DOMAIN worker[w]

\* Whoever has the lock finds the name of its process in Redis.
HoldersLocked == \A w \in Workers : worker[w].pc \in Holding => redis = ProcOf[w]

LockInv == Shape /\ HoldersLocked

\* A step of w that neither takes nor releases the lock.
Keeps(w) ==
  /\ redis' = redis
  /\ \E r : /\ worker' = [worker EXCEPT ![w] = r]
            /\ "pc" \in DOMAIN r
            /\ r.pc \in Holding => worker[w].pc \in Holding

\* Such a step preserves the invariant.
LEMMA KeepsInv ==
  ASSUME NEW w \in Workers, LockInv, Keeps(w)
  PROVE  LockInv'
<1>1. PICK r : /\ worker' = [worker EXCEPT ![w] = r]
               /\ "pc" \in DOMAIN r
               /\ r.pc \in Holding => worker[w].pc \in Holding
  BY ZenonT(60) DEF Keeps
<1>2. redis' = redis
  BY Zenon DEF Keeps
<1>3. DOMAIN worker' = Workers /\ worker'[w] = r /\ \A v \in Workers \ {w} : worker'[v] = worker[v]
  BY Zenon, <1>1 DEF LockInv, Shape
<1>4. Shape'
  BY Zenon, <1>1, <1>3 DEF LockInv, Shape
<1>5. HoldersLocked'
  BY Zenon, <1>1, <1>2, <1>3 DEF LockInv, HoldersLocked
<1> QED
  BY Zenon, <1>4, <1>5 DEF LockInv

\* Neither does a step that leaves the workers and the lock alone.
LEMMA StutterInv ==
  ASSUME LockInv, UNCHANGED <<worker, redis>>
  PROVE  LockInv'
BY Zenon DEF LockInv, Shape, HoldersLocked

\* Going to a place.
LEMMA GoesKeeps ==
  ASSUME NEW w \in Workers, NEW pc, LockInv, Goes(w, pc), redis' = redis,
         pc \in Holding => worker[w].pc \in Holding
  PROVE  LockInv'
<1> DEFINE r == [worker[w] EXCEPT !.pc = pc]
<1>1. worker' = [worker EXCEPT ![w] = r]
  BY Zenon DEF Goes, LockInv, Shape
<1>2. "pc" \in DOMAIN r /\ r.pc = pc
  BY Zenon DEF LockInv, Shape
<1> QED
  BY ZenonT(60), <1>1, <1>2, KeepsInv DEF Keeps

\* Becoming a record with a place.
LEMMA BecomesKeeps ==
  ASSUME NEW w \in Workers, NEW r, LockInv, Becomes(w, r), redis' = redis, "pc" \in DOMAIN r,
         r.pc \in Holding => worker[w].pc \in Holding
  PROVE  LockInv'
BY ZenonT(60), KeepsInv DEF Becomes, Keeps

\* A worker that has settled its message forgets the task.
LEMMA RestsKeeps ==
  ASSUME NEW w \in Workers, NEW pc, LockInv, Becomes(w, [Resting EXCEPT !.pc = pc]), redis' = redis,
         pc \in Holding => worker[w].pc \in Holding
  PROVE  LockInv'
<1> DEFINE r == [Resting EXCEPT !.pc = pc]
<1>1. "pc" \in DOMAIN r /\ r.pc = pc
  BY Zenon DEF Resting
<1>2. Becomes(w, r)
  BY Zenon
<1> HIDE DEF r
<1> QED
  BY Zenon, <1>1, <1>2, BecomesKeeps

\* A worker without a task.
LEMMA IdleKeeps ==
  ASSUME NEW w \in Workers, LockInv, Becomes(w, Resting), redis' = redis
  PROVE  LockInv'
<1>1. "pc" \in DOMAIN Resting /\ Resting.pc \notin Holding
  BY Zenon DEF Resting, Holding, Running
<1> QED
  BY Zenon, <1>1, BecomesKeeps

\* A run that ends with an error goes on to report it.
LEMMA EndsKeeps ==
  ASSUME NEW w \in Workers, NEW error, LockInv, Ends(w, error), redis' = redis, worker[w].pc \in Holding
  PROVE  LockInv'
<1> DEFINE r == [worker[w] EXCEPT !.pc = IF error = "canceled" THEN "ack" ELSE "failed", !.queued = {}]
<1>1. "pc" \in DOMAIN r
  BY Zenon DEF LockInv, Shape
<1>2. Becomes(w, r)
  BY Zenon DEF Ends
<1> HIDE DEF r
<1> QED
  BY Zenon, <1>1, <1>2, BecomesKeeps

-----------------------------------------------------------------------------
(* The worker's steps that leave the lock alone.                           *)

\* Before the lock is taken.
LEMMA EarlySteps ==
  ASSUME NEW w \in Workers, LockInv,
         Deliver(w) \/ Claim(w) \/ CheckStatus(w) \/ MarkRunning(w) \/ Load(w)
  PROVE  LockInv'
<1>1. redis' = redis
  BY ZenonT(60) DEF Deliver, Claim, CheckStatus, MarkRunning, Load, lockVars
<1>2. CASE Deliver(w)
  <2>1. PICK t \in TaskIds : Becomes(w, [Resting EXCEPT !.pc = "claim", !.t = t, !.type = task[t].type])
    BY ZenonT(60), <1>2 DEF Deliver
  <2> DEFINE r == [Resting EXCEPT !.pc = "claim", !.t = t, !.type = task[t].type]
  <2>2. "pc" \in DOMAIN r /\ r.pc = "claim"
    BY Zenon DEF Resting
  <2>3. Becomes(w, r)
    BY Zenon, <2>1
  <2> HIDE DEF r
  <2> QED
    BY ZenonT(60), <1>1, <2>2, <2>3, BecomesKeeps DEF Holding, Running
<1>3. CASE Claim(w)
  <2>1. Goes(w, "mark") \/ Goes(w, "status") \/ Becomes(w, [Resting EXCEPT !.pc = "idle"])
    BY Zenon, <1>3 DEF Claim, Nack
  <2> QED
    BY Zenon, <1>1, <2>1, GoesKeeps, RestsKeeps DEF Holding, Running
<1>4. CASE CheckStatus(w)
  <2>1. Becomes(w, Resting) \/ Becomes(w, [Resting EXCEPT !.pc = "idle"])
    BY Zenon, <1>4 DEF CheckStatus, Nack
  <2> QED
    BY Zenon, <1>1, <2>1, IdleKeeps, RestsKeeps DEF Holding, Running
<1>5. CASE MarkRunning(w)
  <2>1. Goes(w, "load") \/ Becomes(w, [Resting EXCEPT !.pc = "idle"])
    BY Zenon, <1>5 DEF MarkRunning, Nack, Strands
  <2> QED
    BY Zenon, <1>1, <2>1, GoesKeeps, RestsKeeps DEF Holding, Running
<1>6. CASE Load(w)
  <2> DEFINE r == [worker[w] EXCEPT !.pc = "lock", !.started = task[worker[w].t].started, !.start = task[worker[w].t].start]
  <2>1. Becomes(w, r) \/ Becomes(w, Resting) \/ Becomes(w, [Resting EXCEPT !.pc = "idle"])
    BY Zenon, <1>6 DEF Load, Nack, Strands
  <2>2. "pc" \in DOMAIN r /\ r.pc = "lock"
    BY Zenon DEF LockInv, Shape
  <2> HIDE DEF r
  <2> QED
    BY ZenonT(60), <1>1, <2>1, <2>2, BecomesKeeps, IdleKeeps, RestsKeeps DEF Holding, Running
<1> QED
  BY Zenon, <1>2, <1>3, <1>4, <1>5, <1>6

\* After the run, up to Unlock's first half, or without the lock.
LEMMA LateSteps ==
  ASSUME NEW w \in Workers, LockInv,
         PutBack(w) \/ HandleError(w) \/ ScheduleNext(w) \/ Ack(w) \/ Unlock(w) \/ Interrupted(w)
  PROVE  LockInv'
<1>1. redis' = redis
  BY Zenon DEF PutBack, HandleError, ScheduleNext, Ack, Unlock, Interrupted, lockVars
<1>2. CASE PutBack(w)
  <2> DEFINE pc == IF worker[w].pc = "halt" THEN "unlock" ELSE "idle"
  <2>1. Becomes(w, [Resting EXCEPT !.pc = pc])
    BY Zenon, <1>2 DEF PutBack, Nack, Strands
  <2>2. pc \in Holding => worker[w].pc \in Holding
    BY Zenon DEF Holding, Running
  <2> HIDE DEF pc
  <2> QED
    BY Zenon, <1>1, <2>1, <2>2, RestsKeeps
<1>3. CASE HandleError(w)
  <2>1. /\ worker[w].pc \in Holding
        /\ Goes(w, "ack") \/ Becomes(w, [Resting EXCEPT !.pc = "unlock"])
    BY Zenon, <1>3 DEF HandleError, Nack, Strands, Holding
  <2> QED
    BY Zenon, <1>1, <2>1, GoesKeeps, RestsKeeps
<1>4. CASE ScheduleNext(w)
  BY Zenon, <1>1, <1>4, GoesKeeps DEF ScheduleNext, Holding
<1>5. CASE Ack(w)
  BY Zenon, <1>1, <1>5, RestsKeeps DEF Ack, Holding
<1>6. CASE Unlock(w)
  BY Zenon, <1>1, <1>6, GoesKeeps DEF Unlock, Holding
<1>7. CASE Interrupted(w)
  <2> DEFINE r == [worker[w] EXCEPT !.pc = "halt", !.queued = {}]
  <2>1. \/ Becomes(w, [Resting EXCEPT !.pc = "idle"])
        \/ worker[w].pc \in Holding /\ Becomes(w, r)
    BY Zenon, <1>7 DEF Interrupted, Nack, Holding
  <2>2. "pc" \in DOMAIN r
    BY Zenon DEF LockInv, Shape
  <2> HIDE DEF r
  <2> QED
    BY ZenonT(60), <1>1, <2>1, <2>2, BecomesKeeps, RestsKeeps DEF Holding, Running
<1> QED
  BY ZenonT(60), <1>2, <1>3, <1>4, <1>5, <1>6, <1>7

\* A worker that has the lock keeps it, whatever it becomes.
LEMMA HolderKeeps ==
  ASSUME NEW w \in Workers, NEW r, LockInv, Becomes(w, r), redis' = redis, "pc" \in DOMAIN r,
         worker[w].pc \in Holding
  PROVE  LockInv'
BY Zenon, BecomesKeeps

\* During the run.
LEMMA RunSteps ==
  ASSUME NEW w \in Workers, LockInv, Runs(w)
  PROVE  LockInv'
<1>1. redis' = redis /\ RunStep(w)
  BY Zenon DEF Runs, lockVars
<1>2. "pc" \in DOMAIN worker[w]
  BY Zenon DEF LockInv, Shape
<1>3. CASE Open(w)
  <2>1. worker[w].pc \in Holding
    BY Zenon, <1>3 DEF Open, Holding, Running
  <2>2. Goes(w, "snapshot") \/ \E a, b : Becomes(w, [worker[w] EXCEPT !.pc = "list", !.cp = a, !.last = b])
    BY <1>3, Zenon DEF Open
  <2>3. \A a, b : "pc" \in DOMAIN [worker[w] EXCEPT !.pc = "list", !.cp = a, !.last = b]
    BY Zenon, <1>2
  <2> QED
    BY ZenonT(60), <1>1, <2>1, <2>2, <2>3, GoesKeeps, HolderKeeps
<1>4. CASE List(w)
  <2> DEFINE r(i) == [worker[w] EXCEPT !.last = i, !.queued = @ \cup {i}]
             f == [worker[w] EXCEPT !.pc = "collect", !.error = "failed"]
  <2>1. worker[w].pc \in Holding
    BY Zenon, <1>4 DEF List, Holding, Running
  <2>2. Ends(w, StopError(w)) \/ (\E i : Becomes(w, r(i))) \/ Goes(w, "collect") \/ Becomes(w, f)
    BY <1>4, Zenon DEF List
  <2>3. "pc" \in DOMAIN f /\ \A i : "pc" \in DOMAIN r(i)
    BY ZenonT(60), <1>2
  <2> HIDE DEF r, f
  <2> QED
    BY Zenon, <1>1, <2>1, <2>2, <2>3, GoesKeeps, HolderKeeps, EndsKeeps
<1>5. CASE Restart(w)
  <2>1. worker[w].pc \in Holding
    BY Zenon, <1>5 DEF Restart, Holding, Running
  <2>2. Ends(w, "failed") \/ \E a : Becomes(w, [worker[w] EXCEPT !.cp = a, !.last = 0])
    BY <1>5, Zenon DEF Restart
  <2>3. \A a : "pc" \in DOMAIN [worker[w] EXCEPT !.cp = a, !.last = 0]
    BY Zenon, <1>2
  <2> QED
    BY ZenonT(60), <1>1, <2>1, <2>2, <2>3, HolderKeeps, EndsKeeps
<1>6. CASE Job(w)
  <2> DEFINE r(i) == [worker[w] EXCEPT !.queued = @ \ {i}, !.ok = @ \cup {i}]
             f(i, e) == [worker[w] EXCEPT !.queued = @ \ {i}, !.bad = @ \cup {i}, !.error = e]
  <2>1. PICK i \in worker[w].queued : Becomes(w, r(i)) \/ \E e : Becomes(w, f(i, e))
    BY <1>6, Zenon DEF Job
  <2>2. "pc" \in DOMAIN r(i) /\ r(i).pc = worker[w].pc
    BY Zenon, <1>2
  <2>3. \A e : "pc" \in DOMAIN f(i, e) /\ f(i, e).pc = worker[w].pc
    BY Zenon, <1>2
  <2> HIDE DEF r, f
  <2> QED
    BY Zenon, <1>1, <2>1, <2>2, <2>3, BecomesKeeps
<1>7. CASE Collect(w)
  <2>1. worker[w].pc \in Holding
    BY Zenon, <1>7 DEF Collect, Holding, Running
  <2>2. \/ Goes(w, "complete") \/ \E e : Ends(w, e)
        \/ \E a : Becomes(w, [worker[w] EXCEPT !.cp = a])
    BY <1>7, Zenon DEF Collect, Commits
  <2>3. \A a : "pc" \in DOMAIN [worker[w] EXCEPT !.cp = a]
    BY Zenon, <1>2
  <2> QED
    BY ZenonT(60), <1>1, <2>1, <2>2, <2>3, GoesKeeps, HolderKeeps, EndsKeeps
<1>8. CASE Snapshot(w)
  <2> DEFINE r == [worker[w] EXCEPT !.pc = "purge", !.retain = source]
  <2>1. worker[w].pc \in Holding
    BY Zenon, <1>8 DEF Snapshot, Holding, Running
  <2>2. Ends(w, StopError(w)) \/ Becomes(w, r)
    BY Zenon, <1>8 DEF Snapshot
  <2>3. "pc" \in DOMAIN r
    BY Zenon, <1>2
  <2> HIDE DEF r
  <2> QED
    BY Zenon, <1>1, <2>1, <2>2, <2>3, HolderKeeps, EndsKeeps
<1>9. CASE Purge(w)
  <2>1. worker[w].pc \in Holding
    BY Zenon, <1>9 DEF Purge, Holding, Running
  <2>2. Goes(w, "complete") \/ \E e : Ends(w, e)
    BY <1>9, Zenon DEF Purge
  <2> QED
    BY Zenon, <1>1, <2>1, <2>2, GoesKeeps, EndsKeeps
<1>10. CASE Finish(w)
  <2>1. worker[w].pc \in Holding
    BY ZenonT(60), <1>10 DEF Finish, Holding, Running
  <2>2. \/ Goes(w, "uncheck") \/ Ends(w, "failed")
        \/ \E n : Becomes(w, [worker[w] EXCEPT !.pc = "uncheck", !.next = n])
    BY <1>10, Zenon DEF Finish
  <2>3. \A n : "pc" \in DOMAIN [worker[w] EXCEPT !.pc = "uncheck", !.next = n]
    BY Zenon, <1>2
  <2> QED
    BY ZenonT(60), <1>1, <2>1, <2>2, <2>3, GoesKeeps, HolderKeeps, EndsKeeps
<1>11. CASE Uncheck(w)
  BY Zenon, <1>1, <1>11, GoesKeeps DEF Uncheck, Holding, Running
<1>12. CASE Breaks(w)
  BY Zenon, <1>1, <1>12, EndsKeeps DEF Breaks, Holding, Running
<1> QED
  BY Zenon, <1>1, <1>3, <1>4, <1>5, <1>6, <1>7, <1>8, <1>9, <1>10, <1>11, <1>12 DEF RunStep

-----------------------------------------------------------------------------
(* The steps that change the lock, with one worker in each process.        *)

Alone == \A v, w \in Workers : ProcOf[v] = ProcOf[w] => v = w

\* TryLock succeeds only if no worker of another process has the lock.
LEMMA LockStep ==
  ASSUME Alone, NEW w \in Workers, LockInv, Lock(w)
  PROVE  LockInv'
<1>1. CASE Goes(w, "back") /\ UNCHANGED lockVars
  BY Zenon, <1>1, GoesKeeps DEF lockVars, Holding, Running
<1>2. CASE CanLock(ProcOf[w]) /\ redis' = ProcOf[w] /\ Goes(w, "open")
  <2>1. /\ DOMAIN worker' = Workers /\ "pc" \in DOMAIN worker'[w]
        /\ \A v \in Workers \ {w} : worker'[v] = worker[v]
    BY Zenon, <1>2 DEF Goes, LockInv, Shape
  <2>2. Shape'
    BY Zenon, <2>1 DEF LockInv, Shape
  <2>3. ASSUME NEW v \in Workers \ {w}
        PROVE  worker[v].pc \notin Holding
    BY <1>2, SystemAssumption DEF CanLock, LockInv, HoldersLocked, Alone
  <2>4. HoldersLocked'
    BY Zenon, <1>2, <2>1, <2>3 DEF HoldersLocked
  <2> QED
    BY Zenon, <2>2, <2>4 DEF LockInv
<1> QED
  BY Zenon, <1>1, <1>2 DEF Lock

\* Release frees the lock of its own process only, and nobody else there has it.
LEMMA ReleaseStep ==
  ASSUME Alone, NEW w \in Workers, LockInv, Release(w)
  PROVE  LockInv'
<1>1. worker[w].pc = "release" /\ worker' = [worker EXCEPT ![w] = Resting]
  BY Zenon DEF Release, Becomes
<1>2. /\ DOMAIN worker' = Workers /\ worker'[w] = Resting
      /\ \A v \in Workers \ {w} : worker'[v] = worker[v]
  BY Zenon, <1>1 DEF LockInv, Shape
<1>3. "pc" \in DOMAIN Resting /\ Resting.pc \notin Holding
  BY Zenon DEF Resting, Holding, Running
<1>4. Shape'
  BY Zenon, <1>2, <1>3 DEF LockInv, Shape
<1>5. redis = ProcOf[w]
  BY Zenon, <1>1 DEF LockInv, HoldersLocked, Holding
<1>6. ASSUME NEW v \in Workers \ {w}
      PROVE  worker[v].pc \notin Holding
  BY Zenon, <1>5 DEF LockInv, HoldersLocked, Alone
<1>7. HoldersLocked'
  BY Zenon, <1>2, <1>3, <1>6 DEF HoldersLocked
<1> QED
  BY Zenon, <1>4, <1>7 DEF LockInv

\* A crash takes the workers and the lock of one process.
LEMMA CrashStep ==
  ASSUME NEW p \in Procs, LockInv, Crash(p)
  PROVE  LockInv'
<1>1. /\ worker' = [w \in Workers |-> IF w \in WorkersOf(p) THEN Resting ELSE worker[w]]
      /\ redis' = IF redis = p THEN "dead" ELSE redis
  BY Zenon DEF Crash
<1>2. "pc" \in DOMAIN Resting /\ Resting.pc \notin Holding
  BY Zenon DEF Resting, Holding, Running
<1>3. Shape'
  BY Zenon, <1>1, <1>2 DEF LockInv, Shape
<1>4. HoldersLocked'
  BY Zenon, <1>1, <1>2 DEF LockInv, HoldersLocked, WorkersOf
<1> QED
  BY Zenon, <1>3, <1>4 DEF LockInv

\* Every step of the system preserves the invariant.
LEMMA LockInductive ==
  ASSUME Alone, LockInv, [Next]_vars
  PROVE  LockInv'
<1>1. ASSUME NEW w \in Workers, WorkerStep(w)
      PROVE  LockInv'
  BY Zenon, <1>1, EarlySteps, LateSteps, RunSteps, LockStep, ReleaseStep DEF WorkerStep
<1>2. ASSUME NEW p \in Procs, ProcStep(p)
      PROVE  LockInv'
  <2>1. CASE Crash(p)
    BY ZenonT(60), <2>1, CrashStep
  <2>2. CASE ~ Crash(p)
    BY Zenon, <1>2, <2>2, StutterInv
    DEF ProcStep, TimerFires, Recover, ScanTable, Start, Stop, Exit, runnerVars, lockVars
  <2> QED
    BY Zenon, <2>1, <2>2
<1>3. ASSUME NEW t \in TaskIds, Redeliver(t) \/ Drop(t)
      PROVE  LockInv'
  BY Zenon, <1>3, StutterInv DEF Redeliver, Drop, runnerVars, lockVars
<1>4. CASE LockExpires
  <2>1. worker' = worker /\ redis = "dead"
    BY Zenon, <1>4 DEF LockExpires, runnerVars
  <2>2. \A w \in Workers : worker[w].pc \notin Holding
    BY Zenon, <2>1, SystemAssumption DEF LockInv, HoldersLocked
  <2> QED
    BY Zenon, <2>1, <2>2 DEF LockInv, Shape, HoldersLocked
<1>5. CASE CallStep
  <2>1. UNCHANGED <<worker, redis>>
    BY ZenonT(60), <1>5 DEF CallStep, Cancel, Schedule, Resume, Rebuild, Publish, Abandon, otherVars, runnerVars, lockVars
  <2> QED
    BY ZenonT(60), <2>1, StutterInv
<1>6. CASE World
  BY Zenon, <1>6, StutterInv DEF World, SourceChanges, lockVars
<1>7. CASE UNCHANGED vars
  BY Zenon, <1>7, StutterInv DEF vars
<1> QED
  BY Zenon, <1>1, <1>2, <1>3, <1>4, <1>5, <1>6, <1>7 DEF Next

\* ConnectorLock keeps two workers of the connector apart in any number of processes,
\* through crashes, expiry, cancellation and startup scans, if no two of the workers are
\* in the same process.
THEOREM LockExcludes ==
  ASSUME Alone
  PROVE  Spec => []OneExecutor
<1>1. Init => LockInv
  BY DEF Init, LockInv, Shape, HoldersLocked, Resting, Holding, Running
<1>2. LockInv /\ [Next]_vars => LockInv'
  BY Zenon, LockInductive
<1>3. LockInv => OneExecutor
  BY Zenon DEF LockInv, HoldersLocked, OneExecutor, Executes, Holding, Alone
<1> QED
  BY <1>1, <1>2, <1>3, PTL DEF Spec

\* CompleteSyncTask, the checkpoints, the poll ranges and DeleteStale: whatever is retried,
\* resumed, canceled, pruned or rebuilt, in however many processes of one worker each, and
\* wherever they crash, a document that was in the source when the SYNC before a scheduled or
\* running one ended, and still is, has arrived in the dataset.
THEOREM NoneMissed ==
  ASSUME Alone
  PROVE  Spec => []NothingMissed
<1> DEFINE Inv == StateOK /\ LockInv /\ HeldInv /\ MissInv
<1>1. Init => Inv
  <2>1. Init => LockInv
    BY DEF Init, LockInv, Shape, HoldersLocked, Resting, Holding, Running
  <2> QED
    BY Zenon, <2>1, SyncInit, HeldInit, MissInit
<1>2. Inv /\ [Next]_vars => Inv'
  <2> SUFFICES ASSUME StateOK, LockInv, HeldInv, MissInv, [Next]_vars
               PROVE  StateOK' /\ LockInv' /\ HeldInv' /\ MissInv'
    BY Zenon
  <2>1. StateOK' /\ LockInv' /\ HeldInv'
    BY Zenon, SyncStep, LockInductive, HeldStep
  <2>2. OneExecutor /\ CanceledIsOver
    BY Zenon DEF LockInv, HoldersLocked, OneExecutor, Executes, Holding, Alone, HeldInv
  <2>3. ASSUME NEW w \in Workers, WorkerStep(w) PROVE MissInv'
    BY Zenon, <2>1, <2>2, <2>3, WorkersMiss
  <2>4. CASE \A w \in Workers : ~ WorkerStep(w)
    <3>1. Reminded
      BY Zenon, <2>4, OthersRemind
    <3> QED
      BY Zenon, <2>1, <2>4, <3>1, OthersMiss DEF Next
  <2> QED
    BY Zenon, <2>1, <2>3, <2>4
<1>3. Inv => NothingMissed
  <2> SUFFICES ASSUME MissInv, NEW t \in With(task, "sync", "schedule") \cup With(task, "sync", "running"), NEW i \in source,
                      i <= task[t].start
               PROVE  i \in kb
    BY Zenon DEF NothingMissed
  <2>1. t \in TaskIds /\ Alive(task[t])
    BY Zenon DEF With, Alive
  <2> QED
    BY Zenon, <2>1 DEF MissInv, RowOK, Arrived
<1> QED
  BY <1>1, <1>2, <1>3, PTL DEF Spec
=============================================================================
