----------------------------- MODULE SyncSystem -----------------------------
(***************************************************************************)
(* Syncer processes that share the task table, the wake-ups in JetStream   *)
(* and the Redis lock of the connector, and the requests that schedule,    *)
(* cancel, resume and rebuild.  Frequencies are positive.                  *)
(***************************************************************************)
EXTENDS SyncRunner

CONSTANTS ProcOf,       \* the process of a worker
          MaxRequests,  \* bound: requests
          MaxWakeups    \* bound: wake-ups of a task in one place

ASSUME SystemAssumption ==
  /\ ProcOf \in [Workers -> Procs] /\ MaxRequests \in Nat /\ MaxWakeups \in Nat \ {0}
  /\ "free" \notin Procs /\ "dead" \notin Procs

VARIABLES ready,      \* wake-ups waiting for delivery
          unsettled,  \* wake-ups delivered to a worker that died
          published,  \* tasks whose id was used as a message id
          proc,       \* "down", "recover", "list" (the startup scan) or "up"
          stopping,   \* processes told to stop
          timers,     \* tasks with a timer
          local,      \* processes whose lock table has the connector
          redis,      \* who holds the distributed lock; "dead" after a crash
          call,       \* the request in progress
          requests,
          stranded    \* tasks whose claim broke half way; no action reads this

vars == <<scenario, task, conn, claims, lastEnd, worker, clock, source, kb, ckpt, faults, ready, unsettled, published,
          proc, stopping, timers, local, redis, call, requests, stranded>>
runnerVars == <<worker, kb, ckpt, faults>>
queueVars == <<ready, unsettled, published>>
procVars == <<proc, stopping>>
lockVars == <<local, redis>>
callVars == <<call, requests>>

NoCall == [pc |-> "none", again |-> FALSE, ids |-> {}, docs |-> {}, wakeup |-> FALSE]

TypeOK ==
  /\ TableTypeOK /\ RunnerTypeOK
  /\ ready \in [TaskIds -> 0 .. MaxWakeups] /\ unsettled \in [TaskIds -> 0 .. MaxWakeups]
  /\ published \subseteq TaskIds
  /\ proc \in [Procs -> {"down", "recover", "list", "up"}] /\ stopping \subseteq Procs
  /\ timers \in [Procs -> SUBSET TaskIds]
  /\ local \subseteq Procs /\ redis \in Procs \cup {"free", "dead"}
  /\ call \in [pc : {"none", "conn", "schedule", "rebuild", "uncheck", "publish"}, again : BOOLEAN,
               ids : SUBSET TaskIds, docs : SUBSET Docs, wakeup : BOOLEAN]
  /\ requests \in 0 .. MaxRequests /\ stranded \subseteq TaskIds

\* A connector was just linked to the dataset, and its tasks were published.
Init ==
  /\ scenario \in Scenarios
  /\ task = [t \in TaskIds |-> CASE t = 1 -> [NoTask EXCEPT !.status = "schedule"]
                                 [] t = 2 /\ scenario.prune -> [NoTask EXCEPT !.status = "schedule", !.type = "prune"]
                                 [] OTHER -> NoTask]
  /\ conn = "schedule" /\ claims = 0 /\ lastEnd = 0
  /\ worker = [w \in Workers |-> Resting]
  /\ clock = 1 /\ source = {1} /\ kb = {} /\ ckpt = [t \in TaskIds |-> NoCheckpoint] /\ faults = 0
  /\ ready = [t \in TaskIds |-> IF task[t].status = "schedule" THEN 1 ELSE 0]
  /\ unsettled = [t \in TaskIds |-> 0] /\ published = {t \in TaskIds : task[t].status = "schedule"}
  /\ proc = [p \in Procs |-> IF p \in scenario.procs THEN "up" ELSE "down"] /\ stopping = {}
  /\ timers = [p \in Procs |-> {}]
  /\ local = {} /\ redis = "free"
  /\ call = NoCall /\ requests = 0 /\ stranded = {}

Up(w) == proc[ProcOf[w]] # "down"

\* Another copy of a wake-up, up to the bound.
More(f, t) == IF f[t] < MaxWakeups THEN [f EXCEPT ![t] = @ + 1] ELSE f

\* PublishSyncerTaskWakeup
Wakeup(t) == ready' = More(ready, t) /\ UNCHANGED <<unsettled, published>>

\* PublishSyncerTask: within ten minutes JetStream drops a second message with the
\* same id.
PublishAll(ids) ==
  /\ \E sent \in SUBSET ids :
       /\ ids \ published \subseteq sent
       /\ ready' = [t \in TaskIds |-> IF t \in sent THEN More(ready, t)[t] ELSE ready[t]]
  /\ published' = published \cup ids
  /\ UNCHANGED unsettled

Arm(p, ids) == timers' = [timers EXCEPT ![p] = @ \cup ids]

-----------------------------------------------------------------------------
(* TaskWorker.handle.                                                      *)

\* The delivery goes through the channel to a worker, with its heartbeat.
Deliver(w) ==
  /\ Up(w) /\ ProcOf[w] \notin stopping /\ worker[w].pc = "idle"
  /\ \E t \in TaskIds :
       /\ ready[t] > 0
       /\ ready' = [ready EXCEPT ![t] = @ - 1]
       /\ Becomes(w, [Resting EXCEPT !.pc = "claim", !.t = t, !.type = task[t].type])
  /\ UNCHANGED <<kb, ckpt, faults, unsettled, published, tableVars, worldVars, procVars, timers, lockVars, callVars, stranded>>

Nack(w, pc) == Becomes(w, [Resting EXCEPT !.pc = pc]) /\ Wakeup(worker[w].t)

\* A statement fails, or its retries do, and the task stays as it is: running.
Strands(w, pc) == Fault("db") /\ Nack(w, pc) /\ stranded' = stranded \cup {worker[w].t} /\ UNCHANGED tableVars

Claim(w) ==
  LET t == worker[w].t IN
  /\ worker[w].pc = "claim"
  /\ \/ claims < scenario.claims /\ ClaimTask(t) /\ Goes(w, "mark") /\ NoFault /\ UNCHANGED queueVars
     \/ ~ Claimable(t) /\ Goes(w, "status") /\ NoFault /\ UNCHANGED <<queueVars, tableVars>>
     \/ Fault("db") /\ Nack(w, "idle") /\ UNCHANGED tableVars
  /\ UNCHANGED <<kb, ckpt, worldVars, procVars, timers, lockVars, callVars, stranded>>

\* Not claimed: a running task's wake-up goes back, a scheduled one gets a timer.
CheckStatus(w) ==
  LET t == worker[w].t IN
  /\ worker[w].pc = "status"
  /\ \/ task[t].status = "running" /\ Nack(w, "idle") /\ UNCHANGED timers
     \/ /\ task[t].status # "running"
        /\ Becomes(w, Resting) /\ UNCHANGED queueVars
        /\ IF task[t].status = "schedule" THEN Arm(ProcOf[w], {t}) ELSE UNCHANGED timers
  /\ UNCHANGED <<kb, ckpt, faults, tableVars, worldVars, procVars, lockVars, callVars, stranded>>

\* The rest of Claim, after its transaction.
MarkRunning(w) ==
  LET t == worker[w].t IN
  /\ worker[w].pc = "mark"
  /\ \/ /\ task[t].status # "deleted" /\ MarkConnectorRunning /\ Goes(w, "load")
        /\ NoFault /\ UNCHANGED <<queueVars, stranded>>
     \/ task[t].status = "deleted" /\ Nack(w, "idle") /\ NoFault /\ UNCHANGED <<tableVars, stranded>>
     \/ Strands(w, "idle")
  /\ UNCHANGED <<kb, ckpt, worldVars, procVars, timers, lockVars, callVars>>

\* GetTaskContext; a task whose rows cannot be read fails.
Load(w) ==
  LET t == worker[w].t IN
  /\ worker[w].pc = "load"
  /\ \/ /\ task[t].status # "deleted"
        /\ Becomes(w, [worker[w] EXCEPT !.pc = "lock", !.started = task[t].started, !.start = task[t].start])
        /\ NoFault /\ UNCHANGED <<queueVars, tableVars, stranded>>
     \/ /\ task[t].status = "deleted" /\ Becomes(w, Resting)
        /\ NoFault /\ UNCHANGED <<queueVars, tableVars, stranded>>
     \/ Fault("db") /\ FailTask(t) /\ Becomes(w, Resting) /\ UNCHANGED <<queueVars, stranded>>
     \/ Fault("db") /\ RescheduleClaimed(t, 0) /\ Nack(w, "idle") /\ UNCHANGED stranded
     \/ Strands(w, "idle")
  /\ UNCHANGED <<kb, ckpt, worldVars, procVars, timers, lockVars, callVars>>

CanLock(p) == p \notin local /\ redis \in {p, "free"}

\* Mutant of Lock: the process's own table is enough.
LockLocally(w) ==
  LET p == ProcOf[w] IN
  /\ worker[w].pc = "lock" /\ p \notin local
  /\ local' = local \cup {p} /\ redis' = p /\ Goes(w, "open")
  /\ UNCHANGED <<kb, ckpt, faults, queueVars, tableVars, worldVars, procVars, timers, callVars, stranded>>

\* TryLock: the process's own table, then Redis.
Lock(w) ==
  LET p == ProcOf[w] IN
  /\ worker[w].pc = "lock"
  /\ \/ CanLock(p) /\ local' = local \cup {p} /\ redis' = p /\ Goes(w, "open") /\ NoFault
     \/ ~ CanLock(p) /\ Goes(w, "back") /\ NoFault /\ UNCHANGED lockVars
     \/ Fault("lock") /\ Goes(w, "back") /\ UNCHANGED lockVars
  /\ UNCHANGED <<kb, ckpt, queueVars, tableVars, worldVars, procVars, timers, callVars, stranded>>

\* rescheduleClaimed, a retry in three seconds, and the ack: without the lock, or
\* with it when the process stops.
PutBack(w) ==
  LET t == worker[w].t
      back == Claimed(t, worker[w].started)
      pc == IF worker[w].pc = "halt" THEN "unlock" ELSE "idle"
  IN
  /\ worker[w].pc \in {"back", "halt"}
  /\ \/ /\ RescheduleClaimed(t, worker[w].started)
        /\ IF back THEN Arm(ProcOf[w], {t}) ELSE UNCHANGED timers
        /\ Becomes(w, [Resting EXCEPT !.pc = pc]) /\ NoFault /\ UNCHANGED <<queueVars, stranded>>
     \/ Strands(w, pc) /\ UNCHANGED timers
  /\ UNCHANGED <<kb, ckpt, worldVars, procVars, lockVars, callVars>>

\* HandleTransientFailure with the error's class, and a retry.
HandleError(w) ==
  LET t == worker[w].t IN
  /\ worker[w].pc = "failed" /\ ProcOf[w] \notin stopping
  /\ \/ \E class \in Classes :
          /\ HandleTransientFailure(t, class)
          /\ IF task[t].status = "running" /\ task'[t].status = "fail" THEN UNCHANGED timers ELSE Arm(ProcOf[w], {t})
          /\ Goes(w, "ack") /\ NoFault /\ UNCHANGED <<queueVars, stranded>>
     \/ /\ Fault("db") /\ RescheduleClaimed(t, worker[w].started)
        /\ Nack(w, "unlock") /\ UNCHANGED <<timers, stranded>>
     \/ Strands(w, "unlock") /\ UNCHANGED timers
  /\ UNCHANGED <<kb, ckpt, worldVars, procVars, lockVars, callVars>>

\* The rows ListScheduledTasks and GetScheduledTask can see.
Listed(t) == conn = "schedule" /\ task[t].status = "schedule"

\* scheduleNext: a task that is due is published, another one gets a timer.
ScheduleNext(w) ==
  LET t == worker[w].next
      found == t # 0 /\ Listed(t) /\ ProcOf[w] \notin stopping
  IN
  /\ worker[w].pc = "next"
  /\ \/ /\ found /\ NoFault
        /\ \/ Arm(ProcOf[w], {t}) /\ UNCHANGED queueVars
           \/ PublishAll({t}) /\ UNCHANGED timers
     \/ ~ found /\ NoFault /\ UNCHANGED <<timers, queueVars>>
     \/ t # 0 /\ (Fault("db") \/ Fault("publish")) /\ UNCHANGED <<timers, queueVars>>
  /\ Goes(w, "ack")
  /\ UNCHANGED <<kb, ckpt, tableVars, worldVars, procVars, lockVars, callVars, stranded>>

Ack(w) ==
  /\ worker[w].pc = "ack"
  /\ Becomes(w, [Resting EXCEPT !.pc = "unlock"])
  /\ UNCHANGED <<kb, ckpt, faults, tableVars, worldVars, queueVars, procVars, timers, lockVars, callVars, stranded>>

\* Unlock: the process's own table first.
Unlock(w) ==
  /\ worker[w].pc = "unlock"
  /\ local' = local \ {ProcOf[w]} /\ Goes(w, "release")
  /\ UNCHANGED <<kb, ckpt, faults, tableVars, worldVars, queueVars, procVars, timers, redis, callVars, stranded>>

\* Release deletes the lock of the process, whichever worker took it.
Release(w) ==
  /\ worker[w].pc = "release"
  /\ redis' = IF redis = ProcOf[w] THEN "free" ELSE redis
  /\ Becomes(w, Resting)
  /\ UNCHANGED <<kb, ckpt, faults, tableVars, worldVars, queueVars, procVars, timers, local, callVars, stranded>>

\* The context of a process that stops is cancelled.
Interrupted(w) ==
  LET t == worker[w].t IN
  /\ ProcOf[w] \in stopping
  /\ \/ worker[w].pc \in {"claim", "status", "mark"} /\ Nack(w, "idle") /\ UNCHANGED tableVars
     \/ worker[w].pc = "load" /\ RescheduleClaimed(t, 0) /\ Nack(w, "idle")
     \/ /\ worker[w].pc \in (Running \ {"uncheck"}) \cup {"failed"}
        /\ Becomes(w, [worker[w] EXCEPT !.pc = "halt", !.queued = {}])
        /\ UNCHANGED <<tableVars, queueVars>>
  /\ UNCHANGED <<kb, ckpt, faults, worldVars, procVars, timers, lockVars, callVars, stranded>>

Runs(w) == RunStep(w) /\ UNCHANGED <<queueVars, procVars, timers, lockVars, callVars, stranded>>

WorkerStep(w) ==
  \/ Deliver(w) \/ Claim(w) \/ CheckStatus(w) \/ MarkRunning(w) \/ Load(w) \/ Lock(w) \/ PutBack(w) \/ Runs(w)
  \/ HandleError(w) \/ ScheduleNext(w) \/ Ack(w) \/ Unlock(w) \/ Release(w) \/ Interrupted(w)

-----------------------------------------------------------------------------
(* The scheduler's timers and startup scan, and the life of a process.     *)

\* handleTimerWakeup: after a publish error the timer is armed again.
TimerFires(p) ==
  /\ proc[p] # "down" /\ p \notin stopping
  /\ \E t \in timers[p] :
       \/ Wakeup(t) /\ timers' = [timers EXCEPT ![p] = @ \ {t}] /\ NoFault
       \/ Fault("publish") /\ UNCHANGED <<timers, queueVars>>
  /\ UNCHANGED <<worker, kb, ckpt, tableVars, worldVars, procVars, lockVars, callVars, stranded>>

\* publishStartupTasks: the workers are at work already.
Recover(p) ==
  /\ proc[p] = "recover"
  /\ \/ /\ RecoverRunning /\ proc' = [proc EXCEPT ![p] = "list"]
        /\ NoFault /\ UNCHANGED stranded
     \/ /\ Fault("db") /\ proc' = [proc EXCEPT ![p] = "up"]
        /\ stranded' = stranded \cup {t \in TaskIds : task[t].status = "running"} /\ UNCHANGED tableVars
  /\ UNCHANGED <<worker, kb, ckpt, worldVars, queueVars, stopping, timers, lockVars, callVars>>

\* The rest of the scan ends with a publish error.
ScanTable(p) ==
  LET listed == {t \in TaskIds : Listed(t)} IN
  /\ proc[p] = "list"
  /\ \E due \in SUBSET listed :
       \/ PublishAll(due) /\ Arm(p, listed \ due) /\ NoFault
       \/ Fault("publish") /\ UNCHANGED <<queueVars, timers>>
  /\ proc' = [proc EXCEPT ![p] = "up"]
  /\ UNCHANGED <<worker, kb, ckpt, tableVars, worldVars, stopping, lockVars, callVars, stranded>>

Start(p) ==
  /\ p \in scenario.procs /\ proc[p] = "down" /\ proc' = [proc EXCEPT ![p] = "recover"]
  /\ UNCHANGED <<runnerVars, tableVars, worldVars, queueVars, stopping, timers, lockVars, callVars, stranded>>

\* Stop cancels the context.
Stop(p) ==
  /\ proc[p] = "up" /\ p \notin stopping /\ Fault("shutdown")
  /\ stopping' = stopping \cup {p}
  /\ UNCHANGED <<worker, kb, ckpt, tableVars, worldVars, queueVars, proc, timers, lockVars, callVars, stranded>>

WorkersOf(p) == {w \in Workers : ProcOf[w] = p}

\* The workers have returned, and stopTimers has run.
Exit(p) ==
  /\ p \in stopping /\ \A w \in WorkersOf(p) : worker[w].pc = "idle"
  /\ proc' = [proc EXCEPT ![p] = "down"] /\ stopping' = stopping \ {p}
  /\ timers' = [timers EXCEPT ![p] = {}]
  /\ UNCHANGED <<runnerVars, tableVars, worldVars, queueVars, lockVars, callVars, stranded>>

\* Wake-ups that were not acked come again; the Redis lock stays.
Crash(p) ==
  LET held == {worker[w].t : w \in WorkersOf(p)} \ {0} IN
  /\ proc[p] # "down" /\ Fault("crash")
  /\ proc' = [proc EXCEPT ![p] = "down"] /\ stopping' = stopping \ {p}
  /\ worker' = [w \in Workers |-> IF w \in WorkersOf(p) THEN Resting ELSE worker[w]]
  /\ unsettled' = [t \in TaskIds |-> IF t \in held THEN More(unsettled, t)[t] ELSE unsettled[t]]
  /\ timers' = [timers EXCEPT ![p] = {}]
  /\ local' = local \ {p} /\ redis' = IF redis = p THEN "dead" ELSE redis
  /\ UNCHANGED <<kb, ckpt, tableVars, worldVars, ready, published, callVars, stranded>>

\* AckWait
Redeliver(t) ==
  /\ unsettled[t] > 0
  /\ unsettled' = [unsettled EXCEPT ![t] = @ - 1] /\ ready' = More(ready, t)
  /\ UNCHANGED <<runnerVars, tableVars, worldVars, published, procVars, timers, lockVars, callVars, stranded>>

\* MaxDeliver
Drop(t) ==
  /\ ready[t] > 0 /\ Fault("drop")
  /\ ready' = [ready EXCEPT ![t] = @ - 1]
  /\ UNCHANGED <<worker, kb, ckpt, tableVars, worldVars, unsettled, published, procVars, timers, lockVars, callVars, stranded>>

\* connectorLockTTL; taskExecutionDeadline ends a run before its lock expires.
LockExpires ==
  /\ redis = "dead" /\ redis' = "free"
  /\ UNCHANGED <<runnerVars, tableVars, worldVars, queueVars, procVars, timers, local, callVars, stranded>>

-----------------------------------------------------------------------------
(* Requests, one at a time, as long as there is room for their rows.       *)

Begins(request) ==
  /\ request \in scenario.requests /\ requests < MaxRequests /\ requests < scenario.asked /\ call.pc = "none"
  /\ Cardinality(Unused(task)) >= 2
  /\ requests' = requests + 1

otherVars == <<runnerVars, worldVars, procVars, timers, lockVars, stranded>>

\* cancelConnectorTasks, by itself or before the tasks are scheduled again.
Cancel ==
  \/ /\ \/ Begins("cancel") /\ call' = [NoCall EXCEPT !.pc = "conn"]
        \/ Begins("schedule") /\ call' = [NoCall EXCEPT !.pc = "conn", !.again = TRUE]
     /\ CancelRunningOrScheduledLogs
     /\ UNCHANGED <<queueVars, otherVars>>
  \/ /\ call.pc = "conn"
     /\ conn' = "cancel" /\ UNCHANGED <<task, claims, lastEnd>>
     /\ call' = IF call.again THEN [NoCall EXCEPT !.pc = "schedule"] ELSE NoCall
     /\ UNCHANGED <<requests, queueVars, otherVars>>

\* ScheduleConnectorTasks; the ids it returns, one of each type, are published.
Schedule ==
  /\ \/ Begins("schedule")
     \/ call.pc = "schedule" /\ UNCHANGED requests
  /\ ScheduleConnectorTasks(scenario.prune)
  /\ \E ids \in SUBSET {t \in TaskIds : task'[t].status = "schedule"} :
       /\ \A type \in Types :
            LET found == With(task', type, "schedule") IN found # {} => Cardinality(ids \cap found) = 1
       /\ call' = [NoCall EXCEPT !.pc = "publish", !.ids = ids]
  /\ UNCHANGED <<queueVars, otherVars>>

\* ResumeFailedSync
Resume ==
  /\ Begins("resume")
  /\ \E t \in TaskIds :
       /\ ckpt[t].mark # 0
       /\ ResumeFailedSyncTask(t)
       /\ call' = [NoCall EXCEPT !.pc = "publish", !.ids = {t}, !.wakeup = TRUE]
  /\ UNCHANGED <<queueVars, otherVars>>

\* RebuildConnector: the documents to delete are listed before the transaction.
Rebuild ==
  \/ /\ Begins("rebuild")
     /\ call' = [NoCall EXCEPT !.pc = "rebuild", !.docs = kb]
     /\ UNCHANGED <<tableVars, queueVars, otherVars>>
  \/ /\ call.pc = "rebuild"
     /\ RebuildConnector(scenario.prune) /\ kb' = kb \ call.docs
     /\ call' = [NoCall EXCEPT !.pc = "uncheck", !.ids = {t \in TaskIds : task'[t].status = "schedule"}]
     /\ UNCHANGED <<worker, ckpt, faults, worldVars, procVars, timers, lockVars, stranded, requests, queueVars>>
  \/ /\ call.pc = "uncheck"
     /\ ckpt' = [t \in TaskIds |-> IF task[t].status = "deleted" THEN NoCheckpoint ELSE ckpt[t]]
     /\ call' = [call EXCEPT !.pc = "publish"]
     /\ UNCHANGED <<tableVars, worker, kb, faults, worldVars, procVars, timers, lockVars, stranded, requests, queueVars>>

\* publishSyncerTasks and publishSyncerTaskWakeup: errors are only reported.
Publish ==
  /\ call.pc = "publish"
  /\ \/ /\ IF call.wakeup THEN \A t \in call.ids : Wakeup(t) ELSE PublishAll(call.ids)
        /\ NoFault
     \/ Fault("publish") /\ UNCHANGED queueVars
  /\ call' = NoCall
  /\ UNCHANGED <<worker, kb, ckpt, tableVars, worldVars, procVars, timers, lockVars, stranded, requests>>

\* A statement of the request fails, or its server dies.
Abandon ==
  /\ call.pc # "none" /\ Fault("crash") /\ call' = NoCall
  /\ UNCHANGED <<worker, kb, ckpt, tableVars, worldVars, procVars, timers, lockVars, stranded, requests, queueVars>>

CallStep == Cancel \/ Schedule \/ Resume \/ Rebuild \/ Publish \/ Abandon

-----------------------------------------------------------------------------
ProcStep(p) == TimerFires(p) \/ Recover(p) \/ ScanTable(p) \/ Start(p) \/ Stop(p) \/ Exit(p) \/ Crash(p)

World == SourceChanges /\ UNCHANGED <<queueVars, procVars, timers, lockVars, callVars, stranded>>

Next ==
  \/ \E w \in Workers : WorkerStep(w)
  \/ \E p \in Procs : ProcStep(p)
  \/ \E t \in TaskIds : Redeliver(t) \/ Drop(t)
  \/ LockExpires
  \/ CallStep
  \/ World

Spec == Init /\ [][Next]_vars

-----------------------------------------------------------------------------
(* Properties.                                                             *)

Executes(w) == worker[w].pc \in Running \ {"uncheck"}

\* ConnectorLock: no two workers execute tasks of the connector at a time, in
\* whatever process they are, and although a starting process takes the tasks of
\* the others for abandoned.
OneExecutor == \A v, w \in Workers : Executes(v) /\ Executes(w) => v = w

\* CompleteSyncTask, collectResults and DeleteStale: a SYNC starts where the one
\* before it ended, so what was in the source by then, and still is, must have
\* arrived in the dataset, whatever was retried, resumed, pruned or rebuilt.
NothingMissed ==
  \A t \in With(task, "sync", "schedule") \cup With(task, "sync", "running") :
    \A i \in source : i <= task[t].start => i \in kb

\* RecoverRunning and the worker's error paths: a RUNNING task is in the hands of a
\* worker, or of a process that will reset it when it starts, unless a statement
\* failed that nobody repeats.
RunningIsHeld ==
  \A t \in With(task, "sync", "running") \cup With(task, "prune", "running") :
    \/ \E w \in Workers : worker[w].t = t /\ worker[w].pc \notin {"claim", "status", "ack"}
    \/ \E p \in scenario.procs : proc[p] \in {"down", "recover"} \/ p \in stopping
    \/ t \in stranded

Woken(t) ==
  \/ ready[t] + unsettled[t] > 0
  \/ \E p \in scenario.procs : t \in timers[p] \/ proc[p] # "up"
  \/ \E w \in Workers : t \in {worker[w].t, worker[w].next}
  \/ t \in call.ids

\* scheduleNext: a task that is scheduled has a wake-up, a timer, or somebody who will
\* see to it.
NextIsWoken == \A t \in TaskIds : task[t].status = "schedule" => Woken(t)
=============================================================================
