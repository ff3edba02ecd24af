----------------------------- MODULE SyncRunner -----------------------------
(***************************************************************************)
(* How a worker that holds the connector lock executes a SYNC or a PRUNE   *)
(* task.  Document i is the i-th one created in the source; a batch has    *)
(* one document.  Batches are listed in order, processed by the shared job *)
(* executor in any order, and collected in order again.                    *)
(***************************************************************************)
EXTENDS SyncTable

CONSTANTS Workers,
          Procs,        \* syncer processes
          MaxClock,     \* bound: documents ever created
          MaxRestarts,  \* MaxAnchorRestartCount
          Scenarios,    \* what may happen together
          MaxFaults     \* bound: faults

Docs == 1 .. MaxClock
FaultKinds == {"source", "db", "lock", "publish", "drop", "crash", "shutdown"}
Requests == {"cancel", "schedule", "rebuild", "resume"}

\* Which processes are deployed, which requests and faults there are, how many of each, and
\* of claims and documents; prune is the connector's sync_deleted_files.
Scenario == [procs : SUBSET Procs, requests : SUBSET Requests, asked : Nat, faults : SUBSET FaultKinds,
             hits : 0 .. MaxFaults, prune : BOOLEAN, claims : 0 .. MaxClaims, docs : Docs, removals : BOOLEAN]

ASSUME RunnerAssumption ==
  MaxClock \in Nat \ {0} /\ MaxRestarts \in Nat /\ MaxFaults \in Nat /\ Scenarios \subseteq Scenario

VARIABLES scenario, \* never changes
          worker,
          clock,    \* documents created so far
          source,   \* the ones that were not removed
          kb,       \* documents of the connector in the dataset
          ckpt,     \* checkpoints of running tasks
          faults

tableVars == <<task, conn, claims, lastEnd>>
worldVars == <<clock, source, scenario>>

NoCheckpoint == [start |-> 0, end |-> 0, mark |-> 0, restarts |-> 0]

Checkpoints == [start : 0 .. clock, end : 0 .. clock, mark : 0 .. clock, restarts : 0 .. MaxRestarts]

Resting ==
  [pc |-> "idle", t |-> 0, type |-> "sync", started |-> 0, start |-> 0, cp |-> NoCheckpoint, last |-> 0,
   queued |-> {}, ok |-> {}, bad |-> {}, retain |-> {}, error |-> "none", next |-> 0]

Running == {"open", "list", "collect", "complete", "uncheck", "snapshot", "purge"}
Places == Running \cup {"idle", "claim", "status", "mark", "load", "lock", "back", "halt", "failed", "next", "ack", "unlock", "release"}

RunnerTypeOK ==
  /\ worker \in [Workers ->
       [pc : Places, t : TaskIds \cup {0}, type : Types, started : 0 .. MaxClaims, start : 0 .. clock,
        cp : Checkpoints, last : 0 .. clock, queued : SUBSET Docs, ok : SUBSET Docs, bad : SUBSET Docs, retain : SUBSET Docs,
        error : {"none", "failed", "canceled"}, next : TaskIds \cup {0}]]
  /\ scenario \in Scenarios
  /\ clock \in Docs /\ source \subseteq 1 .. clock /\ kb \subseteq 1 .. clock
  /\ ckpt \in [TaskIds -> Checkpoints]
  /\ faults \in 0 .. MaxFaults

Fault(kind) ==
  /\ kind \in scenario.faults
  /\ faults < scenario.hits
  /\ faults' = faults + 1

NoFault == UNCHANGED faults

Becomes(w, r) == worker' = [worker EXCEPT ![w] = r]
Goes(w, pc) == worker' = [worker EXCEPT ![w].pc = pc]
Status(w) == task[worker[w].t].status

\* The run ends with an error; what the executor has not started is dropped.
Ends(w, error) ==
  Becomes(w, [worker[w] EXCEPT !.pc = IF error = "canceled" THEN "ack" ELSE "failed", !.queued = {}])

\* checkTaskCanceled, when it reports an error: a row that is gone is one, too.
Stopped(w) == Status(w) \in {"cancel", "deleted"}
StopError(w) == IF Status(w) = "cancel" THEN "canceled" ELSE "failed"

\* Mutant of Open: the window ends a little after now.
OpenAhead(w) ==
  LET t == worker[w].t
      old == ckpt[t]
      new == IF old.end # 0 THEN old ELSE [NoCheckpoint EXCEPT !.start = worker[w].start, !.end = clock + 1]
  IN
  /\ worker[w].pc = "open"
  /\ IF worker[w].type = "sync"
     THEN /\ ckpt' = [ckpt EXCEPT ![t] = new]
          /\ Becomes(w, [worker[w] EXCEPT !.pc = "list", !.cp = new, !.last = new.mark])
     ELSE Goes(w, "snapshot") /\ UNCHANGED ckpt
  /\ UNCHANGED <<kb, faults, tableVars, worldVars>>

\* prepareCheckpoint, or OpenPrune.
Open(w) ==
  LET t == worker[w].t
      old == ckpt[t]
      new == IF old.end # 0 THEN old ELSE [NoCheckpoint EXCEPT !.start = worker[w].start, !.end = clock]
  IN
  /\ worker[w].pc = "open"
  /\ IF worker[w].type = "sync"
     THEN /\ ckpt' = [ckpt EXCEPT ![t] = new]
          /\ Becomes(w, [worker[w] EXCEPT !.pc = "list", !.cp = new, !.last = new.mark])
     ELSE Goes(w, "snapshot") /\ UNCHANGED ckpt
  /\ UNCHANGED <<kb, faults, tableVars, worldVars>>

\* The one that comes first, if there is any: batches are delivered, and their results
\* collected, in the order of the source.
Earliest(docs) == {i \in docs : \A j \in docs : i <= j}

\* What the session has not delivered yet.
Unlisted(w) ==
  {i \in source : i > worker[w].last /\ i > worker[w].cp.start /\ i <= worker[w].cp.end}

\* The loop of Run: check for cancellation, take the next batch, submit it.
List(w) ==
  /\ worker[w].pc = "list"
  /\ \/ Stopped(w) /\ Ends(w, StopError(w)) /\ NoFault
     \/ /\ ~ Stopped(w) /\ NoFault
        /\ \E i \in Earliest(Unlisted(w)) : Becomes(w, [worker[w] EXCEPT !.last = i, !.queued = @ \cup {i}])
     \/ ~ Stopped(w) /\ Unlisted(w) = {} /\ Goes(w, "collect") /\ NoFault
     \/ ~ Stopped(w) /\ Fault("source") /\ Becomes(w, [worker[w] EXCEPT !.pc = "collect", !.error = "failed"])
  /\ UNCHANGED <<kb, ckpt, tableVars, worldVars>>

\* ErrSyncResumeInvalid: the document at the checkpoint is gone from the source.
Restart(w) ==
  LET cp == worker[w].cp
      new == [cp EXCEPT !.mark = 0, !.restarts = @ + 1]
  IN
  /\ worker[w].pc = "list" /\ worker[w].last = cp.mark
  /\ cp.mark \notin source \cup {0}
  /\ IF cp.restarts < MaxRestarts
     THEN /\ ckpt' = [ckpt EXCEPT ![worker[w].t] = new]
          /\ Becomes(w, [worker[w] EXCEPT !.cp = new, !.last = 0])
     ELSE Ends(w, "failed") /\ UNCHANGED ckpt
  /\ UNCHANGED <<kb, faults, tableVars, worldVars>>

\* A job of the executor: processDocuments.  Of two errors, the one of the earlier
\* batch counts.
Job(w) ==
  \E i \in worker[w].queued :
    /\ \/ /\ kb' = kb \cup {i} /\ NoFault
          /\ Becomes(w, [worker[w] EXCEPT !.queued = @ \ {i}, !.ok = @ \cup {i}])
       \/ /\ \/ Stopped(w) /\ NoFault
             \/ ~ Stopped(w) /\ i \notin source /\ NoFault
             \/ ~ Stopped(w) /\ i \in source /\ Fault("source")
          /\ \E error \in {IF Stopped(w) THEN StopError(w) ELSE "failed"} \cup ({worker[w].error} \ {"none"}) :
               Becomes(w, [worker[w] EXCEPT !.queued = @ \ {i}, !.bad = @ \cup {i}, !.error = error])
          /\ UNCHANGED kb
    /\ UNCHANGED <<ckpt, tableVars, worldVars>>

Uncollected(w) ==
  {i \in worker[w].queued \cup worker[w].ok \cup worker[w].bad : i > worker[w].cp.mark}

\* SaveSyncCheckpoint after a batch.
Commits(w, i) ==
  LET new == [worker[w].cp EXCEPT !.mark = i] IN
  /\ ckpt' = [ckpt EXCEPT ![worker[w].t] = new]
  /\ Becomes(w, [worker[w] EXCEPT !.cp = new])

\* Mutant of Collect: a failed batch does not stop the commits after it.
CollectAny(w) ==
  /\ worker[w].pc = "collect"
  /\ \/ \E i \in Earliest(Uncollected(w) \cap worker[w].ok) : Commits(w, i)
     \/ /\ Uncollected(w) \cap worker[w].ok = {} /\ worker[w].queued = {}
        /\ IF worker[w].error # "none" THEN Ends(w, worker[w].error)
           ELSE IF Stopped(w) THEN Ends(w, StopError(w))
           ELSE Goes(w, "complete")
        /\ UNCHANGED ckpt
  /\ UNCHANGED <<kb, faults, tableVars, worldVars>>

\* collectResults: batches are committed up to the first that failed; then all
\* results are waited for.
Collect(w) ==
  /\ worker[w].pc = "collect"
  /\ \/ \E i \in Earliest(Uncollected(w)) \cap worker[w].ok : Commits(w, i)
     \/ /\ Earliest(Uncollected(w)) \subseteq worker[w].bad /\ worker[w].queued = {}
        /\ IF worker[w].error # "none" THEN Ends(w, worker[w].error)
           ELSE IF Stopped(w) THEN Ends(w, StopError(w))
           ELSE Goes(w, "complete")
        /\ UNCHANGED ckpt
  /\ UNCHANGED <<kb, faults, tableVars, worldVars>>

\* The full snapshot of a PRUNE.
Snapshot(w) ==
  /\ worker[w].pc = "snapshot"
  /\ \/ Stopped(w) /\ Ends(w, StopError(w))
     \/ ~ Stopped(w) /\ Becomes(w, [worker[w] EXCEPT !.pc = "purge", !.retain = source])
  /\ UNCHANGED <<kb, ckpt, faults, tableVars, worldVars>>

\* DeleteStale, document by document; an error may end it half way.
Purge(w) ==
  /\ worker[w].pc = "purge"
  /\ \/ Stopped(w) /\ Ends(w, StopError(w)) /\ NoFault /\ UNCHANGED kb
     \/ ~ Stopped(w) /\ kb' = kb \cap worker[w].retain /\ Goes(w, "complete") /\ NoFault
     \/ /\ ~ Stopped(w) /\ Fault("source")
        /\ \E gone \in SUBSET (kb \ worker[w].retain) : kb' = kb \ gone
        /\ Ends(w, "failed")
  /\ UNCHANGED <<ckpt, tableVars, worldVars>>

\* CompleteSync and CompletePrune: nothing happens to a task that is not running.
Finish(w) ==
  LET Follow == With(task', worker[w].type, "schedule") IN
  /\ worker[w].pc = "complete"
  /\ \/ /\ Complete(worker[w].t, worker[w].cp.end) /\ NoFault
        /\ \E next \in (IF Follow = {} THEN {0} ELSE Follow) :
             Becomes(w, [worker[w] EXCEPT !.pc = "uncheck", !.next = next])
     \/ Status(w) # "running" /\ Goes(w, "uncheck") /\ NoFault /\ UNCHANGED tableVars
     \/ Fault("db") /\ Ends(w, "failed") /\ UNCHANGED tableVars
  /\ UNCHANGED <<kb, ckpt, worldVars>>

\* DeleteSyncCheckpoint; an error is only logged.
Uncheck(w) ==
  /\ worker[w].pc = "uncheck"
  /\ \/ ckpt' = [ckpt EXCEPT ![worker[w].t] = NoCheckpoint] /\ NoFault
     \/ worker[w].type = "sync" /\ Fault("db") /\ UNCHANGED ckpt
  /\ Goes(w, "next")
  /\ UNCHANGED <<kb, tableVars, worldVars>>

\* The connector cannot be opened, the deadline passes, or a store fails.
Breaks(w) ==
  /\ worker[w].pc \in {"open", "list", "collect", "snapshot"}
  /\ Fault("source")
  /\ Ends(w, "failed")
  /\ UNCHANGED <<kb, ckpt, tableVars, worldVars>>

RunStep(w) ==
  \/ Open(w) \/ List(w) \/ Restart(w) \/ Job(w) \/ Collect(w) \/ Snapshot(w) \/ Purge(w)
  \/ Finish(w) \/ Uncheck(w) \/ Breaks(w)

\* The world: somebody adds a document to the source, or removes one.
SourceChanges ==
  /\ \/ clock < scenario.docs /\ clock' = clock + 1 /\ source' = source \cup {clock + 1}
     \/ scenario.removals /\ UNCHANGED clock /\ \E i \in source : source' = source \ {i}
  /\ UNCHANGED <<scenario, worker, kb, ckpt, faults, tableVars>>
=============================================================================
