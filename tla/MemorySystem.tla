---------------------------- MODULE MemorySystem ----------------------------
(***************************************************************************)
(* Saving one message to memory: the request that creates the task, the    *)
(* wake-ups in the task queue, the ingestor workers that claim the task    *)
(* and advance it from checkpoint to checkpoint, and the reconciler that   *)
(* publishes a wake-up for whatever is due.                                *)
(***************************************************************************)
EXTENDS MemoryTask, FiniteSets

CONSTANTS Workers,
          FaultKinds,  \* subset of {"db", "settle", "drop", "lease", "crash"}
          MaxFaults,   \* bound: faults
          MaxWakeups   \* bound: wake-ups in the queue at a time

ASSUME BoundsAssumption == MaxFaults \in Nat /\ MaxWakeups \in Nat \ {0}
ASSUME WorkersAssumption == IsFiniteSet(Workers)

VARIABLES caller,     \* where the request is
          ready,      \* wake-ups waiting for a worker
          unsettled,  \* wake-ups delivered, not acked, and with no worker any more
          worker,
          index,      \* extractions in the memory's index
          faults,
          lost        \* some worker's lease ran out while it went on; no action reads this

vars == <<row, progress, caller, ready, unsettled, worker, index, faults, lost>>

Resting == [pc |-> "idle", attempt |-> 0, extraction |-> None, permanent |-> FALSE]

Running == {"prepare", "extract", "report", "store", "mark", "complete"}

TypeOK ==
  /\ RowTypeOK
  /\ caller \in {"insert", "raw", "refuse", "publish", "done"}
  /\ ready \in 0 .. MaxWakeups
  /\ unsettled \in 0 .. MaxWakeups
  /\ worker \in [Workers ->
       [pc : Running \cup {"idle", "claim", "fail", "ack"}, attempt : Nat, extraction : Nat \cup {Empty}, permanent : BOOLEAN]]
  /\ index \subseteq Nat
  /\ faults \in 0 .. MaxFaults
  /\ lost \in BOOLEAN

\* A new message, or a task left from a server without durable state.
Init ==
  /\ row = NoRow
  /\ \/ caller = "insert" /\ ready = 0 /\ progress = 0
     \/ caller = "done" /\ ready = 1 /\ progress \in {0, 15, 50, 100}
  /\ unsettled = 0
  /\ worker = [w \in Workers |-> Resting]
  /\ index = {}
  /\ faults = 0 /\ lost = FALSE

Fault(kind) ==
  /\ kind \in FaultKinds
  /\ faults < MaxFaults
  /\ faults' = faults + 1

NoFault == UNCHANGED faults

-----------------------------------------------------------------------------
(* The request: queueSaveToMemoryTask.                                     *)

Inserts ==
  /\ caller = "insert"
  /\ CreateWithTask
  /\ caller' = "raw"
  /\ UNCHANGED <<ready, unsettled, worker, index, faults, lost>>

\* embedAndSave of the raw message succeeds or fails.
SavesRaw ==
  /\ caller = "raw"
  /\ caller' \in {"refuse", "publish"}
  /\ UNCHANGED <<row, progress, ready, unsettled, worker, index, faults, lost>>

\* It failed; the task may have been claimed, due to the reconciler.
Refuses ==
  /\ caller = "refuse"
  /\ \/ MarkUnclaimedFailed /\ NoFault
     \/ ~ Unclaimed /\ UNCHANGED <<row, progress>> /\ NoFault
     \/ Fault("db") /\ UNCHANGED <<row, progress>>
  /\ caller' = "done"
  /\ UNCHANGED <<ready, unsettled, worker, index, lost>>

Room == ready + unsettled + Cardinality({w \in Workers : worker[w].pc # "idle"}) < MaxWakeups

\* publishMemoryTaskWakeup; an error is only logged.
Publishes ==
  /\ caller = "publish"
  /\ \/ Room /\ ready' = ready + 1 /\ NoFault
     \/ ~ Room /\ UNCHANGED ready /\ NoFault
     \/ Fault("drop") /\ UNCHANGED ready
  /\ caller' = "done"
  /\ UNCHANGED <<row, progress, unsettled, worker, index, lost>>

CallerDies ==
  /\ caller \notin {"insert", "done"}
  /\ Fault("crash")
  /\ caller' = "done"
  /\ UNCHANGED <<row, progress, ready, unsettled, worker, index, lost>>

\* Mutant of Reconcile: expired leases are not listed.
ReconcileUnleased ==
  /\ Claimable /\ row.lease = "none"
  /\ Room
  /\ ready' = ready + 1
  /\ UNCHANGED <<row, progress, caller, unsettled, worker, index, faults, lost>>

\* ReconcileMemoryTasks: ListDue, then a wake-up.
Reconcile ==
  /\ Claimable
  /\ Room
  /\ ready' = ready + 1
  /\ UNCHANGED <<row, progress, caller, unsettled, worker, index, faults, lost>>

-----------------------------------------------------------------------------
(* A worker: executeMemoryTaskWithHeartbeat.                               *)

Moves(w, pc) == worker' = [worker EXCEPT ![w].pc = pc]
Rests(w) == worker' = [worker EXCEPT ![w] = Resting]

Pull(w) ==
  /\ worker[w].pc = "idle" /\ ready > 0
  /\ ready' = ready - 1
  /\ Moves(w, "claim")
  /\ UNCHANGED <<row, progress, caller, unsettled, index, faults, lost>>

\* The delivery is left unsettled, without a nack.
Leaves(w) == Rests(w) /\ unsettled' = unsettled + 1

Resume(state) ==
  CASE state = "pending" -> "prepare"
    [] state = "extracted" -> "store"
    [] state = "stored" -> "complete"

\* HandleSaveToMemoryTask
ClaimTask(w) ==
  /\ worker[w].pc = "claim"
  /\ \/ /\ Claim /\ NoFault
        /\ worker' = [worker EXCEPT ![w] = [pc |-> Resume(row.state), attempt |-> row'.attempts,
             extraction |-> row.extraction, permanent |-> FALSE]]
        /\ UNCHANGED unsettled
     \/ /\ row.state \in {"completed", "failed"}
        /\ Moves(w, "ack") /\ NoFault /\ UNCHANGED <<row, progress, unsettled>>
     \/ /\ row.state \in ActiveStates /\ ~ Claimable
        /\ Leaves(w) /\ NoFault /\ UNCHANGED <<row, progress>>
     \/ /\ row.state = "absent"
        /\ MarkActiveMemoryTaskFailed
        /\ Moves(w, "ack") /\ NoFault /\ UNCHANGED unsettled
     \/ Fault("db") /\ Leaves(w) /\ UNCHANGED <<row, progress>>
  /\ UNCHANGED <<caller, ready, index, lost>>

\* extractByLLM reports before it calls the model; the write is not fenced.  A
\* memory without types to extract calls no model.
Prepare(w) ==
  /\ worker[w].pc = "prepare"
  /\ progress' \in {15, progress}
  /\ Moves(w, "extract")
  /\ UNCHANGED <<row, caller, ready, unsettled, index, faults, lost>>

\* Mutant of Extract: the worker goes on with its own extraction when the
\* checkpoint was refused.
ExtractUnchecked(w) ==
  /\ worker[w].pc = "extract"
  /\ \E x \in {worker[w].attempt, Empty} :
       /\ \/ PersistExtraction(worker[w].attempt, x)
          \/ ~ Leased(worker[w].attempt) /\ UNCHANGED <<row, progress>>
       /\ worker' = [worker EXCEPT ![w].pc = "report", ![w].extraction = x]
  /\ UNCHANGED <<caller, ready, unsettled, index, faults, lost>>

\* The model answers, perhaps with nothing; the answer is checkpointed.
Extract(w) ==
  /\ worker[w].pc = "extract"
  /\ \E x \in {worker[w].attempt, Empty} :
       /\ PersistExtraction(worker[w].attempt, x)
       /\ worker' = [worker EXCEPT ![w].pc = "report", ![w].extraction = x]
  /\ UNCHANGED <<caller, ready, unsettled, index, faults, lost>>

Report(w) ==
  /\ worker[w].pc = "report"
  /\ progress' = 50
  /\ Moves(w, "store")
  /\ UNCHANGED <<row, caller, ready, unsettled, index, faults, lost>>

\* storeMemoryTaskExtraction: ids come from the checkpoint, and nothing is fenced.
Store(w) ==
  /\ worker[w].pc = "store"
  /\ index' = index \cup ({worker[w].extraction} \ {Empty})
  /\ Moves(w, "mark")
  /\ UNCHANGED <<row, progress, caller, ready, unsettled, faults, lost>>

Mark(w) ==
  /\ worker[w].pc = "mark"
  /\ MarkStored(worker[w].attempt)
  /\ Moves(w, "complete")
  /\ UNCHANGED <<caller, ready, unsettled, index, faults, lost>>

Finish(w) ==
  /\ worker[w].pc = "complete"
  /\ Complete(worker[w].attempt)
  /\ Moves(w, "ack")
  /\ UNCHANGED <<caller, ready, unsettled, index, faults, lost>>

\* Any stage fails or panics, or a fenced statement finds the lease lost, or the
\* renewal noticed it and cancelled the run.
Fails(w) ==
  /\ worker[w].pc \in Running \ {"report"}
  /\ \E permanent \in (IF worker[w].pc \in {"prepare", "extract", "store"} THEN BOOLEAN ELSE {FALSE}) :
       worker' = [worker EXCEPT ![w].pc = "fail", ![w].permanent = permanent]
  /\ UNCHANGED <<row, progress, caller, ready, unsettled, index, faults, lost>>

\* Mutant of LastAttempt: one more.
PastAttempts(w) == worker[w].permanent \/ worker[w].attempt > MaxAttempts

LastAttempt(w) == worker[w].permanent \/ worker[w].attempt >= MaxAttempts

\* persistMemoryTaskFailure: only what is durable may be acked.
PersistFailure(w) ==
  LET owner == worker[w].attempt IN
  /\ worker[w].pc = "fail"
  /\ \/ /\ IF LastAttempt(w) THEN MarkFailed(owner) ELSE ScheduleRetry(owner)
        /\ Moves(w, "ack") /\ NoFault /\ UNCHANGED unsettled
     \/ /\ row.state \notin ActiveStates \/ ~ Leased(owner)
        /\ Leaves(w) /\ NoFault /\ UNCHANGED <<row, progress>>
     \/ Fault("db") /\ Leaves(w) /\ UNCHANGED <<row, progress>>
  /\ UNCHANGED <<caller, ready, index, lost>>

\* The ack arrives, or it does not and the broker delivers again.
Settle(w) ==
  /\ worker[w].pc = "ack"
  /\ \/ Rests(w) /\ NoFault /\ UNCHANGED unsettled
     \/ Leaves(w) /\ Fault("settle")
  /\ UNCHANGED <<row, progress, caller, ready, index, lost>>

WorkerDies(w) ==
  /\ worker[w].pc # "idle"
  /\ Fault("crash")
  /\ Leaves(w)
  /\ UNCHANGED <<row, progress, caller, ready, index, lost>>

WorkerStep(w) ==
  \/ Pull(w) \/ ClaimTask(w) \/ Prepare(w) \/ Extract(w) \/ Report(w) \/ Store(w) \/ Mark(w) \/ Finish(w)
  \/ Fails(w) \/ PersistFailure(w) \/ Settle(w)

-----------------------------------------------------------------------------
(* Time.                                                                   *)

\* The ack deadline passes: another delivery, or the last one (MaxDeliver).
Redeliver ==
  /\ unsettled > 0
  /\ unsettled' = unsettled - 1
  /\ \/ ready' = ready + 1 /\ NoFault
     \/ UNCHANGED ready /\ Fault("drop")
  /\ UNCHANGED <<row, progress, caller, worker, index, lost>>

RetryDue ==
  /\ FallDue
  /\ UNCHANGED <<caller, ready, unsettled, worker, index, faults, lost>>

Renews(w) == worker[w].pc \in Running \cup {"fail"} /\ Leased(worker[w].attempt)

\* Nobody renews the lease any more, or renewals were held up for too long.
LeaseExpires ==
  /\ LeaseRunsOut
  /\ \/ (\A w \in Workers : ~ Renews(w)) /\ NoFault
     \/ (\E w \in Workers : Renews(w)) /\ Fault("lease")
  /\ lost' = (lost \/ \E w \in Workers : Renews(w))
  /\ UNCHANGED <<caller, ready, unsettled, worker, index>>

Next ==
  \/ Inserts \/ SavesRaw \/ Refuses \/ Publishes \/ CallerDies \/ Reconcile
  \/ \E w \in Workers : WorkerStep(w) \/ WorkerDies(w)
  \/ Redeliver \/ RetryDue \/ LeaseExpires

Spec == Init /\ [][Next]_vars

\* Workers go on, the reconciler polls, the broker and the clocks run.  Nothing
\* is asked of the request, which may end at any place.
FairSpec ==
  /\ Spec
  /\ \A w \in Workers : WF_vars(WorkerStep(w))
  /\ WF_vars(Reconcile) /\ WF_vars(Redeliver) /\ WF_vars(RetryDue) /\ WF_vars(LeaseExpires /\ NoFault)

-----------------------------------------------------------------------------
Job == INSTANCE MemoryJob WITH phase <- row.state, checkpoint <- row.extraction, index <- index

\* The durable task implements the memory job, however many deliveries, workers
\* with lost leases and retries there are: one extraction is checkpointed, only
\* that one is ever inserted, and Complete finds all of it in the index.
JobSpec == Job!Spec

\* "memoryTaskMaxAttempts": persistMemoryTaskFailure ends a task that keeps failing.
\* Only a crash, a lost lease or a failed write costs an attempt more.
AttemptsBounded == row.attempts <= MaxAttempts + faults

\* As long as no lease is lost to a worker that goes on, updateTaskProgress does not
\* overwrite what Complete, MarkFailed and MarkUnclaimedFailed showed the user.
ProjectionAgrees ==
  ~ lost /\ row.state # "absent" =>
    /\ row.state = "completed" <=> progress = 100
    /\ row.state = "failed" <=> progress = -1

\* HandleSaveToMemoryTask and ReconcileMemoryTasks: a task in the table ends, and
\* every wake-up is settled.
JobEnds ==
  <>[](row.state \notin ActiveStates /\ ready = 0 /\ unsettled = 0 /\ \A w \in Workers : worker[w].pc = "idle")
=============================================================================
