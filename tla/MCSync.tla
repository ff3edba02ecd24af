------------------------------- MODULE MCSync -------------------------------
(***************************************************************************)
(* Instances of connector sync for TLC.                                    *)
(***************************************************************************)
EXTENDS SyncSystem, TLC

CONSTANTS w1, w2, w3, p1, p2

\* One worker in each process, or two in the first.
OneEach == w1 :> p1 @@ w2 :> p2
TwoAndOne == w1 :> p1 @@ w2 :> p1 @@ w3 :> p2

Budgets == "transient" :> 3 @@ "non_transient" :> 1

Of(deployed, requested, faulty, prunes, counts, removed) ==
  [procs |-> deployed, requests |-> requested, asked |-> counts.asked, faults |-> faulty,
   hits |-> counts.hits, prune |-> prunes, claims |-> counts.claims, docs |-> counts.docs, removals |-> removed]
Counts(asks, hit, runs, created) == [asked |-> asks, hits |-> hit, claims |-> runs, docs |-> created]

\* Every kind of fault, in two processes, and in one with retries.
Failures == Of(Procs, {}, FaultKinds, FALSE, Counts(0, 1, 2, 2), FALSE)
Retried == Of({p1}, {}, FaultKinds, FALSE, Counts(0, 1, 3, 2), FALSE)

\* The document at the checkpoint is removed.
Anchors == Of({p1}, {}, {"source"}, FALSE, Counts(0, 2, 3, 2), TRUE)

\* A process starts while statements and publishes fail.
Boots == Of({p1}, {}, {"crash", "db", "publish", "source"}, FALSE, Counts(0, 2, 2, 2), FALSE)

\* The tasks are scheduled again while a process crashes.
Rescheduled == Of({p1}, {"schedule"}, {"crash"}, FALSE, Counts(1, 1, 2, 1), FALSE)

\* SYNC and PRUNE are scheduled again, and the other process takes them.
TakenOver == Of(Procs, {"schedule"}, {}, TRUE, Counts(1, 0, 2, 1), FALSE)

\* Requests of every kind during a run.
Asked == Of(Procs, {"cancel", "schedule", "rebuild"}, {"publish"}, FALSE, Counts(1, 1, 2, 2), FALSE)

\* SYNC and PRUNE side by side, while documents come and go.
Pruned == Of(Procs, {}, {"source"}, TRUE, Counts(0, 1, 2, 2), TRUE)

\* SYNC and PRUNE are cancelled.
Stops == Of({p1}, {"cancel"}, {}, TRUE, Counts(1, 0, 2, 1), FALSE)

\* A SYNC fails, since a document is gone, and is resumed or scheduled again.
Resumed == Of({p1}, {"resume", "schedule"}, {}, FALSE, Counts(2, 0, 2, 2), TRUE)

AllScenarios == {Failures, Retried, Anchors, Boots, Rescheduled, TakenOver, Asked, Pruned, Stops, Resumed}

\* No requests, no faults.
Undisturbed == {Of({p1}, {}, {}, TRUE, Counts(0, 0, 3, 1), FALSE), Of(Procs, {}, {}, TRUE, Counts(0, 0, 3, 1), FALSE)}

\* The tasks are scheduled again while the workers are busy.
Contended == {Of(Procs, {"schedule"}, {}, FALSE, Counts(1, 0, 3, 1), FALSE)}
=============================================================================
