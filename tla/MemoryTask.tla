----------------------------- MODULE MemoryTask -----------------------------
(***************************************************************************)
(* The memory_task row of one message, and the progress of its generic     *)
(* task, which is what the user sees.  Every operator is one statement or  *)
(* transaction of the DAO.  A lease owner is unique to a delivery; since a *)
(* claim counts an attempt, the number of the attempt stands for it.       *)
(***************************************************************************)
EXTENDS Integers

CONSTANT MaxAttempts  \* memoryTaskMaxAttempts

ASSUME AttemptsAssumption == MaxAttempts \in Nat \ {0}

VARIABLES row,       \* the durable state
          progress   \* the projection: 0, 15, 50 or 100 percent, -1 failed

None  == 0   \* no extraction yet
Empty == -1  \* an extraction without memories

ActiveStates == {"pending", "extracted", "stored"}

RowTypeOK ==
  /\ row \in [state : ActiveStates \cup {"absent", "completed", "failed"}, owner : Nat,
              lease : {"none", "live", "expired"}, due : BOOLEAN, attempts : Nat, extraction : Nat \cup {Empty}]
  /\ row.owner \in {0, row.attempts} /\ (row.owner = 0 <=> row.lease = "none")
  /\ progress \in {-1, 0, 15, 50, 100}

NoRow == [state |-> "absent", owner |-> 0, lease |-> "none", due |-> TRUE, attempts |-> 0, extraction |-> None]

\* CreateWithTask inserts both rows.
CreateWithTask ==
  /\ row.state = "absent"
  /\ row' = [row EXCEPT !.state = "pending"]
  /\ progress' = 0

Claimable == row.state \in ActiveStates /\ row.due /\ row.lease # "live"

\* Claim, when it acquires.
Claim ==
  /\ Claimable
  /\ row' = [row EXCEPT !.attempts = @ + 1, !.owner = row.attempts + 1, !.lease = "live"]
  /\ UNCHANGED progress

Leased(owner) == row.owner = owner /\ row.lease = "live"

\* Mutant of Unleased: the owner is left in the row.
KeepsOwner(state, due) == [row EXCEPT !.state = state, !.due = due, !.lease = "none"]

\* Released together with the new state.
Unleased(state, due) == [row EXCEPT !.state = state, !.due = due, !.owner = 0, !.lease = "none"]

PersistExtraction(owner, x) ==
  /\ row.state = "pending" /\ Leased(owner)
  /\ row' = [row EXCEPT !.state = "extracted", !.extraction = x]
  /\ UNCHANGED progress

MarkStored(owner) ==
  /\ row.state = "extracted" /\ Leased(owner)
  /\ row' = [row EXCEPT !.state = "stored"]
  /\ UNCHANGED progress

ScheduleRetry(owner) ==
  /\ row.state \in ActiveStates /\ Leased(owner)
  /\ row' = Unleased(row.state, FALSE)
  /\ UNCHANGED progress

MarkFailed(owner) ==
  /\ row.state \in ActiveStates /\ Leased(owner)
  /\ row' = Unleased("failed", TRUE)
  /\ progress' = -1

Unclaimed == row.state = "pending" /\ row.owner = 0 /\ row.lease = "none"

\* Mutant of MarkUnclaimedFailed: the lease is not looked at.
MarkPendingFailed ==
  /\ row.state = "pending"
  /\ row' = Unleased("failed", TRUE)
  /\ progress' = -1

\* MarkUnclaimedFailed, by whoever created the task.
MarkUnclaimedFailed ==
  /\ Unclaimed
  /\ row' = Unleased("failed", TRUE)
  /\ progress' = -1

Complete(owner) ==
  /\ row.state = "stored" /\ Leased(owner)
  /\ row' = Unleased("completed", TRUE)
  /\ progress' = 100

\* MarkActiveMemoryTaskFailed, for a task without durable state.
MarkActiveMemoryTaskFailed ==
  /\ progress' = IF progress \in 0 .. 99 THEN -1 ELSE progress
  /\ UNCHANGED row

\* The retry time has come.
FallDue ==
  /\ ~ row.due
  /\ row' = [row EXCEPT !.due = TRUE]
  /\ UNCHANGED progress

\* The lease was not renewed in time.
LeaseRunsOut ==
  /\ row.lease = "live"
  /\ row' = [row EXCEPT !.lease = "expired"]
  /\ UNCHANGED progress
=============================================================================
