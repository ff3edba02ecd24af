-------------------------- MODULE MemoryStateProofs --------------------------
(***************************************************************************)
(* What the user sees of a memory task agrees with its row as long as no   *)
(* lease is lost to a worker that goes on, and all variables keep their    *)
(* types: the number of wake-ups stays within its bound.                   *)
(***************************************************************************)
EXTENDS MemoryProofs, FiniteSetTheorems

\* A step moves worker w to place p and leaves its attempt alone.
Places1(w, p) == Only(w) /\ worker'[w].pc = p /\ worker'[w].attempt = worker[w].attempt

\* PersistExtraction's worker: place and extraction change.
LEMMA ExtractSet ==
  ASSUME WorkerType, NEW w \in Workers, NEW x,
         worker' = [worker EXCEPT ![w].pc = "report", ![w].extraction = x]
  PROVE  Places1(w, "report")
<1> DEFINE y == [worker[w] EXCEPT !.pc = "report"]
           z == [y EXCEPT !.extraction = x]
<1>1. worker' = [worker EXCEPT ![w] = z]
  BY Zenon
<1>2. worker[w] \in WorkerRecord
  BY Zenon DEF WorkerType, WorkerRecord
<1>3. y \in WorkerRecord /\ y.pc = "report" /\ y.attempt = worker[w].attempt
  BY <1>2 DEF WorkerRecord, Places, Running
<1> HIDE DEF y
<1>4. z.pc = "report" /\ z.attempt = worker[w].attempt
  BY <1>3 DEF WorkerRecord
<1> HIDE DEF z
<1>5. worker'[w] = z /\ Only(w)
  BY Zenon, <1>1 DEF WorkerType, Only
<1> QED
  BY Zenon, <1>4, <1>5 DEF Places1

\* A stage that fails: place and verdict change.
LEMMA FailSet ==
  ASSUME WorkerType, NEW w \in Workers, NEW b,
         worker' = [worker EXCEPT ![w].pc = "fail", ![w].permanent = b]
  PROVE  Places1(w, "fail")
<1> DEFINE y == [worker[w] EXCEPT !.pc = "fail"]
           z == [y EXCEPT !.permanent = b]
<1>1. worker' = [worker EXCEPT ![w] = z]
  BY Zenon
<1>2. worker[w] \in WorkerRecord
  BY Zenon DEF WorkerType, WorkerRecord
<1>3. y \in WorkerRecord /\ y.pc = "fail" /\ y.attempt = worker[w].attempt
  BY <1>2 DEF WorkerRecord, Places, Running
<1> HIDE DEF y
<1>4. z.pc = "fail" /\ z.attempt = worker[w].attempt
  BY <1>3 DEF WorkerRecord
<1> HIDE DEF z
<1>5. worker'[w] = z /\ Only(w)
  BY Zenon, <1>1 DEF WorkerType, Only
<1> QED
  BY Zenon, <1>4, <1>5 DEF Places1

-----------------------------------------------------------------------------
(* The projection.                                                         *)

\* Whoever works on the task has its lease and is alone, and the task is active.
OneHolds ==
  \A w \in Workers : Working(w) =>
    /\ Leased(worker[w].attempt) /\ row.state \in ActiveStates
    /\ \A v \in Workers : Working(v) => v = w

\* Owner and lease of the row are set and cleared together.
OwnerAndLease == row.owner = 0 <=> row.lease = "none"

PInv == OwnerAndLease /\ ProjectionAgrees /\ (~ lost => OneHolds)

\* Nobody starts to work.
NoneStarts == \A v \in Workers : Working(v)' => Working(v) /\ worker'[v].attempt = worker[v].attempt

SameLease == row'.state = row.state /\ row'.owner = row.owner /\ row'.lease = row.lease

\* Steps that write neither the row nor progress.
LEMMA ProjectionQuiet ==
  ASSUME PInv, SameLease, NoneStarts, progress' = progress, lost' = lost
  PROVE  PInv'
<1>1. OwnerAndLease' /\ ProjectionAgrees'
  BY Zenon DEF PInv, SameLease, OwnerAndLease, ProjectionAgrees
<1>2. ASSUME OneHolds PROVE OneHolds'
  BY Zenon, <1>2 DEF OneHolds, SameLease, NoneStarts, Leased
<1> QED
  BY Zenon, <1>1, <1>2 DEF PInv

\* updateTaskProgress, by a worker: unless a lease was lost the task is active.
LEMMA ProjectionProgress ==
  ASSUME PInv, NEW w \in Workers, Working(w), row' = row, NoneStarts, progress' \in {15, 50, progress}, lost' = lost
  PROVE  PInv'
<1>1. OwnerAndLease'
  BY Zenon DEF PInv, OwnerAndLease
<1>2. ASSUME OneHolds PROVE OneHolds'
  BY Zenon, <1>2 DEF OneHolds, NoneStarts, Leased
<1>3. ProjectionAgrees'
  <2>1. CASE lost
    BY Zenon, <2>1 DEF ProjectionAgrees
  <2>2. CASE ~ lost
    <3>1. row.state \in ActiveStates
      BY Zenon, <2>2 DEF PInv, OneHolds
    <3> QED
      BY <2>2, <3>1 DEF PInv, ProjectionAgrees, ActiveStates
  <2> QED
    BY Zenon, <2>1, <2>2
<1> QED
  BY Zenon, <1>1, <1>2, <1>3 DEF PInv

\* Claim: nobody else is working, unless a lease was lost.
LEMMA ProjectionTake ==
  ASSUME MInv, PInv, NEW w \in Workers, TakeStep(w), progress' = progress, lost' = lost
  PROVE  PInv'
<1>1. /\ row'.state = row.state /\ row'.attempts = row.attempts + 1
      /\ row'.owner = row.attempts + 1 /\ row'.lease = "live"
  BY Zenon, ClaimRow DEF MInv, TakeStep
<1>2. row.state \in ActiveStates /\ row.lease # "live"
  BY Zenon DEF TakeStep, Claim, Claimable
<1>3. OwnerAndLease'
  BY <1>1 DEF OwnerAndLease, MInv, RowType
<1>4. ProjectionAgrees'
  BY Zenon, <1>1 DEF PInv, ProjectionAgrees
<1>5. ASSUME OneHolds PROVE OneHolds'
  <2>1. \A v \in Workers : ~ Working(v)
    BY Zenon, <1>2, <1>5 DEF OneHolds, Leased
  <2> DEFINE x == [pc |-> Resume(row.state), attempt |-> row'.attempts,
                   extraction |-> row.extraction, permanent |-> FALSE]
  <2>2. worker' = [worker EXCEPT ![w] = x] /\ x.attempt = row'.attempts
    BY Zenon DEF TakeStep
  <2> HIDE DEF x
  <2>3. worker'[w] = x /\ Only(w)
    BY Zenon, <2>2 DEF MInv, WorkerType, Only
  <2>4. \A v \in Workers : Working(v)' => v = w
    BY Zenon, <2>1, <2>3 DEF Only, Working
  <2>5. Leased(worker[w].attempt)'
    BY Zenon, <1>1, <2>2, <2>3 DEF Leased
  <2> QED
    BY ZenonT(60), <1>1, <1>2, <2>4, <2>5 DEF OneHolds
<1> QED
  BY Zenon, <1>3, <1>4, <1>5 DEF PInv

\* PersistExtraction and MarkStored: active before and after.
LEMMA ProjectionCheckpoint ==
  ASSUME PInv, NoneStarts, progress' = progress, lost' = lost,
         row.state \in ActiveStates, row'.state \in ActiveStates,
         row'.owner = row.owner, row'.lease = row.lease
  PROVE  PInv'
<1>1. OwnerAndLease' /\ ProjectionAgrees'
  BY Zenon DEF PInv, OwnerAndLease, ProjectionAgrees, ActiveStates
<1>2. ASSUME OneHolds PROVE OneHolds'
  BY Zenon, <1>2 DEF OneHolds, NoneStarts, Leased
<1> QED
  BY Zenon, <1>1, <1>2 DEF PInv

\* Complete, MarkFailed and ScheduleRetry: nobody but the holder was working.
LEMMA ProjectionRelease ==
  ASSUME MInv, PInv, NEW w \in Workers, Working(w), Moves(w, "ack"), lost' = lost,
         \E owner : Complete(owner) \/ MarkFailed(owner) \/ ScheduleRetry(owner)
  PROVE  PInv'
<1>1. /\ row'.owner = 0 /\ row'.lease = "none"
      /\ \/ row'.state = "completed" /\ progress' = 100
         \/ row'.state = "failed" /\ progress' = -1
         \/ row'.state = row.state /\ progress' = progress
  <2>1. PICK s \in States, d \in BOOLEAN :
          /\ row' = Unleased(s, d)
          /\ \/ s = "completed" /\ progress' = 100
             \/ s = "failed" /\ progress' = -1
             \/ s = row.state /\ progress' = progress
    BY Zenon DEF Complete, MarkFailed, ScheduleRetry, States, ActiveStates
  <2> QED
    BY Zenon, <2>1, UnleasedRow DEF MInv
<1>2. OwnerAndLease'
  BY Zenon, <1>1 DEF OwnerAndLease
<1>3. ProjectionAgrees'
  BY <1>1 DEF PInv, ProjectionAgrees
<1>4. ASSUME OneHolds PROVE OneHolds'
  <2>1. Only(w) /\ worker'[w].pc = "ack"
    BY Zenon, PlaceSet DEF MInv, Places
  <2>2. \A v \in Workers : ~ Working(v)'
    BY Zenon, <1>4, <2>1 DEF OneHolds, Only, Working, Running
  <2> QED
    BY Zenon, <2>2 DEF OneHolds
<1> QED
  BY Zenon, <1>2, <1>3, <1>4 DEF PInv

\* CreateWithTask: a new row, with progress 0, that nobody can have claimed.
LEMMA ProjectionCreate ==
  ASSUME MInv, PInv, CreateWithTask, worker' = worker, lost' = lost
  PROVE  PInv'
<1>1. /\ row.state = "absent" /\ row'.state = "pending" /\ progress' = 0
      /\ row'.owner = row.owner /\ row'.lease = row.lease
  BY Zenon, CreateRow DEF MInv, CreateWithTask
<1>2. OwnerAndLease'
  BY Zenon, <1>1 DEF PInv, OwnerAndLease
<1>3. ProjectionAgrees'
  BY <1>1 DEF ProjectionAgrees
<1>4. ASSUME OneHolds PROVE OneHolds'
  <2>1. \A v \in Workers : ~ Working(v)
    BY Zenon, <1>1, <1>4 DEF OneHolds, ActiveStates
  <2> QED
    BY Zenon, <2>1 DEF OneHolds, Working
<1> QED
  BY Zenon, <1>2, <1>3, <1>4 DEF PInv

\* MarkUnclaimedFailed: a row without owner is not worked on.
LEMMA ProjectionRefuse ==
  ASSUME MInv, PInv, MarkUnclaimedFailed, worker' = worker, lost' = lost
  PROVE  PInv'
<1>1. /\ row.lease = "none" /\ progress' = -1
      /\ row'.state = "failed" /\ row'.owner = 0 /\ row'.lease = "none"
  BY Zenon, UnleasedRow DEF MInv, MarkUnclaimedFailed, Unclaimed, States
<1>2. OwnerAndLease'
  BY Zenon, <1>1 DEF OwnerAndLease
<1>3. ProjectionAgrees'
  BY <1>1 DEF ProjectionAgrees
<1>4. ASSUME OneHolds PROVE OneHolds'
  <2>1. \A v \in Workers : ~ Working(v)
    BY Zenon, <1>1, <1>4 DEF OneHolds, Leased
  <2> QED
    BY Zenon, <2>1 DEF OneHolds, Working
<1> QED
  BY Zenon, <1>2, <1>3, <1>4 DEF PInv

\* MarkActiveMemoryTaskFailed is for tasks without a row.
LEMMA ProjectionAbsent ==
  ASSUME PInv, row' = row, row.state = "absent", NoneStarts, lost' = lost
  PROVE  PInv'
<1>1. OwnerAndLease' /\ ProjectionAgrees'
  BY Zenon DEF PInv, OwnerAndLease, ProjectionAgrees
<1>2. ASSUME OneHolds PROVE OneHolds'
  BY Zenon, <1>2 DEF OneHolds, NoneStarts, Leased
<1> QED
  BY Zenon, <1>1, <1>2 DEF PInv

\* A lease that runs out under a working worker is lost; otherwise nobody works.
LEMMA ProjectionExpires ==
  ASSUME MInv, PInv, LeaseExpires
  PROVE  PInv'
<1>1. /\ row.lease = "live" /\ worker' = worker /\ progress' = progress
      /\ lost' = (lost \/ \E w \in Workers : Renews(w))
  BY Zenon DEF LeaseExpires, LeaseRunsOut
<1>2. row'.state = row.state /\ row'.owner = row.owner /\ row'.lease = "expired"
  BY Zenon, TimeRow DEF MInv, LeaseExpires, SameJob
<1>3. OwnerAndLease'
  BY Zenon, <1>1, <1>2 DEF PInv, OwnerAndLease
<1>4. ProjectionAgrees'
  BY Zenon, <1>1, <1>2 DEF PInv, ProjectionAgrees
<1>5. ~ lost' => OneHolds'
  <2> SUFFICES ASSUME ~ lost' PROVE OneHolds'
    OBVIOUS
  <2>1. OneHolds /\ \A w \in Workers : ~ Renews(w)
    BY Zenon, <1>1 DEF PInv
  <2>2. \A w \in Workers : ~ Working(w)
    BY Zenon, <2>1 DEF OneHolds, Renews, Working
  <2> QED
    BY Zenon, <1>1, <2>2 DEF OneHolds, Working
<1> QED
  BY Zenon, <1>3, <1>4, <1>5 DEF PInv

\* Worker w moves to a place where it works only if it worked before.
LEMMA MoveStartsNone ==
  ASSUME NEW w \in Workers, NEW p, Places1(w, p), p \in Running \cup {"fail"} => Working(w)
  PROVE  NoneStarts
BY Zenon DEF Places1, NoneStarts, Only, Working

\* Worker w rests.
LEMMA RestStartsNone ==
  ASSUME WorkerType, NEW w \in Workers, Rests(w)
  PROVE  NoneStarts
<1>1. Only(w) /\ worker'[w].pc = "idle"
  BY Zenon, RestSet
<1> QED
  BY Zenon, <1>1 DEF NoneStarts, Only, Working, Running

\* PlaceSet in these words.
LEMMA MoveSet ==
  ASSUME WorkerType, NEW w \in Workers, NEW p \in Places, Moves(w, p)
  PROVE  Places1(w, p)
BY Zenon, PlaceSet DEF Places1

\* HandleSaveToMemoryTask.
LEMMA ProjectionClaims ==
  ASSUME MInv, PInv, NEW w \in Workers, ClaimTask(w)
  PROVE  PInv'
<1>1. WorkerType /\ worker[w].pc = "claim" /\ lost' = lost /\ index' = index
  BY Zenon DEF MInv, ClaimTask
<1>2. \/ TakeStep(w) /\ progress' = progress
      \/ Moves(w, "ack") /\ row' = row /\ (progress' = progress \/ row.state = "absent")
      \/ Rests(w) /\ row' = row /\ progress' = progress
  BY Zenon, <1>1 DEF ClaimTask, Claim, TakeStep, Leaves, NoFault, MarkActiveMemoryTaskFailed
<1>3. Moves(w, "ack") \/ Rests(w) => NoneStarts
  <2>1. "ack" \in Places /\ "ack" \notin Running \cup {"fail"}
    BY Zenon DEF Places, Running
  <2> QED
    BY Zenon, <1>1, <2>1, MoveSet, MoveStartsNone, RestStartsNone
<1>4. row' = row => SameLease
  BY Zenon DEF SameLease
<1> QED
  BY ZenonT(60), <1>1, <1>2, <1>3, <1>4, ProjectionTake, ProjectionQuiet, ProjectionAbsent

\* runClaimedMemoryTask and resumeMemoryTask.
LEMMA ProjectionWorks ==
  ASSUME MInv, PInv, NEW w \in Workers,
         \/ Pull(w) \/ Prepare(w) \/ Extract(w) \/ Report(w) \/ Store(w) \/ Mark(w) \/ Finish(w)
  PROVE  PInv'
<1>1. WorkerType /\ lost' = lost
  BY Zenon DEF MInv, Pull, Prepare, Extract, Report, Store, Mark, Finish
<1>2. CASE Pull(w) \/ Store(w)
  <2>1. PICK p \in {"claim", "mark"} :
          /\ Moves(w, p) /\ row' = row /\ progress' = progress
          /\ p = "mark" => worker[w].pc = "store"
    BY Zenon, <1>2 DEF Pull, Store
  <2>2. p \in Places /\ (p \in Running \cup {"fail"} => Working(w))
    BY Zenon, <2>1 DEF Places, Running, Working
  <2>3. NoneStarts
    BY Zenon, <1>1, <2>1, <2>2, MoveSet, MoveStartsNone
  <2> QED
    BY Zenon, <1>1, <2>1, <2>3, ProjectionQuiet DEF SameLease
<1>3. CASE Prepare(w) \/ Report(w)
  <2>1. PICK p \in {"extract", "store"} :
          /\ Moves(w, p) /\ row' = row /\ progress' \in {15, 50, progress}
          /\ worker[w].pc \in {"prepare", "report"}
    BY Zenon, <1>3 DEF Prepare, Report
  <2>2. p \in Places /\ Working(w)
    BY Zenon, <2>1 DEF Places, Running, Working
  <2>3. NoneStarts
    BY Zenon, <1>1, <2>1, <2>2, MoveSet, MoveStartsNone
  <2> QED
    BY Zenon, <1>1, <2>1, <2>2, <2>3, ProjectionProgress
<1>4. CASE Extract(w)
  <2>1. PICK x \in {worker[w].attempt, Empty} :
          /\ PersistExtraction(worker[w].attempt, x)
          /\ worker' = [worker EXCEPT ![w].pc = "report", ![w].extraction = x]
    BY Zenon, <1>4 DEF Extract
  <2>2. Working(w) /\ x \in Nat \cup {Empty}
    BY <1>1, <1>4 DEF Extract, Working, Running, WorkerType
  <2>3. /\ row.state = "pending" /\ row'.state = "extracted"
        /\ row'.owner = row.owner /\ row'.lease = row.lease /\ progress' = progress
    BY Zenon, <2>1, <2>2, PersistRow DEF MInv, PersistExtraction
  <2>4. NoneStarts
    BY Zenon, <1>1, <2>1, <2>2, ExtractSet, MoveStartsNone
  <2> QED
    BY Zenon, <1>1, <2>3, <2>4, ProjectionCheckpoint DEF ActiveStates
<1>5. CASE Mark(w)
  <2>1. Moves(w, "complete") /\ MarkStored(worker[w].attempt) /\ Working(w) /\ "complete" \in Places
    BY Zenon, <1>5 DEF Mark, Working, Running, Places
  <2>2. /\ row.state = "extracted" /\ row'.state = "stored"
        /\ row'.owner = row.owner /\ row'.lease = row.lease /\ progress' = progress
    BY Zenon, <2>1, StoredRow DEF MInv, MarkStored
  <2>3. NoneStarts
    BY Zenon, <1>1, <2>1, MoveSet, MoveStartsNone
  <2> QED
    BY Zenon, <1>1, <2>2, <2>3, ProjectionCheckpoint DEF ActiveStates
<1>6. CASE Finish(w)
  BY Zenon, <1>1, <1>6, ProjectionRelease DEF Finish, Working, Running
<1> QED
  BY Zenon, <1>2, <1>3, <1>4, <1>5, <1>6

\* persistMemoryTaskFailure, the settlement of the delivery, and a crash.
LEMMA ProjectionGivesUp ==
  ASSUME MInv, PInv, NEW w \in Workers, Fails(w) \/ PersistFailure(w) \/ Settle(w) \/ WorkerDies(w)
  PROVE  PInv'
<1>1. WorkerType /\ lost' = lost
  BY Zenon DEF MInv, Fails, PersistFailure, Settle, WorkerDies
<1>2. CASE Fails(w)
  <2>1. PICK b \in BOOLEAN : worker' = [worker EXCEPT ![w].pc = "fail", ![w].permanent = b]
    BY Zenon, <1>2 DEF Fails
  <2>2. Working(w) /\ row' = row /\ progress' = progress
    BY Zenon, <1>2 DEF Fails, Working
  <2>3. NoneStarts
    BY Zenon, <1>1, <2>1, <2>2, FailSet, MoveStartsNone
  <2> QED
    BY Zenon, <1>1, <2>2, <2>3, ProjectionQuiet DEF SameLease
<1>3. CASE PersistFailure(w) \/ Settle(w) \/ WorkerDies(w)
  <2>1. \/ /\ Working(w) /\ Moves(w, "ack")
           /\ \E owner : Complete(owner) \/ MarkFailed(owner) \/ ScheduleRetry(owner)
        \/ Rests(w) /\ row' = row /\ progress' = progress
    BY Zenon, <1>3 DEF PersistFailure, Settle, WorkerDies, Leaves, Working
  <2>2. Rests(w) => NoneStarts
    BY Zenon, <1>1, RestStartsNone
  <2> QED
    BY Zenon, <1>1, <2>1, <2>2, ProjectionRelease, ProjectionQuiet DEF SameLease
<1> QED
  BY Zenon, <1>2, <1>3

\* The request, the reconciler and time.
LEMMA ProjectionOutside ==
  ASSUME MInv, PInv,
         \/ Inserts \/ SavesRaw \/ Refuses \/ Publishes \/ CallerDies \/ Reconcile
         \/ Redeliver \/ RetryDue \/ LeaseExpires
  PROVE  PInv'
<1>1. CASE Inserts
  BY Zenon, <1>1, ProjectionCreate DEF Inserts
<1>2. CASE MarkUnclaimedFailed /\ Refuses
  BY Zenon, <1>2, ProjectionRefuse DEF Refuses
<1>3. CASE worker' = worker /\ lost' = lost /\ progress' = progress /\ SameLease
  <2>1. NoneStarts
    BY Zenon, <1>3 DEF NoneStarts, Working
  <2> QED
    BY Zenon, <1>3, <2>1, ProjectionQuiet
<1>4. CASE RetryDue
  <2>1. SameLease
    BY Zenon, <1>4, TimeRow DEF MInv, RetryDue, SameJob, SameLease
  <2> QED
    BY Zenon, <1>3, <1>4, <2>1 DEF RetryDue, FallDue
<1>5. CASE SavesRaw \/ Publishes \/ CallerDies \/ Reconcile \/ Redeliver \/ (Refuses /\ ~ MarkUnclaimedFailed)
  BY Zenon, <1>3, <1>5 DEF SavesRaw, Publishes, CallerDies, Reconcile, Redeliver, Refuses, SameLease
<1> QED
  BY Zenon, <1>1, <1>2, <1>4, <1>5, ProjectionExpires

\* The invariant behind the projection.
LEMMA PInvKept == (Init => PInv) /\ (MInv /\ PInv /\ [Next]_vars => PInv')
<1>1. Init => PInv
  <2> SUFFICES ASSUME Init PROVE PInv
    OBVIOUS
  <2>1. row = NoRow /\ worker = [w \in Workers |-> Resting]
    BY Zenon DEF Init
  <2>2. row.state = "absent" /\ row.owner = 0 /\ row.lease = "none"
    BY <2>1 DEF NoRow
  <2>3. \A w \in Workers : ~ Working(w)
    BY <2>1 DEF Resting, Working, Running
  <2> QED
    BY Zenon, <2>2, <2>3 DEF PInv, OwnerAndLease, ProjectionAgrees, OneHolds
<1>2. MInv /\ PInv /\ [Next]_vars => PInv'
  <2> SUFFICES ASSUME MInv, PInv, [Next]_vars PROVE PInv'
    OBVIOUS
  <2>1. CASE UNCHANGED vars
    <3>1. SameLease /\ NoneStarts /\ progress' = progress /\ lost' = lost
      BY Zenon, <2>1 DEF vars, SameLease, NoneStarts, Working
    <3> QED
      BY Zenon, <3>1, ProjectionQuiet
  <2>2. CASE \E w \in Workers : WorkerStep(w) \/ WorkerDies(w)
    BY Zenon, <2>2, ProjectionClaims, ProjectionWorks, ProjectionGivesUp DEF WorkerStep
  <2> QED
    BY Zenon, <2>1, <2>2, ProjectionOutside DEF Next
<1> QED
  BY Zenon, <1>1, <1>2

\* As long as no lease is lost to a worker that goes on (the renewal is held up),
\* updateTaskProgress does not overwrite the end of the task that Complete,
\* MarkFailed or MarkUnclaimedFailed showed the user.
THEOREM ProjectionHolds == Spec => []ProjectionAgrees
<1>1. PInv => ProjectionAgrees
  BY Zenon DEF PInv
<1> QED
  BY <1>1, PInvKept, MInvInit, StepRefines, PTL DEF Spec, Refines

-----------------------------------------------------------------------------
(* Types, and the bound on wake-ups.                                       *)

\* Every busy worker has one delivery.
BusyWorkers == {w \in Workers : worker[w].pc # "idle"}

Busy == Cardinality(BusyWorkers)

Wakeups == ready \in Nat /\ unsettled \in Nat /\ ready + unsettled + Busy <= MaxWakeups

\* What MInv and PInv leave open.
RestType ==
  /\ row.owner \in {0, row.attempts}
  /\ progress \in {-1, 0, 15, 50, 100}
  /\ caller \in {"insert", "raw", "refuse", "publish", "done"}
  /\ index \subseteq Nat
  /\ faults \in 0 .. MaxFaults
  /\ lost \in BOOLEAN

\* A worker that starts or ends a delivery changes the number of busy ones by one.
LEMMA BusyCount ==
  ASSUME NEW w \in Workers, Only(w)
  PROVE  /\ Busy \in Nat
         /\ worker[w].pc = "idle" /\ worker'[w].pc # "idle" => Busy' = Busy + 1
         /\ worker[w].pc # "idle" /\ worker'[w].pc = "idle" => Busy' = Busy - 1
         /\ (worker[w].pc = "idle") = (worker'[w].pc = "idle") => Busy' = Busy
<1>1. IsFiniteSet(BusyWorkers) /\ IsFiniteSet(BusyWorkers')
  BY WorkersAssumption, FS_Subset DEF BusyWorkers
<1>2. Busy \in Nat
  BY Zenon, <1>1, FS_CardinalityType DEF Busy
<1>3. ASSUME worker[w].pc = "idle", worker'[w].pc # "idle" PROVE Busy' = Busy + 1
  <2>1. BusyWorkers' = BusyWorkers \cup {w} /\ w \notin BusyWorkers
    BY <1>3 DEF BusyWorkers, Only
  <2> QED
    BY <1>1, <2>1, FS_AddElement DEF Busy
<1>4. ASSUME worker[w].pc # "idle", worker'[w].pc = "idle" PROVE Busy' = Busy - 1
  <2>1. BusyWorkers' = BusyWorkers \ {w} /\ w \in BusyWorkers
    BY <1>4 DEF BusyWorkers, Only
  <2> QED
    BY <1>1, <2>1, FS_RemoveElement DEF Busy
<1>5. ASSUME (worker[w].pc = "idle") = (worker'[w].pc = "idle") PROVE Busy' = Busy
  <2>1. BusyWorkers' = BusyWorkers
    BY <1>5 DEF BusyWorkers, Only
  <2> QED
    BY Zenon, <2>1 DEF Busy
<1> QED
  BY Zenon, <1>2, <1>3, <1>4, <1>5

\* The same workers are busy.
LEMMA BusySame ==
  ASSUME worker' = worker
  PROVE  Busy \in Nat /\ Busy' = Busy
<1>1. IsFiniteSet(BusyWorkers) /\ BusyWorkers' = BusyWorkers
  BY WorkersAssumption, FS_Subset DEF BusyWorkers
<1> QED
  BY Zenon, <1>1, FS_CardinalityType DEF Busy

\* A wake-up is published only if there is room for it (Publishes, Reconcile), and
\* redelivered only in place of another.
LEMMA WakeupsOutside ==
  ASSUME Wakeups,
         \/ Inserts \/ SavesRaw \/ Refuses \/ Publishes \/ CallerDies \/ Reconcile
         \/ Redeliver \/ RetryDue \/ LeaseExpires
  PROVE  Wakeups'
<1>1. worker' = worker
  BY Zenon DEF Inserts, SavesRaw, Refuses, Publishes, CallerDies, Reconcile, Redeliver, RetryDue, LeaseExpires
<1>2. Busy \in Nat /\ Busy' = Busy
  BY Zenon, <1>1, BusySame
<1>3. Room <=> ready + unsettled + Busy < MaxWakeups
  BY Zenon DEF Room, Busy, BusyWorkers
<1>4. \/ ready' = ready /\ unsettled' = unsettled
      \/ Room /\ ready' = ready + 1 /\ unsettled' = unsettled
      \/ unsettled > 0 /\ unsettled' = unsettled - 1 /\ ready' \in {ready, ready + 1}
  BY Zenon DEF Inserts, SavesRaw, Refuses, Publishes, CallerDies, Reconcile, Redeliver, RetryDue, LeaseExpires
<1> QED
  BY <1>2, <1>3, <1>4, BoundsAssumption DEF Wakeups

\* A delivery stays with its worker until it is settled, or left unsettled.
LEMMA WakeupsWorker ==
  ASSUME MInv, Wakeups, NEW w \in Workers, WorkerStep(w) \/ WorkerDies(w)
  PROVE  Wakeups'
<1>1. WorkerType
  BY Zenon DEF MInv
<1>2. CASE Pull(w)
  <2>1. Only(w) /\ worker'[w].pc = "claim"
    BY Zenon, <1>1, <1>2, PlaceSet DEF Pull, Places
  <2>2. worker[w].pc = "idle" /\ ready > 0 /\ ready' = ready - 1 /\ unsettled' = unsettled
    BY Zenon, <1>2 DEF Pull
  <2>3. Busy \in Nat /\ Busy' = Busy + 1
    BY <2>1, <2>2, BusyCount
  <2> QED
    BY <2>2, <2>3, BoundsAssumption DEF Wakeups
<1>3. ASSUME Leaves(w) \/ (Rests(w) /\ unsettled' = unsettled), worker[w].pc # "idle", ready' = ready
      PROVE  Wakeups'
  <2>1. Only(w) /\ worker'[w].pc = "idle" /\ unsettled' \in {unsettled, unsettled + 1}
    BY Zenon, <1>1, <1>3, RestSet DEF Leaves
  <2>2. Busy \in Nat /\ Busy' = Busy - 1
    BY Zenon, <1>3, <2>1, BusyCount
  <2>3. ready \in Nat /\ unsettled \in Nat /\ ready + unsettled + Busy <= MaxWakeups
    BY Zenon DEF Wakeups
  <2>4. ready' = ready
    BY Zenon, <1>3
  <2>5. unsettled' \in Nat /\ ready + unsettled' + Busy' <= MaxWakeups
    <3>1. CASE unsettled' = unsettled
      BY <2>2, <2>3, <3>1, BoundsAssumption
    <3>2. CASE unsettled' = unsettled + 1
      BY <2>2, <2>3, <3>2, BoundsAssumption
    <3> QED
      BY Zenon, <2>1, <3>1, <3>2
  <2> QED
    BY Zenon, <2>3, <2>4, <2>5 DEF Wakeups
<1>4. ASSUME Only(w), worker[w].pc # "idle", worker'[w].pc # "idle", ready' = ready, unsettled' = unsettled
      PROVE  Wakeups'
  <2>1. Busy \in Nat /\ Busy' = Busy
    BY Zenon, <1>4, BusyCount
  <2> QED
    BY <1>4, <2>1, BoundsAssumption DEF Wakeups
<1>5. ASSUME NEW p \in Places \ {"idle"}, Moves(w, p), worker[w].pc # "idle", ready' = ready, unsettled' = unsettled
      PROVE  Wakeups'
  BY Zenon, <1>1, <1>4, <1>5, MoveSet DEF Places1
<1>6. CASE ClaimTask(w)
  <2>1. worker[w].pc # "idle" /\ ready' = ready
    BY <1>6 DEF ClaimTask
  <2>2. CASE Leaves(w)
    BY Zenon, <1>3, <2>1, <2>2
  <2>3. CASE Moves(w, "ack") /\ unsettled' = unsettled
    BY Zenon, <1>5, <2>1, <2>3 DEF Places
  <2>4. CASE TakeStep(w) /\ unsettled' = unsettled
    <3> DEFINE x == [pc |-> Resume(row.state), attempt |-> row'.attempts,
                     extraction |-> row.extraction, permanent |-> FALSE]
    <3>1. Resume(row.state) # "idle"
      BY <2>4 DEF TakeStep, Claim, Claimable, Resume, ActiveStates
    <3>2. worker' = [worker EXCEPT ![w] = x] /\ x.pc # "idle"
      BY Zenon, <2>4, <3>1 DEF TakeStep
    <3> HIDE DEF x
    <3>3. worker'[w] = x /\ Only(w)
      BY Zenon, <1>1, <3>2 DEF WorkerType, Only
    <3> QED
      BY ZenonT(60), <1>4, <2>1, <2>4, <3>2, <3>3
  <2> QED
    BY ZenonT(60), <1>6, <2>2, <2>3, <2>4 DEF ClaimTask, TakeStep, NoFault
<1>7. CASE Prepare(w) \/ Report(w) \/ Store(w) \/ Mark(w) \/ Finish(w)
  <2>1. PICK p \in {"extract", "store", "mark", "complete", "ack"} :
          Moves(w, p) /\ worker[w].pc # "idle" /\ ready' = ready /\ unsettled' = unsettled
    BY Zenon, <1>7 DEF Prepare, Report, Store, Mark, Finish
  <2>2. p \in Places \ {"idle"}
    BY Zenon, <2>1 DEF Places, Running
  <2> QED
    BY Zenon, <1>5, <2>1, <2>2
<1>8. CASE Extract(w) \/ Fails(w)
  <2>1. /\ worker[w].pc # "idle" /\ ready' = ready /\ unsettled' = unsettled
        /\ \/ \E x : worker' = [worker EXCEPT ![w].pc = "report", ![w].extraction = x]
           \/ \E b : worker' = [worker EXCEPT ![w].pc = "fail", ![w].permanent = b]
    BY Zenon, <1>8 DEF Extract, Fails, Running
  <2>2. Only(w) /\ worker'[w].pc # "idle"
    BY ZenonT(60), <1>1, <2>1, ExtractSet, FailSet DEF Places1
  <2> QED
    BY Zenon, <1>4, <2>1, <2>2
<1>9. CASE PersistFailure(w) \/ Settle(w) \/ WorkerDies(w)
  <2>1. /\ worker[w].pc # "idle" /\ ready' = ready
        /\ \/ Leaves(w) \/ (Rests(w) /\ unsettled' = unsettled)
           \/ Moves(w, "ack") /\ unsettled' = unsettled
    BY Zenon, <1>9 DEF PersistFailure, Settle, WorkerDies
  <2> QED
    BY Zenon, <1>3, <1>5, <2>1 DEF Places
<1> QED
  BY ZenonT(60), <1>2, <1>6, <1>7, <1>8, <1>9 DEF WorkerStep

\* Progress, index and faults take the values the handlers give them.
LEMMA RestKept ==
  ASSUME MInv, RestType, [Next]_vars
  PROVE  RestType'
<1>1. index' \subseteq Nat
  <2>1. CASE index' = index
    BY Zenon, <2>1 DEF RestType
  <2>2. ASSUME NEW w \in Workers, Store(w) PROVE index' \subseteq Nat
    <3>1. worker[w].extraction \in Nat \cup {Empty} /\ index' = index \cup ({worker[w].extraction} \ {Empty})
      BY Zenon, <2>2 DEF Store, MInv, WorkerType
    <3> QED
      BY ZenonT(60), <3>1 DEF RestType
  <2> QED
    BY ZenonT(60), <2>1, <2>2
    DEF Next, vars, Inserts, SavesRaw, Refuses, Publishes, CallerDies, Reconcile, WorkerStep, WorkerDies,
        Pull, ClaimTask, Prepare, Extract, Report, Mark, Finish, Fails, PersistFailure, Settle,
        Redeliver, RetryDue, LeaseExpires
<1>2. faults' \in 0 .. MaxFaults
  <2>1. faults' = faults \/ (faults < MaxFaults /\ faults' = faults + 1)
    BY Zenon
    DEF Next, vars, Inserts, SavesRaw, Refuses, Publishes, CallerDies, Reconcile, WorkerStep, WorkerDies,
        Pull, ClaimTask, Prepare, Extract, Report, Store, Mark, Finish, Fails, PersistFailure, Settle,
        Redeliver, RetryDue, LeaseExpires, NoFault, Fault
  <2> QED
    BY <2>1, BoundsAssumption DEF RestType
<1>3. progress' \in {-1, 0, 15, 50, 100}
  <2>1. progress' \in {-1, 0, 15, 50, 100, progress}
    BY Zenon
    DEF Next, vars, Inserts, SavesRaw, Refuses, Publishes, CallerDies, Reconcile, WorkerStep, WorkerDies,
        Pull, ClaimTask, Prepare, Extract, Report, Store, Mark, Finish, Fails, PersistFailure, Settle,
        Redeliver, RetryDue, LeaseExpires, CreateWithTask, MarkUnclaimedFailed, Claim,
        MarkActiveMemoryTaskFailed, PersistExtraction, MarkStored, Complete, MarkFailed, ScheduleRetry,
        FallDue, LeaseRunsOut
  <2> QED
    BY ZenonT(60), <2>1 DEF RestType
<1>4. caller' \in {"insert", "raw", "refuse", "publish", "done"} /\ lost' \in BOOLEAN
  <2>1. /\ caller' \in {caller, "raw", "refuse", "publish", "done"}
        /\ lost' = lost \/ lost' = (lost \/ \E w \in Workers : Renews(w))
    BY Zenon
    DEF Next, vars, Inserts, SavesRaw, Refuses, Publishes, CallerDies, Reconcile, WorkerStep, WorkerDies,
        Pull, ClaimTask, Prepare, Extract, Report, Store, Mark, Finish, Fails, PersistFailure, Settle,
        Redeliver, RetryDue, LeaseExpires
  <2> QED
    BY ZenonT(60), <2>1 DEF RestType
<1>5. row'.owner \in {0, row'.attempts}
  <2>1. \/ row' = row \/ CreateWithTask \/ Claim
        \/ (\E w \in Workers : \E x \in {worker[w].attempt, Empty} : PersistExtraction(worker[w].attempt, x))
        \/ (\E owner : MarkStored(owner)) \/ FallDue \/ LeaseRunsOut
        \/ \E s \in States, d \in BOOLEAN : row' = Unleased(s, d)
    BY ZenonT(60)
    DEF Next, vars, Inserts, SavesRaw, Refuses, Publishes, CallerDies, Reconcile, WorkerStep, WorkerDies,
        Pull, ClaimTask, Prepare, Extract, Report, Store, Mark, Finish, Fails, PersistFailure, Settle,
        Redeliver, RetryDue, LeaseExpires, MarkUnclaimedFailed, MarkActiveMemoryTaskFailed,
        Complete, MarkFailed, ScheduleRetry, States, ActiveStates
  <2>2. RowType /\ WorkerType /\ row.owner \in {0, row.attempts}
    BY Zenon DEF MInv, RestType
  <2>3. CASE row' = row
    BY Zenon, <2>2, <2>3
  <2>4. CASE CreateWithTask \/ Claim
    BY Zenon, <2>2, <2>4, CreateRow, ClaimRow
  <2>5. CASE \E w \in Workers : \E x \in {worker[w].attempt, Empty} : PersistExtraction(worker[w].attempt, x)
    <3>1. PICK w \in Workers : \E x \in {worker[w].attempt, Empty} : PersistExtraction(worker[w].attempt, x)
      BY Zenon, <2>5
    <3>2. worker[w].attempt \in Nat
      BY Zenon, <2>2 DEF WorkerType
    <3> QED
      BY ZenonT(60), <2>2, <3>1, <3>2, PersistRow
  <2>6. CASE \E owner : MarkStored(owner)
    BY Zenon, <2>2, <2>6, StoredRow
  <2>7. CASE FallDue \/ LeaseRunsOut
    BY Zenon, <2>2, <2>7, TimeRow DEF SameJob
  <2>8. CASE \E s \in States, d \in BOOLEAN : row' = Unleased(s, d)
    BY Zenon, <2>2, <2>8, UnleasedRow
  <2> QED
    BY Zenon, <2>1, <2>3, <2>4, <2>5, <2>6, <2>7, <2>8
<1> QED
  BY ZenonT(60), <1>1, <1>2, <1>3, <1>4, <1>5 DEF RestType

\* Every variable keeps its type: the wake-ups in the queue and with the workers stay
\* within their bound, and Unleased clears owner and lease together.
THEOREM MemoryTypes == Spec => []TypeOK
<1>1. Init => RestType /\ Wakeups
  <2> SUFFICES ASSUME Init PROVE RestType /\ Wakeups
    OBVIOUS
  <2>1. RestType
    <3>1. row.owner = 0
      BY Zenon DEF Init, NoRow
    <3>2. progress \in {-1, 0, 15, 50, 100} /\ caller \in {"insert", "raw", "refuse", "publish", "done"}
      BY Zenon DEF Init
    <3>3. index = {} /\ faults = 0 /\ lost = FALSE
      BY Zenon DEF Init
    <3>4. faults \in 0 .. MaxFaults
      BY <3>3, BoundsAssumption
    <3> QED
      BY ZenonT(60), <3>1, <3>2, <3>3, <3>4 DEF RestType
  <2>2. BusyWorkers = {}
    <3>1. worker = [w \in Workers |-> Resting] /\ Resting.pc = "idle"
      BY Zenon DEF Init, Resting
    <3> QED
      BY Zenon, <3>1 DEF BusyWorkers
  <2>3. Busy = 0
    BY Zenon, <2>2, FS_EmptySet DEF Busy
  <2> QED
    BY <2>1, <2>3, BoundsAssumption DEF Init, Wakeups
<1>2. MInv /\ Wakeups /\ [Next]_vars => Wakeups'
  <2>1. UNCHANGED vars /\ Wakeups => Wakeups'
    BY Zenon, BusySame DEF vars, Wakeups
  <2> QED
    BY Zenon, <2>1, WakeupsOutside, WakeupsWorker DEF Next
<1>3. MInv /\ RestType /\ [Next]_vars => RestType'
  BY Zenon, RestKept
<1>4. MInv /\ PInv /\ RestType /\ Wakeups => TypeOK
  <2> SUFFICES ASSUME MInv, PInv, RestType, Wakeups PROVE TypeOK
    OBVIOUS
  <2>1. RowTypeOK
    BY Zenon DEF MInv, RowType, States, PInv, OwnerAndLease, RestType, RowTypeOK
  <2>2. Busy \in Nat
    BY Zenon, WorkersAssumption, FS_Subset, FS_CardinalityType DEF Busy, BusyWorkers
  <2>3. ready \in 0 .. MaxWakeups /\ unsettled \in 0 .. MaxWakeups
    BY <2>2, BoundsAssumption DEF Wakeups
  <2> QED
    BY Zenon, <2>1, <2>3 DEF MInv, WorkerType, Places, RestType, TypeOK
<1> QED
  BY <1>1, <1>2, <1>3, <1>4, PInvKept, MInvInit, StepRefines, PTL DEF Spec, Refines
=============================================================================
