---------------------------- MODULE MemoryProofs ----------------------------
(***************************************************************************)
(* The durable memory task implements the memory job, and a task that      *)
(* keeps failing ends: for all sets of workers and kinds of faults, and    *)
(* for all bounds.                                                         *)
(***************************************************************************)
EXTENDS MemorySystem, TLAPS

States == ActiveStates \cup {"absent", "completed", "failed"}

RowType ==
  row \in [state : States, owner : Nat, lease : {"none", "live", "expired"}, due : BOOLEAN,
           attempts : Nat, extraction : Nat \cup {Empty}]

Places == Running \cup {"idle", "claim", "fail", "ack"}

WorkerType ==
  worker \in [Workers -> [pc : Places, attempt : Nat, extraction : Nat \cup {Empty}, permanent : BOOLEAN]]

\* Workers that have claimed the task and not yet given it back.
Working(w) == worker[w].pc \in Running \cup {"fail"}

-----------------------------------------------------------------------------
(* What the statements do to the row.                                      *)

\* Lease and due date only.
SameJob ==
  /\ RowType'
  /\ row'.state = row.state /\ row'.extraction = row.extraction /\ row'.attempts = row.attempts

\* CreateWithTask: a pending task that nobody claimed.
LEMMA CreateRow ==
  ASSUME RowType, CreateWithTask
  PROVE  /\ RowType' /\ row'.state = "pending" /\ row'.extraction = row.extraction
         /\ row'.attempts = row.attempts /\ row'.owner = row.owner /\ row'.lease = row.lease
BY DEF RowType, CreateWithTask, States, ActiveStates

\* Claim: one attempt more, whose number is the owner of a live lease.
LEMMA ClaimRow ==
  ASSUME RowType, Claim
  PROVE  /\ RowType' /\ row'.state = row.state /\ row'.extraction = row.extraction
         /\ row'.attempts = row.attempts + 1 /\ row'.owner = row.attempts + 1 /\ row'.lease = "live"
<1> DEFINE n == row.attempts + 1
           r1 == [row EXCEPT !.attempts = n]
           r2 == [r1 EXCEPT !.owner = n]
<1>1. row' = [r2 EXCEPT !.lease = "live"] /\ n \in Nat
  BY DEF RowType, Claim
<1> HIDE DEF n
<1>2. /\ r1 \in [state : States, owner : Nat, lease : {"none", "live", "expired"}, due : BOOLEAN,
                 attempts : Nat, extraction : Nat \cup {Empty}]
      /\ r1.state = row.state /\ r1.extraction = row.extraction /\ r1.attempts = n
  BY <1>1 DEF RowType
<1> HIDE DEF r1
<1>3. /\ r2 \in [state : States, owner : Nat, lease : {"none", "live", "expired"}, due : BOOLEAN,
                 attempts : Nat, extraction : Nat \cup {Empty}]
      /\ r2.state = row.state /\ r2.extraction = row.extraction /\ r2.attempts = n /\ r2.owner = n
  BY <1>1, <1>2
<1> HIDE DEF r2
<1> QED
  BY <1>1, <1>3 DEF RowType, n

\* PersistExtraction: the only statement that changes the extraction.
LEMMA PersistRow ==
  ASSUME RowType, NEW owner, NEW x \in Nat \cup {Empty}, PersistExtraction(owner, x)
  PROVE  /\ RowType' /\ row.state = "pending" /\ row'.state = "extracted" /\ row'.extraction = x
         /\ row'.attempts = row.attempts /\ row'.owner = row.owner /\ row'.lease = row.lease
BY Zenon DEF RowType, PersistExtraction, States, ActiveStates

\* MarkStored leaves extraction and lease alone.
LEMMA StoredRow ==
  ASSUME RowType, NEW owner, MarkStored(owner)
  PROVE  /\ RowType' /\ row.state = "extracted" /\ row'.state = "stored" /\ row'.extraction = row.extraction
         /\ row'.attempts = row.attempts /\ row'.owner = row.owner /\ row'.lease = row.lease
BY DEF RowType, MarkStored, States, ActiveStates

\* What releasing the lease together with a new state leaves alone.
LEMMA UnleasedRow ==
  ASSUME RowType, NEW state \in States, NEW due \in BOOLEAN, row' = Unleased(state, due)
  PROVE  /\ RowType' /\ row'.state = state /\ row'.extraction = row.extraction
         /\ row'.attempts = row.attempts /\ row'.owner = 0 /\ row'.lease = "none"
BY ZenonT(60) DEF RowType, Unleased, States, ActiveStates

\* ScheduleRetry, by the owner of a live lease only, stays at the checkpoint.
LEMMA RetryRow ==
  ASSUME RowType, NEW owner, ScheduleRetry(owner)
  PROVE  SameJob /\ Leased(owner) /\ row'.lease = "none"
<1>1. row.state \in States /\ row' = Unleased(row.state, FALSE) /\ Leased(owner)
  BY DEF RowType, ScheduleRetry
<1> QED
  BY Zenon, <1>1, UnleasedRow DEF SameJob

\* MarkFailed and MarkUnclaimedFailed end an active task.
LEMMA FailedRow ==
  ASSUME RowType, \/ MarkUnclaimedFailed
                  \/ \E owner : MarkFailed(owner)
  PROVE  /\ RowType' /\ row.state \in ActiveStates /\ row'.state = "failed"
         /\ row'.extraction = row.extraction /\ row'.attempts = row.attempts /\ row'.lease = "none"
<1>1. row.state \in ActiveStates /\ row' = Unleased("failed", TRUE)
  BY Zenon DEF MarkUnclaimedFailed, Unclaimed, MarkFailed, ActiveStates
<1> QED
  BY Zenon, <1>1, UnleasedRow DEF States

\* Complete ends a stored task.
LEMMA CompletedRow ==
  ASSUME RowType, NEW owner, Complete(owner)
  PROVE  /\ RowType' /\ row.state = "stored" /\ row'.state = "completed"
         /\ row'.extraction = row.extraction /\ row'.attempts = row.attempts /\ row'.lease = "none"
<1>1. row.state = "stored" /\ row' = Unleased("completed", TRUE)
  BY DEF Complete
<1> QED
  BY Zenon, <1>1, UnleasedRow DEF States

\* Time changes due date and lease only.
LEMMA TimeRow ==
  ASSUME RowType, FallDue \/ LeaseRunsOut
  PROVE  SameJob /\ row'.owner = row.owner /\ (FallDue => row'.lease = row.lease)
                 /\ (LeaseRunsOut => row'.lease = "expired")
BY Zenon DEF RowType, FallDue, LeaseRunsOut, SameJob, States, ActiveStates

-----------------------------------------------------------------------------
(* What a step does to the workers.                                        *)

WorkerRecord == [pc : Places, attempt : Nat, extraction : Nat \cup {Empty}, permanent : BOOLEAN]

\* No other worker moves.
Only(w) == \A v \in Workers \ {w} : worker'[v] = worker[v]

\* One worker's record is replaced.
LEMMA WorkerSet ==
  ASSUME WorkerType, NEW w \in Workers, NEW x \in WorkerRecord, worker' = [worker EXCEPT ![w] = x]
  PROVE  WorkerType' /\ worker'[w] = x /\ Only(w)
<1>1. worker' = [v \in Workers |-> IF v = w THEN x ELSE worker[v]]
  BY Zenon DEF WorkerType
<1> QED
  BY <1>1 DEF WorkerType, WorkerRecord, Only

\* A worker changes its place.
LEMMA PlaceSet ==
  ASSUME WorkerType, NEW w \in Workers, NEW p \in Places, Moves(w, p)
  PROVE  /\ WorkerType' /\ Only(w) /\ worker'[w].pc = p
         /\ worker'[w].attempt = worker[w].attempt /\ worker'[w].extraction = worker[w].extraction
<1> DEFINE x == [worker[w] EXCEPT !.pc = p]
<1>1. worker[w] \in WorkerRecord
  BY DEF WorkerType, WorkerRecord
<1>2. /\ x \in WorkerRecord /\ x.pc = p
      /\ x.attempt = worker[w].attempt /\ x.extraction = worker[w].extraction
  BY <1>1 DEF WorkerRecord
<1>3. worker' = [worker EXCEPT ![w] = x]
  BY DEF Moves
<1> HIDE DEF x
<1> QED
  BY Zenon, <1>2, <1>3, WorkerSet

\* A worker rests.
LEMMA RestSet ==
  ASSUME WorkerType, NEW w \in Workers, Rests(w)
  PROVE  WorkerType' /\ Only(w) /\ worker'[w].pc = "idle"
<1>1. Resting \in WorkerRecord /\ Resting.pc = "idle"
  BY DEF Resting, WorkerRecord, Places, None
<1> QED
  BY Zenon, <1>1, WorkerSet DEF Rests

-----------------------------------------------------------------------------
(* The inductive invariant.                                                *)

\* Extractions and states of the row.
RowInv ==
  /\ row.state \in {"absent", "pending"} => row.extraction = None
  /\ row.state \in {"extracted", "stored", "completed"} => row.extraction # None
  /\ row.state = "absent" => row.attempts = 0
  /\ row.lease = "live" => row.owner = row.attempts

\* A worker has the extraction of the row, and inserted it before it marks it.
HasCheckpoint(w) ==
  /\ Working(w) => worker[w].attempt # 0
  /\ worker[w].pc \in {"report", "store", "mark"} => row.extraction # None /\ worker[w].extraction = row.extraction
  /\ worker[w].pc = "mark" => worker[w].extraction \in index \cup {Empty}

\* Another attempt is left when nobody works on the task.
AttemptLeft ==
  row.state \in ActiveStates /\ (\A w \in Workers : ~ Renews(w)) => row.attempts < MaxAttempts + faults

MInv ==
  /\ RowType /\ WorkerType /\ faults \in Nat
  /\ RowInv
  /\ \A w \in Workers : HasCheckpoint(w)
  /\ AttemptsBounded /\ AttemptLeft

\* Initially there is neither a row nor a working worker.
LEMMA MInvInit == Init => MInv
<1> SUFFICES ASSUME Init PROVE MInv
  OBVIOUS
<1>1. row = NoRow /\ worker = [w \in Workers |-> Resting] /\ faults = 0
  BY DEF Init
<1>2. RowType /\ row.state = "absent" /\ row.extraction = None /\ row.attempts = 0 /\ row.lease = "none"
  BY <1>1 DEF RowType, NoRow, States, None
<1>3. WorkerType /\ \A w \in Workers : worker[w].pc = "idle"
  BY <1>1 DEF WorkerType, Resting, Places, None
<1>4. RowInv
  BY <1>2 DEF RowInv
<1>5. \A w \in Workers : HasCheckpoint(w)
  BY <1>3 DEF HasCheckpoint, Working, Running
<1>6. AttemptsBounded /\ AttemptLeft
  BY <1>1, <1>2, AttemptsAssumption DEF AttemptsBounded, AttemptLeft, ActiveStates
<1> QED
  BY <1>1, <1>2, <1>3, <1>4, <1>5, <1>6 DEF MInv

\* What the other workers know stays true.
LEMMA OthersKeep ==
  ASSUME MInv, NEW w \in Workers, Only(w), index \subseteq index',
         row'.extraction = row.extraction \/ row.extraction = None,
         HasCheckpoint(w)'
  PROVE  \A v \in Workers : HasCheckpoint(v)'
<1> SUFFICES ASSUME NEW v \in Workers, v # w PROVE HasCheckpoint(v)'
  OBVIOUS
<1>1. worker'[v] = worker[v] /\ HasCheckpoint(v)
  BY DEF Only, MInv
<1> QED
  BY <1>1 DEF HasCheckpoint, Working

-----------------------------------------------------------------------------
(* The kinds of steps.                                                     *)

Refines == MInv' /\ [Job!Next]_Job!vars

\* Neither the task nor a worker nor the index changes.
QuietStep == UNCHANGED <<row, worker, index>> /\ faults' \in {faults, faults + 1}

\* Publishing, redelivery and the request's own steps do not matter.
LEMMA QuietKeeps ==
  ASSUME MInv, QuietStep
  PROVE  Refines
<1>1. row' = row /\ worker' = worker /\ index' = index /\ faults' \in {faults, faults + 1}
  BY DEF QuietStep
<1>2. RowType' /\ WorkerType' /\ RowInv' /\ faults' \in Nat
  BY <1>1 DEF MInv, RowType, WorkerType, RowInv
<1>3. \A w \in Workers : HasCheckpoint(w)'
  BY <1>1 DEF MInv, HasCheckpoint, Working
<1>4. AttemptsBounded' /\ AttemptLeft'
  BY <1>1, AttemptsAssumption DEF MInv, RowType, AttemptsBounded, AttemptLeft, Renews, Leased
<1>5. UNCHANGED Job!vars
  BY <1>1 DEF Job!vars
<1> QED
  BY <1>2, <1>3, <1>4, <1>5 DEF MInv, Refines

\* A worker goes on without touching task or index.
PlaceStep(w) ==
  /\ WorkerType' /\ Only(w) /\ UNCHANGED <<row, index, faults>>
  /\ worker'[w].attempt = worker[w].attempt /\ worker'[w].extraction = worker[w].extraction
  /\ Working(w)' <=> Working(w)
  /\ worker'[w].pc \in {"report", "store"} => worker[w].pc \in {"report", "store"}
  /\ worker'[w].pc # "mark"

\* Nor does a worker's step that writes nothing but progress.
LEMMA PlaceKeeps ==
  ASSUME MInv, NEW w \in Workers, PlaceStep(w)
  PROVE  Refines
<1>1. row' = row /\ index' = index /\ faults' = faults /\ WorkerType' /\ Only(w)
  BY DEF PlaceStep
<1>2. RowType' /\ RowInv' /\ faults' \in Nat /\ AttemptsBounded'
  BY Zenon, <1>1 DEF MInv, RowType, RowInv, AttemptsBounded
<1>3. HasCheckpoint(w)'
  BY <1>1 DEF MInv, PlaceStep, HasCheckpoint
<1>4. \A v \in Workers : HasCheckpoint(v)'
  BY <1>1, <1>3, OthersKeep
<1>5. \A v \in Workers : Renews(v)' <=> Renews(v)
  BY <1>1 DEF PlaceStep, Only, Renews, Leased, Working
<1>6. AttemptLeft'
  BY <1>1, <1>5 DEF MInv, AttemptLeft
<1>7. UNCHANGED Job!vars
  BY <1>1 DEF Job!vars
<1> QED
  BY <1>1, <1>2, <1>4, <1>6, <1>7 DEF MInv, Refines

\* A worker gives the delivery up: it had lost the task, or it is a fault.
LeaveStep(w) ==
  /\ Rests(w) /\ UNCHANGED <<row, index>>
  /\ \/ faults' = faults + 1
     \/ faults' = faults /\ (~ Renews(w) \/ row.state \notin ActiveStates)

\* A worker that owns the lease gives up only by a fault, which pays for its attempt.
LEMMA LeaveKeeps ==
  ASSUME MInv, NEW w \in Workers, LeaveStep(w)
  PROVE  Refines
<1>1. row' = row /\ index' = index /\ faults' \in {faults, faults + 1}
  BY DEF LeaveStep
<1>2. WorkerType' /\ Only(w) /\ worker'[w].pc = "idle"
  BY RestSet DEF MInv, LeaveStep
<1>3. RowType' /\ RowInv' /\ faults' \in Nat /\ AttemptsBounded'
  BY <1>1, AttemptsAssumption DEF MInv, RowType, RowInv, AttemptsBounded
<1>4. HasCheckpoint(w)'
  BY <1>2 DEF HasCheckpoint, Working, Running
<1>5. \A v \in Workers : HasCheckpoint(v)'
  BY <1>1, <1>2, <1>4, OthersKeep
<1>6. AttemptLeft'
  <2>1. CASE faults' = faults + 1
    BY <1>1, <2>1, AttemptsAssumption DEF MInv, RowType, AttemptsBounded, AttemptLeft
  <2>2. CASE faults' = faults /\ (~ Renews(w) \/ row.state \notin ActiveStates)
    <3>1. \A v \in Workers \ {w} : Renews(v)' <=> Renews(v)
      BY <1>1, <1>2 DEF Only, Renews, Leased
    <3> QED
      BY <1>1, <2>2, <3>1 DEF MInv, AttemptLeft
  <2> QED
    BY <2>1, <2>2 DEF LeaveStep
<1>7. UNCHANGED Job!vars
  BY <1>1 DEF Job!vars
<1> QED
  BY <1>2, <1>3, <1>5, <1>6, <1>7 DEF MInv, Refines

\* A worker inserts the extraction it has.
StoreStep(w) ==
  /\ worker[w].pc = "store" /\ Moves(w, "mark")
  /\ index' = index \cup ({worker[w].extraction} \ {Empty})
  /\ UNCHANGED <<row, faults>>

\* storeMemoryTaskExtraction inserts the checkpointed extraction, whoever does it.
LEMMA StoreKeeps ==
  ASSUME MInv, NEW w \in Workers, StoreStep(w)
  PROVE  Refines
<1>1. /\ row' = row /\ faults' = faults /\ index \subseteq index' /\ worker[w].pc = "store"
      /\ index' = index \cup ({worker[w].extraction} \ {Empty})
  BY DEF StoreStep
<1>2. /\ WorkerType' /\ Only(w) /\ worker'[w].pc = "mark"
      /\ worker'[w].attempt = worker[w].attempt /\ worker'[w].extraction = worker[w].extraction
  BY PlaceSet DEF MInv, StoreStep, Places, Running
<1>3. RowType' /\ RowInv' /\ faults' \in Nat /\ AttemptsBounded'
  BY <1>1 DEF MInv, RowType, RowInv, AttemptsBounded
<1>4. row.extraction # None /\ worker[w].extraction = row.extraction /\ worker[w].attempt # 0
  BY <1>1 DEF MInv, HasCheckpoint, Working, Running
<1>5. HasCheckpoint(w)'
  BY <1>1, <1>2, <1>4 DEF HasCheckpoint
<1>6. \A v \in Workers : HasCheckpoint(v)'
  BY Zenon, <1>1, <1>2, <1>5, OthersKeep
<1>7. \A v \in Workers : Renews(v)' <=> Renews(v)
  BY <1>1, <1>2 DEF Only, Renews, Leased, Running
<1>8. AttemptLeft'
  BY <1>1, <1>7 DEF MInv, AttemptLeft
<1>9. [Job!Next]_Job!vars
  <2>1. CASE row.extraction = Empty
    BY <1>1, <1>4, <2>1 DEF Job!vars
  <2>2. CASE row.extraction # Empty
    <3>1. Job!Write
      BY <1>1, <1>4, <2>2 DEF Job!Write, Job!None, Job!Empty, None, Empty
    <3> QED
      BY <3>1 DEF Job!Next
  <2> QED
    BY <2>1, <2>2
<1> QED
  BY <1>2, <1>3, <1>6, <1>8, <1>9 DEF MInv, Refines

\* A worker claims the task.
TakeStep(w) ==
  /\ Claim /\ UNCHANGED <<index, faults>>
  /\ worker' = [worker EXCEPT ![w] = [pc |-> Resume(row.state), attempt |-> row'.attempts,
       extraction |-> row.extraction, permanent |-> FALSE]]

\* An attempt is left for whoever claims.
LEMMA TakeKeeps ==
  ASSUME MInv, NEW w \in Workers, TakeStep(w)
  PROVE  Refines
<1>1. /\ RowType' /\ row'.state = row.state /\ row'.extraction = row.extraction
      /\ row'.attempts = row.attempts + 1 /\ row'.owner = row.attempts + 1 /\ row'.lease = "live"
  BY ClaimRow DEF MInv, TakeStep
<1>2. row.state \in ActiveStates /\ row.lease # "live" /\ index' = index /\ faults' = faults
  BY DEF TakeStep, Claim, Claimable
<1>3. row.attempts \in Nat /\ row.extraction \in Nat \cup {Empty} /\ faults \in Nat /\ WorkerType
  BY DEF MInv, RowType
<1> DEFINE p == Resume(row.state)
           n == row.attempts + 1
           x == [pc |-> p, attempt |-> n, extraction |-> row.extraction, permanent |-> FALSE]
<1>4. /\ p \in {"prepare", "store", "complete"}
      /\ p = "store" => row.state = "extracted"
  BY <1>2 DEF Resume, ActiveStates
<1>5. worker' = [worker EXCEPT ![w] = x]
  BY <1>1 DEF TakeStep
<1> HIDE DEF p
<1>6. x \in WorkerRecord /\ x.pc = p /\ x.attempt = n /\ x.extraction = row.extraction
  BY <1>3, <1>4 DEF WorkerRecord, Places, Running
<1> HIDE DEF x
<1>7. WorkerType' /\ Only(w) /\ worker'[w] = x
  BY Zenon, <1>3, <1>5, <1>6, WorkerSet
<1>8. HasCheckpoint(w)'
  <2>1. worker'[w].attempt # 0 /\ worker'[w].pc \notin {"report", "mark"}
    BY <1>3, <1>4, <1>6, <1>7
  <2>2. worker'[w].pc = "store" => row'.extraction # None /\ worker'[w].extraction = row'.extraction
    BY <1>1, <1>4, <1>6, <1>7 DEF MInv, RowInv
  <2> QED
    BY <2>1, <2>2 DEF HasCheckpoint
<1>9. \A v \in Workers : HasCheckpoint(v)'
  BY <1>1, <1>2, <1>7, <1>8, OthersKeep
<1>10. RowInv'
  BY <1>1, <1>2 DEF MInv, RowInv, ActiveStates
<1>11. AttemptsBounded'
  <2>1. row.attempts < MaxAttempts + faults
    BY <1>2 DEF MInv, AttemptLeft, Renews, Leased
  <2> QED
    BY <1>1, <1>2, <1>3, <2>1, AttemptsAssumption DEF AttemptsBounded
<1>12. AttemptLeft'
  <2>1. Renews(w)'
    BY <1>1, <1>4, <1>6, <1>7 DEF Renews, Leased, Running
  <2> QED
    BY <2>1 DEF AttemptLeft
<1>13. UNCHANGED Job!vars
  BY Zenon, <1>1, <1>2 DEF Job!vars
<1> QED
  BY Zenon, <1>1, <1>2, <1>3, <1>7, <1>9, <1>10, <1>11, <1>12, <1>13 DEF MInv, Refines

\* A worker checkpoints its extraction.
ExtractStep(w) ==
  /\ worker[w].pc = "extract" /\ UNCHANGED <<index, faults>>
  /\ \E x \in {worker[w].attempt, Empty} :
       /\ PersistExtraction(worker[w].attempt, x)
       /\ worker' = [worker EXCEPT ![w].pc = "report", ![w].extraction = x]

\* Only the first extraction is checkpointed.
LEMMA ExtractKeeps ==
  ASSUME MInv, NEW w \in Workers, ExtractStep(w)
  PROVE  Refines
<1>1. PICK x \in {worker[w].attempt, Empty} :
        /\ PersistExtraction(worker[w].attempt, x)
        /\ worker' = [worker EXCEPT ![w].pc = "report", ![w].extraction = x]
  BY Zenon DEF ExtractStep
<1>2. worker[w].pc = "extract" /\ index' = index /\ faults' = faults
  BY DEF ExtractStep
<1>3. worker[w] \in WorkerRecord /\ worker[w].attempt # 0
  BY <1>2 DEF MInv, WorkerType, WorkerRecord, HasCheckpoint, Working, Running
<1>4. x \in Nat \cup {Empty} /\ x # None
  BY <1>3 DEF WorkerRecord, None, Empty
<1>5. /\ RowType' /\ row.state = "pending" /\ row'.state = "extracted" /\ row'.extraction = x
      /\ row'.attempts = row.attempts /\ row'.owner = row.owner /\ row'.lease = row.lease
  BY <1>1, <1>4, PersistRow DEF MInv
<1>6. row.extraction = None
  BY <1>5 DEF MInv, RowInv
<1> DEFINE y == [worker[w] EXCEPT !.pc = "report"]
           z == [y EXCEPT !.extraction = x]
<1>7. worker' = [worker EXCEPT ![w] = z]
  BY Zenon, <1>1
<1>8. y \in WorkerRecord /\ y.pc = "report" /\ y.attempt = worker[w].attempt
  BY <1>3 DEF WorkerRecord, Places, Running
<1> HIDE DEF y
<1>9. z \in WorkerRecord /\ z.pc = "report" /\ z.attempt = worker[w].attempt /\ z.extraction = x
  BY <1>4, <1>8 DEF WorkerRecord
<1> HIDE DEF z
<1>10. WorkerType' /\ Only(w) /\ worker'[w] = z
  BY Zenon, <1>7, <1>9, WorkerSet DEF MInv
<1>11. HasCheckpoint(w)'
  BY <1>3, <1>4, <1>5, <1>9, <1>10 DEF HasCheckpoint
<1>12. \A v \in Workers : HasCheckpoint(v)'
  BY <1>2, <1>6, <1>10, <1>11, OthersKeep
<1>13. RowInv'
  BY <1>4, <1>5 DEF MInv, RowInv
<1>14. \A v \in Workers : Renews(v)' <=> Renews(v)
  BY ZenonT(60), <1>2, <1>5, <1>9, <1>10 DEF Only, Renews, Leased, Running
<1>15. AttemptsBounded' /\ AttemptLeft'
  BY Zenon, <1>2, <1>5, <1>14 DEF MInv, AttemptsBounded, AttemptLeft, ActiveStates
<1>16. Job!Extract
  BY Zenon, <1>2, <1>4, <1>5, <1>6 DEF Job!Extract, Job!None, None
<1> QED
  BY Zenon, <1>2, <1>5, <1>10, <1>12, <1>13, <1>15, <1>16 DEF MInv, Refines, Job!Next

\* A worker marks the extraction as stored.
MarkStep(w) ==
  worker[w].pc = "mark" /\ MarkStored(worker[w].attempt) /\ Moves(w, "complete") /\ UNCHANGED <<index, faults>>

\* What is marked stored is in the index.
LEMMA MarkKeeps ==
  ASSUME MInv, NEW w \in Workers, MarkStep(w)
  PROVE  Refines
<1>1. worker[w].pc = "mark" /\ index' = index /\ faults' = faults
  BY DEF MarkStep
<1>2. /\ RowType' /\ row.state = "extracted" /\ row'.state = "stored" /\ row'.extraction = row.extraction
      /\ row'.attempts = row.attempts /\ row'.owner = row.owner /\ row'.lease = row.lease
  BY Zenon, StoredRow DEF MInv, MarkStep
<1>3. WorkerType' /\ Only(w) /\ worker'[w].pc = "complete" /\ worker'[w].attempt = worker[w].attempt
  BY Zenon, PlaceSet DEF MInv, MarkStep, Places, Running
<1>4. row.extraction \in index \cup {Empty} /\ worker[w].attempt # 0
  BY <1>1 DEF MInv, HasCheckpoint, Working, Running
<1>5. HasCheckpoint(w)'
  BY Zenon, <1>3, <1>4 DEF HasCheckpoint
<1>6. \A v \in Workers : HasCheckpoint(v)'
  BY <1>1, <1>2, <1>3, <1>5, OthersKeep
<1>7. RowInv'
  BY Zenon, <1>2 DEF MInv, RowInv
<1>8. \A v \in Workers : Renews(v)' <=> Renews(v)
  BY ZenonT(60), <1>1, <1>2, <1>3 DEF Only, Renews, Leased, Running
<1>9. AttemptsBounded' /\ AttemptLeft'
  BY <1>1, <1>2, <1>8 DEF MInv, AttemptsBounded, AttemptLeft, ActiveStates
<1>10. Job!Store
  BY <1>1, <1>2, <1>4 DEF Job!Store, Job!Empty, Empty
<1> QED
  BY Zenon, <1>1, <1>2, <1>3, <1>6, <1>7, <1>9, <1>10 DEF MInv, Refines, Job!Next

\* A worker completes or fails the task.
EndStep(w) ==
  /\ \E owner : Complete(owner) \/ MarkFailed(owner)
  /\ Moves(w, "ack") /\ UNCHANGED <<index, faults>>

\* Complete finds the task stored.
LEMMA EndKeeps ==
  ASSUME MInv, NEW w \in Workers, EndStep(w)
  PROVE  Refines
<1>1. index' = index /\ faults' = faults
  BY DEF EndStep
<1>2. /\ RowType' /\ row'.extraction = row.extraction /\ row'.attempts = row.attempts /\ row'.lease = "none"
      /\ \/ row.state = "stored" /\ row'.state = "completed"
         \/ row.state \in ActiveStates /\ row'.state = "failed"
  BY CompletedRow, FailedRow DEF MInv, EndStep
<1>3. WorkerType' /\ Only(w) /\ worker'[w].pc = "ack"
  BY PlaceSet DEF MInv, EndStep, Places
<1>4. HasCheckpoint(w)'
  BY Zenon, <1>3 DEF HasCheckpoint, Working, Running
<1>5. \A v \in Workers : HasCheckpoint(v)'
  BY <1>1, <1>2, <1>3, <1>4, OthersKeep
<1>6. RowInv'
  BY <1>2 DEF MInv, RowInv
<1>7. AttemptsBounded' /\ AttemptLeft'
  BY <1>1, <1>2 DEF MInv, AttemptsBounded, AttemptLeft, ActiveStates
<1>8. Job!Complete \/ Job!Fail
  BY <1>1, <1>2 DEF Job!Complete, Job!Fail, ActiveStates
<1> QED
  BY <1>1, <1>2, <1>3, <1>5, <1>6, <1>7, <1>8 DEF MInv, Refines, Job!Next

\* A worker puts the task back.
RetryStep(w) ==
  /\ ~ LastAttempt(w) /\ ScheduleRetry(worker[w].attempt)
  /\ Moves(w, "ack") /\ UNCHANGED <<index, faults>>

\* ScheduleRetry is for attempts before the last one.
LEMMA RetryKeeps ==
  ASSUME MInv, NEW w \in Workers, RetryStep(w)
  PROVE  Refines
<1>1. index' = index /\ faults' = faults
  BY DEF RetryStep
<1>2. /\ RowType' /\ row'.state = row.state /\ row'.extraction = row.extraction
      /\ row'.attempts = row.attempts /\ row'.lease = "none" /\ Leased(worker[w].attempt)
  BY RetryRow DEF MInv, RetryStep, SameJob
<1>3. WorkerType' /\ Only(w) /\ worker'[w].pc = "ack"
  BY PlaceSet DEF MInv, RetryStep, Places
<1>4. HasCheckpoint(w)'
  BY <1>3 DEF HasCheckpoint, Working, Running
<1>5. \A v \in Workers : HasCheckpoint(v)'
  BY Zenon, <1>1, <1>2, <1>3, <1>4, OthersKeep
<1>6. RowInv'
  BY <1>2 DEF MInv, RowInv
<1>7. row.attempts < MaxAttempts
  <2>1. worker[w].attempt = row.attempts
    BY <1>2 DEF MInv, RowInv, Leased
  <2>2. row.attempts \in Nat
    BY DEF MInv, RowType
  <2>3. ~ (row.attempts >= MaxAttempts)
    BY <2>1 DEF RetryStep, LastAttempt
  <2> QED
    BY <2>2, <2>3, AttemptsAssumption
<1>8. AttemptsBounded' /\ AttemptLeft'
  BY <1>1, <1>2, <1>7, AttemptsAssumption DEF MInv, RowType, AttemptsBounded, AttemptLeft
<1>9. UNCHANGED Job!vars
  BY Zenon, <1>1, <1>2 DEF Job!vars
<1> QED
  BY <1>1, <1>2, <1>3, <1>5, <1>6, <1>8, <1>9 DEF MInv, Refines

\* The request creates the task, or ends it when nobody has claimed it.
CallStep ==
  /\ CreateWithTask \/ MarkUnclaimedFailed
  /\ UNCHANGED <<worker, index, faults>>

\* A new task has all its attempts before it.
LEMMA CallKeeps ==
  ASSUME MInv, CallStep
  PROVE  Refines
<1>1. worker' = worker /\ index' = index /\ faults' = faults
  BY DEF CallStep
<1>2. /\ RowType' /\ row'.extraction = row.extraction /\ row'.attempts = row.attempts
      /\ \/ row.state = "absent" /\ row'.state = "pending" /\ row'.owner = row.owner /\ row'.lease = row.lease
         \/ row.state \in ActiveStates /\ row'.state = "failed" /\ row'.lease = "none"
  BY Zenon, CreateRow, FailedRow DEF MInv, CallStep, CreateWithTask
<1>3. WorkerType' /\ faults' \in Nat /\ RowInv'
  BY Zenon, <1>1, <1>2 DEF MInv, WorkerType, RowInv, ActiveStates
<1>4. \A w \in Workers : HasCheckpoint(w)'
  BY <1>1, <1>2 DEF MInv, HasCheckpoint, Working
<1>5. AttemptsBounded' /\ AttemptLeft'
  <2>1. AttemptsBounded'
    BY <1>1, <1>2 DEF MInv, AttemptsBounded
  <2>2. CASE row.state = "absent"
    BY <1>1, <1>2, <2>1, <2>2, AttemptsAssumption DEF MInv, RowInv, AttemptLeft
  <2>3. CASE row'.state = "failed"
    BY <2>1, <2>3 DEF AttemptLeft, ActiveStates
  <2> QED
    BY Zenon, <1>2, <2>2, <2>3
<1>6. Job!Create \/ Job!Fail
  BY Zenon, <1>1, <1>2 DEF Job!Create, Job!Fail, ActiveStates
<1> QED
  BY <1>2, <1>3, <1>4, <1>5, <1>6 DEF MInv, Refines, Job!Next

\* A retry falls due, or the lease runs out.
TimeStep ==
  /\ UNCHANGED <<worker, index>>
  /\ \/ FallDue /\ faults' = faults
     \/ LeaseRunsOut /\ faults' = faults /\ \A w \in Workers : ~ Renews(w)
     \/ LeaseRunsOut /\ faults' = faults + 1

\* A lease that runs out under its worker is a fault.
LEMMA TimeKeeps ==
  ASSUME MInv, TimeStep
  PROVE  Refines
<1>1. worker' = worker /\ index' = index /\ faults' \in {faults, faults + 1} /\ faults \in Nat
  BY DEF TimeStep, MInv
<1>2. /\ RowType' /\ row'.state = row.state /\ row'.extraction = row.extraction
      /\ row'.attempts = row.attempts /\ row'.owner = row.owner
      /\ FallDue => row'.lease = row.lease
      /\ LeaseRunsOut => row'.lease = "expired"
  BY TimeRow DEF MInv, TimeStep, SameJob
<1>3. WorkerType' /\ faults' \in Nat
  BY <1>1 DEF MInv, WorkerType
<1>4. RowInv'
  BY Zenon, <1>2 DEF MInv, RowInv, TimeStep
<1>5. \A w \in Workers : HasCheckpoint(w)'
  BY <1>1, <1>2 DEF MInv, HasCheckpoint, Working
<1>6. row.attempts \in Nat /\ AttemptsBounded /\ AttemptLeft
  BY DEF MInv, RowType
<1>7. AttemptsBounded'
  BY <1>1, <1>2, <1>6, AttemptsAssumption DEF AttemptsBounded
<1>8. AttemptLeft'
  <2>1. CASE FallDue /\ faults' = faults
    <3>1. \A w \in Workers : Renews(w)' <=> Renews(w)
      BY <1>1, <1>2, <2>1 DEF Renews, Leased
    <3> QED
      BY Zenon, <1>2, <1>6, <2>1, <3>1 DEF AttemptLeft
  <2>2. CASE faults' = faults /\ \A w \in Workers : ~ Renews(w)
    BY Zenon, <1>2, <1>6, <2>2 DEF AttemptLeft
  <2>3. CASE faults' = faults + 1
    BY <1>1, <1>2, <1>6, <2>3, AttemptsAssumption DEF AttemptsBounded, AttemptLeft
  <2> QED
    BY Zenon, <2>1, <2>2, <2>3 DEF TimeStep
<1>9. UNCHANGED Job!vars
  BY <1>1, <1>2 DEF Job!vars
<1> QED
  BY <1>2, <1>3, <1>4, <1>5, <1>7, <1>8, <1>9 DEF MInv, Refines

-----------------------------------------------------------------------------
(* Every action is a step of one of these kinds.                           *)

\* The request, the reconciler and time.
LEMMA Outside ==
  ASSUME MInv,
         \/ Inserts \/ SavesRaw \/ Refuses \/ Publishes \/ CallerDies \/ Reconcile
         \/ Redeliver \/ RetryDue \/ LeaseExpires
  PROVE  Refines
<1>1. CASE Inserts \/ Refuses
  <2>1. CallStep \/ QuietStep
    BY <1>1 DEF Inserts, Refuses, NoFault, Fault, CallStep, QuietStep
  <2> QED
    BY Zenon, <2>1, CallKeeps, QuietKeeps
<1>2. CASE SavesRaw \/ Publishes \/ CallerDies \/ Reconcile \/ Redeliver
  <2>1. QuietStep
    BY Zenon, <1>2 DEF SavesRaw, Publishes, CallerDies, Reconcile, Redeliver, NoFault, Fault, QuietStep
  <2> QED
    BY Zenon, <2>1, QuietKeeps
<1>3. CASE RetryDue \/ LeaseExpires
  <2>1. TimeStep
    BY <1>3 DEF RetryDue, LeaseExpires, NoFault, Fault, TimeStep
  <2> QED
    BY <2>1, TimeKeeps
<1> QED
  BY <1>1, <1>2, <1>3

\* HandleSaveToMemoryTask.
LEMMA Claims ==
  ASSUME MInv, NEW w \in Workers, ClaimTask(w)
  PROVE  Refines
<1>1. worker[w].pc = "claim" /\ index' = index
  BY DEF ClaimTask
<1>2. ~ Renews(w)
  BY Zenon, <1>1 DEF Renews, Running
<1>3. \/ TakeStep(w)
      \/ Moves(w, "ack") /\ faults' = faults /\ row' = row
      \/ LeaveStep(w)
  BY Zenon, <1>1, <1>2 DEF ClaimTask, TakeStep, LeaveStep, Leaves, NoFault, Fault, MarkActiveMemoryTaskFailed
<1>4. ASSUME Moves(w, "ack"), faults' = faults, row' = row
      PROVE  PlaceStep(w)
  <2>1. /\ WorkerType' /\ Only(w) /\ worker'[w].pc = "ack"
        /\ worker'[w].attempt = worker[w].attempt /\ worker'[w].extraction = worker[w].extraction
    BY <1>4, PlaceSet DEF MInv, Places
  <2> QED
    BY Zenon, <1>1, <1>4, <2>1 DEF PlaceStep, Working, Running
<1> QED
  BY Zenon, <1>3, <1>4, TakeKeeps, PlaceKeeps, LeaveKeeps

\* runClaimedMemoryTask and resumeMemoryTask.
LEMMA Works ==
  ASSUME MInv, NEW w \in Workers,
         \/ Pull(w) \/ Prepare(w) \/ Extract(w) \/ Report(w) \/ Store(w) \/ Mark(w) \/ Finish(w)
  PROVE  Refines
<1>1. CASE Pull(w) \/ Prepare(w) \/ Report(w)
  <2>1. PICK p \in {"claim", "extract", "store"} :
          /\ Moves(w, p) /\ UNCHANGED <<row, index, faults>>
          /\ p = "claim" => worker[w].pc = "idle"
          /\ p = "extract" => worker[w].pc = "prepare"
          /\ p = "store" => worker[w].pc = "report"
    BY Zenon, <1>1 DEF Pull, Prepare, Report
  <2>2. /\ WorkerType' /\ Only(w) /\ worker'[w].pc = p
        /\ worker'[w].attempt = worker[w].attempt /\ worker'[w].extraction = worker[w].extraction
    BY Zenon, <2>1, PlaceSet DEF MInv, Places, Running
  <2>3. PlaceStep(w)
    BY Zenon, <2>1, <2>2 DEF PlaceStep, Working, Running
  <2> QED
    BY Zenon, <2>3, PlaceKeeps
<1>2. CASE Extract(w)
  BY Zenon, <1>2, ExtractKeeps DEF Extract, ExtractStep
<1>3. CASE Store(w)
  BY <1>3, StoreKeeps DEF Store, StoreStep
<1>4. CASE Mark(w)
  BY <1>4, MarkKeeps DEF Mark, MarkStep
<1>5. CASE Finish(w)
  BY <1>5, EndKeeps DEF Finish, EndStep
<1> QED
  BY Zenon, <1>1, <1>2, <1>3, <1>4, <1>5

\* persistMemoryTaskFailure, the settlement of the delivery, and a crash.
LEMMA GivesUp ==
  ASSUME MInv, NEW w \in Workers, Fails(w) \/ PersistFailure(w) \/ Settle(w) \/ WorkerDies(w)
  PROVE  Refines
<1>1. CASE Fails(w)
  <2>1. PICK b \in BOOLEAN : worker' = [worker EXCEPT ![w].pc = "fail", ![w].permanent = b]
    BY Zenon, <1>1 DEF Fails
  <2>2. Working(w) /\ UNCHANGED <<row, index, faults>>
    BY <1>1 DEF Fails, Working
  <2> DEFINE x == [worker[w] EXCEPT !.pc = "fail"]
             y == [x EXCEPT !.permanent = b]
  <2>3. worker' = [worker EXCEPT ![w] = y] /\ worker[w] \in WorkerRecord
    BY Zenon, <2>1 DEF MInv, WorkerType, WorkerRecord
  <2>4. /\ x \in WorkerRecord /\ x.pc = "fail" /\ x.attempt = worker[w].attempt
        /\ x.extraction = worker[w].extraction
    BY <2>3 DEF WorkerRecord, Places
  <2> HIDE DEF x
  <2>5. /\ y \in WorkerRecord /\ y.pc = "fail" /\ y.attempt = worker[w].attempt
        /\ y.extraction = worker[w].extraction
    BY <2>4 DEF WorkerRecord
  <2> HIDE DEF y
  <2>6. WorkerType' /\ Only(w) /\ worker'[w] = y
    BY Zenon, <2>3, <2>5, WorkerSet DEF MInv
  <2>7. PlaceStep(w)
    BY <2>2, <2>5, <2>6 DEF PlaceStep, Working
  <2> QED
    BY Zenon, <2>7, PlaceKeeps
<1>2. CASE PersistFailure(w)
  <2>1. EndStep(w) \/ RetryStep(w) \/ LeaveStep(w)
    BY Zenon, <1>2 DEF PersistFailure, EndStep, RetryStep, LeaveStep, Leaves, Renews, NoFault, Fault
  <2> QED
    BY <2>1, EndKeeps, RetryKeeps, LeaveKeeps
<1>3. CASE Settle(w) \/ WorkerDies(w)
  <2>1. LeaveStep(w)
    BY <1>3 DEF Settle, WorkerDies, LeaveStep, Leaves, Renews, Running, NoFault, Fault
  <2> QED
    BY Zenon, <2>1, LeaveKeeps
<1> QED
  BY Zenon, <1>1, <1>2, <1>3

\* Every step keeps the invariant and is one of the memory job, or none.
LEMMA StepRefines == MInv /\ [Next]_vars => Refines
<1> SUFFICES ASSUME MInv, [Next]_vars PROVE Refines
  OBVIOUS
<1>1. CASE UNCHANGED vars
  BY <1>1, QuietKeeps DEF vars, QuietStep
<1>2. CASE Next
  <2>1. CASE \E w \in Workers : WorkerStep(w) \/ WorkerDies(w)
    BY <2>1, Claims, Works, GivesUp DEF WorkerStep
  <2> QED
    BY Zenon, <1>2, <2>1, Outside DEF Next
<1> QED
  BY <1>1, <1>2

-----------------------------------------------------------------------------
(* The theorems.                                                           *)

\* The task table, the workers and the reconciler implement the memory job: what
\* PersistExtraction checkpointed first is the only extraction that is ever
\* inserted, and Complete finds it in the index.
THEOREM ImplementsJob == Spec => JobSpec
<1>1. Init => Job!Init
  BY DEF Init, NoRow, Job!Init, Job!None, None
<1> QED
  BY <1>1, MInvInit, StepRefines, PTL DEF Spec, JobSpec, Job!Spec, Refines

\* persistMemoryTaskFailure bounds the attempts: past memoryTaskMaxAttempts there is
\* at most one for every crash, lost lease and failed write.
THEOREM AttemptsEnd == Spec => []AttemptsBounded
<1>1. MInv => AttemptsBounded
  BY DEF MInv
<1> QED
  BY <1>1, MInvInit, StepRefines, PTL DEF Spec, Refines
=============================================================================
