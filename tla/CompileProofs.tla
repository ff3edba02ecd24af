---------------------------- MODULE CompileProofs ----------------------------
(***************************************************************************)
(* The compile scheduler implements the ledger of events, for all sets of  *)
(* documents, workers and dirty workers and for all bounds and scenarios.  *)
(***************************************************************************)
EXTENDS CompileSystem, TLAPS

\* Events of a table are told apart by their number.
Apart(table) == \A r, s \in table : r.n = s.n => r = s

\* x is a worker's record, whatever its fields hold.
WorkerRecord(x) ==
  x = [pc |-> x.pc, token |-> x.token, batch |-> x.batch, hb |-> x.hb,
       cur |-> x.cur, tree |-> x.tree, affected |-> x.affected, loaded |-> x.loaded]

WorkerShape == worker = [w \in Workers |-> worker[w]] /\ \A w \in Workers : WorkerRecord(worker[w])

ClaimShape == claim = [token |-> claim.token, lease |-> claim.lease, batch |-> claim.batch]

\* Every event is in at most one row of at most one table.
RowsApart ==
  /\ Apart(backlog) /\ Apart(inflight)
  /\ Ids(backlog) \cap Ids(inflight) = {}
  /\ Ids(backlog) \cup Ids(inflight) \subseteq 1 .. published
  /\ published \in Nat

\* Workers have different tokens, all issued.
TokensApart ==
  /\ tokens \in Nat /\ claim.token \in 0 .. tokens
  /\ \A w \in Workers : worker[w].pc \in Busy => worker[w].token \in 1 .. tokens
  /\ \A v, w \in Workers :
       worker[v].pc \in Busy /\ worker[w].pc \in Busy /\ worker[v].token = worker[w].token => v = w

\* The batch of the worker with the valid token is what was granted, in flight.
Holds(w) ==
  worker[w].pc \in Busy /\ worker[w].token = claim.token =>
    /\ worker[w].batch = claim.batch
    /\ \A b \in claim.batch : \E r \in inflight : r.n = b.n /\ r.doc = b.doc /\ r.type = b.type

LInv == ClaimShape /\ WorkerShape /\ RowsApart /\ TokensApart /\ \A w \in Workers : Holds(w)

-----------------------------------------------------------------------------
(* Tables.                                                                 *)

\* appendQueueEntries adds the given events and nothing else ...
LEMMA AppendedIds ==
  ASSUME NEW T, NEW R
  PROVE  Ids(Appended(T, R)) = Ids(T) \cup Ids(R)
<1> DEFINE copy(r) == MovedTo(r, LastPosition(T) + Rank(r, R))
<1>1. Appended(T, R) = T \cup {copy(r) : r \in R}
  BY DEF Appended
<1>2. \A r \in R : copy(r).n = r.n
  BY DEF MovedTo
<1> HIDE DEF copy
<1> QED
  BY <1>1, <1>2 DEF Ids

\* ... keeps what the events say ...
LEMMA AppendedHas ==
  ASSUME NEW T, NEW R, NEW r \in R
  PROVE  \E s \in Appended(T, R) : s.n = r.n /\ s.doc = r.doc /\ s.type = r.type
<1> DEFINE copy == MovedTo(r, LastPosition(T) + Rank(r, R))
<1>1. copy \in Appended(T, R)
  BY DEF Appended
<1>2. copy.n = r.n /\ copy.doc = r.doc /\ copy.type = r.type
  BY DEF MovedTo
<1> QED
  BY <1>1, <1>2

\* ... and keeps them apart.
LEMMA AppendedApart ==
  ASSUME NEW T, NEW R, Apart(T), Apart(R), Ids(T) \cap Ids(R) = {}
  PROVE  Apart(Appended(T, R))
<1> SUFFICES ASSUME NEW r \in Appended(T, R), NEW s \in Appended(T, R), r.n = s.n
             PROVE  r = s
  BY DEF Apart
<1>1. CASE r \in T /\ s \in T
  BY <1>1 DEF Apart
<1>2. CASE r \in T /\ s \notin T
  <2>1. PICK x \in R : s.n = x.n
    BY <1>2 DEF Appended, MovedTo
  <2> QED
    BY <1>2, <2>1 DEF Ids
<1>3. CASE r \notin T /\ s \in T
  <2>1. PICK x \in R : r.n = x.n
    BY <1>3 DEF Appended, MovedTo
  <2> QED
    BY Zenon, <1>3, <2>1 DEF Ids
<1>4. CASE r \notin T /\ s \notin T
  <2>1. PICK x \in R : r = MovedTo(x, LastPosition(T) + Rank(x, R))
    BY <1>4 DEF Appended
  <2>2. PICK y \in R : s = MovedTo(y, LastPosition(T) + Rank(y, R))
    BY <1>4 DEF Appended
  <2>3. x = y
    BY <2>1, <2>2 DEF Apart, MovedTo
  <2> QED
    BY <2>1, <2>2, <2>3
<1> QED
  BY <1>1, <1>2, <1>3, <1>4

\* Removing rows removes their events.
LEMMA MinusIds ==
  ASSUME NEW T, NEW S, S \subseteq T, Apart(T)
  PROVE  Ids(T \ S) = Ids(T) \ Ids(S) /\ Apart(T \ S) /\ Apart(S)
BY DEF Ids, Apart

\* claimRow moves a batch of what is queued in flight.
LEMMA ClaimMoves ==
  ASSUME NEW queued, NEW flying, ClaimRow(queued, flying),
         Apart(queued), Apart(flying), Ids(queued) \cap Ids(flying) = {}
  PROVE  \E batch \in SUBSET queued :
           /\ claim' = [token |-> tokens + 1, lease |-> "live", batch |-> batch]
           /\ tokens' = tokens + 1 /\ published' = published
           /\ Ids(backlog') = Ids(queued) \ Ids(batch)
           /\ Ids(inflight') = Ids(flying) \cup Ids(batch)
           /\ Apart(backlog') /\ Apart(inflight')
           /\ \A b \in batch : \E r \in inflight' : r.n = b.n /\ r.doc = b.doc /\ r.type = b.type
<1> DEFINE batch == Oldest(queued)
<1>1. batch \subseteq queued
  BY DEF Oldest
<1>2. /\ claim' = [token |-> tokens + 1, lease |-> "live", batch |-> batch]
      /\ tokens' = tokens + 1 /\ published' = published
      /\ backlog' = queued \ batch
      /\ inflight' = Appended(flying, batch)
  BY DEF ClaimRow
<1> HIDE DEF batch
<1>3. Ids(backlog') = Ids(queued) \ Ids(batch) /\ Apart(backlog') /\ Apart(batch)
  BY ZenonT(60), <1>1, <1>2, MinusIds
<1>4. Ids(inflight') = Ids(flying) \cup Ids(batch)
  BY <1>2, AppendedIds
<1>5. Ids(flying) \cap Ids(batch) = {}
  BY <1>1 DEF Ids
<1>6. Apart(inflight')
  BY <1>2, <1>3, <1>5, AppendedApart
<1>7. \A b \in batch : \E r \in inflight' : r.n = b.n /\ r.doc = b.doc /\ r.type = b.type
  BY <1>2, AppendedHas
<1> QED
  BY Zenon, <1>1, <1>2, <1>3, <1>4, <1>6, <1>7

-----------------------------------------------------------------------------
(* The kinds of steps.                                                     *)

\* w does not start to work, and if it goes on then with its batch.
Keeps(w) ==
  worker'[w].pc \in Busy =>
    worker[w].pc \in Busy /\ worker'[w].token = worker[w].token /\ worker'[w].batch = worker[w].batch

KeepStep == UNCHANGED queueVars /\ WorkerShape' /\ \A w \in Workers : Keeps(w)

\* Only the lease changes.
LeaseStep ==
  /\ UNCHANGED <<backlog, inflight, published, tokens, worker>>
  /\ ClaimShape' /\ claim'.token = claim.token /\ claim'.batch = claim.batch

PublishStep ==
  /\ \E row : row.n = published + 1 /\ backlog' = Appended(backlog, {row})
  /\ published' = published + 1
  /\ UNCHANGED <<inflight, claim, tokens, worker>>

TakeStep == \E w \in Workers : (ClaimReady \/ Reclaim) /\ Takes(w)

AckStep == \E w \in Workers :
  worker[w].pc \in Busy /\ Ack(worker[w].token, worker[w].batch) /\ Rests(w)

\* One worker's record is replaced.
LEMMA WorkerMoves ==
  ASSUME WorkerShape, NEW w \in Workers, NEW x, WorkerRecord(x),
         worker' = [worker EXCEPT ![w] = x],
         x.pc \in Busy => worker[w].pc \in Busy /\ x.token = worker[w].token /\ x.batch = worker[w].batch
  PROVE  WorkerShape' /\ \A v \in Workers : Keeps(v)
<1>1. worker' = [v \in Workers |-> IF v = w THEN x ELSE worker[v]]
  BY DEF WorkerShape
<1>2. \A v \in Workers : worker'[v] = IF v = w THEN x ELSE worker[v]
  BY <1>1
<1>3. worker' = [v \in Workers |-> worker'[v]]
  BY Zenon, <1>1
<1>4. \A v \in Workers : WorkerRecord(worker'[v])
  BY <1>2 DEF WorkerShape
<1>5. \A v \in Workers : Keeps(v)
  BY <1>2 DEF Keeps
<1> QED
  BY <1>3, <1>4, <1>5 DEF WorkerShape

\* A worker changes its place.
LEMMA PlaceMoves ==
  ASSUME WorkerShape, NEW w \in Workers, NEW p, Moves(w, p),
         p \in Busy => worker[w].pc \in Busy
  PROVE  WorkerShape' /\ \A v \in Workers : Keeps(v)
<1> DEFINE x == [worker[w] EXCEPT !.pc = p]
<1>1. WorkerRecord(worker[w])
  BY DEF WorkerShape
<1>2. WorkerRecord(x) /\ x.pc = p /\ x.token = worker[w].token /\ x.batch = worker[w].batch
  BY <1>1 DEF WorkerRecord
<1>3. worker' = [worker EXCEPT ![w] = x]
  BY DEF Moves
<1> HIDE DEF x
<1> QED
  BY Zenon, <1>2, <1>3, WorkerMoves

\* A worker rests.
LEMMA RestMoves ==
  ASSUME WorkerShape, NEW w \in Workers, Rests(w)
  PROVE  WorkerShape' /\ \A v \in Workers : Keeps(v)
<1>1. WorkerRecord(Idle) /\ Idle.pc \notin Busy
  BY DEF WorkerRecord, Idle, Busy
<1>2. worker' = [worker EXCEPT ![w] = Idle]
  BY DEF Rests
<1> QED
  BY Zenon, <1>1, <1>2, WorkerMoves

\* publishEntry
LEMMA PublishAdds ==
  ASSUME NEW d, NEW type, NEW variants, PublishEntry(d, type, variants), worker' = worker
  PROVE  PublishStep
<1> DEFINE row == [pos |-> 0, n |-> published + 1, doc |-> d, type |-> type, variants |-> variants]
<1>1. row.n = published + 1
  OBVIOUS
<1>2. /\ backlog' = Appended(backlog, {row})
      /\ published' = published + 1
      /\ UNCHANGED <<inflight, claim, tokens>>
  BY DEF PublishEntry
<1> HIDE DEF row
<1> QED
  BY <1>1, <1>2 DEF PublishStep

\* Requests, their reports and dirty workers publish, or leave the queue alone.
LEMMA ProducerKinds ==
  ASSUME WorkerShape,
         \/ DocsNext /\ UNCHANGED <<refresher, consumerVars>>
         \/ DirtyNext /\ UNCHANGED consumerVars
  PROVE  KeepStep \/ PublishStep
<1>1. worker' = worker
  BY DEF consumerVars
<1>2. ASSUME UNCHANGED queueVars
      PROVE  KeepStep
  BY <1>1, <1>2 DEF KeepStep, Keeps, WorkerShape, WorkerRecord
<1>3. CASE DocsNext
  <2>1. CASE UNCHANGED queueVars
    BY <2>1, <1>2
  <2>2. CASE \E a \in announced : ReportOne(a)
    <3>1. PICK a \in announced : ReportOne(a)
      BY <2>2
    <3>2. UNCHANGED queueVars \/ PublishEntry(a.doc, a.type, a.variants)
      BY <3>1 DEF ReportOne
    <3> QED
      BY <1>1, <1>2, <3>2, PublishAdds
  <2> QED
    BY <1>3, <2>1, <2>2 DEF DocsNext
<1>4. CASE DirtyNext
  <2>1. CASE \E d \in Docs : ExpireDirty(d)
    BY <2>1, <1>2 DEF ExpireDirty
  <2>2. CASE \E r \in Refreshers : RefresherStep(r) \/ DirtyError(r) \/ DirtyCrash(r)
    <3>1. PICK r \in Refreshers : RefresherStep(r) \/ DirtyError(r) \/ DirtyCrash(r)
      BY Zenon, <2>2
    <3>2. UNCHANGED queueVars \/ PublishEntry(refresher[r].doc, "completed", {"wiki"})
      BY Zenon, <3>1 DEF RefresherStep, ClaimDirty, ReadDirty, CheckRevision, WritePages, PublishPages,
                  SettleDirty, DirtyError, DirtyCrash
    <3> QED
      BY <1>1, <1>2, <3>2, PublishAdds
  <2> QED
    BY <1>4, <2>1, <2>2 DEF DirtyNext
<1> QED
  BY <1>3, <1>4

\* What a worker may do.
LEMMA WorkerKinds ==
  ASSUME WorkerShape, NEW w \in Workers, WorkerStep(w)
  PROVE  KeepStep \/ TakeStep \/ AckStep
<1>0. WorkerRecord(worker[w])
  BY DEF WorkerShape
<1>1. CASE TakeReady(w)
  BY <1>1 DEF TakeReady, TakeStep
<1>2. CASE LookForExpired(w)
  BY <1>2, PlaceMoves DEF LookForExpired, KeepStep, Busy
<1>3. CASE TakeExpired(w)
  BY <1>3, RestMoves DEF TakeExpired, TakeStep, KeepStep
<1>4. CASE Prepare(w)
  <2>1. PICK cur, tree, affected, p :
          /\ p \in Busy
          /\ worker' = [worker EXCEPT ![w].cur = cur, ![w].tree = tree, ![w].affected = affected, ![w].pc = p]
    BY ZenonT(60), <1>4 DEF Prepare, Busy
  <2> DEFINE x1 == [worker[w] EXCEPT !.cur = cur]
             x2 == [x1 EXCEPT !.tree = tree]
             x3 == [x2 EXCEPT !.affected = affected]
             x == [x3 EXCEPT !.pc = p]
  <2>2. worker' = [worker EXCEPT ![w] = x]
    BY Zenon, <2>1
  <2>3. WorkerRecord(x) /\ x.token = worker[w].token /\ x.batch = worker[w].batch
    <3>1. WorkerRecord(x1) /\ x1.token = worker[w].token /\ x1.batch = worker[w].batch
      BY <1>0 DEF WorkerRecord
    <3> HIDE DEF x1
    <3>2. WorkerRecord(x2) /\ x2.token = worker[w].token /\ x2.batch = worker[w].batch
      BY <3>1 DEF WorkerRecord
    <3> HIDE DEF x2
    <3>3. WorkerRecord(x3) /\ x3.token = worker[w].token /\ x3.batch = worker[w].batch
      BY <3>2 DEF WorkerRecord
    <3> HIDE DEF x3
    <3> QED
      BY <3>3 DEF WorkerRecord
  <2>4. worker[w].pc \in Busy /\ UNCHANGED queueVars
    BY Zenon, <1>4 DEF Prepare, Busy
  <2> HIDE DEF x
  <2> QED
    BY Zenon, <2>2, <2>3, <2>4, WorkerMoves DEF KeepStep
<1>5. CASE Superseded(w)
  BY Zenon, <1>5, RestMoves DEF Superseded, KeepStep
<1>6. CASE DeleteDocLevel(w)
  BY Zenon, <1>6, PlaceMoves DEF DeleteDocLevel, KeepStep, Busy
<1>7. CASE Strip(w)
  BY <1>7, PlaceMoves DEF Strip, KeepStep, Busy
<1>8. CASE RemoveNav(w)
  <2>1. PICK p : Moves(w, p)
    BY <1>8 DEF RemoveNav
  <2>2. worker[w].pc \in Busy /\ UNCHANGED queueVars
    BY ZenonT(60), <1>8 DEF RemoveNav, Busy
  <2> QED
    BY Zenon, <2>1, <2>2, PlaceMoves DEF KeepStep
<1>9. CASE Load(w)
  <2>1. PICK loaded : worker' = [worker EXCEPT ![w].pc = "nav", ![w].loaded = loaded]
    BY <1>9 DEF Load
  <2> DEFINE x1 == [worker[w] EXCEPT !.pc = "nav"]
             x == [x1 EXCEPT !.loaded = loaded]
  <2>2. worker' = [worker EXCEPT ![w] = x]
    BY Zenon, <2>1
  <2>3. WorkerRecord(x) /\ x.token = worker[w].token /\ x.batch = worker[w].batch
    <3>1. WorkerRecord(x1) /\ x1.token = worker[w].token /\ x1.batch = worker[w].batch
      BY <1>0 DEF WorkerRecord
    <3> HIDE DEF x1
    <3> QED
      BY <3>1 DEF WorkerRecord
  <2>4. worker[w].pc \in Busy /\ UNCHANGED queueVars
    BY <1>9 DEF Load, Busy
  <2> HIDE DEF x
  <2> QED
    BY ZenonT(60), <2>2, <2>3, <2>4, WorkerMoves DEF KeepStep
<1>10. CASE MergeNav(w)
  BY <1>10, PlaceMoves DEF MergeNav, KeepStep, Busy
<1>11. CASE WriteMerged(w)
  BY <1>11, PlaceMoves DEF WriteMerged, KeepStep, Busy
<1>12. CASE CommitContributions(w)
  BY <1>12, PlaceMoves DEF CommitContributions, KeepStep, Busy
<1>13. CASE AckBatch(w)
  BY <1>13, RestMoves DEF AckBatch, KeepStep, AckStep, Busy
<1> QED
  BY <1>1, <1>2, <1>3, <1>4, <1>5, <1>6, <1>7, <1>8, <1>9, <1>10, <1>11, <1>12, <1>13 DEF WorkerStep

\* Every step of the system is of one of these kinds.
LEMMA StepKinds ==
  ASSUME ClaimShape, WorkerShape, [Next]_vars
  PROVE  KeepStep \/ LeaseStep \/ PublishStep \/ TakeStep \/ AckStep
<1>0. ASSUME UNCHANGED queueVars, worker' = worker
      PROVE  KeepStep
  BY <1>0 DEF KeepStep, Keeps, WorkerShape, WorkerRecord
<1>1. ASSUME NEW lease, claim' = [claim EXCEPT !.lease = lease],
             UNCHANGED <<backlog, inflight, published, tokens>>, worker' = worker
      PROVE  LeaseStep
  BY <1>1 DEF LeaseStep, ClaimShape
<1>2. CASE UNCHANGED vars
  BY <1>2, <1>0 DEF vars, consumerVars
<1>3. CASE \/ DocsNext /\ UNCHANGED <<refresher, consumerVars>>
           \/ DirtyNext /\ UNCHANGED consumerVars
  BY <1>3, ProducerKinds
<1>4. CASE LeaseExpires
  BY <1>4, <1>1 DEF LeaseExpires, ExpireLease, consumerVars
<1>5. CASE \E w \in Workers : WorkerStep(w) \/ Heartbeat(w) \/ Abort(w)
  <2>1. PICK w \in Workers : WorkerStep(w) \/ Heartbeat(w) \/ Abort(w)
    BY <1>5
  <2>2. CASE WorkerStep(w)
    BY <2>2, WorkerKinds
  <2>3. CASE Abort(w)
    BY <2>3, RestMoves DEF Abort, KeepStep
  <2>4. CASE Heartbeat(w)
    <3>1. CASE TouchClaim(worker[w].token) /\ UNCHANGED worker
      BY <3>1, <1>1 DEF TouchClaim
    <3>2. CASE worker' = [worker EXCEPT ![w].hb = FALSE] /\ UNCHANGED queueVars
      <4>0. PICK hb : worker' = [worker EXCEPT ![w].hb = hb]
        BY Zenon, <3>2
      <4> DEFINE x == [worker[w] EXCEPT !.hb = hb]
      <4>1. WorkerRecord(worker[w])
        BY DEF WorkerShape
      <4>2. /\ WorkerRecord(x) /\ x.pc = worker[w].pc
            /\ x.token = worker[w].token /\ x.batch = worker[w].batch
        BY <4>1 DEF WorkerRecord
      <4>3. worker' = [worker EXCEPT ![w] = x]
        BY <4>0
      <4> HIDE DEF x
      <4> QED
        BY Zenon, <3>2, <4>2, <4>3, WorkerMoves DEF KeepStep
    <3> QED
      BY <2>4, <3>1, <3>2 DEF Heartbeat
  <2> QED
    BY Zenon, <2>1, <2>2, <2>3, <2>4
<1> QED
  BY Zenon, <1>2, <1>3, <1>4, <1>5 DEF Next, ConsumerNext

-----------------------------------------------------------------------------
(* The inductive invariant.                                                *)

LEMMA LInvInit == Init => LInv
<1> SUFFICES ASSUME Init PROVE LInv
  OBVIOUS
<1>1. /\ backlog = {} /\ inflight = {} /\ claim = NoClaim /\ published = 0 /\ tokens = 0
      /\ worker = [w \in Workers |-> Idle]
  BY DEF Init, QueueInit, ConsumerInit
<1>2. ClaimShape /\ claim.token = 0
  BY Zenon, <1>1 DEF ClaimShape, NoClaim
<1>3. WorkerRecord(Idle) /\ Idle.pc \notin Busy
  BY DEF WorkerRecord, Idle, Busy
<1>4. WorkerShape /\ \A w \in Workers : worker[w].pc \notin Busy
  BY <1>1, <1>3 DEF WorkerShape
<1>5. RowsApart
  BY Zenon, <1>1 DEF RowsApart, Apart, Ids
<1>6. TokensApart /\ \A w \in Workers : Holds(w)
  BY <1>1, <1>2, <1>4 DEF TokensApart, Holds
<1> QED
  BY <1>2, <1>4, <1>5, <1>6 DEF LInv

\* Steps that move no event.
LEMMA LInvKeep ==
  ASSUME LInv, KeepStep \/ LeaseStep
  PROVE  LInv'
<1>1. /\ UNCHANGED <<backlog, inflight, published, tokens>>
      /\ ClaimShape' /\ claim'.token = claim.token /\ claim'.batch = claim.batch
  BY Zenon DEF LInv, KeepStep, LeaseStep, queueVars, ClaimShape
<1>2. WorkerShape' /\ \A w \in Workers : Keeps(w)
  BY Zenon DEF LInv, KeepStep, LeaseStep, Keeps, WorkerShape, WorkerRecord
<1>3. RowsApart'
  BY Zenon, <1>1 DEF LInv, RowsApart, Apart, Ids
<1>4. TokensApart'
  BY Zenon, <1>1, <1>2 DEF LInv, TokensApart, Keeps
<1>5. \A w \in Workers : Holds(w)'
  BY <1>1, <1>2 DEF LInv, Holds, Keeps
<1> QED
  BY Zenon, <1>1, <1>2, <1>3, <1>4, <1>5 DEF LInv

\* A new event has a new number.
LEMMA LInvPublish ==
  ASSUME LInv, PublishStep
  PROVE  LInv' /\ Ids(backlog') = Ids(backlog) \cup {published + 1}
<1>1. PICK row : row.n = published + 1 /\ backlog' = Appended(backlog, {row})
  BY DEF PublishStep
<1>2. published' = published + 1 /\ UNCHANGED <<inflight, claim, tokens, worker>>
  BY DEF PublishStep
<1>3. Ids({row}) = {published + 1} /\ Apart({row})
  BY <1>1 DEF Ids, Apart
<1>4. Ids(backlog') = Ids(backlog) \cup {published + 1}
  BY Zenon, <1>1, <1>3, AppendedIds
<1>5. Ids(backlog) \cup Ids(inflight) \subseteq 1 .. published /\ published \in Nat
  BY DEF LInv, RowsApart
<1>6. Ids(backlog) \cap Ids({row}) = {}
  BY <1>3, <1>5
<1>7. Apart(backlog')
  BY Zenon, <1>1, <1>3, <1>6, AppendedApart DEF LInv, RowsApart
<1>8. Ids(inflight') = Ids(inflight) /\ Apart(inflight')
  BY <1>2 DEF LInv, RowsApart, Ids
<1>9. RowsApart'
  <2>1. Ids(backlog') \cap Ids(inflight') = {}
    BY <1>4, <1>5, <1>8 DEF LInv, RowsApart
  <2>2. Ids(backlog') \cup Ids(inflight') \subseteq 1 .. published' /\ published' \in Nat
    BY <1>2, <1>4, <1>5, <1>8
  <2> QED
    BY Zenon, <1>7, <1>8, <2>1, <2>2 DEF RowsApart
<1>10. ClaimShape' /\ WorkerShape' /\ TokensApart'
  BY Zenon, <1>2 DEF LInv, ClaimShape, WorkerShape, WorkerRecord, TokensApart
<1>11. \A w \in Workers : Holds(w)'
  BY Zenon, <1>2 DEF LInv, Holds
<1> QED
  BY Zenon, <1>4, <1>9, <1>10, <1>11 DEF LInv

\* A new claim has a new token, and what was granted with it is in flight.
LEMMA LInvTake ==
  ASSUME LInv, TakeStep
  PROVE  /\ LInv'
         /\ \E back \in {{}, Ids(inflight)} : \E grant \in SUBSET (Ids(backlog) \cup back) :
              /\ Ids(backlog') = (Ids(backlog) \cup back) \ grant
              /\ Ids(inflight') = (Ids(inflight) \ back) \cup grant
              /\ claim'.token = tokens + 1 /\ Ids(claim'.batch) = grant
              /\ tokens' = tokens + 1 /\ published' = published
<1>1. PICK w \in Workers : (ClaimReady \/ Reclaim) /\ Takes(w)
  BY DEF TakeStep
<1>2. /\ Apart(backlog) /\ Apart(inflight) /\ Ids(backlog) \cap Ids(inflight) = {}
      /\ Ids(backlog) \cup Ids(inflight) \subseteq 1 .. published /\ published \in Nat
  BY DEF LInv, RowsApart
<1>a. PICK queued, flying :
        /\ ClaimRow(queued, flying) /\ Apart(queued) /\ Apart(flying)
        /\ \/ Ids(queued) = Ids(backlog) /\ Ids(flying) = Ids(inflight)
           \/ Ids(queued) = Ids(backlog) \cup Ids(inflight) /\ Ids(flying) = {}
  <2>1. CASE ClaimReady
    <3> WITNESS backlog, inflight
    <3> QED
      BY Zenon, <1>2, <2>1 DEF ClaimReady
  <2>2. CASE Reclaim
    <3>1. ClaimRow(Appended(backlog, inflight), {})
      BY <2>2 DEF Reclaim
    <3>2. Ids(Appended(backlog, inflight)) = Ids(backlog) \cup Ids(inflight)
      BY Zenon, AppendedIds
    <3>3. Apart(Appended(backlog, inflight))
      BY Zenon, <1>2, AppendedApart
    <3>4. Apart({}) /\ Ids({}) = {}
      BY DEF Apart, Ids
    <3> WITNESS Appended(backlog, inflight), {}
    <3> QED
      BY <3>1, <3>2, <3>3, <3>4
  <2> QED
    BY <1>1, <2>1, <2>2
<1>3. PICK back \in {{}, Ids(inflight)} :
        Ids(queued) = Ids(backlog) \cup back /\ Ids(flying) = Ids(inflight) \ back
  BY <1>a
<1>4. Ids(queued) \cap Ids(flying) = {}
  BY Zenon, <1>2, <1>3
<1>5. PICK batch \in SUBSET queued :
        /\ claim' = [token |-> tokens + 1, lease |-> "live", batch |-> batch]
        /\ tokens' = tokens + 1 /\ published' = published
        /\ Ids(backlog') = Ids(queued) \ Ids(batch)
        /\ Ids(inflight') = Ids(flying) \cup Ids(batch)
        /\ Apart(backlog') /\ Apart(inflight')
        /\ \A b \in batch : \E r \in inflight' : r.n = b.n /\ r.doc = b.doc /\ r.type = b.type
  BY <1>a, <1>4, ClaimMoves
<1>6. Ids(batch) \subseteq Ids(queued)
  BY Zenon DEF Ids
<1>7. ClaimShape' /\ claim'.token = tokens + 1 /\ claim'.batch = batch
  BY Zenon, <1>5 DEF ClaimShape
<1>8. RowsApart'
  <2>1. Ids(backlog') \cap Ids(inflight') = {}
    BY Zenon, <1>4, <1>5, <1>6
  <2>2. Ids(backlog') \cup Ids(inflight') \subseteq 1 .. published' /\ published' \in Nat
    BY Zenon, <1>2, <1>3, <1>5, <1>6
  <2> QED
    BY Zenon, <1>5, <2>1, <2>2 DEF RowsApart
<1>b. PICK hb : worker' = [worker EXCEPT ![w] =
        [Idle EXCEPT !.pc = "prepare", !.token = tokens + 1, !.batch = batch, !.hb = hb]]
  BY Zenon, <1>1, <1>7 DEF Takes
<1> DEFINE x1 == [Idle EXCEPT !.pc = "prepare"]
           x2 == [x1 EXCEPT !.token = tokens + 1]
           x3 == [x2 EXCEPT !.batch = batch]
           x == [x3 EXCEPT !.hb = hb]
<1>9. worker' = [worker EXCEPT ![w] = x]
  BY <1>b
<1>10. WorkerRecord(x) /\ x.token = tokens + 1 /\ x.batch = batch
  <2>1. WorkerRecord(Idle)
    BY DEF WorkerRecord, Idle
  <2>2. WorkerRecord(x1)
    BY <2>1 DEF WorkerRecord
  <2> HIDE DEF x1
  <2>3. WorkerRecord(x2) /\ x2.token = tokens + 1
    BY <2>2 DEF WorkerRecord
  <2> HIDE DEF x2
  <2>4. WorkerRecord(x3) /\ x3.token = tokens + 1 /\ x3.batch = batch
    BY <2>3 DEF WorkerRecord
  <2> HIDE DEF x3
  <2> QED
    BY <2>4 DEF WorkerRecord
<1> HIDE DEF x
<1>11. worker' = [v \in Workers |-> IF v = w THEN x ELSE worker[v]]
  BY <1>9 DEF LInv, WorkerShape
<1>12. \A v \in Workers : worker'[v] = IF v = w THEN x ELSE worker[v]
  BY <1>11
<1>13. WorkerShape'
  <2>1. worker' = [v \in Workers |-> worker'[v]]
    BY ZenonT(60), <1>11
  <2> QED
    BY <2>1, <1>10, <1>12 DEF LInv, WorkerShape
<1>14. TokensApart'
  BY <1>5, <1>7, <1>10, <1>12 DEF LInv, TokensApart
<1>15. \A v \in Workers : Holds(v)'
  <2> SUFFICES ASSUME NEW v \in Workers PROVE Holds(v)'
    BY Zenon
  <2>1. CASE v = w
    BY Zenon, <2>1, <1>5, <1>7, <1>10, <1>12 DEF Holds
  <2>2. CASE v # w
    <3>1. worker'[v] = worker[v]
      BY ZenonT(60), <2>2, <1>12
    <3>2. worker[v].pc \in Busy => worker[v].token # tokens + 1
      BY DEF LInv, TokensApart
    <3> QED
      BY Zenon, <3>1, <3>2, <1>7 DEF Holds
  <2> QED
    BY <2>1, <2>2
<1>16. LInv'
  BY ZenonT(60), <1>7, <1>8, <1>13, <1>14, <1>15 DEF LInv
<1>17. \E grant \in SUBSET (Ids(backlog) \cup back) :
         /\ Ids(backlog') = (Ids(backlog) \cup back) \ grant
         /\ Ids(inflight') = (Ids(inflight) \ back) \cup grant
         /\ claim'.token = tokens + 1 /\ Ids(claim'.batch) = grant
         /\ tokens' = tokens + 1 /\ published' = published
  <2>1. Ids(batch) \in SUBSET (Ids(backlog) \cup back)
    BY Zenon, <1>3, <1>6
  <2>2. /\ Ids(backlog') = (Ids(backlog) \cup back) \ Ids(batch)
        /\ Ids(inflight') = (Ids(inflight) \ back) \cup Ids(batch)
        /\ claim'.token = tokens + 1 /\ Ids(claim'.batch) = Ids(batch)
        /\ tokens' = tokens + 1 /\ published' = published
    BY Zenon, <1>3, <1>5, <1>7
  <2> QED
    BY <2>1, <2>2
<1> QED
  BY <1>16, <1>17

\* An ack with the valid token settles what was granted with it.
LEMMA LInvAck ==
  ASSUME LInv, AckStep
  PROVE  /\ LInv'
         /\ \E done \in SUBSET Ids(inflight) :
              /\ claim.token # 0 /\ Ids(claim.batch) \subseteq done
              /\ Ids(inflight') = Ids(inflight) \ done
              /\ \/ Ids(inflight') = {} /\ claim'.token = 0 /\ Ids(claim'.batch) = {}
                 \/ Ids(inflight') # {} /\ claim' = claim
              /\ UNCHANGED <<published, backlog, tokens>>
<1>1. PICK w \in Workers : worker[w].pc \in Busy /\ Ack(worker[w].token, worker[w].batch) /\ Rests(w)
  BY Zenon DEF AckStep
<1> DEFINE rows == Acked(worker[w].batch)
<1>2. /\ claim.token = worker[w].token
      /\ inflight' = inflight \ rows
      /\ claim' = IF inflight' = {} THEN NoClaim ELSE claim
      /\ UNCHANGED <<backlog, published, tokens>>
  BY Zenon, <1>1 DEF Ack
<1>3. /\ worker[w].batch = claim.batch
      /\ \A b \in claim.batch : \E r \in inflight : r.n = b.n /\ r.doc = b.doc /\ r.type = b.type
  BY Zenon, <1>1, <1>2 DEF LInv, Holds
<1>4. rows \subseteq inflight /\ Ids(claim.batch) \subseteq Ids(rows)
  BY <1>3 DEF Acked, Ids
<1> HIDE DEF rows
<1>5. Ids(inflight') = Ids(inflight) \ Ids(rows) /\ Apart(inflight')
  BY Zenon, <1>2, <1>4, MinusIds DEF LInv, RowsApart
<1>6. NoClaim.token = 0 /\ NoClaim.batch = {} /\ Ids({}) = {}
  BY DEF NoClaim, Ids
<1>7. ClaimShape'
  BY <1>2 DEF LInv, ClaimShape, NoClaim
<1>8. claim'.token \in {0, claim.token} /\ claim.token \in 1 .. tokens /\ tokens \in Nat
  BY <1>1, <1>2, <1>6 DEF LInv, TokensApart
<1>9. RowsApart'
  BY Zenon, <1>2, <1>5 DEF LInv, RowsApart
<1>10. WorkerShape' /\ \A v \in Workers : Keeps(v)
  BY <1>1, RestMoves DEF LInv
<1>11. worker'[w].pc \notin Busy
  BY Zenon, <1>1 DEF LInv, WorkerShape, Rests, Idle, Busy
<1>12. TokensApart'
  BY <1>2, <1>8, <1>10 DEF LInv, TokensApart, Keeps
<1>13. \A v \in Workers : Holds(v)'
  <2> SUFFICES ASSUME NEW v \in Workers, worker'[v].pc \in Busy PROVE worker'[v].token # claim'.token
    BY Zenon DEF Holds
  <2>1. v # w /\ worker[v].pc \in Busy /\ worker'[v].token = worker[v].token
    BY ZenonT(60), <1>10, <1>11 DEF Keeps
  <2>2. worker[v].token # worker[w].token /\ worker[v].token \in 1 .. tokens
    BY <1>1, <2>1 DEF LInv, TokensApart
  <2> QED
    BY <1>2, <1>8, <2>1, <2>2
<1>14. Ids(inflight') = {} <=> inflight' = {}
  BY Zenon DEF Ids
<1>15. LInv'
  BY ZenonT(60), <1>7, <1>9, <1>10, <1>12, <1>13 DEF LInv
<1>16. /\ Ids(rows) \in SUBSET Ids(inflight)
       /\ claim.token # 0 /\ Ids(claim.batch) \subseteq Ids(rows)
       /\ Ids(inflight') = Ids(inflight) \ Ids(rows)
       /\ \/ Ids(inflight') = {} /\ claim'.token = 0 /\ Ids(claim'.batch) = {}
          \/ Ids(inflight') # {} /\ claim' = claim
       /\ UNCHANGED <<published, backlog, tokens>>
  <2>1. Ids(rows) \in SUBSET Ids(inflight)
    BY <1>4 DEF Ids
  <2> QED
    BY <1>2, <1>4, <1>5, <1>6, <1>8, <1>14, <2>1
<1> QED
  BY <1>15, <1>16

-----------------------------------------------------------------------------
(* Refinement.                                                             *)

\* Every step of the system is a step of the ledger or leaves it alone, and keeps
\* the invariant.
LEMMA LedgerStep ==
  ASSUME LInv, [Next]_vars
  PROVE  LInv' /\ [Ledger!Next]_Ledger!vars
<1>1. KeepStep \/ LeaseStep \/ PublishStep \/ TakeStep \/ AckStep
  BY StepKinds DEF LInv
<1>2. CASE KeepStep \/ LeaseStep
  <2>1. LInv'
    BY Zenon, <1>2, LInvKeep
  <2>2. /\ UNCHANGED <<backlog, inflight, published, tokens>>
        /\ claim'.token = claim.token /\ claim'.batch = claim.batch
    BY Zenon, <1>2 DEF KeepStep, LeaseStep, queueVars
  <2>3. UNCHANGED Ledger!vars
    BY <2>2 DEF Ledger!vars, Ids
  <2> QED
    BY <2>1, <2>3
<1>3. CASE PublishStep
  <2>1. published' = published + 1 /\ UNCHANGED <<inflight, claim, tokens>>
    BY <1>3 DEF PublishStep
  <2>2. Ledger!Publish
    BY Zenon, <1>3, <2>1, LInvPublish DEF Ledger!Publish
  <2> QED
    BY <1>3, <2>2, LInvPublish DEF Ledger!Next
<1>4. CASE TakeStep
  <2>1. Ledger!Take
    BY <1>4, LInvTake DEF Ledger!Take
  <2> QED
    BY ZenonT(60), <1>4, <2>1, LInvTake DEF Ledger!Next
<1>5. CASE AckStep
  <2>1. Ledger!Settle
    BY <1>5, LInvAck DEF Ledger!Settle
  <2> QED
    BY Zenon, <1>5, <2>1, LInvAck DEF Ledger!Next
<1> QED
  BY <1>1, <1>2, <1>3, <1>4, <1>5

\* publishEntry, claimRow, reclaimOne, requeueInflight, TouchClaim and Ack implement
\* the ledger of events, whatever consumers, dirty workers and requests do: no event
\* is lost, and none is settled but by the holder of the latest token, together
\* with its whole batch.
THEOREM ImplementsLedger == Spec => LedgerSpec
<1>1. Init => LInv /\ Ledger!Init
  <2> SUFFICES ASSUME Init PROVE Ledger!Init
    BY LInvInit
  <2>1. backlog = {} /\ inflight = {} /\ claim = NoClaim /\ published = 0 /\ tokens = 0
    BY Zenon DEF Init, QueueInit
  <2>2. claim.token = 0 /\ claim.batch = {}
    BY Zenon, <2>1 DEF NoClaim
  <2> QED
    BY <2>1, <2>2 DEF Ledger!Init, Ids
<1>2. LInv /\ [Next]_vars => LInv' /\ [Ledger!Next]_Ledger!vars
  BY LedgerStep
<1> QED
  BY <1>1, <1>2, PTL DEF Spec, LedgerSpec, Ledger!Spec
=============================================================================
