---------------------------- MODULE CompileQueue ----------------------------
(***************************************************************************)
(* The scheduler of knowledge compilation for one dataset: the backlog and *)
(* the in-flight table, both ordered by queue_position, and the claim on   *)
(* the dataset's row.  Every operator is one transaction that holds the    *)
(* row lock.  Time is the state of the lease: it runs out in ExpireLease.  *)
(***************************************************************************)
EXTENDS Integers, FiniteSets, FiniteSetsExt

CONSTANTS Docs,       \* documents of the dataset
          BatchSize,  \* claimBatchSize
          MaxEvents,  \* bound: events published
          MaxClaims   \* bound: claims taken

ASSUME QueueBounds == BatchSize \in Nat \ {0} /\ MaxEvents \in Nat /\ MaxClaims \in Nat

VARIABLES backlog,    \* rows of knowledge_compile_backlog
          inflight,   \* rows of knowledge_compile_inflight
          claim,      \* claim_token, claim_expires_at and what was handed out
          published,  \* events published so far; row.n is its event's number
          tokens      \* claims taken so far; the last one has this token

queueVars == <<backlog, inflight, claim, published, tokens>>

EventTypes == {"completed", "deleted", "disabled", "enabled"}

\* Compile products with a dataset-level counterpart: Wiki pages, and the
\* Tree and PageIndex summaries that feed the navigation tree.
Variants == {"wiki", "nav"}

Row == [pos : Nat, n : Nat, doc : Docs, type : EventTypes, variants : SUBSET Variants]

NoClaim == [token |-> 0, lease |-> "none", batch |-> {}]

\* "neither queue has a primary key": what appendQueueEntries, requeueInflight and
\* claimRow allocate must still be distinct, since claimRow deletes by position.
Ordered(table) == \A r, s \in table : r.pos = s.pos => r = s

QueueTypeOK ==
  /\ backlog \subseteq Row /\ Ordered(backlog)
  /\ inflight \subseteq Row /\ Ordered(inflight)
  /\ claim \in [token : 0 .. MaxClaims, lease : {"none", "live", "expired"}, batch : SUBSET Row]
  /\ claim.token = 0 <=> claim.batch = {}
  /\ published \in 0 .. MaxEvents
  /\ tokens \in 0 .. MaxClaims

QueueInit ==
  /\ backlog = {} /\ inflight = {}
  /\ claim = NoClaim
  /\ published = 0 /\ tokens = 0

-----------------------------------------------------------------------------
LastPosition(table) == IF table = {} THEN 0 ELSE Max({r.pos : r \in table})

\* Rows at or before r.
Rank(r, table) == Cardinality({s \in table : s.pos <= r.pos})

MovedTo(r, p) == [pos |-> p, n |-> r.n, doc |-> r.doc, type |-> r.type, variants |-> r.variants]

\* Mutant of Appended: positions start at 1 again.
AppendedAgain(table, rows) == table \cup {MovedTo(r, Rank(r, rows)) : r \in rows}

\* appendQueueEntries and requeueInflight: the rows follow the table's last one,
\* in their own order.
Appended(table, rows) == table \cup {MovedTo(r, LastPosition(table) + Rank(r, rows)) : r \in rows}

\* publishEntry.  The notification that follows only saves a poll.
PublishEntry(d, type, variants) ==
  /\ published < MaxEvents
  /\ published' = published + 1
  /\ backlog' = Appended(backlog, {[pos |-> 0, n |-> published + 1, doc |-> d, type |-> type, variants |-> variants]})
  /\ UNCHANGED <<inflight, claim, tokens>>

LiveLease == claim.lease = "live"

\* The BatchSize oldest rows.
Oldest(table) == {r \in table : Rank(r, table) <= BatchSize}

\* claimRow on these two tables: move a closed batch in flight, issue a token.
ClaimRow(queued, flying) ==
  LET batch == Oldest(queued) IN
  /\ queued # {}
  /\ tokens < MaxClaims
  /\ tokens' = tokens + 1
  /\ claim' = [token |-> tokens + 1, lease |-> "live", batch |-> batch]
  /\ backlog' = queued \ batch
  /\ inflight' = Appended(flying, batch)
  /\ UNCHANGED published

\* Claim, and the first branch of TryClaim: the rows a dead worker left in
\* flight stay there.
ClaimReady ==
  /\ ~ LiveLease
  /\ ClaimRow(backlog, inflight)

\* The second branch of TryClaim: reclaimOne, then claimRow.  The first branch saw
\* no backlog, but an event may have come since: what was in flight goes after it.
Reclaim ==
  /\ inflight # {} /\ claim.lease = "expired"
  /\ ClaimRow(Appended(backlog, inflight), {})

\* The rows an ack of this batch removes.
Acked(batch) == {r \in inflight : \E b \in batch : r.doc = b.doc /\ r.type = b.type}

\* Mutant of Ack: the token is not compared.
AckBlindly(token, batch) ==
  /\ inflight' = inflight \ Acked(batch)
  /\ claim' = IF inflight' = {} THEN NoClaim ELSE claim
  /\ UNCHANGED <<backlog, published, tokens>>

\* Ack: the claim is cleared only when nothing is left in flight.
Ack(token, batch) ==
  /\ claim.token = token
  /\ inflight' = inflight \ Acked(batch)
  /\ claim' = IF inflight' = {} THEN NoClaim ELSE claim
  /\ UNCHANGED <<backlog, published, tokens>>

\* TouchClaim: revives a lease that ran out as long as nobody took over.
TouchClaim(token) ==
  /\ claim.token = token
  /\ claim' = [claim EXCEPT !.lease = "live"]
  /\ UNCHANGED <<backlog, inflight, published, tokens>>

ExpireLease ==
  /\ LiveLease
  /\ claim' = [claim EXCEPT !.lease = "expired"]
  /\ UNCHANGED <<backlog, inflight, published, tokens>>
=============================================================================
