--------------------------- MODULE CompileConsumer ---------------------------
(***************************************************************************)
(* The workers that merge document-level products into the dataset: claim  *)
(* a batch, compare contributions, retract, load, merge, commit, ack.  A   *)
(* destructive step runs under the row lock and first compares tokens.     *)
(* One Wiki page stands for all of them: every document contributes to it. *)
(***************************************************************************)
EXTENDS WikiDirty

CONSTANT Workers

VARIABLES worker,
          merged,   \* version of each document in the text of the merged page
          sources,  \* source_doc_ids of the merged page; none: there is no page
          navs,     \* version of each document in the navigation tree
          contrib   \* stored Wiki contribution of each document

productVars == <<merged, sources, navs, contrib>>
consumerVars == <<worker, productVars>>
producerVars == <<docVars, dirty, refresher, announced, scenario, requests>>

Nothing == [d \in Docs |-> 0]

Idle == [pc |-> "idle", token |-> 0, batch |-> {}, hb |-> FALSE,
         cur |-> Nothing, tree |-> Nothing, affected |-> FALSE, loaded |-> Nothing]

Busy == {"prepare", "doclevel", "strip", "unnav", "load", "nav", "write", "commit", "ack"}

ConsumerTypeOK ==
  /\ worker \in [Workers ->
       [pc : Busy \cup {"idle", "sweep"}, token : 0 .. MaxClaims, batch : SUBSET Row, hb : BOOLEAN,
        cur : [Docs -> Version], tree : [Docs -> Version], affected : BOOLEAN, loaded : [Docs -> Version]]]
  /\ merged \in [Docs -> Version] /\ navs \in [Docs -> Version] /\ contrib \in [Docs -> Version]
  /\ sources \subseteq Docs

ConsumerInit ==
  /\ worker = [w \in Workers |-> Idle]
  /\ merged = Nothing /\ navs = Nothing /\ contrib = Nothing
  /\ sources = {}

-----------------------------------------------------------------------------
(* Classification: the last event of a document decides.                   *)

Named(b) == {r.doc : r \in b}

\* Mutant of Last: the first event decides.
First(b, d) == CHOOSE r \in b : r.doc = d /\ \A s \in b : s.doc = d => s.pos >= r.pos

Last(b, d) == CHOOSE r \in b : r.doc = d /\ \A s \in b : s.doc = d => s.pos <= r.pos

Ending(b, types) == {d \in Named(b) : Last(b, d).type \in types}

Completed(b) == Ending(b, {"completed", "enabled"})
Deleted(b) == Ending(b, {"deleted"})
Retracted(b) == Ending(b, {"deleted", "disabled"})

\* Products of the variants the event names.
Selected(b, variant, version) ==
  [d \in Docs |-> IF d \in Completed(b) /\ variant \in Last(b, d).variants THEN version[d] ELSE 0]

\* The contribution a document made before: the stored one, or the merged page
\* if it names the document, whose text equals the document's if it is the only one.
Previous(d) ==
  IF contrib[d] # 0 THEN {contrib[d]}
  ELSE IF d \notin sources THEN {0}
  ELSE IF sources = {d} THEN {merged[d]}
  ELSE {}

-----------------------------------------------------------------------------
Moves(w, pc) == worker' = [worker EXCEPT ![w].pc = pc]
Rests(w) == worker' = [worker EXCEPT ![w] = Idle]

HasClaim(w) == claim.token = worker[w].token

Takes(w) ==
  worker' = [worker EXCEPT ![w] =
    [Idle EXCEPT !.pc = "prepare", !.token = claim'.token, !.batch = claim'.batch, !.hb = TRUE]]

\* claimAndProcess, tryClaimAndProcess: a ready batch ...
TakeReady(w) ==
  /\ worker[w].pc = "idle"
  /\ ClaimReady
  /\ Takes(w)
  /\ UNCHANGED <<productVars, producerVars, faults>>

\* Mutant of LookForExpired: only datasets with backlog are looked at.
LookForBacklog(w) ==
  /\ worker[w].pc = "idle"
  /\ backlog # {} /\ inflight # {} /\ claim.lease = "expired"
  /\ Moves(w, "sweep")
  /\ UNCHANGED <<productVars, producerVars, faults, queueVars>>

\* ... or, when there is none, a dead worker's batch: look for it, then lock.
LookForExpired(w) ==
  /\ worker[w].pc = "idle"
  /\ backlog = {} /\ inflight # {} /\ claim.lease = "expired"
  /\ Moves(w, "sweep")
  /\ UNCHANGED <<productVars, producerVars, faults, queueVars>>

TakeExpired(w) ==
  /\ worker[w].pc = "sweep"
  /\ \/ Reclaim /\ Takes(w)
     \/ (inflight = {} \/ claim.lease # "expired") /\ Rests(w) /\ UNCHANGED queueVars
  /\ UNCHANGED <<productVars, producerVars, faults>>

\* prepareWikiContributionDiff and the choice of what is to be done.
Prepare(w) ==
  LET b == worker[w].batch
      cur == Selected(b, "wiki", pages)
      affected == \E d \in Named(b) : Previous(d) # {cur[d]}
      wikiOnly == \A d \in Completed(b) : Last(b, d).variants = {"wiki"}
  IN /\ worker[w].pc = "prepare"
     /\ worker' = [worker EXCEPT ![w].cur = cur, ![w].tree = Selected(b, "nav", trees), ![w].affected = affected,
          ![w].pc = IF Retracted(b) = {} /\ wikiOnly /\ ~ affected THEN "ack"
                    ELSE IF Deleted(b) # {} THEN "doclevel"
                    ELSE IF Retracted(b) # {} THEN "strip"
                    ELSE "load"]
     /\ UNCHANGED <<productVars, producerVars, faults, queueVars>>

\* withWriteLock: a worker whose claim was taken over gives up.
Superseded(w) ==
  /\ worker[w].pc \in {"doclevel", "strip", "unnav", "nav", "write"}
  /\ ~ HasClaim(w)
  /\ Rests(w)
  /\ UNCHANGED <<productVars, producerVars, faults, queueVars>>

\* DeleteDocLevelForDocs: whatever the documents have now, source chunks included.
DeleteDocLevel(w) ==
  LET kept(version) == [d \in Docs |-> IF d \in Deleted(worker[w].batch) THEN 0 ELSE version[d]] IN
  /\ worker[w].pc = "doclevel" /\ HasClaim(w)
  /\ src' = kept(src) /\ pages' = kept(pages) /\ trees' = kept(trees)
  /\ Moves(w, "strip")
  /\ UNCHANGED <<productVars, doc, mapped, dirty, refresher, announced, scenario, requests, faults, queueVars>>

\* StripMergedSources: a page without sources is deleted, the text of others stays.
Strip(w) ==
  /\ worker[w].pc = "strip" /\ HasClaim(w)
  /\ sources' = sources \ Retracted(worker[w].batch)
  /\ merged' = IF sources' = {} THEN Nothing ELSE merged
  /\ Moves(w, "unnav")
  /\ UNCHANGED <<navs, contrib, producerVars, faults, queueVars>>

\* removeNavLocked for the retracted documents.
RemoveNav(w) ==
  LET b == worker[w].batch IN
  /\ worker[w].pc = "unnav" /\ HasClaim(w)
  /\ navs' = [d \in Docs |-> IF d \in Retracted(b) THEN 0 ELSE navs[d]]
  /\ Moves(w, IF Completed(b) = {} /\ ~ worker[w].affected THEN "commit" ELSE "load")
  /\ UNCHANGED <<merged, sources, contrib, producerVars, faults, queueVars>>

\* LoadDocumentWikiPagesBySlugs: the affected page as all enabled documents have it.
Load(w) ==
  /\ worker[w].pc = "load"
  /\ worker' = [worker EXCEPT ![w].pc = "nav",
       ![w].loaded = [d \in Docs |-> IF worker[w].affected /\ doc[d] = "enabled" THEN pages[d] ELSE 0]]
  /\ UNCHANGED <<productVars, producerVars, faults, queueVars>>

\* removeNavLocked for completed documents without summary, upsertNavLocked for others.
MergeNav(w) ==
  /\ worker[w].pc = "nav" /\ HasClaim(w)
  /\ navs' = [d \in Docs |-> IF d \in Completed(worker[w].batch) THEN worker[w].tree[d] ELSE navs[d]]
  /\ Moves(w, "write")
  /\ UNCHANGED <<merged, sources, contrib, producerVars, faults, queueVars>>

\* Mutant of WriteMerged: the token is not compared.
WriteUnfenced(w) ==
  /\ worker[w].pc = "write"
  /\ IF worker[w].affected
     THEN merged' = worker[w].loaded /\ sources' = {d \in Docs : worker[w].loaded[d] # 0}
     ELSE UNCHANGED <<merged, sources>>
  /\ Moves(w, "commit")
  /\ UNCHANGED <<navs, contrib, producerVars, faults, queueVars>>

\* The affected page is folded from what was loaded: deleteMissingScopedWikiPages
\* if that is nothing, WriteMerged otherwise.
WriteMerged(w) ==
  /\ worker[w].pc = "write" /\ HasClaim(w)
  /\ IF worker[w].affected
     THEN merged' = worker[w].loaded /\ sources' = {d \in Docs : worker[w].loaded[d] # 0}
     ELSE UNCHANGED <<merged, sources>>
  /\ Moves(w, "commit")
  /\ UNCHANGED <<navs, contrib, producerVars, faults, queueVars>>

\* commitWikiContributions: neither locked nor fenced.
CommitContributions(w) ==
  LET b == worker[w].batch IN
  /\ worker[w].pc = "commit"
  /\ contrib' = [d \in Docs |-> IF d \in Named(b) THEN worker[w].cur[d] ELSE contrib[d]]
  /\ Moves(w, "ack")
  /\ UNCHANGED <<merged, sources, navs, producerVars, faults, queueVars>>

\* The end of processClaim: after a lost heartbeat there is no ack, unless both
\* came at once.
AckBatch(w) ==
  /\ worker[w].pc = "ack"
  /\ \/ Ack(worker[w].token, worker[w].batch)
     \/ (~ HasClaim(w) \/ ~ worker[w].hb) /\ UNCHANGED queueVars
  /\ Rests(w)
  /\ UNCHANGED <<productVars, producerVars, faults>>

\* A reader, model or writer fails, or the process dies: the batch stays in flight.
Abort(w) ==
  /\ worker[w].pc \in Busy
  /\ Fault("abort")
  /\ Rests(w)
  /\ UNCHANGED <<productVars, producerVars, queueVars>>

WorkerStep(w) ==
  \/ TakeReady(w) \/ LookForExpired(w) \/ TakeExpired(w)
  \/ Prepare(w) \/ Superseded(w) \/ DeleteDocLevel(w) \/ Strip(w) \/ RemoveNav(w)
  \/ Load(w) \/ MergeNav(w) \/ WriteMerged(w) \/ CommitContributions(w) \/ AckBatch(w)

-----------------------------------------------------------------------------
(* Leases.                                                                 *)

Beats(w) == worker[w].pc \in Busy /\ worker[w].hb

\* A heartbeat extends the lease; one that fails is the worker's last one.
Heartbeat(w) ==
  /\ Beats(w)
  /\ \/ HasClaim(w) /\ claim.lease = "expired" /\ TouchClaim(worker[w].token) /\ NoFault /\ UNCHANGED worker
     \/ ~ HasClaim(w) /\ worker' = [worker EXCEPT ![w].hb = FALSE] /\ NoFault /\ UNCHANGED queueVars
     \/ Fault("lease") /\ worker' = [worker EXCEPT ![w].hb = FALSE] /\ UNCHANGED queueVars
  /\ UNCHANGED <<productVars, producerVars>>

\* Time passes: nobody beats, or whoever does was held up for too long.
LeaseExpires ==
  /\ ExpireLease
  /\ \/ (\A w \in Workers : HasClaim(w) => ~ Beats(w)) /\ NoFault
     \/ (\E w \in Workers : HasClaim(w) /\ Beats(w)) /\ Fault("stall")
  /\ UNCHANGED <<consumerVars, producerVars>>

ConsumerNext ==
  \/ \E w \in Workers : WorkerStep(w) \/ Heartbeat(w) \/ Abort(w)
  \/ LeaseExpires
=============================================================================
