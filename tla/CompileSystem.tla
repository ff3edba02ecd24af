---------------------------- MODULE CompileSystem ----------------------------
(***************************************************************************)
(* Knowledge compilation of one dataset: requests on documents, the Wiki   *)
(* dirty workers, the compile queue and its consumers, composed.           *)
(***************************************************************************)
EXTENDS CompileConsumer

vars == <<queueVars, docVars, dirty, announced, scenario, requests, faults, refresher, consumerVars>>

Init == QueueInit /\ DocsInit /\ DirtyInit /\ ConsumerInit

Next ==
  \/ DocsNext /\ UNCHANGED <<refresher, consumerVars>>
  \/ DirtyNext /\ UNCHANGED consumerVars
  \/ ConsumerNext

Spec == Init /\ [][Next]_vars

\* A request that started makes its report, workers poll and go on, clocks run.
\* Nobody need make a request, and nothing need go wrong.
FairSpec ==
  /\ Spec
  /\ \A d \in Docs : WF_vars(\E a \in announced : a.doc = d /\ ReportOne(a) /\ NoFault /\ UNCHANGED <<refresher, consumerVars>>)
  /\ \A r \in Refreshers : WF_vars(RefresherStep(r) /\ UNCHANGED consumerVars)
  /\ \A d \in Docs : WF_vars(ExpireDirty(d) /\ UNCHANGED consumerVars)
  /\ \A w \in Workers : WF_vars(WorkerStep(w))
  /\ WF_vars(LeaseExpires /\ NoFault)

-----------------------------------------------------------------------------
\* Types of all variables.
TypeOK == QueueTypeOK /\ DocsTypeOK /\ DirtyTypeOK /\ ConsumerTypeOK

Ids(table) == {r.n : r \in table}

Ledger == INSTANCE CompileLedger WITH
  issued <- published, waiting <- Ids(backlog), taken <- Ids(inflight),
  tokens <- tokens, holder <- claim.token, grant <- Ids(claim.batch)

\* The scheduler implements the ledger of events: Publish, claimRow, reclaimOne,
\* requeueInflight and Ack lose no event, and an event is settled only by the
\* holder of the latest token, together with all that was granted to it.
LedgerSpec == Ledger!Spec

\* Nothing is left to be done.
Quiet ==
  /\ announced = {} /\ backlog = {} /\ inflight = {}
  /\ \A d \in Docs : dirty[d] = NoDirty
  /\ \A w \in Workers : worker[w].pc = "idle"
  /\ \A r \in Refreshers : refresher[r].pc = "idle"

Enabled(version) == [d \in Docs |-> IF doc[d] = "enabled" THEN version[d] ELSE 0]

\* Edits with consumers that fail, or documents that come and go one request after
\* the other with consumers that do not.
EditsOnly == scenario.requests \subseteq {"compile", "edit"} /\ scenario.faults \subseteq {"abort", "lease", "stall"}
MembersOnly == scenario.requests \cap {"edit", "enable", "overlap"} = {} /\ scenario.faults = {}

\* processBatch, whatever the batches, retries and stale workers: when everything
\* is quiet the merged page holds the latest pages of exactly the enabled documents.
WikiConverges ==
  (EditsOnly \/ MembersOnly) /\ Quiet =>
    merged = Enabled(pages) /\ sources = {d \in Docs : merged[d] # 0}

\* The same for the navigation tree, where a disabled document is not compiled.
NavConverges ==
  MembersOnly /\ Quiet => \A d \in Docs : doc[d] # "disabled" => navs[d] = Enabled(trees)[d]

\* An edit is not forgotten by claimWikiDirty, processWikiDirty and the revision
\* check: a document whose pages are not those of its chunks has a row, or is
\* about to be marked, whatever crashes.  Only with one dirty worker: the revision
\* check and the write of replaceDirtyWikiProducts are two steps, and the row of a
\* new mark starts at revision 1 again, so that a second worker's old read may be
\* written after the row is gone.
MarkNotLost ==
  /\ scenario.requests \subseteq {"compile", "edit", "disable", "remove"}
  /\ "publish" \notin scenario.faults
  => \A d \in Docs :
       \/ pages[d] = src[d] \/ doc[d] # "enabled"
       \/ dirty[d].state # "none"
       \/ [doc |-> d, type |-> "mark", variants |-> {}] \in announced

\* consumer.go on last events: "we must not delete a doc that was re-ingested after
\* its deletion".  Only a request deletes the chunks of a document that exists.
ReingestSurvives ==
  [][\A d \in Docs : src[d] # 0 /\ src'[d] = 0 => requests' # requests \/ doc[d] = "gone"]_vars

\* Polls, sweeps and leases: in the end every event is settled and every row of
\* the dirty table worked off, whatever fails on the way.
Settles == <>[]Quiet
=============================================================================
