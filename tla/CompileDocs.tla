----------------------------- MODULE CompileDocs -----------------------------
(***************************************************************************)
(* Documents of one dataset, their document-level compile products, and    *)
(* the requests that change them and then report it: to the compile queue  *)
(* with an event, or to the Wiki dirty table with a mark.  The report is a *)
(* statement of its own after the change (announced), and reports of       *)
(* different requests may come in any order.  Content is a version: the    *)
(* number of the request that wrote it, 0 for none.                        *)
(***************************************************************************)
EXTENDS CompileQueue

CONSTANTS Scenarios,    \* kinds of requests and of faults that may happen together
          MaxRequests,  \* bound: requests
          MaxFaults     \* bound: faults

ASSUME RequestBounds == MaxRequests \in Nat /\ MaxFaults \in Nat

VARIABLES doc,        \* "enabled", "disabled" or "gone"
          src,        \* version of the document's source chunks
          pages,      \* version of its Wiki pages
          trees,      \* version of its Tree and PageIndex summaries
          mapped,     \* version its active Wiki MAP state was made from
          dirty,      \* its row of wiki_document_dirty
          announced,  \* reports not yet made
          scenario,   \* what may happen in this behaviour; never changes
          requests,   \* requests so far
          faults      \* faults so far

docVars == <<doc, src, pages, trees, mapped>>

Version == 0 .. MaxRequests

NoDirty == [rev |-> 0, state |-> "none", owner |-> 0]

RequestKinds == {"compile", "recompile", "clear", "remove", "disable", "enable", "edit", "overlap"}

\* "abort", "lease" and "stall" hit consumers, "crash" and "error" dirty workers,
\* "publish" the reports of requests.
CompileFaults == {"abort", "lease", "stall", "crash", "error", "publish"}

Scenario == [requests : SUBSET RequestKinds, limit : Nat, faults : SUBSET CompileFaults]

ASSUME ScenarioAssumption == Scenarios \subseteq Scenario

Report == [doc : Docs, type : EventTypes \cup {"mark"}, variants : SUBSET Variants]

DocsTypeOK ==
  /\ doc \in [Docs -> {"enabled", "disabled", "gone"}]
  /\ src \in [Docs -> Version] /\ pages \in [Docs -> Version]
  /\ trees \in [Docs -> Version] /\ mapped \in [Docs -> Version]
  /\ announced \subseteq Report
  /\ scenario \in Scenarios
  /\ requests \in Version
  /\ faults \in 0 .. MaxFaults

DocsInit ==
  /\ doc = [d \in Docs |-> "enabled"]
  /\ src = [d \in Docs |-> 0] /\ pages = src /\ trees = src /\ mapped = src
  /\ dirty = [d \in Docs |-> NoDirty]
  /\ announced = {}
  /\ scenario \in Scenarios
  /\ requests = 0 /\ faults = 0

-----------------------------------------------------------------------------
Fault(kind) ==
  /\ kind \in scenario.faults
  /\ faults < MaxFaults
  /\ faults' = faults + 1

NoFault == UNCHANGED faults

\* A request on d.  Unless requests overlap, those on d before it were reported.
Request(d, kind) ==
  /\ kind \in scenario.requests
  /\ "overlap" \in scenario.requests \/ \A a \in announced : a.doc # d
  /\ requests < MaxRequests /\ requests < scenario.limit
  /\ requests' = requests + 1

\* documentKnowledgeCompileTypes
CompiledVariants(d) ==
  {v \in Variants : (IF v = "wiki" THEN pages ELSE trees)[d] # 0}

Announce(d, type, variants) ==
  announced' = announced \cup {[doc |-> d, type |-> type, variants |-> variants]}

\* Documents without compiled products wake nobody.
AnnounceProducts(d, type) ==
  IF CompiledVariants(d) = {} THEN UNCHANGED announced ELSE Announce(d, type, CompiledVariants(d))

\* A parse that compiles: persist in pipeline_executor.go writes chunks, products
\* and the active MAP state; the event follows when the task is completed.
Compile(d) ==
  /\ Request(d, IF src[d] = 0 THEN "compile" ELSE "recompile")
  /\ doc[d] # "gone"
  /\ \A a \in announced : a.doc = d => a.type # "deleted"
  /\ src' = [src EXCEPT ![d] = requests']
  /\ pages' = [pages EXCEPT ![d] = requests']
  /\ trees' = [trees EXCEPT ![d] = requests']
  /\ mapped' = [mapped EXCEPT ![d] = requests']
  /\ Announce(d, "completed", Variants)
  /\ UNCHANGED doc

\* clearDocumentParseResults: a re-parse starts by deleting chunks and products.
Clear(d) ==
  /\ Request(d, "clear")
  /\ doc[d] # "gone" /\ src[d] # 0
  /\ src' = [src EXCEPT ![d] = 0]
  /\ pages' = [pages EXCEPT ![d] = 0]
  /\ trees' = [trees EXCEPT ![d] = 0]
  /\ AnnounceProducts(d, "deleted")
  /\ UNCHANGED <<doc, mapped>>

\* deleteDocumentFull with deleteDocEngineData, and RemoveDocumentKeepFile, which
\* leaves chunks and products to the consumer of the event.
Remove(d) ==
  /\ Request(d, "remove")
  /\ doc[d] # "gone"
  /\ doc' = [doc EXCEPT ![d] = "gone"]
  /\ \/ /\ src' = [src EXCEPT ![d] = 0]
        /\ pages' = [pages EXCEPT ![d] = 0]
        /\ trees' = [trees EXCEPT ![d] = 0]
     \/ UNCHANGED <<src, pages, trees>>
  /\ AnnounceProducts(d, "deleted")
  /\ UNCHANGED mapped

\* updateDocumentStatusOnly; the variants are read after the status is written.
SetStatus(d) ==
  /\ \/ Request(d, "disable") /\ doc[d] = "enabled" /\ doc' = [doc EXCEPT ![d] = "disabled"]
        /\ AnnounceProducts(d, "disabled")
     \/ Request(d, "enable") /\ doc[d] = "disabled" /\ doc' = [doc EXCEPT ![d] = "enabled"]
        /\ AnnounceProducts(d, "enabled")
  /\ UNCHANGED <<src, pages, trees, mapped>>

\* A chunk is added, updated, switched or removed; then the document is marked.
Edit(d) ==
  /\ Request(d, "edit")
  /\ doc[d] # "gone" /\ src[d] # 0
  /\ src' = [src EXCEPT ![d] = requests']
  /\ Announce(d, "mark", {})
  /\ UNCHANGED <<doc, pages, trees, mapped>>

\* MarkWikiDocumentDirty: a new revision, which takes the row from its owner.
Marked(d) == [dirty EXCEPT ![d] = [rev |-> @.rev + 1, state |-> "pending", owner |-> 0]]

\* The report of a request, or its failure, which is only logged.
ReportOne(a) ==
  /\ announced' = announced \ {a}
  /\ \/ /\ a.type = "mark" /\ NoFault
        /\ dirty' = Marked(a.doc) /\ UNCHANGED queueVars
     \/ /\ a.type # "mark" /\ NoFault
        /\ PublishEntry(a.doc, a.type, a.variants) /\ UNCHANGED dirty
     \/ Fault("publish") /\ UNCHANGED <<dirty, queueVars>>
  /\ UNCHANGED <<docVars, scenario, requests>>

DocsNext ==
  \/ /\ \E d \in Docs : Compile(d) \/ Clear(d) \/ Remove(d) \/ SetStatus(d) \/ Edit(d)
     /\ UNCHANGED <<dirty, scenario, faults, queueVars>>
  \/ \E a \in announced : ReportOne(a)
=============================================================================
