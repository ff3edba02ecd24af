------------------------------ MODULE WikiDirty ------------------------------
(***************************************************************************)
(* The Wiki dirty worker of an ingestor process: it claims the row of a    *)
(* document whose chunks were edited, compiles the chunks to pages, writes *)
(* them unless the row has a newer revision, tells the compile queue, and  *)
(* deletes the row.  The debounce is the time until the claim.             *)
(***************************************************************************)
EXTENDS CompileDocs

CONSTANT Refreshers  \* one dirty worker per ingestor process

ASSUME RefresherAssumption == 0 \notin Refreshers

VARIABLE refresher

Rested == [pc |-> "idle", doc |-> 0, rev |-> 0, read |-> 0]

DirtyTypeOK ==
  /\ dirty \in [Docs -> [rev : Nat, state : {"none", "pending", "running", "expired"}, owner : Refreshers \cup {0}]]
  /\ refresher \in [Refreshers ->
       [pc : {"idle", "read", "check", "write", "publish", "settle"}, doc : Docs \cup {0}, rev : Nat, read : Version]]

DirtyInit == refresher = [r \in Refreshers |-> Rested]

-----------------------------------------------------------------------------
Goes(r, pc) == refresher' = [refresher EXCEPT ![r].pc = pc]

\* claimWikiDirty
ClaimDirty(r, d) ==
  /\ refresher[r].pc = "idle"
  /\ dirty[d].state \in {"pending", "expired"}
  /\ dirty' = [dirty EXCEPT ![d].state = "running", ![d].owner = r]
  /\ refresher' = [refresher EXCEPT ![r] = [pc |-> "read", doc |-> d, rev |-> dirty[d].rev, read |-> 0]]
  /\ UNCHANGED <<docVars, announced, scenario, requests, faults, queueVars>>

\* compileDirtyWikiDocument up to the replacement.  Nothing to compile from, or a
\* disabled document, replaces the pages by none.  An incremental compile with
\* the chunks of the active MAP state affects no page.
ReadDirty(r) ==
  LET d == refresher[r].doc
      version == IF doc[d] = "disabled" THEN 0 ELSE src[d]
  IN /\ refresher[r].pc = "read"
     /\ \/ /\ \/ doc[d] = "gone"
              \/ version # 0 /\ mapped[d] = version
           /\ Goes(r, "settle")
        \/ /\ doc[d] # "gone"
           /\ version = 0 \/ mapped[d] # version
           /\ refresher' = [refresher EXCEPT ![r].pc = "check", ![r].read = version]
     /\ UNCHANGED <<docVars, dirty, announced, scenario, requests, faults, queueVars>>

\* replaceDirtyWikiProducts: no row, or another revision, is not an error.
CheckRevision(r) ==
  /\ refresher[r].pc = "check"
  /\ Goes(r, IF dirty[refresher[r].doc].rev = refresher[r].rev THEN "write" ELSE "settle")
  /\ UNCHANGED <<docVars, dirty, announced, scenario, requests, faults, queueVars>>

\* ... insert the new rows, delete the stale ones, store the active MAP state.
WritePages(r) ==
  LET d == refresher[r].doc IN
  /\ refresher[r].pc = "write"
  /\ pages' = [pages EXCEPT ![d] = refresher[r].read]
  /\ mapped' = [mapped EXCEPT ![d] = refresher[r].read]
  /\ Goes(r, IF pages[d] = 0 /\ refresher[r].read = 0 THEN "settle" ELSE "publish")
  /\ UNCHANGED <<doc, src, trees, dirty, announced, scenario, requests, faults, queueVars>>

PublishPages(r) ==
  /\ refresher[r].pc = "publish"
  /\ PublishEntry(refresher[r].doc, "completed", {"wiki"})
  /\ Goes(r, "settle")
  /\ UNCHANGED <<docVars, dirty, announced, scenario, requests, faults>>

Mine(r) == dirty[refresher[r].doc].rev = refresher[r].rev /\ dirty[refresher[r].doc].owner = r

\* Mutant of SettleDirty: the row is deleted whatever its revision.
SettleAny(r) ==
  /\ refresher[r].pc = "settle"
  /\ dirty' = [dirty EXCEPT ![refresher[r].doc] = NoDirty]
  /\ refresher' = [refresher EXCEPT ![r] = Rested]
  /\ UNCHANGED <<docVars, announced, scenario, requests, faults, queueVars>>

\* processWikiDirty after a compile without error.
SettleDirty(r) ==
  /\ refresher[r].pc = "settle"
  /\ dirty' = IF Mine(r) THEN [dirty EXCEPT ![refresher[r].doc] = NoDirty] ELSE dirty
  /\ refresher' = [refresher EXCEPT ![r] = Rested]
  /\ UNCHANGED <<docVars, announced, scenario, requests, faults, queueVars>>

\* Any statement fails: the row waits for another try.
DirtyError(r) ==
  /\ refresher[r].pc \in {"read", "check", "write", "publish"}
  /\ Fault("error")
  /\ dirty' = IF Mine(r) THEN [dirty EXCEPT ![refresher[r].doc].state = "pending", ![refresher[r].doc].owner = 0] ELSE dirty
  /\ refresher' = [refresher EXCEPT ![r] = Rested]
  /\ UNCHANGED <<docVars, announced, scenario, requests, queueVars>>

\* The process dies: its row is claimed again when the lease has run out.
DirtyCrash(r) ==
  /\ refresher[r].pc # "idle"
  /\ Fault("crash")
  /\ refresher' = [refresher EXCEPT ![r] = Rested]
  /\ UNCHANGED <<docVars, dirty, announced, scenario, requests, queueVars>>

\* Nobody renews this lease; only a compile longer than it loses it.
ExpireDirty(d) ==
  /\ dirty[d].state = "running"
  /\ refresher[dirty[d].owner].pc = "idle" \/ refresher[dirty[d].owner].doc # d
  /\ dirty' = [dirty EXCEPT ![d].state = "expired"]
  /\ UNCHANGED <<docVars, refresher, announced, scenario, requests, faults, queueVars>>

RefresherStep(r) ==
  \/ \E d \in Docs : ClaimDirty(r, d)
  \/ ReadDirty(r) \/ CheckRevision(r) \/ WritePages(r) \/ PublishPages(r) \/ SettleDirty(r)

DirtyNext ==
  \/ \E r \in Refreshers : RefresherStep(r) \/ DirtyError(r) \/ DirtyCrash(r)
  \/ \E d \in Docs : ExpireDirty(d)
=============================================================================
