------------------------- MODULE CompileStateProofs -------------------------
(***************************************************************************)
(* Knowledge compilation keeps its types, the order of both queue tables   *)
(* included, for all constants; and no edit is lost with one dirty worker. *)
(***************************************************************************)
EXTENDS CompileProofs, FiniteSetTheorems

-----------------------------------------------------------------------------
(* Positions.                                                              *)

\* A finite set has an element with the largest key.
LEMMA LargestKey ==
  ASSUME NEW b, IsFiniteSet(b), b # {}, NEW f \in [b -> Int]
  PROVE  \E r \in b : \A s \in b : f[s] <= f[r]
<1> DEFINE Top(U) == \E r \in U : \A s \in U : f[s] <= f[r]
           Bad == {U \in FiniteSubsetsOf(b) : U # {} /\ ~ Top(U)}
<1>1. SUFFICES ASSUME Bad # {} PROVE FALSE
  <2>1. b \in FiniteSubsetsOf(b)
    BY Zenon DEF FiniteSubsetsOf
  <2> QED
    BY Zenon, <2>1
<1>2. Bad \subseteq FiniteSubsetsOf(b)
  BY Zenon
<1> HIDE DEF Bad
<1>3. PICK U \in Bad : \A V \in Bad : ~ (<<V, U>> \in StrictSubsetOrdering(b))
  BY Zenon, <1>1, <1>2, FS_StrictSubsetOrderingWellFounded, WFMin
<1> USE DEF Bad
<1>4. U \subseteq b /\ IsFiniteSet(U) /\ U # {} /\ ~ Top(U)
  BY Zenon DEF FiniteSubsetsOf
<1>5. PICK x \in U : TRUE
  BY Zenon, <1>4
<1> DEFINE V == U \ {x}
<1>6. V \subseteq U /\ V # U /\ V \in FiniteSubsetsOf(b)
  <2>1. IsFiniteSet(V)
    BY Zenon, <1>4, FS_RemoveElement
  <2> QED
    BY Zenon, <2>1, <1>4, <1>5 DEF FiniteSubsetsOf
<1>7. <<V, U>> \in StrictSubsetOrdering(b)
  BY <1>4, <1>6 DEF StrictSubsetOrdering
<1>8. V \notin Bad
  BY Zenon, <1>3, <1>7
<1>9. V = {} \/ Top(V)
  BY Zenon, <1>6, <1>8
<1>10. CASE V = {}
  <2>1. \A s \in U : s = x
    BY Zenon, <1>10
  <2>2. f[x] <= f[x]
    BY <1>4
  <2> QED
    BY Zenon, <1>4, <2>1, <2>2
<1>11. CASE Top(V)
  <2>1. PICK m \in V : \A s \in V : f[s] <= f[m]
    BY Zenon, <1>11
  <2>2. \A s \in U : f[s] \in Int /\ (s = x \/ s \in V)
    BY Zenon, <1>4
  <2>3. m \in U
    BY Zenon
  <2> HIDE DEF V
  <2>4. CASE f[m] <= f[x]
    <3>1. \A s \in U : f[s] <= f[x]
      BY <2>1, <2>2, <2>3, <2>4
    <3> QED
      BY Zenon, <1>4, <3>1
  <2>5. CASE ~ (f[m] <= f[x])
    <3>1. \A s \in U : f[s] <= f[m]
      BY <2>1, <2>2, <2>3, <2>5
    <3> QED
      BY Zenon, <1>4, <2>3, <3>1
  <2> QED
    BY Zenon, <2>4, <2>5
<1> QED
  BY Zenon, <1>9, <1>10, <1>11

\* Rows whose positions are numbers.
Numbered(table) == \A r \in table : r.pos \in Nat

\* Some row of a table is the last one ...
LEMMA LastRow ==
  ASSUME NEW table, IsFiniteSet(table), table # {}, Numbered(table)
  PROVE  \E r \in table : \A s \in table : s.pos <= r.pos
<1> DEFINE f == [r \in table |-> r.pos]
<1>1. f \in [table -> Int]
  BY DEF Numbered
<1>2. \A r \in table : f[r] = r.pos
  BY Zenon
<1> HIDE DEF f
<1>3. \E r \in table : \A s \in table : f[s] <= f[r]
  BY Zenon, <1>1, LargestKey
<1> QED
  BY Zenon, <1>2, <1>3

\* ... and some row the first one.
LEMMA FirstRow ==
  ASSUME NEW table, IsFiniteSet(table), table # {}, Numbered(table)
  PROVE  \E r \in table : \A s \in table : r.pos <= s.pos
<1> DEFINE f == [r \in table |-> 0 - r.pos]
<1>1. f \in [table -> Int]
  BY DEF Numbered
<1>2. \A r \in table : f[r] = 0 - r.pos
  BY Zenon
<1> HIDE DEF f
<1>3. PICK r \in table : \A s \in table : f[s] <= f[r]
  BY Zenon, <1>1, LargestKey
<1>4. \A s \in table : r.pos <= s.pos
  BY <1>2, <1>3 DEF Numbered
<1> QED
  BY Zenon, <1>4

\* max(queue_position) is no smaller than any position.
LEMMA LastPositionBounds ==
  ASSUME NEW table, IsFiniteSet(table), Numbered(table)
  PROVE  LastPosition(table) \in Nat /\ \A r \in table : r.pos <= LastPosition(table)
<1>1. CASE table = {}
  BY <1>1 DEF LastPosition
<1>2. CASE table # {}
  <2> DEFINE S == {r.pos : r \in table}
  <2>1. PICK r \in table : \A s \in table : s.pos <= r.pos
    BY Zenon, <1>2, LastRow
  <2>2. r.pos \in S /\ S \subseteq Nat /\ \A y \in S : y <= r.pos
    BY Zenon, <2>1 DEF Numbered
  <2>3. \A s \in table : s.pos \in S
    BY Zenon
  <2>4. LastPosition(table) = Max(S)
    BY Zenon, <1>2 DEF LastPosition
  <2> HIDE DEF S
  <2>5. \E x \in S : \A y \in S : x >= y
    BY Zenon, <2>2
  <2>6. Max(S) \in S /\ \A y \in S : Max(S) >= y
    BY Zenon, <2>5 DEF Max
  <2> QED
    BY Zenon, <2>2, <2>3, <2>4, <2>6
<1> QED
  BY Zenon, <1>1, <1>2

\* A row counts itself, and later rows have more rows before them.
LEMMA RankGrows ==
  ASSUME NEW table, IsFiniteSet(table), Numbered(table), NEW r \in table
  PROVE  /\ Rank(r, table) \in Nat /\ Rank(r, table) >= 1
         /\ \A s \in table : r.pos < s.pos => Rank(r, table) < Rank(s, table)
<1> DEFINE Upto(s) == {x \in table : x.pos <= s.pos}
<1>1. \A s \in table : Rank(s, table) = Cardinality(Upto(s))
  BY Zenon DEF Rank
<1>2. \A s \in table : Upto(s) \in SUBSET table /\ s.pos <= s.pos
  BY DEF Numbered
<1>3. \A s \in table : s \in Upto(s)
  BY Zenon, <1>2
<1>4. \A s \in table : IsFiniteSet(Upto(s))
  BY Zenon, <1>2, FS_Subset
<1>5. \A s \in table : Cardinality(Upto(s)) \in Nat
  BY Zenon, <1>4, FS_CardinalityType
<1>6. Cardinality(Upto(r)) # 0
  BY Zenon, <1>3, <1>4, FS_EmptySet
<1>7. ASSUME NEW s \in table, r.pos < s.pos
      PROVE  Cardinality(Upto(r)) < Cardinality(Upto(s))
  <2>1. s \notin Upto(r) /\ \A x \in table : x.pos <= r.pos => x.pos <= s.pos
    BY <1>7 DEF Numbered
  <2>2. Upto(r) \in SUBSET Upto(s)
    BY Zenon, <2>1
  <2>3. Upto(r) # Upto(s)
    BY Zenon, <1>3, <2>1
  <2>4. /\ Cardinality(Upto(r)) <= Cardinality(Upto(s))
        /\ Cardinality(Upto(s)) # Cardinality(Upto(r))
    BY Zenon, <1>4, <2>2, <2>3, FS_Subset
  <2> HIDE DEF Upto
  <2> QED
    BY <1>5, <2>4
<1> HIDE DEF Upto
<1> QED
  BY <1>1, <1>5, <1>6, <1>7

-----------------------------------------------------------------------------
(* Queue tables.                                                           *)

\* A table of the queue.
Table(t) == t \subseteq Row /\ IsFiniteSet(t) /\ Ordered(t)

\* A compile queue table is finite and its positions are natural numbers.
LEMMA TableNumbered ==
  ASSUME NEW t, Table(t)
  PROVE  IsFiniteSet(t) /\ Numbered(t)
BY DEF Table, Numbered, Row

\* Part of a table.
LEMMA SubTable ==
  ASSUME NEW t, Table(t), NEW s, s \subseteq t
  PROVE  Table(s)
<1>1. IsFiniteSet(s)
  BY Zenon, FS_Subset DEF Table
<1> QED
  BY Zenon, <1>1 DEF Table, Ordered

\* appendQueueEntries and requeueInflight give every row a position of its own.
LEMMA AppendedTable ==
  ASSUME NEW T, NEW R, Table(T), Table(R)
  PROVE  Table(Appended(T, R))
<1> DEFINE at(r) == LastPosition(T) + Rank(r, R)
           copy(r) == MovedTo(r, at(r))
           C == {copy(r) : r \in R}
<1>1. Appended(T, R) = T \cup C
  BY Zenon DEF Appended
<1>2. /\ IsFiniteSet(T) /\ Numbered(T) /\ IsFiniteSet(R) /\ Numbered(R)
      /\ T \subseteq Row /\ R \subseteq Row /\ Ordered(T) /\ Ordered(R)
  BY Zenon, TableNumbered DEF Table
<1>3. LastPosition(T) \in Nat /\ \A r \in T : r.pos <= LastPosition(T)
  BY Zenon, <1>2, LastPositionBounds
<1>4. \A r \in R : Rank(r, R) \in Nat /\ Rank(r, R) >= 1
  BY Zenon, <1>2, RankGrows
<1>5. \A r, s \in R : r.pos < s.pos => Rank(r, R) < Rank(s, R)
  BY Zenon, <1>2, RankGrows
<1>6. \A r \in R : at(r) \in Nat /\ at(r) > LastPosition(T)
  BY <1>3, <1>4
<1>7. \A r, s \in R : at(r) = at(s) => r = s
  <2> SUFFICES ASSUME NEW r \in R, NEW s \in R, at(r) = at(s) PROVE r = s
    BY Zenon
  <2>1. Rank(r, R) = Rank(s, R)
    BY <1>3, <1>4
  <2>2. r.pos = s.pos
    BY <1>2, <1>4, <1>5, <2>1 DEF Numbered
  <2> QED
    BY Zenon, <1>2, <2>2 DEF Ordered
<1> HIDE DEF at
<1>8. \A r \in R : copy(r) \in Row /\ copy(r).pos = at(r)
  BY <1>2, <1>6 DEF MovedTo, Row
<1> HIDE DEF copy
<1>9. IsFiniteSet(C)
  <2> DEFINE f == [r \in R |-> copy(r)]
  <2>1. f \in Surjection(R, C)
    BY DEF Surjection
  <2> QED
    BY Zenon, <1>2, <2>1, FS_Surjection
<1>10. IsFiniteSet(T \cup C)
  BY Zenon, <1>2, <1>9, FS_Union
<1>11. T \cup C \subseteq Row
  BY Zenon, <1>2, <1>8
<1>12. Ordered(T \cup C)
  <2>1. ASSUME NEW x \in T, NEW y \in C PROVE x.pos # y.pos
    <3>1. PICK r \in R : y = copy(r)
      BY Zenon
    <3>2. y.pos = at(r) /\ x.pos \in Nat
      BY Zenon, <1>2, <1>8, <3>1 DEF Numbered
    <3> QED
      BY <1>3, <1>6, <3>2
  <2>2. ASSUME NEW x \in C, NEW y \in C, x.pos = y.pos PROVE x = y
    <3>1. PICK r \in R : x = copy(r)
      BY Zenon
    <3>2. PICK s \in R : y = copy(s)
      BY Zenon
    <3> QED
      BY Zenon, <1>7, <1>8, <2>2, <3>1, <3>2
  <2> HIDE DEF C
  <2> QED
    BY Zenon, <1>2, <2>1, <2>2 DEF Ordered
<1> QED
  BY Zenon, <1>1, <1>10, <1>11, <1>12 DEF Table

\* claimRow takes something if there is something.
LEMMA OldestTable ==
  ASSUME NEW t, Table(t), t # {}
  PROVE  Oldest(t) \subseteq t /\ Oldest(t) # {}
<1>1. IsFiniteSet(t) /\ Numbered(t)
  BY Zenon, TableNumbered
<1>2. PICK r \in t : \A s \in t : r.pos <= s.pos
  BY Zenon, <1>1, FirstRow
<1>3. \A s \in t : s.pos <= r.pos <=> s = r
  BY <1>1, <1>2 DEF Numbered, Table, Ordered
<1>4. {s \in t : s.pos <= r.pos} = {r}
  BY Zenon, <1>3
<1>5. Rank(r, t) = 1
  BY Zenon, <1>4, FS_Singleton DEF Rank
<1>6. Rank(r, t) <= BatchSize
  BY <1>5, QueueBounds
<1> QED
  BY Zenon, <1>6 DEF Oldest

Leases == {"none", "live", "expired"}

\* The claim, as a record and by its fields.
ClaimOK ==
  /\ claim \in [token : 0 .. MaxClaims, lease : Leases, batch : SUBSET Row]
  /\ claim.token = 0 <=> claim.batch = {}
  /\ IsFiniteSet(claim.batch)

QueueOK ==
  /\ Table(backlog) /\ Table(inflight) /\ ClaimOK
  /\ published \in 0 .. MaxEvents /\ tokens \in 0 .. MaxClaims

\* A step that leaves the queue alone leaves its types alone.
LEMMA QueueSame ==
  ASSUME QueueOK, UNCHANGED queueVars
  PROVE  QueueOK'
BY Zenon DEF QueueOK, queueVars, Table, Ordered, ClaimOK

\* publishEntry
LEMMA QueuePublishes ==
  ASSUME QueueOK, NEW d \in Docs, NEW type \in EventTypes, NEW variants \in SUBSET Variants,
         PublishEntry(d, type, variants)
  PROVE  QueueOK'
<1> DEFINE row == [pos |-> 0, n |-> published + 1, doc |-> d, type |-> type, variants |-> variants]
<1>1. /\ published < MaxEvents /\ published' = published + 1
      /\ backlog' = Appended(backlog, {row})
      /\ UNCHANGED <<inflight, claim, tokens>>
  BY Zenon DEF PublishEntry
<1>2. published \in Nat /\ published' \in 0 .. MaxEvents
  BY <1>1, QueueBounds DEF QueueOK
<1>3. row \in Row
  BY <1>2 DEF Row
<1> HIDE DEF row
<1>4. Table({row})
  BY Zenon, <1>3, FS_Singleton DEF Table, Ordered
<1>5. Table(backlog')
  BY Zenon, <1>1, <1>4, AppendedTable DEF QueueOK
<1> QED
  BY Zenon, <1>1, <1>2, <1>5 DEF QueueOK, ClaimOK, Table, Ordered

\* claimRow, on tables.
LEMMA QueueClaims ==
  ASSUME QueueOK, NEW queued, NEW flying, Table(queued), Table(flying), ClaimRow(queued, flying)
  PROVE  /\ QueueOK'
         /\ claim'.token \in 0 .. MaxClaims /\ claim'.batch \subseteq queued
         /\ claim'.batch \subseteq Row /\ IsFiniteSet(claim'.batch)
<1> DEFINE batch == Oldest(queued)
<1>1. /\ queued # {} /\ tokens < MaxClaims /\ tokens' = tokens + 1
      /\ claim' = [token |-> tokens + 1, lease |-> "live", batch |-> batch]
      /\ backlog' = queued \ batch /\ inflight' = Appended(flying, batch)
      /\ published' = published
  BY Zenon DEF ClaimRow
<1>2. batch \subseteq queued /\ batch # {}
  BY Zenon, <1>1, OldestTable
<1> HIDE DEF batch
<1>3. Table(batch) /\ Table(queued \ batch)
  BY Zenon, <1>2, SubTable
<1>4. Table(backlog') /\ Table(inflight')
  BY Zenon, <1>1, <1>3, AppendedTable
<1>5. tokens + 1 \in 0 .. MaxClaims /\ tokens + 1 # 0
  BY <1>1, QueueBounds DEF QueueOK
<1>6. claim'.token = tokens + 1 /\ claim'.batch = batch
  BY Zenon, <1>1
<1>7. claim' \in [token : 0 .. MaxClaims, lease : Leases, batch : SUBSET Row]
  BY Zenon, <1>1, <1>3, <1>5 DEF Table, Leases
<1>8. ClaimOK'
  BY Zenon, <1>2, <1>3, <1>5, <1>6, <1>7 DEF ClaimOK, Table
<1> QED
  BY Zenon, <1>1, <1>2, <1>3, <1>4, <1>5, <1>6, <1>8 DEF QueueOK, Table

\* Ack
LEMMA QueueAcks ==
  ASSUME QueueOK, NEW token, NEW batch, Ack(token, batch)
  PROVE  QueueOK'
<1>1. /\ inflight' = inflight \ Acked(batch)
      /\ claim' = NoClaim \/ claim' = claim
      /\ UNCHANGED <<backlog, published, tokens>>
  BY Zenon DEF Ack
<1>2. Table(inflight')
  BY Zenon, <1>1, SubTable DEF QueueOK
<1>3. ClaimOK'
  <2>1. CASE claim' = claim
    BY Zenon, <2>1 DEF QueueOK, ClaimOK
  <2>2. CASE claim' = NoClaim
    <3>1. 0 \in 0 .. MaxClaims
      BY QueueBounds
    <3>2. NoClaim \in [token : 0 .. MaxClaims, lease : Leases, batch : SUBSET Row]
      BY Zenon, <3>1 DEF NoClaim, Leases
    <3>3. NoClaim.token = 0 /\ NoClaim.batch = {}
      BY Zenon DEF NoClaim
    <3> QED
      BY Zenon, <2>2, <3>2, <3>3, FS_EmptySet DEF ClaimOK
  <2> QED
    BY Zenon, <1>1, <2>1, <2>2
<1> QED
  BY Zenon, <1>1, <1>2, <1>3 DEF QueueOK, Table, Ordered

\* TouchClaim and the passing of time.
LEMMA QueueLeases ==
  ASSUME QueueOK, NEW lease \in Leases, claim' = [claim EXCEPT !.lease = lease],
         UNCHANGED <<backlog, inflight, published, tokens>>
  PROVE  QueueOK'
<1>1. /\ claim' \in [token : 0 .. MaxClaims, lease : Leases, batch : SUBSET Row]
      /\ claim'.token = claim.token /\ claim'.batch = claim.batch
  BY DEF QueueOK, ClaimOK
<1> QED
  BY Zenon, <1>1 DEF QueueOK, ClaimOK, Table, Ordered

\* Both branches of TryClaim.
LEMMA QueueTakes ==
  ASSUME QueueOK, ClaimReady \/ Reclaim
  PROVE  /\ QueueOK'
         /\ claim'.token \in 0 .. MaxClaims /\ claim'.batch \subseteq Row /\ IsFiniteSet(claim'.batch)
<1>1. CASE ClaimReady
  BY Zenon, <1>1, QueueClaims DEF ClaimReady, QueueOK
<1>2. CASE Reclaim
  <2>1. Table(Appended(backlog, inflight))
    BY Zenon, AppendedTable DEF QueueOK
  <2>2. Table({})
    BY Zenon, FS_EmptySet DEF Table, Ordered
  <2> QED
    BY Zenon, <1>2, <2>1, <2>2, QueueClaims DEF Reclaim
<1> QED
  BY Zenon, <1>1, <1>2

-----------------------------------------------------------------------------
(* Documents and dirty rows.                                               *)

\* One entry of a table is replaced.
LEMMA ChangedAt ==
  ASSUME NEW S, NEW T, NEW f \in [S -> T], NEW x \in S, NEW y \in T
  PROVE  [f EXCEPT ![x] = y] \in [S -> T]
OBVIOUS

\* What the documents have.
ContentOK ==
  /\ doc \in [Docs -> {"enabled", "disabled", "gone"}]
  /\ src \in [Docs -> Version] /\ pages \in [Docs -> Version]
  /\ trees \in [Docs -> Version] /\ mapped \in [Docs -> Version]

\* Everything of DocsTypeOK but the faults.
RequestsOK ==
  ContentOK /\ announced \subseteq Report /\ scenario \in Scenarios /\ requests \in Version

\* Version 0, of a document nobody has compiled, is a version.
LEMMA VersionZero == 0 \in Version
BY RequestBounds DEF Version

\* A client's request is counted below its bound, and is not the zeroth.
LEMMA RequestCounts ==
  ASSUME requests \in Version, NEW d, NEW kind, Request(d, kind)
  PROVE  requests' \in Version /\ requests' # 0
BY RequestBounds DEF Version, Request

\* What a request owes the compile queue or the dirty table is a report.
LEMMA AnnounceTyped ==
  ASSUME announced \subseteq Report, NEW d \in Docs, NEW type \in EventTypes \cup {"mark"},
         NEW variants \in SUBSET Variants, Announce(d, type, variants)
  PROVE  announced' \subseteq Report
<1>1. [doc |-> d, type |-> type, variants |-> variants] \in Report
  BY Zenon DEF Report
<1> QED
  BY Zenon, <1>1 DEF Announce

\* The same for the reports PublishDeletion and PublishDisable make by product.
LEMMA AnnounceProductsTyped ==
  ASSUME announced \subseteq Report, NEW d \in Docs, NEW type \in EventTypes, AnnounceProducts(d, type)
  PROVE  announced' \subseteq Report
<1>1. CompiledVariants(d) \in SUBSET Variants
  BY Zenon DEF CompiledVariants
<1>2. announced' = announced \/ Announce(d, type, CompiledVariants(d))
  BY Zenon DEF AnnounceProducts
<1> QED
  BY Zenon, <1>1, <1>2, AnnounceTyped

\* Requests write versions.
LEMMA RequestTyped ==
  ASSUME RequestsOK, NEW d \in Docs, scenario' = scenario,
         Compile(d) \/ Clear(d) \/ Remove(d) \/ SetStatus(d) \/ Edit(d)
  PROVE  RequestsOK'
<1> USE DEF RequestsOK, ContentOK
<1>1. requests' \in Version
  BY Zenon, RequestCounts DEF Compile, Clear, Remove, SetStatus, Edit
<1>2. announced' \subseteq Report
  <2>1. {} \in SUBSET Variants /\ Variants \in SUBSET Variants
    BY Zenon
  <2>2. "completed" \in EventTypes /\ "deleted" \in EventTypes /\ "disabled" \in EventTypes /\ "enabled" \in EventTypes
    BY Zenon DEF EventTypes
  <2>3. \/ Announce(d, "completed", Variants) \/ Announce(d, "mark", {})
        \/ AnnounceProducts(d, "deleted") \/ AnnounceProducts(d, "disabled") \/ AnnounceProducts(d, "enabled")
    BY Zenon DEF Compile, Clear, Remove, SetStatus, Edit
  <2> QED
    BY Zenon, <2>1, <2>2, <2>3, AnnounceTyped, AnnounceProductsTyped
<1>3. doc' \in [Docs -> {"enabled", "disabled", "gone"}]
  <2>1. doc' = doc \/ \E s \in {"enabled", "disabled", "gone"} : doc' = [doc EXCEPT ![d] = s]
    BY Zenon DEF Compile, Clear, Remove, SetStatus, Edit
  <2> QED
    BY Zenon, <2>1, ChangedAt
<1>4. src' \in [Docs -> Version]
  <2>1. src' = src \/ \E v \in Version : src' = [src EXCEPT ![d] = v]
    BY Zenon, <1>1, VersionZero DEF Compile, Clear, Remove, SetStatus, Edit
  <2> QED
    BY Zenon, <2>1, ChangedAt
<1>5. pages' \in [Docs -> Version]
  <2>1. pages' = pages \/ \E v \in Version : pages' = [pages EXCEPT ![d] = v]
    BY Zenon, <1>1, VersionZero DEF Compile, Clear, Remove, SetStatus, Edit
  <2> QED
    BY Zenon, <2>1, ChangedAt
<1>6. trees' \in [Docs -> Version]
  <2>1. trees' = trees \/ \E v \in Version : trees' = [trees EXCEPT ![d] = v]
    BY Zenon, <1>1, VersionZero DEF Compile, Clear, Remove, SetStatus, Edit
  <2> QED
    BY Zenon, <2>1, ChangedAt
<1>7. mapped' \in [Docs -> Version]
  <2>1. mapped' = mapped \/ \E v \in Version : mapped' = [mapped EXCEPT ![d] = v]
    BY Zenon, <1>1, VersionZero DEF Compile, Clear, Remove, SetStatus, Edit
  <2> QED
    BY Zenon, <2>1, ChangedAt
<1> QED
  BY Zenon, <1>1, <1>2, <1>3, <1>4, <1>5, <1>6, <1>7

DirtyRow == [rev : Nat, state : {"none", "pending", "running", "expired"}, owner : Refreshers \cup {0}]
RefresherRow ==
  [pc : {"idle", "read", "check", "write", "publish", "settle"}, doc : Docs \cup {0}, rev : Nat, read : Version]

\* A dirty worker that is at work has a document.
DirtyOK ==
  /\ dirty \in [Docs -> DirtyRow] /\ refresher \in [Refreshers -> RefresherRow]
  /\ \A r \in Refreshers : refresher[r].pc # "idle" => refresher[r].doc \in Docs

\* A dirty worker becomes x.
LEMMA RefresherBecomes ==
  ASSUME DirtyOK, NEW r \in Refreshers, NEW x \in RefresherRow, refresher' = [refresher EXCEPT ![r] = x],
         x.pc # "idle" => x.doc \in Docs, dirty' \in [Docs -> DirtyRow]
  PROVE  DirtyOK'
<1>1. refresher' \in [Refreshers -> RefresherRow]
  BY Zenon, ChangedAt DEF DirtyOK
<1>2. \A s \in Refreshers : refresher'[s] = IF s = r THEN x ELSE refresher[s]
  BY Zenon DEF DirtyOK
<1> QED
  BY Zenon, <1>1, <1>2 DEF DirtyOK

\* A dirty worker that has finished its row, or crashed, is idle again.
LEMMA RefresherRests ==
  ASSUME DirtyOK, NEW r \in Refreshers, refresher' = [refresher EXCEPT ![r] = Rested], dirty' \in [Docs -> DirtyRow]
  PROVE  DirtyOK'
<1>1. Rested \in RefresherRow /\ Rested.pc = "idle"
  BY VersionZero DEF Rested, RefresherRow
<1> QED
  BY Zenon, <1>1, RefresherBecomes

\* A dirty worker goes on to its next step with the row it read.
LEMMA RefresherGoes ==
  ASSUME DirtyOK, NEW r \in Refreshers, NEW pc \in {"check", "write", "publish", "settle"}, refresher[r].pc # "idle",
         Goes(r, pc), dirty' = dirty
  PROVE  DirtyOK'
<1> DEFINE x == [refresher[r] EXCEPT !.pc = pc]
<1>1. refresher[r] \in RefresherRow /\ refresher[r].doc \in Docs
  BY Zenon DEF DirtyOK
<1>2. x \in RefresherRow /\ x.doc = refresher[r].doc
  BY <1>1 DEF RefresherRow
<1>3. refresher' = [refresher EXCEPT ![r] = x]
  BY Zenon DEF Goes
<1>4. dirty' \in [Docs -> DirtyRow]
  BY Zenon DEF DirtyOK
<1> HIDE DEF x
<1> QED
  BY Zenon, <1>1, <1>2, <1>3, <1>4, RefresherBecomes

\* The steps of a dirty worker.
LEMMA RefresherTyped ==
  ASSUME DirtyOK, RequestsOK, NEW r \in Refreshers, RefresherStep(r) \/ DirtyError(r) \/ DirtyCrash(r)
  PROVE  DirtyOK'
<1>0. dirty \in [Docs -> DirtyRow] /\ refresher[r] \in RefresherRow
  BY Zenon DEF DirtyOK
<1>1. ASSUME NEW d \in Docs, ClaimDirty(r, d)
      PROVE  DirtyOK'
  <2> DEFINE x == [pc |-> "read", doc |-> d, rev |-> dirty[d].rev, read |-> 0]
             y == [dirty[d] EXCEPT !.state = "running", !.owner = r]
  <2>1. dirty[d] \in DirtyRow
    BY Zenon, <1>0
  <2>2. x \in RefresherRow /\ x.doc \in Docs
    BY <2>1, VersionZero DEF RefresherRow, DirtyRow
  <2>3. y \in DirtyRow
    BY Zenon, <2>1 DEF DirtyRow
  <2>4. dirty' = [dirty EXCEPT ![d] = y] /\ refresher' = [refresher EXCEPT ![r] = x]
    BY Zenon, <1>1 DEF ClaimDirty
  <2> HIDE DEF x, y
  <2>5. dirty' \in [Docs -> DirtyRow]
    BY Zenon, <1>0, <2>3, <2>4, ChangedAt
  <2> QED
    BY Zenon, <2>2, <2>4, <2>5, RefresherBecomes
<1>2. CASE ReadDirty(r)
  <2> DEFINE d == refresher[r].doc
             version == IF doc[d] = "disabled" THEN 0 ELSE src[d]
             x == [refresher[r] EXCEPT !.pc = "check", !.read = version]
  <2>1. /\ refresher[r].pc = "read" /\ dirty' = dirty
        /\ Goes(r, "settle") \/ refresher' = [refresher EXCEPT ![r] = x]
    BY Zenon, <1>2 DEF ReadDirty
  <2>2. d \in Docs
    BY Zenon, <2>1 DEF DirtyOK
  <2>3. version \in Version
    BY Zenon, <2>2, VersionZero DEF RequestsOK, ContentOK
  <2> HIDE DEF version
  <2>4. x \in RefresherRow /\ x.doc \in Docs
    BY Zenon, <1>0, <2>2, <2>3 DEF RefresherRow
  <2> HIDE DEF x
  <2> QED
    BY Zenon, <1>0, <2>1, <2>4, RefresherGoes, RefresherBecomes
<1>3. CASE CheckRevision(r)
  BY Zenon, <1>3, RefresherGoes DEF CheckRevision
<1>4. CASE WritePages(r)
  BY Zenon, <1>4, RefresherGoes DEF WritePages
<1>5. CASE PublishPages(r)
  BY Zenon, <1>5, RefresherGoes DEF PublishPages
<1>6. CASE SettleDirty(r)
  <2>1. refresher[r].doc \in Docs
    BY Zenon, <1>6 DEF SettleDirty, DirtyOK
  <2>2. NoDirty \in DirtyRow
    BY DEF NoDirty, DirtyRow
  <2>3. dirty' \in [Docs -> DirtyRow]
    BY Zenon, <1>0, <1>6, <2>1, <2>2, ChangedAt DEF SettleDirty
  <2> QED
    BY Zenon, <1>6, <2>3, RefresherRests DEF SettleDirty
<1>7. CASE DirtyError(r)
  <2> DEFINE d == refresher[r].doc
             y == [dirty[d] EXCEPT !.state = "pending", !.owner = 0]
  <2>1. d \in Docs
    BY Zenon, <1>7 DEF DirtyError, DirtyOK
  <2>2. y \in DirtyRow
    <3>1. dirty[d] \in DirtyRow
      BY Zenon, <1>0, <2>1
    <3> QED
      BY Zenon, <3>1 DEF DirtyRow
  <2>3. dirty' = dirty \/ dirty' = [dirty EXCEPT ![d] = y]
    BY Zenon, <1>7 DEF DirtyError
  <2> HIDE DEF y
  <2>4. dirty' \in [Docs -> DirtyRow]
    BY Zenon, <1>0, <2>1, <2>2, <2>3, ChangedAt
  <2> QED
    BY Zenon, <1>7, <2>4, RefresherRests DEF DirtyError
<1>8. CASE DirtyCrash(r)
  BY Zenon, <1>0, <1>8, RefresherRests DEF DirtyCrash
<1> QED
  BY Zenon, <1>1, <1>2, <1>3, <1>4, <1>5, <1>6, <1>7, <1>8 DEF RefresherStep

-----------------------------------------------------------------------------
(* Consumers.                                                              *)

Places == Busy \cup {"idle", "sweep"}
Versions == [Docs -> Version]

\* The fields of a worker.
Typed(x) ==
  /\ WorkerRecord(x)
  /\ x.pc \in Places /\ x.token \in 0 .. MaxClaims
  /\ x.batch \subseteq Row /\ IsFiniteSet(x.batch)
  /\ x.hb \in BOOLEAN /\ x.affected \in BOOLEAN
  /\ x.cur \in Versions /\ x.tree \in Versions /\ x.loaded \in Versions

WorkersOK == WorkerShape /\ \A w \in Workers : Typed(worker[w])

ProductsOK == merged \in Versions /\ navs \in Versions /\ contrib \in Versions /\ sources \subseteq Docs

\* The groups of variables together are the consumer's type invariant.
LEMMA WorkersType ==
  ASSUME WorkersOK, ProductsOK
  PROVE  ConsumerTypeOK
<1> DEFINE S == [pc : Places, token : 0 .. MaxClaims, batch : SUBSET Row, hb : BOOLEAN,
                 cur : Versions, tree : Versions, affected : BOOLEAN, loaded : Versions]
<1>1. \A w \in Workers : worker[w] \in S
  <2> SUFFICES ASSUME NEW w \in Workers PROVE worker[w] \in S
    BY Zenon
  <2> DEFINE x == worker[w]
  <2>1. Typed(x)
    BY Zenon DEF WorkersOK
  <2>2. [pc |-> x.pc, token |-> x.token, batch |-> x.batch, hb |-> x.hb,
         cur |-> x.cur, tree |-> x.tree, affected |-> x.affected, loaded |-> x.loaded] \in S
    BY Zenon, <2>1 DEF Typed
  <2> QED
    BY Zenon, <2>1, <2>2 DEF Typed, WorkerRecord
<1> HIDE DEF S
<1>2. worker \in [Workers -> S]
  BY Zenon, <1>1 DEF WorkersOK, WorkerShape
<1> QED
  BY Zenon, <1>2 DEF S, ConsumerTypeOK, ProductsOK, Places, Versions

\* A worker becomes x.
LEMMA WorkerBecomes ==
  ASSUME WorkersOK, NEW w \in Workers, NEW x, Typed(x), worker' = [worker EXCEPT ![w] = x]
  PROVE  WorkersOK'
<1>1. worker' = [v \in Workers |-> IF v = w THEN x ELSE worker[v]]
  BY Zenon DEF WorkersOK, WorkerShape
<1>2. \A v \in Workers : worker'[v] = IF v = w THEN x ELSE worker[v]
  BY Zenon, <1>1
<1>3. worker' = [v \in Workers |-> worker'[v]]
  BY Zenon, <1>1
<1>4. \A v \in Workers : Typed(worker'[v])
  BY Zenon, <1>2 DEF WorkersOK
<1> QED
  BY Zenon, <1>3, <1>4 DEF WorkersOK, WorkerShape, Typed

\* A field of a worker gets a new value.
LEMMA FieldTyped ==
  ASSUME NEW x, Typed(x)
  PROVE  /\ \A v \in Places : Typed([x EXCEPT !.pc = v])
         /\ \A v \in 0 .. MaxClaims : Typed([x EXCEPT !.token = v])
         /\ \A v \in SUBSET Row : IsFiniteSet(v) => Typed([x EXCEPT !.batch = v])
         /\ \A v \in BOOLEAN : Typed([x EXCEPT !.hb = v]) /\ Typed([x EXCEPT !.affected = v])
         /\ \A v \in Versions :
              Typed([x EXCEPT !.cur = v]) /\ Typed([x EXCEPT !.tree = v]) /\ Typed([x EXCEPT !.loaded = v])
<1>1. ASSUME NEW v \in Places PROVE Typed([x EXCEPT !.pc = v])
  <2> DEFINE y == [x EXCEPT !.pc = v]
  <2>1. /\ WorkerRecord(y) /\ y.token = x.token /\ y.batch = x.batch /\ y.hb = x.hb
        /\ y.cur = x.cur /\ y.tree = x.tree /\ y.affected = x.affected /\ y.loaded = x.loaded
    BY DEF Typed, WorkerRecord
  <2>2. y.pc = v
    BY DEF Typed, WorkerRecord
  <2> HIDE DEF y
  <2>3. Typed(y)
    BY Zenon, <1>1, <2>1, <2>2 DEF Typed
  <2> QED
    BY Zenon, <2>3 DEF y
<1>2. ASSUME NEW v \in 0 .. MaxClaims PROVE Typed([x EXCEPT !.token = v])
  <2> DEFINE y == [x EXCEPT !.token = v]
  <2>1. /\ WorkerRecord(y) /\ y.pc = x.pc /\ y.batch = x.batch /\ y.hb = x.hb
        /\ y.cur = x.cur /\ y.tree = x.tree /\ y.affected = x.affected /\ y.loaded = x.loaded
    BY DEF Typed, WorkerRecord
  <2>2. y.token = v
    BY DEF Typed, WorkerRecord
  <2> HIDE DEF y
  <2>3. Typed(y)
    BY Zenon, <1>2, <2>1, <2>2 DEF Typed
  <2> QED
    BY Zenon, <2>3 DEF y
<1>3. ASSUME NEW v \in SUBSET Row, IsFiniteSet(v) PROVE Typed([x EXCEPT !.batch = v])
  <2> DEFINE y == [x EXCEPT !.batch = v]
  <2>1. /\ WorkerRecord(y) /\ y.pc = x.pc /\ y.token = x.token /\ y.hb = x.hb
        /\ y.cur = x.cur /\ y.tree = x.tree /\ y.affected = x.affected /\ y.loaded = x.loaded
    BY DEF Typed, WorkerRecord
  <2>2. y.batch = v
    BY DEF Typed, WorkerRecord
  <2> HIDE DEF y
  <2>3. Typed(y)
    BY Zenon, <1>3, <2>1, <2>2 DEF Typed
  <2> QED
    BY Zenon, <2>3 DEF y
<1>4. ASSUME NEW v \in BOOLEAN PROVE Typed([x EXCEPT !.hb = v])
  <2> DEFINE y == [x EXCEPT !.hb = v]
  <2>1. /\ WorkerRecord(y) /\ y.pc = x.pc /\ y.token = x.token /\ y.batch = x.batch
        /\ y.cur = x.cur /\ y.tree = x.tree /\ y.affected = x.affected /\ y.loaded = x.loaded
    BY DEF Typed, WorkerRecord
  <2>2. y.hb = v
    <3>1. "hb" \in DOMAIN x
      BY DEF Typed, WorkerRecord
    <3> QED
      BY Zenon, <3>1
  <2> HIDE DEF y
  <2>3. Typed(y)
    BY Zenon, <1>4, <2>1, <2>2 DEF Typed
  <2> QED
    BY Zenon, <2>3 DEF y
<1>5. ASSUME NEW v \in Versions PROVE Typed([x EXCEPT !.cur = v])
  <2> DEFINE y == [x EXCEPT !.cur = v]
  <2>1. /\ WorkerRecord(y) /\ y.pc = x.pc /\ y.token = x.token /\ y.batch = x.batch
        /\ y.hb = x.hb /\ y.tree = x.tree /\ y.affected = x.affected /\ y.loaded = x.loaded
    BY DEF Typed, WorkerRecord
  <2>2. y.cur = v
    BY DEF Typed, WorkerRecord
  <2> HIDE DEF y
  <2>3. Typed(y)
    BY Zenon, <1>5, <2>1, <2>2 DEF Typed
  <2> QED
    BY Zenon, <2>3 DEF y
<1>6. ASSUME NEW v \in Versions PROVE Typed([x EXCEPT !.tree = v])
  <2> DEFINE y == [x EXCEPT !.tree = v]
  <2>1. /\ WorkerRecord(y) /\ y.pc = x.pc /\ y.token = x.token /\ y.batch = x.batch
        /\ y.hb = x.hb /\ y.cur = x.cur /\ y.affected = x.affected /\ y.loaded = x.loaded
    BY DEF Typed, WorkerRecord
  <2>2. y.tree = v
    BY DEF Typed, WorkerRecord
  <2> HIDE DEF y
  <2>3. Typed(y)
    BY Zenon, <1>6, <2>1, <2>2 DEF Typed
  <2> QED
    BY Zenon, <2>3 DEF y
<1>7. ASSUME NEW v \in BOOLEAN PROVE Typed([x EXCEPT !.affected = v])
  <2> DEFINE y == [x EXCEPT !.affected = v]
  <2>1. /\ WorkerRecord(y) /\ y.pc = x.pc /\ y.token = x.token /\ y.batch = x.batch
        /\ y.hb = x.hb /\ y.cur = x.cur /\ y.tree = x.tree /\ y.loaded = x.loaded
    BY DEF Typed, WorkerRecord
  <2>2. y.affected = v
    <3>1. "affected" \in DOMAIN x
      BY DEF Typed, WorkerRecord
    <3> QED
      BY Zenon, <3>1
  <2> HIDE DEF y
  <2>3. Typed(y)
    BY Zenon, <1>7, <2>1, <2>2 DEF Typed
  <2> QED
    BY Zenon, <2>3 DEF y
<1>8. ASSUME NEW v \in Versions PROVE Typed([x EXCEPT !.loaded = v])
  <2> DEFINE y == [x EXCEPT !.loaded = v]
  <2>1. /\ WorkerRecord(y) /\ y.pc = x.pc /\ y.token = x.token /\ y.batch = x.batch
        /\ y.hb = x.hb /\ y.cur = x.cur /\ y.tree = x.tree /\ y.affected = x.affected
    BY DEF Typed, WorkerRecord
  <2>2. y.loaded = v
    BY DEF Typed, WorkerRecord
  <2> HIDE DEF y
  <2>3. Typed(y)
    BY Zenon, <1>8, <2>1, <2>2 DEF Typed
  <2> QED
    BY Zenon, <2>3 DEF y
<1> QED
  BY Zenon, <1>1, <1>2, <1>3, <1>4, <1>5, <1>6, <1>7, <1>8

\* A consumer goes on to its next step with the batch it claimed.
LEMMA WorkerGoes ==
  ASSUME WorkersOK, NEW w \in Workers, NEW p \in Places, Moves(w, p)
  PROVE  WorkersOK'
<1> DEFINE x == [worker[w] EXCEPT !.pc = p]
<1>1. Typed(x)
  BY Zenon, FieldTyped DEF WorkersOK
<1>2. worker' = [worker EXCEPT ![w] = x]
  BY Zenon DEF Moves
<1> HIDE DEF x
<1> QED
  BY Zenon, <1>1, <1>2, WorkerBecomes

\* A consumer that has claimed nothing is well typed.
LEMMA IdleTyped == Typed(Idle)
<1>1. Nothing \in Versions
  BY VersionZero DEF Nothing, Versions
<1>2. 0 \in 0 .. MaxClaims
  BY QueueBounds
<1>3. WorkerRecord(Idle) /\ Idle.pc = "idle" /\ Idle.token = 0 /\ Idle.batch = {} /\ Idle.cur = Nothing
      /\ Idle.tree = Nothing /\ Idle.loaded = Nothing
  BY DEF WorkerRecord, Idle
<1>4. Idle.hb = FALSE /\ Idle.affected = FALSE
  BY Zenon DEF Idle
<1> QED
  BY Zenon, <1>1, <1>2, <1>3, <1>4, FS_EmptySet DEF Typed, Places

\* A consumer that has acked or dropped its batch is idle again.
LEMMA WorkerRests ==
  ASSUME WorkersOK, NEW w \in Workers, Rests(w)
  PROVE  WorkersOK'
BY Zenon, IdleTyped, WorkerBecomes DEF Rests

\* A heartbeat was the last one.
LEMMA WorkerStops ==
  ASSUME WorkersOK, NEW w \in Workers, worker' = [worker EXCEPT ![w].hb = FALSE]
  PROVE  WorkersOK'
<1> DEFINE x == [worker[w] EXCEPT !.hb = FALSE]
<1>1. Typed(x)
  BY Zenon, FieldTyped DEF WorkersOK
<1>2. worker' = [worker EXCEPT ![w] = x]
  BY Zenon
<1> HIDE DEF x
<1> QED
  BY Zenon, <1>1, <1>2, WorkerBecomes

\* A claim was taken.
LEMMA WorkerTakes ==
  ASSUME WorkersOK, NEW w \in Workers, Takes(w),
         claim'.token \in 0 .. MaxClaims, claim'.batch \subseteq Row, IsFiniteSet(claim'.batch)
  PROVE  WorkersOK'
<1> DEFINE x1 == [Idle EXCEPT !.pc = "prepare"]
           x2 == [x1 EXCEPT !.token = claim'.token]
           x3 == [x2 EXCEPT !.batch = claim'.batch]
           x == [x3 EXCEPT !.hb = TRUE]
<1>0. worker' = [worker EXCEPT ![w] = x]
  BY Zenon DEF Takes
<1>1. Typed(x1)
  BY Zenon, IdleTyped, FieldTyped DEF Places, Busy
<1> HIDE DEF x1
<1>2. Typed(x2)
  BY Zenon, <1>1, FieldTyped
<1> HIDE DEF x2
<1>3. Typed(x3)
  BY Zenon, <1>2, FieldTyped
<1> HIDE DEF x3
<1>4. Typed(x)
  BY Zenon, <1>3, FieldTyped
<1> HIDE DEF x
<1> QED
  BY Zenon, <1>0, <1>4, WorkerBecomes

\* The products of the variants that the events name.
LEMMA SelectedTyped ==
  ASSUME NEW b, NEW variant, NEW version \in Versions
  PROVE  Selected(b, variant, version) \in Versions
<1>1. \A d \in Docs : version[d] \in Version
  BY Zenon DEF Versions
<1> QED
  BY Zenon, <1>1, VersionZero DEF Selected, Versions

\* The steps of a worker keep the workers' types ...
LEMMA WorkerTyped ==
  ASSUME WorkersOK, QueueOK, ContentOK, NEW w \in Workers, WorkerStep(w)
  PROVE  WorkersOK'
<1> USE DEF Places, Busy
<1>1. CASE TakeReady(w)
  BY Zenon, <1>1, QueueTakes, WorkerTakes DEF TakeReady
<1>2. CASE LookForExpired(w)
  BY Zenon, <1>2, WorkerGoes DEF LookForExpired
<1>3. CASE TakeExpired(w)
  BY Zenon, <1>3, QueueTakes, WorkerTakes, WorkerRests DEF TakeExpired
<1>4. CASE Prepare(w)
  <2>1. PICK cur \in Versions, tree \in Versions, affected \in BOOLEAN, p \in Places :
          worker' = [worker EXCEPT ![w].cur = cur, ![w].tree = tree, ![w].affected = affected, ![w].pc = p]
    <3>1. /\ Selected(worker[w].batch, "wiki", pages) \in Versions
          /\ Selected(worker[w].batch, "nav", trees) \in Versions
      BY Zenon, SelectedTyped DEF ContentOK, Versions
    <3> QED
      BY ZenonT(60), <1>4, <3>1 DEF Prepare
  <2> DEFINE x1 == [worker[w] EXCEPT !.cur = cur]
             x2 == [x1 EXCEPT !.tree = tree]
             x3 == [x2 EXCEPT !.affected = affected]
             x == [x3 EXCEPT !.pc = p]
  <2>2. worker' = [worker EXCEPT ![w] = x]
    BY Zenon, <2>1
  <2>3. Typed(x1)
    BY Zenon, FieldTyped DEF WorkersOK
  <2> HIDE DEF x1
  <2>4. Typed(x2)
    BY Zenon, <2>3, FieldTyped
  <2> HIDE DEF x2
  <2>5. Typed(x3)
    BY Zenon, <2>4, FieldTyped
  <2> HIDE DEF x3
  <2>6. Typed(x)
    BY Zenon, <2>5, FieldTyped
  <2> HIDE DEF x
  <2> QED
    BY Zenon, <2>2, <2>6, WorkerBecomes
<1>5. CASE Superseded(w)
  BY Zenon, <1>5, WorkerRests DEF Superseded
<1>6. CASE DeleteDocLevel(w)
  BY Zenon, <1>6, WorkerGoes DEF DeleteDocLevel
<1>7. CASE Strip(w)
  BY Zenon, <1>7, WorkerGoes DEF Strip
<1>8. CASE RemoveNav(w)
  <2>1. PICK p \in Places : Moves(w, p)
    BY Zenon, <1>8 DEF RemoveNav
  <2> QED
    BY Zenon, <2>1, WorkerGoes
<1>9. CASE Load(w)
  <2> DEFINE loaded == [d \in Docs |-> IF worker[w].affected /\ doc[d] = "enabled" THEN pages[d] ELSE 0]
             x1 == [worker[w] EXCEPT !.pc = "nav"]
             x == [x1 EXCEPT !.loaded = loaded]
  <2>1. worker' = [worker EXCEPT ![w] = x]
    BY Zenon, <1>9 DEF Load
  <2>2. loaded \in Versions
    BY Zenon, VersionZero DEF ContentOK, Versions
  <2> HIDE DEF loaded
  <2>3. Typed(x1)
    BY Zenon, FieldTyped DEF WorkersOK
  <2> HIDE DEF x1
  <2>4. Typed(x)
    BY Zenon, <2>2, <2>3, FieldTyped
  <2> HIDE DEF x
  <2> QED
    BY Zenon, <2>1, <2>4, WorkerBecomes
<1>10. CASE MergeNav(w)
  BY Zenon, <1>10, WorkerGoes DEF MergeNav
<1>11. CASE WriteMerged(w)
  BY Zenon, <1>11, WorkerGoes DEF WriteMerged
<1>12. CASE CommitContributions(w)
  BY Zenon, <1>12, WorkerGoes DEF CommitContributions
<1>13. CASE AckBatch(w)
  BY Zenon, <1>13, WorkerRests DEF AckBatch
<1> QED
  BY Zenon, <1>1, <1>2, <1>3, <1>4, <1>5, <1>6, <1>7, <1>8, <1>9, <1>10, <1>11, <1>12, <1>13 DEF WorkerStep

\* ... and those of the products.
LEMMA ProductsTyped ==
  ASSUME WorkersOK, ProductsOK, NEW w \in Workers, WorkerStep(w)
  PROVE  ProductsOK'
<1>0. /\ worker[w].cur \in Versions /\ worker[w].tree \in Versions /\ worker[w].loaded \in Versions
      /\ merged \in Versions /\ navs \in Versions /\ contrib \in Versions /\ sources \subseteq Docs
  BY Zenon DEF WorkersOK, Typed, ProductsOK
<1>1. Nothing \in Versions
  BY Zenon, VersionZero DEF Nothing, Versions
<1>2. CASE Strip(w)
  BY Zenon, <1>0, <1>1, <1>2 DEF Strip, ProductsOK
<1>3. CASE RemoveNav(w)
  <2>1. navs' \in Versions
    BY Zenon, <1>0, <1>3, VersionZero DEF RemoveNav, Versions
  <2> QED
    BY Zenon, <1>0, <1>3, <2>1 DEF RemoveNav, ProductsOK
<1>4. CASE MergeNav(w)
  <2>1. navs' \in Versions
    BY Zenon, <1>0, <1>4 DEF MergeNav, Versions
  <2> QED
    BY Zenon, <1>0, <1>4, <2>1 DEF MergeNav, ProductsOK
<1>5. CASE WriteMerged(w)
  BY Zenon, <1>0, <1>5 DEF WriteMerged, ProductsOK
<1>6. CASE CommitContributions(w)
  <2>1. contrib' \in Versions
    BY Zenon, <1>0, <1>6 DEF CommitContributions, Versions
  <2> QED
    BY Zenon, <1>0, <1>6, <2>1 DEF CommitContributions, ProductsOK
<1>7. CASE UNCHANGED productVars
  BY Zenon, <1>7 DEF productVars, ProductsOK
<1> QED
  BY Zenon, <1>2, <1>3, <1>4, <1>5, <1>6, <1>7
  DEF WorkerStep, TakeReady, LookForExpired, TakeExpired, Prepare, Superseded, DeleteDocLevel, Load, AckBatch

-----------------------------------------------------------------------------
(* The type invariant.                                                     *)

FaultsOK == faults \in 0 .. MaxFaults

StateOK == QueueOK /\ RequestsOK /\ DirtyOK /\ WorkersOK /\ ProductsOK /\ FaultsOK

\* A fault is counted below its bound.
LEMMA FaultCounts ==
  ASSUME FaultsOK, faults' = faults \/ \E kind : Fault(kind)
  PROVE  FaultsOK'
BY RequestBounds DEF FaultsOK, Fault

\* A step of a worker that touches no document row keeps the documents' types.
LEMMA RequestsSame ==
  ASSUME RequestsOK, UNCHANGED <<docVars, announced, scenario, requests>>
  PROVE  RequestsOK'
BY Zenon DEF RequestsOK, ContentOK, docVars

\* A step that leaves the dirty table and its workers alone keeps their types.
LEMMA DirtySame ==
  ASSUME DirtyOK, UNCHANGED <<dirty, refresher>>
  PROVE  DirtyOK'
BY Zenon DEF DirtyOK

\* A step that leaves the consumers and their products alone keeps their types.
LEMMA ConsumersSame ==
  ASSUME WorkersOK, ProductsOK, UNCHANGED consumerVars
  PROVE  WorkersOK' /\ ProductsOK'
BY Zenon DEF WorkersOK, WorkerShape, Typed, WorkerRecord, ProductsOK, consumerVars, productVars

\* The report of a request.
LEMMA ReportTyped ==
  ASSUME StateOK, NEW a \in announced, ReportOne(a), UNCHANGED <<refresher, consumerVars>>
  PROVE  StateOK'
<1> USE DEF StateOK
<1>1. a \in Report
  BY Zenon DEF RequestsOK
<1>2. a.doc \in Docs /\ a.type \in EventTypes \cup {"mark"} /\ a.variants \in SUBSET Variants
  BY Zenon, <1>1 DEF Report
<1>3. QueueOK'
  BY Zenon, <1>2, QueueSame, QueuePublishes DEF ReportOne
<1>4. RequestsOK'
  BY Zenon DEF ReportOne, RequestsOK, ContentOK, docVars
<1>5. DirtyOK'
  <2>1. dirty' = dirty \/ dirty' = Marked(a.doc)
    BY Zenon DEF ReportOne
  <2>2. CASE dirty' = dirty
    BY Zenon, <2>2, DirtySame
  <2>3. CASE dirty' = Marked(a.doc)
    <3> DEFINE y == [rev |-> dirty[a.doc].rev + 1, state |-> "pending", owner |-> 0]
    <3>1. dirty[a.doc] \in DirtyRow /\ dirty \in [Docs -> DirtyRow]
      BY Zenon, <1>2 DEF DirtyOK
    <3>2. y \in DirtyRow
      BY <3>1 DEF DirtyRow
    <3>3. dirty' = [dirty EXCEPT ![a.doc] = y]
      BY Zenon, <2>3 DEF Marked
    <3> HIDE DEF y
    <3>4. dirty' \in [Docs -> DirtyRow]
      BY Zenon, <1>2, <3>1, <3>2, <3>3, ChangedAt
    <3> QED
      BY Zenon, <3>4 DEF DirtyOK
  <2> QED
    BY Zenon, <2>1, <2>2, <2>3
<1>6. FaultsOK'
  BY Zenon, FaultCounts DEF ReportOne, NoFault
<1> QED
  BY Zenon, <1>3, <1>4, <1>5, <1>6, ConsumersSame

\* A dirty worker.
LEMMA DirtyTyped ==
  ASSUME StateOK, NEW r \in Refreshers, RefresherStep(r) \/ DirtyError(r) \/ DirtyCrash(r), UNCHANGED consumerVars
  PROVE  StateOK'
<1> USE DEF StateOK
<1>1. DirtyOK'
  BY Zenon, RefresherTyped
<1>2. QueueOK'
  <2>1. CASE UNCHANGED queueVars
    BY Zenon, <2>1, QueueSame
  <2>2. CASE PublishPages(r)
    <3>1. refresher[r].doc \in Docs
      BY Zenon, <2>2 DEF PublishPages, DirtyOK
    <3> QED
      BY Zenon, <2>2, <3>1, QueuePublishes DEF PublishPages, EventTypes, Variants
  <2> QED
    BY Zenon, <2>1, <2>2
    DEF RefresherStep, ClaimDirty, ReadDirty, CheckRevision, WritePages, SettleDirty, DirtyError, DirtyCrash
<1>3. RequestsOK'
  <2>1. CASE UNCHANGED <<docVars, announced, scenario, requests>>
    BY Zenon, <2>1, RequestsSame
  <2>2. CASE WritePages(r)
    <3>1. refresher[r] \in RefresherRow /\ refresher[r].doc \in Docs
      BY Zenon, <2>2 DEF WritePages, DirtyOK
    <3>2. refresher[r].read \in Version
      BY Zenon, <3>1 DEF RefresherRow
    <3>3. pages' \in [Docs -> Version] /\ mapped' \in [Docs -> Version]
      BY Zenon, <2>2, <3>1, <3>2, ChangedAt DEF WritePages, RequestsOK, ContentOK
    <3> QED
      BY Zenon, <2>2, <3>3 DEF WritePages, RequestsOK, ContentOK
  <2> QED
    BY Zenon, <2>1, <2>2
    DEF RefresherStep, ClaimDirty, ReadDirty, CheckRevision, PublishPages, SettleDirty, DirtyError, DirtyCrash
<1>4. FaultsOK'
  BY Zenon, FaultCounts
  DEF RefresherStep, ClaimDirty, ReadDirty, CheckRevision, WritePages, PublishPages, SettleDirty, DirtyError, DirtyCrash
<1> QED
  BY Zenon, <1>1, <1>2, <1>3, <1>4, ConsumersSame

\* A worker.
LEMMA ConsumerTyped ==
  ASSUME StateOK, NEW w \in Workers, WorkerStep(w)
  PROVE  StateOK'
<1> USE DEF StateOK
<1>1. WorkersOK' /\ ProductsOK'
  BY Zenon, WorkerTyped, ProductsTyped DEF RequestsOK
<1>2. QueueOK'
  BY Zenon, QueueSame, QueueTakes, QueueAcks
  DEF WorkerStep, TakeReady, LookForExpired, TakeExpired, Prepare, Superseded, DeleteDocLevel, Strip, RemoveNav,
      Load, MergeNav, WriteMerged, CommitContributions, AckBatch
<1>3. UNCHANGED <<mapped, doc, dirty, refresher, announced, scenario, requests, faults>>
  BY Zenon
  DEF WorkerStep, TakeReady, LookForExpired, TakeExpired, Prepare, Superseded, DeleteDocLevel, Strip, RemoveNav,
      Load, MergeNav, WriteMerged, CommitContributions, AckBatch, producerVars, docVars
<1>4. RequestsOK'
  <2>1. CASE UNCHANGED docVars
    BY Zenon, <1>3, <2>1, RequestsSame
  <2>2. CASE DeleteDocLevel(w)
    <3>1. src' \in [Docs -> Version] /\ pages' \in [Docs -> Version] /\ trees' \in [Docs -> Version]
      BY Zenon, <2>2, VersionZero DEF DeleteDocLevel, RequestsOK, ContentOK
    <3> QED
      BY Zenon, <1>3, <3>1 DEF RequestsOK, ContentOK
  <2> QED
    BY Zenon, <2>1, <2>2
    DEF WorkerStep, TakeReady, LookForExpired, TakeExpired, Prepare, Superseded, Strip, RemoveNav,
        Load, MergeNav, WriteMerged, CommitContributions, AckBatch, producerVars
<1>5. DirtyOK'
  BY Zenon, <1>3, DirtySame
<1> QED
  BY Zenon, <1>1, <1>2, <1>3, <1>4, <1>5 DEF FaultsOK

\* Every step of the system.
LEMMA StateStep ==
  ASSUME StateOK, [Next]_vars
  PROVE  StateOK'
<1> USE DEF StateOK
<1>1. CASE UNCHANGED vars
  BY Zenon, <1>1, QueueSame, RequestsSame, DirtySame, ConsumersSame DEF vars, FaultsOK
<1>2. CASE DocsNext /\ UNCHANGED <<refresher, consumerVars>>
  <2>1. ASSUME NEW d \in Docs, Compile(d) \/ Clear(d) \/ Remove(d) \/ SetStatus(d) \/ Edit(d),
               UNCHANGED <<dirty, scenario, faults, queueVars>>
        PROVE  StateOK'
    BY Zenon, <1>2, <2>1, RequestTyped, QueueSame, DirtySame, ConsumersSame DEF FaultsOK
  <2> QED
    BY Zenon, <1>2, <2>1, ReportTyped DEF DocsNext
<1>3. CASE DirtyNext /\ UNCHANGED consumerVars
  <2>1. ASSUME NEW d \in Docs, ExpireDirty(d)
        PROVE  StateOK'
    <3> DEFINE y == [dirty[d] EXCEPT !.state = "expired"]
    <3>1. dirty[d] \in DirtyRow /\ dirty \in [Docs -> DirtyRow]
      BY Zenon DEF DirtyOK
    <3>2. y \in DirtyRow
      BY <3>1 DEF DirtyRow
    <3>3. dirty' = [dirty EXCEPT ![d] = y]
      BY Zenon, <2>1 DEF ExpireDirty
    <3> HIDE DEF y
    <3>4. dirty' \in [Docs -> DirtyRow]
      BY Zenon, <3>1, <3>2, <3>3, ChangedAt
    <3>5. DirtyOK'
      BY Zenon, <2>1, <3>4 DEF DirtyOK, ExpireDirty
    <3> QED
      BY Zenon, <1>3, <2>1, <3>5, QueueSame, RequestsSame, ConsumersSame DEF ExpireDirty, FaultsOK
  <2> QED
    BY Zenon, <1>3, <2>1, DirtyTyped DEF DirtyNext
<1>4. CASE LeaseExpires
  <2>1. QueueOK'
    BY Zenon, <1>4, QueueLeases DEF LeaseExpires, ExpireLease, Leases
  <2>2. FaultsOK'
    BY Zenon, <1>4, FaultCounts DEF LeaseExpires, NoFault
  <2> QED
    BY Zenon, <1>4, <2>1, <2>2, RequestsSame, DirtySame, ConsumersSame DEF LeaseExpires, producerVars
<1>5. ASSUME NEW w \in Workers, Heartbeat(w) \/ Abort(w)
      PROVE  StateOK'
  <2>1. QueueOK'
    BY Zenon, <1>5, QueueSame, QueueLeases DEF Heartbeat, Abort, TouchClaim, Leases
  <2>2. WorkersOK' /\ ProductsOK'
    <3>1. worker' = worker \/ worker' = [worker EXCEPT ![w].hb = FALSE] \/ Rests(w)
      BY Zenon, <1>5 DEF Heartbeat, Abort
    <3>2. UNCHANGED productVars
      BY Zenon, <1>5 DEF Heartbeat, Abort
    <3>3. ProductsOK'
      BY Zenon, <3>2 DEF ProductsOK, productVars
    <3>4. CASE worker' = worker
      BY Zenon, <3>2, <3>4, ConsumersSame DEF consumerVars
    <3> QED
      BY Zenon, <3>1, <3>3, <3>4, WorkerStops, WorkerRests
  <2>3. FaultsOK'
    BY Zenon, <1>5, FaultCounts DEF Heartbeat, Abort, NoFault
  <2> QED
    BY Zenon, <1>5, <2>1, <2>2, <2>3, RequestsSame, DirtySame DEF Heartbeat, Abort, producerVars
<1> QED
  BY Zenon, <1>1, <1>2, <1>3, <1>4, <1>5, ConsumerTyped DEF Next, ConsumerNext

\* The initial tables are empty and every worker is idle.
LEMMA StateInit == Init => StateOK
<1> SUFFICES ASSUME Init PROVE StateOK
  OBVIOUS
<1>1. QueueOK
  <2>1. backlog = {} /\ inflight = {} /\ claim = NoClaim /\ published = 0 /\ tokens = 0
    BY Zenon DEF Init, QueueInit
  <2>2. Table({})
    BY Zenon, FS_EmptySet DEF Table, Ordered
  <2>3. 0 \in 0 .. MaxClaims /\ 0 \in 0 .. MaxEvents
    BY QueueBounds
  <2>4. NoClaim \in [token : 0 .. MaxClaims, lease : Leases, batch : SUBSET Row]
    BY Zenon, <2>3 DEF NoClaim, Leases
  <2>5. NoClaim.token = 0 /\ NoClaim.batch = {}
    BY Zenon DEF NoClaim
  <2> QED
    BY Zenon, <2>1, <2>2, <2>3, <2>4, <2>5, FS_EmptySet DEF QueueOK, ClaimOK
<1>2. RequestsOK
  BY Zenon, VersionZero DEF Init, DocsInit, RequestsOK, ContentOK
<1>3. DirtyOK
  <2>1. NoDirty \in DirtyRow
    BY DEF NoDirty, DirtyRow
  <2>2. Rested \in RefresherRow /\ Rested.pc = "idle"
    BY VersionZero DEF Rested, RefresherRow
  <2> QED
    BY Zenon, <2>1, <2>2 DEF Init, DocsInit, DirtyInit, DirtyOK
<1>4. WorkersOK
  BY Zenon, IdleTyped DEF Init, ConsumerInit, WorkersOK, WorkerShape, Typed
<1>5. ProductsOK
  BY Zenon, VersionZero DEF Init, ConsumerInit, ProductsOK, Nothing, Versions
<1>6. FaultsOK
  BY RequestBounds DEF Init, DocsInit, FaultsOK
<1> QED
  BY Zenon, <1>1, <1>2, <1>3, <1>4, <1>5, <1>6 DEF StateOK

\* The types of knowledge compilation for all constants: whatever publishEntry,
\* requeueInflight, claimRow and Ack do to the two tables, no two rows of a table get
\* the same queue_position, and a claim has a token exactly when it has a batch.
THEOREM CompileTypes == Spec => []TypeOK
<1>1. StateOK => TypeOK
  <2> SUFFICES ASSUME StateOK PROVE TypeOK
    OBVIOUS
  <2>1. QueueTypeOK
    BY Zenon DEF StateOK, QueueOK, QueueTypeOK, Table, ClaimOK, Leases
  <2>2. DocsTypeOK
    BY Zenon DEF StateOK, RequestsOK, ContentOK, FaultsOK, DocsTypeOK
  <2>3. DirtyTypeOK
    BY Zenon DEF StateOK, DirtyOK, DirtyRow, RefresherRow, DirtyTypeOK
  <2> QED
    BY Zenon, <2>1, <2>2, <2>3, WorkersType DEF StateOK, TypeOK
<1> QED
  BY <1>1, StateInit, StateStep, PTL DEF Spec

-----------------------------------------------------------------------------
(* Edits: with one dirty worker, and when reports do not fail.             *)

OneRefresher == \A r, s \in Refreshers : r = s

MarkScenario ==
  /\ scenario.requests \subseteq {"compile", "edit", "disable", "remove"}
  /\ "publish" \notin scenario.faults

\* Documents that rows or reports call deleted are gone.
GoneIn(S, status) == \A x \in S : x.type = "deleted" => status[x.doc] = "gone"

GoneRows(S) == GoneIn(S, doc)

MarkOf(d) == [doc |-> d, type |-> "mark", variants |-> {}]

ReportsGone == GoneRows(announced) /\ \A a \in announced : a.type = "mark" => a = MarkOf(a.doc)

RowsGone ==
  /\ GoneRows(backlog) /\ GoneRows(inflight)
  /\ \A w \in Workers : worker[w].pc \in Busy => GoneRows(worker[w].batch)

\* The pages of d are those of its chunks, or will be: a mark is about to come.
Sure(d) == pages[d] = src[d] \/ doc[d] # "enabled" \/ MarkOf(d) \in announced

Owns(r, d) == dirty[d].rev = refresher[r].rev /\ dirty[d].owner = r

\* What the dirty worker r that has claimed d knows as long as the row is its own.
Refreshes(r, d) ==
  /\ dirty[d].state # "none"
  /\ Owns(r, d) /\ refresher[r].pc \in {"check", "write"} =>
       refresher[r].read = src[d] \/ doc[d] # "enabled" \/ MarkOf(d) \in announced
  /\ Owns(r, d) /\ refresher[r].pc \in {"publish", "settle"} => Sure(d)

DocMarked(d) ==
  /\ doc[d] # "gone" => mapped[d] = pages[d]
  /\ doc[d] # "gone" /\ (dirty[d].state # "none" \/ MarkOf(d) \in announced) => src[d] # 0
  /\ Sure(d) \/ dirty[d].state # "none"
  /\ \A r \in Refreshers : refresher[r].pc # "idle" /\ refresher[r].doc = d => Refreshes(r, d)

MarkInv == MarkScenario => ReportsGone /\ RowsGone /\ \A d \in Docs : DocMarked(d)

\* Nothing happens to d.
LEMMA MarkSame ==
  ASSUME NEW d \in Docs, DocMarked(d),
         doc'[d] = doc[d], src'[d] = src[d], pages'[d] = pages[d], mapped'[d] = mapped[d], dirty'[d] = dirty[d],
         MarkOf(d) \in announced' <=> MarkOf(d) \in announced,
         \A r \in Refreshers : refresher'[r].pc # "idle" /\ refresher'[r].doc = d => refresher'[r] = refresher[r]
  PROVE  DocMarked(d)'
<1>1. Sure(d)' <=> Sure(d)
  BY Zenon DEF Sure, MarkOf
<1>2. ASSUME NEW r \in Refreshers, refresher'[r].pc # "idle", refresher'[r].doc = d
      PROVE  Refreshes(r, d)'
  <2>1. refresher'[r] = refresher[r]
    BY Zenon, <1>2
  <2>2. Refreshes(r, d)
    BY Zenon, <1>2, <2>1 DEF DocMarked
  <2> QED
    BY Zenon, <1>1, <2>1, <2>2 DEF Refreshes, Owns, MarkOf
<1>3. /\ doc'[d] # "gone" => mapped'[d] = pages'[d]
      /\ doc'[d] # "gone" /\ (dirty'[d].state # "none" \/ MarkOf(d) \in announced') => src'[d] # 0
      /\ Sure(d)' \/ dirty'[d].state # "none"
  BY Zenon, <1>1 DEF DocMarked
<1> QED
  BY Zenon, <1>2, <1>3 DEF DocMarked, MarkOf

\* A document that is gone asks for nothing.
LEMMA MarkGone ==
  ASSUME NEW d \in Docs, DocMarked(d), doc'[d] = "gone", dirty' = dirty, refresher' = refresher
  PROVE  DocMarked(d)'
<1>1. Sure(d)'
  BY Zenon DEF Sure
<1>2. \A r \in Refreshers : refresher[r].pc # "idle" /\ refresher[r].doc = d => Refreshes(r, d)'
  BY Zenon, <1>1 DEF DocMarked, Refreshes
<1> QED
  BY Zenon, <1>1, <1>2 DEF DocMarked

\* The document and the type of an owed mark.
LEMMA MarkFields ==
  ASSUME NEW d
  PROVE  MarkOf(d).doc = d /\ MarkOf(d).type = "mark"
BY DEF MarkOf

\* A report of d is about to come; if it is not its mark, no mark comes with it.
LEMMA AnnounceMarks ==
  ASSUME NEW d, NEW type, NEW variants, Announce(d, type, variants), NEW e, e # d \/ type # "mark"
  PROVE  MarkOf(e) \in announced' <=> MarkOf(e) \in announced
<1> DEFINE a == [doc |-> d, type |-> type, variants |-> variants]
<1>1. a.doc = d /\ a.type = type
  OBVIOUS
<1>2. announced' = announced \cup {a}
  BY Zenon DEF Announce
<1> HIDE DEF a
<1>3. MarkOf(e) # a
  BY Zenon, <1>1, MarkFields
<1> QED
  BY Zenon, <1>2, <1>3

\* PublishDeletion and PublishDisable neither owe nor settle a mark.
LEMMA AnnounceProductsMarks ==
  ASSUME NEW d, NEW type, AnnounceProducts(d, type), type # "mark", NEW e
  PROVE  MarkOf(e) \in announced' <=> MarkOf(e) \in announced
<1>1. announced' = announced \/ Announce(d, type, CompiledVariants(d))
  BY Zenon DEF AnnounceProducts
<1>2. CASE announced' = announced
  BY Zenon, <1>2
<1>3. CASE Announce(d, type, CompiledVariants(d))
  BY <1>3, AnnounceMarks
<1> QED
  BY Zenon, <1>1, <1>2, <1>3

\* Requests.
LEMMA MarkRequests ==
  ASSUME StateOK, MarkScenario, \A d \in Docs : DocMarked(d), NEW e \in Docs,
         Compile(e) \/ Clear(e) \/ Remove(e) \/ SetStatus(e) \/ Edit(e), UNCHANGED <<dirty, refresher>>
  PROVE  \A d \in Docs : DocMarked(d)'
<1>0. /\ doc \in [Docs -> {"enabled", "disabled", "gone"}]
      /\ src \in [Docs -> Version] /\ pages \in [Docs -> Version] /\ mapped \in [Docs -> Version]
      /\ requests \in Version
  BY Zenon DEF StateOK, RequestsOK, ContentOK
<1>a. dirty' = dirty /\ refresher' = refresher
  BY Zenon
<1>1. ASSUME NEW d \in Docs, d # e
      PROVE  DocMarked(d)'
  <2>1. doc'[d] = doc[d] /\ src'[d] = src[d] /\ pages'[d] = pages[d] /\ mapped'[d] = mapped[d]
    BY Zenon, <1>0, <1>1 DEF Compile, Clear, Remove, SetStatus, Edit
  <2>2. \/ Announce(e, "completed", Variants) \/ Announce(e, "mark", {})
        \/ AnnounceProducts(e, "deleted") \/ AnnounceProducts(e, "disabled") \/ AnnounceProducts(e, "enabled")
    BY Zenon DEF Compile, Clear, Remove, SetStatus, Edit
  <2>3. MarkOf(d) \in announced' <=> MarkOf(d) \in announced
    BY <1>1, <2>2, AnnounceMarks, AnnounceProductsMarks
  <2> QED
    BY Zenon, <1>a, <2>1, <2>3, MarkSame
<1>2. SUFFICES DocMarked(e)'
  BY Zenon, <1>1
<1>b. DocMarked(e)
  BY Zenon
<1>3. CASE Compile(e)
  <2>1. src[e] = 0 /\ doc[e] # "gone"
    BY Zenon, <1>3 DEF Compile, Request, MarkScenario
  <2>2. /\ dirty[e].state = "none"
        /\ \A r \in Refreshers : refresher[r].pc # "idle" => refresher[r].doc # e
    BY Zenon, <1>b, <2>1 DEF DocMarked, Refreshes
  <2>3. src'[e] = requests' /\ pages'[e] = requests' /\ mapped'[e] = requests' /\ requests' # 0
    BY Zenon, <1>0, <1>3, RequestCounts DEF Compile
  <2> QED
    BY Zenon, <1>a, <2>2, <2>3 DEF DocMarked, Sure
<1>4. CASE Clear(e)
  BY Zenon, <1>4 DEF Clear, Request, MarkScenario
<1>5. CASE Remove(e)
  <2>1. doc'[e] = "gone"
    BY Zenon, <1>0, <1>5 DEF Remove
  <2> QED
    BY Zenon, <1>a, <1>b, <2>1, MarkGone
<1>6. CASE SetStatus(e)
  <2>1. /\ doc[e] = "enabled" /\ doc' = [doc EXCEPT ![e] = "disabled"] /\ AnnounceProducts(e, "disabled")
        /\ UNCHANGED <<src, pages, mapped>>
    BY Zenon, <1>6 DEF SetStatus, Request, MarkScenario
  <2>2. doc'[e] = "disabled"
    BY Zenon, <1>0, <2>1
  <2>3. MarkOf(e) \in announced' <=> MarkOf(e) \in announced
    BY Zenon, <2>1, AnnounceProductsMarks
  <2>4. Sure(e)'
    BY Zenon, <2>2 DEF Sure
  <2>5. \A r \in Refreshers : refresher[r].pc # "idle" /\ refresher[r].doc = e => Refreshes(r, e)'
    BY Zenon, <1>a, <1>b, <2>2, <2>4 DEF DocMarked, Refreshes
  <2> QED
    BY Zenon, <1>a, <1>b, <2>1, <2>2, <2>3, <2>4, <2>5 DEF DocMarked, MarkOf
<1>7. CASE Edit(e)
  <2>1. doc[e] # "gone" /\ Announce(e, "mark", {}) /\ UNCHANGED <<doc, pages, mapped>>
    BY Zenon, <1>7 DEF Edit
  <2>2. MarkOf(e) \in announced'
    BY Zenon, <2>1 DEF Announce, MarkOf
  <2>3. src'[e] # 0
    BY Zenon, <1>0, <1>7, RequestCounts DEF Edit
  <2>4. Sure(e)'
    BY Zenon, <2>2 DEF Sure, MarkOf
  <2>5. \A r \in Refreshers : refresher[r].pc # "idle" /\ refresher[r].doc = e => Refreshes(r, e)'
    BY Zenon, <1>a, <1>b, <2>2, <2>4 DEF DocMarked, Refreshes, MarkOf
  <2> QED
    BY Zenon, <1>a, <1>b, <2>1, <2>3, <2>4, <2>5 DEF DocMarked
<1> QED
  BY Zenon, <1>3, <1>4, <1>5, <1>6, <1>7

\* Reports.
LEMMA MarkReports ==
  ASSUME StateOK, MarkScenario, ReportsGone, \A d \in Docs : DocMarked(d), NEW a \in announced, ReportOne(a),
         refresher' = refresher
  PROVE  \A d \in Docs : DocMarked(d)'
<1>0. UNCHANGED <<doc, src, pages, mapped>> /\ announced' = announced \ {a}
  BY Zenon DEF ReportOne, docVars
<1>1. a \in Report /\ a.doc \in Docs /\ dirty \in [Docs -> DirtyRow]
  BY Zenon DEF StateOK, RequestsOK, DirtyOK, Report
<1>2. CASE a.type # "mark" /\ dirty' = dirty
  <2>1. \A d \in Docs : MarkOf(d) # a
    BY Zenon, <1>2, MarkFields
  <2> QED
    BY Zenon, <1>0, <1>2, <2>1, MarkSame
<1>3. CASE a.type = "mark" /\ dirty' = Marked(a.doc)
  <2>1. a = MarkOf(a.doc)
    BY Zenon, <1>3 DEF ReportsGone
  <2>2. ASSUME NEW d \in Docs, d # a.doc
        PROVE  DocMarked(d)'
    <3>1. MarkOf(d) # a
      BY Zenon, <2>1, <2>2, MarkFields
    <3>2. dirty'[d] = dirty[d]
      BY Zenon, <1>1, <1>3, <2>2 DEF Marked
    <3> QED
      BY Zenon, <1>0, <3>1, <3>2, MarkSame
  <2>3. DocMarked(a.doc)'
    <3> DEFINE d == a.doc
    <3>1. dirty'[d] = [rev |-> dirty[d].rev + 1, state |-> "pending", owner |-> 0]
      BY Zenon, <1>1, <1>3 DEF Marked
    <3>2. dirty'[d].state = "pending" /\ dirty'[d].owner = 0
      BY <3>1
    <3>3. DocMarked(d)
      BY Zenon, <1>1
    <3>4. \A r \in Refreshers : ~ Owns(r, d)'
      BY Zenon, <3>2, RefresherAssumption DEF Owns
    <3>5. \A r \in Refreshers : Refreshes(r, d)'
      BY Zenon, <3>2, <3>4 DEF Refreshes
    <3>6. doc[d] # "gone" => mapped[d] = pages[d] /\ src[d] # 0
      BY Zenon, <2>1, <3>3 DEF DocMarked
    <3> QED
      BY Zenon, <1>0, <3>2, <3>5, <3>6 DEF DocMarked
  <2> QED
    BY Zenon, <2>2, <2>3
<1> QED
  BY Zenon, <1>2, <1>3 DEF ReportOne, Fault, MarkScenario

\* The only dirty worker, at work on e, becomes x and at most e changes.
LEMMA MarkOthers ==
  ASSUME OneRefresher, StateOK, \A d \in Docs : DocMarked(d), NEW r \in Refreshers, NEW e \in Docs, NEW x,
         refresher' = [refresher EXCEPT ![r] = x], x.pc # "idle" => x.doc = e,
         UNCHANGED <<doc, src, announced>>,
         \A d \in Docs : d # e => pages'[d] = pages[d] /\ mapped'[d] = mapped[d] /\ dirty'[d] = dirty[d],
         doc[e] # "gone" => mapped'[e] = pages'[e],
         doc[e] # "gone" /\ dirty'[e].state # "none" => src[e] # 0,
         Sure(e)' \/ dirty'[e].state # "none",
         x.pc # "idle" => Refreshes(r, e)'
  PROVE  \A d \in Docs : DocMarked(d)'
<1>0. refresher \in [Refreshers -> RefresherRow]
  BY Zenon DEF StateOK, DirtyOK
<1>1. \A s \in Refreshers : s = r /\ refresher'[s] = x
  BY Zenon, <1>0 DEF OneRefresher
<1>2. ASSUME NEW d \in Docs, d # e
      PROVE  DocMarked(d)'
  <2>1. \A s \in Refreshers : refresher'[s].pc # "idle" => refresher'[s].doc # d
    BY Zenon, <1>1, <1>2
  <2>2. DocMarked(d)
    BY Zenon
  <2> QED
    BY Zenon, <1>2, <2>1, <2>2, MarkSame
<1>3. DocMarked(e)'
  <2>1. DocMarked(e)
    BY Zenon
  <2>2. doc[e] # "gone" /\ (dirty'[e].state # "none" \/ MarkOf(e) \in announced) => src[e] # 0
    BY Zenon, <2>1 DEF DocMarked
  <2>3. \A s \in Refreshers : refresher'[s].pc # "idle" => Refreshes(s, e)'
    BY Zenon, <1>1
  <2> QED
    BY Zenon, <2>2, <2>3 DEF DocMarked, MarkOf
<1> QED
  BY Zenon, <1>2, <1>3

\* The only dirty worker is done with its document.
LEMMA MarkRests ==
  ASSUME OneRefresher, StateOK, \A d \in Docs : DocMarked(d), NEW r \in Refreshers, refresher[r].pc # "idle",
         refresher' = [refresher EXCEPT ![r] = Rested],
         UNCHANGED <<docVars, announced>>,
         \A d \in Docs : d # refresher[r].doc => dirty'[d] = dirty[d],
         dirty'[refresher[r].doc].state # "none" \/ Sure(refresher[r].doc)
  PROVE  \A d \in Docs : DocMarked(d)'
<1>0. PICK e \in Docs : e = refresher[r].doc
  BY Zenon DEF StateOK, DirtyOK
<1>1. Rested.pc = "idle"
  BY Zenon DEF Rested
<1>2. DocMarked(e) /\ Refreshes(r, e)
  BY Zenon, <1>0 DEF DocMarked
<1>3. UNCHANGED <<doc, src, pages, mapped, announced>>
  BY Zenon DEF docVars
<1>4. Sure(e)' \/ dirty'[e].state # "none"
  BY Zenon, <1>0, <1>3 DEF Sure, MarkOf
<1>5. doc[e] # "gone" => mapped[e] = pages[e] /\ src[e] # 0
  BY Zenon, <1>2 DEF DocMarked, Refreshes
<1> QED
  BY ZenonT(60), <1>0, <1>1, <1>3, <1>4, <1>5, MarkOthers

\* The only dirty worker goes on with its document.
LEMMA MarkGoes ==
  ASSUME OneRefresher, StateOK, \A d \in Docs : DocMarked(d), NEW r \in Refreshers, refresher[r].pc # "idle",
         NEW x, refresher' = [refresher EXCEPT ![r] = x], x.doc = refresher[r].doc, x.rev = refresher[r].rev,
         UNCHANGED <<docVars, announced, dirty>>,
         Owns(r, refresher[r].doc) /\ x.pc \in {"check", "write"} =>
           \/ x.read = src[refresher[r].doc] \/ doc[refresher[r].doc] # "enabled"
           \/ MarkOf(refresher[r].doc) \in announced,
         Owns(r, refresher[r].doc) /\ x.pc \in {"publish", "settle"} => Sure(refresher[r].doc)
  PROVE  \A d \in Docs : DocMarked(d)'
<1>0. PICK e \in Docs : e = refresher[r].doc
  BY Zenon DEF StateOK, DirtyOK
<1>1. refresher'[r] = x
  BY Zenon DEF StateOK, DirtyOK
<1>2. DocMarked(e) /\ Refreshes(r, e)
  BY Zenon, <1>0 DEF DocMarked
<1>3. UNCHANGED <<doc, src, pages, mapped, announced, dirty>>
  BY Zenon DEF docVars
<1>4. dirty[e].state # "none" /\ (doc[e] # "gone" => mapped[e] = pages[e] /\ src[e] # 0)
  BY Zenon, <1>2 DEF DocMarked, Refreshes
<1>5. Sure(e)' <=> Sure(e)
  BY Zenon, <1>3 DEF Sure, MarkOf
<1>6. Owns(r, e)' <=> Owns(r, e)
  BY Zenon, <1>0, <1>1, <1>3 DEF Owns
<1>7. Refreshes(r, e)'
  BY Zenon, <1>0, <1>1, <1>3, <1>4, <1>5, <1>6 DEF Refreshes, MarkOf
<1>8. x.doc = e
  BY Zenon, <1>0
<1> QED
  BY Zenon, <1>1, <1>3, <1>4, <1>7, <1>8, MarkOthers

\* What claimWikiDirty, compileDirtyWikiDocument, replaceDirtyWikiProducts and
\* processWikiDirty do to marks.
LEMMA MarkRefresher ==
  ASSUME OneRefresher, StateOK, \A d \in Docs : DocMarked(d), NEW r \in Refreshers,
         RefresherStep(r) \/ DirtyError(r) \/ DirtyCrash(r)
  PROVE  \A d \in Docs : DocMarked(d)'
<1> DEFINE e == refresher[r].doc
<1>0. /\ dirty \in [Docs -> DirtyRow] /\ refresher[r] \in RefresherRow
      /\ refresher[r].pc # "idle" => e \in Docs
      /\ pages \in [Docs -> Version] /\ mapped \in [Docs -> Version]
      /\ doc \in [Docs -> {"enabled", "disabled", "gone"}]
  BY Zenon DEF StateOK, DirtyOK, RequestsOK, ContentOK
<1>a. refresher[r].pc # "idle" => DocMarked(e) /\ Refreshes(r, e)
  BY Zenon, <1>0 DEF DocMarked
<1>b. ASSUME NEW pc
      PROVE  /\ [refresher[r] EXCEPT !.pc = pc].pc = pc
             /\ [refresher[r] EXCEPT !.pc = pc].doc = e
             /\ [refresher[r] EXCEPT !.pc = pc].rev = refresher[r].rev
             /\ [refresher[r] EXCEPT !.pc = pc].read = refresher[r].read
  BY <1>0 DEF RefresherRow
<1>1. ASSUME NEW d \in Docs, ClaimDirty(r, d)
      PROVE  \A f \in Docs : DocMarked(f)'
  <2> DEFINE x == [pc |-> "read", doc |-> d, rev |-> dirty[d].rev, read |-> 0]
             y == [dirty[d] EXCEPT !.state = "running", !.owner = r]
  <2>1. /\ dirty[d].state \in {"pending", "expired"}
        /\ dirty' = [dirty EXCEPT ![d] = y] /\ refresher' = [refresher EXCEPT ![r] = x]
        /\ UNCHANGED <<docVars, announced>>
    BY Zenon, <1>1 DEF ClaimDirty
  <2>2. x.pc = "read" /\ x.doc = d
    BY Zenon
  <2>3. y.state = "running"
    <3>1. dirty[d] \in DirtyRow
      BY Zenon, <1>0
    <3> QED
      BY <3>1 DEF DirtyRow
  <2> HIDE DEF x, y
  <2>4. dirty'[d].state # "none" /\ \A f \in Docs : f # d => dirty'[f] = dirty[f]
    BY Zenon, <1>0, <2>1, <2>3
  <2>5. refresher'[r] = x
    BY Zenon, <2>1 DEF StateOK, DirtyOK
  <2>6. Refreshes(r, d)'
    BY Zenon, <2>2, <2>4, <2>5 DEF Refreshes
  <2>7. UNCHANGED <<doc, src, pages, mapped, announced>>
    BY Zenon, <2>1 DEF docVars
  <2>8. doc[d] # "gone" => mapped[d] = pages[d] /\ src[d] # 0
    BY Zenon, <2>1 DEF DocMarked
  <2> QED
    BY Zenon, <2>1, <2>2, <2>4, <2>6, <2>7, <2>8, MarkOthers
<1>2. CASE ReadDirty(r)
  <2>1. refresher[r].pc = "read" /\ UNCHANGED <<docVars, announced, dirty>>
    BY Zenon, <1>2 DEF ReadDirty
  <2>2. DocMarked(e)
    BY Zenon, <1>a, <2>1
  <2>a. PICK v : /\ v = src[e] \/ doc[e] # "enabled"
                 /\ \/ (doc[e] # "enabled" \/ mapped[e] = src[e]) /\ Goes(r, "settle")
                    \/ refresher' = [refresher EXCEPT ![r].pc = "check", ![r].read = v]
    <3>1. CASE doc[e] = "disabled"
      <4>1. Goes(r, "settle") \/ refresher' = [refresher EXCEPT ![r].pc = "check", ![r].read = 0]
        BY Zenon, <1>2, <3>1 DEF ReadDirty
      <4> QED
        BY Zenon, <3>1, <4>1
    <3>2. CASE doc[e] # "disabled"
      <4>1. \/ (doc[e] = "gone" \/ mapped[e] = src[e]) /\ Goes(r, "settle")
            \/ refresher' = [refresher EXCEPT ![r].pc = "check", ![r].read = src[e]]
        BY Zenon, <1>2, <3>2 DEF ReadDirty
      <4> QED
        BY Zenon, <4>1
    <3> QED
      BY Zenon, <3>1, <3>2
  <2> DEFINE x == [refresher[r] EXCEPT !.pc = "check", !.read = v]
             z == [refresher[r] EXCEPT !.pc = "settle"]
  <2>3. CASE (doc[e] # "enabled" \/ mapped[e] = src[e]) /\ Goes(r, "settle")
    <3>1. Sure(e)
      BY Zenon, <2>2, <2>3 DEF DocMarked, Sure
    <3>2. z.pc = "settle" /\ z.doc = e /\ z.rev = refresher[r].rev
      BY Zenon, <1>b
    <3>3. refresher' = [refresher EXCEPT ![r] = z]
      BY Zenon, <2>3 DEF Goes
    <3> HIDE DEF z
    <3> QED
      BY Zenon, <2>1, <3>1, <3>2, <3>3, MarkGoes
  <2>4. CASE refresher' = [refresher EXCEPT ![r].pc = "check", ![r].read = v]
    <3>1. refresher' = [refresher EXCEPT ![r] = x]
      BY Zenon, <2>4
    <3>2. x.pc = "check" /\ x.doc = e /\ x.rev = refresher[r].rev /\ x.read = v
      BY <1>0 DEF RefresherRow
    <3> HIDE DEF x
    <3> QED
      BY Zenon, <2>1, <2>a, <3>1, <3>2, MarkGoes
  <2> QED
    BY Zenon, <2>a, <2>3, <2>4
<1>3. CASE CheckRevision(r)
  <2>1. PICK pc \in {"write", "settle"} :
          /\ refresher[r].pc = "check" /\ Goes(r, pc) /\ UNCHANGED <<docVars, announced, dirty>>
          /\ pc = "settle" => dirty[e].rev # refresher[r].rev
    BY Zenon, <1>3 DEF CheckRevision
  <2>2. Refreshes(r, e)
    BY Zenon, <1>a, <2>1
  <2> DEFINE z == [refresher[r] EXCEPT !.pc = pc]
  <2>3. z.pc = pc /\ z.doc = e /\ z.rev = refresher[r].rev /\ z.read = refresher[r].read
    BY Zenon, <1>b
  <2>4. refresher' = [refresher EXCEPT ![r] = z]
    BY Zenon, <2>1 DEF Goes
  <2>5. /\ Owns(r, e) /\ z.pc \in {"check", "write"} =>
             z.read = src[e] \/ doc[e] # "enabled" \/ MarkOf(e) \in announced
        /\ Owns(r, e) /\ z.pc \in {"publish", "settle"} => Sure(e)
    BY Zenon, <2>1, <2>2, <2>3 DEF Refreshes, Owns
  <2> HIDE DEF z
  <2> QED
    BY Zenon, <2>1, <2>3, <2>4, <2>5, MarkGoes
<1>4. CASE WritePages(r)
  <2>0. PICK f \in Docs : f = refresher[r].doc
    BY Zenon, <1>0, <1>4 DEF WritePages
  <2>1. PICK pc \in {"settle", "publish"} : Goes(r, pc)
    BY Zenon, <1>4 DEF WritePages
  <2>2. /\ refresher[r].pc = "write" /\ UNCHANGED <<doc, src, announced, dirty>>
        /\ pages' = [pages EXCEPT ![f] = refresher[r].read]
        /\ mapped' = [mapped EXCEPT ![f] = refresher[r].read]
    BY Zenon, <1>4, <2>0 DEF WritePages
  <2>3. Refreshes(r, f) /\ DocMarked(f)
    BY Zenon, <1>a, <2>0, <2>2
  <2>4. /\ pages'[f] = refresher[r].read /\ mapped'[f] = refresher[r].read
        /\ \A d \in Docs : d # f => pages'[d] = pages[d] /\ mapped'[d] = mapped[d]
    BY Zenon, <1>0, <2>2, <2>3
  <2> DEFINE z == [refresher[r] EXCEPT !.pc = pc]
  <2>5. z.pc = pc /\ z.doc = f /\ z.rev = refresher[r].rev
    BY Zenon, <1>b, <2>0
  <2>6. refresher' = [refresher EXCEPT ![r] = z]
    BY Zenon, <2>1 DEF Goes
  <2>7. refresher'[r] = z
    BY Zenon, <2>6 DEF StateOK, DirtyOK
  <2> HIDE DEF z
  <2>8. Owns(r, f) => Sure(f)'
    BY Zenon, <2>2, <2>3, <2>4 DEF Refreshes, Sure, MarkOf
  <2>9. Owns(r, f)' <=> Owns(r, f)
    BY Zenon, <2>0, <2>2, <2>5, <2>7 DEF Owns
  <2>10. Refreshes(r, f)' /\ dirty'[f].state # "none"
    BY Zenon, <2>2, <2>3, <2>5, <2>7, <2>8, <2>9 DEF Refreshes
  <2>11. doc[f] # "gone" => src[f] # 0
    BY Zenon, <2>3 DEF DocMarked, Refreshes
  <2> QED
    BY ZenonT(60), <2>0, <2>2, <2>4, <2>5, <2>6, <2>10, <2>11, MarkOthers
<1>5. CASE PublishPages(r)
  <2>1. refresher[r].pc = "publish" /\ Goes(r, "settle") /\ UNCHANGED <<docVars, announced, dirty>>
    BY Zenon, <1>5 DEF PublishPages
  <2>2. Owns(r, e) => Sure(e)
    BY Zenon, <1>a, <2>1 DEF Refreshes
  <2> DEFINE z == [refresher[r] EXCEPT !.pc = "settle"]
  <2>3. z.pc = "settle" /\ z.doc = e /\ z.rev = refresher[r].rev
    BY Zenon, <1>b
  <2>4. refresher' = [refresher EXCEPT ![r] = z]
    BY Zenon, <2>1 DEF Goes
  <2> HIDE DEF z
  <2> QED
    BY Zenon, <2>1, <2>2, <2>3, <2>4, MarkGoes
<1>6. CASE SettleDirty(r)
  <2>1. /\ refresher[r].pc = "settle" /\ refresher' = [refresher EXCEPT ![r] = Rested]
        /\ dirty' = IF Owns(r, e) THEN [dirty EXCEPT ![e] = NoDirty] ELSE dirty
        /\ UNCHANGED <<docVars, announced>>
    BY Zenon, <1>6 DEF SettleDirty, Mine, Owns
  <2>2. e \in Docs /\ Refreshes(r, e)
    BY Zenon, <1>0, <1>a, <2>1
  <2>3. dirty'[e].state # "none" \/ Sure(e)
    BY Zenon, <2>1, <2>2 DEF Refreshes
  <2>4. \A d \in Docs : d # e => dirty'[d] = dirty[d]
    BY Zenon, <1>0, <2>1, <2>2
  <2> QED
    BY Zenon, <2>1, <2>3, <2>4, MarkRests
<1>7. CASE DirtyError(r)
  <2> DEFINE y == [dirty[e] EXCEPT !.state = "pending", !.owner = 0]
  <2>1. /\ refresher[r].pc # "idle" /\ refresher' = [refresher EXCEPT ![r] = Rested]
        /\ dirty' = [dirty EXCEPT ![e] = y] \/ dirty' = dirty
        /\ UNCHANGED <<docVars, announced>>
    BY Zenon, <1>7 DEF DirtyError
  <2>2. e \in Docs /\ dirty[e].state # "none"
    BY Zenon, <1>0, <1>a, <2>1 DEF Refreshes
  <2>3. y.state = "pending"
    <3>1. dirty[e] \in DirtyRow
      BY Zenon, <1>0, <2>2
    <3> QED
      BY <3>1 DEF DirtyRow
  <2> HIDE DEF y
  <2>4. dirty'[e].state # "none" /\ \A d \in Docs : d # e => dirty'[d] = dirty[d]
    BY Zenon, <1>0, <2>1, <2>2, <2>3
  <2> QED
    BY Zenon, <2>1, <2>4, MarkRests
<1>8. CASE DirtyCrash(r)
  <2>1. /\ refresher[r].pc # "idle" /\ refresher' = [refresher EXCEPT ![r] = Rested]
        /\ dirty' = dirty /\ UNCHANGED <<docVars, announced>>
    BY Zenon, <1>8 DEF DirtyCrash
  <2>2. dirty[e].state # "none"
    BY Zenon, <1>a, <2>1 DEF Refreshes
  <2> QED
    BY Zenon, <2>1, <2>2, MarkRests
<1> QED
  BY Zenon, <1>1, <1>2, <1>3, <1>4, <1>5, <1>6, <1>7, <1>8 DEF RefresherStep

\* A lease that has run out is still a row.
LEMMA MarkExpires ==
  ASSUME StateOK, \A d \in Docs : DocMarked(d), NEW e \in Docs, ExpireDirty(e)
  PROVE  \A d \in Docs : DocMarked(d)'
<1> DEFINE y == [dirty[e] EXCEPT !.state = "expired"]
<1>0. dirty \in [Docs -> DirtyRow] /\ dirty[e] \in DirtyRow
  BY Zenon DEF StateOK, DirtyOK
<1>1. /\ dirty[e].state = "running" /\ dirty' = [dirty EXCEPT ![e] = y]
      /\ UNCHANGED <<docVars, refresher, announced>>
  BY Zenon DEF ExpireDirty
<1>2. y.state = "expired" /\ y.rev = dirty[e].rev /\ y.owner = dirty[e].owner
  BY <1>0 DEF DirtyRow
<1> HIDE DEF y
<1>3. dirty'[e] = y /\ \A d \in Docs : d # e => dirty'[d] = dirty[d]
  BY Zenon, <1>0, <1>1
<1>4. UNCHANGED <<doc, src, pages, mapped, refresher, announced>>
  BY Zenon, <1>1 DEF docVars
<1>5. \A d \in Docs : d # e => DocMarked(d)'
  BY Zenon, <1>3, <1>4, MarkSame
<1>6. DocMarked(e) /\ (Sure(e)' <=> Sure(e))
  BY Zenon, <1>4 DEF Sure, MarkOf
<1>7. ASSUME NEW r \in Refreshers, refresher[r].pc # "idle", refresher[r].doc = e
      PROVE  Refreshes(r, e)'
  <2>1. Refreshes(r, e)
    BY Zenon, <1>6, <1>7 DEF DocMarked
  <2>2. Owns(r, e)' <=> Owns(r, e)
    BY Zenon, <1>2, <1>3, <1>4 DEF Owns
  <2> QED
    BY Zenon, <1>2, <1>3, <1>4, <1>6, <2>1, <2>2 DEF Refreshes, MarkOf
<1>8. DocMarked(e)'
  BY Zenon, <1>1, <1>2, <1>3, <1>4, <1>6, <1>7 DEF DocMarked, MarkOf
<1> QED
  BY Zenon, <1>5, <1>8

\* The last event of a document is one of its events.
LEMMA LastOf ==
  ASSUME NEW b, b \subseteq Row, IsFiniteSet(b), NEW d \in Named(b)
  PROVE  Last(b, d) \in b /\ Last(b, d).doc = d
<1> DEFINE c == {r \in b : r.doc = d}
<1>1. c \subseteq b /\ c # {} /\ \A s \in b : s.doc = d => s \in c
  BY Zenon DEF Named
<1>2. IsFiniteSet(c)
  BY Zenon, <1>1, FS_Subset
<1>3. Numbered(c)
  BY <1>1 DEF Numbered, Row
<1>4. \E r \in c : \A s \in c : s.pos <= r.pos
  BY Zenon, <1>1, <1>2, <1>3, LastRow
<1>5. \E r \in b : r.doc = d /\ \A s \in b : s.doc = d => s.pos <= r.pos
  BY Zenon, <1>1, <1>4
<1> QED
  BY Zenon, <1>5 DEF Last

\* The chunks that a consumer deletes are those of documents that are gone.
LEMMA DeletedGone ==
  ASSUME NEW b, b \subseteq Row, IsFiniteSet(b), GoneRows(b), NEW d \in Deleted(b)
  PROVE  doc[d] = "gone"
<1>1. d \in Named(b) /\ Last(b, d).type = "deleted"
  BY Zenon DEF Deleted, Ending
<1>2. Last(b, d) \in b /\ Last(b, d).doc = d
  BY Zenon, <1>1, LastOf
<1> QED
  BY Zenon, <1>1, <1>2 DEF GoneRows, GoneIn

\* Consumers.
LEMMA MarkConsumers ==
  ASSUME StateOK, RowsGone, \A d \in Docs : DocMarked(d), ConsumerNext
  PROVE  \A d \in Docs : DocMarked(d)'
<1>1. CASE UNCHANGED producerVars
  <2>1. UNCHANGED <<doc, src, pages, mapped, dirty, refresher, announced>>
    BY Zenon, <1>1 DEF producerVars, docVars
  <2> QED
    BY Zenon, <2>1, MarkSame
<1>2. ASSUME NEW w \in Workers, DeleteDocLevel(w)
      PROVE  \A d \in Docs : DocMarked(d)'
  <2> DEFINE b == worker[w].batch
  <2>1. b \subseteq Row /\ IsFiniteSet(b) /\ GoneRows(b)
    BY Zenon, <1>2 DEF StateOK, WorkersOK, Typed, RowsGone, DeleteDocLevel, Busy
  <2> HIDE DEF b
  <2>2. UNCHANGED <<doc, mapped, dirty, refresher, announced>>
    BY Zenon, <1>2 DEF DeleteDocLevel
  <2>3. \A d \in Docs : d \notin Deleted(b) => src'[d] = src[d] /\ pages'[d] = pages[d]
    BY Zenon, <1>2 DEF DeleteDocLevel, b
  <2>4. \A d \in Deleted(b) : doc[d] = "gone"
    BY Zenon, <2>1, DeletedGone
  <2> SUFFICES ASSUME NEW d \in Docs PROVE DocMarked(d)'
    BY Zenon
  <2>5. CASE d \in Deleted(b)
    BY Zenon, <2>2, <2>4, <2>5, MarkGone
  <2>6. CASE d \notin Deleted(b)
    BY Zenon, <2>2, <2>3, <2>6, MarkSame
  <2> QED
    BY Zenon, <2>5, <2>6
<1>3. CASE \E w \in Workers : WorkerStep(w)
  BY Zenon, <1>1, <1>2, <1>3
  DEF WorkerStep, TakeReady, LookForExpired, TakeExpired, Prepare, Superseded, Strip, RemoveNav,
      Load, MergeNav, WriteMerged, CommitContributions, AckBatch
<1>4. CASE LeaseExpires \/ \E w \in Workers : Heartbeat(w) \/ Abort(w)
  BY Zenon, <1>1, <1>4 DEF LeaseExpires, Heartbeat, Abort
<1> QED
  BY Zenon, <1>3, <1>4 DEF ConsumerNext

-----------------------------------------------------------------------------
(* The rows of documents that are gone.                                    *)

\* A document that is gone does not come back.
LEMMA GoneStays ==
  ASSUME StateOK, [Next]_vars
  PROVE  \A d \in Docs : doc[d] = "gone" => doc'[d] = "gone"
<1>0. doc \in [Docs -> {"enabled", "disabled", "gone"}]
  BY Zenon DEF StateOK, RequestsOK, ContentOK
<1>1. ASSUME doc' = doc
      PROVE  \A d \in Docs : doc[d] = "gone" => doc'[d] = "gone"
  BY Zenon, <1>1
<1>2. CASE DocsNext
  <2>1. ASSUME NEW e \in Docs, Compile(e) \/ Clear(e) \/ Remove(e) \/ SetStatus(e) \/ Edit(e)
        PROVE  \A d \in Docs : doc[d] = "gone" => doc'[d] = "gone"
    BY Zenon, <1>0, <2>1 DEF Compile, Clear, Remove, SetStatus, Edit
  <2>2. ASSUME NEW a \in announced, ReportOne(a)
        PROVE  doc' = doc
    BY Zenon, <2>2 DEF ReportOne, docVars
  <2> QED
    BY Zenon, <1>1, <1>2, <2>1, <2>2 DEF DocsNext
<1>3. CASE DirtyNext
  <2>1. doc' = doc
    BY Zenon, <1>3 DEF DirtyNext, RefresherStep, ClaimDirty, ReadDirty, CheckRevision, WritePages, PublishPages,
                       SettleDirty, DirtyError, DirtyCrash, ExpireDirty, docVars
  <2> QED
    BY Zenon, <1>1, <2>1
<1>4. CASE ConsumerNext
  <2>1. doc' = doc
    BY ZenonT(60), <1>4
    DEF ConsumerNext, WorkerStep, TakeReady, LookForExpired, TakeExpired, Prepare, Superseded, DeleteDocLevel, Strip,
        RemoveNav, Load, MergeNav, WriteMerged, CommitContributions, AckBatch, Heartbeat, Abort, LeaseExpires,
        producerVars, docVars
  <2> QED
    BY Zenon, <1>1, <2>1
<1>5. CASE UNCHANGED vars
  BY Zenon, <1>1, <1>5 DEF vars, docVars
<1> QED
  BY Zenon, <1>2, <1>3, <1>4, <1>5 DEF Next

\* A row that moves still says what it said.
LEMMA GoneAppended ==
  ASSUME NEW T, NEW R, NEW status, GoneIn(T, status), GoneIn(R, status)
  PROVE  GoneIn(Appended(T, R), status)
<1> SUFFICES ASSUME NEW x \in Appended(T, R), x.type = "deleted" PROVE status[x.doc] = "gone"
  BY Zenon DEF GoneIn
<1>1. CASE x \in T
  BY Zenon, <1>1 DEF GoneIn
<1>2. CASE x \in {MovedTo(r, LastPosition(T) + Rank(r, R)) : r \in R}
  <2>1. PICK r \in R : x = MovedTo(r, LastPosition(T) + Rank(r, R))
    BY Zenon, <1>2
  <2>2. x.type = r.type /\ x.doc = r.doc
    BY <2>1 DEF MovedTo
  <2> QED
    BY Zenon, <2>2 DEF GoneIn
<1> QED
  BY Zenon, <1>1, <1>2 DEF Appended

\* The status may change as long as nobody comes back.
LEMMA GoneAgain ==
  ASSUME StateOK, [Next]_vars, NEW S, \A x \in S : x.doc \in Docs, GoneIn(S, doc)
  PROVE  GoneIn(S, doc')
BY Zenon, GoneStays DEF GoneIn

\* The reports that requests make.
LEMMA ReportsKept ==
  ASSUME StateOK, MarkScenario, ReportsGone, [Next]_vars
  PROVE  ReportsGone'
<1>0. \A a \in announced : a.doc \in Docs
  BY Zenon DEF StateOK, RequestsOK, Report
<1>1. GoneIn(announced, doc')
  BY Zenon, <1>0, GoneAgain DEF ReportsGone, GoneRows
<1>2. CASE announced' \subseteq announced
  BY Zenon, <1>1, <1>2 DEF ReportsGone, GoneRows, GoneIn, MarkOf
<1>3. ASSUME NEW d \in Docs, NEW type, NEW variants, Announce(d, type, variants),
             type # "deleted" \/ doc'[d] = "gone", type = "mark" => variants = {}
      PROVE  ReportsGone'
  <2> DEFINE a == [doc |-> d, type |-> type, variants |-> variants]
  <2>1. a.doc = d /\ a.type = type
    OBVIOUS
  <2>2. type = "mark" => a = MarkOf(a.doc)
    BY Zenon, <1>3, <2>1 DEF MarkOf
  <2>3. announced' = announced \cup {a}
    BY Zenon, <1>3 DEF Announce
  <2> HIDE DEF a
  <2>4. GoneIn(announced', doc')
    BY Zenon, <1>1, <1>3, <2>1, <2>3 DEF GoneIn
  <2>5. \A b \in announced' : b.type = "mark" => b = MarkOf(b.doc)
    BY Zenon, <2>1, <2>2, <2>3 DEF ReportsGone
  <2> QED
    BY Zenon, <2>4, <2>5 DEF ReportsGone, GoneRows, MarkOf
<1>4. ASSUME NEW d \in Docs, NEW type, AnnounceProducts(d, type), type # "mark", type # "deleted" \/ doc'[d] = "gone"
      PROVE  ReportsGone'
  BY Zenon, <1>2, <1>3, <1>4 DEF AnnounceProducts
<1>5. ASSUME NEW d \in Docs, Compile(d) \/ Clear(d) \/ Remove(d) \/ SetStatus(d) \/ Edit(d)
      PROVE  ReportsGone'
  <2>1. CASE Compile(d)
    BY <1>3, <2>1 DEF Compile
  <2>2. CASE Clear(d)
    BY Zenon, <2>2 DEF Clear, Request, MarkScenario
  <2>3. CASE Remove(d)
    <3>1. doc'[d] = "gone"
      BY Zenon, <2>3 DEF Remove, StateOK, RequestsOK, ContentOK
    <3> QED
      BY Zenon, <1>4, <2>3, <3>1 DEF Remove
  <2>4. CASE SetStatus(d)
    BY Zenon, <1>4, <2>4 DEF SetStatus
  <2>5. CASE Edit(d)
    BY Zenon, <1>3, <2>5 DEF Edit
  <2> QED
    BY ZenonT(60), <1>5, <2>1, <2>2, <2>3, <2>4, <2>5
<1>6. CASE DocsNext
  <2>1. ASSUME NEW a \in announced, ReportOne(a)
        PROVE  announced' \subseteq announced
    BY Zenon, <2>1 DEF ReportOne
  <2> QED
    BY Zenon, <1>2, <1>5, <1>6, <2>1 DEF DocsNext
<1>7. CASE DirtyNext
  <2>1. announced' = announced
    BY Zenon, <1>7 DEF DirtyNext, RefresherStep, ClaimDirty, ReadDirty, CheckRevision, WritePages, PublishPages,
                       SettleDirty, DirtyError, DirtyCrash, ExpireDirty
  <2> QED
    BY Zenon, <1>2, <2>1
<1>8. CASE ConsumerNext
  <2>1. announced' = announced
    BY ZenonT(60), <1>8
    DEF ConsumerNext, WorkerStep, TakeReady, LookForExpired, TakeExpired, Prepare, Superseded, DeleteDocLevel, Strip,
        RemoveNav, Load, MergeNav, WriteMerged, CommitContributions, AckBatch, Heartbeat, Abort, LeaseExpires,
        producerVars
  <2> QED
    BY Zenon, <1>2, <2>1
<1>9. CASE UNCHANGED vars
  BY Zenon, <1>2, <1>9 DEF vars
<1> QED
  BY Zenon, <1>6, <1>7, <1>8, <1>9 DEF Next

\* The rows of both tables, and the batches.
LEMMA RowsKept ==
  ASSUME StateOK, ReportsGone, RowsGone, [Next]_vars
  PROVE  RowsGone'
<1>0. /\ \A r \in backlog : r.doc \in Docs
      /\ \A r \in inflight : r.doc \in Docs
      /\ \A w \in Workers : \A r \in worker[w].batch : r.doc \in Docs
  BY Zenon DEF StateOK, QueueOK, WorkersOK, Typed, Table, Row
<1>1. /\ GoneIn(backlog, doc') /\ GoneIn(inflight, doc')
      /\ \A w \in Workers : worker[w].pc \in Busy => GoneIn(worker[w].batch, doc')
  BY Zenon, <1>0, GoneAgain DEF RowsGone, GoneRows
<1>2. GoneIn({}, doc')
  BY Zenon DEF GoneIn
<1>3. ASSUME \A w \in Workers : Keeps(w)
      PROVE  \A w \in Workers : worker'[w].pc \in Busy => GoneIn(worker'[w].batch, doc')
  BY Zenon, <1>1, <1>3 DEF Keeps
<1>4. ASSUME NEW d, NEW type, NEW variants, PublishEntry(d, type, variants), worker' = worker,
             type = "deleted" => doc'[d] = "gone"
      PROVE  RowsGone'
  <2> DEFINE row == [pos |-> 0, n |-> published + 1, doc |-> d, type |-> type, variants |-> variants]
  <2>1. row.doc = d /\ row.type = type
    OBVIOUS
  <2>2. backlog' = Appended(backlog, {row}) /\ inflight' = inflight
    BY Zenon, <1>4 DEF PublishEntry
  <2> HIDE DEF row
  <2>3. GoneIn({row}, doc')
    BY Zenon, <1>4, <2>1 DEF GoneIn
  <2>4. GoneIn(backlog', doc')
    BY Zenon, <1>1, <2>2, <2>3, GoneAppended
  <2> QED
    BY Zenon, <1>1, <1>4, <2>2, <2>4 DEF RowsGone, GoneRows
<1>5. CASE KeepStep \/ LeaseStep
  <2>1. backlog' = backlog /\ inflight' = inflight
    BY Zenon, <1>5 DEF KeepStep, LeaseStep, queueVars
  <2>2. \A w \in Workers : Keeps(w)
    BY Zenon, <1>5 DEF KeepStep, LeaseStep, Keeps
  <2> QED
    BY Zenon, <1>1, <1>3, <2>1, <2>2 DEF RowsGone, GoneRows
<1>6. CASE TakeStep
  <2>1. PICK w \in Workers : (ClaimReady \/ Reclaim) /\ Takes(w)
    BY Zenon, <1>6 DEF TakeStep
  <2>2. PICK queued, flying : ClaimRow(queued, flying) /\ GoneIn(queued, doc') /\ GoneIn(flying, doc')
    BY Zenon, <1>1, <1>2, <2>1, GoneAppended DEF ClaimReady, Reclaim
  <2> DEFINE batch == Oldest(queued)
  <2>3. claim'.batch = batch /\ backlog' = queued \ batch /\ inflight' = Appended(flying, batch)
    BY Zenon, <2>2 DEF ClaimRow
  <2>4. batch \subseteq queued
    BY Zenon DEF Oldest
  <2> HIDE DEF batch
  <2>5. GoneIn(batch, doc') /\ GoneIn(queued \ batch, doc')
    BY Zenon, <2>2, <2>4 DEF GoneIn
  <2>6. GoneIn(backlog', doc') /\ GoneIn(inflight', doc')
    BY Zenon, <2>2, <2>3, <2>5, GoneAppended
  <2> DEFINE x == [Idle EXCEPT !.pc = "prepare", !.token = claim'.token, !.batch = claim'.batch, !.hb = TRUE]
  <2>7. \A v \in Workers : worker'[v] = IF v = w THEN x ELSE worker[v]
    BY Zenon, <2>1 DEF Takes, StateOK, WorkersOK, WorkerShape
  <2>8. x.batch = claim'.batch
    BY DEF Idle
  <2> HIDE DEF x
  <2>9. \A v \in Workers : worker'[v].pc \in Busy => GoneIn(worker'[v].batch, doc')
    BY Zenon, <1>1, <2>3, <2>5, <2>7, <2>8
  <2> QED
    BY Zenon, <2>6, <2>9 DEF RowsGone, GoneRows
<1>7. CASE AckStep
  <2>1. PICK w \in Workers : Ack(worker[w].token, worker[w].batch) /\ Rests(w)
    BY Zenon, <1>7 DEF AckStep
  <2>2. \A v \in Workers : Keeps(v)
    BY Zenon, <2>1, RestMoves DEF StateOK, WorkersOK
  <2>3. backlog' = backlog /\ inflight' \subseteq inflight
    BY Zenon, <2>1 DEF Ack
  <2>4. GoneIn(inflight', doc')
    BY Zenon, <1>1, <2>3 DEF GoneIn
  <2> QED
    BY Zenon, <1>1, <1>3, <2>2, <2>3, <2>4 DEF RowsGone, GoneRows
<1>8. ClaimShape /\ WorkerShape
  BY DEF StateOK, WorkersOK, QueueOK, ClaimOK, ClaimShape
<1>9. CASE PublishStep
  <2>1. published' # published /\ worker' = worker
    BY <1>9, QueueBounds DEF PublishStep, StateOK, QueueOK
  <2>2. CASE DocsNext
    <3>1. PICK a \in announced : PublishEntry(a.doc, a.type, a.variants) /\ ReportOne(a)
      BY Zenon, <2>1, <2>2 DEF DocsNext, ReportOne, queueVars
    <3>2. doc' = doc
      BY Zenon, <3>1 DEF ReportOne, docVars
    <3>3. a.type = "deleted" => doc'[a.doc] = "gone"
      BY Zenon, <3>2 DEF ReportsGone, GoneRows, GoneIn
    <3> QED
      BY Zenon, <1>4, <2>1, <3>1, <3>3
  <2>3. CASE DirtyNext
    <3>1. PICK r \in Refreshers : PublishEntry(refresher[r].doc, "completed", {"wiki"})
      BY Zenon, <2>1, <2>3
      DEF DirtyNext, RefresherStep, ClaimDirty, ReadDirty, CheckRevision, WritePages, PublishPages,
          SettleDirty, DirtyError, DirtyCrash, ExpireDirty, queueVars
    <3> QED
      BY <1>4, <2>1, <3>1
  <2>4. CASE ConsumerNext \/ UNCHANGED vars
    <3>1. published' = published
      BY ZenonT(60), <2>4
      DEF ConsumerNext, WorkerStep, TakeReady, LookForExpired, TakeExpired, Prepare, Superseded, DeleteDocLevel, Strip,
          RemoveNav, Load, MergeNav, WriteMerged, CommitContributions, AckBatch, Heartbeat, Abort, LeaseExpires,
          ClaimReady, Reclaim, ClaimRow, Ack, TouchClaim, ExpireLease, queueVars, vars
    <3> QED
      BY Zenon, <2>1, <3>1
  <2> QED
    BY Zenon, <2>2, <2>3, <2>4 DEF Next
<1> QED
  BY Zenon, <1>5, <1>6, <1>7, <1>8, <1>9, StepKinds

-----------------------------------------------------------------------------
(* The theorem.                                                            *)

\* The scenario of a behaviour is chosen at its beginning.
LEMMA ScenarioKept ==
  ASSUME [Next]_vars
  PROVE  scenario' = scenario
BY ZenonT(60)
DEF Next, DocsNext, ReportOne, DirtyNext, RefresherStep, ClaimDirty, ReadDirty, CheckRevision, WritePages, PublishPages,
    SettleDirty, DirtyError, DirtyCrash, ExpireDirty, ConsumerNext, WorkerStep, TakeReady, LookForExpired, TakeExpired,
    Prepare, Superseded, DeleteDocLevel, Strip, RemoveNav, Load, MergeNav, WriteMerged, CommitContributions, AckBatch,
    Heartbeat, Abort, LeaseExpires, producerVars, vars

\* Every step of a request, of the dirty worker and of a consumer keeps every edit's trace.
LEMMA MarkStep ==
  ASSUME OneRefresher, StateOK, MarkInv, [Next]_vars
  PROVE  MarkInv'
<1> SUFFICES ASSUME MarkScenario PROVE ReportsGone' /\ RowsGone' /\ \A d \in Docs : DocMarked(d)'
  BY Zenon, ScenarioKept DEF MarkInv, MarkScenario
<1>1. ReportsGone /\ RowsGone /\ \A d \in Docs : DocMarked(d)
  BY Zenon DEF MarkInv
<1>2. ReportsGone' /\ RowsGone'
  BY Zenon, <1>1, ReportsKept, RowsKept
<1>3. \A d \in Docs : DocMarked(d)'
  <2>1. CASE DocsNext /\ UNCHANGED <<refresher, consumerVars>>
    <3>1. refresher' = refresher
      BY Zenon, <2>1
    <3>2. ASSUME NEW e \in Docs, Compile(e) \/ Clear(e) \/ Remove(e) \/ SetStatus(e) \/ Edit(e), dirty' = dirty
          PROVE  \A d \in Docs : DocMarked(d)'
      BY Zenon, <1>1, <3>1, <3>2, MarkRequests
    <3>3. ASSUME NEW a \in announced, ReportOne(a)
          PROVE  \A d \in Docs : DocMarked(d)'
      BY Zenon, <1>1, <3>1, <3>3, MarkReports
    <3> QED
      BY Zenon, <2>1, <3>2, <3>3 DEF DocsNext
  <2>2. CASE DirtyNext
    BY Zenon, <1>1, <2>2, MarkRefresher, MarkExpires DEF DirtyNext
  <2>3. CASE ConsumerNext
    BY Zenon, <1>1, <2>3, MarkConsumers
  <2>4. CASE UNCHANGED vars
    <3>1. UNCHANGED <<doc, src, pages, mapped, dirty, refresher, announced>>
      BY Zenon, <2>4 DEF vars, docVars
    <3> QED
      BY Zenon, <1>1, <3>1, MarkSame
  <2> QED
    BY Zenon, <2>1, <2>2, <2>3, <2>4 DEF Next
<1> QED
  BY Zenon, <1>2, <1>3

\* At first no document has been edited.
LEMMA MarkInit == Init => MarkInv
<1> SUFFICES ASSUME Init PROVE ReportsGone /\ RowsGone /\ \A d \in Docs : DocMarked(d)
  BY Zenon DEF MarkInv
<1>1. /\ backlog = {} /\ inflight = {} /\ announced = {}
      /\ worker = [w \in Workers |-> Idle] /\ refresher = [r \in Refreshers |-> Rested]
      /\ src = [d \in Docs |-> 0] /\ pages = src /\ mapped = src /\ dirty = [d \in Docs |-> NoDirty]
  BY Zenon DEF Init, QueueInit, DocsInit, DirtyInit, ConsumerInit
<1>2. Idle.pc = "idle" /\ Rested.pc = "idle" /\ NoDirty.state = "none"
  BY DEF Idle, Rested, NoDirty
<1>3. ReportsGone
  BY Zenon, <1>1 DEF ReportsGone, GoneRows, GoneIn
<1>4. RowsGone
  BY Zenon, <1>1, <1>2 DEF RowsGone, GoneRows, GoneIn, Busy
<1>5. \A d \in Docs : DocMarked(d)
  BY Zenon, <1>1, <1>2 DEF DocMarked, Sure
<1> QED
  BY Zenon, <1>3, <1>4, <1>5

\* No edit is forgotten by claimWikiDirty, compileDirtyWikiDocument, the revision check of
\* replaceDirtyWikiProducts and processWikiDirty, whatever crashes or fails in between and
\* whatever the consumers do, as long as there is one dirty worker.  With two, the check
\* and the write are not one step: an old read may be written over a settled new one.
THEOREM MarksKept ==
  ASSUME OneRefresher
  PROVE  Spec => []MarkNotLost
<1>1. Init => StateOK /\ MarkInv
  BY StateInit, MarkInit
<1>2. StateOK /\ MarkInv /\ [Next]_vars => (StateOK /\ MarkInv)'
  BY StateStep, MarkStep
<1>3. MarkInv => MarkNotLost
  BY Zenon DEF MarkInv, MarkNotLost, MarkScenario, DocMarked, Sure, MarkOf
<1> QED
  BY <1>1, <1>2, <1>3, PTL DEF Spec

=============================================================================
