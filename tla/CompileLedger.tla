--------------------------- MODULE CompileLedger ---------------------------
(***************************************************************************)
(* What the scheduler of knowledge compilation promises, without tables,   *)
(* positions and leases.  An event is waiting, taken or settled.  It is    *)
(* settled only by the holder of the latest token, in one step with the    *)
(* whole batch that was granted with that token, and only if it was taken: *)
(* so the holder started to work after the event was published.            *)
(***************************************************************************)
EXTENDS Integers

VARIABLES issued,   \* events published so far: 1 .. issued
          waiting,  \* events nobody has taken
          taken,    \* events some holder took and nobody settled
          tokens,   \* tokens granted so far
          holder,   \* the valid token, or 0
          grant     \* the events granted with it

vars == <<issued, waiting, taken, tokens, holder, grant>>

Init ==
  /\ issued = 0 /\ tokens = 0 /\ holder = 0
  /\ waiting = {} /\ taken = {} /\ grant = {}

Publish ==
  /\ issued' = issued + 1
  /\ waiting' = waiting \cup {issued + 1}
  /\ UNCHANGED <<taken, tokens, holder, grant>>

\* A new holder gets events that wait, among them perhaps those that an earlier
\* holder took; whoever had a token before has lost it.
Take ==
  \E back \in {{}, taken} : \E batch \in SUBSET (waiting \cup back) :
    /\ waiting' = (waiting \cup back) \ batch
    /\ taken' = (taken \ back) \cup batch
    /\ tokens' = tokens + 1
    /\ holder' = tokens + 1
    /\ grant' = batch
    /\ UNCHANGED issued

\* The holder settles what it was granted; what an earlier holder left behind
\* may be settled with it.
Settle ==
  \E done \in SUBSET taken :
    /\ holder # 0
    /\ grant \subseteq done
    /\ taken' = taken \ done
    /\ \/ taken' = {} /\ holder' = 0 /\ grant' = {}
       \/ taken' # {} /\ UNCHANGED <<holder, grant>>
    /\ UNCHANGED <<issued, waiting, tokens>>

Next == Publish \/ Take \/ Settle

Spec == Init /\ [][Next]_vars
=============================================================================
