---------------------------- MODULE MCIngestion ----------------------------
EXTENDS IngestionSystem, TLC

CONSTANTS w1, w2, p1, p2

\* One process with the given workers.
OneProcess == [w \in Workers |-> p1]

\* Two processes with one worker each.
TwoProcesses == [w \in Workers |-> IF w = w1 THEN p1 ELSE p2]

Symmetry == Permutations(Clients) \cup Permutations(MsgIds) \cup Permutations(TaskIds)

SymmetryOneProcess == Symmetry \cup Permutations(Workers)

\* The two processes may be exchanged together with their workers.
SymmetryTwoProcesses == Symmetry \cup {w1 :> w2 @@ w2 :> w1 @@ p1 :> p2 @@ p2 :> p1}
=============================================================================
