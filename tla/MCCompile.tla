------------------------------ MODULE MCCompile ------------------------------
(***************************************************************************)
(* Instances of knowledge compilation for TLC.                             *)
(***************************************************************************)
EXTENDS CompileSystem, TLC

CONSTANTS d1, d2, w1, w2, r1

Of(kinds, count, hits) == [requests |-> kinds, limit |-> count, faults |-> hits]

\* What a document says changes, and faults.
Contents == Of({"compile", "edit"}, 3, {"abort", "lease", "stall"})

\* The dirty table.
Marks == Of({"compile", "edit", "disable", "remove"}, 3, {"crash", "error"})

\* Documents come and go.
Members == Of({"compile", "recompile", "clear", "remove"}, 3, {})
Removals == Of({"compile", "disable", "clear", "remove"}, 4, {})

\* Two requests of any kind, any fault.
Everything == Of(RequestKinds, 2, CompileFaults)

AllScenarios == {Contents, Marks, Members, Removals, Everything}

\* Liveness.
Failures == {Of({"compile", "edit", "remove"}, 2, {"abort", "lease", "stall", "crash", "error"})}

\* A document is parsed again.
Reparse == {Of({"compile", "clear"}, 3, {})}

Symmetric == Permutations(Docs) \cup Permutations(Workers)
=============================================================================
