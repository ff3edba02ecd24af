----------------------------- MODULE MemoryJob -----------------------------
(***************************************************************************)
(* What durable memory extraction promises: a message is extracted once,   *)
(* only the extraction that was checkpointed reaches the index, and the    *)
(* job is completed only when all of it is there.                          *)
(***************************************************************************)
EXTENDS Integers

None  == 0   \* no extraction yet
Empty == -1  \* an extraction without memories

VARIABLES phase,       \* "absent", "pending", "extracted", "stored", "completed", "failed"
          checkpoint,  \* the extraction
          index        \* extractions written to the index

vars == <<phase, checkpoint, index>>

Init ==
  /\ phase = "absent"
  /\ checkpoint = None
  /\ index = {}

Create == phase = "absent" /\ phase' = "pending" /\ UNCHANGED <<checkpoint, index>>

Extract ==
  /\ phase = "pending" /\ phase' = "extracted"
  /\ checkpoint = None /\ checkpoint' # None
  /\ UNCHANGED index

\* Also later on, by a worker that lost its task to another one.
Write ==
  /\ checkpoint \notin {None, Empty}
  /\ index' = index \cup {checkpoint}
  /\ UNCHANGED <<phase, checkpoint>>

Store ==
  /\ phase = "extracted" /\ phase' = "stored"
  /\ checkpoint \in index \cup {Empty}
  /\ UNCHANGED <<checkpoint, index>>

Complete == phase = "stored" /\ phase' = "completed" /\ UNCHANGED <<checkpoint, index>>

Fail ==
  /\ phase \in {"pending", "extracted", "stored"} /\ phase' = "failed"
  /\ UNCHANGED <<checkpoint, index>>

Next == Create \/ Extract \/ Write \/ Store \/ Complete \/ Fail

Spec == Init /\ [][Next]_vars
=============================================================================
