------------------------------ MODULE MCMemory ------------------------------
(***************************************************************************)
(* Instances of memory extraction for TLC.                                 *)
(***************************************************************************)
EXTENDS MemorySystem

CONSTANTS w1, w2
=============================================================================
