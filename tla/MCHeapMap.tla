----------------------------- MODULE MCHeapMap -----------------------------
(***************************************************************************)
(* Instances of HeapMap for TLC: keys are interchangeable.                 *)
(***************************************************************************)
EXTENDS HeapMap, TLC

Symmetry == Permutations(Key)
===========================================================================
