------------------------------- MODULE MCHeap -------------------------------
(* Model-checking Heap: the constants have their values in the cfg. *)
EXTENDS Heap
=============================================================================
