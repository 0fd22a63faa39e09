----------------------------- MODULE MCFreeList -----------------------------
(* Model-checking FreeList: nodes of two words of two bits.                  *)
EXTENDS FreeList
=============================================================================
