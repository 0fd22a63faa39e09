----------------------------- MODULE MCSlabTab -----------------------------
(* Values for model-checking SlabTab: three threads and a slab of two        *)
(* objects, so that the slab empties, threads sleep and puts meet.           *)
EXTENDS SlabTab

CONSTANTS t1, t2, t3

Threads == {t1, t2, t3}
=============================================================================
