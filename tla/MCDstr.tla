------------------------------- MODULE MCDstr -------------------------------
(* Values for model-checking Dstr: a struct that holds 2 characters, and     *)
(* strings long enough to double the heap block twice (2 -> 4 -> 8).         *)
EXTENDS Dstr

CONSTANTS a, b
Letters    == {a, b}
=============================================================================
