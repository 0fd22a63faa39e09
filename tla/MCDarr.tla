------------------------------- MODULE MCDarr -------------------------------
(* Model-checking Darr: two threads of three numbers; an array that has room *)
(* for them, and one that must grow at the fifth.                            *)
EXTENDS Darr
=============================================================================
