------------------------------- MODULE MCHash -------------------------------
(* Model-checking Hash.  Pointers differ in their hashes only, which are any, *)
(* so that they can be added in the order of their numbers.                   *)
EXTENDS Hash

CONSTANT N

MCPtrs == {<<k>> : k \in 1..N}

MCNext == /\ Next
          /\ ptr' # ptr => ptr' = <<Cardinality(added) + 1>>

MCSpec == Init /\ [][MCNext]_vars /\ WF_vars(Walk) /\ WF_vars(Link)
=============================================================================
