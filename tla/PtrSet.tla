------------------------------- MODULE PtrSet -------------------------------
(***************************************************************************)
(* What ptrset.h promises: a set that pointers are added to, that says     *)
(* whether it has one, and that is freed.  A pointer is the sequence of    *)
(* its chunks (types.h).  A `coarse' set tells two pointers apart by all   *)
(* chunks but the last; that is what one of the four sets does.            *)
(***************************************************************************)
EXTENDS Sequences, SequencesExt

CONSTANT Ptrs                       \* what callers add and ask for

VARIABLES coarse,                   \* see above; never changes
          added,                    \* the pointers of the set
          asked, answer,            \* what ps_has was asked and what it returns
          open                      \* until ps_free

vars == <<coarse, added, asked, answer, open>>

\* the set cannot tell p from q
Same(p, q) == IF coarse THEN Front(p) = Front(q) ELSE p = q

Init == coarse \in BOOLEAN /\ added = {} /\ open = TRUE
        /\ asked = <<>> /\ answer = FALSE

Add(p) == /\ open /\ asked = <<>>
          /\ added' = added \cup {p}
          /\ UNCHANGED <<coarse, asked, answer, open>>

Has(p) == /\ open /\ asked = <<>>
          /\ asked' = p /\ answer' = \E q \in added : Same(p, q)
          /\ UNCHANGED <<coarse, added, open>>

\* ps_has returns
Taken == /\ asked # <<>> /\ asked' = <<>> /\ answer' = FALSE
         /\ UNCHANGED <<coarse, added, open>>

Free == open /\ asked = <<>> /\ open' = FALSE /\ added' = {}
        /\ UNCHANGED <<coarse, asked, answer>>

Next == (\E p \in Ptrs : Add(p) \/ Has(p)) \/ Taken \/ Free

Spec == Init /\ [][Next]_vars
=============================================================================
