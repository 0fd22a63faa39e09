------------------------------- MODULE MCAst -------------------------------
(* Model-checking Ast over all expressions of at most N values. *)
EXTENDS Ast

CONSTANT N

Below(side, t) == {<<side>> \o n : n \in t}

\* the expressions of n values: an operator divides them between two
Expressions ==
  LET T[n \in 1..N] ==
        IF n = 1 THEN {{<<>>}}
        ELSE UNION {{{<<>>} \cup Below("left", l) \cup Below("right", r) :
                       l \in T[k], r \in T[n - k]} : k \in 1..(n - 1)}
  IN  UNION {T[n] : n \in 1..N}
=============================================================================
