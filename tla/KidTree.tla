------------------------------ MODULE KidTree ------------------------------
(***************************************************************************)
(* The red-black tree that bst_set.c keeps of the kids of a trie node: a   *)
(* kid is known by its chunk, and a tree is a record of links.  `kids' is  *)
(* the pointer of the trie node (np->kids); `root' is the root that        *)
(* kid_fix() carries, which becomes np->kids when it returns.              *)
(***************************************************************************)
EXTENDS Integers, FiniteSets

CONSTANT NULL

Sides == {"left", "right"}
Other(s) == IF s = "left" THEN "right" ELSE "left"

Kids(t) == DOMAIN t.color

\* zalloc() of a trie node
EmptyTree == [kids |-> NULL, root |-> NULL,
              kid |-> [s \in Sides |-> <<>>], parent |-> <<>>, color |-> <<>>]

SideOf(c, x) == IF c < x THEN "left" ELSE "right"

\* the n-th kid on the way down to c, and c or NULL from the end of it on
Down(t, c) ==
  LET D[n \in Nat] ==
        IF n = 0 THEN t.kids
        ELSE LET x == D[n-1]
             IN  IF x \in {c, NULL} THEN x ELSE t.kid[SideOf(c, x)][x]
  IN  [n \in 0..Cardinality(Kids(t)) |-> D[n]]

KidFind(t, c) == Down(t, c)[Cardinality(Kids(t))]

\* where the way down to c ended: one kid, or NULL of an empty tree
Hooks(t, c) ==
  IF t.kids = NULL THEN {NULL}
  ELSE {x \in {Down(t, c)[n] : n \in 0..(Cardinality(Kids(t)) - 1)} \ {NULL} :
          t.kid[SideOf(c, x)][x] = NULL}

\* kid_get_or_set(): a new kid is red and hangs under u
Linked(t, c, u) ==
  LET K == Kids(t) \cup {c}
  IN  [kids   |-> IF u = NULL THEN c ELSE t.kids,
       root   |-> IF u = NULL THEN c ELSE t.kids,
       kid    |-> [s \in Sides |-> [x \in K |->
                     IF x = c THEN NULL
                     ELSE IF x = u /\ s = SideOf(c, u) THEN c
                     ELSE t.kid[s][x]]],
       parent |-> [x \in K |-> IF x = c THEN u ELSE t.parent[x]],
       color  |-> [x \in K |-> IF x = c THEN "RED" ELSE t.color[x]]]

\* mutant: the inner subtree keeps its old parent
RotatedUnmended(t, x, s) ==
  LET o == Other(s)
      y == t.kid[o][x]
      b == t.kid[s][y]
      u == t.parent[x]
  IN  [t EXCEPT !.root = IF u = NULL THEN y ELSE @,
                !.kid = [d \in Sides |-> [z \in Kids(t) |->
                           CASE z = x /\ d = o -> b
                             [] z = y /\ d = s -> x
                             [] z = u /\ t.kid[d][z] = x -> y
                             [] OTHER -> t.kid[d][z]]],
                !.parent = [t.parent EXCEPT ![x] = y, ![y] = u]]

\* kid_rotate_left() and kid_rotate_right(): x goes down to side s, its kid
\* y of the other side comes up
Rotated(t, x, s) ==
  LET o == Other(s)
      y == t.kid[o][x]
      b == t.kid[s][y]
      u == t.parent[x]
  IN  [t EXCEPT !.root = IF u = NULL THEN y ELSE @,
                !.kid = [d \in Sides |-> [z \in Kids(t) |->
                           CASE z = x /\ d = o -> b
                             [] z = y /\ d = s -> x
                             [] z = u /\ t.kid[d][z] = x -> y
                             [] OTHER -> t.kid[d][z]]],
                !.parent = [z \in Kids(t) |->
                              CASE z = x -> y
                                [] z = y -> u
                                [] z = b -> x
                                [] OTHER -> t.parent[z]]]

Painted(t, K, c) ==
  [t EXCEPT !.color = [x \in Kids(t) |-> IF x \in K THEN c ELSE @[x]]]

-----------------------------------------------------------------------------
\* the loop of kid_fix() goes on with p
Unfixed(t, p) == p # t.root /\ t.color[t.parent[p]] = "RED"

Gp(t, p) == t.parent[t.parent[p]]

\* the side of the grandparent that the parent is on
ParentSide(t, p) ==
  IF t.kid["left"][Gp(t, p)] = t.parent[p] THEN "left" ELSE "right"

Uncle(t, p) == t.kid[Other(ParentSide(t, p))][Gp(t, p)]

UncleRed(t, p) == Uncle(t, p) # NULL /\ t.color[Uncle(t, p)] = "RED"

Inner(t, p) == p = t.kid[Other(ParentSide(t, p))][t.parent[p]]

\* mutant: the uncle stays red
RecolouredParent(t, p) ==
  Painted(Painted(t, {t.parent[p]}, "BLACK"), {Gp(t, p)}, "RED")

Recoloured(t, p) ==
  Painted(Painted(t, {t.parent[p], Uncle(t, p)}, "BLACK"), {Gp(t, p)}, "RED")

\* the rotations; the first leaves the variable `parent' with the kid it had,
\* which is now the lower of the two
Turned(t, p) ==
  LET s  == ParentSide(t, p)
      u  == t.parent[p]
      t1 == IF Inner(t, p) THEN Rotated(t, u, s) ELSE t
      t2 == Painted(Painted(t1, {u}, "BLACK"), {Gp(t, p)}, "RED")
  IN  Rotated(t2, Gp(t, p), Other(s))

\* mutant: the root that was returned is dropped
ReturnedDropped(t) == Painted(t, {t.root}, "BLACK")

\* behind the loop; np->kids is set to the root that kid_fix() returns
Returned(t) == [Painted(t, {t.root}, "BLACK") EXCEPT !.kids = t.root]

-----------------------------------------------------------------------------
\* the kids below x, x included; NULL has none
Under(t, x) ==
  LET U[n \in Nat] ==
        IF n = 0 THEN {x} \ {NULL}
        ELSE LET above == U[n-1]
             IN  above \cup ({t.kid[s][y] : s \in Sides, y \in above} \ {NULL})
  IN  U[Cardinality(Kids(t))]

\* Every kid is found from the root, and every link down has its link up.
LinksMatch(t) ==
  /\ Under(t, t.root) = Kids(t)
  /\ t.root # NULL => t.parent[t.root] = NULL
  /\ \A x \in Kids(t) \ {t.root} :
       \E s \in Sides : t.kid[s][t.parent[x]] = x

\* A search for any chunk goes the way its kid lies.
Ordered(t) ==
  \A x \in Kids(t), s \in Sides :
    \A y \in Under(t, t.kid[s][x]) : SideOf(y, x) = s /\ y # x

\* The root is black, no red kid has a red one, and the kids that lack a kid
\* have the same number of black ones above them.
BlacksAbove(t, x) ==
  Cardinality({y \in Kids(t) : x \in Under(t, y) /\ t.color[y] = "BLACK"})

RedBlack(t) ==
  LET Open == {x \in Kids(t) : \E s \in Sides : t.kid[s][x] = NULL}
  IN  /\ t.root # NULL => t.color[t.root] = "BLACK"
      /\ \A x \in Kids(t) \ {t.root} :
           t.color[x] = "RED" => t.color[t.parent[x]] = "BLACK"
      /\ \A x, y \in Open : BlacksAbove(t, x) = BlacksAbove(t, y)
=============================================================================
