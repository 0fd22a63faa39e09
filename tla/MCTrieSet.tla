----------------------------- MODULE MCTrieSet -----------------------------
(* Model-checking TrieSet: pointers of two chunks.  A tree grows from a few  *)
(* kids in every order, or along one of the tracks: in ascending order, and  *)
(* in two orders that have an inner turn higher up, under the root and at    *)
(* the root.  Each track also runs mirrored.                                 *)
EXTENDS TrieSet

CONSTANTS Shuffled,        \* first chunks that come in every order
          Few              \* first chunks of the pointers of the other sets

Tracks == {<<1, 2, 3, 4, 5, 6, 7, 8, 9>>,
           <<11, 9, 12, 2, 10, 1, 8, 7, 4, 5, 6, 3>>,
           <<10, 4, 12, 2, 6, 5, 7, 8>>}

MCPtrs == [k \in Kinds |-> IF k = "bst" THEN ((1..12) \X {1}) \cup {<<1, 2>>}
                           ELSE Few \X {1, 2}]

\* a tree may have the kids K
InOrder(K) ==
  \/ K \subseteq Shuffled
  \/ \E t \in Tracks : \E n \in 1..Len(t) :
       K \in {Range(SubSeq(t, 1, n)), {13 - t[i] : i \in 1..n}}

MCNext ==
  /\ Next
  /\ kind = "bst" /\ arg' # arg => InOrder({p[1] : p \in added \cup {arg'}})

MCSpec == Init /\ [][MCNext]_vars /\ WF_vars(AddStep)
=============================================================================
