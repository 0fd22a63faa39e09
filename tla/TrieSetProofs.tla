---------------------------- MODULE TrieSetProofs ----------------------------
(***************************************************************************)
(* Proofs about TrieSet and the red-black tree of KidTree, for any set of  *)
(* pointers and every number of chunks.                                    *)
(*                                                                         *)
(* The tree.  That the links agree and the kids are in order is not        *)
(* inductive over a rotation as a statement about the paths from the root: *)
(* a rotation moves whole subtrees.  A tree is therefore shown by a        *)
(* function D that gives each kid the set of kids under it, itself         *)
(* included: the two sides of a kid split D[x], those on the left are less *)
(* than x and those on the right greater.  A rotation changes D at its two *)
(* kids only, a new kid joins D at the kids above it.  What Under computes *)
(* link by link is then D[x], since it is the least set closed under the   *)
(* links and every kid has fewer under it than its parent has.             *)
(*                                                                         *)
(* The inductive invariant, TrieInv, has four parts: where a call is       *)
(* (PlaceInv), that each node keeps its kids as its set does (NodesInv),   *)
(* that nodes and edges are the starts of the pointers added and of one    *)
(* on its way (PathsInv), and that the blocks are those the nodes know of  *)
(* (HeapInv).  PathsInv carries the refinement: a walk over the edges      *)
(* answers for the history variable `added' whatever the order of the      *)
(* additions was.                                                          *)
(*                                                                         *)
(* Balance.  BlacksAbove counts along the ways down, which a turn changes  *)
(* everywhere below it.  The second witness counts from below: a function  *)
(* H that has for each kid the number of black ones on every way down from *)
(* it (Level).  Recolouring changes H at two kids, an outer turn at two,   *)
(* and what is above adds up (BlacksAboveAre).  BalanceInv says of every   *)
(* node without an inner turn that kid_fix() works on a tree with one red  *)
(* kid too many at most, and that at its own place (Mending).              *)
(***************************************************************************)
EXTENDS TrieSet, FiniteSetTheorems, WellFoundedInduction, SequenceTheorems, TLAPS

-----------------------------------------------------------------------------
(* Counting *)

\* a set of numbers has a least one
LEMMA Least ==
  ASSUME NEW S \in SUBSET Nat, S # {}
  PROVE  \E m \in S : \A k \in S : m <= k
<1>. DEFINE R == OpToRel(<, Nat)
<1>1. IsWellFoundedOn(R, Nat)
  BY NatLessThanWellFounded
<1>2. \A k, m \in Nat : k < m => <<k, m>> \in R
  BY DEF OpToRel
<1>. HIDE DEF R
<1>3. PICK m \in S : \A k \in S : ~(<<k, m>> \in R)
  BY <1>1, WFMin
<1>4. \A k \in S : ~(k < m)
  BY <1>2, <1>3, Zenon
<1>. QED  BY <1>4

\* induction, for a set of numbers
LEMMA AllNumbers ==
  ASSUME NEW S \in SUBSET Nat, 0 \in S, \A n \in S : n + 1 \in S
  PROVE  S = Nat
<1>. SUFFICES ASSUME Nat \ S # {} PROVE FALSE
  OBVIOUS
<1>1. PICK m \in Nat \ S : \A k \in Nat \ S : m <= k
  BY Least
<1>2. m - 1 \in S /\ m # 0
  BY <1>1
<1>. QED  BY <1>2

\* a function that is applied again and again
Iterated(S, F, s) ==
  \E f \in [Nat -> S] : f[0] = s /\ \A n \in Nat : f[n + 1] = F[f[n]]

\* a function can be applied over and over
LEMMA Iterates == \A S : \A F \in [S -> S], s \in S : Iterated(S, F, s)
<1>. SUFFICES ASSUME NEW S, NEW F \in [S -> S], NEW s \in S
              PROVE  \E f \in [Nat -> S] : f[0] = s /\ \A n \in Nat : f[n + 1] = F[f[n]]
  BY DEF Iterated
<1>. DEFINE Upto(n) == {g \in [0..n -> S] : g[0] = s /\ \A i \in 0..(n - 1) : g[i + 1] = F[g[i]]}
<1>1. \A n \in Nat : Upto(n) # {}
  <2>. DEFINE T == {n \in Nat : Upto(n) # {}}
  <2>1. 0 \in T
    <3>1. [i \in 0..0 |-> s] \in Upto(0)
      OBVIOUS
    <3>. QED  BY <3>1
  <2>2. ASSUME NEW n \in T PROVE n + 1 \in T
    <3>1. PICK g : g \in Upto(n)
      OBVIOUS
    <3>2. [i \in 0..(n + 1) |-> IF i = n + 1 THEN F[g[n]] ELSE g[i]] \in Upto(n + 1)
      BY <3>1
    <3>. QED  BY <3>2, SMTT(30)
  <2>. HIDE DEF T
  <2>3. T = Nat
    <3>1. T \in SUBSET Nat
      BY DEF T
    <3>. QED  BY <2>1, <2>2, <3>1, AllNumbers
  <2>. QED  BY <2>3 DEF T
<1>2. ASSUME NEW m \in Nat, NEW n \in Nat, m <= n, NEW g \in Upto(m), NEW h \in Upto(n)
      PROVE  \A i \in 0..m : g[i] = h[i]
  <2>. DEFINE T == {i \in Nat : i <= m => g[i] = h[i]}
  <2>1. 0 \in T
    BY <1>2
  <2>2. ASSUME NEW i \in T PROVE i + 1 \in T
    BY <1>2
  <2>. HIDE DEF T
  <2>3. T = Nat
    <3>1. T \in SUBSET Nat
      BY DEF T
    <3>. QED  BY <2>1, <2>2, <3>1, AllNumbers
  <2>. QED  BY <2>3 DEF T
<1>. HIDE DEF Upto
<1>. DEFINE G == [n \in Nat |-> CHOOSE g : g \in Upto(n)]
            f == [n \in Nat |-> G[n][n]]
<1>3. \A n \in Nat : G[n] \in Upto(n)
  BY <1>1
<1>. HIDE DEF G
<1>4. f \in [Nat -> S] /\ f[0] = s
  BY <1>3 DEF Upto
<1>5. ASSUME NEW n \in Nat PROVE f[n + 1] = F[f[n]]
  <2>1. G[n] \in Upto(n) /\ G[n + 1] \in Upto(n + 1)
    BY <1>3
  <2>2. \A i \in 0..n : G[n][i] = G[n + 1][i]
    BY <1>2, <2>1
  <2>3. G[n + 1][n + 1] = F[G[n + 1][n]]
    BY <2>1 DEF Upto
  <2>. QED  BY <2>2, <2>3
<1>. QED  BY <1>4, <1>5

-----------------------------------------------------------------------------
(* The tree of kids *)

\* the links lead to kids
Typed(t) ==
  /\ t = [kids |-> t.kids, root |-> t.root, kid |-> t.kid, parent |-> t.parent, color |-> t.color]
  /\ IsFiniteSet(Kids(t)) /\ Kids(t) \subseteq Int
  /\ t.kids \in Kids(t) \cup {NULL} /\ t.root \in Kids(t) \cup {NULL}
  /\ t.kid \in [Sides -> [Kids(t) -> Kids(t) \cup {NULL}]]
  /\ t.parent \in [Kids(t) -> Kids(t) \cup {NULL}]
  /\ t.color \in [Kids(t) -> {"RED", "BLACK"}]

\* with a kid S has those it leads to
Closed(t, S) == \A y \in S, s \in Sides : t.kid[s][y] \in S \cup {NULL}

\* what is under a kid is the least set that has it and is closed
LEMMA UnderLeast ==
  ASSUME NEW t, Typed(t), NEW x \in Kids(t) \cup {NULL}, NULL \notin Int
  PROVE  /\ Under(t, x) \subseteq Kids(t)
         /\ x \in Under(t, x) \cup {NULL}
         /\ Closed(t, Under(t, x))
         /\ \A S \in SUBSET Kids(t) : Closed(t, S) /\ x \in S \cup {NULL} => Under(t, x) \subseteq S
<1>. DEFINE K == Kids(t)
            More(A) == A \cup ({t.kid[s][y] : s \in Sides, y \in A} \ {NULL})
            F == [A \in SUBSET K |-> More(A)]
            start == {x} \ {NULL}
            N == Cardinality(K)
<1>1. Under(t, x) = (CHOOSE g : g = [n \in Nat |->
            IF n = 0 THEN {x} \ {NULL}
            ELSE g[n - 1] \cup ({t.kid[s][y] : s \in Sides, y \in g[n - 1]} \ {NULL})])[N]
  BY DEF Under
<1>2. F \in [SUBSET K -> SUBSET K] /\ start \in SUBSET K
  BY DEF Typed
<1>3. PICK f \in [Nat -> SUBSET K] : f[0] = start /\ \A n \in Nat : f[n + 1] = F[f[n]]
  <2>. HIDE DEF F, start, K
  <2>1. Iterated(SUBSET K, F, start)
    BY <1>2, Iterates, Zenon
  <2>. QED  BY <2>1 DEF Iterated
<1>. DEFINE Runs(g) == g = [n \in Nat |-> IF n = 0 THEN start ELSE More(g[n - 1])]
<1>4. Runs(f)
  <2>1. ASSUME NEW n \in Nat, n # 0 PROVE f[n] = More(f[n - 1])
    <3>1. n - 1 \in Nat /\ (n - 1) + 1 = n
      BY <2>1
    <3>2. f[(n - 1) + 1] = F[f[n - 1]] /\ f[n - 1] \in SUBSET K
      <4>. HIDE DEF F, K
      <4>. QED  BY <1>3, <3>1
    <3>3. F[f[n - 1]] = More(f[n - 1])
      BY <3>2
    <3>4. f[n] = F[f[n - 1]]
      <4>. HIDE DEF F, K
      <4>. QED  BY <3>1, <3>2
    <3>. HIDE DEF F, More
    <3>. QED  BY <3>3, <3>4
  <2>2. f = [n \in Nat |-> IF n = 0 THEN start ELSE More(f[n - 1])]
    <3>. HIDE DEF More, start, F
    <3>1. f = [n \in Nat |-> f[n]] /\ f[0] = start
      BY <1>3
    <3>2. \A n \in Nat : f[n] = IF n = 0 THEN start ELSE More(f[n - 1])
      BY <2>1, <3>1
    <3>. QED  BY <3>1, <3>2, Zenon
  <2>. HIDE DEF More, start
  <2>. QED  BY <2>2
<1>5. PICK U : Under(t, x) = U[N] /\ Runs(U)
  <2>1. Under(t, x) = (CHOOSE g : Runs(g))[N]
    BY <1>1
  <2>. HIDE DEF Runs
  <2>2. Runs(CHOOSE g : Runs(g))
    BY <1>4, Zenon
  <2>. QED  BY <2>1, <2>2
<1>6. U[0] = start /\ \A n \in Nat : U[n + 1] = More(U[n])
  <2>1. \A n \in Nat : n + 1 \in Nat /\ n + 1 # 0 /\ (n + 1) - 1 = n
    OBVIOUS
  <2>. QED  BY <1>5, <2>1
<1>7. \A n \in Nat : U[n] \in SUBSET K
  <2>. DEFINE T == {n \in Nat : U[n] \in SUBSET K}
  <2>1. 0 \in T
    BY <1>2, <1>6
  <2>2. ASSUME NEW n \in T PROVE n + 1 \in T
    BY <1>6 DEF Typed
  <2>. HIDE DEF T
  <2>3. T = Nat
    <3>1. T \in SUBSET Nat
      BY DEF T
    <3>. QED  BY <2>1, <2>2, <3>1, AllNumbers
  <2>. QED  BY <2>3 DEF T
<1>8. \A A \in SUBSET K : Closed(t, A) <=> More(A) = A
  BY DEF Closed, Typed
<1>. HIDE DEF More, start, F
<1>9. IsFiniteSet(K) /\ N \in Nat
  BY FS_CardinalityType DEF Typed
<1>10. \A A \in SUBSET K : IsFiniteSet(A) /\ Cardinality(A) \in Nat /\ Cardinality(A) <= N
                            /\ (Cardinality(A) = N => A = K)
  BY <1>9, FS_Subset, FS_CardinalityType
<1>11. \A n \in Nat : Closed(t, U[n]) \/ Cardinality(U[n]) >= n
  <2>. DEFINE T == {n \in Nat : Closed(t, U[n]) \/ Cardinality(U[n]) >= n}
  <2>1. 0 \in T
    BY <1>7, <1>10
  <2>2. ASSUME NEW n \in T PROVE n + 1 \in T
    <3>1. n \in Nat /\ U[n + 1] = More(U[n]) /\ U[n] \in SUBSET K /\ U[n + 1] \in SUBSET K
      BY <1>6, <1>7
    <3>2. CASE Closed(t, U[n])
      BY <1>8, <3>1, <3>2
    <3>3. CASE ~Closed(t, U[n])
      <4>1. U[n] \subseteq U[n + 1] /\ U[n] # U[n + 1]
        BY <1>8, <3>1, <3>3 DEF More
      <4>2. Cardinality(U[n]) < Cardinality(U[n + 1])
        BY <1>10, <3>1, <4>1, FS_Subset
      <4>3. Cardinality(U[n]) >= n
        BY <3>3
      <4>. QED  BY <1>10, <3>1, <4>2, <4>3
    <3>. QED  BY <3>2, <3>3
  <2>. HIDE DEF T
  <2>3. T = Nat
    <3>1. T \in SUBSET Nat
      BY DEF T
    <3>. QED  BY <2>1, <2>2, <3>1, AllNumbers
  <2>. QED  BY <2>3 DEF T
<1>12. Closed(t, U[N])
  <2>1. Closed(t, K)
    BY DEF Closed, Typed
  <2>2. U[N] \in SUBSET K /\ (Closed(t, U[N]) \/ Cardinality(U[N]) >= N)
    BY <1>7, <1>9, <1>11
  <2>. QED  BY <1>9, <1>10, <2>1, <2>2
<1>13. \A n \in Nat : start \subseteq U[n]
  <2>. DEFINE T == {n \in Nat : start \subseteq U[n]}
  <2>1. 0 \in T
    BY <1>6
  <2>2. ASSUME NEW n \in T PROVE n + 1 \in T
    BY <1>6 DEF More
  <2>. HIDE DEF T
  <2>3. T = Nat
    <3>1. T \in SUBSET Nat
      BY DEF T
    <3>. QED  BY <2>1, <2>2, <3>1, AllNumbers
  <2>. QED  BY <2>3 DEF T
<1>14. ASSUME NEW S \in SUBSET K, Closed(t, S), x \in S \cup {NULL}
       PROVE  U[N] \subseteq S
  <2>. DEFINE T == {n \in Nat : U[n] \subseteq S}
  <2>1. 0 \in T
    BY <1>6, <1>14 DEF start
  <2>2. ASSUME NEW n \in T PROVE n + 1 \in T
    <3>1. U[n] \subseteq S /\ U[n + 1] = More(U[n])
      BY <1>6
    <3>2. More(U[n]) \subseteq S
      BY <1>14, <3>1 DEF More, Closed
    <3>. QED  BY <3>1, <3>2
  <2>. HIDE DEF T
  <2>3. T = Nat
    <3>1. T \in SUBSET Nat
      BY DEF T
    <3>. QED  BY <2>1, <2>2, <3>1, AllNumbers
  <2>. QED  BY <1>9, <2>3 DEF T
<1>15. x \in U[N] \cup {NULL}
  BY <1>9, <1>13 DEF start
<1>. QED  BY <1>5, <1>7, <1>9, <1>12, <1>14, <1>15

-----------------------------------------------------------------------------
\* D is the subtree of each kid, and the kids of a subtree lie where comparing
\* chunks leads
Part(D, y) == IF y = NULL THEN {} ELSE D[y]

Subtrees(t, D) ==
  /\ D \in [Kids(t) -> SUBSET Kids(t)]
  /\ \A x \in Kids(t), s \in Sides :
       D[x] = {x} \cup Part(D, t.kid[s][x]) \cup Part(D, t.kid[Other(s)][x])
  /\ \A x \in Kids(t), s \in Sides : \A y \in Part(D, t.kid[s][x]) : SideOf(y, x) = s /\ y # x

\* links up and down agree
LinksAgree(t) ==
  /\ t.root # NULL => t.parent[t.root] = NULL
  /\ \A x \in Kids(t) \ {t.root} :
       t.parent[x] \in Kids(t) /\ \E s \in Sides : t.kid[s][t.parent[x]] = x
  /\ \A x \in Kids(t), s \in Sides : t.kid[s][x] # NULL => t.parent[t.kid[s][x]] = x

Tree(t, D) == Typed(t) /\ LinksAgree(t) /\ Subtrees(t, D) /\ Part(D, t.root) = Kids(t)

\* The trees that kid_fix() works on, and those that it has returned.
IsTree(t) == \E D \in [Kids(t) -> SUBSET Kids(t)] : Tree(t, D)
Settled(t) == IsTree(t) /\ t.kids = t.root

LEMMA TreeIs ==
  ASSUME NEW t, NEW D, Tree(t, D)
  PROVE  IsTree(t)
BY DEF IsTree, Tree, Subtrees

\* induction from the kids that have none upwards
LEMMA FromTheLeaves ==
  ASSUME NEW t, Typed(t), NEW D, Subtrees(t, D), NULL \notin Int,
         NEW B \in SUBSET Kids(t),
         \A x \in Kids(t) : (\A s \in Sides : t.kid[s][x] \in B \cup {NULL}) => x \in B
  PROVE  B = Kids(t)
<1>. DEFINE K == Kids(t)
            C == {Cardinality(D[x]) : x \in K \ B}
<1>. SUFFICES ASSUME K \ B # {} PROVE FALSE
  OBVIOUS
<1>1. \A x \in K : IsFiniteSet(D[x]) /\ Cardinality(D[x]) \in Nat
  BY FS_Subset, FS_CardinalityType DEF Typed, Subtrees
<1>2. PICK m \in C : \A k \in C : m <= k
  <2>1. C \in SUBSET Nat /\ C # {}
    BY <1>1
  <2>. HIDE DEF C
  <2>. QED  BY <2>1, Least
<1>3. PICK x \in K \ B : m = Cardinality(D[x])
  BY <1>2
<1>4. ASSUME NEW s \in Sides, t.kid[s][x] # NULL PROVE t.kid[s][x] \in B
  <2>. DEFINE y == t.kid[s][x]
  <2>1. y \in K
    BY <1>4 DEF Typed
  <2>2. D[y] \subseteq D[x] /\ x \in D[x] /\ x \notin D[y]
    <3>1. Part(D, y) = D[y]
      BY <1>4 DEF Part
    <3>2. D[x] = {x} \cup Part(D, y) \cup Part(D, t.kid[Other(s)][x])
      BY DEF Subtrees
    <3>3. \A z \in Part(D, y) : z # x
      BY DEF Subtrees
    <3>. QED  BY <3>1, <3>2, <3>3
  <2>3. Cardinality(D[y]) < Cardinality(D[x])
    BY <1>1, <2>1, <2>2, FS_Subset
  <2>4. Cardinality(D[y]) \notin C
    BY <1>1, <1>2, <1>3, <2>1, <2>3
  <2>. QED  BY <2>1, <2>4
<1>. QED  BY <1>4

\* a subtree has the subtrees of its kids
LEMMA SubtreesNest ==
  ASSUME NEW t, Typed(t), NEW D, Subtrees(t, D), NULL \notin Int
  PROVE  \A x \in Kids(t) : \A y \in D[x] : D[y] \subseteq D[x]
<1>. DEFINE B == {x \in Kids(t) : \A y \in D[x] : D[y] \subseteq D[x]}
<1>1. ASSUME NEW x \in Kids(t), \A s \in Sides : t.kid[s][x] \in B \cup {NULL}
      PROVE  x \in B
  <2>1. ASSUME NEW y \in D[x] PROVE D[y] \subseteq D[x]
    <3>1. CASE y = x
      BY <3>1
    <3>2. ASSUME NEW s \in Sides, y \in Part(D, t.kid[s][x]) PROVE D[y] \subseteq D[x]
      <4>1. t.kid[s][x] \in B /\ Part(D, t.kid[s][x]) = D[t.kid[s][x]]
        BY <1>1, <3>2 DEF Part
      <4>2. D[y] \subseteq D[t.kid[s][x]]
        BY <3>2, <4>1
      <4>3. D[t.kid[s][x]] \subseteq D[x]
        BY <4>1 DEF Subtrees
      <4>. QED  BY <4>2, <4>3
    <3>3. y = x \/ \E s \in Sides : y \in Part(D, t.kid[s][x])
      BY DEF Subtrees, Sides, Other
    <3>. QED  BY <3>1, <3>2, <3>3
  <2>. QED  BY <2>1
<1>. HIDE DEF B
<1>2. B = Kids(t)
  <2>1. B \in SUBSET Kids(t)
    BY DEF B
  <2>. QED  BY <1>1, <2>1, FromTheLeaves
<1>. QED  BY <1>2 DEF B

\* such a D is Under
LEMMA SubtreesUnder ==
  ASSUME NEW t, Typed(t), NEW D, Subtrees(t, D), NULL \notin Int
  PROVE  \A x \in Kids(t) : Under(t, x) = D[x]
<1>. DEFINE K == Kids(t)
            B == {x \in K : D[x] \subseteq Under(t, x)}
<1>1. \A x \in K : Under(t, x) \subseteq D[x]
  <2>. TAKE x \in K
  <2>1. x \in D[x] /\ D[x] \in SUBSET K
    BY DEF Subtrees, Sides
  <2>2. Closed(t, D[x])
    <3>. SUFFICES ASSUME NEW y \in D[x], NEW s \in Sides, t.kid[s][y] # NULL
                  PROVE  t.kid[s][y] \in D[x]
      BY DEF Closed
    <3>1. t.kid[s][y] \in K /\ y \in K
      BY <2>1 DEF Typed
    <3>2. t.kid[s][y] \in D[t.kid[s][y]] /\ D[t.kid[s][y]] \subseteq D[y]
      BY <3>1 DEF Subtrees, Part
    <3>. QED  BY <3>2, SubtreesNest
  <2>. QED  BY <2>1, <2>2, UnderLeast
<1>2. ASSUME NEW x \in K, \A s \in Sides : t.kid[s][x] \in B \cup {NULL}
      PROVE  x \in B
  <2>. DEFINE U == Under(t, x)
  <2>1. U \in SUBSET K /\ x \in U /\ Closed(t, U)
    BY UnderLeast DEF Typed
  <2>2. ASSUME NEW s \in Sides PROVE Part(D, t.kid[s][x]) \subseteq U
    <3>1. CASE t.kid[s][x] = NULL
      BY <3>1 DEF Part
    <3>2. CASE t.kid[s][x] # NULL
      <4>1. t.kid[s][x] \in B /\ t.kid[s][x] \in U /\ t.kid[s][x] \in K
        BY <1>2, <2>1, <3>2 DEF Closed
      <4>. HIDE DEF U
      <4>2. Under(t, t.kid[s][x]) \subseteq U
        BY <2>1, <4>1, UnderLeast
      <4>. QED  BY <3>2, <4>1, <4>2 DEF Part
    <3>. QED  BY <3>1, <3>2
  <2>3. D[x] \subseteq U
    BY <2>1, <2>2 DEF Subtrees, Sides, Other
  <2>. QED  BY <2>3
<1>. HIDE DEF B
<1>3. B = K
  <2>1. B \in SUBSET K
    BY DEF B
  <2>. QED  BY <1>2, <2>1, FromTheLeaves
<1>. QED  BY <1>1, <1>3 DEF B

\* what KidsInOrder asks of a tree follows from its subtrees
LEMMA TreeShows ==
  ASSUME NEW t, NEW D, Tree(t, D), NULL \notin Int
  PROVE  LinksMatch(t) /\ Ordered(t) /\ Under(t, t.root) = Kids(t)
<1>1. \A y \in Kids(t) \cup {NULL} : Under(t, y) = Part(D, y)
  <2>1. Under(t, NULL) = {}
    <3>1. Closed(t, {}) /\ NULL \in {} \cup {NULL} /\ {} \in SUBSET Kids(t)
      BY DEF Closed
    <3>2. Under(t, NULL) \subseteq {}
      BY <3>1, UnderLeast DEF Tree
    <3>. QED  BY <3>2
  <2>2. \A y \in Kids(t) : Under(t, y) = D[y] /\ y # NULL
    BY SubtreesUnder DEF Tree, Typed
  <2>. QED  BY <2>1, <2>2 DEF Part
<1>2. Under(t, t.root) = Kids(t)
  BY <1>1 DEF Tree, Typed
<1>3. LinksMatch(t)
  BY <1>2 DEF LinksMatch, Tree, LinksAgree
<1>4. Ordered(t)
  <2>. SUFFICES ASSUME NEW x \in Kids(t), NEW s \in Sides,
                       NEW y \in Under(t, t.kid[s][x])
                PROVE  SideOf(y, x) = s /\ y # x
    BY DEF Ordered
  <2>1. Under(t, t.kid[s][x]) = Part(D, t.kid[s][x])
    BY <1>1 DEF Tree, Typed
  <2>. QED  BY <2>1 DEF Tree, Subtrees
<1>. QED  BY <1>2, <1>3, <1>4

\* the colours are no part of the shape
LEMMA PaintedTree ==
  ASSUME NEW t, NEW D, Tree(t, D), NEW K, NEW c \in {"RED", "BLACK"}
  PROVE  /\ Tree(Painted(t, K, c), D) /\ Kids(Painted(t, K, c)) = Kids(t)
         /\ Painted(t, K, c) = [t EXCEPT !.color = Painted(t, K, c).color]
<1>. DEFINE n == Painted(t, K, c)
<1>1. t = [kids |-> t.kids, root |-> t.root, kid |-> t.kid, parent |-> t.parent, color |-> t.color]
  BY DEF Tree, Typed
<1>2. /\ n.kids = t.kids /\ n.root = t.root /\ n.kid = t.kid /\ n.parent = t.parent
      /\ n.color = [x \in Kids(t) |-> IF x \in K THEN c ELSE t.color[x]]
      /\ n = [kids |-> n.kids, root |-> n.root, kid |-> n.kid, parent |-> n.parent, color |-> n.color]
      /\ n = [t EXCEPT !.color = n.color]
  BY <1>1 DEF Painted
<1>. HIDE DEF n
<1>3. Kids(n) = Kids(t)
  BY <1>2 DEF Kids
<1>4. Typed(n)
  <2>1. n.color \in [Kids(n) -> {"RED", "BLACK"}]
    BY <1>2, <1>3 DEF Tree, Typed
  <2>. QED  BY <1>2, <1>3, <2>1 DEF Tree, Typed
<1>5. LinksAgree(n) /\ Subtrees(n, D) /\ Part(D, n.root) = Kids(n)
  BY <1>2, <1>3 DEF Tree, LinksAgree, Subtrees
<1>. QED  BY <1>2, <1>3, <1>4, <1>5 DEF Tree, n

\* n is t with x gone down to side s and its kid y of the other side come up:
\* the links that this changes, and those that it does not
IsTurn(t, n, x, s) ==
  LET o == Other(s)
      y == t.kid[o][x]
      b == t.kid[s][y]
      u == t.parent[x]
  IN  /\ x # y /\ n.color = t.color
      /\ n.root = IF u = NULL THEN y ELSE t.root
      /\ n.kid[o][x] = b /\ n.kid[s][x] = t.kid[s][x]
      /\ n.kid[s][y] = x /\ n.kid[o][y] = t.kid[o][y]
      /\ \A z \in Kids(t) \ {x, y}, d \in Sides :
           n.kid[d][z] = IF t.kid[d][z] = x THEN y ELSE t.kid[d][z]
      /\ n.parent[x] = y /\ n.parent[y] = u
      /\ \A z \in Kids(t) \ {x, y} : n.parent[z] = IF z = b THEN x ELSE t.parent[z]

\* a rotation, in which kid y comes up
LEMMA RotatedTree ==
  ASSUME NEW t, NEW D, Tree(t, D), NULL \notin Int,
         NEW x \in Kids(t), NEW s \in Sides, t.kid[Other(s)][x] # NULL
  PROVE  /\ IsTree(Rotated(t, x, s)) /\ Kids(Rotated(t, x, s)) = Kids(t)
         /\ IsTurn(t, Rotated(t, x, s), x, s)
<1>. DEFINE K == Kids(t)
            o == Other(s)
            y == t.kid[o][x]
            a == t.kid[s][x]
            b == t.kid[s][y]
            c == t.kid[o][y]
            u == t.parent[x]
            n == Rotated(t, x, s)
            E == [D EXCEPT ![x] = {x} \cup Part(D, a) \cup Part(D, b), ![y] = D[x]]
<1>1. t = [kids |-> t.kids, root |-> t.root, kid |-> t.kid, parent |-> t.parent, color |-> t.color]
  BY DEF Tree, Typed
<1>2. /\ n.kids = t.kids /\ n.color = t.color
      /\ n.root = IF u = NULL THEN y ELSE t.root
      /\ n.kid = [d \in Sides |-> [z \in K |->
                           CASE z = x /\ d = o -> b
                             [] z = y /\ d = s -> x
                             [] z = u /\ t.kid[d][z] = x -> y
                             [] OTHER -> t.kid[d][z]]]
      /\ n.parent = [z \in K |-> CASE z = x -> y
                                [] z = y -> u
                                [] z = b -> x
                                [] OTHER -> t.parent[z]]
      /\ n = [kids |-> n.kids, root |-> n.root, kid |-> n.kid, parent |-> n.parent, color |-> n.color]
  <2>. DEFINE R == IF u = NULL THEN y ELSE t.root
              L == [d \in Sides |-> [z \in K |->
                           CASE z = x /\ d = o -> b
                             [] z = y /\ d = s -> x
                             [] z = u /\ t.kid[d][z] = x -> y
                             [] OTHER -> t.kid[d][z]]]
              P == [z \in K |-> CASE z = x -> y
                                [] z = y -> u
                                [] z = b -> x
                                [] OTHER -> t.parent[z]]
  <2>1. n = [t EXCEPT !.root = R, !.kid = L, !.parent = P]
    BY Zenon DEF Rotated
  <2>2. n.root = R /\ n.kid = L /\ n.parent = P /\ n.kids = t.kids /\ n.color = t.color
        /\ n = [kids |-> n.kids, root |-> n.root, kid |-> n.kid, parent |-> n.parent, color |-> n.color]
    <3>. HIDE DEF n, R, L, P
    <3>. QED  BY <1>1, <2>1
  <2>. QED  BY <2>2
<1>. HIDE DEF n
<1>3. Kids(n) = K
  BY <1>2 DEF Kids
<1>4. /\ x \in K /\ x \in Int /\ y \in K /\ y \in Int /\ a \in K \cup {NULL} /\ b \in K \cup {NULL}
      /\ c \in K \cup {NULL} /\ u \in K \cup {NULL} /\ NULL \notin K /\ y # NULL
      /\ K \subseteq Int /\ o \in Sides /\ o # s /\ Sides = {s, o} /\ Other(o) = s /\ Other(s) = o
  BY DEF Tree, Typed, Other, Sides
<1>5. /\ \A z \in K, d \in Sides : t.kid[d][z] \in K \cup {NULL}
      /\ \A z \in K, d \in Sides : t.kid[d][z] # NULL => t.parent[t.kid[d][z]] = z
      /\ \A z \in K : t.parent[z] \in K \cup {NULL}
      /\ t.root \in K \cup {NULL}
  BY DEF Tree, Typed, LinksAgree
<1>6. /\ D \in [K -> SUBSET K]
      /\ \A z \in K, d \in Sides :
           D[z] = {z} \cup Part(D, t.kid[d][z]) \cup Part(D, t.kid[Other(d)][z])
      /\ \A z \in K, d \in Sides : \A v \in Part(D, t.kid[d][z]) : SideOf(v, z) = d /\ v # z
  BY DEF Tree, Subtrees
<1>. HIDE DEF K
<1>7. \A z \in K : z \in D[z] /\ Part(D, z) = D[z]
  <2>1. \A z \in K : z # NULL
    BY <1>4
  <2>2. \A z \in K : D[z] = {z} \cup Part(D, t.kid[s][z]) \cup Part(D, t.kid[Other(s)][z])
    BY <1>6
  <2>. QED  BY <2>1, <2>2 DEF Part
<1>8. /\ \A v \in Part(D, a) : SideOf(v, x) = s /\ v # x /\ v \in K
      /\ \A v \in D[y] : SideOf(v, x) = o /\ v # x /\ v \in K
      /\ \A v \in Part(D, b) : SideOf(v, y) = s /\ v # y /\ v \in D[y]
      /\ \A v \in Part(D, c) : SideOf(v, y) = o /\ v # y /\ v \in D[y]
      /\ D[y] = {y} \cup Part(D, b) \cup Part(D, c)
      /\ D[x] = {x} \cup Part(D, a) \cup D[y]
  <2>1. Part(D, y) = D[y] /\ D[y] \in SUBSET K /\ D[x] \in SUBSET K
    BY <1>4, <1>6, <1>7
  <2>2. D[x] = {x} \cup Part(D, a) \cup D[y]
    BY <1>4, <1>6, <2>1
  <2>3. D[y] = {y} \cup Part(D, b) \cup Part(D, c)
    BY <1>4, <1>6
  <2>4. D[y] \subseteq K /\ D[x] \subseteq K
    BY <2>1
  <2>. HIDE DEF y, a, b, c, o, u
  <2>5. /\ \A v \in Part(D, t.kid[s][x]) : SideOf(v, x) = s /\ v # x
        /\ \A v \in Part(D, t.kid[o][x]) : SideOf(v, x) = o /\ v # x
        /\ \A v \in Part(D, t.kid[s][y]) : SideOf(v, y) = s /\ v # y
        /\ \A v \in Part(D, t.kid[o][y]) : SideOf(v, y) = o /\ v # y
    BY <1>4, <1>6
  <2>6. Part(D, t.kid[o][x]) = D[y] /\ a = t.kid[s][x] /\ b = t.kid[s][y] /\ c = t.kid[o][y]
    BY <2>1 DEF y, a, b, c
  <2>. QED  BY <2>2, <2>3, <2>4, <2>5, <2>6
<1>9. x # y /\ a # x /\ a # y /\ b # x /\ b # y /\ c # x /\ c # y
  <2>1. a # NULL => a \in Part(D, a)
    BY <1>4, <1>7
  <2>2. b # NULL => b \in Part(D, b)
    BY <1>4, <1>7
  <2>3. c # NULL => c \in Part(D, c)
    BY <1>4, <1>7
  <2>4. y \in D[y]
    BY <1>4, <1>7
  <2>. QED  BY <1>4, <1>8, <2>1, <2>2, <2>3, <2>4
<1>10. /\ E \in [K -> SUBSET K]
       /\ E[x] = {x} \cup Part(D, a) \cup Part(D, b) /\ E[y] = D[x]
       /\ \A z \in K \ {x, y} : E[z] = D[z]
       /\ \A z \in (K \cup {NULL}) \ {x, y} : Part(E, z) = Part(D, z)
       /\ Part(E, x) = E[x] /\ Part(E, y) = E[y]
  <2>1. {x} \cup Part(D, a) \cup Part(D, b) \in SUBSET K /\ D[x] \in SUBSET K
    BY <1>4, <1>6, <1>8, SMTT(30)
  <2>2. E \in [K -> SUBSET K]
    BY <1>6, <2>1
  <2>3. E[x] = {x} \cup Part(D, a) \cup Part(D, b) /\ E[y] = D[x]
    BY <1>4, <1>6, <1>9
  <2>4. \A z \in K \ {x, y} : E[z] = D[z]
    BY <1>6
  <2>5. x # NULL /\ y # NULL
    BY <1>4
  <2>. HIDE DEF E
  <2>. QED  BY <2>2, <2>3, <2>4, <2>5 DEF Part
<1>11. /\ n.kid \in [Sides -> [K -> K \cup {NULL}]]
       /\ n.parent \in [K -> K \cup {NULL}]
       /\ n.kid[o][x] = b /\ n.kid[s][x] = a /\ n.kid[s][y] = x /\ n.kid[o][y] = c
       /\ \A z \in K \ {x, y}, d \in Sides :
            /\ n.kid[d][z] = IF t.kid[d][z] = x THEN y ELSE t.kid[d][z]
            /\ t.kid[d][z] # y
            /\ t.kid[d][z] = x => z = u
       /\ n.parent[x] = y /\ n.parent[y] = u
       /\ \A z \in K \ {x, y} : n.parent[z] = IF z = b THEN x ELSE t.parent[z]
  <2>. DEFINE KidNow(d, z) == CASE z = x /\ d = o -> b
                                [] z = y /\ d = s -> x
                                [] z = u /\ t.kid[d][z] = x -> y
                                [] OTHER -> t.kid[d][z]
  <2>0. \A d \in Sides, z \in K : n.kid[d][z] = KidNow(d, z) /\ KidNow(d, z) \in K \cup {NULL}
    <3>1. \A d \in Sides, z \in K : KidNow(d, z) \in K \cup {NULL}
      <4>. HIDE DEF o, u
      <4>. QED  BY <1>4, <1>5
    <3>2. n.kid = [d \in Sides |-> [z \in K |-> KidNow(d, z)]]
      BY <1>2, Zenon
    <3>. HIDE DEF KidNow
    <3>. QED  BY <3>1, <3>2
  <2>1. n.kid \in [Sides -> [K -> K \cup {NULL}]] /\ n.parent \in [K -> K \cup {NULL}]
    <3>1. n.parent \in [K -> K \cup {NULL}]
      <4>. DEFINE up(z) == CASE z = x -> y
                             [] z = y -> u
                             [] z = b -> x
                             [] OTHER -> t.parent[z]
      <4>1. n.parent = [z \in K |-> up(z)]
        BY <1>2, Zenon
      <4>2. \A z \in K : up(z) \in K \cup {NULL}
        <5>. HIDE DEF o, u, y, b
        <5>. QED  BY <1>4, <1>5
      <4>. HIDE DEF up
      <4>. QED  BY <4>1, <4>2
    <3>2. n.kid = [d \in Sides |-> [z \in K |-> KidNow(d, z)]]
      BY <1>2, Zenon
    <3>. HIDE DEF KidNow
    <3>. QED  BY <2>0, <3>1, <3>2
  <2>. HIDE DEF o
  <2>2. n.kid[o][x] = b /\ n.kid[s][y] = x
    BY <1>4, <1>9, <2>0
  <2>3. n.kid[s][x] = a /\ n.kid[o][y] = c
    BY <1>4, <1>9, <2>0
  <2>4. ASSUME NEW z \in K \ {x, y}, NEW d \in Sides
        PROVE  /\ n.kid[d][z] = IF t.kid[d][z] = x THEN y ELSE t.kid[d][z]
               /\ t.kid[d][z] # y
               /\ t.kid[d][z] = x => z = u
    <3>1. t.kid[d][z] = x => z = u
      BY <1>4, <1>5
    <3>2. t.kid[d][z] # y
      BY <1>4, <1>5
    <3>3. n.kid[d][z] = IF t.kid[d][z] = x THEN y ELSE t.kid[d][z]
      BY <2>0, <3>1
    <3>. QED  BY <3>1, <3>2, <3>3
  <2>5. n.parent[x] = y /\ n.parent[y] = u
    BY <1>2, <1>4, <1>9
  <2>6. \A z \in K \ {x, y} : n.parent[z] = IF z = b THEN x ELSE t.parent[z]
    BY <1>2
  <2>. QED  BY <2>1, <2>2, <2>3, <2>4, <2>5, <2>6
<1>. HIDE DEF E, u, o, y, a, b, c
<1>12. Subtrees(n, E)
  <2>1. ASSUME NEW z \in K, NEW d \in Sides
        PROVE  E[z] = {z} \cup Part(E, n.kid[d][z]) \cup Part(E, n.kid[Other(d)][z])
    <3>1. CASE z = x
      <4>1. Part(E, a) = Part(D, a) /\ Part(E, b) = Part(D, b)
        BY <1>4, <1>9, <1>10
      <4>2. E[x] = {x} \cup Part(E, n.kid[s][x]) \cup Part(E, n.kid[o][x])
        BY <1>10, <1>11, <4>1
      <4>. QED  BY <1>4, <3>1, <4>2
    <3>2. CASE z = y
      <4>1. Part(E, c) = Part(D, c)
        BY <1>4, <1>9, <1>10
      <4>2. E[y] = {y} \cup Part(E, n.kid[s][y]) \cup Part(E, n.kid[o][y])
        BY <1>8, <1>10, <1>11, <4>1
      <4>. QED  BY <1>4, <3>2, <4>2
    <3>3. CASE z \notin {x, y}
      <4>1. \A e \in Sides : Part(E, n.kid[e][z]) = Part(D, t.kid[e][z])
        <5>1. x # y /\ Part(E, y) = D[x] /\ Part(D, x) = D[x]
          BY <1>4, <1>7, <1>9, <1>10
        <5>. QED  BY <1>5, <1>10, <1>11, <3>3, <5>1
      <4>2. Other(d) \in Sides
        BY DEF Other, Sides
      <4>. QED  BY <1>6, <1>10, <3>3, <4>1, <4>2
    <3>. QED  BY <3>1, <3>2, <3>3
  <2>2. ASSUME NEW z \in K, NEW d \in Sides, NEW v \in Part(E, n.kid[d][z])
        PROVE  SideOf(v, z) = d /\ v # z
    <3>1. CASE z = x
      <4>1. Part(E, a) = Part(D, a) /\ Part(E, b) = Part(D, b)
        BY <1>4, <1>9, <1>10
      <4>2. CASE d = s
        BY <1>8, <1>11, <2>2, <3>1, <4>1, <4>2
      <4>3. CASE d = o
        BY <1>8, <1>11, <2>2, <3>1, <4>1, <4>3
      <4>. QED  BY <1>4, <4>2, <4>3
    <3>2. CASE z = y
      <4>1. Part(E, c) = Part(D, c)
        BY <1>4, <1>9, <1>10
      <4>2. CASE d = o
        BY <1>8, <1>11, <2>2, <3>2, <4>1, <4>2
      <4>3. CASE d = s
        <5>1. v \in {x} \cup Part(D, a) \cup Part(D, b)
          BY <1>10, <1>11, <2>2, <3>2, <4>3
        <5>2. SideOf(y, x) = o /\ x # y
          BY <1>4, <1>7, <1>8
        <5>3. SideOf(x, y) = s
          BY <1>4, <5>2 DEF SideOf, Sides
        <5>4. v \in Part(D, a) => v \in Int /\ SideOf(v, x) = s /\ v # x
          BY <1>4, <1>8
        <5>5. v \in Part(D, a) => SideOf(v, y) = s /\ v # y
          BY <1>4, <5>2, <5>3, <5>4 DEF SideOf, Sides
        <5>. QED  BY <1>8, <4>3, <3>2, <5>1, <5>2, <5>3, <5>5
      <4>. QED  BY <1>4, <4>2, <4>3
    <3>3. CASE z \notin {x, y}
      <4>1. Part(E, n.kid[d][z]) = Part(D, t.kid[d][z])
        <5>1. x # y /\ Part(E, y) = D[x] /\ Part(D, x) = D[x]
          BY <1>4, <1>7, <1>9, <1>10
        <5>. QED  BY <1>5, <1>10, <1>11, <3>3, <5>1
      <4>. QED  BY <1>6, <2>2, <4>1
    <3>. QED  BY <3>1, <3>2, <3>3
  <2>. QED  BY <1>3, <1>10, <2>1, <2>2 DEF Subtrees
<1>13. LinksAgree(n)
  <2>0. /\ t.root # NULL => t.parent[t.root] = NULL
        /\ \A z \in K \ {t.root} : t.parent[z] \in K /\ \E d \in Sides : t.kid[d][t.parent[z]] = z
        /\ u = t.parent[x] /\ y = t.kid[o][x] /\ a = t.kid[s][x] /\ b = t.kid[s][y] /\ c = t.kid[o][y]
    BY DEF Tree, LinksAgree, K, y, a, b, c, u
  <2>1. /\ u = NULL <=> x = t.root
        /\ t.parent[y] = x /\ y # t.root
        /\ a # NULL => t.parent[a] = x
        /\ b # NULL => t.parent[b] = y
        /\ c # NULL => t.parent[c] = y
    BY <1>4, <1>5, <2>0
  <2>2. n.root = (IF u = NULL THEN y ELSE t.root) /\ u # x /\ u # y
    <3>1. n.root = (IF u = NULL THEN y ELSE t.root)
      BY <1>2
    <3>2. u # NULL => \E d \in Sides : t.kid[d][u] = x
      BY <1>4, <2>0, <2>1
    <3>. QED  BY <1>4, <1>9, <2>0, <3>1, <3>2
  <2>3. n.root # NULL => n.parent[n.root] = NULL
    <3>1. CASE u = NULL
      BY <1>11, <2>2, <3>1
    <3>2. CASE u # NULL
      <4>1. n.root = t.root /\ t.root \notin {x, y} /\ (t.root # NULL => t.root \in K /\ t.root # b)
        BY <1>4, <1>5, <2>0, <2>1, <2>2, <3>2
      <4>. QED  BY <1>11, <2>0, <4>1
    <3>. QED  BY <3>1, <3>2
  <2>4. ASSUME NEW z \in K \ {n.root}
        PROVE  n.parent[z] \in K /\ \E d \in Sides : n.kid[d][n.parent[z]] = z
    <3>1. CASE z = x
      BY <1>4, <1>11, <3>1
    <3>2. CASE z = y
      <4>1. u \in K /\ u \notin {x, y} /\ \E d \in Sides : t.kid[d][u] = x
        BY <1>4, <2>0, <2>1, <2>2, <2>4, <3>2
      <4>. QED  BY <1>11, <3>2, <4>1
    <3>3. CASE z = b
      BY <1>4, <1>9, <1>11, <2>4, <3>3
    <3>4. CASE z \notin {x, y, b}
      <4>1. z # t.root
        BY <2>1, <2>2, <2>4, <3>4
      <4>2. PICK d \in Sides : t.parent[z] \in K /\ t.kid[d][t.parent[z]] = z
        BY <2>0, <2>4, <4>1
      <4>3. n.parent[z] = t.parent[z]
        BY <1>11, <2>4, <3>4
      <4>4. CASE t.parent[z] = x
        <5>1. d = s
          BY <1>4, <2>0, <3>4, <4>2, <4>4
        <5>2. z = a
          BY <2>0, <4>2, <4>4, <5>1
        <5>. QED  BY <1>4, <1>11, <4>3, <4>4, <5>2
      <4>5. CASE t.parent[z] = y
        <5>1. d = o
          BY <1>4, <2>0, <3>4, <4>2, <4>5
        <5>2. z = c
          BY <2>0, <4>2, <4>5, <5>1
        <5>. QED  BY <1>4, <1>11, <4>3, <4>5, <5>2
      <4>6. CASE t.parent[z] \notin {x, y}
        BY <1>11, <3>4, <4>2, <4>3, <4>6
      <4>. QED  BY <4>4, <4>5, <4>6
    <3>. QED  BY <3>1, <3>2, <3>3, <3>4
  <2>5. ASSUME NEW z \in K, NEW d \in Sides, n.kid[d][z] # NULL
        PROVE  n.parent[n.kid[d][z]] = z
    <3>1. CASE z = x
      <4>1. CASE d = o
        BY <1>4, <1>9, <1>11, <2>5, <3>1, <4>1
      <4>2. CASE d = s
        <5>1. n.kid[d][z] = a /\ a \in K \ {x, y}
          BY <1>4, <1>9, <1>11, <2>5, <3>1, <4>2
        <5>2. a # b
          BY <1>4, <1>9, <2>1, <2>5, <5>1
        <5>. QED  BY <1>11, <2>1, <2>5, <3>1, <5>1, <5>2
      <4>. QED  BY <1>4, <4>1, <4>2
    <3>2. CASE z = y
      <4>1. CASE d = s
        BY <1>11, <3>2, <4>1
      <4>2. CASE d = o
        <5>1. n.kid[d][z] = c /\ c \in K \ {x, y}
          BY <1>4, <1>9, <1>11, <2>5, <3>2, <4>2
        <5>2. c # b
          <6>1. SideOf(c, y) = o
            BY <1>4, <1>7, <1>8, <2>5, <5>1
          <6>2. b # NULL => SideOf(b, y) = s
            <7>1. b # NULL => b \in Part(D, b)
              BY <1>4, <1>7
            <7>. QED  BY <1>8, <7>1
          <6>. QED  BY <1>4, <5>1, <6>1, <6>2
        <5>. QED  BY <1>11, <2>1, <2>5, <3>2, <5>1, <5>2
      <4>. QED  BY <1>4, <4>1, <4>2
    <3>3. CASE z \notin {x, y}
      <4>1. CASE t.kid[d][z] = x
        BY <1>11, <3>3, <4>1
      <4>2. CASE t.kid[d][z] # x
        <5>1. n.kid[d][z] = t.kid[d][z] /\ t.kid[d][z] \in K \ {x, y} /\ t.parent[t.kid[d][z]] = z
          BY <1>5, <1>11, <2>5, <3>3, <4>2
        <5>2. t.kid[d][z] # b
          BY <2>1, <3>3, <5>1, <1>4
        <5>. QED  BY <1>11, <5>1, <5>2
      <4>. QED  BY <4>1, <4>2
    <3>. QED  BY <3>1, <3>2, <3>3
  <2>. QED  BY <1>3, <2>3, <2>4, <2>5 DEF LinksAgree
<1>14. Part(E, n.root) = K
  <2>1. t.root # NULL => t.parent[t.root] = NULL
    BY DEF Tree, LinksAgree
  <2>2. /\ \A z \in K \ {t.root} : t.parent[z] \in K
        /\ u = t.parent[x] /\ t.parent[y] = x
        /\ n.root = IF u = NULL THEN y ELSE t.root
    <3>1. t.parent[y] = x
      BY <1>4, <1>5 DEF y
    <3>2. \A z \in K \ {t.root} : t.parent[z] \in K
      BY DEF Tree, LinksAgree, K
    <3>. QED  BY <1>2, <3>1, <3>2 DEF u
  <2>3. Part(D, t.root) = K
    BY DEF Tree, K
  <2>4. CASE u = NULL
    BY <1>4, <1>7, <1>10, <2>2, <2>3, <2>4
  <2>5. CASE u # NULL
    <3>1. t.root \notin {x, y}
      BY <1>4, <2>1, <2>2, <2>5
    <3>. QED  BY <1>5, <1>10, <2>2, <2>3, <2>5, <3>1
  <2>. QED  BY <2>4, <2>5
<1>15. Typed(n)
  <2>1. IsFiniteSet(K) /\ K \subseteq Int /\ t.kids \in K \cup {NULL}
        /\ t.color \in [K -> {"RED", "BLACK"}]
    BY DEF Tree, Typed, K
  <2>2. n.root \in K \cup {NULL}
    BY <1>2, <1>4, <1>5
  <2>3. n.kids = t.kids /\ n.color = t.color
        /\ n = [kids |-> n.kids, root |-> n.root, kid |-> n.kid, parent |-> n.parent, color |-> n.color]
    BY <1>2
  <2>. QED  BY <1>3, <1>11, <2>1, <2>2, <2>3 DEF Typed
<1>16. IsTree(n) /\ Kids(n) = Kids(t)
  BY <1>3, <1>12, <1>13, <1>14, <1>15, TreeIs DEF Tree, K
<1>17. IsTurn(t, n, x, s)
  <2>1. n.color = t.color /\ n.root = IF u = NULL THEN y ELSE t.root
    BY <1>2
  <2>2. /\ n.kid[o][x] = b /\ n.kid[s][x] = a /\ n.kid[s][y] = x /\ n.kid[o][y] = c
        /\ \A z \in K \ {x, y}, d \in Sides :
             n.kid[d][z] = IF t.kid[d][z] = x THEN y ELSE t.kid[d][z]
        /\ n.parent[x] = y /\ n.parent[y] = u
        /\ \A z \in K \ {x, y} : n.parent[z] = IF z = b THEN x ELSE t.parent[z]
    BY <1>11
  <2>. QED  BY <1>9, <2>1, <2>2 DEF IsTurn, K, u, o, y, a, b, c
<1>. QED  BY <1>16, <1>17 DEF n

\* comparing c with the kids above u leads where u lies
Leads(t, D, c, u) == \A z \in Kids(t) : u \in D[z] /\ u # z => SideOf(c, z) = SideOf(u, z)

\* a kid c that hangs under u, where there is room for it
LEMMA LinkedTree ==
  ASSUME NEW t, NEW D, Tree(t, D), NULL \notin Int, t.kids = t.root,
         NEW c \in Int \ Kids(t), NEW u \in Kids(t),
         t.kid[SideOf(c, u)][u] = NULL, Leads(t, D, c, u)
  PROVE  Settled(Linked(t, c, u)) /\ Kids(Linked(t, c, u)) = Kids(t) \cup {c}
<1>. DEFINE K == Kids(t)
            J == K \cup {c}
            n == Linked(t, c, u)
            E == [z \in J |-> IF z = c THEN {c} ELSE IF u \in D[z] THEN D[z] \cup {c} ELSE D[z]]
            s == SideOf(c, u)
            L(d, z) == IF z = c THEN NULL ELSE IF z = u /\ d = s THEN c ELSE t.kid[d][z]
<1>1. /\ n.kids = t.kids /\ n.root = t.kids
      /\ n.kid = [d \in Sides |-> [z \in J |-> L(d, z)]]
      /\ n.parent = [z \in J |-> IF z = c THEN u ELSE t.parent[z]]
      /\ n.color = [z \in J |-> IF z = c THEN "RED" ELSE t.color[z]]
      /\ n = [kids |-> n.kids, root |-> n.root, kid |-> n.kid, parent |-> n.parent, color |-> n.color]
  <2>1. u # NULL
    BY DEF Tree, Typed
  <2>. DEFINE LL == [d \in Sides |-> [z \in J |-> L(d, z)]]
              PP == [z \in J |-> IF z = c THEN u ELSE t.parent[z]]
              CC == [z \in J |-> IF z = c THEN "RED" ELSE t.color[z]]
  <2>2. n = [kids |-> t.kids, root |-> t.kids, kid |-> LL, parent |-> PP, color |-> CC]
    BY <2>1, Zenon DEF Linked
  <2>. HIDE DEF n, LL, PP, CC
  <2>3. n.kids = t.kids /\ n.root = t.kids /\ n.kid = LL /\ n.parent = PP /\ n.color = CC
    BY <2>2
  <2>. QED  BY <2>2, <2>3 DEF LL, PP, CC
<1>. HIDE DEF n
<1>2. Kids(n) = J
  BY <1>1 DEF Kids
<1>3. /\ IsFiniteSet(K) /\ K \subseteq Int /\ c \notin K /\ c # NULL /\ u \in K /\ u # NULL /\ NULL \notin K
      /\ s \in Sides /\ \A d \in Sides : Other(d) \in Sides /\ Other(d) # d
      /\ Sides = {s, Other(s)} /\ Other(Other(s)) = s
      /\ t.kids \in K \cup {NULL} /\ t.kids = t.root
      /\ t.kid \in [Sides -> [K -> K \cup {NULL}]]
      /\ t.parent \in [K -> K \cup {NULL}]
      /\ t.color \in [K -> {"RED", "BLACK"}]
      /\ t.kid[s][u] = NULL
      /\ \A z \in K : u \in D[z] /\ u # z => SideOf(c, z) = SideOf(u, z)
  BY DEF Tree, Typed, SideOf, Sides, Other, Leads
<1>4. /\ D \in [K -> SUBSET K]
      /\ \A z \in K, d \in Sides :
           D[z] = {z} \cup Part(D, t.kid[d][z]) \cup Part(D, t.kid[Other(d)][z])
      /\ \A z \in K, d \in Sides : \A v \in Part(D, t.kid[d][z]) : SideOf(v, z) = d /\ v # z
      /\ Part(D, t.root) = K
      /\ t.root # NULL => t.parent[t.root] = NULL
      /\ \A z \in K \ {t.root} : t.parent[z] \in K /\ \E d \in Sides : t.kid[d][t.parent[z]] = z
      /\ \A z \in K, d \in Sides : t.kid[d][z] # NULL => t.parent[t.kid[d][z]] = z
  BY DEF Tree, Subtrees, LinksAgree
<1>. HIDE DEF K, s
<1>5. \A z \in K, d \in Sides : t.kid[d][z] \in K \cup {NULL}
  BY <1>3
<1>6. \A d \in Sides : \A z \in J : n.kid[d][z] = L(d, z) /\ L(d, z) \in J \cup {NULL}
  <2>1. \A d \in Sides : \A z \in J : L(d, z) \in J \cup {NULL}
    BY <1>3, <1>5
  <2>. HIDE DEF L
  <2>. QED  BY <1>1, <2>1
<1>7. /\ \A d \in Sides : n.kid[d][c] = NULL
      /\ n.kid[s][u] = c /\ n.kid[Other(s)][u] = t.kid[Other(s)][u]
      /\ \A z \in K \ {u}, d \in Sides : n.kid[d][z] = t.kid[d][z]
  BY <1>3, <1>6
<1>8. Typed(n)
  <2>1. n.kid \in [Sides -> [J -> J \cup {NULL}]]
    <3>1. \A d \in Sides, z \in J : L(d, z) \in J \cup {NULL}
      BY <1>6
    <3>2. n.kid = [d \in Sides |-> [z \in J |-> L(d, z)]]
      BY <1>1
    <3>. HIDE DEF L, J, n
    <3>. QED  BY <3>1, <3>2
  <2>2. n.parent \in [J -> J \cup {NULL}] /\ n.color \in [J -> {"RED", "BLACK"}]
    BY <1>1, <1>3
  <2>3. IsFiniteSet(J) /\ J \subseteq Int
    BY <1>3, FS_AddElement
  <2>. QED  BY <1>1, <1>2, <1>3, <2>1, <2>2, <2>3 DEF Typed
<1>9. /\ E \in [J -> SUBSET J] /\ E[c] = {c} /\ Part(E, c) = {c} /\ Part(E, NULL) = {}
      /\ \A z \in K : E[z] = (IF u \in D[z] THEN D[z] \cup {c} ELSE D[z])
      /\ \A z \in K \cup {NULL} : Part(E, z) = (IF u \in Part(D, z) THEN Part(D, z) \cup {c} ELSE Part(D, z))
      /\ Part(D, NULL) = {}
  <2>1. E \in [J -> SUBSET J] /\ E[c] = {c}
    <3>. DEFINE e(z) == IF z = c THEN {c} ELSE IF u \in D[z] THEN D[z] \cup {c} ELSE D[z]
    <3>1. \A z \in J : e(z) \in SUBSET J
      BY <1>3, <1>4
    <3>2. c \in J /\ e(c) = {c} /\ E = [z \in J |-> e(z)]
      OBVIOUS
    <3>. HIDE DEF e, E, J
    <3>. QED  BY <3>1, <3>2
  <2>2. \A z \in K : E[z] = (IF u \in D[z] THEN D[z] \cup {c} ELSE D[z])
    BY <1>3
  <2>. HIDE DEF E
  <2>3. Part(E, c) = {c} /\ Part(E, NULL) = {} /\ Part(D, NULL) = {}
    BY <1>3, <2>1 DEF Part
  <2>4. \A z \in K : Part(E, z) = E[z] /\ Part(D, z) = D[z]
    BY <1>3 DEF Part
  <2>. QED  BY <2>1, <2>2, <2>3, <2>4, SMTT(30)
<1>. HIDE DEF E, L, J
<1>10. Subtrees(n, E)
  <2>1. ASSUME NEW z \in J, NEW d \in Sides
        PROVE  E[z] = {z} \cup Part(E, n.kid[d][z]) \cup Part(E, n.kid[Other(d)][z])
    <3>1. CASE z = c
      BY <1>3, <1>7, <1>9, <3>1
    <3>2. CASE z = u
      <4>1. u \notin Part(D, t.kid[Other(s)][u])
        BY <1>3, <1>4
      <4>2. Part(E, n.kid[Other(s)][u]) = Part(D, t.kid[Other(s)][u])
        BY <1>3, <1>5, <1>7, <1>9, <4>1
      <4>3. D[u] = {u} \cup Part(D, t.kid[Other(s)][u])
        BY <1>3, <1>4, <1>9
      <4>4. E[u] = {u} \cup {c} \cup Part(D, t.kid[Other(s)][u])
        BY <1>3, <1>9, <4>3
      <4>5. Part(E, n.kid[s][u]) = {c}
        BY <1>7, <1>9
      <4>6. E[u] = {u} \cup Part(E, n.kid[s][u]) \cup Part(E, n.kid[Other(s)][u])
        BY <4>2, <4>4, <4>5
      <4>. QED  BY <1>3, <3>2, <4>6
    <3>3. CASE z \notin {c, u}
      <4>0. z \in K
        BY <3>3 DEF J
      <4>1. \A e \in Sides : Part(E, n.kid[e][z]) =
              (IF u \in Part(D, t.kid[e][z]) THEN Part(D, t.kid[e][z]) \cup {c} ELSE Part(D, t.kid[e][z]))
        <5>. TAKE e \in Sides
        <5>1. n.kid[e][z] = t.kid[e][z] /\ t.kid[e][z] \in K \cup {NULL}
          BY <1>5, <1>7, <3>3, <4>0
        <5>. QED  BY <1>9, <5>1
      <4>2. D[z] = {z} \cup Part(D, t.kid[d][z]) \cup Part(D, t.kid[Other(d)][z])
        BY <1>4, <4>0
      <4>3. Other(d) \in Sides /\ E[z] = (IF u \in D[z] THEN D[z] \cup {c} ELSE D[z])
        BY <1>3, <1>9, <4>0
      <4>. QED  BY <3>3, <4>1, <4>2, <4>3
    <3>. QED  BY <3>1, <3>2, <3>3
  <2>2. ASSUME NEW z \in J, NEW d \in Sides, NEW v \in Part(E, n.kid[d][z])
        PROVE  SideOf(v, z) = d /\ v # z
    <3>1. CASE z = c
      BY <1>7, <1>9, <2>2, <3>1
    <3>2. CASE z = u
      <4>1. CASE d = s
        BY <1>3, <1>7, <1>9, <2>2, <3>2, <4>1 DEF s
      <4>2. CASE d = Other(s)
        <5>1. u \notin Part(D, t.kid[Other(s)][u])
          BY <1>3, <1>4
        <5>2. Part(E, n.kid[Other(s)][u]) = Part(D, t.kid[Other(s)][u])
          <6>1. Other(s) \in Sides /\ n.kid[Other(s)][u] = t.kid[Other(s)][u]
            BY <1>3, <1>7
          <6>2. t.kid[Other(s)][u] \in K \cup {NULL}
            BY <1>3, <1>5, <6>1
          <6>. QED  BY <1>9, <5>1, <6>1, <6>2
        <5>. QED  BY <1>3, <1>4, <2>2, <3>2, <4>2, <5>2
      <4>. QED  BY <1>3, <4>1, <4>2
    <3>3. CASE z \notin {c, u}
      <4>0. z \in K
        BY <3>3 DEF J
      <4>1. Part(E, n.kid[d][z]) =
              (IF u \in Part(D, t.kid[d][z]) THEN Part(D, t.kid[d][z]) \cup {c} ELSE Part(D, t.kid[d][z]))
        <5>1. n.kid[d][z] = t.kid[d][z] /\ t.kid[d][z] \in K \cup {NULL}
          BY <1>5, <1>7, <3>3, <4>0
        <5>. QED  BY <1>9, <5>1
      <4>2. CASE v \in Part(D, t.kid[d][z])
        BY <1>4, <4>0, <4>2
      <4>3. CASE v = c /\ u \in Part(D, t.kid[d][z])
        <5>1. SideOf(u, z) = d
          BY <1>4, <4>0, <4>3
        <5>2. D[z] = {z} \cup Part(D, t.kid[d][z]) \cup Part(D, t.kid[Other(d)][z])
          BY <1>4, <4>0
        <5>. QED  BY <1>3, <3>3, <4>0, <4>3, <5>1, <5>2
      <4>. QED  BY <2>2, <4>1, <4>2, <4>3
    <3>. QED  BY <3>1, <3>2, <3>3
  <2>. QED  BY <1>2, <1>9, <2>1, <2>2 DEF Subtrees
<1>11. n.parent[c] = u /\ \A z \in K : n.parent[z] = t.parent[z]
  BY <1>1, <1>3 DEF J
<1>12. LinksAgree(n)
  <2>1. n.root # NULL => n.parent[n.root] = NULL
    BY <1>1, <1>3, <1>4, <1>11
  <2>2. ASSUME NEW z \in J \ {n.root}
        PROVE  n.parent[z] \in J /\ \E d \in Sides : n.kid[d][n.parent[z]] = z
    <3>1. CASE z = c
      BY <1>3, <1>7, <1>11, <3>1 DEF J
    <3>2. CASE z \in K
      <4>1. PICK d \in Sides : t.parent[z] \in K /\ t.kid[d][t.parent[z]] = z
        BY <1>1, <1>3, <1>4, <2>2, <3>2
      <4>2. n.kid[d][t.parent[z]] = z
        <5>1. CASE t.parent[z] = u
          <6>1. d # s
            BY <1>3, <3>2, <4>1, <5>1
          <6>2. d = Other(s)
            BY <1>3, <6>1
          <6>. QED  BY <1>7, <4>1, <5>1, <6>2
        <5>2. CASE t.parent[z] # u
          BY <1>7, <4>1, <5>2
        <5>. QED  BY <5>1, <5>2
      <4>. QED  BY <1>11, <3>2, <4>1, <4>2 DEF J
    <3>. QED  BY <2>2, <3>1, <3>2 DEF J
  <2>3. ASSUME NEW z \in J, NEW d \in Sides, n.kid[d][z] # NULL
        PROVE  n.parent[n.kid[d][z]] = z
    <3>1. z \in K
      BY <1>7, <2>3 DEF J
    <3>2. CASE z = u /\ d = s
      BY <1>7, <1>11, <3>2
    <3>3. CASE ~(z = u /\ d = s)
      <4>1. n.kid[d][z] = t.kid[d][z] /\ t.kid[d][z] \in K
        BY <1>3, <1>5, <1>7, <2>3, <3>1, <3>3
      <4>. QED  BY <1>4, <1>11, <2>3, <3>1, <4>1
    <3>. QED  BY <3>2, <3>3
  <2>. QED  BY <1>2, <2>1, <2>2, <2>3 DEF LinksAgree
<1>13. Part(E, n.root) = J
  <2>1. t.root \in K /\ Part(D, t.root) = K /\ u \in K /\ n.root = t.root
    BY <1>1, <1>3, <1>4, <1>9
  <2>. QED  BY <1>9, <2>1 DEF J
<1>14. Settled(n) /\ Kids(n) = J
  <2>1. Tree(n, E) /\ n.kids = n.root
    BY <1>1, <1>2, <1>8, <1>10, <1>12, <1>13 DEF Tree
  <2>. QED  BY <1>2, <2>1, TreeIs DEF Settled
<1>. QED  BY <1>14 DEF n, J, K

\* the first kid of a tree
LEMMA FirstTree ==
  ASSUME NEW t, NEW D, Tree(t, D), NULL \notin Int, t.kids = NULL, t.kids = t.root,
         NEW c \in Int
  PROVE  Settled(Linked(t, c, NULL)) /\ Kids(Linked(t, c, NULL)) = Kids(t) \cup {c}
<1>. DEFINE n == Linked(t, c, NULL)
            E == [z \in {c} |-> {c}]
<1>1. Kids(t) = {} /\ c # NULL
  BY DEF Tree, Part
<1>2. /\ n.kids = c /\ n.root = c
      /\ n.kid = [d \in Sides |-> [z \in {c} |-> NULL]]
      /\ n.parent = [z \in {c} |-> NULL] /\ n.color = [z \in {c} |-> "RED"]
      /\ n = [kids |-> n.kids, root |-> n.root, kid |-> n.kid, parent |-> n.parent, color |-> n.color]
  <2>. DEFINE J == Kids(t) \cup {c}
              LL == [d \in Sides |-> [z \in J |-> IF z = c THEN NULL
                     ELSE IF z = NULL /\ d = SideOf(c, NULL) THEN c ELSE t.kid[d][z]]]
              PP == [z \in J |-> IF z = c THEN NULL ELSE t.parent[z]]
              CC == [z \in J |-> IF z = c THEN "RED" ELSE t.color[z]]
  <2>1. n = [kids |-> c, root |-> c, kid |-> LL, parent |-> PP, color |-> CC]
    BY Zenon DEF Linked
  <2>2. LL = [d \in Sides |-> [z \in {c} |-> NULL]]
    <3>1. \A d \in Sides : [z \in J |-> IF z = c THEN NULL
                     ELSE IF z = NULL /\ d = SideOf(c, NULL) THEN c ELSE t.kid[d][z]]
                           = [z \in {c} |-> NULL]
      BY <1>1
    <3>. QED  BY <3>1
  <2>3. PP = [z \in {c} |-> NULL] /\ CC = [z \in {c} |-> "RED"]
    BY <1>1
  <2>. HIDE DEF n, LL, PP, CC
  <2>4. n.kids = c /\ n.root = c /\ n.kid = LL /\ n.parent = PP /\ n.color = CC
    BY <2>1
  <2>. QED  BY <2>1, <2>2, <2>3, <2>4
<1>. HIDE DEF n
<1>3. Kids(n) = {c}
  BY <1>2 DEF Kids
<1>4. \A d \in Sides : n.kid[d] = [z \in {c} |-> NULL] /\ n.kid[d][c] = NULL
  BY <1>2
<1>5. Typed(n)
  <2>1. n.kid \in [Sides -> [{c} -> {c} \cup {NULL}]]
    BY <1>2
  <2>2. n.parent \in [{c} -> {c} \cup {NULL}] /\ n.color \in [{c} -> {"RED", "BLACK"}]
    BY <1>2
  <2>3. IsFiniteSet({c}) /\ {c} \subseteq Int
    BY FS_Singleton
  <2>. QED  BY <1>2, <1>3, <2>1, <2>2, <2>3 DEF Typed
<1>6. LinksAgree(n)
  BY <1>2, <1>3, <1>4 DEF LinksAgree
<1>7. Subtrees(n, E) /\ Part(E, n.root) = {c}
  <2>1. \A d \in Sides : Part(E, n.kid[d][c]) = {} /\ Other(d) \in Sides
    BY <1>4 DEF Part, Sides, Other
  <2>2. E \in [{c} -> SUBSET {c}] /\ E[c] = {c}
    OBVIOUS
  <2>3. Part(E, n.root) = {c}
    BY <1>1, <1>2, <2>2 DEF Part
  <2>. HIDE DEF E
  <2>. QED  BY <1>3, <2>1, <2>2, <2>3 DEF Subtrees
<1>8. Settled(n) /\ Kids(n) = Kids(t) \cup {c}
  <2>1. Tree(n, E) /\ n.kids = n.root
    BY <1>2, <1>3, <1>5, <1>6, <1>7 DEF Tree
  <2>. QED  BY <1>1, <1>3, <2>1, TreeIs DEF Settled
<1>. QED  BY <1>8 DEF n

\* the way down to c
LEMMA DownSteps ==
  ASSUME NEW t, Typed(t), NULL \notin Int, NEW c \in Int
  PROVE  LET w == Down(t, c)
             N == Cardinality(Kids(t))
         IN  /\ N \in Nat /\ w \in [0..N -> Kids(t) \cup {NULL}]
             /\ w[0] = t.kids
             /\ \A n \in 0..(N - 1) :
                  w[n + 1] = IF w[n] \in {c, NULL} THEN w[n] ELSE t.kid[SideOf(c, w[n])][w[n]]
<1>. DEFINE S == Kids(t) \cup {NULL}
            N == Cardinality(Kids(t))
            Step(x) == IF x \in {c, NULL} THEN x ELSE t.kid[SideOf(c, x)][x]
            F == [x \in S |-> Step(x)]
            Runs(g) == g = [n \in Nat |-> IF n = 0 THEN t.kids
                              ELSE LET x == g[n - 1]
                                   IN  IF x \in {c, NULL} THEN x ELSE t.kid[SideOf(c, x)][x]]
<1>1. N \in Nat
  BY FS_CardinalityType DEF Typed
<1>2. Down(t, c) = [n \in 0..N |-> (CHOOSE g : Runs(g))[n]]
  BY DEF Down
<1>3. F \in [S -> S] /\ t.kids \in S
  BY DEF Typed, SideOf, Sides
<1>4. PICK f \in [Nat -> S] : f[0] = t.kids /\ \A n \in Nat : f[n + 1] = F[f[n]]
  <2>. HIDE DEF F, S
  <2>1. Iterated(S, F, t.kids)
    BY <1>3, Iterates, Zenon
  <2>. QED  BY <2>1 DEF Iterated
<1>5. Runs(f)
  <2>1. ASSUME NEW n \in Nat, n # 0 PROVE f[n] = Step(f[n - 1])
    <3>1. n - 1 \in Nat /\ (n - 1) + 1 = n
      BY <2>1
    <3>2. f[(n - 1) + 1] = F[f[n - 1]] /\ f[n - 1] \in S
      <4>. HIDE DEF F, S
      <4>. QED  BY <1>4, <3>1
    <3>3. F[f[n - 1]] = Step(f[n - 1])
      BY <3>2
    <3>. QED  BY <3>1, <3>2, <3>3
  <2>. QED  BY <1>4, <2>1
<1>6. PICK g : Runs(g) /\ Down(t, c) = [n \in 0..N |-> g[n]]
  <2>. HIDE DEF Runs
  <2>1. Runs(CHOOSE g : Runs(g))
    BY <1>5, Zenon
  <2>. QED  BY <1>2, <2>1
<1>7. g[0] = t.kids /\ \A n \in Nat : g[n + 1] = Step(g[n])
  <2>1. g = [n \in Nat |-> IF n = 0 THEN t.kids ELSE Step(g[n - 1])]
    BY <1>6
  <2>. HIDE DEF Step, Runs
  <2>2. \A n \in Nat : g[n] = IF n = 0 THEN t.kids ELSE Step(g[n - 1])
    BY <2>1
  <2>3. \A n \in Nat : n + 1 \in Nat /\ n + 1 # 0 /\ (n + 1) - 1 = n
    OBVIOUS
  <2>4. ASSUME NEW n \in Nat PROVE g[n + 1] = Step(g[n])
    <3>1. g[n + 1] = Step(g[(n + 1) - 1])
      BY <2>2, <2>3
    <3>. QED  BY <2>3, <3>1
  <2>. QED  BY <2>2, <2>4
<1>8. \A n \in Nat : g[n] \in S
  <2>. DEFINE T == {n \in Nat : g[n] \in S}
  <2>1. 0 \in T
    BY <1>3, <1>7
  <2>2. ASSUME NEW n \in T PROVE n + 1 \in T
    <3>1. n \in Nat /\ g[n] \in S /\ g[n + 1] = Step(g[n])
      BY <1>7
    <3>2. Step(g[n]) = F[g[n]] /\ F[g[n]] \in S
      BY <1>3, <3>1
    <3>. QED  BY <3>1, <3>2
  <2>. HIDE DEF T
  <2>3. T = Nat
    <3>1. T \in SUBSET Nat
      BY DEF T
    <3>. QED  BY <2>1, <2>2, <3>1, AllNumbers
  <2>. QED  BY <2>3 DEF T
<1>9. Down(t, c) \in [0..N -> S] /\ Down(t, c)[0] = t.kids
  <2>. HIDE DEF S, N, Step, F, Runs
  <2>1. \A i \in 0..N : i \in Nat
    BY <1>1
  <2>2. 0 \in 0..N
    BY <1>1
  <2>. QED  BY <1>6, <1>7, <1>8, <2>1, <2>2
<1>10. ASSUME NEW n \in 0..(N - 1) PROVE Down(t, c)[n + 1] = Step(Down(t, c)[n])
  <2>1. n \in 0..N /\ n + 1 \in 0..N /\ n \in Nat
    BY <1>1
  <2>2. Down(t, c)[n] = g[n] /\ Down(t, c)[n + 1] = g[n + 1]
    BY <1>6, <2>1
  <2>. HIDE DEF Step
  <2>. QED  BY <1>7, <2>1, <2>2
<1>. QED  BY <1>1, <1>9, <1>10

\* a search that ends at c has found it
LEMMA KidFindFinds ==
  ASSUME NEW t, NEW D, Tree(t, D), NULL \notin Int, t.kids = t.root, NEW c \in Int
  PROVE  KidFind(t, c) = c <=> c \in Kids(t)
<1>. DEFINE K == Kids(t)
            N == Cardinality(K)
            w == Down(t, c)
<1>0. Typed(t)
  BY DEF Tree
<1>1. /\ N \in Nat /\ w \in [0..N -> K \cup {NULL}] /\ w[0] = t.kids
      /\ \A n \in 0..(N - 1) :
           w[n + 1] = IF w[n] \in {c, NULL} THEN w[n] ELSE t.kid[SideOf(c, w[n])][w[n]]
  BY <1>0, DownSteps
<1>. HIDE DEF w
<1>2. ASSUME KidFind(t, c) = c PROVE c \in K
  <2>1. w[N] = c /\ c # NULL
    BY <1>2 DEF KidFind, w
  <2>. QED  BY <1>1, <2>1
<1>3. ASSUME c \in K PROVE KidFind(t, c) = c
  <2>1. /\ IsFiniteSet(K) /\ NULL \notin K
        /\ D \in [K -> SUBSET K] /\ Part(D, t.kids) = K
        /\ \A z \in K : \A d \in Sides :
             D[z] = {z} \cup Part(D, t.kid[d][z]) \cup Part(D, t.kid[Other(d)][z])
        /\ \A z \in K : \A d \in Sides : \A v \in Part(D, t.kid[d][z]) : SideOf(v, z) = d /\ v # z
        /\ \A z \in K : \A d \in Sides : t.kid[d][z] \in K \cup {NULL}
    BY DEF Tree, Typed, Subtrees
  <2>2. \A A \in SUBSET K : IsFiniteSet(A) /\ Cardinality(A) \in Nat
                            /\ \A B \in SUBSET A : B # A => Cardinality(B) < Cardinality(A)
    BY <2>1, FS_Subset, FS_CardinalityType
  <2>. DEFINE P(n) == w[n] = c \/ (w[n] \in K /\ c \in D[w[n]] /\ Cardinality(D[w[n]]) + n <= N)
              T == {n \in Nat : n <= N => P(n)}
  <2>3. 0 \in T
    <3>1. t.kids \in K /\ D[t.kids] = K
      BY <1>3, <2>1, <1>1 DEF Part
    <3>. QED  BY <1>1, <1>3, <3>1
  <2>4. ASSUME NEW n \in T PROVE n + 1 \in T
    <3>1. SUFFICES ASSUME n + 1 <= N PROVE P(n + 1)
      BY <2>4
    <3>2. n \in 0..(N - 1) /\ P(n) /\ n \in Nat
      BY <1>1, <3>1
    <3>3. CASE w[n] = c
      BY <1>1, <3>2, <3>3
    <3>4. CASE w[n] # c
      <4>. DEFINE x == w[n]
                  y == t.kid[SideOf(c, x)][x]
      <4>1. x \in K /\ x # c /\ x # NULL /\ c \in D[x] /\ Cardinality(D[x]) + n <= N
        BY <2>1, <3>2, <3>4
      <4>2. w[n + 1] = y
        BY <1>1, <3>2, <4>1
      <4>. HIDE DEF x
      <4>3. SideOf(c, x) \in Sides
        BY DEF SideOf, Sides
      <4>4. c \in Part(D, y)
        <5>1. Other(SideOf(c, x)) \in Sides /\ Other(SideOf(c, x)) # SideOf(c, x)
          BY <4>3 DEF Sides, Other
        <5>2. c \notin Part(D, t.kid[Other(SideOf(c, x))][x])
          BY <2>1, <4>1, <5>1
        <5>3. D[x] = {x} \cup Part(D, y) \cup Part(D, t.kid[Other(SideOf(c, x))][x])
          BY <2>1, <4>1, <4>3
        <5>. QED  BY <4>1, <5>2, <5>3
      <4>5. y \in K /\ Part(D, y) = D[y]
        BY <2>1, <4>1, <4>3, <4>4 DEF Part
      <4>6. x \notin D[y] /\ D[y] \subseteq D[x] /\ x \in D[x] /\ D[x] \in SUBSET K
        <5>1. \A v \in D[y] : v # x
          BY <2>1, <4>1, <4>3, <4>5
        <5>2. D[x] = {x} \cup Part(D, y) \cup Part(D, t.kid[Other(SideOf(c, x))][x])
          BY <2>1, <4>1, <4>3
        <5>3. D[x] \in SUBSET K
          BY <2>1, <4>1
        <5>. QED  BY <4>5, <5>1, <5>2, <5>3
      <4>. HIDE DEF y
      <4>7. Cardinality(D[y]) < Cardinality(D[x]) /\ Cardinality(D[y]) \in Nat /\ Cardinality(D[x]) \in Nat
        BY <2>2, <4>6
      <4>8. Cardinality(D[y]) + (n + 1) <= N
        BY <1>1, <3>2, <4>1, <4>7
      <4>. QED  BY <4>2, <4>4, <4>5, <4>8
    <3>. QED  BY <3>3, <3>4
  <2>. HIDE DEF T
  <2>5. T = Nat
    <3>1. T \in SUBSET Nat
      BY DEF T
    <3>. QED  BY <2>3, <2>4, <3>1, AllNumbers
  <2>6. P(N)
    <3>1. \A n \in T : n <= N => P(n)
      BY DEF T
    <3>. HIDE DEF P
    <3>. QED  BY <1>1, <2>5, <3>1
  <2>7. w[N] = c
    <3>1. SUFFICES ASSUME w[N] # c PROVE FALSE
      OBVIOUS
    <3>2. w[N] \in K /\ c \in D[w[N]] /\ Cardinality(D[w[N]]) + N <= N
      BY <2>6, <3>1
    <3>3. D[w[N]] \in SUBSET K /\ {} \in SUBSET D[w[N]] /\ {} # D[w[N]]
      BY <2>1, <3>2
    <3>4. Cardinality({}) < Cardinality(D[w[N]]) /\ Cardinality(D[w[N]]) \in Nat /\ Cardinality({}) = 0
      BY <2>2, <3>3, FS_EmptySet
    <3>. QED  BY <1>1, <3>2, <3>4
  <2>. QED  BY <2>7 DEF KidFind, w
<1>. QED  BY <1>2, <1>3

\* with a kid that is not its top, a subtree has the parent
LEMMA ParentAbove ==
  ASSUME NEW t, NEW D, Tree(t, D), NULL \notin Int
  PROVE  \A z \in Kids(t) : \A v \in D[z] : v # z => t.parent[v] \in D[z]
<1>. DEFINE K == Kids(t)
            B == {z \in K : \A v \in D[z] : v # z => t.parent[v] \in D[z]}
<1>1. Typed(t) /\ Subtrees(t, D)
  BY DEF Tree
<1>2. /\ \A z \in K, d \in Sides :
           D[z] = {z} \cup Part(D, t.kid[d][z]) \cup Part(D, t.kid[Other(d)][z])
      /\ \A z \in K, d \in Sides : t.kid[d][z] # NULL => t.parent[t.kid[d][z]] = z
  BY DEF Tree, Subtrees, LinksAgree
<1>3. ASSUME NEW z \in K, \A d \in Sides : t.kid[d][z] \in B \cup {NULL}
      PROVE  z \in B
  <2>1. ASSUME NEW v \in D[z], v # z PROVE t.parent[v] \in D[z]
    <3>1. PICK d \in Sides : v \in Part(D, t.kid[d][z])
      BY <1>2, <2>1 DEF Sides, Other
    <3>2. t.kid[d][z] \in B /\ t.kid[d][z] # NULL /\ v \in D[t.kid[d][z]]
      BY <1>3, <3>1 DEF Part
    <3>3. D[z] = {z} \cup D[t.kid[d][z]] \cup Part(D, t.kid[Other(d)][z])
      BY <1>2, <3>2 DEF Part
    <3>4. CASE v = t.kid[d][z]
      BY <1>2, <3>2, <3>3, <3>4
    <3>5. CASE v # t.kid[d][z]
      BY <3>2, <3>3, <3>5
    <3>. QED  BY <3>4, <3>5
  <2>. QED  BY <2>1
<1>. HIDE DEF B
<1>4. B = K
  <2>1. B \in SUBSET K
    BY DEF B
  <2>. QED  BY <1>1, <1>3, <2>1, FromTheLeaves
<1>. QED  BY <1>4 DEF B

\* a new kid is hung up where searches for it will come by
LEMMA HooksLead ==
  ASSUME NEW t, NEW D, Tree(t, D), NULL \notin Int, t.kids = t.root,
         NEW c \in Int \ Kids(t), NEW u \in Hooks(t, c)
  PROVE  \/ t.kids = NULL /\ u = NULL
         \/ u \in Kids(t) /\ t.kid[SideOf(c, u)][u] = NULL /\ Leads(t, D, c, u)
<1>. DEFINE K == Kids(t)
            N == Cardinality(K)
            w == Down(t, c)
<1>0. Typed(t) /\ Subtrees(t, D)
  BY DEF Tree
<1>1. /\ N \in Nat /\ w \in [0..N -> K \cup {NULL}] /\ w[0] = t.kids
      /\ \A n \in 0..(N - 1) :
           w[n + 1] = IF w[n] \in {c, NULL} THEN w[n] ELSE t.kid[SideOf(c, w[n])][w[n]]
  BY <1>0, DownSteps
<1>2. CASE t.kids = NULL
  BY <1>2 DEF Hooks
<1>3. CASE t.kids # NULL
  <2>1. PICK m \in 0..(N - 1) : u = w[m] /\ u # NULL /\ t.kid[SideOf(c, u)][u] = NULL
    BY <1>3 DEF Hooks
  <2>. HIDE DEF w
  <2>2. u \in K
    BY <1>1, <2>1
  <2>3. /\ NULL \notin K /\ K \subseteq Int
        /\ D \in [K -> SUBSET K] /\ Part(D, t.kids) = K
        /\ \A z \in K, d \in Sides :
             D[z] = {z} \cup Part(D, t.kid[d][z]) \cup Part(D, t.kid[Other(d)][z])
        /\ \A z \in K, d \in Sides : \A v \in Part(D, t.kid[d][z]) : SideOf(v, z) = d /\ v # z
        /\ \A z \in K, d \in Sides : t.kid[d][z] \in K \cup {NULL}
        /\ \A z \in K, d \in Sides : t.kid[d][z] # NULL => t.parent[t.kid[d][z]] = z
        /\ t.root # NULL => t.parent[t.root] = NULL
    BY DEF Tree, Typed, Subtrees, LinksAgree
  <2>4. /\ \A z \in K : \A v \in D[z] : D[v] \subseteq D[z]
        /\ \A z \in K : \A v \in D[z] : v # z => t.parent[v] \in D[z]
        /\ \A z \in K : z \in D[z]
    <3>1. \A z \in K : z \in D[z]
      BY <2>3 DEF Sides
    <3>. QED  BY <1>0, <3>1, SubtreesNest, ParentAbove
  <2>. DEFINE P(n) == w[n] \in K => Leads(t, D, c, w[n])
              T == {n \in Nat : n <= N => P(n)}
  <2>5. 0 \in T
    <3>1. ASSUME NEW z \in K, t.kids \in D[z], t.kids # z PROVE FALSE
      <4>1. t.parent[t.kids] \in D[z]
        BY <1>3, <2>3, <2>4, <3>1
      <4>. QED  BY <1>3, <2>3, <4>1
    <3>2. Leads(t, D, c, t.kids)
      BY <3>1 DEF Leads
    <3>. QED  BY <1>1, <3>2
  <2>6. ASSUME NEW n \in T PROVE n + 1 \in T
    <3>1. SUFFICES ASSUME n + 1 <= N, w[n + 1] \in K PROVE Leads(t, D, c, w[n + 1])
      BY <2>6
    <3>2. n \in 0..(N - 1) /\ P(n) /\ n \in Nat
      BY <1>1, <3>1
    <3>. DEFINE x == w[n]
                y == t.kid[SideOf(c, x)][x]
    <3>3. x \in K \cup {NULL}
      BY <1>1, <3>2
    <3>4. CASE x \in {c, NULL}
      BY <1>1, <2>3, <3>1, <3>2, <3>4
    <3>5. CASE x \notin {c, NULL}
      <4>1. x \in K /\ Leads(t, D, c, x) /\ w[n + 1] = y
        BY <1>1, <3>2, <3>3, <3>5
      <4>2. SideOf(c, x) \in Sides
        BY DEF SideOf, Sides
      <4>. HIDE DEF x
      <4>3. y \in K /\ t.parent[y] = x /\ y # NULL /\ Part(D, y) = D[y] /\ y \in D[y] /\ x # y
            /\ SideOf(y, x) = SideOf(c, x)
        <5>1. y \in K /\ t.parent[y] = x /\ y # NULL
          BY <2>3, <3>1, <4>1, <4>2
        <5>2. Part(D, y) = D[y] /\ y \in D[y]
          BY <2>4, <5>1 DEF Part
        <5>. DEFINE d == SideOf(c, x)
        <5>3. \A v \in Part(D, t.kid[d][x]) : SideOf(v, x) = d /\ v # x
          <6>. HIDE DEF d
          <6>. QED  BY <2>3, <4>1, <4>2 DEF d
        <5>. QED  BY <5>1, <5>2, <5>3
      <4>. HIDE DEF y
      <4>4. ASSUME NEW z \in K, y \in D[z], y # z PROVE SideOf(c, z) = SideOf(y, z)
        <5>1. x \in D[z]
          BY <2>4, <4>3, <4>4
        <5>2. CASE x = z
          BY <4>3, <5>2
        <5>3. CASE x # z
          <6>1. PICK d \in Sides : x \in Part(D, t.kid[d][z])
            BY <2>3, <5>1, <5>3 DEF Sides, Other
          <6>2. t.kid[d][z] \in K /\ x \in D[t.kid[d][z]] /\ Part(D, t.kid[d][z]) = D[t.kid[d][z]]
            BY <2>3, <6>1 DEF Part
          <6>3. y \in D[x]
            <7>1. D[x] = {x} \cup Part(D, t.kid[SideOf(c, x)][x])
                             \cup Part(D, t.kid[Other(SideOf(c, x))][x])
              BY <2>3, <4>1, <4>2
            <7>. QED  BY <4>3, <7>1 DEF y
          <6>4. y \in Part(D, t.kid[d][z])
            BY <2>4, <6>2, <6>3
          <6>5. SideOf(x, z) = d /\ SideOf(y, z) = d
            BY <2>3, <6>1, <6>4
          <6>. QED  BY <4>1, <5>1, <5>3, <6>5 DEF Leads
        <5>. QED  BY <5>2, <5>3
      <4>. QED  BY <4>1, <4>4 DEF Leads
    <3>. QED  BY <3>4, <3>5
  <2>. HIDE DEF T
  <2>7. T = Nat
    <3>1. T \in SUBSET Nat
      BY DEF T
    <3>. QED  BY <2>5, <2>6, <3>1, AllNumbers
  <2>8. P(m)
    <3>1. \A n \in T : n <= N => P(n)
      BY DEF T
    <3>2. m \in Nat /\ m <= N
      BY <1>1
    <3>. HIDE DEF P
    <3>. QED  BY <2>7, <3>1, <3>2
  <2>. QED  BY <2>1, <2>2, <2>8
<1>. QED  BY <1>2, <1>3

LEMMA EmptyIsTree == NULL \notin Int => Settled(EmptyTree) /\ Kids(EmptyTree) = {}
<1>. SUFFICES ASSUME NULL \notin Int PROVE Settled(EmptyTree) /\ Kids(EmptyTree) = {}
  OBVIOUS
<1>. DEFINE t == EmptyTree
<1>1. /\ t.kids = NULL /\ t.root = NULL /\ t.parent = <<>> /\ t.color = <<>>
      /\ t.kid = [s \in Sides |-> <<>>]
      /\ t = [kids |-> t.kids, root |-> t.root, kid |-> t.kid, parent |-> t.parent, color |-> t.color]
  BY DEF EmptyTree
<1>. HIDE DEF t
<1>2. Kids(t) = {} /\ t.parent \in [{} -> {NULL}] /\ t.color \in [{} -> {"RED", "BLACK"}]
      /\ t.kid \in [Sides -> [{} -> {NULL}]]
  BY <1>1 DEF Kids
<1>3. Typed(t)
  BY <1>1, <1>2, FS_EmptySet DEF Typed
<1>. DEFINE D == [x \in {} |-> {}]
<1>4. LinksAgree(t) /\ Subtrees(t, D) /\ Part(D, t.root) = {}
  BY <1>1, <1>2 DEF LinksAgree, Subtrees, Part
<1>5. Tree(t, D)
  BY <1>2, <1>3, <1>4 DEF Tree
<1>6. IsTree(t) /\ t.kids = t.root /\ Kids(t) = {}
  BY <1>1, <1>2, <1>5, TreeIs
<1>. QED  BY <1>6 DEF Settled, t

\* kid_get_or_set() links a kid under any kid that the search may end at
LEMMA LinkedIsTree ==
  ASSUME NEW t, Settled(t), NULL \notin Int, NEW c \in Int \ Kids(t), NEW u \in Hooks(t, c)
  PROVE  Settled(Linked(t, c, u)) /\ Kids(Linked(t, c, u)) = Kids(t) \cup {c}
<1>1. PICK D : Tree(t, D)
  BY DEF Settled, IsTree
<1>2. t.kids = t.root
  BY DEF Settled
<1>3. CASE t.kids = NULL /\ u = NULL
  BY <1>1, <1>2, <1>3, FirstTree
<1>4. CASE u \in Kids(t) /\ t.kid[SideOf(c, u)][u] = NULL /\ Leads(t, D, c, u)
  BY <1>1, <1>2, <1>4, LinkedTree
<1>. QED  BY <1>1, <1>2, <1>3, <1>4, HooksLead

\* the rotation puts x under y, and leaves the links of kids above alone
LEMMA RotatedLinks ==
  ASSUME NEW t, Typed(t), NEW x \in Kids(t), NEW s \in Sides,
         NEW y \in Kids(t), t.kid[Other(s)][x] = y,
         NEW g \in Kids(t), NEW d \in Sides, g \notin {x, y}, t.kid[d][g] = x, g = t.parent[x]
  PROVE  Rotated(t, x, s).kid[d][g] = y
<1>. DEFINE o == Other(s)
            L == [e \in Sides |-> [z \in Kids(t) |->
                           CASE z = x /\ e = o -> t.kid[s][t.kid[o][x]]
                             [] z = t.kid[o][x] /\ e = s -> x
                             [] z = t.parent[x] /\ t.kid[e][z] = x -> t.kid[o][x]
                             [] OTHER -> t.kid[e][z]]]
            R == IF t.parent[x] = NULL THEN t.kid[o][x] ELSE t.root
            P == [z \in Kids(t) |-> CASE z = x -> t.kid[o][x]
                                [] z = t.kid[o][x] -> t.parent[x]
                                [] z = t.kid[s][t.kid[o][x]] -> x
                                [] OTHER -> t.parent[z]]
<1>1. Rotated(t, x, s) = [t EXCEPT !.root = R, !.kid = L, !.parent = P]
  BY Zenon DEF Rotated
<1>2. t = [kids |-> t.kids, root |-> t.root, kid |-> t.kid, parent |-> t.parent, color |-> t.color]
  BY DEF Typed
<1>3. L[d][g] = y
  OBVIOUS
<1>. HIDE DEF L, R, P
<1>4. Rotated(t, x, s).kid = L
  BY <1>1, <1>2
<1>. QED  BY <1>3, <1>4

\* a round of kid_fix() with a red uncle
LEMMA RecolouredIsTree ==
  ASSUME NEW t, IsTree(t), NEW p
  PROVE  IsTree(Recoloured(t, p)) /\ Kids(Recoloured(t, p)) = Kids(t)
<1>1. PICK D : Tree(t, D)
  BY DEF IsTree
<1>. DEFINE t1 == Painted(t, {t.parent[p], Uncle(t, p)}, "BLACK")
<1>2. Tree(t1, D) /\ Kids(t1) = Kids(t)
  BY <1>1, PaintedTree
<1>. HIDE DEF t1
<1>3. Tree(Painted(t1, {Gp(t, p)}, "RED"), D) /\ Kids(Painted(t1, {Gp(t, p)}, "RED")) = Kids(t)
  BY <1>2, PaintedTree
<1>. QED  BY <1>3, TreeIs DEF Recoloured, t1

\* the root that kid_fix() returns
LEMMA ReturnedIsTree ==
  ASSUME NEW t, IsTree(t), NULL \notin Int
  PROVE  Settled(Returned(t)) /\ Kids(Returned(t)) = Kids(t)
<1>1. PICK D : Tree(t, D)
  BY DEF IsTree
<1>. DEFINE n == Painted(t, {t.root}, "BLACK")
            m == [n EXCEPT !.kids = t.root]
<1>2. Tree(n, D) /\ Kids(n) = Kids(t) /\ n = [t EXCEPT !.color = n.color]
  BY <1>1, PaintedTree
<1>. HIDE DEF n
<1>3. /\ n = [kids |-> n.kids, root |-> n.root, kid |-> n.kid, parent |-> n.parent, color |-> n.color]
      /\ t = [kids |-> t.kids, root |-> t.root, kid |-> t.kid, parent |-> t.parent, color |-> t.color]
  BY <1>1, <1>2 DEF Tree, Typed
<1>4. n.root = t.root
  BY <1>2, <1>3
<1>5. /\ m.root = n.root /\ m.kid = n.kid /\ m.parent = n.parent /\ m.color = n.color /\ m.kids = n.root
      /\ m = [kids |-> m.kids, root |-> m.root, kid |-> m.kid, parent |-> m.parent, color |-> m.color]
  BY <1>3, <1>4
<1>. HIDE DEF m
<1>6. Kids(m) = Kids(n)
  BY <1>5 DEF Kids
<1>7. Tree(m, D)
  <2>1. Typed(m)
    BY <1>2, <1>5, <1>6 DEF Tree, Typed
  <2>2. LinksAgree(m) /\ Subtrees(m, D) /\ Part(D, m.root) = Kids(m)
    BY <1>2, <1>5, <1>6 DEF Tree, LinksAgree, Subtrees
  <2>. QED  BY <2>1, <2>2 DEF Tree
<1>8. Settled(m) /\ Kids(m) = Kids(t)
  BY <1>2, <1>5, <1>6, <1>7, TreeIs DEF Settled
<1>. QED  BY <1>8 DEF Returned, m, n

\* the turns of kid_fix(): the parent is a kid on the side of the grandparent
\* that the code takes it to be on, so both rotations have a kid to bring up
LEMMA TurnedIsTree ==
  ASSUME NEW t, IsTree(t), NULL \notin Int, NEW p \in Kids(t), p # t.root, Gp(t, p) # NULL
  PROVE  /\ IsTree(Turned(t, p)) /\ Kids(Turned(t, p)) = Kids(t)
         /\ Gp(t, p) \in Kids(t) /\ t.parent[p] \in Kids(t)
<1>1. PICK D : Tree(t, D)
  BY DEF IsTree
<1>. DEFINE u == t.parent[p]
            g == Gp(t, p)
            s == ParentSide(t, p)
            t1 == IF Inner(t, p) THEN Rotated(t, u, s) ELSE t
            b == Painted(t1, {u}, "BLACK")
            t2 == Painted(b, {g}, "RED")
<1>2. /\ Typed(t) /\ NULL \notin Kids(t) /\ s \in Sides
      /\ u \in Kids(t) /\ t.parent[u] = g /\ g \in Kids(t)
      /\ \A z \in Kids(t), d \in Sides : t.kid[d][z] # NULL => t.parent[t.kid[d][z]] = z
  BY <1>1 DEF Tree, LinksAgree, Typed, ParentSide, Sides, Gp
<1>3. t.kid[s][g] = u
  <2>1. \E d \in Sides : t.kid[d][g] = u
    BY <1>1, <1>2 DEF Tree, LinksAgree
  <2>. QED  BY <2>1 DEF ParentSide, Sides
<1>4. /\ g # u /\ Other(s) \in Sides /\ Other(Other(s)) = s
      /\ Inner(t, p) => g # p /\ p # u /\ t.kid[Other(s)][u] = p
  <2>0. /\ Other(s) \in Sides /\ Other(Other(s)) = s
        /\ \A x \in Kids(t) : \A d \in Sides : \A v \in Part(D, t.kid[d][x]) : v # x
        /\ \A x \in Kids(t) : x \in D[x] /\ Part(D, x) = D[x]
        /\ \A x \in Kids(t) : \A d \in Sides : \A v \in Part(D, t.kid[d][x]) : v \in D[x]
    <3>1. Other(s) \in Sides /\ Other(Other(s)) = s
      BY <1>2 DEF Sides, Other
    <3>2. \A x \in Kids(t) : \A d \in Sides : \A v \in Part(D, t.kid[d][x]) : v # x
      BY <1>1 DEF Tree, Subtrees
    <3>3. \A x \in Kids(t) : \A d \in Sides :
            D[x] = {x} \cup Part(D, t.kid[d][x]) \cup Part(D, t.kid[Other(d)][x])
      BY <1>1 DEF Tree, Subtrees
    <3>4. \A x \in Kids(t) : Part(D, x) = D[x]
      BY <1>2 DEF Part
    <3>. QED  BY <1>2, <3>1, <3>2, <3>3, <3>4
  <2>1. g # u
    BY <1>2, <1>3, <2>0
  <2>2. ASSUME Inner(t, p) PROVE g # p /\ p # u /\ t.kid[Other(s)][u] = p
    <3>1. t.kid[Other(s)][u] = p
      BY <2>2 DEF Inner
    <3>2. p # u
      BY <1>2, <2>0, <3>1
    <3>3. p \in Part(D, t.kid[s][g])
      BY <1>2, <1>3, <2>0, <3>1
    <3>. QED  BY <1>2, <2>0, <3>1, <3>2, <3>3
  <2>. QED  BY <2>0, <2>1, <2>2
<1>5. IsTree(t1) /\ Kids(t1) = Kids(t) /\ t1.kid[s][g] # NULL
  <2>1. CASE Inner(t, p)
    <3>1. t.kid[Other(s)][u] # NULL /\ t.kid[Other(s)][u] = p
      BY <1>2, <1>4, <2>1
    <3>2. IsTree(Rotated(t, u, s)) /\ Kids(Rotated(t, u, s)) = Kids(t)
      BY <1>1, <1>2, <3>1, RotatedTree
    <3>3. Rotated(t, u, s).kid[s][g] = p
      BY <1>2, <1>3, <1>4, <2>1, RotatedLinks
    <3>. QED  BY <1>2, <2>1, <3>2, <3>3
  <2>2. CASE ~Inner(t, p)
    BY <1>2, <1>3, <2>2
  <2>. QED  BY <2>1, <2>2
<1>. HIDE DEF t1
<1>6. PICK D1 : Tree(t1, D1)
  BY <1>5 DEF IsTree
<1>7. Tree(b, D1) /\ Kids(b) = Kids(t1) /\ b = [t1 EXCEPT !.color = b.color]
  BY <1>6, PaintedTree
<1>. HIDE DEF b
<1>8. Tree(t2, D1) /\ Kids(t2) = Kids(b) /\ t2 = [b EXCEPT !.color = t2.color]
  BY <1>7, PaintedTree
<1>. HIDE DEF t2
<1>9. t2.kid[s][g] # NULL /\ g \in Kids(t2)
  <2>1. /\ t1 = [kids |-> t1.kids, root |-> t1.root, kid |-> t1.kid, parent |-> t1.parent, color |-> t1.color]
        /\ b = [kids |-> b.kids, root |-> b.root, kid |-> b.kid, parent |-> b.parent, color |-> b.color]
    BY <1>6, <1>7 DEF Tree, Typed
  <2>2. b.kid = t1.kid
    BY <1>7, <2>1
  <2>3. t2.kid = b.kid
    BY <1>8, <2>1
  <2>. QED  BY <1>2, <1>5, <1>7, <1>8, <2>2, <2>3
<1>10. IsTree(Rotated(t2, g, Other(s))) /\ Kids(Rotated(t2, g, Other(s))) = Kids(t)
  <2>1. t2.kid[Other(Other(s))][g] # NULL
    BY <1>4, <1>9
  <2>2. IsTree(Rotated(t2, g, Other(s))) /\ Kids(Rotated(t2, g, Other(s))) = Kids(t2)
    BY <1>4, <1>8, <1>9, <2>1, RotatedTree
  <2>. QED  BY <1>5, <1>7, <1>8, <2>2
<1>11. Turned(t, p) = Rotated(t2, g, Other(s))
  BY Zenon DEF Turned, t2, b, t1
<1>. QED  BY <1>2, <1>10, <1>11

-----------------------------------------------------------------------------
(* The sorted list of list_set.c *)

Sorted(l) == l \in Seq(Nat) /\ \A i, j \in DOMAIN l : i < j => l[i] < l[j]

\* kid_get_or_set() of list_set.c keeps the list sorted
LEMMA PlacedSorts ==
  ASSUME NEW l, Sorted(l), NEW c \in Nat
  PROVE  Sorted(Placed(l, c)) /\ Range(Placed(l, c)) = Range(l) \cup {c}
<1>. DEFINE S == {i \in DOMAIN l : \A j \in 1..i : l[j] < c}
            m == Cardinality(S)
            r == SubSeq(l, 1, m) \o <<c>> \o SubSeq(l, m + 1, Len(l))
<1>0. /\ l \in Seq(Nat) /\ Len(l) \in Nat /\ DOMAIN l = 1..Len(l)
      /\ \A i \in 1..Len(l) : l[i] \in Nat
      /\ \A i, j \in 1..Len(l) : i < j => l[i] < l[j]
  BY DEF Sorted
<1>1. CASE \E i \in DOMAIN l : l[i] = c /\ \A j \in 1..i : l[j] <= c
  BY <1>1 DEF Placed, Range
<1>2. CASE ~ \E i \in DOMAIN l : l[i] = c /\ \A j \in 1..i : l[j] <= c
  <2>1. Placed(l, c) = r
    BY <1>2 DEF Placed
  <2>2. \A i \in 1..Len(l) : l[i] # c
    <3>1. ASSUME NEW i \in 1..Len(l), l[i] = c PROVE \A j \in 1..i : l[j] <= c
      BY <1>0, <3>1
    <3>. QED  BY <1>0, <1>2, <3>1
  <2>3. PICK k \in 0..Len(l) : S = 1..k
    <3>. DEFINE A == {n \in Nat : n + 1 \notin S}
    <3>1. Len(l) \in A
      BY <1>0
    <3>2. PICK k \in A : \A n \in A : k <= n
      <4>. HIDE DEF A
      <4>1. A \in SUBSET Nat /\ A # {}
        BY <3>1 DEF A
      <4>. QED  BY <4>1, Least
    <3>3. k \in Nat /\ k <= Len(l) /\ k + 1 \notin S
      BY <3>1, <3>2
    <3>4. \A i \in 1..k : i \in S
      <4>. TAKE i \in 1..k
      <4>1. i - 1 \in Nat /\ i - 1 < k /\ (i - 1) + 1 = i
        BY <3>3
      <4>2. i - 1 \notin A
        BY <3>2, <3>3, <4>1
      <4>. QED  BY <4>1, <4>2
    <3>5. \A i \in S : i \in 1..k
      <4>. TAKE i \in S
      <4>1. i \in 1..Len(l) /\ \A j \in 1..i : l[j] < c
        BY <1>0
      <4>2. i > k => k + 1 \in S
        BY <1>0, <3>3, <4>1
      <4>. QED  BY <3>3, <4>1, <4>2
    <3>6. S = 1..k
      <4>. HIDE DEF S
      <4>. QED  BY <3>3, <3>4, <3>5
    <3>. QED  BY <1>0, <3>3, <3>6
  <2>4. m = k
    <3>1. k \in Nat /\ 1 \in Int /\ k \in Int
      BY <1>0
    <3>2. Cardinality(1..k) = k
      BY <3>1, FS_Interval
    <3>. HIDE DEF S
    <3>. QED  BY <2>3, <3>2
  <2>5. /\ k \in Nat /\ k <= Len(l)
        /\ \A i \in 1..k : l[i] < c
        /\ \A i \in (k + 1)..Len(l) : c < l[i]
    <3>1. \A i \in 1..k : i \in S
      BY <2>3
    <3>2. \A i \in 1..k : l[i] < c
      BY <1>0, <3>1
    <3>3. ASSUME k + 1 <= Len(l) PROVE c < l[k + 1]
      <4>1. k + 1 \notin S /\ k + 1 \in 1..Len(l)
        <5>1. k \in Nat /\ Len(l) \in Nat
          BY <1>0
        <5>2. k + 1 \in 1..Len(l) /\ k + 1 \notin 1..k
          BY <3>3, <5>1
        <5>. HIDE DEF S
        <5>. QED  BY <2>3, <5>2
      <4>2. ~(l[k + 1] < c)
        BY <1>0, <3>2, <4>1
      <4>. QED  BY <1>0, <2>2, <4>1, <4>2
    <3>4. ASSUME NEW i \in (k + 1)..Len(l) PROVE c < l[i]
      <4>1. k + 1 <= Len(l) /\ (i = k + 1 \/ l[k + 1] < l[i]) /\ l[i] \in Nat /\ l[k + 1] \in Nat
        BY <1>0, <2>3, <3>4
      <4>. QED  BY <3>3, <4>1
    <3>. QED  BY <1>0, <2>3, <3>2, <3>4
  <2>. HIDE DEF S, m
  <2>6. /\ r \in Seq(Nat) /\ Len(r) = Len(l) + 1
        /\ \A i \in 1..k : r[i] = l[i]
        /\ r[k + 1] = c
        /\ \A i \in (k + 2)..(Len(l) + 1) : r[i] = l[i - 1]
    <3>. DEFINE h == SubSeq(l, 1, k)
                e == SubSeq(l, k + 1, Len(l))
    <3>1. /\ h \in Seq(Nat) /\ Len(h) = k /\ \A i \in 1..k : h[i] = l[i]
          /\ e \in Seq(Nat) /\ Len(e) = Len(l) - k
          /\ \A i \in 1..(Len(l) - k) : e[i] = l[k + i]
      <4>1. (\A i \in 1..k : l[i] \in Nat) /\ \A i \in (k + 1)..Len(l) : l[i] \in Nat
        BY <1>0, <2>5
      <4>2. h \in Seq(Nat) /\ Len(h) = k /\ \A i \in 1..k : h[i] = l[i]
        BY <2>5, <4>1, SubSeqProperties
      <4>3. /\ e \in Seq(Nat) /\ Len(e) = (IF k + 1 <= Len(l) THEN Len(l) - (k + 1) + 1 ELSE 0)
            /\ \A i \in 1..(Len(l) - (k + 1) + 1) : e[i] = l[(k + 1) + i - 1]
        BY <1>0, <2>5, <4>1, SubSeqProperties, SMTT(30)
      <4>. HIDE DEF h, e
      <4>4. Len(e) = Len(l) - k /\ Len(l) - (k + 1) + 1 = Len(l) - k
        <5>1. Len(e) = IF k + 1 <= Len(l) THEN Len(l) - (k + 1) + 1 ELSE 0
          BY <4>3
        <5>2. Len(l) \in Nat /\ k \in Nat /\ k <= Len(l)
          BY <1>0, <2>5
        <5>. QED  BY <5>1, <5>2
      <4>5. \A i \in 1..(Len(l) - k) : (k + 1) + i - 1 = k + i
        BY <1>0, <2>5
      <4>6. \A i \in 1..(Len(l) - k) : e[i] = l[k + i]
        BY <4>3, <4>4, <4>5
      <4>. QED  BY <4>2, <4>3, <4>4, <4>6
    <3>2. r = h \o <<c>> \o e /\ <<c>> \in Seq(Nat) /\ Len(<<c>>) = 1 /\ <<c>>[1] = c
      BY <2>4
    <3>. HIDE DEF h, e, r
    <3>3. h \o <<c>> \in Seq(Nat) /\ Len(h \o <<c>>) = k + 1
          /\ (\A i \in 1..k : (h \o <<c>>)[i] = h[i]) /\ (h \o <<c>>)[k + 1] = c
      <4>1. /\ h \o <<c>> \in Seq(Nat) /\ Len(h \o <<c>>) = k + 1
            /\ \A i \in 1..(k + 1) : (h \o <<c>>)[i] = IF i <= k THEN h[i] ELSE <<c>>[i - k]
        BY <3>1, <3>2, ConcatProperties
      <4>2. k + 1 \in 1..(k + 1) /\ ~(k + 1 <= k) /\ (k + 1) - k = 1 /\ \A i \in 1..k : i \in 1..(k + 1) /\ i <= k
        BY <2>5
      <4>. QED  BY <3>2, <4>1, <4>2
    <3>4. r \in Seq(Nat) /\ Len(r) = Len(l) + 1
          /\ (\A i \in 1..(k + 1) : r[i] = (h \o <<c>>)[i])
          /\ \A i \in (k + 2)..(Len(l) + 1) : r[i] = e[i - (k + 1)]
      <4>. DEFINE q == h \o <<c>>
      <4>1. q \in Seq(Nat) /\ Len(q) = k + 1 /\ r = q \o e /\ Len(e) = Len(l) - k /\ e \in Seq(Nat)
        BY <3>1, <3>2, <3>3
      <4>. HIDE DEF q
      <4>2. /\ r \in Seq(Nat) /\ Len(r) = (k + 1) + (Len(l) - k)
            /\ \A i \in 1..((k + 1) + (Len(l) - k)) : r[i] = IF i <= k + 1 THEN q[i] ELSE e[i - (k + 1)]
        <5>1. /\ q \o e \in Seq(Nat) /\ Len(q \o e) = Len(q) + Len(e)
              /\ \A i \in 1..(Len(q) + Len(e)) : (q \o e)[i] = IF i <= Len(q) THEN q[i] ELSE e[i - Len(q)]
          BY <4>1, ConcatProperties, Zenon
        <5>. QED  BY <4>1, <5>1, Zenon
      <4>3. (k + 1) + (Len(l) - k) = Len(l) + 1 /\ k \in Nat /\ k <= Len(l) /\ Len(l) \in Nat
        BY <1>0, <2>5
      <4>4. \A i \in 1..(Len(l) + 1) : r[i] = IF i <= k + 1 THEN q[i] ELSE e[i - (k + 1)]
        BY <4>2, <4>3
      <4>5. /\ \A i \in 1..(k + 1) : i \in 1..(Len(l) + 1) /\ i <= k + 1
            /\ \A i \in (k + 2)..(Len(l) + 1) : i \in 1..(Len(l) + 1) /\ ~(i <= k + 1)
        BY <4>3
      <4>. QED  BY <4>2, <4>3, <4>4, <4>5 DEF q
    <3>5. \A i \in (k + 2)..(Len(l) + 1) : i - (k + 1) \in 1..(Len(l) - k) /\ k + (i - (k + 1)) = i - 1
      BY <1>0, <2>5
    <3>6. /\ \A i \in 1..k : i \in 1..(k + 1)
          /\ k + 1 \in 1..(k + 1)
      BY <2>5
    <3>7. ASSUME NEW i \in (k + 2)..(Len(l) + 1) PROVE r[i] = l[i - 1]
      <4>1. r[i] = e[i - (k + 1)]
        BY <3>4
      <4>2. e[i - (k + 1)] = l[k + (i - (k + 1))]
        BY <3>1, <3>5
      <4>3. k + (i - (k + 1)) = i - 1
        BY <3>5
      <4>. QED  BY <4>1, <4>2, <4>3
    <3>8. (\A i \in 1..k : r[i] = l[i]) /\ r[k + 1] = c
      BY <3>1, <3>3, <3>4, <3>6
    <3>. QED  BY <3>4, <3>7, <3>8
  <2>. HIDE DEF r
  <2>7. Sorted(r)
    <3>1. ASSUME NEW i \in 1..Len(r), NEW j \in 1..Len(r), i < j PROVE r[i] < r[j]
      <4>1. CASE j <= k
        BY <1>0, <2>5, <2>6, <3>1, <4>1
      <4>2. CASE j = k + 1
        BY <1>0, <2>5, <2>6, <3>1, <4>2
      <4>3. CASE j > k + 1
        <5>1. r[j] = l[j - 1] /\ j - 1 \in (k + 1)..Len(l)
          BY <1>0, <2>5, <2>6, <3>1, <4>3
        <5>2. CASE i <= k
          <6>1. r[i] = l[i] /\ l[i] < c /\ c < l[j - 1] /\ l[i] \in Nat /\ l[j - 1] \in Nat
            <7>1. i \in 1..k /\ i \in 1..Len(l) /\ j - 1 \in 1..Len(l)
              BY <1>0, <2>5, <2>6, <5>1, <5>2
            <7>2. r[i] = l[i] /\ l[i] < c
              BY <2>5, <2>6, <7>1
            <7>3. c < l[j - 1]
              BY <2>5, <5>1
            <7>. QED  BY <1>0, <7>1, <7>2, <7>3
          <6>. QED  BY <5>1, <6>1
        <5>3. CASE i = k + 1
          BY <1>0, <2>5, <2>6, <3>1, <4>3, <5>1, <5>3
        <5>4. CASE i > k + 1
          <6>1. r[i] = l[i - 1] /\ i - 1 \in 1..Len(l) /\ j - 1 \in 1..Len(l) /\ i - 1 < j - 1
            BY <1>0, <2>5, <2>6, <3>1, <4>3, <5>1, <5>4
          <6>. QED  BY <1>0, <5>1, <6>1
        <5>. QED  BY <1>0, <2>5, <3>1, <5>2, <5>3, <5>4
      <4>. QED  BY <2>5, <2>6, <3>1, <4>1, <4>2, <4>3
    <3>. QED  BY <2>6, <3>1 DEF Sorted
  <2>8. Range(r) = Range(l) \cup {c}
    <3>1. Range(r) = {r[i] : i \in 1..(Len(l) + 1)} /\ Range(l) = {l[i] : i \in 1..Len(l)}
      <4>1. DOMAIN r = 1..(Len(l) + 1)
        BY <1>0, <2>6
      <4>. QED  BY <1>0, <4>1 DEF Range
    <3>2. \A i \in 1..(Len(l) + 1) : r[i] \in Range(l) \cup {c}
      <4>. TAKE i \in 1..(Len(l) + 1)
      <4>1. CASE i <= k
        BY <1>0, <2>5, <2>6, <3>1, <4>1
      <4>2. CASE i = k + 1
        BY <2>6, <4>2
      <4>3. CASE i > k + 1
        <5>1. i \in (k + 2)..(Len(l) + 1) /\ i - 1 \in 1..Len(l)
          BY <1>0, <2>5, <4>3
        <5>. QED  BY <2>6, <3>1, <5>1
      <4>. QED  BY <1>0, <2>5, <4>1, <4>2, <4>3
    <3>3. \A i \in 1..Len(l) : l[i] \in Range(r)
      <4>. TAKE i \in 1..Len(l)
      <4>1. CASE i <= k
        BY <1>0, <2>5, <2>6, <3>1, <4>1
      <4>2. CASE i > k
        <5>1. i + 1 \in (k + 2)..(Len(l) + 1) /\ (i + 1) - 1 = i /\ i + 1 \in 1..(Len(l) + 1)
          BY <1>0, <2>5, <4>2
        <5>2. r[i + 1] = l[i]
          BY <2>6, <5>1
        <5>. QED  BY <3>1, <5>1, <5>2
      <4>. QED  BY <2>5, <4>1, <4>2
    <3>4. c \in Range(r)
      <4>1. k + 1 \in 1..(Len(l) + 1)
        BY <1>0, <2>5
      <4>. QED  BY <2>6, <3>1, <4>1
    <3>. QED  BY <3>1, <3>2, <3>3, <3>4
  <2>. QED  BY <2>1, <2>7, <2>8
<1>. QED  BY <1>1, <1>2

-----------------------------------------------------------------------------
(* Paths *)

\* the first chunks of p, up to n of them
Starts(p, n) == {SubSeq(p, 1, i) : i \in 0..n}

\* the starts of a pointer, and the edges between them
LEMMA StartsAre ==
  ASSUME NEW p \in Seq(Nat), NEW n \in Int, n <= Len(p)
  PROVE  /\ \A x : x \in Starts(p, n) <=> x \in Seq(Nat) /\ Len(x) <= n /\ x = SubSeq(p, 1, Len(x))
         /\ \A x \in Seq(Nat), c \in Nat : Append(x, c) \in Starts(p, n) <=>
              x \in Starts(p, n - 1) /\ c = p[Len(x) + 1]
<1>1. \A m \in Int : m <= Len(p) => \A x : x \in Starts(p, m) <=>
        x \in Seq(Nat) /\ Len(x) <= m /\ x = SubSeq(p, 1, Len(x))
  <2>. SUFFICES ASSUME NEW m \in Int, m <= Len(p), NEW x
                PROVE  x \in Starts(p, m) <=>
                         x \in Seq(Nat) /\ Len(x) <= m /\ x = SubSeq(p, 1, Len(x))
    OBVIOUS
  <2>1. \A i \in 0..m : SubSeq(p, 1, i) \in Seq(Nat) /\ Len(SubSeq(p, 1, i)) = i
    OBVIOUS
  <2>2. ASSUME x \in Starts(p, m)
        PROVE  x \in Seq(Nat) /\ Len(x) <= m /\ x = SubSeq(p, 1, Len(x))
    <3>1. PICK i \in 0..m : x = SubSeq(p, 1, i)
      BY <2>2 DEF Starts
    <3>. QED  BY <2>1, <3>1
  <2>3. ASSUME x \in Seq(Nat), Len(x) <= m, x = SubSeq(p, 1, Len(x))
        PROVE  x \in Starts(p, m)
    <3>1. Len(x) \in 0..m
      BY <2>3
    <3>. QED  BY <2>3, <3>1 DEF Starts
  <2>. QED  BY <2>2, <2>3
<1>2. ASSUME NEW x \in Seq(Nat), NEW c \in Nat
      PROVE  Append(x, c) \in Starts(p, n) <=> x \in Starts(p, n - 1) /\ c = p[Len(x) + 1]
  <2>1. Append(x, c) \in Seq(Nat) /\ Len(Append(x, c)) = Len(x) + 1 /\ Len(x) \in Nat
    OBVIOUS
  <2>2. ASSUME Len(x) + 1 <= n
        PROVE  Append(x, c) = SubSeq(p, 1, Len(x) + 1) <=>
                 x = SubSeq(p, 1, Len(x)) /\ c = p[Len(x) + 1]
    <3>1. /\ SubSeq(p, 1, Len(x) + 1) \in Seq(Nat) /\ Len(SubSeq(p, 1, Len(x) + 1)) = Len(x) + 1
          /\ SubSeq(p, 1, Len(x)) \in Seq(Nat) /\ Len(SubSeq(p, 1, Len(x))) = Len(x)
          /\ \A i \in 1..(Len(x) + 1) : SubSeq(p, 1, Len(x) + 1)[i] = p[i]
          /\ \A i \in 1..Len(x) : SubSeq(p, 1, Len(x))[i] = p[i]
      <4>1. \A i \in 0..Len(p) : SubSeq(p, 1, i) \in Seq(Nat) /\ Len(SubSeq(p, 1, i)) = i
                                 /\ \A j \in 1..i : SubSeq(p, 1, i)[j] = p[j]
        OBVIOUS
      <4>2. Len(x) \in 0..Len(p) /\ Len(x) + 1 \in 0..Len(p)
        BY <2>1, <2>2
      <4>. HIDE <2>2
      <4>. QED  BY <4>1, <4>2
    <3>2. Append(x, c)[Len(x) + 1] = c /\ \A i \in 1..Len(x) : Append(x, c)[i] = x[i]
      OBVIOUS
    <3>3. ASSUME Append(x, c) = SubSeq(p, 1, Len(x) + 1)
          PROVE  x = SubSeq(p, 1, Len(x)) /\ c = p[Len(x) + 1]
      <4>1. \A i \in 1..Len(x) : x[i] = p[i]
        BY <3>1, <3>2, <3>3
      <4>2. c = p[Len(x) + 1]
        BY <2>1, <3>1, <3>2, <3>3
      <4>. QED  BY <3>1, <4>1, <4>2
    <3>4. ASSUME x = SubSeq(p, 1, Len(x)), c = p[Len(x) + 1]
          PROVE  Append(x, c) = SubSeq(p, 1, Len(x) + 1)
      <4>1. \A i \in 1..Len(x) : x[i] = p[i]
        BY <3>1, <3>4
      <4>2. \A i \in 1..(Len(x) + 1) : Append(x, c)[i] = SubSeq(p, 1, Len(x) + 1)[i]
        BY <2>1, <3>1, <3>2, <3>4, <4>1
      <4>. QED  BY <2>1, <3>1, <4>2
    <3>. QED  BY <3>3, <3>4
  <2>3. Append(x, c) \in Starts(p, n) <=>
          Len(x) + 1 <= n /\ Append(x, c) = SubSeq(p, 1, Len(x) + 1)
    BY <1>1, <2>1
  <2>4. x \in Starts(p, n - 1) <=> Len(x) + 1 <= n /\ x = SubSeq(p, 1, Len(x))
    <3>1. n - 1 \in Int /\ n - 1 <= Len(p)
      OBVIOUS
    <3>2. x \in Starts(p, n - 1) <=> Len(x) <= n - 1 /\ x = SubSeq(p, 1, Len(x))
      BY <1>1, <3>1
    <3>. QED  BY <2>1, <3>2
  <2>. QED  BY <2>2, <2>3, <2>4
<1>. QED  BY <1>1, <1>2

-----------------------------------------------------------------------------
(* The inductive invariant *)

\* what a node of kind k keeps
Keeps(k, n) ==
  CASE k = "list" -> Sorted(n)
    [] k = "dynarr" -> \/ n = [v |-> <<>>, cap |-> 0]
                       \/ \E c \in Nat : n = [v |-> <<c>>, cap |-> 1]
    [] k = "bst" -> IsTree(n) /\ Kids(n) \subseteq Nat
    [] OTHER -> TRUE

\* its kids, and the blocks it has allocated for them
Stored(k, n) == CASE k = "list" -> Range(n)
                  [] k = "dynarr" -> Range(n.v)
                  [] k = "bst" -> Kids(n)
                  [] OTHER -> {}

Owned(k, n) == IF k = "dynarr" THEN (IF n.cap > 0 THEN {NULL} ELSE {}) ELSE Stored(k, n)

\* a pointer that is being added has the nodes above Made chunks, and the
\* edges up to there
Growing == pc \in {"adding", "fixing"}
Made == IF pc = "fixing" THEN Len(at) + 1 ELSE Len(at)
Whole == UNION {Starts(p, ADDR_LEN) : p \in added}
Nodes == Whole \cup IF Growing THEN Starts(arg, Made - 1) ELSE {}
Edges == Whole \cup IF Growing THEN Starts(arg, Made) ELSE {}

Live == pc \in {"idle", "has", "adding", "fixing"}

\* where the call is: it adds a new pointer and is at a start of it
PlaceInv ==
  /\ kind \in Kinds /\ added \subseteq Ptrs[kind]
  /\ pc \in {"idle", "has", "adding", "fixing", "died", "crashed", "overrun", "freed"}
  /\ asked # <<>> <=> pc = "has"
  /\ Growing => /\ arg \in Ptrs[kind] /\ arg \notin added
                /\ at \in Seq(Nat) /\ Len(at) <= ADDR_LEN /\ at = SubSeq(arg, 1, Len(at))
  /\ pc = "fixing" => /\ kind = "bst" /\ Len(at) < ADDR_LEN
                      /\ at \in DOMAIN node /\ fix \in Kids(node[at])
  /\ pc = "freed" => node = <<>> /\ heap = {} /\ added = {}

\* each node keeps its kids as its kind does; kids and root are one but
\* while kid_fix() works at the node
NodesInv ==
  \A x \in DOMAIN node :
    /\ Keeps(kind, node[x])
    /\ kind = "bst" /\ ~(pc \in {"fixing", "crashed"} /\ x = at) => node[x].kids = node[x].root

\* the nodes and edges are the starts of the pointers that were added
PathsInv ==
  Live =>
    /\ DOMAIN node = Nodes
    /\ kind # "fixset" => \A x \in DOMAIN node :
         Stored(kind, node[x]) = {c \in Nat : Append(x, c) \in Edges}

\* the blocks are those of the nodes and of what they keep
HeapInv ==
  Live => heap = {<<x>> : x \in DOMAIN node}
                   \cup UNION {{<<x, c>> : c \in Owned(kind, node[x])} : x \in DOMAIN node}

TrieInv == PlaceInv /\ NodesInv /\ PathsInv /\ HeapInv

\* one chunk further
LEMMA StartsGrow ==
  ASSUME NEW p \in Seq(Nat), NEW n \in 0..Len(p)
  PROVE  /\ Starts(p, n) = Starts(p, n - 1) \cup {SubSeq(p, 1, n)}
         /\ SubSeq(p, 1, n) \in Seq(Nat) /\ Len(SubSeq(p, 1, n)) = n
         /\ n < Len(p) => SubSeq(p, 1, n + 1) = Append(SubSeq(p, 1, n), p[n + 1])
         /\ n = Len(p) => SubSeq(p, 1, n) = p
<1>1. SubSeq(p, 1, n) \in Seq(Nat) /\ Len(SubSeq(p, 1, n)) = n
  OBVIOUS
<1>2. Starts(p, n) = Starts(p, n - 1) \cup {SubSeq(p, 1, n)}
  <2>1. n \in Nat /\ 0..n = (0..(n - 1)) \cup {n}
    OBVIOUS
  <2>. QED  BY <2>1 DEF Starts
<1>3. ASSUME n < Len(p) PROVE SubSeq(p, 1, n + 1) = Append(SubSeq(p, 1, n), p[n + 1])
  <2>. DEFINE x == SubSeq(p, 1, n)
  <2>1. n \in Int /\ n + 1 \in Int /\ n + 1 <= Len(p) /\ n <= Len(p) /\ (n + 1) - 1 = n /\ p[n + 1] \in Nat
    BY <1>3
  <2>2. x \in Starts(p, n)
    BY DEF Starts
  <2>. HIDE DEF x
  <2>3. x \in Seq(Nat) /\ Len(x) = n
    BY <1>1 DEF x
  <2>4. Append(x, p[n + 1]) \in Starts(p, n + 1)
    BY <2>1, <2>2, <2>3, StartsAre
  <2>5. Append(x, p[n + 1]) = SubSeq(p, 1, Len(Append(x, p[n + 1])))
    BY <2>1, <2>4, StartsAre
  <2>6. Len(Append(x, p[n + 1])) = n + 1
    BY <2>1, <2>3
  <2>. QED  BY <2>5, <2>6 DEF x
<1>4. ASSUME n = Len(p) PROVE SubSeq(p, 1, n) = p
  BY <1>4, SubSeqFull
<1>. QED  BY <1>1, <1>2, <1>3, <1>4

\* the pointers and the paths of those that were added
LEMMA WholeIs ==
  ASSUME TrieAssumption, PlaceInv
  PROVE  /\ \A p \in added : p \in Seq(Nat) /\ Len(p) = ADDR_LEN
         /\ ADDR_LEN \in Nat /\ ADDR_LEN > 0
         /\ \A x \in Whole : x \in Seq(Nat) /\ Len(x) <= ADDR_LEN /\ (Len(x) = ADDR_LEN => x \in added)
         /\ \A x \in Seq(Nat), c \in Nat : Append(x, c) \in Whole => x \in Whole
         /\ \A p \in added : Starts(p, ADDR_LEN) \subseteq Whole
<1>1. \A p \in added : p \in Seq(Nat) /\ Len(p) = ADDR_LEN
  BY DEF TrieAssumption, PlaceInv
<1>2. ADDR_LEN \in Nat /\ ADDR_LEN > 0
  BY DEF TrieAssumption
<1>3. ASSUME NEW x \in Whole
      PROVE  x \in Seq(Nat) /\ Len(x) <= ADDR_LEN /\ (Len(x) = ADDR_LEN => x \in added)
  <2>1. PICK p \in added : x \in Starts(p, ADDR_LEN)
    BY <1>3 DEF Whole
  <2>2. p \in Seq(Nat) /\ Len(p) = ADDR_LEN /\ ADDR_LEN \in Int
    BY <1>1, <1>2
  <2>3. x \in Seq(Nat) /\ Len(x) <= ADDR_LEN /\ x = SubSeq(p, 1, Len(x))
    BY <2>1, <2>2, StartsAre
  <2>4. SubSeq(p, 1, Len(p)) = p
    BY <2>2, SubSeqFull
  <2>. QED  BY <2>2, <2>3, <2>4
<1>4. ASSUME NEW x \in Seq(Nat), NEW c \in Nat, Append(x, c) \in Whole PROVE x \in Whole
  <2>1. PICK p \in added : Append(x, c) \in Starts(p, ADDR_LEN)
    BY <1>4 DEF Whole
  <2>2. p \in Seq(Nat) /\ Len(p) = ADDR_LEN /\ ADDR_LEN \in Int /\ ADDR_LEN - 1 \in Int
    BY <1>1, <1>2
  <2>3. x \in Starts(p, ADDR_LEN - 1)
    BY <2>1, <2>2, StartsAre
  <2>4. Starts(p, ADDR_LEN - 1) \subseteq Starts(p, ADDR_LEN)
    BY <1>2 DEF Starts
  <2>. QED  BY <2>1, <2>3, <2>4 DEF Whole
<1>5. \A p \in added : Starts(p, ADDR_LEN) \subseteq Whole
  BY DEF Whole
<1>. QED  BY <1>1, <1>2, <1>3, <1>4, <1>5

\* where the call is, in a round
LEMMA PathsHere ==
  ASSUME TrieAssumption, PlaceInv, pc = "adding"
  PROVE  /\ at \in Seq(Nat) /\ arg \in Seq(Nat) /\ Len(arg) = ADDR_LEN /\ Len(at) \in 0..Len(arg)
         /\ at \notin Nodes => \A c \in Nat : Append(at, c) \notin Edges
         /\ Nodes \subseteq Seq(Nat)
         /\ Whole \cup Starts(arg, Len(at)) = Nodes \cup {at}
         /\ Len(at) = ADDR_LEN => at = arg /\ at \notin Nodes
         /\ Len(at) < ADDR_LEN =>
              /\ Chunk \in Nat /\ Append(at, Chunk) = SubSeq(arg, 1, Len(at) + 1)
              /\ Whole \cup Starts(arg, Len(at) + 1) = Edges \cup {Append(at, Chunk)}
<1>1. /\ at \in Seq(Nat) /\ arg \in Seq(Nat) /\ Len(arg) = ADDR_LEN /\ Len(at) \in 0..Len(arg)
      /\ at = SubSeq(arg, 1, Len(at)) /\ arg \notin added
  BY DEF TrieAssumption, PlaceInv, Growing
<1>2. Nodes = Whole \cup Starts(arg, Len(at) - 1) /\ Edges = Whole \cup Starts(arg, Len(at))
  BY DEF Nodes, Edges, Growing, Made
<1>3. /\ Starts(arg, Len(at)) = Starts(arg, Len(at) - 1) \cup {at}
      /\ Len(at) < Len(arg) => SubSeq(arg, 1, Len(at) + 1) = Append(at, arg[Len(at) + 1])
  <2>. DEFINE n == Len(at)
  <2>1. n \in 0..Len(arg) /\ at = SubSeq(arg, 1, n) /\ arg \in Seq(Nat)
    BY <1>1
  <2>. HIDE DEF n
  <2>2. /\ Starts(arg, n) = Starts(arg, n - 1) \cup {SubSeq(arg, 1, n)}
        /\ n < Len(arg) => SubSeq(arg, 1, n + 1) = Append(SubSeq(arg, 1, n), arg[n + 1])
    BY <2>1, StartsGrow
  <2>3. /\ Starts(arg, n) = Starts(arg, n - 1) \cup {at}
        /\ n < Len(arg) => SubSeq(arg, 1, n + 1) = Append(at, arg[n + 1])
    BY <2>1, <2>2, Zenon
  <2>. QED  BY <2>3 DEF n
<1>4. Whole \cup Starts(arg, Len(at)) = Nodes \cup {at}
  BY <1>2, <1>3
<1>5. /\ Len(at) \in Int /\ Len(at) - 1 \in Int /\ Len(at) <= Len(arg) /\ Len(at) - 1 <= Len(arg)
      /\ ~(Len(at) <= Len(at) - 1)
  BY <1>1
<1>6. /\ \A x \in Starts(arg, Len(at) - 1) : x \in Seq(Nat) /\ Len(x) <= Len(at) - 1
      /\ \A c \in Nat : Append(at, c) \in Starts(arg, Len(at)) => at \in Starts(arg, Len(at) - 1)
  BY <1>1, <1>5, StartsAre
<1>7. ASSUME at \notin Nodes PROVE \A c \in Nat : Append(at, c) \notin Edges
  BY <1>1, <1>2, <1>6, <1>7, WholeIs
<1>8. Nodes \subseteq Seq(Nat)
  BY <1>2, <1>6, WholeIs
<1>9. ASSUME Len(at) = ADDR_LEN PROVE at = arg /\ at \notin Nodes
  <2>1. at = arg
    BY <1>1, <1>9, SubSeqFull
  <2>2. at \notin Starts(arg, Len(at) - 1)
    BY <1>5, <1>6
  <2>3. at \notin Whole
    BY <1>1, <1>9, <2>1, WholeIs
  <2>. QED  BY <1>2, <2>1, <2>2, <2>3
<1>10. ASSUME Len(at) < ADDR_LEN
       PROVE  /\ Chunk \in Nat /\ Append(at, Chunk) = SubSeq(arg, 1, Len(at) + 1)
              /\ Whole \cup Starts(arg, Len(at) + 1) = Edges \cup {Append(at, Chunk)}
  <2>1. Len(at) + 1 \in 0..Len(arg) /\ Len(at) < Len(arg) /\ (Len(at) + 1) - 1 = Len(at)
        /\ Len(at) + 1 \in 1..Len(arg)
    BY <1>1, <1>10
  <2>2. Chunk \in Nat
    BY <1>1, <2>1 DEF Chunk
  <2>3. Append(at, Chunk) = SubSeq(arg, 1, Len(at) + 1)
    BY <1>3, <2>1 DEF Chunk
  <2>4. Starts(arg, Len(at) + 1) = Starts(arg, Len(at)) \cup {SubSeq(arg, 1, Len(at) + 1)}
    <3>. DEFINE n == Len(at) + 1
    <3>1. n \in 0..Len(arg) /\ n - 1 = Len(at)
      BY <2>1
    <3>. HIDE DEF n
    <3>2. Starts(arg, n) = Starts(arg, n - 1) \cup {SubSeq(arg, 1, n)}
      BY <1>1, <3>1, StartsGrow
    <3>. QED  BY <3>1, <3>2 DEF n
  <2>. QED  BY <1>2, <2>2, <2>3, <2>4
<1>. QED  BY <1>1, <1>4, <1>7, <1>8, <1>9, <1>10

\* a new node has no kids
LEMMA ZeroedIs ==
  ASSUME TrieAssumption, kind \in Kinds
  PROVE  /\ Keeps(kind, Zeroed(kind)) /\ Stored(kind, Zeroed(kind)) = {} /\ Owned(kind, Zeroed(kind)) = {}
         /\ kind = "bst" => Zeroed(kind).kids = Zeroed(kind).root
<1>1. kind \in {"fixset", "list", "dynarr", "bst"}
  BY DEF TrieAssumption
<1>2. CASE kind = "fixset"
  BY <1>2 DEF Keeps, Stored, Owned
<1>3. CASE kind = "list"
  <2>1. Zeroed(kind) = <<>>
    BY <1>3 DEF Zeroed
  <2>2. Sorted(<<>>) /\ Range(<<>>) = {}
    BY DEF Sorted, Range
  <2>. QED  BY <1>3, <2>1, <2>2 DEF Keeps, Stored, Owned
<1>4. CASE kind = "dynarr"
  <2>1. Zeroed(kind) = [v |-> <<>>, cap |-> 0]
    BY <1>4 DEF Zeroed
  <2>2. Range(<<>>) = {} /\ Zeroed(kind).v = <<>> /\ Zeroed(kind).cap = 0
    BY <2>1 DEF Range
  <2>. QED  BY <1>4, <2>1, <2>2 DEF Keeps, Stored, Owned
<1>5. CASE kind = "bst"
  <2>1. Zeroed(kind) = EmptyTree /\ NULL \notin Int
    BY <1>5 DEF Zeroed, TrieAssumption
  <2>2. IsTree(EmptyTree) /\ EmptyTree.kids = EmptyTree.root /\ Kids(EmptyTree) = {}
    BY <2>1, EmptyIsTree DEF Settled
  <2>. QED  BY <1>5, <2>1, <2>2 DEF Keeps, Stored, Owned
<1>. QED  BY <1>1, <1>2, <1>3, <1>4, <1>5

\* what is known of the node that a round finds or makes
LEMMA NodeHereIs ==
  ASSUME TrieAssumption, TrieInv, pc = "adding"
  PROVE  /\ Keeps(kind, NodeHere)
         /\ kind = "bst" => NodeHere.kids = NodeHere.root
         /\ kind # "fixset" => Stored(kind, NodeHere) = {c \in Nat : Append(at, c) \in Edges}
         /\ at \notin DOMAIN node => Owned(kind, NodeHere) = {}
         /\ at \in DOMAIN node => NodeHere = node[at]
         /\ DOMAIN node = Nodes
<1>1. PlaceInv /\ NodesInv /\ Live /\ DOMAIN node = Nodes /\ kind \in Kinds
  BY DEF TrieInv, PathsInv, Live, PlaceInv
<1>2. CASE at \in DOMAIN node
  <2>1. NodeHere = node[at]
    BY <1>2 DEF NodeHere
  <2>. QED  BY <1>1, <1>2, <2>1 DEF NodesInv, TrieInv, PathsInv
<1>3. CASE at \notin DOMAIN node
  <2>1. NodeHere = Zeroed(kind)
    BY <1>3 DEF NodeHere
  <2>2. \A c \in Nat : Append(at, c) \notin Edges
    BY <1>1, <1>3, PathsHere
  <2>. QED  BY <1>1, <1>3, <2>1, <2>2, ZeroedIs
<1>. QED  BY <1>2, <1>3

\* a step that keeps k in the node it is at, with the kid blocks K
LEMMA KeepPaths ==
  ASSUME TrieAssumption, TrieInv, pc = "adding", NEW k, NEW K, Keep(k, K), kind' = kind,
         NEW new \in SUBSET Nat,
         \A x \in Seq(Nat), c \in Nat :
           Append(x, c) \in Edges' <=> Append(x, c) \in Edges \/ (x = at /\ c \in new),
         Nodes' = Nodes \cup {at},
         kind # "fixset" => Stored(kind, k) = Stored(kind, NodeHere) \cup new,
         Owned(kind, k) = Owned(kind, NodeHere) \cup K
  PROVE  PathsInv' /\ HeapInv' /\ DOMAIN node' = DOMAIN node \cup {at} /\ node'[at] = k
         /\ \A x \in DOMAIN node \ {at} : node'[x] = node[x]
<1>1. /\ DOMAIN node' = DOMAIN node \cup {at} /\ node'[at] = k
      /\ \A x \in DOMAIN node \ {at} : node'[x] = node[x]
      /\ heap' = heap \cup {<<at>>} \cup {<<at, c>> : c \in K}
  BY DEF Keep
<1>2. /\ DOMAIN node = Nodes /\ Nodes \subseteq Seq(Nat) /\ at \in Seq(Nat)
      /\ kind # "fixset" => Stored(kind, NodeHere) = {c \in Nat : Append(at, c) \in Edges}
      /\ at \notin DOMAIN node => Owned(kind, NodeHere) = {}
      /\ at \in DOMAIN node => NodeHere = node[at]
  BY NodeHereIs, PathsHere DEF TrieInv
<1>3. PathsInv'
  <2>1. ASSUME kind # "fixset", NEW x \in DOMAIN node'
        PROVE  Stored(kind, node'[x]) = {c \in Nat : Append(x, c) \in Edges'}
    <3>1. CASE x = at
      BY <1>1, <1>2, <2>1, <3>1
    <3>2. CASE x # at
      <4>1. Stored(kind, node[x]) = {c \in Nat : Append(x, c) \in Edges}
        BY <1>1, <2>1, <3>2 DEF TrieInv, PathsInv, Live
      <4>. QED  BY <1>1, <1>2, <2>1, <3>2, <4>1
    <3>. QED  BY <3>1, <3>2
  <2>. QED  BY <1>1, <1>2, <2>1 DEF PathsInv
<1>4. HeapInv'
  <2>1. heap = {<<x>> : x \in DOMAIN node}
                   \cup UNION {{<<x, c>> : c \in Owned(kind, node[x])} : x \in DOMAIN node}
    BY DEF TrieInv, HeapInv, Live
  <2>2. SUFFICES heap' = {<<x>> : x \in DOMAIN node'}
                   \cup UNION {{<<x, c>> : c \in Owned(kind, node'[x])} : x \in DOMAIN node'}
    BY DEF HeapInv
  <2>3. {<<x>> : x \in DOMAIN node'} = {<<x>> : x \in DOMAIN node} \cup {<<at>>}
    BY <1>1
  <2>. DEFINE B(n) == UNION {{<<x, c>> : c \in Owned(kind, n[x])} : x \in DOMAIN n}
  <2>4. B(node') = B(node) \cup {<<at, c>> : c \in K}
    <3>1. \A b : b \in B(node) <=> \E x \in DOMAIN node : \E c \in Owned(kind, node[x]) : b = <<x, c>>
      OBVIOUS
    <3>2. \A b : b \in B(node') <=> \E x \in DOMAIN node' : \E c \in Owned(kind, node'[x]) : b = <<x, c>>
      OBVIOUS
    <3>. HIDE DEF B
    <3>3. Owned(kind, node'[at]) = Owned(kind, NodeHere) \cup K
      BY <1>1
    <3>4. ASSUME NEW b \in B(node) PROVE b \in B(node')
      <4>1. PICK x \in DOMAIN node : \E c \in Owned(kind, node[x]) : b = <<x, c>>
        BY <3>1, <3>4
      <4>2. Owned(kind, node[x]) \subseteq Owned(kind, node'[x]) /\ x \in DOMAIN node'
        BY <1>1, <1>2, <3>3
      <4>. QED  BY <3>2, <4>1, <4>2
    <3>5. ASSUME NEW c \in K PROVE <<at, c>> \in B(node')
      BY <1>1, <3>2, <3>3, <3>5
    <3>6. ASSUME NEW b \in B(node'), b \notin {<<at, c>> : c \in K} PROVE b \in B(node)
      <4>0. PICK x \in DOMAIN node' : \E c \in Owned(kind, node'[x]) : b = <<x, c>>
        BY <3>2, <3>6
      <4>1. PICK c \in Owned(kind, node'[x]) : b = <<x, c>>
        BY <4>0
      <4>2. x \in DOMAIN node /\ c \in Owned(kind, node[x])
        BY <1>1, <1>2, <3>3, <3>6, <4>1
      <4>. QED  BY <3>1, <4>1, <4>2
    <3>. QED  BY <3>4, <3>5, <3>6
  <2>. HIDE DEF B
  <2>5. heap = {<<x>> : x \in DOMAIN node} \cup B(node)
    BY <2>1 DEF B
  <2>6. heap' = {<<x>> : x \in DOMAIN node'} \cup B(node')
    BY <1>1, <2>3, <2>4, <2>5
  <2>. QED  BY <2>6 DEF B
<1>. QED  BY <1>1, <1>3, <1>4

-----------------------------------------------------------------------------
(* The steps *)

\* the paths behind a round
LEMMA RoundPaths ==
  ASSUME TrieAssumption, TrieInv, pc = "adding", Len(at) < ADDR_LEN,
         added' = added, arg' = arg, Growing', Made' = Len(at) + 1
  PROVE  /\ Nodes' = Nodes \cup {at} /\ Chunk \in Nat /\ at \in Seq(Nat)
         /\ Edges' = Edges \cup {Append(at, Chunk)}
         /\ \A x \in Seq(Nat), c \in Nat :
              Append(x, c) \in Edges' <=> Append(x, c) \in Edges \/ (x = at /\ c \in {Chunk})
         /\ {Chunk} \in SUBSET Nat
<1>1. /\ at \in Seq(Nat) /\ Chunk \in Nat
      /\ Whole \cup Starts(arg, Len(at)) = Nodes \cup {at}
      /\ Whole \cup Starts(arg, Len(at) + 1) = Edges \cup {Append(at, Chunk)}
  BY PathsHere DEF TrieInv
<1>2. Whole' = Whole /\ (Len(at) + 1) - 1 = Len(at)
  BY <1>1 DEF Whole
<1>3. Nodes' = Nodes \cup {at} /\ Edges' = Edges \cup {Append(at, Chunk)}
  BY <1>1, <1>2 DEF Nodes, Edges
<1>4. ASSUME NEW x \in Seq(Nat), NEW c \in Nat
      PROVE  Append(x, c) = Append(at, Chunk) <=> x = at /\ c = Chunk
  BY <1>1, AppendInjective, SMTT(30)
<1>. QED  BY <1>1, <1>3, <1>4

\* where a call goes on at the next chunk
LEMMA GoPlace ==
  ASSUME TrieAssumption, TrieInv, pc \in {"adding", "fixing"}, Len(at) < ADDR_LEN,
         Go, pc' = "adding", UNCHANGED <<kind, arg, added, asked>>
  PROVE  PlaceInv' /\ Growing' /\ Made' = Len(at) + 1
<1>1. /\ at \in Seq(Nat) /\ arg \in Seq(Nat) /\ Len(arg) = ADDR_LEN /\ at = SubSeq(arg, 1, Len(at))
      /\ arg \in Ptrs[kind] /\ arg \notin added
  BY DEF TrieInv, PlaceInv, Growing, TrieAssumption
<1>2. Len(at) \in 0..Len(arg) /\ Len(at) + 1 \in 1..Len(arg) /\ Len(at) \in Nat /\ Len(at) < Len(arg)
  BY <1>1
<1>3. SubSeq(arg, 1, Len(at) + 1) = Append(at, Chunk)
  <2>. DEFINE n == Len(at)
  <2>1. n \in 0..Len(arg) /\ at = SubSeq(arg, 1, n) /\ arg \in Seq(Nat) /\ n < Len(arg)
    BY <1>1, <1>2
  <2>. HIDE DEF n
  <2>2. SubSeq(arg, 1, n + 1) = Append(SubSeq(arg, 1, n), arg[n + 1])
    BY <2>1, StartsGrow
  <2>3. SubSeq(arg, 1, n + 1) = Append(at, arg[n + 1])
    BY <2>1, <2>2, Zenon
  <2>. QED  BY <2>3 DEF n, Chunk
<1>4. Chunk \in Nat
  BY <1>1, <1>2 DEF Chunk
<1>5. at' \in Seq(Nat) /\ Len(at') = Len(at) + 1
  BY <1>1, <1>4 DEF Go
<1>6. at' = SubSeq(arg, 1, Len(at'))
  BY <1>3, <1>5 DEF Go
<1>7. Growing' /\ Made' = Len(at) + 1
  BY <1>5 DEF Growing, Made
<1>8. kind \in Kinds /\ added \subseteq Ptrs[kind] /\ asked = <<>>
  BY DEF TrieInv, PlaceInv
<1>. QED  BY <1>1, <1>2, <1>5, <1>6, <1>7, <1>8 DEF PlaceInv, Growing

LEMMA FixsetStep ==
  ASSUME TrieAssumption, TrieInv, FixsetRound
  PROVE  TrieInv'
<1>1. /\ pc = "adding" /\ pc' = "adding" /\ kind = "fixset" /\ Len(at) < ADDR_LEN
      /\ Keep(<<>>, {}) /\ Go /\ UNCHANGED <<kind, arg, added, asked>>
  BY DEF FixsetRound, Round
<1>2. PlaceInv' /\ Growing' /\ Made' = Len(at) + 1
  BY <1>1, GoPlace
<1>3. Owned(kind, <<>>) = Owned(kind, NodeHere) \cup {}
  BY <1>1 DEF Owned, Stored
<1>4. /\ PathsInv' /\ HeapInv'
  <2>. DEFINE k == <<>>
              K == {}
  <2>1. Keep(k, K) /\ Owned(kind, k) = Owned(kind, NodeHere) \cup K
    BY <1>1, <1>3
  <2>. HIDE DEF k, K
  <2>. QED  BY <1>1, <1>2, <2>1, RoundPaths, KeepPaths
<1>5. NodesInv'
  BY <1>1 DEF NodesInv, Keeps
<1>. QED  BY <1>2, <1>4, <1>5 DEF TrieInv

LEMMA ListStep ==
  ASSUME TrieAssumption, TrieInv, ListRound
  PROVE  TrieInv'
<1>. DEFINE l == Placed(NodeHere, Chunk)
<1>1. /\ pc = "adding" /\ pc' = "adding" /\ kind = "list" /\ Len(at) < ADDR_LEN
      /\ Keep(l, {Chunk}) /\ Go /\ UNCHANGED <<kind, arg, added, asked>>
  BY DEF ListRound, Round
<1>2. PlaceInv' /\ Growing' /\ Made' = Len(at) + 1
  BY <1>1, GoPlace
<1>3. Sorted(NodeHere) /\ Chunk \in Nat
  BY <1>1, <1>2, NodeHereIs, RoundPaths DEF Keeps
<1>4. Sorted(l) /\ Range(l) = Range(NodeHere) \cup {Chunk}
  BY <1>3, PlacedSorts
<1>. HIDE DEF l
<1>5. /\ Stored(kind, l) = Stored(kind, NodeHere) \cup {Chunk}
      /\ Owned(kind, l) = Owned(kind, NodeHere) \cup {Chunk}
  BY <1>1, <1>4 DEF Stored, Owned
<1>6. /\ PathsInv' /\ HeapInv' /\ DOMAIN node' = DOMAIN node \cup {at} /\ node'[at] = l
      /\ \A x \in DOMAIN node \ {at} : node'[x] = node[x]
  BY <1>1, <1>2, <1>5, RoundPaths, KeepPaths, ZenonT(40)
<1>7. NodesInv'
  BY <1>1, <1>4, <1>6 DEF NodesInv, Keeps, TrieInv
<1>. QED  BY <1>2, <1>6, <1>7 DEF TrieInv

LEMMA DynarrStep ==
  ASSUME TrieAssumption, TrieInv, DynarrRound
  PROVE  TrieInv'
<1>. DEFINE d == IF Chunk \in Range(NodeHere.v) THEN NodeHere ELSE Pushed(NodeHere, Chunk)
<1>1. /\ pc = "adding" /\ pc' = "adding" /\ kind = "dynarr" /\ Len(at) < ADDR_LEN
      /\ Keep(d, {NULL}) /\ Go /\ UNCHANGED <<kind, arg, added, asked>>
      /\ ~PastEnd(NodeHere, Chunk)
  BY DEF DynarrRound, Round
<1>2. PlaceInv' /\ Growing' /\ Made' = Len(at) + 1
  BY <1>1, GoPlace
<1>3. Chunk \in Nat /\ Keeps(kind, NodeHere)
  BY <1>1, <1>2, NodeHereIs, RoundPaths
<1>4. d = [v |-> <<Chunk>>, cap |-> 1]
  <2>1. CASE NodeHere = [v |-> <<>>, cap |-> 0]
    <3>1. NodeHere.v = <<>> /\ NodeHere.cap = 0 /\ Range(<<>>) = {} /\ Len(<<>>) = 0
      BY <2>1 DEF Range
    <3>2. Append(<<>>, Chunk) = <<Chunk>>
      OBVIOUS
    <3>. QED  BY <3>1, <3>2 DEF Pushed
  <2>2. ASSUME NEW c \in Nat, NodeHere = [v |-> <<c>>, cap |-> 1] PROVE d = [v |-> <<Chunk>>, cap |-> 1]
    <3>1. NodeHere.v = <<c>> /\ NodeHere.cap = 1 /\ Range(<<c>>) = {c}
      BY <2>2 DEF Range
    <3>2. Chunk = c
      BY <1>1, <3>1 DEF PastEnd
    <3>. QED  BY <2>2, <3>1, <3>2
  <2>. QED  BY <1>1, <1>3, <2>1, <2>2 DEF Keeps
<1>5. /\ Stored(kind, NodeHere) \subseteq {Chunk}
  <2>1. CASE NodeHere = [v |-> <<>>, cap |-> 0]
    BY <1>1, <2>1 DEF Stored, Range
  <2>2. ASSUME NEW c \in Nat, NodeHere = [v |-> <<c>>, cap |-> 1]
        PROVE  Stored(kind, NodeHere) \subseteq {Chunk}
    <3>1. NodeHere.v = <<c>> /\ NodeHere.cap = 1 /\ Range(<<c>>) = {c}
      BY <2>2 DEF Range
    <3>. QED  BY <1>1, <3>1 DEF PastEnd, Stored
  <2>. QED  BY <1>1, <1>3, <2>1, <2>2 DEF Keeps
<1>. HIDE DEF d
<1>6. Stored(kind, d) = Stored(kind, NodeHere) \cup {Chunk}
  <2>1. Range(<<Chunk>>) = {Chunk}
    BY DEF Range
  <2>. QED  BY <1>1, <1>4, <1>5, <2>1 DEF Stored
<1>7. Owned(kind, d) = Owned(kind, NodeHere) \cup {NULL}
  BY <1>1, <1>4 DEF Owned
<1>8. /\ PathsInv' /\ HeapInv' /\ DOMAIN node' = DOMAIN node \cup {at} /\ node'[at] = d
      /\ \A x \in DOMAIN node \ {at} : node'[x] = node[x]
  BY <1>1, <1>2, <1>6, <1>7, RoundPaths, KeepPaths
<1>9. NodesInv'
  BY <1>1, <1>3, <1>4, <1>8 DEF NodesInv, Keeps, TrieInv
<1>. QED  BY <1>2, <1>8, <1>9 DEF TrieInv

LEMMA BstStep ==
  ASSUME TrieAssumption, TrieInv, BstRound
  PROVE  TrieInv'
<1>1. /\ pc = "adding" /\ kind = "bst" /\ Len(at) < ADDR_LEN
      /\ UNCHANGED <<kind, arg, added, asked>> /\ NULL \notin Int
  BY DEF BstRound, Round, TrieAssumption
<1>2. /\ Settled(NodeHere) /\ Kids(NodeHere) \subseteq Nat
      /\ Kids(NodeHere) = {c \in Nat : Append(at, c) \in Edges}
      /\ at \in DOMAIN node => NodeHere = node[at]
      /\ at \notin DOMAIN node => Kids(NodeHere) = {}
      /\ DOMAIN node = Nodes
  <2>1. at \notin DOMAIN node => Owned(kind, NodeHere) = {}
    BY <1>1, NodeHereIs
  <2>. QED  BY <1>1, <2>1, NodeHereIs DEF Keeps, Stored, Settled, Owned
<1>3. Chunk \in Nat /\ at \in Seq(Nat)
  BY <1>1, PathsHere DEF TrieInv
<1>4. KidFind(NodeHere, Chunk) = Chunk <=> Chunk \in Kids(NodeHere)
  BY <1>1, <1>2, <1>3, KidFindFinds DEF Settled, IsTree
<1>5. CASE KidFind(NodeHere, Chunk) = Chunk /\ Go /\ UNCHANGED <<tvars, pc, fix>>
  <2>1. PlaceInv' /\ Growing' /\ Made' = Len(at) + 1
    BY <1>1, <1>5, GoPlace
  <2>2. Nodes' = Nodes \cup {at} /\ Edges' = Edges \cup {Append(at, Chunk)}
    BY <1>1, <2>1, RoundPaths
  <2>3. at \in DOMAIN node /\ Append(at, Chunk) \in Edges
    BY <1>2, <1>4, <1>5
  <2>4. Nodes' = Nodes /\ Edges' = Edges /\ node' = node /\ heap' = heap /\ pc' = "adding"
    BY <1>1, <1>2, <1>5, <2>2, <2>3 DEF tvars
  <2>5. PathsInv' /\ HeapInv'
    BY <1>1, <2>4 DEF TrieInv, PathsInv, HeapInv, Live
  <2>6. NodesInv'
    BY <1>1, <2>4 DEF TrieInv, NodesInv
  <2>. QED  BY <2>1, <2>5, <2>6 DEF TrieInv
<1>6. ASSUME KidFind(NodeHere, Chunk) = NULL, NEW u \in Hooks(NodeHere, Chunk),
             Keep(Linked(NodeHere, Chunk, u), {Chunk}), fix' = Chunk, pc' = "fixing", at' = at
      PROVE  TrieInv'
  <2>. DEFINE k == Linked(NodeHere, Chunk, u)
  <2>1. Chunk \in Int \ Kids(NodeHere)
    BY <1>1, <1>3, <1>4, <1>6
  <2>2. Settled(k) /\ Kids(k) = Kids(NodeHere) \cup {Chunk}
    BY <1>1, <1>2, <1>6, <2>1, LinkedIsTree
  <2>. HIDE DEF k
  <2>3. /\ Stored(kind, k) = Stored(kind, NodeHere) \cup {Chunk}
        /\ Owned(kind, k) = Owned(kind, NodeHere) \cup {Chunk}
    BY <1>1, <2>2 DEF Stored, Owned
  <2>4. Growing' /\ Made' = Len(at) + 1
    BY <1>6 DEF Growing, Made
  <2>5. Keep(k, {Chunk})
    BY <1>6 DEF k
  <2>6. /\ PathsInv' /\ HeapInv' /\ DOMAIN node' = DOMAIN node \cup {at} /\ node'[at] = k
        /\ \A x \in DOMAIN node \ {at} : node'[x] = node[x]
    BY <1>1, <2>3, <2>4, <2>5, RoundPaths, KeepPaths, ZenonT(40)
  <2>7. NodesInv'
    BY <1>1, <1>2, <1>3, <1>6, <2>2, <2>6 DEF NodesInv, Keeps, TrieInv, Settled
  <2>8. PlaceInv'
    BY <1>1, <1>6, <2>2, <2>6 DEF TrieInv, PlaceInv, Growing
  <2>. QED  BY <2>6, <2>7, <2>8 DEF TrieInv
<1>. QED  BY <1>5, <1>6 DEF BstRound

\* what a step of kid_fix() does to the invariant, if it keeps the tree
LEMMA FixKeeps ==
  ASSUME TrieAssumption, TrieInv, pc = "fixing", pc' = "fixing", NEW n,
         node' = [node EXCEPT ![at] = n], IsTree(n), Kids(n) = Kids(node[at]),
         fix' \in Kids(node[at]),
         UNCHANGED <<kind, heap, arg, at, asked, added>>
  PROVE  TrieInv'
<1>1. /\ PlaceInv /\ kind = "bst" /\ at \in DOMAIN node /\ Live /\ Live'
  BY DEF TrieInv, PlaceInv, Live
<1>2. /\ DOMAIN node' = DOMAIN node /\ node'[at] = n
      /\ \A x \in DOMAIN node \ {at} : node'[x] = node[x]
  BY <1>1
<1>3. \A x \in DOMAIN node : Kids(node'[x]) = Kids(node[x])
  BY <1>2
<1>4. PlaceInv'
  BY <1>1, <1>2, <1>3 DEF PlaceInv, Growing
<1>5. NodesInv'
  BY <1>1, <1>2, <1>3 DEF TrieInv, NodesInv, Keeps
<1>6. Nodes' = Nodes /\ Edges' = Edges
  BY DEF Nodes, Edges, Whole, Growing, Made
<1>7. PathsInv'
  BY <1>1, <1>2, <1>3, <1>6 DEF TrieInv, PathsInv, Stored
<1>8. HeapInv'
  <2>1. \A x \in DOMAIN node : Owned(kind, node'[x]) = Owned(kind, node[x])
    BY <1>1, <1>3 DEF Owned, Stored
  <2>. QED  BY <1>1, <1>2, <2>1 DEF TrieInv, HeapInv
<1>. QED  BY <1>4, <1>5, <1>7, <1>8 DEF TrieInv

LEMMA FixStep ==
  ASSUME TrieAssumption, TrieInv, FixRecolours \/ FixTurns
  PROVE  TrieInv'
<1>1. /\ pc = "fixing" /\ pc' = "fixing" /\ fix # node[at].root /\ Gp(node[at], fix) # NULL
      /\ UNCHANGED <<kind, heap, arg, at, asked, added>>
  BY DEF FixRecolours, FixTurns, Fixing, Unfixed
<1>2. /\ kind = "bst" /\ at \in DOMAIN node /\ fix \in Kids(node[at]) /\ NULL \notin Int
      /\ IsTree(node[at])
  BY <1>1 DEF TrieInv, PlaceInv, NodesInv, Keeps, TrieAssumption
<1>3. /\ IsTree(Turned(node[at], fix)) /\ Kids(Turned(node[at], fix)) = Kids(node[at])
      /\ Gp(node[at], fix) \in Kids(node[at]) /\ node[at].parent[fix] \in Kids(node[at])
  BY <1>1, <1>2, TurnedIsTree
<1>4. IsTree(Recoloured(node[at], fix)) /\ Kids(Recoloured(node[at], fix)) = Kids(node[at])
  BY <1>2, RecolouredIsTree
<1>5. CASE FixRecolours
  <2>1. node' = [node EXCEPT ![at] = Recoloured(node[at], fix)] /\ fix' = Gp(node[at], fix)
    BY <1>5 DEF FixRecolours
  <2>. QED  BY <1>1, <1>3, <1>4, <2>1, FixKeeps
<1>6. CASE FixTurns
  <2>1. node' = [node EXCEPT ![at] = Turned(node[at], fix)] /\ fix' \in {fix, node[at].parent[fix]}
    BY <1>6 DEF FixTurns
  <2>. QED  BY <1>1, <1>2, <1>3, <2>1, FixKeeps
<1>. QED  BY <1>5, <1>6

LEMMA FixReturnsStep ==
  ASSUME TrieAssumption, TrieInv, FixReturns
  PROVE  TrieInv'
<1>. DEFINE n == Returned(node[at])
<1>1. /\ pc = "fixing" /\ pc' = "adding" /\ node' = [node EXCEPT ![at] = n] /\ Go
      /\ UNCHANGED <<kind, heap, arg, asked, added>>
  BY DEF FixReturns
<1>2. /\ kind = "bst" /\ at \in DOMAIN node /\ NULL \notin Int /\ Len(at) < ADDR_LEN
      /\ IsTree(node[at]) /\ Live /\ Live'
  BY <1>1 DEF TrieInv, PlaceInv, NodesInv, Keeps, TrieAssumption, Live
<1>3. Settled(n) /\ Kids(n) = Kids(node[at])
  BY <1>2, ReturnedIsTree
<1>. HIDE DEF n
<1>4. /\ DOMAIN node' = DOMAIN node /\ node'[at] = n
      /\ \A x \in DOMAIN node \ {at} : node'[x] = node[x]
      /\ \A x \in DOMAIN node : Kids(node'[x]) = Kids(node[x])
  BY <1>1, <1>2, <1>3
<1>5. PlaceInv' /\ Growing' /\ Made' = Len(at) + 1
  BY <1>1, <1>2, GoPlace
<1>6. NodesInv'
  BY <1>1, <1>2, <1>3, <1>4 DEF TrieInv, NodesInv, Keeps, Settled
<1>7. Nodes' = Nodes /\ Edges' = Edges
  BY <1>1, <1>5 DEF Nodes, Edges, Whole, Growing, Made
<1>8. PathsInv'
  BY <1>1, <1>2, <1>4, <1>7 DEF TrieInv, PathsInv, Stored
<1>9. HeapInv'
  <2>1. \A x \in DOMAIN node : Owned(kind, node'[x]) = Owned(kind, node[x])
    BY <1>2, <1>4 DEF Owned, Stored
  <2>. QED  BY <1>1, <1>2, <1>4, <2>1 DEF TrieInv, HeapInv
<1>. QED  BY <1>5, <1>6, <1>8, <1>9 DEF TrieInv

\* behind the last chunk the pointer is added
LEMMA LeafStep ==
  ASSUME TrieAssumption, TrieInv, Leaf
  PROVE  TrieInv'
<1>. DEFINE k == Zeroed(kind)
<1>1. /\ pc = "adding" /\ pc' = "idle" /\ Len(at) = ADDR_LEN /\ Keep(k, {})
      /\ added' = added \cup {arg} /\ UNCHANGED <<kind, arg, at, asked>>
  BY DEF Leaf
<1>2. /\ PlaceInv /\ kind \in Kinds /\ arg \in Ptrs[kind] /\ asked = <<>>
      /\ DOMAIN node = Nodes
  BY <1>1 DEF TrieInv, PlaceInv, PathsInv, Growing, Live
<1>3. /\ at \in Seq(Nat) /\ at = arg /\ at \notin Nodes
      /\ \A c \in Nat : Append(at, c) \notin Edges
      /\ Whole \cup Starts(arg, Len(at)) = Nodes \cup {at}
  BY <1>1, <1>2, PathsHere
<1>4. Whole' = Whole \cup Starts(arg, Len(at))
  BY <1>1 DEF Whole
<1>5. Nodes' = Nodes \cup {at} /\ Edges' = Edges
  <2>1. Edges = Whole \cup Starts(arg, Len(at))
    BY <1>1 DEF Edges, Growing, Made
  <2>. QED  BY <1>1, <1>3, <1>4, <2>1 DEF Nodes, Edges, Growing
<1>6. /\ Keeps(kind, k) /\ Stored(kind, k) = {} /\ Owned(kind, k) = {}
      /\ kind = "bst" => k.kids = k.root
  BY <1>2, ZeroedIs
<1>7. /\ kind # "fixset" => Stored(kind, NodeHere) = {}
      /\ Owned(kind, NodeHere) = {}
  BY <1>1, <1>2, <1>3, NodeHereIs
<1>. HIDE DEF k
<1>8. /\ PathsInv' /\ HeapInv' /\ DOMAIN node' = DOMAIN node \cup {at} /\ node'[at] = k
      /\ \A x \in DOMAIN node \ {at} : node'[x] = node[x]
  <2>. DEFINE K == {}
              new == {}
  <2>1. /\ Keep(k, K) /\ new \in SUBSET Nat
        /\ Owned(kind, k) = Owned(kind, NodeHere) \cup K
        /\ kind # "fixset" => Stored(kind, k) = Stored(kind, NodeHere) \cup new
        /\ \A x \in Seq(Nat), c \in Nat :
              Append(x, c) \in Edges' <=> Append(x, c) \in Edges \/ (x = at /\ c \in new)
    BY <1>1, <1>5, <1>6, <1>7
  <2>. HIDE DEF K, new
  <2>. QED  BY <1>1, <1>5, <2>1, KeepPaths
<1>9. NodesInv'
  BY <1>1, <1>2, <1>6, <1>8 DEF NodesInv, TrieInv
<1>10. PlaceInv'
  BY <1>1, <1>2 DEF PlaceInv, Growing
<1>. QED  BY <1>8, <1>9, <1>10 DEF TrieInv

\* the steps that leave the nodes alone
LEMMA OtherStep ==
  ASSUME TrieAssumption, TrieInv,
         \/ \E p \in Ptrs[kind] : Begin(p) \/ Has(p)
         \/ DynarrOverruns \/ FixCrashes \/ HasReturns \/ Dies \/ UNCHANGED vars
  PROVE  TrieInv'
<1>1. UNCHANGED <<kind, node, heap, added>>
  BY DEF Begin, Has, DynarrOverruns, FixCrashes, HasReturns, Dies, vars, tvars
<1>2. ASSUME NEW p \in Ptrs[kind], Begin(p) PROVE TrieInv'
  <2>1. /\ pc = "idle" /\ pc' = "adding" /\ at' = <<>> /\ arg' = p /\ p \notin added /\ asked' = asked
    BY <1>2 DEF Begin
  <2>2. p \in Seq(Nat) /\ SubSeq(p, 1, 0) = <<>> /\ Len(<<>>) = 0 /\ <<>> \in Seq(Nat) /\ kind \in Kinds
        /\ ADDR_LEN \in Nat
    BY SubSeqEmpty DEF TrieInv, PlaceInv, TrieAssumption
  <2>3. PlaceInv'
    BY <1>1, <2>1, <2>2 DEF TrieInv, PlaceInv, Growing
  <2>4. NodesInv'
    BY <1>1, <2>1 DEF TrieInv, NodesInv
  <2>5. /\ Nodes = Whole /\ Edges = Whole /\ Whole' = Whole /\ Growing' /\ Made' = 0
    BY <1>1, <2>1, <2>2 DEF Nodes, Edges, Growing, Whole, Made
  <2>6. Nodes' = Nodes
    <3>1. Starts(p, 0 - 1) = {}
      BY DEF Starts
    <3>. QED  BY <2>1, <2>5, <3>1 DEF Nodes
  <2>7. \A x \in Seq(Nat), c \in Nat : Append(x, c) \in Edges' <=> Append(x, c) \in Edges
    <3>1. Starts(p, 0) = {<<>>}
      <4>1. 0..0 = {0}
        OBVIOUS
      <4>2. {SubSeq(p, 1, i) : i \in {0}} = {SubSeq(p, 1, 0)}
        OBVIOUS
      <4>. QED  BY <2>2, <4>1, <4>2, Zenon DEF Starts
    <3>2. \A x \in Seq(Nat), c \in Nat : Append(x, c) # <<>>
      BY AppendProperties
    <3>. QED  BY <2>1, <2>5, <3>1, <3>2 DEF Edges
  <2>8. Live /\ Live' /\ DOMAIN node \subseteq Seq(Nat)
    BY <2>1, <2>5, WholeIs DEF Live, TrieInv, PathsInv
  <2>9. PathsInv' /\ HeapInv'
    BY <1>1, <2>6, <2>7, <2>8 DEF TrieInv, PathsInv, HeapInv
  <2>. QED  BY <2>3, <2>4, <2>9 DEF TrieInv
<1>3. CASE UNCHANGED vars
  BY <1>3 DEF vars, tvars, TrieInv, PlaceInv, NodesInv, PathsInv, HeapInv, Nodes, Edges, Whole,
              Growing, Made, Live
<1>4. CASE (\E p \in Ptrs[kind] : Has(p)) \/ HasReturns
  <2>1. /\ pc \in {"idle", "has"} /\ pc' \in {"idle", "has", "overrun"}
        /\ asked' # <<>> <=> pc' = "has"
    <3>1. kind \in Kinds /\ \A p \in Ptrs[kind] : p # <<>>
      BY DEF TrieAssumption, TrieInv, PlaceInv
    <3>2. pc = "idle" => asked = <<>>
      BY DEF TrieInv, PlaceInv
    <3>. QED  BY <1>4, <3>1, <3>2 DEF Has, HasReturns
  <2>2. PlaceInv'
    BY <1>1, <2>1 DEF TrieInv, PlaceInv, Growing
  <2>3. NodesInv'
    BY <1>1, <2>1 DEF TrieInv, NodesInv
  <2>4. Nodes' = Nodes /\ Edges' = Edges
    BY <1>1, <2>1 DEF Nodes, Edges, Whole, Growing
  <2>5. PathsInv' /\ HeapInv'
    BY <1>1, <2>1, <2>4 DEF TrieInv, PathsInv, HeapInv, Live
  <2>. QED  BY <2>2, <2>3, <2>5 DEF TrieInv
<1>5. CASE DynarrOverruns \/ FixCrashes \/ Dies
  <2>1. /\ pc' \in {"overrun", "crashed", "died"} /\ UNCHANGED <<at, asked>>
        /\ pc # "has" /\ pc # "crashed" /\ (pc = "fixing" => pc' = "crashed")
    BY <1>5 DEF DynarrOverruns, FixCrashes, Dies, Fixing, Round
  <2>2. PlaceInv'
    BY <1>1, <2>1 DEF TrieInv, PlaceInv, Growing
  <2>3. NodesInv'
    BY <1>1, <2>1 DEF TrieInv, NodesInv
  <2>4. PathsInv' /\ HeapInv'
    BY <2>1 DEF PathsInv, HeapInv, Live
  <2>. QED  BY <2>2, <2>3, <2>4 DEF TrieInv
<1>. QED  BY <1>2, <1>3, <1>4, <1>5

-----------------------------------------------------------------------------
(* Walks *)

LEMMA StartsOfStarts ==
  ASSUME NEW p \in Seq(Nat), NEW n \in 0..Len(p), NEW i \in 0..n
  PROVE  SubSeq(SubSeq(p, 1, n), 1, i) = SubSeq(p, 1, i)
<1>. DEFINE x == SubSeq(p, 1, n)
<1>1. x \in Seq(Nat) /\ Len(x) = n /\ \A j \in 1..n : x[j] = p[j]
  OBVIOUS
<1>. HIDE DEF x
<1>2. SubSeq(x, 1, i) \in Seq(Nat) /\ Len(SubSeq(x, 1, i)) = i /\ \A j \in 1..i : SubSeq(x, 1, i)[j] = x[j]
  BY <1>1
<1>3. SubSeq(p, 1, i) \in Seq(Nat) /\ Len(SubSeq(p, 1, i)) = i /\ \A j \in 1..i : SubSeq(p, 1, i)[j] = p[j]
  OBVIOUS
<1>4. SubSeq(x, 1, i) = SubSeq(p, 1, i)
  BY <1>1, <1>2, <1>3, SMTT(30)
<1>. QED  BY <1>4 DEF x

\* with a path the set has those above it
LEMMA WholeAbove ==
  ASSUME TrieAssumption, PlaceInv, NEW x \in Whole, NEW i \in 0..Len(x)
  PROVE  SubSeq(x, 1, i) \in Whole
<1>1. PICK p \in added : x \in Starts(p, ADDR_LEN)
  BY DEF Whole
<1>2. p \in Seq(Nat) /\ Len(p) = ADDR_LEN /\ ADDR_LEN \in Nat
  BY WholeIs
<1>3. PICK n \in 0..ADDR_LEN : x = SubSeq(p, 1, n)
  BY <1>1 DEF Starts
<1>4. n \in 0..Len(p) /\ Len(x) = n /\ i \in 0..n /\ i \in 0..ADDR_LEN
  BY <1>2, <1>3
<1>5. SubSeq(x, 1, i) = SubSeq(p, 1, i)
  BY <1>2, <1>3, <1>4, StartsOfStarts
<1>6. SubSeq(x, 1, i) \in Starts(p, ADDR_LEN)
  BY <1>4, <1>5 DEF Starts
<1>. QED  BY <1>6 DEF Whole

\* the kids that are found, between two calls
LEMMA KidsFound ==
  ASSUME TrieAssumption, TrieInv, pc = "idle"
  PROVE  /\ DOMAIN node = Whole
         /\ \A x \in Whole, c \in Nat : Append(x, c) \in Whole => c \in KidsOf(x)
         /\ kind # "fixset" => \A x \in Whole :
              /\ KidsOf(x) = Stored(kind, node[x])
              /\ \A c \in Nat : HasKid(x, c) <=> Append(x, c) \in Whole
<1>1. /\ PlaceInv /\ Live /\ Nodes = Whole /\ Edges = Whole /\ DOMAIN node = Whole
      /\ kind \in {"fixset", "list", "dynarr", "bst"} /\ NULL \notin Int
  BY DEF TrieInv, PlaceInv, PathsInv, Nodes, Edges, Growing, Live, TrieAssumption
<1>2. ASSUME kind # "fixset", NEW x \in Whole
      PROVE  /\ KidsOf(x) = Stored(kind, node[x])
             /\ \A c \in Nat : HasKid(x, c) <=> c \in KidsOf(x)
  <2>1. CASE kind \in {"list", "dynarr"}
    BY <2>1 DEF KidsOf, Stored, HasKid
  <2>2. CASE kind = "bst"
    <3>1. IsTree(node[x]) /\ node[x].kids = node[x].root
      BY <1>1, <2>2 DEF TrieInv, NodesInv, Keeps
    <3>2. Under(node[x], node[x].kids) = Kids(node[x])
      BY <1>1, <3>1, TreeShows DEF IsTree
    <3>3. \A c \in Nat : KidFind(node[x], c) = c <=> c \in Kids(node[x])
      BY <1>1, <3>1, KidFindFinds DEF IsTree
    <3>. QED  BY <2>2, <3>2, <3>3 DEF KidsOf, Stored, HasKid
  <2>. QED  BY <1>1, <1>2, <2>1, <2>2
<1>3. ASSUME kind # "fixset", NEW x \in Whole
      PROVE  Stored(kind, node[x]) = {c \in Nat : Append(x, c) \in Whole}
  BY <1>1, <1>3 DEF TrieInv, PathsInv
<1>4. ASSUME kind = "fixset", NEW x \in Whole, NEW c \in Nat, Append(x, c) \in Whole
      PROVE  c \in KidsOf(x)
  <2>1. x \in Seq(Nat)
    BY <1>1, WholeIs
  <2>. DEFINE y == Append(x, c)
  <2>2. y \in Seq(Nat) /\ Len(y) = Len(x) + 1 /\ y # <<>> /\ y[Len(x) + 1] = c /\ Len(x) \in Nat
        /\ \A i \in 1..Len(x) : y[i] = x[i]
    BY <2>1, AppendProperties
  <2>. HIDE DEF y
  <2>3. Last(y) = c
    BY <2>2 DEF Last
  <2>4. Front(y) = x
    <3>1. Front(y) = SubSeq(y, 1, Len(x))
      BY <2>2 DEF Front
    <3>2. SubSeq(y, 1, Len(x)) = x
      BY <2>1, <2>2
    <3>. QED  BY <3>1, <3>2
  <2>5. y \in Whole
    BY <1>4 DEF y
  <2>. QED  BY <1>1, <1>4, <2>2, <2>3, <2>4, <2>5 DEF KidsOf
<1>. QED  BY <1>1, <1>2, <1>3, <1>4

\* what is reached from the root
LEMMA ReachedAll ==
  ASSUME TrieAssumption, TrieInv, pc = "idle"
  PROVE  Reached = DOMAIN node /\ heap = Blocks(Reached)
<1>1. /\ PlaceInv /\ Live /\ DOMAIN node = Whole
      /\ kind \in {"fixset", "list", "dynarr", "bst"}
      /\ kind # "fixset" => \A x \in Whole : KidsOf(x) = Stored(kind, node[x])
      /\ \A x \in Whole, c \in Nat : Append(x, c) \in Whole => c \in KidsOf(x)
  BY KidsFound DEF TrieInv, PlaceInv, Live, TrieAssumption
<1>2. ASSUME NEW x \in Whole, NEW i \in 1..Len(x) PROVE x[i] \in KidsOf(SubSeq(x, 1, i - 1))
  <2>1. x \in Seq(Nat)
    BY <1>1, WholeIs
  <2>. DEFINE n == i - 1
  <2>2. n \in 0..Len(x) /\ n < Len(x) /\ n + 1 = i /\ i \in 0..Len(x) /\ x[i] \in Nat
    BY <2>1
  <2>. HIDE DEF n
  <2>3. SubSeq(x, 1, n + 1) = Append(SubSeq(x, 1, n), x[n + 1])
    BY <2>1, <2>2, StartsGrow
  <2>4. SubSeq(x, 1, n) \in Whole /\ SubSeq(x, 1, i) \in Whole
    BY <1>1, <2>2, WholeAbove
  <2>5. x[i] \in KidsOf(SubSeq(x, 1, n))
    BY <1>1, <2>2, <2>3, <2>4
  <2>. QED  BY <2>5 DEF n
<1>3. Reached = Whole
  BY <1>1, <1>2 DEF Reached
<1>4. heap = {<<x>> : x \in Whole}
               \cup UNION {{<<x, c>> : c \in Owned(kind, node[x])} : x \in Whole}
  BY <1>1 DEF TrieInv, HeapInv
<1>. DEFINE B == UNION {{<<x, c>> : c \in Owned(kind, node[x])} : x \in Whole}
<1>5. Blocks(Whole) = {<<x>> : x \in Whole} \cup B
  <2>1. CASE kind = "fixset"
    <3>1. B = {}
      BY <2>1 DEF Owned, Stored
    <3>. HIDE DEF B
    <3>. QED  BY <2>1, <3>1 DEF Blocks
  <2>2. CASE kind = "dynarr"
    <3>1. B = {<<x, NULL>> : x \in {y \in Whole : node[y].cap > 0}}
      BY <2>2 DEF Owned
    <3>. HIDE DEF B
    <3>. QED  BY <2>2, <3>1 DEF Blocks
  <2>3. CASE kind \in {"list", "bst"}
    <3>1. \A x \in Whole : Owned(kind, node[x]) = KidsOf(x)
      BY <1>1, <2>3 DEF Owned
    <3>2. B = UNION {{<<x, c>> : c \in KidsOf(x)} : x \in Whole}
      BY <3>1
    <3>. HIDE DEF B
    <3>. QED  BY <2>3, <3>2 DEF Blocks
  <2>. QED  BY <1>1, <2>1, <2>2, <2>3
<1>. QED  BY <1>1, <1>3, <1>4, <1>5

\* ps_has finds what was added
LEMMA FoundIsAdded ==
  ASSUME TrieAssumption, TrieInv, pc = "idle", NEW p \in Ptrs[kind]
  PROVE  Found(p) <=> \E q \in added : IF kind = "fixset" THEN Front(p) = Front(q) ELSE p = q
<1>. DEFINE n == ADDR_LEN - 1
<1>1. /\ PlaceInv /\ DOMAIN node = Whole /\ kind \in Kinds
      /\ kind # "fixset" => \A x \in Whole : \A c \in Nat : HasKid(x, c) <=> Append(x, c) \in Whole
  BY KidsFound DEF TrieInv, PlaceInv
<1>2. /\ p \in Seq(Nat) /\ Len(p) = ADDR_LEN /\ ADDR_LEN \in Nat /\ ADDR_LEN > 0
      /\ n \in Nat /\ n + 1 = ADDR_LEN /\ n \in 0..ADDR_LEN /\ n \in 0..n /\ ADDR_LEN \in 0..ADDR_LEN
      /\ \A q \in added : q \in Seq(Nat) /\ Len(q) = ADDR_LEN
      /\ \A q \in added : Starts(q, ADDR_LEN) \subseteq Whole
  BY <1>1, WholeIs DEF TrieAssumption
<1>3. Above(p) = {SubSeq(p, 1, i) : i \in 0..n}
  BY DEF Above
<1>4. Front(p) = SubSeq(p, 1, n) /\ \A q \in added : Front(q) = SubSeq(q, 1, n)
  BY <1>2 DEF Front
<1>. HIDE DEF n
<1>5. \A q \in Seq(Nat) : Len(q) = ADDR_LEN => \A i \in 0..ADDR_LEN :
        SubSeq(q, 1, i) \in Seq(Nat) /\ Len(SubSeq(q, 1, i)) = i
  BY <1>2, StartsGrow
<1>6. \A q \in Seq(Nat) : Len(q) = ADDR_LEN => SubSeq(q, 1, ADDR_LEN) = q
  BY SubSeqFull
<1>7. \A i \in 0..n : /\ i \in 0..ADDR_LEN /\ i + 1 \in 0..ADDR_LEN /\ i < ADDR_LEN
                      /\ p[i + 1] \in Nat /\ On(p, SubSeq(p, 1, i)) = p[i + 1]
                      /\ Append(SubSeq(p, 1, i), p[i + 1]) = SubSeq(p, 1, i + 1)
  <2>. TAKE i \in 0..n
  <2>1. i \in 0..ADDR_LEN /\ i + 1 \in 0..ADDR_LEN /\ i < ADDR_LEN /\ i + 1 \in 1..ADDR_LEN
    BY <1>2
  <2>2. p[i + 1] \in Nat
    BY <1>2, <2>1
  <2>3. Len(SubSeq(p, 1, i)) = i
    BY <1>2, <1>5, <2>1
  <2>4. Append(SubSeq(p, 1, i), p[i + 1]) = SubSeq(p, 1, i + 1)
    BY <1>2, <2>1, StartsGrow
  <2>. QED  BY <2>1, <2>2, <2>3, <2>4 DEF On
<1>8. CASE kind = "fixset"
  <2>1. Found(p) <=> Above(p) \subseteq Whole
    BY <1>1, <1>8 DEF Found
  <2>2. ASSUME NEW q \in added, Front(p) = Front(q) PROVE Above(p) \subseteq Whole
    <3>1. \A i \in 0..n : SubSeq(p, 1, i) = SubSeq(q, 1, i)
      <4>. TAKE i \in 0..n
      <4>1. SubSeq(SubSeq(p, 1, n), 1, i) = SubSeq(p, 1, i)
        BY <1>2, StartsOfStarts
      <4>2. SubSeq(SubSeq(q, 1, n), 1, i) = SubSeq(q, 1, i)
        BY <1>2, StartsOfStarts
      <4>. QED  BY <1>4, <2>2, <4>1, <4>2
    <3>2. \A i \in 0..n : SubSeq(q, 1, i) \in Starts(q, ADDR_LEN)
      BY <1>7 DEF Starts
    <3>. QED  BY <1>2, <1>3, <3>1, <3>2
  <2>3. ASSUME Above(p) \subseteq Whole PROVE \E q \in added : Front(p) = Front(q)
    <3>1. SubSeq(p, 1, n) \in Whole
      BY <1>2, <1>3, <2>3
    <3>2. PICK q \in added : SubSeq(p, 1, n) \in Starts(q, ADDR_LEN)
      BY <3>1 DEF Whole
    <3>3. SubSeq(p, 1, n) = SubSeq(q, 1, Len(SubSeq(p, 1, n)))
      <4>. DEFINE y == SubSeq(p, 1, n)
      <4>1. y \in Starts(q, ADDR_LEN) /\ q \in Seq(Nat) /\ ADDR_LEN \in Int /\ ADDR_LEN <= Len(q)
        BY <1>2, <3>2
      <4>. HIDE DEF y
      <4>2. y = SubSeq(q, 1, Len(y))
        BY <4>1, StartsAre
      <4>. QED  BY <4>2 DEF y
    <3>4. Len(SubSeq(p, 1, n)) = n
      BY <1>2, <1>5
    <3>. QED  BY <1>4, <3>3, <3>4
  <2>. QED  BY <1>8, <2>1, <2>2, <2>3
<1>9. CASE kind # "fixset"
  <2>1. Found(p) <=> \A i \in 0..n : SubSeq(p, 1, i) \in Whole /\ SubSeq(p, 1, i + 1) \in Whole
    <3>1. \A i \in 0..n : SubSeq(p, 1, i) \in Whole =>
            (HasKid(SubSeq(p, 1, i), On(p, SubSeq(p, 1, i))) <=> SubSeq(p, 1, i + 1) \in Whole)
      BY <1>1, <1>7, <1>9
    <3>. QED  BY <1>1, <1>3, <1>9, <3>1 DEF Found
  <2>2. ASSUME p \in added PROVE Found(p)
    <3>1. \A i \in 0..n : SubSeq(p, 1, i) \in Starts(p, ADDR_LEN) /\ SubSeq(p, 1, i + 1) \in Starts(p, ADDR_LEN)
      BY <1>7 DEF Starts
    <3>. QED  BY <1>2, <2>1, <2>2, <3>1
  <2>3. ASSUME Found(p) PROVE p \in added
    <3>1. SubSeq(p, 1, n + 1) \in Whole
      BY <1>2, <2>1, <2>3
    <3>2. p \in Whole
      BY <1>2, <1>6, <3>1
    <3>. QED  BY <1>1, <1>2, <3>2, WholeIs
  <2>. QED  BY <1>9, <2>2, <2>3
<1>. QED  BY <1>8, <1>9

LEMMA FreeStep ==
  ASSUME TrieAssumption, TrieInv, Free
  PROVE  TrieInv'
<1>1. /\ pc = "idle" /\ pc' = "freed" /\ heap' = {} /\ node' = <<>> /\ added' = {}
      /\ UNCHANGED <<kind, arg, at, asked>> /\ ~Live'
  BY ReachedAll DEF Free, Live
<1>2. PlaceInv'
  BY <1>1 DEF TrieInv, PlaceInv, Growing
<1>3. NodesInv' /\ PathsInv' /\ HeapInv'
  BY <1>1 DEF NodesInv, PathsInv, HeapInv
<1>. QED  BY <1>2, <1>3 DEF TrieInv

LEMMA TrieStep ==
  ASSUME TrieAssumption, TrieInv, [Next]_vars
  PROVE  TrieInv'
BY FixsetStep, ListStep, DynarrStep, BstStep, FixStep, FixReturnsStep, LeafStep, FreeStep,
   OtherStep, Zenon DEF Next, AddStep

LEMMA TrieInit ==
  ASSUME TrieAssumption, Init
  PROVE  TrieInv
<1>1. /\ kind \in Kinds /\ node = <<>> /\ heap = {} /\ pc = "idle" /\ asked = <<>> /\ added = {}
  BY DEF Init
<1>2. DOMAIN node = {} /\ Whole = {} /\ Nodes = {}
  BY <1>1 DEF Whole, Nodes, Growing
<1>3. PlaceInv /\ NodesInv
  BY <1>1, <1>2 DEF PlaceInv, NodesInv, Growing
<1>4. PathsInv /\ HeapInv
  BY <1>1, <1>2 DEF PathsInv, HeapInv
<1>. QED  BY <1>3, <1>4 DEF TrieInv

\* every state of every execution has the four parts
LEMMA TrieAlways == Spec => []TrieInv
<1>1. Init => TrieInv
  BY TrieInit, TrieAssumption
<1>2. TrieInv /\ [Next]_vars => TrieInv'
  BY TrieStep, TrieAssumption
<1>. QED  BY <1>1, <1>2, PTL DEF Spec

\* Behind every single rotation and recolouring of kid_fix() the trees of
\* bst_set.c are search trees whose links agree, whatever pointers come in
\* whatever order; and the lists of list_set.c stay sorted.
THEOREM KidsLieInOrder == Spec => []KidsInOrder
<1>1. TrieInv => KidsInOrder
  <2>. SUFFICES ASSUME TrieInv PROVE KidsInOrder
    OBVIOUS
  <2>1. ASSUME NEW x \in DOMAIN node, kind = "list"
        PROVE  \A i, j \in DOMAIN node[x] : i < j => node[x][i] < node[x][j]
    BY <2>1 DEF TrieInv, NodesInv, Keeps, Sorted
  <2>2. ASSUME NEW x \in DOMAIN node, kind = "bst" PROVE LinksMatch(node[x]) /\ Ordered(node[x])
    <3>1. IsTree(node[x])
      BY <2>2 DEF TrieInv, NodesInv, Keeps
    <3>. QED  BY <3>1, TreeShows, TrieAssumption DEF IsTree
  <2>3. /\ pc \in {"adding", "fixing"} => at = SubSeq(arg, 1, Len(at))
        /\ pc = "fixing" => fix \in Kids(node[at])
    BY DEF TrieInv, PlaceInv, Growing
  <2>. QED  BY <2>1, <2>2, <2>3 DEF KidsInOrder
<1>. QED  BY <1>1, TrieAlways, PTL

\* ps_free() comes to every block that the four sets have allocated, and
\* leaves none.
THEOREM NothingLeaks == Spec => []NoLeak
<1>1. TrieInv => NoLeak
  <2>. SUFFICES ASSUME TrieInv, pc \in {"idle", "freed"} PROVE heap = Blocks(Reached)
    BY DEF NoLeak
  <2>1. CASE pc = "idle"
    BY <2>1, ReachedAll, TrieAssumption
  <2>2. CASE pc = "freed"
    <3>1. node = <<>> /\ heap = {} /\ kind \in {"fixset", "list", "dynarr", "bst"}
      BY <2>2, TrieAssumption DEF TrieInv, PlaceInv
    <3>2. Reached = {}
      BY <3>1 DEF Reached
    <3>3. Blocks({}) = {}
      BY <3>1 DEF Blocks
    <3>. QED  BY <3>1, <3>2, <3>3
  <2>. QED  BY <2>1, <2>2
<1>. QED  BY <1>1, TrieAlways, PTL

\* Each of the four sets, every round of its loops a step of its own, is the
\* abstract set: a call to ps_add adds the pointer when it is done with the
\* last chunk, and ps_has answers what the abstract set answers.
THEOREM ImplementsAbstractSet == Spec => ImplementsPtrSet
<1>1. Init => Ideal!Init
  BY DEF Init, Ideal!Init
<1>2. TrieInv /\ [Next]_vars => [Ideal!Next]_Ideal!vars
  <2>. SUFFICES ASSUME TrieInv, [Next]_vars PROVE [Ideal!Next]_Ideal!vars
    OBVIOUS
  <2>. USE DEF Ideal!vars
  <2>1. /\ kind \in Kinds /\ Ptrs[kind] \subseteq UNION {Ptrs[k] : k \in Kinds}
        /\ asked # <<>> <=> pc = "has"
        /\ pc \in {"adding", "fixing"} => arg \in Ptrs[kind]
    BY DEF TrieInv, PlaceInv, Growing
  <2>2. ASSUME NEW p \in Ptrs[kind], Begin(p) PROVE UNCHANGED Ideal!vars
    BY <2>2 DEF Begin
  <2>3. ASSUME NEW p \in Ptrs[kind], Has(p) PROVE [Ideal!Next]_Ideal!vars
    <3>1. CASE WalksOut(p)
      BY <2>3, <3>1 DEF Has
    <3>2. CASE ~WalksOut(p)
      <4>1. /\ pc = "idle" /\ asked' = p /\ answer' = Found(p) /\ pc' = "has"
            /\ UNCHANGED <<kind, added>> /\ asked = <<>>
        BY <2>1, <2>3, <3>2 DEF Has
      <4>2. Found(p) = \E q \in added : Ideal!Same(p, q)
        <5>1. Found(p) <=> \E q \in added : IF kind = "fixset" THEN Front(p) = Front(q) ELSE p = q
          BY <4>1, FoundIsAdded, TrieAssumption
        <5>2. \A q \in added : Ideal!Same(p, q) <=> IF kind = "fixset" THEN Front(p) = Front(q) ELSE p = q
          BY DEF Ideal!Same, Ideal!Front, Front
        <5>3. Found(p) \in BOOLEAN
          BY DEF Found
        <5>. QED  BY <5>1, <5>2, <5>3
      <4>3. Ideal!Has(p)
        BY <4>1, <4>2 DEF Ideal!Has
      <4>. QED  BY <2>1, <4>3 DEF Ideal!Next
    <3>. QED  BY <3>1, <3>2
  <2>4. CASE Leaf
    <3>1. /\ pc = "adding" /\ pc' = "idle" /\ added' = added \cup {arg}
          /\ UNCHANGED <<kind, asked, answer>> /\ asked = <<>>
      BY <2>1, <2>4 DEF Leaf
    <3>2. Ideal!Add(arg)
      BY <3>1 DEF Ideal!Add
    <3>. QED  BY <2>1, <3>1, <3>2 DEF Ideal!Next
  <2>5. CASE Free
    <3>1. /\ pc = "idle" /\ pc' = "freed" /\ added' = {}
          /\ UNCHANGED <<kind, asked, answer>> /\ asked = <<>>
      BY <2>1, <2>5 DEF Free
    <3>2. Ideal!Free
      BY <3>1 DEF Ideal!Free
    <3>. QED  BY <3>2 DEF Ideal!Next
  <2>6. CASE HasReturns
    <3>1. Ideal!Taken
      BY <2>1, <2>6 DEF HasReturns, Ideal!Taken
    <3>. QED  BY <3>1 DEF Ideal!Next
  <2>7. CASE FixsetRound \/ ListRound \/ DynarrRound \/ DynarrOverruns \/ BstRound
               \/ FixRecolours \/ FixTurns \/ FixCrashes \/ FixReturns \/ Dies \/ UNCHANGED vars
    BY <2>7 DEF FixsetRound, ListRound, DynarrRound, DynarrOverruns, BstRound, FixRecolours,
         FixTurns, FixCrashes, FixReturns, Dies, Round, Fixing, vars, tvars
  <2>. QED  BY <2>2, <2>3, <2>4, <2>5, <2>6, <2>7 DEF Next, AddStep
<1>. QED  BY <1>1, <1>2, TrieAlways, PTL DEF Spec, ImplementsPtrSet, Ideal!Spec

-----------------------------------------------------------------------------
(* Red and black, where every turn was an outer one *)

\* how many black kids there are on every way down from y, y included
Blacks(H, y) == IF y = NULL THEN 0 ELSE H[y]

\* what x itself adds to them
Ink(t, x) == IF t.color[x] = "BLACK" THEN 1 ELSE 0

\* H counts the same along every way
Level(t, H) ==
  /\ H \in [Kids(t) -> Nat]
  /\ \A x \in Kids(t), s \in Sides : H[x] = Blacks(H, t.kid[s][x]) + Ink(t, x)

IsLevel(t) == \E H \in [Kids(t) -> Nat] : Level(t, H)

\* no red kid but those of B has a red one above it
RedApart(t, B) ==
  \A x \in Kids(t) \ ({t.root} \cup B) :
    t.color[x] = "RED" => t.color[t.parent[x]] = "BLACK"

\* the trees that kid_fix() returns, and those it works on at p
Balanced(t) ==
  /\ IsLevel(t) /\ RedApart(t, {})
  /\ t.root # NULL => t.color[t.root] = "BLACK"

Mending(t, p) ==
  /\ IsLevel(t) /\ RedApart(t, {p})
  /\ p \in Kids(t) /\ t.color[p] = "RED"
  /\ t.root # p => t.color[t.root] = "BLACK"

\* a node where every turn was an outer one, and what kid_fix() crashes at
BalanceInv ==
  /\ kind = "bst" => \A x \in DOMAIN node \ turnedIn :
                       IF pc = "fixing" /\ x = at THEN Mending(node[x], fix)
                       ELSE Balanced(node[x])
  /\ pc = "crashed" => at \in turnedIn

\* the kids that have x below them are x and those that have its parent
LEMMA AboveParent ==
  ASSUME NEW t, NEW D, Tree(t, D), NULL \notin Int, NEW x \in Kids(t) \ {t.root}
  PROVE  /\ t.parent[x] \in Kids(t) /\ x \notin {y \in Kids(t) : t.parent[x] \in D[y]}
         /\ {y \in Kids(t) : x \in D[y]} = {x} \cup {y \in Kids(t) : t.parent[x] \in D[y]}
<1>. DEFINE K == Kids(t)
            u == t.parent[x]
            B == {y \in K : x \in D[y] /\ x # y => u \in D[y]}
<1>1. /\ Typed(t) /\ Subtrees(t, D) /\ NULL \notin K
      /\ \A y \in K, d \in Sides : t.kid[d][y] \in K \cup {NULL}
      /\ \A y \in K, d \in Sides : t.kid[d][y] # NULL => t.parent[t.kid[d][y]] = y
  BY DEF Tree, Typed, LinksAgree
<1>2. u \in K /\ \E d \in Sides : t.kid[d][u] = x
  BY DEF Tree, LinksAgree
<1>3. /\ \A y \in K : y \in D[y] /\ Part(D, y) = D[y] /\ D[y] \subseteq K
      /\ \A y \in K, d \in Sides : Part(D, t.kid[d][y]) \subseteq D[y] /\ y \notin Part(D, t.kid[d][y])
      /\ \A y \in K : D[y] = {y} \cup Part(D, t.kid["left"][y]) \cup Part(D, t.kid["right"][y])
  <2>1. \A y \in K, d \in Sides :
           /\ D[y] = {y} \cup Part(D, t.kid[d][y]) \cup Part(D, t.kid[Other(d)][y])
           /\ y \notin Part(D, t.kid[d][y]) /\ D[y] \subseteq K
    BY <1>1 DEF Subtrees
  <2>2. "left" \in Sides /\ Other("left") = "right"
    BY DEF Sides, Other
  <2>3. \A y \in K : Part(D, y) = D[y]
    BY <1>1 DEF Part
  <2>. QED  BY <2>1, <2>2, <2>3
<1>4. \A y \in K : u \in D[y] => x \in D[y]
  <2>. DEFINE C == {y \in K : u \in D[y] => x \in D[y]}
  <2>1. ASSUME NEW y \in K, \A d \in Sides : t.kid[d][y] \in C \cup {NULL}
        PROVE  y \in C
    <3>. SUFFICES ASSUME u \in D[y] PROVE x \in D[y]
      OBVIOUS
    <3>1. CASE u = y
      <4>1. PICK d \in Sides : t.kid[d][u] = x
        BY <1>2
      <4>2. x \in Part(D, t.kid[d][u])
        BY <1>3, <4>1
      <4>. QED  BY <1>3, <3>1, <4>2
    <3>2. CASE u # y
      <4>1. PICK d \in Sides : u \in Part(D, t.kid[d][y])
        BY <1>3, <3>2 DEF Sides
      <4>2. t.kid[d][y] \in C
        BY <2>1, <4>1 DEF Part
      <4>3. Part(D, t.kid[d][y]) = D[t.kid[d][y]]
        BY <1>3, <4>2
      <4>. QED  BY <1>3, <4>1, <4>2, <4>3
    <3>. QED  BY <3>1, <3>2
  <2>2. C \in SUBSET K
    OBVIOUS
  <2>. HIDE DEF C
  <2>3. C = K
    BY <1>1, <2>1, <2>2, FromTheLeaves
  <2>. QED  BY <2>3 DEF C
<1>5. \A y \in K : x \in D[y] /\ x # y => u \in D[y]
  <2>1. ASSUME NEW y \in K, \A d \in Sides : t.kid[d][y] \in B \cup {NULL}
        PROVE  y \in B
    <3>. SUFFICES ASSUME x \in D[y], x # y PROVE u \in D[y]
      OBVIOUS
    <3>1. PICK d \in Sides : x \in Part(D, t.kid[d][y])
      BY <1>3 DEF Sides
    <3>2. t.kid[d][y] \in B /\ t.kid[d][y] # NULL
      BY <1>1, <2>1, <3>1 DEF Part
    <3>3. Part(D, t.kid[d][y]) = D[t.kid[d][y]]
      BY <1>3, <3>2
    <3>4. CASE x = t.kid[d][y]
      <4>1. u = y
        BY <1>1, <3>2, <3>4
      <4>. QED  BY <1>3, <4>1
    <3>5. CASE x # t.kid[d][y]
      BY <1>3, <3>1, <3>2, <3>3, <3>5
    <3>. QED  BY <3>4, <3>5
  <2>2. B \in SUBSET K
    OBVIOUS
  <2>. HIDE DEF B
  <2>3. B = K
    BY <1>1, <2>1, <2>2, FromTheLeaves
  <2>. QED  BY <2>3 DEF B
<1>6. u \notin D[x]
  <2>1. PICK d \in Sides : t.kid[d][u] = x
    BY <1>2
  <2>2. u \notin Part(D, t.kid[d][u])
    BY <1>2, <1>3
  <2>. QED  BY <1>3, <2>1, <2>2
<1>. QED  BY <1>2, <1>3, <1>4, <1>5, <1>6

\* the black kids above x, x included, make up with those below it what the
\* root has
LEMMA BlacksAboveAre ==
  ASSUME NEW t, NEW D, Tree(t, D), NULL \notin Int, NEW H, Level(t, H)
  PROVE  \A x \in Kids(t) : /\ t.root \in Kids(t)
                            /\ BlacksAbove(t, x) = H[t.root] - H[x] + Ink(t, x)
<1>. DEFINE K == Kids(t)
            A(x) == {y \in K : x \in D[y] /\ t.color[y] = "BLACK"}
            B == {x \in K : Cardinality(A(x)) = H[t.root] - H[x] + Ink(t, x)}
<1>1. /\ Typed(t) /\ Subtrees(t, D) /\ NULL \notin K /\ IsFiniteSet(K)
      /\ Part(D, t.root) = K
      /\ \A y \in K, d \in Sides : t.kid[d][y] \in K \cup {NULL}
      /\ \A y \in K, d \in Sides : t.kid[d][y] # NULL => t.parent[t.kid[d][y]] = y
      /\ t.root # NULL => t.parent[t.root] = NULL
      /\ t.root \in K \cup {NULL}
  BY DEF Tree, Typed, LinksAgree
<1>2. \A x \in K : Under(t, x) = D[x]
  BY <1>1, SubtreesUnder
<1>3. \A x \in K : IsFiniteSet(A(x)) /\ Cardinality(A(x)) \in Nat
  BY <1>1, FS_Subset, FS_CardinalityType
<1>4. K # {} => t.root \in K
  BY <1>1 DEF Part
<1>5. /\ \A x \in K : H[x] \in Nat /\ Ink(t, x) \in {0, 1} /\ x \in D[x]
      /\ \A x \in K, d \in Sides : H[x] = Blacks(H, t.kid[d][x]) + Ink(t, x)
  <2>1. \A x \in K : H[x] \in Nat /\ Ink(t, x) \in {0, 1}
    BY DEF Level, Ink
  <2>2. "left" \in Sides
    BY DEF Sides
  <2>. QED  BY <1>1, <2>1, <2>2 DEF Level, Subtrees
<1>6. ASSUME K # {} PROVE t.root \in B
  <2>1. \A y \in K : t.root \in D[y] => y = t.root
    <3>. DEFINE C == {y \in K : t.root \in D[y] => y = t.root}
    <3>1. ASSUME NEW y \in K, \A d \in Sides : t.kid[d][y] \in C \cup {NULL} PROVE y \in C
      <4>. SUFFICES ASSUME t.root \in D[y], y # t.root PROVE FALSE
        OBVIOUS
      <4>1. PICK d \in Sides : t.root \in Part(D, t.kid[d][y])
        <5>1. "left" \in Sides /\ Other("left") \in Sides
          BY DEF Sides, Other
        <5>2. D[y] = {y} \cup Part(D, t.kid["left"][y]) \cup Part(D, t.kid[Other("left")][y])
          BY <1>1, <5>1 DEF Subtrees
        <5>. QED  BY <5>1, <5>2
      <4>2. t.kid[d][y] # NULL /\ t.kid[d][y] \in C /\ t.root \in D[t.kid[d][y]]
        BY <3>1, <4>1 DEF Part
      <4>3. t.kid[d][y] = t.root
        BY <4>2
      <4>4. t.parent[t.root] = y
        BY <1>1, <4>2, <4>3
      <4>. QED  BY <1>1, <4>2, <4>3, <4>4
    <3>2. C \in SUBSET K
      OBVIOUS
    <3>. HIDE DEF C
    <3>3. C = K
      BY <1>1, <3>1, <3>2, FromTheLeaves
    <3>. QED  BY <3>3 DEF C
  <2>2. A(t.root) = IF t.color[t.root] = "BLACK" THEN {t.root} ELSE {}
    BY <1>4, <1>5, <1>6, <2>1
  <2>3. Cardinality(A(t.root)) = Ink(t, t.root)
    <3>1. Cardinality({t.root}) = 1 /\ Cardinality({}) = 0
      BY FS_EmptySet, FS_Singleton
    <3>2. CASE t.color[t.root] = "BLACK"
      <4>1. A(t.root) = {t.root} /\ Ink(t, t.root) = 1
        BY <2>2, <3>2 DEF Ink
      <4>. QED  BY <3>1, <4>1
    <3>3. CASE t.color[t.root] # "BLACK"
      <4>1. A(t.root) = {} /\ Ink(t, t.root) = 0
        BY <2>2, <3>3 DEF Ink
      <4>. QED  BY <3>1, <4>1
    <3>. QED  BY <3>2, <3>3
  <2>4. Cardinality(A(t.root)) = H[t.root] - H[t.root] + Ink(t, t.root)
    <3>1. H[t.root] \in Nat /\ Ink(t, t.root) \in Nat
      BY <1>4, <1>5, <1>6
    <3>. HIDE DEF A
    <3>. QED  BY <2>3, <3>1
  <2>. QED  BY <1>4, <1>6, <2>4
<1>7. Closed(t, B)
  <2>. SUFFICES ASSUME NEW y \in B, NEW d \in Sides, t.kid[d][y] # NULL
                PROVE  t.kid[d][y] \in B
    BY DEF Closed
  <2>. DEFINE x == t.kid[d][y]
  <2>1. x \in K /\ t.parent[x] = y /\ x # t.root
    BY <1>1
  <2>2. /\ x \notin {z \in K : y \in D[z]}
        /\ {z \in K : x \in D[z]} = {x} \cup {z \in K : y \in D[z]}
    BY <2>1, AboveParent
  <2>3. H[y] = H[x] + Ink(t, y)
    BY <1>1, <1>5, <2>1 DEF Blacks
  <2>4. Cardinality(A(x)) = Cardinality(A(y)) + Ink(t, x)
    <3>1. CASE t.color[x] = "BLACK"
      <4>1. A(x) = A(y) \cup {x} /\ x \notin A(y)
        BY <2>1, <2>2, <3>1
      <4>2. Cardinality(A(x)) = Cardinality(A(y)) + 1
        BY <1>3, <4>1, FS_AddElement
      <4>. QED  BY <3>1, <4>2 DEF Ink
    <3>2. CASE t.color[x] # "BLACK"
      <4>1. A(x) = A(y)
        BY <2>1, <2>2, <3>2
      <4>2. Ink(t, x) = 0 /\ Cardinality(A(y)) \in Nat
        BY <1>3, <3>2 DEF Ink
      <4>. HIDE DEF A
      <4>. QED  BY <4>1, <4>2
    <3>. QED  BY <3>1, <3>2
  <2>5. Cardinality(A(y)) = H[t.root] - H[y] + Ink(t, y)
    OBVIOUS
  <2>6. H[t.root] \in Nat /\ H[x] \in Nat /\ H[y] \in Nat /\ Ink(t, x) \in Nat /\ Ink(t, y) \in Nat
    BY <1>4, <1>5, <2>1
  <2>7. Cardinality(A(x)) = H[t.root] - H[x] + Ink(t, x)
    <3>. HIDE DEF A, x
    <3>. QED  BY <2>3, <2>4, <2>5, <2>6
  <2>. QED  BY <2>1, <2>7
<1>8. B = K
  <2>1. B \in SUBSET K
    OBVIOUS
  <2>2. CASE K = {}
    BY <2>1, <2>2
  <2>3. CASE K # {}
    <3>1. Under(t, t.root) \subseteq B
      <4>. HIDE DEF B
      <4>. QED  BY <1>1, <1>4, <1>6, <1>7, <2>1, <2>3, UnderLeast
    <3>2. Under(t, t.root) = K
      BY TreeShows
    <3>. QED  BY <2>1, <3>1, <3>2
  <2>. QED  BY <2>2, <2>3
<1>9. \A x \in K : BlacksAbove(t, x) = Cardinality(A(x))
  BY <1>2 DEF BlacksAbove
<1>. QED  BY <1>4, <1>8, <1>9

\* such a tree is red-black as KidTree says it
LEMMA BalancedIsRedBlack ==
  ASSUME NEW t, IsTree(t), NULL \notin Int, Balanced(t)
  PROVE  RedBlack(t)
<1>1. PICK D : Tree(t, D)
  BY DEF IsTree
<1>2. PICK H : Level(t, H)
  BY DEF Balanced, IsLevel
<1>3. ASSUME NEW x \in Kids(t), NEW s \in Sides, t.kid[s][x] = NULL
      PROVE  BlacksAbove(t, x) = H[t.root]
  <2>1. H[x] = Blacks(H, NULL) + Ink(t, x) /\ H[x] \in Nat
    BY <1>2, <1>3 DEF Level
  <2>2. t.root \in Kids(t) /\ BlacksAbove(t, x) = H[t.root] - H[x] + Ink(t, x)
    BY <1>1, <1>2, BlacksAboveAre
  <2>3. Blacks(H, NULL) = 0 /\ H[t.root] \in Nat /\ Ink(t, x) \in Nat
    BY <1>2, <2>2 DEF Level, Blacks, Ink
  <2>. QED  BY <2>1, <2>2, <2>3
<1>4. \A x \in Kids(t) \ {t.root} : t.color[x] = "RED" => t.color[t.parent[x]] = "BLACK"
  BY DEF Balanced, RedApart
<1>. QED  BY <1>3, <1>4 DEF RedBlack, Balanced

\* a tree as its links show it
LEMMA TreeLinks ==
  ASSUME NEW t, IsTree(t), NULL \notin Int
  PROVE  /\ NULL \notin Kids(t) /\ Kids(t) \subseteq Int
         /\ \A x \in Kids(t), d \in Sides :
              /\ t.kid[d][x] \in Kids(t) \cup {NULL}
              /\ t.kid[d][x] # NULL => /\ t.parent[t.kid[d][x]] = x
                                       /\ SideOf(t.kid[d][x], x) = d /\ t.kid[d][x] # x
         /\ \A x \in Kids(t) \ {t.root} :
              t.parent[x] \in Kids(t) /\ \E d \in Sides : t.kid[d][t.parent[x]] = x
         /\ t.root \in Kids(t) \cup {NULL} /\ (t.root # NULL => t.parent[t.root] = NULL)
         /\ Kids(t) # {} => t.root \in Kids(t)
         /\ \A x \in Kids(t) : t.color[x] \in {"RED", "BLACK"}
<1>1. PICK D : Tree(t, D)
  BY DEF IsTree
<1>2. /\ NULL \notin Kids(t) /\ Kids(t) \subseteq Int /\ t.root \in Kids(t) \cup {NULL}
      /\ \A x \in Kids(t) : t.color[x] \in {"RED", "BLACK"}
      /\ \A x \in Kids(t), d \in Sides : t.kid[d][x] \in Kids(t) \cup {NULL}
  BY <1>1 DEF Tree, Typed
<1>3. /\ \A x \in Kids(t), d \in Sides : t.kid[d][x] # NULL => t.parent[t.kid[d][x]] = x
      /\ \A x \in Kids(t) \ {t.root} :
              t.parent[x] \in Kids(t) /\ \E d \in Sides : t.kid[d][t.parent[x]] = x
      /\ t.root # NULL => t.parent[t.root] = NULL
      /\ Kids(t) # {} => t.root # NULL
  BY <1>1 DEF Tree, LinksAgree, Part
<1>4. ASSUME NEW x \in Kids(t), NEW d \in Sides, t.kid[d][x] # NULL
      PROVE  SideOf(t.kid[d][x], x) = d /\ t.kid[d][x] # x
  <2>. DEFINE y == t.kid[d][x]
  <2>1. y \in Kids(t)
    BY <1>2, <1>4
  <2>2. \A z \in Kids(t), e \in Sides : D[z] = {z} \cup Part(D, t.kid[e][z]) \cup Part(D, t.kid[Other(e)][z])
    BY <1>1 DEF Tree, Subtrees
  <2>. HIDE DEF y
  <2>3. y \in D[y]
    BY <2>1, <2>2
  <2>4. y \in Part(D, y)
    BY <1>2, <2>1, <2>3 DEF Part
  <2>5. \A v \in Part(D, t.kid[d][x]) : SideOf(v, x) = d /\ v # x
    BY <1>1 DEF Tree, Subtrees
  <2>. QED  BY <2>4, <2>5 DEF y
<1>. QED  BY <1>2, <1>3, <1>4

\* a node has no kids at first
LEMMA EmptyIsBalanced == NULL \notin Int => Balanced(EmptyTree)
<1>. SUFFICES ASSUME NULL \notin Int PROVE Balanced(EmptyTree)
  OBVIOUS
<1>1. Kids(EmptyTree) = {} /\ EmptyTree.root = NULL
  BY EmptyIsTree DEF EmptyTree
<1>2. [x \in {} |-> 0] \in [Kids(EmptyTree) -> Nat]
  BY <1>1
<1>3. Level(EmptyTree, [x \in {} |-> 0])
  BY <1>1, <1>2 DEF Level
<1>. QED  BY <1>1, <1>2, <1>3 DEF Balanced, IsLevel, RedApart

\* the new kid is red, and is the only one that may have a red kid above it
LEMMA LinkedMends ==
  ASSUME NEW t, Settled(t), Balanced(t), NULL \notin Int,
         NEW c \in Int \ Kids(t), NEW u \in Hooks(t, c)
  PROVE  Mending(Linked(t, c, u), c)
<1>. DEFINE K == Kids(t)
            n == Linked(t, c, u)
<1>1. PICK D : Tree(t, D)
  BY DEF Settled, IsTree
<1>2. IsTree(t) /\ t.kids = t.root
  BY DEF Settled
<1>3. PICK H \in [K -> Nat] : Level(t, H)
  BY DEF Balanced, IsLevel
<1>. DEFINE G == [x \in K \cup {c} |-> IF x = c THEN 0 ELSE H[x]]
<1>4. /\ n.root = IF u = NULL THEN c ELSE t.root
      /\ n.color = [x \in K \cup {c} |-> IF x = c THEN "RED" ELSE t.color[x]]
      /\ \A x \in K : n.parent[x] = t.parent[x]
      /\ \A d \in Sides : \A x \in K : n.kid[d][x] = IF x = u /\ d = SideOf(c, u) THEN c ELSE t.kid[d][x]
      /\ \A d \in Sides : n.kid[d][c] = NULL
  <2>. DEFINE L(d, x) == IF x = c THEN NULL ELSE IF x = u /\ d = SideOf(c, u) THEN c ELSE t.kid[d][x]
              R == IF u = NULL THEN c ELSE t.kids
              LL == [d \in Sides |-> [x \in K \cup {c} |-> L(d, x)]]
              PP == [x \in K \cup {c} |-> IF x = c THEN u ELSE t.parent[x]]
              CC == [x \in K \cup {c} |-> IF x = c THEN "RED" ELSE t.color[x]]
  <2>1. n = [kids |-> R, root |-> R, kid |-> LL, parent |-> PP, color |-> CC]
    BY Zenon DEF Linked
  <2>. HIDE DEF n, R, LL, PP, CC
  <2>2. n.root = R /\ n.kid = LL /\ n.parent = PP /\ n.color = CC
    BY <2>1
  <2>3. \A d \in Sides, x \in K \cup {c} : n.kid[d][x] = L(d, x)
    BY <2>2 DEF LL
  <2>. QED  BY <1>2, <2>2, <2>3 DEF R, PP, CC
<1>5. IsTree(n) /\ Kids(n) = K \cup {c}
  BY LinkedIsTree DEF Settled
<1>. HIDE DEF n
<1>6. /\ u = NULL => K = {}
      /\ u # NULL => u \in K /\ t.kid[SideOf(c, u)][u] = NULL
  <2>1. K # {} => t.root \in K
    BY <1>2, TreeLinks
  <2>2. \/ t.kids = NULL /\ u = NULL
        \/ u \in K /\ t.kid[SideOf(c, u)][u] = NULL /\ Leads(t, D, c, u)
    BY <1>1, <1>2, HooksLead
  <2>3. NULL \notin K
    BY <1>2, TreeLinks
  <2>. QED  BY <1>2, <2>1, <2>2, <2>3
<1>7. Level(n, G)
  <2>1. G \in [K \cup {c} -> Nat] /\ G[c] = 0 /\ \A x \in K : G[x] = H[x]
    BY <1>3
  <2>. HIDE DEF G
  <2>2. c \notin K /\ c # NULL /\ NULL \notin K /\ \A x \in K, d \in Sides : t.kid[d][x] \in K \cup {NULL}
    BY <1>2, TreeLinks
  <2>3. ASSUME NEW d \in Sides PROVE G[c] = Blacks(G, n.kid[d][c]) + Ink(n, c)
    BY <1>4, <2>1 DEF Blacks, Ink
  <2>4. ASSUME NEW x \in K, NEW d \in Sides PROVE G[x] = Blacks(G, n.kid[d][x]) + Ink(n, x)
    <3>1. H[x] = Blacks(H, t.kid[d][x]) + Ink(t, x)
      BY <1>3 DEF Level
    <3>2. Ink(n, x) = Ink(t, x)
      BY <1>4, <2>2 DEF Ink
    <3>3. Blacks(G, n.kid[d][x]) = Blacks(H, t.kid[d][x])
      BY <1>4, <1>6, <2>1, <2>2 DEF Blacks
    <3>. QED  BY <2>1, <3>1, <3>2, <3>3
  <2>. QED  BY <1>5, <2>1, <2>3, <2>4 DEF Level
<1>8. RedApart(n, {c})
  <2>. SUFFICES ASSUME NEW x \in K \ {n.root, c}, n.color[x] = "RED" PROVE n.color[n.parent[x]] = "BLACK"
    BY <1>5 DEF RedApart
  <2>1. x \in K \ {t.root} /\ t.color[x] = "RED"
    BY <1>4, <1>6
  <2>2. t.color[t.parent[x]] = "BLACK" /\ t.parent[x] \in K
    BY <1>2, <2>1, TreeLinks DEF Balanced, RedApart
  <2>. QED  BY <1>4, <2>2
<1>9. c \in Kids(n) /\ n.color[c] = "RED" /\ (n.root # c => n.color[n.root] = "BLACK")
  <2>1. n.root # c => n.root = t.root /\ t.root \in K /\ t.root # NULL
    BY <1>2, <1>4, <1>6, TreeLinks
  <2>. QED  BY <1>4, <1>5, <2>1 DEF Balanced
<1>10. IsLevel(n)
  <2>1. G \in [Kids(n) -> Nat]
    BY <1>3, <1>5
  <2>. HIDE DEF G
  <2>. QED  BY <1>7, <2>1 DEF IsLevel
<1>. QED  BY <1>8, <1>9, <1>10 DEF Mending, n

\* where kid_fix() goes on there is a red parent, and a black grandparent
LEMMA FixAt ==
  ASSUME NEW t, IsTree(t), NULL \notin Int, NEW p, Mending(t, p), Unfixed(t, p)
  PROVE  LET u == t.parent[p]
             g == Gp(t, p)
             s == ParentSide(t, p)
             v == Uncle(t, p)
         IN  /\ p \in Kids(t) /\ u \in Kids(t) /\ g \in Kids(t) /\ v \in Kids(t) \cup {NULL}
             /\ u # t.root /\ p # t.root /\ t.parent[u] = g /\ (v # NULL => t.parent[v] = g)
             /\ p # u /\ p # g /\ u # g /\ v \notin {u, p, g}
             /\ t.color[p] = "RED" /\ t.color[u] = "RED" /\ t.color[g] = "BLACK"
             /\ s \in Sides /\ t.kid[s][g] = u /\ t.kid[Other(s)][g] = v
             /\ ~Inner(t, p) => t.kid[s][u] = p
<1>. DEFINE K == Kids(t)
            u == t.parent[p]
            g == t.parent[u]
            s == ParentSide(t, p)
            v == t.kid[Other(s)][g]
<1>1. p \in K /\ p # t.root /\ t.color[p] = "RED" /\ t.color[u] = "RED" /\ RedApart(t, {p})
  BY DEF Mending, Unfixed
<1>2. u \in K /\ (\E d \in Sides : t.kid[d][u] = p) /\ NULL \notin K
  BY <1>1, TreeLinks
<1>3. u # p
  BY <1>1, <1>2, TreeLinks
<1>4. u # t.root
  BY <1>1 DEF Mending
<1>5. g \in K /\ \E d \in Sides : t.kid[d][g] = u
  BY <1>2, <1>4, TreeLinks
<1>6. t.color[g] = "BLACK"
  BY <1>1, <1>2, <1>3, <1>4 DEF RedApart
<1>7. Gp(t, p) = g /\ Uncle(t, p) = v
  BY DEF Gp, Uncle
<1>8. s \in Sides /\ t.kid[s][g] = u
  BY <1>5, <1>7 DEF ParentSide, Sides
<1>9. Other(s) \in Sides /\ Other(s) # s /\ \A d \in Sides : d \in {s, Other(s)}
  BY <1>8 DEF Sides, Other
<1>. HIDE DEF s, u, g
<1>10. v \in K \cup {NULL} /\ (v # NULL => t.parent[v] = g /\ SideOf(v, g) = Other(s))
  BY <1>5, <1>9, TreeLinks
<1>11. SideOf(u, g) = s /\ t.parent[u] = g
  BY <1>2, <1>5, <1>8, TreeLinks
<1>12. t.parent[p] = u
  BY DEF u
<1>13. p # g /\ u # g
  BY <1>1, <1>6
<1>14. v # NULL => v \notin {u, p, g}
  <2>1. v # NULL => v # u /\ v # p
    BY <1>9, <1>10, <1>11, <1>12, <1>13
  <2>2. v # NULL => v # g
    BY <1>5, <1>9, TreeLinks
  <2>. QED  BY <2>1, <2>2
<1>15. v \notin {u, p, g}
  BY <1>1, <1>2, <1>5, <1>14
<1>16. ~Inner(t, p) => t.kid[s][u] = p
  <2>1. Inner(t, p) <=> p = t.kid[Other(s)][u]
    BY DEF Inner, s, u
  <2>. QED  BY <1>2, <1>9, <2>1
<1>. QED  BY <1>1, <1>2, <1>3, <1>4, <1>5, <1>6, <1>7, <1>8, <1>10, <1>11, <1>13, <1>15, <1>16 DEF s, u, g

\* what a painted tree has
LEMMA PaintedIs ==
  ASSUME NEW t, IsTree(t), NEW K, NEW c \in {"RED", "BLACK"}, NEW n, n = Painted(t, K, c)
  PROVE  /\ IsTree(n) /\ Kids(n) = Kids(t)
         /\ n.kids = t.kids /\ n.root = t.root /\ n.kid = t.kid /\ n.parent = t.parent
         /\ n.color = [x \in Kids(t) |-> IF x \in K THEN c ELSE t.color[x]]
<1>1. PICK D : Tree(t, D)
  BY DEF IsTree
<1>2. t = [kids |-> t.kids, root |-> t.root, kid |-> t.kid, parent |-> t.parent, color |-> t.color]
  BY <1>1 DEF Tree, Typed
<1>3. IsTree(Painted(t, K, c)) /\ Kids(Painted(t, K, c)) = Kids(t)
  BY <1>1, PaintedTree, TreeIs
<1>. QED  BY <1>2, <1>3 DEF Painted

\* a red uncle: the red goes up two kids, and with it the trouble
LEMMA RecolouredMends ==
  ASSUME NEW t, IsTree(t), NULL \notin Int, NEW p, Mending(t, p), Unfixed(t, p), UncleRed(t, p)
  PROVE  Mending(Recoloured(t, p), Gp(t, p))
<1>. DEFINE K == Kids(t)
            u == t.parent[p]
            g == Gp(t, p)
            s == ParentSide(t, p)
            v == Uncle(t, p)
            n == Recoloured(t, p)
<1>1. /\ p \in K /\ u \in K /\ g \in K /\ v \in K
      /\ u # t.root /\ p # t.root /\ t.parent[u] = g /\ t.parent[v] = g
      /\ p # u /\ p # g /\ u # g /\ v \notin {u, p, g}
      /\ t.color[p] = "RED" /\ t.color[u] = "RED" /\ t.color[g] = "BLACK" /\ t.color[v] = "RED"
      /\ s \in Sides /\ t.kid[s][g] = u /\ t.kid[Other(s)][g] = v
  BY FixAt DEF UncleRed
<1>2. /\ Kids(n) = K /\ n.root = t.root /\ n.kid = t.kid /\ n.parent = t.parent
      /\ \A x \in K : n.color[x] = IF x = g THEN "RED" ELSE IF x \in {u, v} THEN "BLACK" ELSE t.color[x]
  <2>. DEFINE A == {u, v}
              B == {g}
  <2>. HIDE DEF A, B
  <2>0. PICK m, o : m = Painted(t, A, "BLACK") /\ o = Painted(m, B, "RED")
    OBVIOUS
  <2>1. /\ IsTree(m) /\ Kids(m) = K /\ m.root = t.root /\ m.kid = t.kid /\ m.parent = t.parent
        /\ m.color = [x \in K |-> IF x \in A THEN "BLACK" ELSE t.color[x]]
    BY <2>0, PaintedIs
  <2>2. /\ Kids(o) = K /\ o.root = t.root /\ o.kid = t.kid /\ o.parent = t.parent
        /\ o.color = [x \in K |-> IF x \in B THEN "RED" ELSE m.color[x]]
    BY <2>0, <2>1, PaintedIs
  <2>3. n = o
    BY <2>0 DEF Recoloured, A, B
  <2>. HIDE DEF n
  <2>. QED  BY <2>1, <2>2, <2>3 DEF A, B
<1>3. /\ NULL \notin K /\ \A x \in K, d \in Sides : t.kid[d][x] \in K \cup {NULL}
      /\ \A x \in K, d \in Sides : t.kid[d][x] # NULL => t.parent[t.kid[d][x]] = x
      /\ \A x \in K \ {t.root} : t.parent[x] \in K /\ \E d \in Sides : t.kid[d][t.parent[x]] = x
  BY TreeLinks
<1>4. PICK H \in [K -> Nat] : Level(t, H)
  BY DEF Mending, IsLevel
<1>5. \A x \in K, d \in Sides : H[x] = Blacks(H, t.kid[d][x]) + Ink(t, x)
  BY <1>4 DEF Level
<1>6. \A d \in Sides : d \in {s, Other(s)} /\ Other(s) \in Sides
  BY <1>1 DEF Sides, Other
<1>. HIDE DEF K, u, g, s, v, n
<1>. DEFINE G == [x \in K |-> IF x \in {u, v} THEN H[x] + 1 ELSE H[x]]
<1>7. G \in [K -> Nat] /\ \A x \in K : G[x] = IF x \in {u, v} THEN H[x] + 1 ELSE H[x]
  BY <1>4
<1>. HIDE DEF G
<1>8. ASSUME NEW x \in K, NEW d \in Sides PROVE G[x] = Blacks(G, n.kid[d][x]) + Ink(n, x)
  <2>. DEFINE y == t.kid[d][x]
  <2>1. H[x] = Blacks(H, y) + Ink(t, x) /\ n.kid[d][x] = y /\ y \in K \cup {NULL}
        /\ H[x] \in Nat /\ (y # NULL => H[y] \in Nat)
    BY <1>2, <1>3, <1>4, <1>5
  <2>2. CASE x = g
    <3>1. y \in {u, v}
      BY <1>1, <1>6, <2>2
    <3>2. Ink(t, x) = 1 /\ Ink(n, x) = 0
      BY <1>1, <1>2, <2>2 DEF Ink
    <3>3. y # NULL /\ G[x] = H[x] /\ G[y] = H[y] + 1
      BY <1>1, <1>3, <1>7, <2>2, <3>1
    <3>. HIDE DEF y
    <3>. QED  BY <2>1, <3>2, <3>3 DEF Blacks
  <2>3. CASE x # g
    <3>1. y \notin {u, v}
      BY <1>1, <1>3, <2>3
    <3>2. Blacks(G, y) = Blacks(H, y) /\ Blacks(H, y) \in Nat
      BY <1>7, <2>1, <3>1 DEF Blacks
    <3>3. CASE x \in {u, v}
      <4>1. Ink(t, x) = 0 /\ Ink(n, x) = 1 /\ G[x] = H[x] + 1
        BY <1>1, <1>2, <1>7, <2>3, <3>3 DEF Ink
      <4>. HIDE DEF y
      <4>. QED  BY <2>1, <3>2, <4>1
    <3>4. CASE x \notin {u, v}
      <4>1. Ink(n, x) = Ink(t, x) /\ G[x] = H[x]
        BY <1>2, <1>7, <2>3, <3>4 DEF Ink
      <4>. HIDE DEF y
      <4>. QED  BY <2>1, <3>2, <4>1
    <3>. QED  BY <3>3, <3>4
  <2>. QED  BY <2>2, <2>3
<1>9. IsLevel(n)
  BY <1>2, <1>7, <1>8 DEF IsLevel, Level
<1>10. RedApart(n, {g})
  <2>. SUFFICES ASSUME NEW x \in K \ {n.root, g}, n.color[x] = "RED" PROVE n.color[n.parent[x]] = "BLACK"
    BY <1>2 DEF RedApart
  <2>1. x # t.root /\ x \notin {u, v} /\ t.color[x] = "RED"
    BY <1>2
  <2>2. CASE x = p
    <3>1. n.parent[x] = u
      BY <1>2, <2>2 DEF u
    <3>. QED  BY <1>1, <1>2, <3>1
  <2>3. CASE x # p
    <3>1. t.color[t.parent[x]] = "BLACK"
      BY <2>1, <2>3 DEF Mending, RedApart, K
    <3>2. PICK d \in Sides : t.parent[x] \in K /\ t.kid[d][t.parent[x]] = x
      BY <1>3, <2>1
    <3>3. t.parent[x] # g
      BY <1>1, <1>6, <2>1, <3>2
    <3>. QED  BY <1>2, <3>1, <3>2, <3>3
  <2>. QED  BY <2>2, <2>3
<1>11. g \in Kids(n) /\ n.color[g] = "RED" /\ (n.root # g => n.color[n.root] = "BLACK")
  <2>1. t.root \in K /\ t.color[t.root] = "BLACK"
    <3>1. t.root \in K
      BY <1>1, TreeLinks DEF K
    <3>. QED  BY <1>1, <3>1 DEF Mending
  <2>. QED  BY <1>1, <1>2, <2>1
<1>. QED  BY <1>9, <1>10, <1>11 DEF Mending, n, g

\* an outer turn: the parent comes up and is black, so kid_fix() is done
LEMMA OuterTurnedMends ==
  ASSUME NEW t, IsTree(t), NULL \notin Int, NEW p, Mending(t, p), Unfixed(t, p),
         ~UncleRed(t, p), ~Inner(t, p)
  PROVE  Mending(Turned(t, p), p)
<1>. DEFINE K == Kids(t)
            u == t.parent[p]
            g == Gp(t, p)
            s == ParentSide(t, p)
            o == Other(s)
            v == Uncle(t, p)
            b == t.kid[o][u]
            n == Turned(t, p)
<1>1. /\ p \in K /\ u \in K /\ g \in K /\ v \in K \cup {NULL}
      /\ u # t.root /\ p # t.root /\ t.parent[u] = g
      /\ p # u /\ p # g /\ u # g /\ v \notin {u, p, g}
      /\ t.color[p] = "RED" /\ t.color[u] = "RED" /\ t.color[g] = "BLACK"
      /\ v # NULL => t.color[v] = "BLACK"
      /\ s \in Sides /\ t.kid[s][g] = u /\ t.kid[o][g] = v /\ t.kid[s][u] = p
  <2>1. /\ p \in K /\ u \in K /\ g \in K /\ v \in K \cup {NULL}
        /\ u # t.root /\ p # t.root /\ t.parent[u] = g
        /\ p # u /\ p # g /\ u # g /\ v \notin {u, p, g}
        /\ t.color[p] = "RED" /\ t.color[u] = "RED" /\ t.color[g] = "BLACK"
        /\ s \in Sides /\ t.kid[s][g] = u /\ t.kid[o][g] = v /\ t.kid[s][u] = p
    BY FixAt
  <2>2. v \in K => t.color[v] \in {"RED", "BLACK"}
    BY TreeLinks
  <2>. QED  BY <2>1, <2>2 DEF UncleRed
<1>2. /\ NULL \notin K /\ \A x \in K, d \in Sides : t.kid[d][x] \in K \cup {NULL}
      /\ \A x \in K, d \in Sides : t.kid[d][x] # NULL => t.parent[t.kid[d][x]] = x
      /\ \A x \in K \ {t.root} : t.parent[x] \in K /\ \E d \in Sides : t.kid[d][t.parent[x]] = x
      /\ t.root \in K /\ t.parent[t.root] = NULL
  BY <1>1, TreeLinks
<1>3. /\ o \in Sides /\ Other(o) = s /\ o # s /\ \A d \in Sides : d \in {s, o}
  BY <1>1 DEF Sides, Other
<1>4. b \in K \cup {NULL} /\ b \notin {p, u} /\ (b # NULL => t.parent[b] = u)
      /\ (t.parent[g] = NULL <=> g = t.root)
  <2>1. \A x \in K, d \in Sides : t.kid[d][x] # NULL => SideOf(t.kid[d][x], x) = d /\ t.kid[d][x] # x
    BY TreeLinks
  <2>2. b = t.kid[o][u]
    OBVIOUS
  <2>. HIDE DEF K, u, g, s, o, v, b, n
  <2>3. b # NULL => t.parent[b] = u /\ b # u /\ SideOf(b, u) = o
    BY <1>1, <1>2, <1>3, <2>1, <2>2
  <2>4. SideOf(p, u) = s
    BY <1>1, <1>2, <1>3, <2>1
  <2>. QED  BY <1>1, <1>2, <1>3, <2>2, <2>3, <2>4
<1>5. /\ Kids(n) = K
      /\ \A x \in K : n.color[x] = IF x = g THEN "RED" ELSE IF x = u THEN "BLACK" ELSE t.color[x]
      /\ n.root = IF g = t.root THEN u ELSE t.root
      /\ n.kid[s][g] = b /\ n.kid[o][g] = v /\ n.kid[o][u] = g /\ n.kid[s][u] = p
      /\ \A x \in K \ {g, u}, d \in Sides : n.kid[d][x] = IF t.kid[d][x] = g THEN u ELSE t.kid[d][x]
      /\ n.parent[g] = u
      /\ \A x \in K \ {g, u} : n.parent[x] = IF x = b THEN g ELSE t.parent[x]
  <2>. DEFINE A == {u}
              B == {g}
  <2>. HIDE DEF A, B
  <2>0. PICK m, r : m = Painted(t, A, "BLACK") /\ r = Painted(m, B, "RED")
    OBVIOUS
  <2>1. /\ IsTree(m) /\ Kids(m) = K /\ m.root = t.root /\ m.kid = t.kid /\ m.parent = t.parent
        /\ m.color = [x \in K |-> IF x \in A THEN "BLACK" ELSE t.color[x]]
    BY <2>0, PaintedIs
  <2>2. /\ IsTree(r) /\ Kids(r) = K /\ r.root = t.root /\ r.kid = t.kid /\ r.parent = t.parent
        /\ r.color = [x \in K |-> IF x \in B THEN "RED" ELSE m.color[x]]
    BY <2>0, <2>1, PaintedIs
  <2>3. n = Rotated(r, g, o)
    BY <2>0 DEF Turned, A, B
  <2>4. PICK D : Tree(r, D)
    BY <2>2 DEF IsTree
  <2>. HIDE DEF n, g, o, K, s, u, v, b
  <2>5. r.kid[Other(o)][g] # NULL
    BY <1>1, <1>2, <1>3, <2>2
  <2>6. Kids(n) = Kids(r) /\ IsTurn(r, n, g, o)
    BY <1>1, <1>3, <2>2, <2>3, <2>4, <2>5, RotatedTree
  <2>7. /\ n.color = r.color
        /\ n.root = IF t.parent[g] = NULL THEN u ELSE t.root
        /\ n.kid[s][g] = t.kid[o][u] /\ n.kid[o][g] = t.kid[o][g]
        /\ n.kid[o][u] = g /\ n.kid[s][u] = t.kid[s][u]
        /\ \A x \in K \ {g, u}, d \in Sides : n.kid[d][x] = IF t.kid[d][x] = g THEN u ELSE t.kid[d][x]
        /\ n.parent[g] = u
        /\ \A x \in K \ {g, u} : n.parent[x] = IF x = t.kid[o][u] THEN g ELSE t.parent[x]
    <3>1. Other(o) = s /\ r.kid[Other(o)][g] = u /\ r.kid = t.kid /\ r.parent = t.parent
          /\ r.root = t.root /\ Kids(r) = K
      BY <1>1, <1>3, <2>2
    <3>2. /\ n.color = r.color
          /\ n.root = IF r.parent[g] = NULL THEN u ELSE r.root
          /\ n.kid[Other(o)][g] = r.kid[o][u] /\ n.kid[o][g] = r.kid[o][g]
          /\ n.kid[o][u] = g /\ n.kid[Other(o)][u] = r.kid[Other(o)][u]
          /\ \A x \in Kids(r) \ {g, u}, d \in Sides : n.kid[d][x] = IF r.kid[d][x] = g THEN u ELSE r.kid[d][x]
          /\ n.parent[g] = u
          /\ \A x \in Kids(r) \ {g, u} : n.parent[x] = IF x = r.kid[o][u] THEN g ELSE r.parent[x]
      BY <2>6, <3>1, Zenon DEF IsTurn
    <3>. QED  BY <3>1, <3>2
  <2>8. b = t.kid[o][u]
    BY DEF b
  <2>9. \A x \in K : r.color[x] = IF x = g THEN "RED" ELSE IF x = u THEN "BLACK" ELSE t.color[x]
    BY <2>1, <2>2 DEF A, B
  <2>. QED  BY <1>1, <1>4, <2>2, <2>6, <2>7, <2>8, <2>9
<1>6. PICK H \in [K -> Nat] : Level(t, H)
  BY DEF Mending, IsLevel
<1>7. /\ \A x \in K, d \in Sides : H[x] = Blacks(H, t.kid[d][x]) + Ink(t, x)
      /\ \A x \in K \cup {NULL} : Blacks(H, x) \in Nat
  BY <1>2, <1>6 DEF Level, Blacks
<1>8. /\ H[g] = H[u] + 1 /\ H[g] = Blacks(H, v) + 1 /\ H[u] = Blacks(H, p) /\ H[u] = Blacks(H, b)
  <2>1. Ink(t, g) = 1 /\ Ink(t, u) = 0 /\ Blacks(H, u) = H[u]
    BY <1>1, <1>2 DEF Ink, Blacks
  <2>2. H[g] = Blacks(H, u) + Ink(t, g) /\ H[g] = Blacks(H, v) + Ink(t, g)
    BY <1>1, <1>3, <1>7
  <2>3. H[u] = Blacks(H, p) + Ink(t, u) /\ H[u] = Blacks(H, b) + Ink(t, u)
    BY <1>1, <1>3, <1>7
  <2>4. Blacks(H, p) \in Nat /\ Blacks(H, b) \in Nat
    BY <1>1, <1>4, <1>7
  <2>. HIDE DEF b, u, g, v
  <2>. QED  BY <2>1, <2>2, <2>3, <2>4
<1>. HIDE DEF K, u, g, s, o, v, b, n
<1>9. b # g
  <2>1. H[g] \in Nat /\ H[u] \in Nat /\ g # NULL
    BY <1>1, <1>2, <1>6
  <2>. QED  BY <1>8, <2>1 DEF Blacks
<1>. DEFINE G == [x \in K |-> IF x = g THEN H[u] ELSE IF x = u THEN H[g] ELSE H[x]]
<1>10. /\ G \in [K -> Nat] /\ G[g] = H[u] /\ G[u] = H[g] /\ \A x \in K \ {g, u} : G[x] = H[x]
  BY <1>1, <1>6
<1>. HIDE DEF G
<1>11. \A x \in (K \cup {NULL}) \ {g, u} : Blacks(G, x) = Blacks(H, x)
  BY <1>10 DEF Blacks
<1>12. ASSUME NEW x \in K, NEW d \in Sides PROVE G[x] = Blacks(G, n.kid[d][x]) + Ink(n, x)
  <2>1. CASE x = g
    <3>1. n.kid[d][x] \in {b, v} /\ Ink(n, x) = 0
      BY <1>1, <1>3, <1>5, <2>1 DEF Ink
    <3>2. Blacks(G, b) = H[u] /\ Blacks(G, v) = H[u] /\ H[u] \in Nat
      <4>1. Blacks(G, b) = Blacks(H, b) /\ Blacks(G, v) = Blacks(H, v)
        BY <1>1, <1>4, <1>9, <1>11
      <4>2. H[u] \in Nat /\ Blacks(H, v) \in Nat
        BY <1>1, <1>6, <1>7
      <4>. QED  BY <1>8, <4>1, <4>2
    <3>. QED  BY <1>10, <2>1, <3>1, <3>2
  <2>2. CASE x = u
    <3>1. n.kid[d][x] \in {p, g} /\ Ink(n, x) = 1
      BY <1>1, <1>3, <1>5, <2>2 DEF Ink
    <3>2. Blacks(G, p) = H[u] /\ Blacks(G, g) = H[u] /\ H[u] \in Nat
      BY <1>1, <1>2, <1>6, <1>8, <1>10, <1>11 DEF Blacks
    <3>. QED  BY <1>8, <1>10, <2>2, <3>1, <3>2
  <2>3. CASE x \notin {g, u}
    <3>. DEFINE y == t.kid[d][x]
    <3>1. H[x] = Blacks(H, y) + Ink(t, x) /\ Ink(n, x) = Ink(t, x) /\ G[x] = H[x] /\ y \in K \cup {NULL}
      BY <1>2, <1>5, <1>7, <1>10, <2>3 DEF Ink
    <3>2. y # u
      BY <1>1, <1>2, <2>3
    <3>3. n.kid[d][x] = IF y = g THEN u ELSE y
      BY <1>5, <2>3
    <3>. HIDE DEF y
    <3>4. Blacks(G, n.kid[d][x]) = Blacks(H, y)
      <4>1. CASE y = g
        BY <1>1, <1>2, <1>10, <3>3, <4>1 DEF Blacks
      <4>2. CASE y # g
        BY <1>11, <3>1, <3>2, <3>3, <4>2
      <4>. QED  BY <4>1, <4>2
    <3>. QED  BY <3>1, <3>4
  <2>. QED  BY <2>1, <2>2, <2>3
<1>13. IsLevel(n)
  BY <1>5, <1>10, <1>12 DEF IsLevel, Level
<1>14. RedApart(n, {p})
  <2>. SUFFICES ASSUME NEW x \in K \ {n.root, p}, n.color[x] = "RED" PROVE n.color[n.parent[x]] = "BLACK"
    BY <1>5 DEF RedApart
  <2>1. CASE x = g
    BY <1>1, <1>5, <2>1
  <2>2. CASE x # g
    <3>1. x # u /\ t.color[x] = "RED" /\ x # t.root
      BY <1>1, <1>5, <2>2
    <3>2. t.color[t.parent[x]] = "BLACK" /\ t.parent[x] \in K
      BY <1>2, <3>1 DEF Mending, RedApart, K
    <3>3. x # b /\ t.parent[x] # u
      BY <1>1, <1>2, <1>4, <3>2
    <3>4. t.parent[x] # g
      BY <1>1, <1>2, <1>3, <3>1
    <3>. QED  BY <1>5, <2>2, <3>1, <3>2, <3>3, <3>4
  <2>. QED  BY <2>1, <2>2
<1>15. p \in Kids(n) /\ n.color[p] = "RED" /\ (n.root # p => n.color[n.root] = "BLACK")
  <2>1. t.color[t.root] = "BLACK"
    BY <1>1 DEF Mending
  <2>. QED  BY <1>1, <1>2, <1>5, <2>1
<1>. QED  BY <1>13, <1>14, <1>15 DEF Mending, n

\* kid_fix() is done, and the root is painted black
LEMMA ReturnedIsBalanced ==
  ASSUME NEW t, IsTree(t), NULL \notin Int, NEW p, Mending(t, p), ~Unfixed(t, p)
  PROVE  Balanced(Returned(t))
<1>. DEFINE K == Kids(t)
            n == Returned(t)
            A == {t.root}
<1>1. /\ p \in K /\ t.root \in K /\ t.parent[t.root] = NULL /\ NULL \notin K
      /\ \A x \in K : t.color[x] \in {"RED", "BLACK"}
      /\ \A x \in K, d \in Sides : t.kid[d][x] \in K \cup {NULL}
      /\ \A x \in K, d \in Sides : t.kid[d][x] # NULL => t.parent[t.kid[d][x]] = x
      /\ \A x \in K \ {t.root} : t.parent[x] \in K
  <2>1. p \in K
    BY DEF Mending
  <2>. QED  BY <2>1, TreeLinks
<1>2. /\ Kids(n) = K /\ n.root = t.root /\ n.kid = t.kid /\ n.parent = t.parent
      /\ \A x \in K : n.color[x] = IF x = t.root THEN "BLACK" ELSE t.color[x]
  <2>. HIDE DEF A
  <2>0. PICK m : m = Painted(t, A, "BLACK")
    OBVIOUS
  <2>1. /\ IsTree(m) /\ Kids(m) = K /\ m.root = t.root /\ m.kid = t.kid /\ m.parent = t.parent
        /\ m.color = [x \in K |-> IF x \in A THEN "BLACK" ELSE t.color[x]]
    BY <2>0, PaintedIs
  <2>2. m = [kids |-> m.kids, root |-> m.root, kid |-> m.kid, parent |-> m.parent, color |-> m.color]
    BY <2>1 DEF IsTree, Tree, Typed
  <2>3. n = [m EXCEPT !.kids = t.root]
    BY <2>0 DEF Returned, A
  <2>. HIDE DEF n
  <2>4. n.root = m.root /\ n.kid = m.kid /\ n.parent = m.parent /\ n.color = m.color
    BY <2>2, <2>3
  <2>5. Kids(n) = Kids(m)
    BY <2>4 DEF Kids
  <2>. QED  BY <2>1, <2>4, <2>5 DEF A
<1>3. PICK H \in [K -> Nat] : Level(t, H)
  BY DEF Mending, IsLevel
<1>4. \A x \in K, d \in Sides : H[x] = Blacks(H, t.kid[d][x]) + Ink(t, x)
  BY <1>3 DEF Level
<1>. HIDE DEF K, n
<1>. DEFINE G == [x \in K |-> IF x = t.root THEN H[x] - Ink(t, x) + 1 ELSE H[x]]
<1>5. /\ G \in [K -> Nat] /\ \A x \in K \ {t.root} : G[x] = H[x]
      /\ G[t.root] = H[t.root] - Ink(t, t.root) + 1
  <2>1. Ink(t, t.root) \in {0, 1} /\ H[t.root] \in Nat
    BY <1>1, <1>3 DEF Ink
  <2>2. H[t.root] - Ink(t, t.root) + 1 \in Nat
    BY <2>1
  <2>. QED  BY <1>1, <1>3, <2>2
<1>. HIDE DEF G
<1>6. ASSUME NEW x \in K, NEW d \in Sides PROVE G[x] = Blacks(G, n.kid[d][x]) + Ink(n, x)
  <2>. DEFINE y == t.kid[d][x]
  <2>1. H[x] = Blacks(H, y) + Ink(t, x) /\ n.kid[d][x] = y /\ y \in K \cup {NULL} /\ y # t.root
    BY <1>1, <1>2, <1>4
  <2>2. Blacks(G, y) = Blacks(H, y) /\ Blacks(H, y) \in Nat
    BY <1>3, <1>5, <2>1 DEF Blacks
  <2>. HIDE DEF y
  <2>3. CASE x = t.root
    <3>1. Ink(n, x) = 1 /\ Ink(t, x) \in {0, 1}
      BY <1>1, <1>2, <2>3 DEF Ink
    <3>. QED  BY <1>5, <2>1, <2>2, <2>3, <3>1
  <2>4. CASE x # t.root
    <3>1. Ink(n, x) = Ink(t, x)
      BY <1>2, <2>4 DEF Ink
    <3>. QED  BY <1>5, <2>1, <2>2, <2>4, <3>1
  <2>. QED  BY <2>3, <2>4
<1>7. IsLevel(n)
  BY <1>2, <1>5, <1>6 DEF IsLevel, Level
<1>8. RedApart(n, {})
  <2>. SUFFICES ASSUME NEW x \in K \ {t.root}, n.color[x] = "RED" PROVE n.color[n.parent[x]] = "BLACK"
    BY <1>2 DEF RedApart
  <2>1. t.color[x] = "RED" /\ t.parent[x] \in K
    BY <1>1, <1>2
  <2>2. t.color[t.parent[x]] = "BLACK"
    <3>1. CASE x = p
      BY <1>1, <2>1, <3>1 DEF Unfixed
    <3>2. CASE x # p
      BY <2>1, <3>2 DEF Mending, RedApart, K
    <3>. QED  BY <3>1, <3>2
  <2>. QED  BY <1>2, <2>1, <2>2
<1>9. n.color[n.root] = "BLACK"
  BY <1>1, <1>2
<1>. QED  BY <1>7, <1>8, <1>9 DEF Balanced, n

\* a step that changes one tree, or none
LEMMA BalanceKeeps ==
  ASSUME BalanceInv, kind = "bst", kind' = kind, turnedIn \subseteq turnedIn', NEW n,
         DOMAIN node' \subseteq DOMAIN node \cup {at},
         \A x \in DOMAIN node \ {at} : node'[x] = node[x],
         node'[at] = n,
         pc' = "fixing" => at' = at,
         at \notin turnedIn' => IF pc' = "fixing" THEN Mending(n, fix') ELSE Balanced(n),
         pc' # "crashed"
  PROVE  BalanceInv'
<1>. SUFFICES ASSUME NEW x \in DOMAIN node' \ turnedIn'
              PROVE  IF pc' = "fixing" /\ x = at' THEN Mending(node'[x], fix') ELSE Balanced(node'[x])
  BY DEF BalanceInv
<1>1. CASE x = at
  BY <1>1
<1>2. CASE x # at
  <2>1. x \in DOMAIN node \ turnedIn /\ node'[x] = node[x]
    BY <1>2
  <2>2. Balanced(node[x])
    BY <1>2, <2>1 DEF BalanceInv
  <2>. QED  BY <1>2, <2>1, <2>2
<1>. QED  BY <1>1, <1>2

\* the steps that leave the nodes alone
LEMMA BalanceOther ==
  ASSUME TrieAssumption, TrieInv, BalanceInv,
         \/ \E p \in Ptrs[kind] : Begin(p) \/ Has(p)
         \/ DynarrOverruns \/ HasReturns \/ Dies \/ UNCHANGED vars
  PROVE  BalanceInv'
<1>1. CASE UNCHANGED vars
  BY <1>1 DEF vars, tvars, BalanceInv
<1>2. CASE \/ \E p \in Ptrs[kind] : Begin(p) \/ Has(p)
           \/ DynarrOverruns \/ HasReturns \/ Dies
  <2>1. pc # "fixing" /\ pc' \notin {"fixing", "crashed"} /\ UNCHANGED <<kind, node, turnedIn>>
    BY <1>2 DEF Begin, Has, DynarrOverruns, HasReturns, Dies, tvars, Round
  <2>. QED  BY <2>1 DEF BalanceInv
<1>. QED  BY <1>1, <1>2

\* kid_fix(): without inner turns it always finds a grandparent
LEMMA BalanceFix ==
  ASSUME TrieAssumption, TrieInv, BalanceInv,
         FixRecolours \/ FixTurns \/ FixCrashes \/ FixReturns
  PROVE  BalanceInv'
<1>. DEFINE t == node[at]
<1>1. /\ pc = "fixing" /\ kind = "bst" /\ at \in DOMAIN node /\ NULL \notin Int /\ IsTree(t)
      /\ UNCHANGED <<kind, heap, arg, asked, added>>
  BY DEF FixRecolours, FixTurns, FixCrashes, FixReturns, Fixing, TrieInv, PlaceInv, NodesInv, Keeps,
         TrieAssumption, tvars
<1>2. at \notin turnedIn => Mending(t, fix)
  BY <1>1 DEF BalanceInv
<1>3. at \notin turnedIn /\ Unfixed(t, fix) => Gp(t, fix) \in Kids(t)
  BY <1>1, <1>2, FixAt
<1>4. NULL \notin Kids(t)
  BY <1>1, TreeLinks
<1>. HIDE DEF t
<1>5. CASE FixRecolours
  <2>1. /\ Unfixed(t, fix) /\ UncleRed(t, fix) /\ node' = [node EXCEPT ![at] = Recoloured(t, fix)]
        /\ fix' = Gp(t, fix) /\ pc' = pc /\ at' = at /\ turnedIn' = turnedIn
    BY <1>5 DEF FixRecolours, Fixing, t
  <2>2. at \notin turnedIn => Mending(Recoloured(t, fix), Gp(t, fix))
    BY <1>1, <1>2, <2>1, RecolouredMends
  <2>3. /\ DOMAIN node' = DOMAIN node /\ node'[at] = Recoloured(t, fix)
        /\ \A x \in DOMAIN node \ {at} : node'[x] = node[x]
    BY <1>1, <2>1
  <2>. QED  BY <1>1, <2>1, <2>2, <2>3, BalanceKeeps
<1>6. CASE FixTurns
  <2>1. /\ Unfixed(t, fix) /\ ~UncleRed(t, fix) /\ node' = [node EXCEPT ![at] = Turned(t, fix)]
        /\ pc' = pc /\ at' = at
        /\ IF Inner(t, fix) THEN turnedIn' = turnedIn \cup {at} ELSE turnedIn' = turnedIn /\ fix' = fix
    BY <1>6 DEF FixTurns, Fixing, t
  <2>2. at \notin turnedIn' => Mending(Turned(t, fix), fix) /\ fix' = fix
    BY <1>1, <1>2, <2>1, OuterTurnedMends
  <2>3. /\ DOMAIN node' = DOMAIN node /\ node'[at] = Turned(t, fix)
        /\ \A x \in DOMAIN node \ {at} : node'[x] = node[x]
        /\ turnedIn \subseteq turnedIn'
    BY <1>1, <2>1
  <2>. QED  BY <1>1, <2>1, <2>2, <2>3, BalanceKeeps
<1>7. CASE FixCrashes
  <2>1. /\ Unfixed(t, fix) /\ Gp(t, fix) = NULL /\ pc' = "crashed"
        /\ UNCHANGED <<kind, node, at, turnedIn>>
    BY <1>7 DEF FixCrashes, Fixing, tvars, t
  <2>2. at \in turnedIn
    BY <1>3, <1>4, <2>1
  <2>3. \A x \in DOMAIN node \ turnedIn : Balanced(node[x])
    BY <1>1, <2>2 DEF BalanceInv
  <2>. QED  BY <2>1, <2>2, <2>3 DEF BalanceInv
<1>8. CASE FixReturns
  <2>1. /\ ~Unfixed(t, fix) /\ node' = [node EXCEPT ![at] = Returned(t)]
        /\ pc' = "adding" /\ turnedIn' = turnedIn
    BY <1>8 DEF FixReturns, t
  <2>2. at \notin turnedIn => Balanced(Returned(t))
    BY <1>1, <1>2, <2>1, ReturnedIsBalanced
  <2>3. /\ DOMAIN node' = DOMAIN node /\ node'[at] = Returned(t)
        /\ \A x \in DOMAIN node \ {at} : node'[x] = node[x]
    BY <1>1, <2>1
  <2>. QED  BY <1>1, <2>1, <2>2, <2>3, BalanceKeeps
<1>. QED  BY <1>5, <1>6, <1>7, <1>8

\* a round, and the leaf behind the last one
LEMMA BalanceAdds ==
  ASSUME TrieAssumption, TrieInv, BalanceInv, kind = "bst", BstRound \/ Leaf
  PROVE  BalanceInv'
<1>1. /\ pc = "adding" /\ NULL \notin Int /\ UNCHANGED <<kind, turnedIn>>
  BY DEF BstRound, Round, Leaf, TrieAssumption
<1>2. Settled(NodeHere) /\ Kids(NodeHere) \subseteq Nat
  BY <1>1, NodeHereIs DEF Keeps, Settled
<1>3. Balanced(EmptyTree)
  BY <1>1, EmptyIsBalanced
<1>4. at \notin turnedIn => Balanced(NodeHere)
  <2>1. at \in DOMAIN node \ turnedIn => Balanced(node[at])
    BY <1>1 DEF BalanceInv
  <2>2. NodeHere = IF at \in DOMAIN node THEN node[at] ELSE EmptyTree
    BY DEF NodeHere, Zeroed
  <2>. QED  BY <1>3, <2>1, <2>2
<1>5. ASSUME NEW n, NEW K, Keep(n, K)
      PROVE  /\ DOMAIN node' \subseteq DOMAIN node \cup {at} /\ node'[at] = n
             /\ \A x \in DOMAIN node \ {at} : node'[x] = node[x]
  BY <1>5 DEF Keep
<1>6. CASE Leaf
  <2>1. Keep(EmptyTree, {}) /\ pc' = "idle"
    BY <1>6 DEF Leaf, Zeroed
  <2>. QED  BY <1>1, <1>3, <1>5, <2>1, BalanceKeeps
<1>7. CASE BstRound /\ UNCHANGED <<tvars, pc, fix>>
  BY <1>1, <1>7 DEF tvars, BalanceInv
<1>8. CASE BstRound /\ ~UNCHANGED <<tvars, pc, fix>>
  <2>1. PICK u \in Hooks(NodeHere, Chunk) :
          /\ KidFind(NodeHere, Chunk) = NULL /\ Keep(Linked(NodeHere, Chunk, u), {Chunk})
          /\ fix' = Chunk /\ pc' = "fixing" /\ at' = at
    BY <1>8 DEF BstRound
  <2>2. Chunk \in Int \ Kids(NodeHere)
    <3>1. Chunk \in Nat
      BY <1>1, <1>8, PathsHere DEF TrieInv, BstRound, Round
    <3>2. KidFind(NodeHere, Chunk) = Chunk <=> Chunk \in Kids(NodeHere)
      BY <1>1, <1>2, <3>1, KidFindFinds DEF Settled, IsTree
    <3>. QED  BY <1>1, <2>1, <3>1, <3>2
  <2>3. at \notin turnedIn => Mending(Linked(NodeHere, Chunk, u), Chunk)
    BY <1>1, <1>2, <1>4, <2>2, LinkedMends
  <2>. QED  BY <1>1, <1>5, <2>1, <2>3, BalanceKeeps
<1>. QED  BY <1>6, <1>7, <1>8

\* all the steps
LEMMA BalanceStep ==
  ASSUME TrieAssumption, TrieInv, BalanceInv, [Next]_vars
  PROVE  BalanceInv'
<1>1. CASE FixsetRound \/ ListRound \/ DynarrRound
  <2>1. kind # "bst" /\ pc' # "crashed" /\ kind' = kind
    BY <1>1 DEF FixsetRound, ListRound, DynarrRound, Round
  <2>. QED  BY <2>1 DEF BalanceInv
<1>2. CASE Leaf /\ kind # "bst"
  <2>1. pc' # "crashed" /\ kind' = kind
    BY <1>2 DEF Leaf
  <2>. QED  BY <1>2, <2>1 DEF BalanceInv
<1>3. CASE Free
  <2>1. DOMAIN node' = {} /\ pc' # "crashed"
    BY <1>3 DEF Free
  <2>. QED  BY <2>1 DEF BalanceInv
<1>4. CASE BstRound \/ (Leaf /\ kind = "bst")
  <2>1. BstRound => kind = "bst"
    BY DEF BstRound, Round
  <2>. QED  BY <1>4, <2>1, BalanceAdds
<1>5. CASE FixRecolours \/ FixTurns \/ FixCrashes \/ FixReturns
  BY <1>5, BalanceFix
<1>6. CASE (\E p \in Ptrs[kind] : Begin(p) \/ Has(p)) \/ DynarrOverruns \/ HasReturns \/ Dies
             \/ UNCHANGED vars
  BY <1>6, BalanceOther
<1>7. CASE BstRound \/ Leaf
  BY <1>2, <1>4, <1>7
<1>8. CASE FixsetRound \/ ListRound \/ DynarrRound \/ DynarrOverruns \/ BstRound
             \/ FixRecolours \/ FixTurns \/ FixCrashes \/ FixReturns \/ Leaf
  BY <1>1, <1>5, <1>6, <1>7, <1>8
<1>9. CASE Next
  BY <1>3, <1>6, <1>8, <1>9 DEF Next, AddStep
<1>. QED  BY <1>6, <1>9

\* every state of every execution
LEMMA BalanceAlways == Spec => []BalanceInv
<1>1. Init => BalanceInv
  <2>. SUFFICES ASSUME Init PROVE BalanceInv
    OBVIOUS
  <2>1. DOMAIN node = {} /\ pc = "idle"
    BY DEF Init
  <2>. QED  BY <2>1 DEF BalanceInv
<1>2. TrieInv /\ BalanceInv /\ [Next]_vars => BalanceInv'
  BY BalanceStep, TrieAssumption
<1>. QED  BY <1>1, <1>2, TrieAlways, PTL DEF Spec

\* A tree that had no inner turn is red-black whenever kid_fix() is not at work
\* on it.
THEOREM OutersStayRedBlack == Spec => []RedBlackOutside
<1>1. TrieInv /\ BalanceInv => RedBlackOutside
  <2>. SUFFICES ASSUME TrieInv, BalanceInv, kind = "bst", NEW x \in DOMAIN node \ turnedIn,
                       ~(pc \in {"fixing", "crashed"} /\ x = at)
                PROVE  RedBlack(node[x])
    BY DEF RedBlackOutside
  <2>1. Balanced(node[x])
    BY DEF BalanceInv
  <2>2. IsTree(node[x])
    BY DEF TrieInv, NodesInv, Keeps
  <2>. QED  BY <2>1, <2>2, BalancedIsRedBlack, TrieAssumption
<1>. QED  BY <1>1, TrieAlways, BalanceAlways, PTL

\* kid_fix() misses a grandparent, and reads through NULL, only in a tree that
\* had an inner turn: the stale `parent' of its two inner cases is the one fault.
THEOREM OutersNeverCrash == Spec => [](pc = "crashed" => at \in turnedIn)
<1>1. BalanceInv => (pc = "crashed" => at \in turnedIn)
  BY DEF BalanceInv
<1>. QED  BY <1>1, BalanceAlways, PTL
=============================================================================
