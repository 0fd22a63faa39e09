------------------------------ MODULE TrieSet ------------------------------
(***************************************************************************)
(* The pointer sets of ideas/ptrset: a trie over the chunks of a pointer,  *)
(* in four kinds that differ in how a node keeps its kids: an array slot   *)
(* per chunk (fixset.c), a sorted list (list_set.c), an array that grows   *)
(* (dynarr_set.c), a red-black tree (bst_set.c).                           *)
(*                                                                         *)
(* A node is known by its path, the chunks that lead to it, so an edge is  *)
(* NULL exactly when no node has its path.  One action is one round of the *)
(* loop over the chunks, or one of the loop in kid_fix().  Like main.c,    *)
(* callers add a pointer once.                                             *)
(***************************************************************************)
EXTENDS Integers, Sequences, SequencesExt, FiniteSets, Functions

CONSTANTS NULL,
          Kinds,                    \* of {"fixset", "list", "dynarr", "bst"}
          Ptrs,                     \* per kind, the pointers callers use
          ADDR_LEN                  \* chunks of a pointer (4 in the build)

ASSUME TrieAssumption ==
  /\ NULL \notin Int /\ ADDR_LEN \in Nat \ {0}
  /\ Kinds \subseteq {"fixset", "list", "dynarr", "bst"}
  /\ \A k \in Kinds : \A p \in Ptrs[k] : p \in Seq(Nat) /\ Len(p) = ADDR_LEN

INSTANCE KidTree

VARIABLES kind,                     \* which of the sets; never changes
          node,                     \* per path of a node, what it keeps
          heap,                     \* the blocks that are allocated
          pc,                       \* where the call is, or how it ended
          arg,                      \* the pointer that ps_add has
          at,                       \* the path it has come to
          fix,                      \* p of kid_fix(), or NULL
          asked, answer,            \* a ps_has that is about to return, or <<>>
          added,                    \* history: the pointers added
          turnedIn                  \* history: nodes that had an inner turn

tvars == <<node, heap>>
vars == <<kind, node, heap, pc, arg, at, fix, asked, answer, added, turnedIn>>

Zeroed(k) == CASE k = "bst" -> EmptyTree
               [] k = "dynarr" -> [v |-> <<>>, cap |-> 0]
               [] OTHER -> <<>>

Init ==
  /\ kind \in Kinds
  /\ node = <<>> /\ heap = {}
  /\ pc = "idle" /\ arg = <<>> /\ at = <<>> /\ fix = NULL
  /\ asked = <<>> /\ answer = FALSE /\ added = {} /\ turnedIn = {}

-----------------------------------------------------------------------------
Chunk == arg[Len(at) + 1]

\* node_new() where the edge is NULL
NodeHere == IF at \in DOMAIN node THEN node[at] ELSE Zeroed(kind)

\* The node keeps k from now on, and the kid blocks K were allocated.
Keep(k, K) ==
  /\ node' = [x \in DOMAIN node \cup {at} |-> IF x = at THEN k ELSE node[x]]
  /\ heap' = heap \cup {<<at>>} \cup {<<at, c>> : c \in K}

\* mutant: npp stays where it is
GoNowhere == at' = at

Go == at' = Append(at, Chunk)

\* a round of PTR_FOR_EACH for the set k
Round(k) == pc = "adding" /\ kind = k /\ Len(at) < ADDR_LEN

\* mutant: npp is not set to the root again
BeginBelow(p) ==
  /\ pc = "idle" /\ p \notin added
  /\ pc' = "adding" /\ arg' = p /\ UNCHANGED at
  /\ UNCHANGED <<kind, tvars, fix, asked, answer, added, turnedIn>>

Begin(p) ==
  /\ pc = "idle" /\ p \notin added
  /\ pc' = "adding" /\ arg' = p /\ at' = <<>>
  /\ UNCHANGED <<kind, tvars, fix, asked, answer, added, turnedIn>>

FixsetRound ==
  /\ Round("fixset")
  /\ Keep(<<>>, {}) /\ Go
  /\ UNCHANGED <<kind, pc, arg, fix, asked, answer, added, turnedIn>>

\* kid_get_or_set() of list_set.c: in front of the first greater chunk
Placed(l, c) ==
  IF \E i \in DOMAIN l : l[i] = c /\ \A j \in 1..i : l[j] <= c
  THEN l
  ELSE LET n == Cardinality({i \in DOMAIN l : \A j \in 1..i : l[j] < c})
       IN  SubSeq(l, 1, n) \o <<c>> \o SubSeq(l, n + 1, Len(l))

ListRound ==
  /\ Round("list")
  /\ LET l == Placed(NodeHere, Chunk)
     IN  Keep(l, {Chunk})
  /\ Go
  /\ UNCHANGED <<kind, pc, arg, fix, asked, answer, added, turnedIn>>

\* node_push() and node_grow() of dynarr_set.c
Pushed(d, c) ==
  [v   |-> Append(d.v, c),
   cap |-> IF Len(d.v) < d.cap THEN d.cap ELSE IF d.cap = 0 THEN 1 ELSE 2 * d.cap]

\* kid_find() returns the place behind the last kid when it finds none, which
\* is NULL only of an array that is NULL; there, len is always cap
PastEnd(d, c) == d.cap > 0 /\ c \notin Range(d.v)

DynarrRound ==
  /\ Round("dynarr") /\ ~PastEnd(NodeHere, Chunk)
  /\ LET d == IF Chunk \in Range(NodeHere.v) THEN NodeHere ELSE Pushed(NodeHere, Chunk)
     IN  Keep(d, {NULL})
  /\ Go
  /\ UNCHANGED <<kind, pc, arg, fix, asked, answer, added, turnedIn>>

\* The edge behind the block is read and written: nothing is known from here.
DynarrOverruns ==
  /\ Round("dynarr") /\ PastEnd(NodeHere, Chunk)
  /\ pc' = "overrun"
  /\ UNCHANGED <<kind, tvars, arg, at, fix, asked, answer, added, turnedIn>>

BstRound ==
  /\ Round("bst")
  /\ \/ /\ KidFind(NodeHere, Chunk) = Chunk
        /\ Go
        /\ UNCHANGED <<tvars, pc, fix>>
     \/ /\ KidFind(NodeHere, Chunk) = NULL
        /\ \E u \in Hooks(NodeHere, Chunk) : Keep(Linked(NodeHere, Chunk, u), {Chunk})
        /\ fix' = Chunk /\ pc' = "fixing"
        /\ UNCHANGED at
  /\ UNCHANGED <<kind, arg, asked, answer, added, turnedIn>>

Fixing == pc = "fixing" /\ Unfixed(node[at], fix)

FixRecolours ==
  /\ Fixing /\ Gp(node[at], fix) # NULL /\ UncleRed(node[at], fix)
  /\ node' = [node EXCEPT ![at] = Recoloured(@, fix)]
  /\ fix' = Gp(node[at], fix)
  /\ UNCHANGED <<kind, heap, pc, arg, at, asked, answer, added, turnedIn>>

FixTurns ==
  /\ Fixing /\ Gp(node[at], fix) # NULL /\ ~UncleRed(node[at], fix)
  /\ node' = [node EXCEPT ![at] = Turned(@, fix)]
  /\ IF Inner(node[at], fix)
       THEN fix' = node[at].parent[fix] /\ turnedIn' = turnedIn \cup {at}
       ELSE UNCHANGED <<fix, turnedIn>>
  /\ UNCHANGED <<kind, heap, pc, arg, at, asked, answer, added>>

\* gp->left where gp is NULL
FixCrashes ==
  /\ Fixing /\ Gp(node[at], fix) = NULL
  /\ pc' = "crashed"
  /\ UNCHANGED <<kind, tvars, arg, at, fix, asked, answer, added, turnedIn>>

\* kid_fix() returns the root, and np->kids is set to it
FixReturns ==
  /\ pc = "fixing" /\ ~Unfixed(node[at], fix)
  /\ node' = [node EXCEPT ![at] = Returned(@)]
  /\ fix' = NULL /\ pc' = "adding" /\ Go
  /\ UNCHANGED <<kind, heap, arg, asked, answer, added, turnedIn>>

\* behind the loop: the last edge gets a node of its own
Leaf ==
  /\ pc = "adding" /\ Len(at) = ADDR_LEN
  /\ Keep(Zeroed(kind), {})
  /\ added' = added \cup {arg} /\ pc' = "idle"
  /\ UNCHANGED <<kind, arg, at, fix, asked, answer, turnedIn>>

-----------------------------------------------------------------------------
\* the kids that a walk of node x finds
KidsOf(x) == CASE kind = "fixset" ->
                    {Last(y) : y \in {z \in DOMAIN node : z # <<>> /\ Front(z) = x}}
               [] kind = "list" -> Range(node[x])
               [] kind = "dynarr" -> Range(node[x].v)
               [] kind = "bst" -> Under(node[x], node[x].kids)

HasKid(x, c) == IF kind = "bst" THEN KidFind(node[x], c) = c ELSE c \in KidsOf(x)

\* mutant: the walk ends a chunk early
AboveShort(p) == {SubSeq(p, 1, i) : i \in 0..(ADDR_LEN - 2)}

Above(p) == {SubSeq(p, 1, i) : i \in 0..(ADDR_LEN - 1)}
On(p, x) == p[Len(x) + 1]

\* fixset looks at the nodes above the leaf, the others at their kids too
Found(p) == /\ Above(p) \subseteq DOMAIN node
            /\ kind # "fixset" => \A x \in Above(p) : HasKid(x, On(p, x))

\* calloc() or realloc() fails where there is something to allocate, and
\* die() ends the process
Dies ==
  /\ pc = "adding" /\ pc' = "died"
  /\ at \in DOMAIN node =>
       CASE kind = "fixset" -> FALSE
         [] kind = "dynarr" -> node[at].cap = 0
         [] OTHER -> ~HasKid(at, Chunk)
  /\ UNCHANGED <<kind, tvars, arg, at, fix, asked, answer, added, turnedIn>>

\* the walk comes to the place behind the block, see PastEnd
WalksOut(p) == /\ kind = "dynarr"
               /\ \E x \in Above(p) \cap DOMAIN node : PastEnd(node[x], On(p, x))

Has(p) ==
  /\ pc = "idle"
  /\ IF WalksOut(p) THEN pc' = "overrun" /\ UNCHANGED <<asked, answer>>
                    ELSE asked' = p /\ answer' = Found(p) /\ pc' = "has"
  /\ UNCHANGED <<kind, tvars, arg, at, fix, added, turnedIn>>

HasReturns ==
  /\ pc = "has" /\ pc' = "idle"
  /\ asked' = <<>> /\ answer' = FALSE
  /\ UNCHANGED <<kind, tvars, arg, at, fix, added, turnedIn>>

\* what do_*_free() comes to from the root
Reached == {x \in DOMAIN node :
              \A i \in 1..Len(x) : x[i] \in KidsOf(SubSeq(x, 1, i - 1))}

Blocks(X) ==
  {<<x>> : x \in X} \cup
  (CASE kind = "fixset" -> {}
     [] kind = "dynarr" -> {<<x, NULL>> : x \in {y \in X : node[y].cap > 0}}
     [] OTHER -> UNION {{<<x, c>> : c \in KidsOf(x)} : x \in X})

Free ==
  /\ pc = "idle" /\ pc' = "freed"
  /\ heap' = heap \ Blocks(Reached) /\ node' = <<>> /\ added' = {}
  /\ UNCHANGED <<kind, arg, at, fix, asked, answer, turnedIn>>

AddStep == FixsetRound \/ ListRound \/ DynarrRound \/ DynarrOverruns \/ BstRound
             \/ FixRecolours \/ FixTurns \/ FixCrashes \/ FixReturns \/ Leaf

Next == \/ \E p \in Ptrs[kind] : Begin(p) \/ Has(p)
        \/ AddStep \/ HasReturns \/ Dies \/ Free

Spec == Init /\ [][Next]_vars /\ WF_vars(AddStep)

-----------------------------------------------------------------------------
(* Properties *)

\* What lets a search end where it does: in list_set.c the kids of a node are
\* in order and there is one of each; in bst_set.c, behind every single
\* rotation and recolouring of kid_fix(), links up and down agree, every kid
\* lies where comparing chunks leads, and kid_fix() is at a kid of the tree on
\* the way to the pointer that is being added.
KidsInOrder ==
  /\ \A x \in DOMAIN node :
       /\ kind = "list" => \A i, j \in DOMAIN node[x] :
                             i < j => node[x][i] < node[x][j]
       /\ kind = "bst" => LinksMatch(node[x]) /\ Ordered(node[x])
  /\ pc \in {"adding", "fixing"} => at = SubSeq(arg, 1, Len(at))
  /\ pc = "fixing" => fix \in Kids(node[at])

\* A tree that was never given a kid between its parent and its grandparent
\* (the cases p == parent->right and p == parent->left of kid_fix()) is
\* red-black whenever kid_fix() is not at work on it.
RedBlackOutside ==
  kind = "bst" =>
    \A x \in DOMAIN node \ turnedIn :
      (pc \in {"fixing", "crashed"} /\ x = at) \/ RedBlack(node[x])

\* Between calls ps_free() would come to every block that is allocated, and
\* behind it none is left.
NoLeak == pc \in {"idle", "freed"} => heap = Blocks(Reached)

\* However a set keeps its kids, it answers as the abstract set does: it has
\* what was added and, fixset.c apart, nothing else.
Ideal == INSTANCE PtrSet WITH Ptrs <- UNION {Ptrs[k] : k \in Kinds},
                              coarse <- kind = "fixset", open <- pc # "freed"
ImplementsPtrSet == Ideal!Spec

\* An addition comes to an end: the loop of kid_fix() climbs, whichever way
\* the tree was turned before.
AddReturns == pc = "adding" ~> pc \in {"idle", "died", "crashed", "overrun"}

\* ptrset_test() of main.c adds to whichever set it is given, and goes on.
NeverCrashes == pc # "crashed"
=============================================================================
