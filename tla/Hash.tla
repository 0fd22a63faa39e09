-------------------------------- MODULE Hash --------------------------------
(***************************************************************************)
(* The hash table of ideas/ptrset/hash.c, a set of pointers with chains.   *)
(* hash_grow() and hash_free() walk the table with the same loop, which    *)
(* does not end with the table but when it has seen as many links as there *)
(* are, and hash_grow() moves the links while it walks: one action is one  *)
(* round of the loop, outer or inner.                                      *)
(***************************************************************************)
EXTENDS Integers, FiniteSets, Sequences

CONSTANTS Ptrs,                 \* the pointers callers use
          Hashes,               \* what hashfn() makes of them
          NULL

\* links are known by their numbers; <<>> stands for no question
ASSUME HashAssumption ==
  Hashes \subseteq Nat /\ NULL \notin Nat /\ <<>> \notin Ptrs

VARIABLES hash,                 \* what hashfn() returns under the seed of this table
          tab,                  \* per index, the first link of the chain
          ln,                   \* the links that are allocated
          len,
          newtab,               \* tab of hash_grow(), or <<>>
          i, p, count,          \* of the walk: index, link, links seen
          pc,                   \* where the call is, or how it ended
          ptr,                  \* what hash_set() was called with
          asked, answer,        \* a hash_has() that is about to return, or <<>>
          added, given          \* history: pointers added, given to the dtor

walk == <<newtab, i, p, count>>
table == <<tab, ln, len>>
calls == <<ptr, asked, answer, added>>
vars == <<hash, table, walk, pc, calls, given>>

\* is_prime() and next_prime(); there is a prime below 2n
IsPrime(n) == n > 1 /\ \A m \in 2..n : m * m <= n => n % m # 0
NextPrime(n) == CHOOSE q \in n..(2 * n + 2) : IsPrime(q) /\ \A r \in n..(q - 1) : ~IsPrime(r)

\* a table is a function on its indices; arrays start at 0
Empty(cap) == [j \in 0..(cap - 1) |-> NULL]
Cap(t) == Cardinality(DOMAIN t)

Init ==
  /\ hash \in [Ptrs -> Hashes]
  /\ tab = Empty(NextPrime(0)) /\ ln = <<>> /\ len = 0
  /\ newtab = <<>> /\ i = 0 /\ p = NULL /\ count = 0
  /\ pc = "idle" /\ ptr = NULL /\ asked = <<>> /\ answer = FALSE
  /\ added = {} /\ given = {}

-----------------------------------------------------------------------------
\* mixes the bits of q and the seed: any function, one per table
hashfn(q) == hash[q]

\* the links of L from l on: those in every set that has l and, with a link,
\* the one behind it
ChainOf(L, l) ==
  LET R == ({l} \cup {L[k].next : k \in DOMAIN L}) \ {NULL}
  IN  {k \in R : \A S \in SUBSET R :
         (l \in S \cup {NULL} /\ \A m \in S : m \in DOMAIN L => L[m].next \in S \cup {NULL})
           => k \in S}

Chain(l) == ChainOf(ln, l)

\* mutant: only the first link is looked at
FindsFirst(q) == LET l == tab[hashfn(q) % Cap(tab)] IN l # NULL /\ ln[l].ptr = q

\* HASH_LIST_FOR_EACH finds q in its chain
Finds(q) == \E l \in Chain(tab[hashfn(q) % Cap(tab)]) : ln[l].ptr = q

\* len > HASH_LOAD_FACTOR * cap
Loaded == 4 * len > 3 * Cap(tab)

SetFound(q) == pc = "idle" /\ Finds(q) /\ UNCHANGED vars

\* HASH_FOR_EACH_SAFE begins
WalkFrom0 == i' = 0 /\ count' = 0 /\ p' = IF len > 0 THEN tab[0] ELSE NULL

SetNew(q) ==
  /\ pc = "idle" /\ ~Finds(q)
  /\ ptr' = q
  /\ IF Loaded
       THEN /\ pc' = "growing" /\ newtab' = Empty(NextPrime(2 * Cap(tab)))
            /\ WalkFrom0
       ELSE pc' = "linking" /\ UNCHANGED walk
  /\ UNCHANGED <<hash, table, asked, answer, added, given>>

\* mutant: the links go by the old capacity
MovedUnhashed ==
  LET j == ln[p].hash % Cap(tab)
  IN  /\ ln' = [ln EXCEPT ![p].next = newtab[j]]
      /\ newtab' = [newtab EXCEPT ![j] = p]

\* the link moves to the front of its chain in the new table
Moved ==
  LET j == ln[p].hash % Cap(newtab)
  IN  /\ ln' = [ln EXCEPT ![p].next = newtab[j]]
      /\ newtab' = [newtab EXCEPT ![j] = p]

GrowMove ==
  /\ pc = "growing" /\ p # NULL
  /\ Moved
  /\ p' = ln[p].next /\ count' = count + 1
  /\ UNCHANGED <<hash, tab, len, i, pc, calls, given>>

\* mutant: one round more when all links are seen
MoreLinks == count <= len

\* the condition of the outer loop
LinksLeft == count < len

\* i++, and the next round of the outer loop, which reads tab[i] wherever i is
NextIndex ==
  /\ pc \in {"growing", "freeing"} /\ p = NULL /\ LinksLeft
  /\ i' = i + 1
  /\ IF i + 1 \in DOMAIN tab THEN p' = tab[i + 1] /\ UNCHANGED pc
                            ELSE pc' = "overrun" /\ UNCHANGED p
  /\ UNCHANGED <<hash, table, newtab, count, calls, given>>

\* behind the walk of hash_grow(); hash_set() takes the index again
GrowEnd ==
  /\ pc = "growing" /\ p = NULL /\ ~LinksLeft
  /\ tab' = newtab /\ newtab' = <<>> /\ pc' = "linking"
  /\ UNCHANGED <<hash, ln, len, i, p, count, calls, given>>

\* a zeroed link in front of its chain
Link ==
  /\ pc = "linking" /\ pc' = "idle"
  /\ LET l == Cardinality(DOMAIN ln) + 1
         j == hashfn(ptr) % Cap(tab)
     IN  /\ ln' = [k \in DOMAIN ln \cup {l} |->
                     IF k = l THEN [ptr |-> ptr, hash |-> hashfn(ptr), next |-> tab[j]]
                     ELSE ln[k]]
         /\ tab' = [tab EXCEPT ![j] = l]
  /\ len' = len + 1
  /\ added' = added \cup {ptr}
  /\ UNCHANGED <<hash, walk, ptr, asked, answer, given>>

\* ZALLOC() of a table or a link fails
Dies ==
  /\ \/ pc = "linking"
     \/ pc = "idle" /\ Loaded /\ \E q \in Ptrs : ~Finds(q)
  /\ pc' = "died"
  /\ UNCHANGED <<hash, table, walk, calls, given>>

Has(q) ==
  /\ pc = "idle" /\ pc' = "has"
  /\ asked' = q /\ answer' = Finds(q)
  /\ UNCHANGED <<hash, table, walk, ptr, added, given>>

HasReturns ==
  /\ pc = "has" /\ pc' = "idle"
  /\ asked' = <<>> /\ answer' = FALSE
  /\ UNCHANGED <<hash, table, walk, ptr, added, given>>

Free ==
  /\ pc = "idle" /\ pc' = "freeing"
  /\ WalkFrom0 /\ added' = {}
  /\ UNCHANGED <<hash, table, newtab, ptr, asked, answer, given>>

\* dtor() and free() of a link
FreeLink ==
  /\ pc = "freeing" /\ p # NULL
  /\ given' = given \cup {ln[p].ptr}
  /\ ln' = [l \in DOMAIN ln \ {p} |-> ln[l]]
  /\ p' = ln[p].next /\ count' = count + 1
  /\ UNCHANGED <<hash, tab, len, newtab, i, pc, calls>>

\* free() of the table and the struct
FreeEnd ==
  /\ pc = "freeing" /\ p = NULL /\ ~LinksLeft
  /\ pc' = "freed" /\ tab' = <<>> /\ len' = 0
  /\ UNCHANGED <<hash, ln, walk, calls, given>>

Walk == GrowMove \/ NextIndex \/ GrowEnd \/ FreeLink \/ FreeEnd

Next == \/ \E q \in Ptrs : SetFound(q) \/ SetNew(q) \/ Has(q)
        \/ Walk \/ Link \/ HasReturns \/ Dies \/ Free

Spec == Init /\ [][Next]_vars /\ WF_vars(Walk) /\ WF_vars(Link)

-----------------------------------------------------------------------------
(* Properties *)

\* links that a walk has still before it
Rest == Chain(p) \cup UNION {Chain(tab[j]) : j \in {k \in DOMAIN tab : k > i}}

\* each of the links L is in the chain its hash leads to, and in no other
InChains(t, L) ==
  \A j \in DOMAIN t : Chain(t[j]) = {l \in L : ln[l].hash % Cap(t) = j}

\* Outside the walks every link that is allocated is in the chain where
\* hash_set() and hash_has() look for its pointer, no pointer has two, and len
\* counts them: the loop that ends by a count relies on that.  During a walk of
\* hash_grow() the links are split between what lies before it and the new
\* table, during one of hash_free() what lies before it is what is allocated.
\* No walk is ever at an index behind the table.
Chained ==
  LET All == DOMAIN ln
  IN  /\ pc # "overrun"
      /\ pc \in {"idle", "has", "linking", "growing"} => len = Cardinality(All)
      /\ pc \in {"idle", "has", "linking"} => InChains(tab, All)
      /\ pc = "growing" => /\ InChains(newtab, All \ Rest)
                           /\ count = Cardinality(All \ Rest)
      /\ pc = "freeing" => Rest = All /\ count = Cardinality(given)
      /\ pc = "freed" => All = {}
      /\ \A k, l \in All : ln[k].ptr = ln[l].ptr => k = l

\* Callers cannot tell the table from an abstract set of pointers, whatever
\* collides and however often it grew.
Ideal == INSTANCE PtrSet WITH coarse <- FALSE, open <- pc \notin {"freeing", "freed"}
ImplementsPtrSet == Ideal!Spec

\* Each call returns: the walks come to the last link before the end of the
\* table, and never read behind it.
CallsReturn ==
  pc \in {"growing", "linking", "freeing"} ~> pc \in {"idle", "freed", "died"}
=============================================================================
