----------------------------- MODULE HashProofs -----------------------------
(***************************************************************************)
(* Proofs about Hash for all pointers and hashes: no walk over the table   *)
(* leaves it, every link stays in the chain where it is looked for, and    *)
(* callers see a set of pointers.                                          *)
(***************************************************************************)
EXTENDS Hash, FiniteSetTheorems, WellFoundedInduction, TLAPS

-----------------------------------------------------------------------------
(* Chains *)

\* a link leads to a link or nowhere
Linked(L) ==
  /\ NULL \notin DOMAIN L
  /\ \A k \in DOMAIN L : L[k].next \in DOMAIN L \cup {NULL}

\* with a link S has the one behind it
Closed(L, S) == \A m \in S : L[m].next \in S \cup {NULL}

\* a chain is the least set of links that has its first one and is closed
LEMMA ChainLeast ==
  ASSUME NEW L, Linked(L), NEW l \in DOMAIN L \cup {NULL}
  PROVE  /\ ChainOf(L, l) \subseteq DOMAIN L
         /\ l \in ChainOf(L, l) \cup {NULL}
         /\ Closed(L, ChainOf(L, l))
         /\ \A S \in SUBSET DOMAIN L :
              Closed(L, S) /\ l \in S \cup {NULL} => ChainOf(L, l) \subseteq S
<1>. DEFINE R == ({l} \cup {L[k].next : k \in DOMAIN L}) \ {NULL}
            Leads(S) == /\ l \in S \cup {NULL}
                      /\ \A m \in S : m \in DOMAIN L => L[m].next \in S \cup {NULL}
            C == ChainOf(L, l)
<1>1. C = {k \in R : \A S \in SUBSET R : Leads(S) => k \in S}
  BY DEF ChainOf
<1>2. R \subseteq DOMAIN L
  BY DEF Linked
<1>3. Leads(R)
  BY <1>2
<1>. HIDE DEF C
<1>4. C \subseteq DOMAIN L
  BY <1>1, <1>2
<1>5. l \in C \cup {NULL}
  BY <1>1
<1>6. ASSUME NEW m \in C PROVE L[m].next \in C \cup {NULL}
  <2>. SUFFICES ASSUME L[m].next # NULL PROVE L[m].next \in C
    OBVIOUS
  <2>1. L[m].next \in R
    BY <1>4
  <2>2. ASSUME NEW S \in SUBSET R, Leads(S) PROVE L[m].next \in S
    BY <1>1, <1>4, <2>2
  <2>. QED  BY <1>1, <2>1, <2>2
<1>7. ASSUME NEW S \in SUBSET DOMAIN L, Closed(L, S), l \in S \cup {NULL}
      PROVE  C \subseteq S
  <2>1. Leads(S \cap R)
    <3>1. l \in (S \cap R) \cup {NULL}
      BY <1>7
    <3>2. ASSUME NEW m \in S \cap R PROVE L[m].next \in (S \cap R) \cup {NULL}
      BY <1>7 DEF Closed
    <3>. QED  BY <3>1, <3>2
  <2>. QED  BY <1>1, <2>1
<1>. QED  BY <1>4, <1>5, <1>6, <1>7 DEF C, Closed

LEMMA ChainNull ==
  ASSUME NEW L, Linked(L)
  PROVE  ChainOf(L, NULL) = {}
<1>1. Closed(L, {}) /\ {} \in SUBSET DOMAIN L /\ NULL \in {} \cup {NULL}
  BY DEF Closed
<1>. QED  BY <1>1, ChainLeast

\* a chain is its first link and the chain behind it
LEMMA ChainStep ==
  ASSUME NEW L, Linked(L), NEW l \in DOMAIN L
  PROVE  ChainOf(L, l) = {l} \cup ChainOf(L, L[l].next)
<1>. DEFINE n == L[l].next
            C == ChainOf(L, l)
            D == ChainOf(L, n)
<1>1. n \in DOMAIN L \cup {NULL} /\ l # NULL
  BY DEF Linked
<1>2. /\ C \subseteq DOMAIN L /\ l \in C /\ Closed(L, C)
      /\ \A S \in SUBSET DOMAIN L : Closed(L, S) /\ l \in S \cup {NULL} => C \subseteq S
  BY <1>1, ChainLeast
<1>3. /\ D \subseteq DOMAIN L /\ n \in D \cup {NULL} /\ Closed(L, D)
      /\ \A S \in SUBSET DOMAIN L : Closed(L, S) /\ n \in S \cup {NULL} => D \subseteq S
  BY <1>1, ChainLeast
<1>. HIDE DEF C, D
<1>4. D \subseteq C
  BY <1>2, <1>3 DEF Closed
<1>5. C \subseteq {l} \cup D
  <2>1. {l} \cup D \in SUBSET DOMAIN L
    BY <1>3
  <2>2. Closed(L, {l} \cup D)
    BY <1>3 DEF Closed
  <2>. QED  BY <1>2, <2>1, <2>2
<1>. QED  BY <1>2, <1>4, <1>5 DEF C, D

\* the chain behind a link of a chain is part of it
LEMMA ChainBehind ==
  ASSUME NEW L, Linked(L), NEW l \in DOMAIN L \cup {NULL}, NEW k \in ChainOf(L, l)
  PROVE  ChainOf(L, L[k].next) \subseteq ChainOf(L, l)
<1>1. /\ ChainOf(L, l) \subseteq DOMAIN L /\ Closed(L, ChainOf(L, l))
      /\ L[k].next \in ChainOf(L, l) \cup {NULL}
  BY ChainLeast DEF Closed
<1>2. L[k].next \in DOMAIN L \cup {NULL}
  BY <1>1
<1>. QED  BY <1>1, <1>2, ChainLeast

\* a chain of which no link changes or goes stays as it is
LEMMA ChainSame ==
  ASSUME NEW L, Linked(L), NEW M, Linked(M), NEW l \in DOMAIN L \cup {NULL},
         \A k \in ChainOf(L, l) : k \in DOMAIN M /\ M[k].next = L[k].next
  PROVE  ChainOf(M, l) = ChainOf(L, l)
<1>. DEFINE C == ChainOf(L, l)
            D == ChainOf(M, l)
<1>1. /\ C \subseteq DOMAIN L /\ l \in C \cup {NULL} /\ Closed(L, C)
      /\ \A S \in SUBSET DOMAIN L : Closed(L, S) /\ l \in S \cup {NULL} => C \subseteq S
  BY ChainLeast
<1>2. l \in DOMAIN M \cup {NULL}
  BY <1>1
<1>3. /\ D \subseteq DOMAIN M /\ l \in D \cup {NULL} /\ Closed(M, D)
      /\ \A S \in SUBSET DOMAIN M : Closed(M, S) /\ l \in S \cup {NULL} => D \subseteq S
  BY <1>2, ChainLeast
<1>4. C \subseteq DOMAIN M /\ Closed(M, C)
  BY <1>1 DEF Closed
<1>. HIDE DEF C, D
<1>5. D \subseteq C
  BY <1>1, <1>3, <1>4
<1>6. D \subseteq DOMAIN L
  BY <1>1, <1>5
<1>7. ASSUME NEW m \in D PROVE M[m].next = L[m].next
  BY <1>5 DEF C
<1>8. Closed(L, D)
  BY <1>3, <1>7 DEF Closed
<1>9. C \subseteq D
  BY <1>1, <1>3, <1>6, <1>8
<1>. QED  BY <1>5, <1>9 DEF C, D

-----------------------------------------------------------------------------
(* Capacities.  That there is a prime below twice a number is Bertrand's     *)
(* postulate.                                                                *)

Bertrand == \A n \in Nat : \E q \in n..(2 * n + 2) : IsPrime(q)

LEMMA Least ==
  ASSUME NEW S \in SUBSET Nat, S # {}
  PROVE  \E m \in S : \A k \in S : m <= k
<1>. DEFINE R == OpToRel(<, Nat)
<1>1. IsWellFoundedOn(R, Nat)
  BY NatLessThanWellFounded
<1>2. \A k, m \in Nat : k < m => <<k, m>> \in R
  BY DEF OpToRel
<1>. HIDE DEF R
<1>3. PICK m \in S : \A k \in S : ~ (<<k, m>> \in R)
  BY <1>1, WFMin
<1>4. \A k \in S : ~ (k < m)
  BY <1>2, <1>3, Zenon
<1>5. \A k \in S : m <= k
  BY <1>4
<1>. QED  BY <1>5

LEMMA NextPrimeOk ==
  ASSUME Bertrand, NEW n \in Nat
  PROVE  NextPrime(n) \in Nat \ {0}
<1>. DEFINE S == {q \in n..(2 * n + 2) : IsPrime(q)}
<1>1. S \in SUBSET Nat /\ S # {}
  BY DEF Bertrand
<1>2. PICK q \in S : \A r \in S : q <= r
  BY <1>1, Least
<1>3. \A r \in n..(q - 1) : ~IsPrime(r)
  BY <1>1, <1>2
<1>4. \E m \in n..(2 * n + 2) : IsPrime(m) /\ \A r \in n..(m - 1) : ~IsPrime(r)
  BY <1>2, <1>3
<1>5. NextPrime(n) \in n..(2 * n + 2) /\ IsPrime(NextPrime(n))
  BY <1>4 DEF NextPrime
<1>. QED  BY <1>5 DEF IsPrime

-----------------------------------------------------------------------------
(* The invariant *)

All == DOMAIN ln
Ref == All \cup {NULL}

IsTable(t) == \E cap \in Nat \ {0} : t \in [0..(cap - 1) -> Nat \cup {NULL}]

\* where the chains of a table lead
Home(t, l) == ln[l].hash % Cap(t)

\* no link comes back to itself
Acyclic == \A l \in All : l \notin Chain(ln[l].next)

Links ==
  /\ hash \in [Ptrs -> Hashes]
  /\ ln \in [All -> [ptr : Ptrs, hash : Nat, next : Ref]]
  /\ \A l \in All : ln[l].hash = hash[ln[l].ptr]
  /\ \A k, l \in All : ln[k].ptr = ln[l].ptr => k = l
  /\ Acyclic

Count ==
  /\ len \in Nat /\ All \subseteq 1..len
  /\ pc \in {"idle", "has", "linking", "growing"} => All = 1..len

Calls ==
  /\ pc \in {"growing", "linking"} => ptr \in Ptrs /\ \A l \in All : ln[l].ptr # ptr
  /\ IF pc = "has" THEN asked \in Ptrs ELSE asked = <<>> /\ answer = FALSE
  /\ pc \in {"idle", "has", "linking", "growing"} =>
       added = {ln[l].ptr : l \in All} /\ given = {}
  /\ pc \in {"freeing", "freed"} => added = {}

InTab == IsTable(tab) /\ InChains(tab, All)

\* the loop is at link p of index i
Walking ==
  /\ IsTable(tab) /\ i \in DOMAIN tab /\ p \in Ref /\ count \in Nat
  /\ \A l \in Chain(p) : Home(tab, l) = i
  /\ \A j \in DOMAIN tab : j > i => Chain(tab[j]) = {l \in All : Home(tab, l) = j}

Growing ==
  /\ Walking
  /\ IsTable(newtab) /\ InChains(newtab, All \ Rest)
  /\ count = Cardinality(All \ Rest)

Freeing ==
  /\ Walking
  /\ Rest = All
  /\ count = Cardinality((1..len) \ All)
  /\ IsFiniteSet(given) /\ count = Cardinality(given)
  /\ \A l \in All : ln[l].ptr \notin given

Stage ==
  /\ pc \in {"idle", "has", "linking", "growing", "freeing", "freed", "died"}
  /\ pc \in {"idle", "has", "linking"} => InTab
  /\ pc = "growing" => Growing
  /\ pc = "freeing" => Freeing
  /\ pc = "freed" => All = {}

Inv == Links /\ Count /\ Calls /\ Stage

LEMMA LinksLinked ==
  ASSUME Links, Count
  PROVE  Linked(ln) /\ All = DOMAIN ln /\ NULL \notin All
BY HashAssumption DEF Links, Count, Linked, All, Ref

LEMMA ChainHead ==
  ASSUME NEW L, NEW l, l # NULL
  PROVE  l \in ChainOf(L, l)
BY DEF ChainOf

LEMMA TableOk ==
  ASSUME NEW t, IsTable(t)
  PROVE  /\ Cap(t) \in Nat \ {0} /\ DOMAIN t = 0..(Cap(t) - 1)
         /\ t \in [DOMAIN t -> Nat \cup {NULL}]
         /\ \A h \in Nat : h % Cap(t) \in DOMAIN t
<1>1. PICK cap \in Nat \ {0} : t \in [0..(cap - 1) -> Nat \cup {NULL}]
  BY DEF IsTable
<1>2. Cap(t) = cap
  BY <1>1, FS_Interval DEF Cap
<1>. QED  BY <1>1, <1>2

LEMMA EmptyOk ==
  ASSUME NEW cap \in Nat \ {0}
  PROVE  IsTable(Empty(cap)) /\ Cap(Empty(cap)) = cap
         /\ \A j \in DOMAIN Empty(cap) : Empty(cap)[j] = NULL
<1>1. Empty(cap) \in [0..(cap - 1) -> Nat \cup {NULL}]
  BY DEF Empty
<1>2. IsTable(Empty(cap))
  BY <1>1 DEF IsTable
<1>3. Cap(Empty(cap)) = cap
  BY FS_Interval DEF Empty, Cap
<1>. QED  BY <1>2, <1>3 DEF Empty

\* a table whose chains are made of links leads to links
LEMMA TableLeads ==
  ASSUME NEW t, NEW K \in SUBSET All, InChains(t, K), NEW j \in DOMAIN t
  PROVE  t[j] \in Ref /\ Chain(t[j]) = {l \in K : Home(t, l) = j}
<1>1. Chain(t[j]) = {l \in K : Home(t, l) = j}
  BY DEF InChains, Home
<1>2. t[j] # NULL => t[j] \in Chain(t[j])
  BY ChainHead DEF Chain
<1>. QED  BY <1>1, <1>2 DEF Ref

LEMMA TabLeads ==
  ASSUME InTab, NEW j \in DOMAIN tab
  PROVE  tab[j] \in Ref /\ Chain(tab[j]) = {l \in All : Home(tab, l) = j}
<1>1. InChains(tab, All) /\ All \in SUBSET All
  BY DEF InTab
<1>. QED  BY <1>1, TableLeads

LEMMA HomeOk ==
  ASSUME Links, NEW t, IsTable(t), NEW l \in All
  PROVE  Home(t, l) \in DOMAIN t
BY TableOk DEF Links, Home

\* a pointer is found when it has a link
LEMMA FindsIs ==
  ASSUME Links, Count, InTab, NEW q \in Ptrs
  PROVE  Finds(q) <=> \E l \in All : ln[l].ptr = q
<1>. DEFINE j == hashfn(q) % Cap(tab)
<1>1. hashfn(q) \in Nat
  BY HashAssumption DEF Links, hashfn
<1>2. j \in DOMAIN tab
  BY <1>1, TableOk DEF InTab
<1>3. Chain(tab[j]) = {l \in All : Home(tab, l) = j}
  BY <1>2, TabLeads
<1>4. ASSUME NEW l \in All, ln[l].ptr = q PROVE Home(tab, l) = j
  BY <1>4 DEF Links, Home, hashfn
<1>. QED  BY <1>3, <1>4 DEF Finds

-----------------------------------------------------------------------------
(* The walks *)

\* the chains behind index i
Later == UNION {Chain(tab[j]) : j \in {k \in DOMAIN tab : k > i}}

\* The link that a walk is at is behind no other that it has before it.
LEMMA WalkParts ==
  ASSUME Links, Count, Walking, p # NULL
  PROVE  /\ p \in All /\ p \in Rest /\ Rest \subseteq All
         /\ Rest \ {p} = Chain(ln[p].next) \cup Later
         /\ \A l \in Rest : p \notin Chain(ln[l].next)
         /\ \A j \in DOMAIN tab : j > i => p \notin Chain(tab[j]) /\ tab[j] \in Ref
<1>1. Linked(ln) /\ p \in All /\ All = DOMAIN ln
  BY LinksLinked DEF Walking, Ref
<1>2. Chain(p) = {p} \cup Chain(ln[p].next) /\ Chain(p) \subseteq All
  BY <1>1, ChainStep, ChainLeast DEF Chain
<1>3. p \notin Chain(ln[p].next) /\ Home(tab, p) = i
  BY <1>1, <1>2 DEF Links, Acyclic, Walking
<1>4. Rest = Chain(p) \cup Later
  BY DEF Rest, Later
<1>5. i \in Nat
  BY TableOk DEF Walking
<1>6. ASSUME NEW j \in DOMAIN tab, j > i
      PROVE  /\ Chain(tab[j]) \subseteq All /\ p \notin Chain(tab[j]) /\ tab[j] \in Ref
  <2>1. Chain(tab[j]) = {l \in All : Home(tab, l) = j} /\ j # i
    BY <1>5, <1>6, TableOk DEF Walking
  <2>2. tab[j] # NULL => tab[j] \in Chain(tab[j])
    BY ChainHead DEF Chain
  <2>. QED  BY <1>3, <2>1, <2>2 DEF Ref
<1>7. Later \subseteq All /\ p \notin Later
  BY <1>6 DEF Later
<1>8. ASSUME NEW l \in Rest PROVE p \notin Chain(ln[l].next)
  <2>1. CASE l = p
    BY <1>3, <2>1
  <2>2. CASE l \in Chain(ln[p].next)
    <3>1. ln[p].next \in All \cup {NULL}
      BY <1>1 DEF Linked
    <3>2. Chain(ln[l].next) \subseteq Chain(ln[p].next)
      BY <1>1, <2>2, <3>1, ChainBehind DEF Chain
    <3>. QED  BY <1>3, <3>2
  <2>3. CASE l \in Later
    <3>1. PICK j \in DOMAIN tab : j > i /\ l \in Chain(tab[j])
      BY <2>3 DEF Later
    <3>2. Chain(ln[l].next) \subseteq Chain(tab[j])
      BY <1>1, <1>6, <3>1, ChainBehind DEF Chain, Ref
    <3>. QED  BY <1>6, <3>1, <3>2
  <2>. QED  BY <1>2, <1>4, <1>8, <2>1, <2>2, <2>3
<1>. QED  BY <1>1, <1>2, <1>3, <1>4, <1>6, <1>7, <1>8

\* outside the rest of the walk the links are those of the new table
LEMMA MovedAreBehind ==
  ASSUME Links, Count, Growing, NEW l \in All \ Rest
  PROVE  Chain(ln[l].next) \subseteq All \ Rest
<1>1. Linked(ln) /\ All = DOMAIN ln
  BY LinksLinked
<1>. DEFINE j == Home(newtab, l)
<1>2. j \in DOMAIN newtab
  BY HomeOk DEF Growing
<1>3. newtab[j] \in Ref /\ Chain(newtab[j]) = {k \in All \ Rest : Home(newtab, k) = j}
  BY <1>2, TableLeads DEF Growing
<1>4. l \in Chain(newtab[j])
  BY <1>3
<1>5. Chain(ln[l].next) \subseteq Chain(newtab[j])
  BY <1>1, <1>3, <1>4, ChainBehind DEF Chain, Ref
<1>. QED  BY <1>3, <1>5

LEMMA GrowMoveStep ==
  ASSUME Links, Count, Growing, GrowMove
  PROVE  Links' /\ Growing'
<1>. DEFINE j == ln[p].hash % Cap(newtab)
<1>1. /\ p # NULL /\ ln' = [ln EXCEPT ![p].next = newtab[j]]
      /\ newtab' = [newtab EXCEPT ![j] = p]
      /\ p' = ln[p].next /\ count' = count + 1
      /\ UNCHANGED <<hash, tab, len, i, pc, calls, given>>
  BY DEF GrowMove, Moved
<1>2. /\ p \in All /\ p \in Rest /\ Rest \subseteq All
      /\ Rest \ {p} = Chain(ln[p].next) \cup Later
      /\ \A l \in Rest : p \notin Chain(ln[l].next)
      /\ \A k \in DOMAIN tab : k > i => p \notin Chain(tab[k]) /\ tab[k] \in Ref
  BY <1>1, WalkParts DEF Growing
<1>3. Linked(ln) /\ All = DOMAIN ln /\ NULL \notin All
  BY LinksLinked
<1>4. j = Home(newtab, p) /\ j \in DOMAIN newtab
  BY <1>2, HomeOk DEF Growing, Home
<1>. HIDE DEF j
<1>5. ASSUME NEW k \in DOMAIN newtab
      PROVE  /\ newtab[k] \in Ref
             /\ Chain(newtab[k]) = {l \in All \ Rest : Home(newtab, l) = k}
             /\ p \notin Chain(newtab[k])
  BY <1>2, TableLeads DEF Growing
<1>6. /\ ln' \in [All -> [ptr : Ptrs, hash : Nat, next : Ref]] /\ All' = All /\ Ref' = Ref
      /\ \A l \in All : ln'[l].ptr = ln[l].ptr /\ ln'[l].hash = ln[l].hash
      /\ \A l \in All : ln'[l].next = IF l = p THEN newtab[j] ELSE ln[l].next
  BY <1>1, <1>2, <1>4, <1>5 DEF Links, All, Ref
<1>7. Linked(ln')
  <2>1. \A l \in All : ln'[l].next \in Ref
    BY <1>6
  <2>. QED  BY <1>3, <1>6, <2>1 DEF Linked, All, Ref
<1>8. ASSUME NEW l \in Ref, p \notin Chain(l) PROVE ChainOf(ln', l) = Chain(l)
  <2>1. Chain(l) \subseteq All
    BY <1>3, ChainLeast DEF Chain, Ref
  <2>2. \A k \in Chain(l) : k \in DOMAIN ln' /\ ln'[k].next = ln[k].next
    BY <1>6, <1>8, <2>1 DEF All
  <2>. QED  BY <1>3, <1>7, <2>2, ChainSame DEF Chain, Ref
<1>9. \A l \in All : p \notin Chain(ln[l].next)
  BY <1>2, MovedAreBehind
<1>10. Acyclic'
  <2>. SUFFICES ASSUME NEW l \in All PROVE l \notin ChainOf(ln', ln'[l].next)
    BY <1>6 DEF Acyclic, Chain
  <2>1. CASE l = p
    <3>1. ln'[l].next = newtab[j] /\ newtab[j] \in Ref /\ p \notin Chain(newtab[j])
      BY <1>4, <1>5, <1>6, <2>1
    <3>. QED  BY <1>8, <2>1, <3>1
  <2>2. CASE l # p
    <3>1. ln'[l].next = ln[l].next /\ ln[l].next \in Ref
      BY <1>6, <2>2 DEF Links
    <3>. QED  BY <1>8, <1>9, <3>1 DEF Links, Acyclic
  <2>. QED  BY <2>1, <2>2
<1>11. Links'
  BY <1>1, <1>6, <1>10 DEF Links, calls
<1>12. ChainOf(ln', p') = Chain(ln[p].next) /\ ln[p].next \in Ref
  BY <1>1, <1>2, <1>8 DEF Links
<1>13. \A k \in DOMAIN tab : k > i => ChainOf(ln', tab[k]) = Chain(tab[k])
  BY <1>2, <1>8
<1>14. Rest' = Rest \ {p}
  <2>1. Rest' = ChainOf(ln', p')
                \cup UNION {ChainOf(ln', tab[k]) : k \in {m \in DOMAIN tab : m > i}}
    BY <1>1 DEF Rest, Chain
  <2>2. UNION {ChainOf(ln', tab[k]) : k \in {m \in DOMAIN tab : m > i}} = Later
    BY <1>13 DEF Later
  <2>. QED  BY <1>2, <1>12, <2>1, <2>2
<1>15. /\ DOMAIN newtab' = DOMAIN newtab /\ Cap(newtab') = Cap(newtab) /\ IsTable(newtab')
       /\ \A k \in DOMAIN newtab : newtab'[k] = IF k = j THEN p ELSE newtab[k]
  <2>1. DOMAIN newtab' = DOMAIN newtab /\ p \in Nat
    BY <1>1, <1>2 DEF Count
  <2>2. IsTable(newtab')
    BY <1>1, <1>4, <2>1 DEF Growing, IsTable
  <2>. QED  BY <1>1, <1>4, <2>1, <2>2 DEF Cap
<1>16. \A l \in All : Home(newtab, l)' = Home(newtab, l) /\ Home(tab, l)' = Home(tab, l)
  BY <1>1, <1>6, <1>15 DEF Home
<1>17. ASSUME NEW k \in DOMAIN newtab
       PROVE  ChainOf(ln', newtab'[k]) = {l \in All \ Rest' : Home(newtab, l) = k}
  <2>1. CASE k = j
    <3>1. ChainOf(ln', p) = {p} \cup ChainOf(ln', ln'[p].next)
      BY <1>2, <1>6, <1>7, ChainStep DEF All
    <3>2. ChainOf(ln', ln'[p].next) = Chain(newtab[j])
      BY <1>2, <1>4, <1>5, <1>6, <1>8
    <3>3. ChainOf(ln', newtab'[k]) = {p} \cup {l \in All \ Rest : Home(newtab, l) = j}
      BY <1>4, <1>5, <1>15, <2>1, <3>1, <3>2
    <3>. QED  BY <1>2, <1>4, <1>14, <2>1, <3>3
  <2>2. CASE k # j
    BY <1>2, <1>4, <1>5, <1>8, <1>14, <1>15, <2>2
  <2>. QED  BY <2>1, <2>2
<1>18. InChains(newtab, All \ Rest)'
  <2>. SUFFICES ASSUME NEW k \in DOMAIN newtab
                PROVE  ChainOf(ln', newtab'[k])
                         = {l \in All \ Rest' : ln'[l].hash % Cap(newtab') = k}
    BY <1>6, <1>15 DEF InChains, Chain
  <2>. QED  BY <1>6, <1>15, <1>17 DEF Home
<1>19. Walking'
  <2>1. \A l \in ChainOf(ln', p') : Home(tab, l) = i /\ l \in All
    <3>1. Chain(ln[p].next) \subseteq Chain(p)
      BY <1>2, <1>3, ChainStep DEF Chain
    <3>. QED  BY <1>2, <1>3, <1>12, <3>1, ChainLeast DEF Growing, Walking, Chain, Ref
  <2>2. \A k \in DOMAIN tab : k > i => ChainOf(ln', tab[k]) = {l \in All : Home(tab, l) = k}
    BY <1>13 DEF Growing, Walking
  <2>3. /\ \A l \in Chain(p)' : Home(tab, l)' = i'
        /\ \A k \in DOMAIN tab' : k > i'
               => Chain(tab[k])' = {l \in All' : Home(tab, l)' = k}
    <3>1. tab' = tab /\ i' = i
      BY <1>1
    <3>2. ASSUME NEW k \in DOMAIN tab, k > i
          PROVE  ChainOf(ln', tab[k]) = {l \in All' : Home(tab, l)' = k}
      BY <1>6, <1>16, <2>2, <3>2
    <3>. QED  BY <1>16, <2>1, <3>1, <3>2 DEF Chain
  <2>4. IsTable(tab)' /\ i' \in DOMAIN tab' /\ p' \in Ref' /\ count' \in Nat
    BY <1>1, <1>6, <1>12 DEF Growing, Walking, IsTable
  <2>. QED  BY <2>3, <2>4 DEF Walking
<1>20. count' = Cardinality(All' \ Rest')
  <2>1. All' \ Rest' = (All \ Rest) \cup {p} /\ p \notin All \ Rest
    BY <1>2, <1>6, <1>14
  <2>2. IsFiniteSet(All \ Rest)
    <3>1. IsFiniteSet(1..len)
      BY FS_Interval DEF Count
    <3>. QED  BY <3>1, FS_Subset DEF Count
  <2>. QED  BY <1>1, <2>1, <2>2, FS_AddElement DEF Growing
<1>21. IsTable(newtab)'
  BY <1>15 DEF IsTable
<1>. QED  BY <1>11, <1>18, <1>19, <1>20, <1>21 DEF Growing

LEMMA CountOk ==
  ASSUME Count
  PROVE  /\ IsFiniteSet(1..len) /\ Cardinality(1..len) = len /\ len \in Nat
         /\ \A K \in SUBSET All : IsFiniteSet(K)
<1>1. IsFiniteSet(1..len) /\ Cardinality(1..len) = len
  BY FS_Interval DEF Count
<1>. QED  BY <1>1, FS_Subset DEF Count

\* The walk goes on to an index of the table, as links are left only behind i.
LEMMA NextIndexStep ==
  ASSUME Links, Count, NextIndex, pc = "growing" => Growing, pc = "freeing" => Freeing
  PROVE  /\ UNCHANGED <<hash, table, newtab, pc, calls, given>>
         /\ pc = "growing" => Growing'
         /\ pc = "freeing" => Freeing'
<1>1. /\ pc \in {"growing", "freeing"} /\ p = NULL /\ count < len /\ i' = i + 1
      /\ IF i + 1 \in DOMAIN tab THEN p' = tab[i + 1] /\ UNCHANGED pc
                                 ELSE pc' = "overrun" /\ UNCHANGED p
      /\ UNCHANGED <<hash, tab, ln, len, newtab, count, calls, given>>
  BY DEF NextIndex, LinksLeft, table
<1>2. Walking
  BY <1>1 DEF Growing, Freeing
<1>3. Linked(ln) /\ All = DOMAIN ln
  BY LinksLinked
<1>4. Rest = Later
  BY <1>1, <1>3, ChainNull DEF Rest, Later, Chain
<1>5. Rest # {}
  <2>1. pc = "growing" => count = Cardinality(All \ Rest) /\ All = 1..len
    BY DEF Growing, Count
  <2>2. pc = "freeing" => count = Cardinality((1..len) \ All) /\ Rest = All
    BY DEF Freeing
  <2>. SUFFICES ASSUME Rest = {} PROVE count = len
    BY <1>1, CountOk
  <2>3. (1..len) \ {} = 1..len
    OBVIOUS
  <2>4. CASE pc = "growing"
    BY <2>1, <2>3, <2>4, CountOk
  <2>5. CASE pc = "freeing"
    BY <2>2, <2>3, <2>5, CountOk
  <2>. QED  BY <1>1, <2>4, <2>5
<1>6. i \in Nat /\ Cap(tab) \in Nat /\ DOMAIN tab = 0..(Cap(tab) - 1)
  BY <1>2, TableOk DEF Walking
<1>7. i + 1 \in DOMAIN tab
  BY <1>4, <1>5, <1>6 DEF Later
<1>8. p' = tab[i + 1] /\ UNCHANGED pc
  BY <1>1, <1>7
<1>9. Chain(tab[i + 1]) = {l \in All : Home(tab, l) = i + 1} /\ tab[i + 1] \in Ref
  <2>1. Chain(tab[i + 1]) = {l \in All : Home(tab, l) = i + 1}
    BY <1>2, <1>6, <1>7 DEF Walking
  <2>. QED  BY <2>1, ChainHead DEF Chain, Ref
<1>10. Walking'
  <2>1. \A l \in Chain(tab[i + 1]) : Home(tab, l) = i + 1
    BY <1>9
  <2>2. \A j \in DOMAIN tab : j > i + 1 => Chain(tab[j]) = {l \in All : Home(tab, l) = j}
    BY <1>2, <1>6 DEF Walking
  <2>. QED  BY <1>1, <1>2, <1>7, <1>8, <1>9, <2>1, <2>2
            DEF Walking, IsTable, Chain, Home, All, Ref
<1>11. Rest' = Rest
  <2>1. Rest' = Chain(tab[i + 1])
                \cup UNION {Chain(tab[j]) : j \in {k \in DOMAIN tab : k > i + 1}}
    BY <1>1, <1>8 DEF Rest, Chain
  <2>2. {k \in DOMAIN tab : k > i} = {i + 1} \cup {k \in DOMAIN tab : k > i + 1}
    BY <1>6, <1>7
  <2>. QED  BY <1>4, <2>1, <2>2 DEF Later
<1>12. pc = "growing" => Growing'
  <2>1. InChains(newtab, All \ Rest) => InChains(newtab, All \ Rest)'
    BY <1>1, <1>11 DEF InChains, Chain, All, Cap
  <2>. QED  BY <1>1, <1>10, <1>11, <2>1 DEF Growing, IsTable, All
<1>13. pc = "freeing" => Freeing'
  BY <1>1, <1>10, <1>11 DEF Freeing, All
<1>. QED  BY <1>1, <1>8, <1>12, <1>13 DEF table

\* The walk of hash_grow() ends when all links are in the new table.
LEMMA GrowEndStep ==
  ASSUME Links, Count, pc = "growing", Growing, GrowEnd
  PROVE  InTab'
<1>1. /\ p = NULL /\ ~(count < len) /\ tab' = newtab /\ UNCHANGED ln
  BY DEF GrowEnd, LinksLeft
<1>2. All = 1..len /\ count = Cardinality(All \ Rest) /\ count \in Nat
  BY DEF Count, Growing, Walking
<1>3. IsFiniteSet(All \ Rest) /\ All \ Rest \in SUBSET (1..len)
  BY <1>2, CountOk
<1>4. count <= len
  BY <1>2, <1>3, CountOk, FS_Subset
<1>5. All \ Rest = All
  <2>1. Cardinality(All \ Rest) = Cardinality(1..len)
    BY <1>1, <1>2, <1>4, CountOk
  <2>. QED  BY <1>2, <1>3, <2>1, CountOk, FS_Subset
<1>6. IsTable(newtab) /\ InChains(newtab, All)
  BY <1>5 DEF Growing
<1>. QED  BY <1>1, <1>6 DEF InTab, InChains, IsTable, Chain, All, Cap

LEMMA FreeLinkStep ==
  ASSUME Links, Count, pc = "freeing", Freeing, FreeLink
  PROVE  Links' /\ Freeing' /\ All' = All \ {p}
<1>1. /\ p # NULL /\ given' = given \cup {ln[p].ptr}
      /\ ln' = [l \in All \ {p} |-> ln[l]]
      /\ p' = ln[p].next /\ count' = count + 1
      /\ UNCHANGED <<hash, tab, len, newtab, i, pc, calls>>
  BY DEF FreeLink, All
<1>2. /\ p \in All /\ p \in Rest /\ Rest = All
      /\ All \ {p} = Chain(ln[p].next) \cup Later
      /\ \A l \in All : p \notin Chain(ln[l].next)
      /\ \A k \in DOMAIN tab : k > i => p \notin Chain(tab[k]) /\ tab[k] \in Ref
  BY <1>1, WalkParts DEF Freeing
<1>3. Linked(ln) /\ All = DOMAIN ln /\ NULL \notin All
  BY LinksLinked
<1>4. All' = All \ {p} /\ \A l \in All' : ln'[l] = ln[l]
  BY <1>1 DEF All
<1>5. \A l \in All : ln[l].next \in Ref /\ ln[l].next # p
  <2>. SUFFICES ASSUME NEW l \in All PROVE ln[l].next \in Ref /\ ln[l].next # p
    OBVIOUS
  <2>1. ln[l].next \in Ref
    BY DEF Links
  <2>2. ln[l].next # NULL => ln[l].next \in Chain(ln[l].next)
    BY ChainHead DEF Chain
  <2>. QED  BY <1>1, <1>2, <2>1, <2>2
<1>6. Linked(ln')
  BY <1>3, <1>4, <1>5 DEF Linked, All, Ref
<1>7. ASSUME NEW l \in Ref, p \notin Chain(l) PROVE ChainOf(ln', l) = Chain(l)
  <2>1. Chain(l) \subseteq All
    BY <1>3, ChainLeast DEF Chain, Ref
  <2>2. \A k \in Chain(l) : k \in DOMAIN ln' /\ ln'[k].next = ln[k].next
    BY <1>4, <1>7, <2>1 DEF All
  <2>. QED  BY <1>3, <1>6, <2>2, ChainSame DEF Chain, Ref
<1>8. Acyclic'
  BY <1>2, <1>4, <1>5, <1>7 DEF Links, Acyclic, Chain
<1>9. Links'
  <2>1. ln' \in [All' -> [ptr : Ptrs, hash : Nat, next : Ref']]
    <3>1. ASSUME NEW l \in All' PROVE ln'[l] \in [ptr : Ptrs, hash : Nat, next : Ref']
      <4>1. ln[l] \in [ptr : Ptrs, hash : Nat, next : Ref] /\ ln[l].next \in Ref'
        BY <1>4, <1>5 DEF Links, Ref
      <4>2. ln[l] = [ptr |-> ln[l].ptr, hash |-> ln[l].hash, next |-> ln[l].next]
        BY <4>1
      <4>. QED  BY <1>4, <4>1, <4>2
    <3>. QED  BY <1>1, <1>4, <3>1
  <2>. QED  BY <1>1, <1>4, <1>8, <2>1 DEF Links
<1>10. ChainOf(ln', p') = Chain(ln[p].next) /\ p' \in Ref'
  BY <1>1, <1>2, <1>4, <1>5, <1>7 DEF Ref
<1>11. \A k \in DOMAIN tab : k > i => ChainOf(ln', tab[k]) = Chain(tab[k])
  BY <1>2, <1>7
<1>12. Rest' = All'
  <2>1. Rest' = ChainOf(ln', p')
                \cup UNION {ChainOf(ln', tab[k]) : k \in {m \in DOMAIN tab : m > i}}
    BY <1>1 DEF Rest, Chain
  <2>2. UNION {ChainOf(ln', tab[k]) : k \in {m \in DOMAIN tab : m > i}} = Later
    BY <1>11 DEF Later
  <2>. QED  BY <1>2, <1>4, <1>10, <2>1, <2>2
<1>13. \A l \in All' : Home(tab, l)' = Home(tab, l)
  BY <1>1, <1>4 DEF Home
<1>14. Walking'
  <2>1. \A l \in ChainOf(ln', p') : l \in All' /\ Home(tab, l)' = i
    <3>1. Chain(ln[p].next) \subseteq Chain(p)
      BY <1>2, <1>3, ChainStep DEF Chain
    <3>2. Chain(ln[p].next) \subseteq All'
      BY <1>2, <1>4
    <3>. QED  BY <1>10, <1>13, <3>1, <3>2 DEF Freeing, Walking
  <2>2. ASSUME NEW k \in DOMAIN tab, k > i
        PROVE  ChainOf(ln', tab[k]) = {l \in All' : Home(tab, l)' = k}
    <3>1. Chain(tab[k]) = {l \in All : Home(tab, l) = k} /\ p \notin Chain(tab[k])
      BY <1>2, <2>2 DEF Freeing, Walking
    <3>. QED  BY <1>4, <1>11, <1>13, <2>2, <3>1
  <2>3. IsTable(tab)' /\ i' \in DOMAIN tab' /\ count' \in Nat /\ tab' = tab /\ i' = i
    BY <1>1 DEF Freeing, Walking, IsTable
  <2>. QED  BY <1>10, <2>1, <2>2, <2>3 DEF Walking, Chain
<1>15. /\ count' = Cardinality((1..len') \ All')
       /\ IsFiniteSet(given') /\ count' = Cardinality(given')
       /\ \A l \in All' : ln'[l].ptr \notin given'
  <2>1. (1..len') \ All' = ((1..len) \ All) \cup {p} /\ p \notin (1..len) \ All
    BY <1>1, <1>2, <1>4 DEF Count
  <2>2. IsFiniteSet((1..len) \ All)
    BY CountOk, FS_Subset
  <2>3. Cardinality((1..len') \ All') = count + 1
    BY <2>1, <2>2, FS_AddElement DEF Freeing
  <2>4. ln[p].ptr \notin given /\ IsFiniteSet(given) /\ Cardinality(given) = count
    BY <1>2 DEF Freeing
  <2>5. IsFiniteSet(given') /\ Cardinality(given') = count + 1
    BY <1>1, <2>4, FS_AddElement
  <2>6. \A l \in All' : ln'[l].ptr \notin given'
    BY <1>1, <1>2, <1>4 DEF Freeing, Links
  <2>. QED  BY <1>1, <2>3, <2>5, <2>6
<1>. QED  BY <1>4, <1>9, <1>12, <1>14, <1>15 DEF Freeing

\* no link is left when hash_free() frees the table
LEMMA FreeEndStep ==
  ASSUME Links, Count, pc = "freeing", Freeing, FreeEnd
  PROVE  All = {}
<1>1. ~(count < len) /\ count = Cardinality((1..len) \ All) /\ count \in Nat
  BY DEF FreeEnd, LinksLeft, Freeing, Walking
<1>2. (1..len) \ All \in SUBSET (1..len)
  OBVIOUS
<1>3. count <= len
  BY <1>1, <1>2, CountOk, FS_Subset
<1>4. Cardinality((1..len) \ All) = Cardinality(1..len)
  BY <1>1, <1>3, CountOk
<1>5. (1..len) \ All = 1..len
  BY <1>2, <1>4, CountOk, FS_Subset
<1>. QED  BY <1>5 DEF Count

-----------------------------------------------------------------------------
(* The steps *)

LEMMA InitInv == ASSUME Bertrand PROVE Init => Inv
<1>. SUFFICES ASSUME Init PROVE Inv
  OBVIOUS
<1>. DEFINE cap == NextPrime(0)
<1>1. cap \in Nat \ {0}
  BY NextPrimeOk
<1>2. /\ IsTable(Empty(cap)) /\ \A j \in DOMAIN Empty(cap) : Empty(cap)[j] = NULL
  BY <1>1, EmptyOk
<1>3. tab = Empty(cap) /\ ln = <<>> /\ len = 0 /\ All = {}
  BY DEF Init, All
<1>. HIDE DEF cap
<1>4. Linked(ln)
  BY <1>3 DEF Linked, All
<1>5. InTab
  BY <1>2, <1>3, <1>4, ChainNull DEF InTab, InChains, Chain
<1>6. Links
  <2>1. ln \in [All -> [ptr : Ptrs, hash : Nat, next : Ref]]
    BY <1>3
  <2>. QED  BY <1>3, <2>1 DEF Init, Links, Acyclic
<1>7. Count
  BY <1>3 DEF Count
<1>8. Calls
  BY <1>3 DEF Init, Calls
<1>9. Stage
  BY <1>5 DEF Init, Stage
<1>. QED  BY <1>6, <1>7, <1>8, <1>9 DEF Inv

\* what does not touch the links keeps their chains
LEMMA LinksKept ==
  ASSUME UNCHANGED <<hash, ln, len>>
  PROVE  /\ All' = All /\ Ref' = Ref /\ \A l : ChainOf(ln', l) = Chain(l)
         /\ Links => Links'
BY DEF All, Ref, Chain, Links, Acyclic

LEMMA InTabKept ==
  ASSUME InTab, UNCHANGED <<hash, tab, ln, len>>
  PROVE  InTab'
BY LinksKept DEF InTab, IsTable, InChains, Chain, All, Cap

LEMMA LoadedHas ==
  ASSUME Count, InTab, Loaded
  PROVE  len > 0
BY TableOk DEF Count, InTab, Loaded

\* the loop begins with all links before it
LEMMA WalkBegins ==
  ASSUME Links, Count, InTab, All = 1..len, WalkFrom0, UNCHANGED <<hash, tab, ln, len>>
  PROVE  Walking' /\ Rest' = All' /\ count' = 0
<1>1. /\ Cap(tab) \in Nat \ {0} /\ DOMAIN tab = 0..(Cap(tab) - 1) /\ 0 \in DOMAIN tab
  BY TableOk DEF InTab
<1>2. \A j \in DOMAIN tab : tab[j] \in Ref /\ Chain(tab[j]) = {l \in All : Home(tab, l) = j}
  BY TabLeads
<1>3. Linked(ln)
  BY LinksLinked
<1>4. i' = 0 /\ count' = 0 /\ p' = (IF len > 0 THEN tab[0] ELSE NULL)
  BY DEF WalkFrom0
<1>5. Chain(p') = Chain(tab[0]) /\ p' \in Ref
  <2>1. CASE len > 0
    BY <1>1, <1>2, <1>4, <2>1
  <2>2. CASE ~(len > 0)
    <3>1. All = {} /\ p' = NULL
      BY <1>4, <2>2 DEF Count
    <3>2. Chain(tab[0]) = {}
      BY <1>1, <1>2, <3>1
    <3>. QED  BY <1>3, <3>1, <3>2, ChainNull DEF Chain, Ref
  <2>. QED  BY <2>1, <2>2
<1>6. All' = All /\ Ref' = Ref /\ \A l : ChainOf(ln', l) = Chain(l)
  BY LinksKept
<1>7. \A l \in All : Home(tab, l)' = Home(tab, l)
  BY DEF Home
<1>8. Walking'
  <2>1. \A l \in ChainOf(ln', p') : Home(tab, l)' = i'
    BY <1>1, <1>2, <1>4, <1>5, <1>6, <1>7
  <2>2. ASSUME NEW j \in DOMAIN tab
        PROVE  ChainOf(ln', tab[j]) = {l \in All' : Home(tab, l)' = j}
    BY <1>2, <1>6, <1>7
  <2>. QED  BY <1>1, <1>4, <1>5, <1>6, <2>1, <2>2 DEF InTab, Walking, IsTable, Chain
<1>9. Rest' = All'
  <2>1. Rest' = Chain(tab[0]) \cup UNION {Chain(tab[j]) : j \in {k \in DOMAIN tab : k > 0}}
    BY <1>4, <1>5, <1>6 DEF Rest, Chain
  <2>2. \A l \in All : Home(tab, l) \in DOMAIN tab
    BY HomeOk DEF InTab
  <2>3. \A j \in DOMAIN tab : j = 0 \/ j > 0
    BY <1>1
  <2>. QED  BY <1>1, <1>2, <1>6, <2>1, <2>2, <2>3
<1>. QED  BY <1>4, <1>8, <1>9

LEMMA SetNewStep ==
  ASSUME Bertrand, Inv, NEW q \in Ptrs, SetNew(q)
  PROVE  Inv'
<1>1. /\ pc = "idle" /\ ~Finds(q) /\ ptr' = q
      /\ UNCHANGED <<hash, tab, ln, len, asked, answer, added, given>>
  BY DEF SetNew, table
<1>2. Links /\ Count /\ Calls /\ InTab /\ All = 1..len
  BY <1>1 DEF Inv, Stage, Count
<1>3. \A l \in All : ln[l].ptr # q
  BY <1>1, <1>2, FindsIs
<1>4. All' = All /\ Ref' = Ref /\ (\A l : ChainOf(ln', l) = Chain(l)) /\ Links'
  BY <1>1, <1>2, LinksKept
<1>5. CASE Loaded
  <2>1. /\ pc' = "growing" /\ newtab' = Empty(NextPrime(2 * Cap(tab))) /\ WalkFrom0
    BY <1>5 DEF SetNew
  <2>2. Walking' /\ Rest' = All' /\ count' = 0
    BY <1>1, <1>2, <2>1, WalkBegins
  <2>3. NextPrime(2 * Cap(tab)) \in Nat \ {0}
    BY <1>2, NextPrimeOk, TableOk DEF InTab
  <2>4. IsTable(newtab') /\ \A j \in DOMAIN newtab' : newtab'[j] = NULL
    BY <2>1, <2>3, EmptyOk
  <2>5. InChains(newtab, All \ Rest)'
    <3>1. Chain(NULL) = {}
      BY <1>2, LinksLinked, ChainNull DEF Chain
    <3>. QED  BY <1>4, <2>2, <2>4, <3>1 DEF InChains, Chain
  <2>6. Growing'
    BY <2>2, <2>4, <2>5, FS_EmptySet DEF Growing, IsTable
  <2>7. Count' /\ Calls' /\ Stage'
    BY <1>1, <1>2, <1>3, <1>4, <2>1, <2>6 DEF Count, Calls, Stage
  <2>. QED  BY <1>4, <2>7 DEF Inv
<1>6. CASE ~Loaded
  <2>1. pc' = "linking"
    BY <1>6 DEF SetNew
  <2>2. InTab'
    BY <1>1, <1>2, InTabKept
  <2>3. Count' /\ Calls' /\ Stage'
    BY <1>1, <1>2, <1>3, <1>4, <2>1, <2>2 DEF Count, Calls, Stage
  <2>. QED  BY <1>4, <2>3 DEF Inv
<1>. QED  BY <1>5, <1>6

LEMMA WalkStep ==
  ASSUME Inv, Walk
  PROVE  Inv' /\ UNCHANGED <<hash, calls>> /\ pc' # "overrun"
<1>1. /\ Links /\ Count /\ Calls
      /\ pc = "growing" => Growing
      /\ pc = "freeing" => Freeing
  BY DEF Inv, Stage
<1>2. CASE GrowMove
  <2>1. /\ pc = "growing" /\ UNCHANGED <<hash, tab, len, i, pc, calls, given>>
    BY <1>2 DEF GrowMove
  <2>2. Links' /\ Growing'
    BY <1>1, <1>2, <2>1, GrowMoveStep
  <2>3. All' = All /\ \A l \in All : ln'[l].ptr = ln[l].ptr
    BY <1>1, <1>2 DEF GrowMove, Moved, All, Links
  <2>4. Count' /\ Calls' /\ Stage'
    BY <1>1, <2>1, <2>2, <2>3 DEF Count, Calls, Stage, calls
  <2>. QED  BY <2>1, <2>2, <2>4 DEF Inv
<1>3. CASE NextIndex
  <2>1. /\ pc \in {"growing", "freeing"}
        /\ UNCHANGED <<hash, tab, ln, len, newtab, pc, calls, given>>
        /\ pc = "growing" => Growing'
        /\ pc = "freeing" => Freeing'
    BY <1>1, <1>3, NextIndexStep DEF table, NextIndex
  <2>2. Links' /\ All' = All
    BY <1>1, <2>1, LinksKept
  <2>3. Count' /\ Calls' /\ Stage'
    BY <1>1, <2>1, <2>2 DEF Count, Calls, Stage, calls
  <2>. QED  BY <2>1, <2>2, <2>3 DEF Inv
<1>4. CASE GrowEnd
  <2>1. pc = "growing" /\ pc' = "linking" /\ UNCHANGED <<hash, ln, len, calls, given>>
    BY <1>4 DEF GrowEnd
  <2>2. InTab'
    BY <1>1, <1>4, <2>1, GrowEndStep
  <2>3. Links' /\ All' = All
    BY <1>1, <2>1, LinksKept
  <2>4. Count' /\ Calls' /\ Stage'
    BY <1>1, <2>1, <2>2, <2>3 DEF Count, Calls, Stage, calls
  <2>. QED  BY <2>1, <2>3, <2>4 DEF Inv
<1>5. CASE FreeLink
  <2>1. pc = "freeing" /\ UNCHANGED <<hash, len, pc, calls>>
    BY <1>5 DEF FreeLink
  <2>2. Links' /\ Freeing' /\ All' = All \ {p}
    BY <1>1, <1>5, <2>1, FreeLinkStep
  <2>3. Count' /\ Calls' /\ Stage'
    BY <1>1, <2>1, <2>2 DEF Count, Calls, Stage, calls
  <2>. QED  BY <2>1, <2>2, <2>3 DEF Inv
<1>6. CASE FreeEnd
  <2>1. /\ pc = "freeing" /\ pc' = "freed" /\ len' = 0
        /\ UNCHANGED <<hash, ln, calls, given>>
    BY <1>6 DEF FreeEnd
  <2>2. All = {} /\ All' = All
    BY <1>1, <1>6, <2>1, FreeEndStep DEF All
  <2>3. Links'
    BY <1>1, <2>1, <2>2 DEF Links, Acyclic, Ref
  <2>4. Count' /\ Calls' /\ Stage'
    BY <1>1, <2>1, <2>2 DEF Count, Calls, Stage, calls
  <2>. QED  BY <2>1, <2>3, <2>4 DEF Inv
<1>. QED  BY <1>2, <1>3, <1>4, <1>5, <1>6 DEF Walk, Stage, Inv

LEMMA LinkStep ==
  ASSUME Inv, Link
  PROVE  Inv'
<1>. PICK new, j : new = Cardinality(DOMAIN ln) + 1 /\ j = hashfn(ptr) % Cap(tab)
  OBVIOUS
<1>1. /\ pc = "linking" /\ pc' = "idle"
      /\ ln' = [k \in DOMAIN ln \cup {new} |->
                  IF k = new THEN [ptr |-> ptr, hash |-> hashfn(ptr), next |-> tab[j]]
                  ELSE ln[k]]
      /\ tab' = [tab EXCEPT ![j] = new]
      /\ len' = len + 1 /\ added' = added \cup {ptr}
      /\ UNCHANGED <<hash, asked, answer, given>>
  BY DEF Link
<1>2. /\ Links /\ Count /\ Calls /\ InTab /\ All = 1..len /\ len \in Nat
      /\ ptr \in Ptrs /\ \A l \in All : ln[l].ptr # ptr
  BY <1>1 DEF Inv, Stage, Count, Calls
<1>3. new = len + 1 /\ new \notin All /\ new \in Nat
  BY <1>2, CountOk DEF All
<1>4. Linked(ln) /\ All = DOMAIN ln /\ NULL \notin All
  BY <1>2, LinksLinked
<1>5. hashfn(ptr) \in Nat /\ hashfn(ptr) = hash[ptr]
  BY <1>2, HashAssumption DEF Links, hashfn
<1>6. j \in DOMAIN tab /\ IsTable(tab)
  BY <1>2, <1>5, TableOk DEF InTab
<1>7. ASSUME NEW k \in DOMAIN tab
      PROVE  tab[k] \in Ref /\ Chain(tab[k]) = {l \in All : Home(tab, l) = k}
  BY <1>2, TabLeads
<1>8. /\ All' = All \cup {new} /\ Ref' = Ref \cup {new}
      /\ \A l \in All : ln'[l] = ln[l]
      /\ ln'[new] = [ptr |-> ptr, hash |-> hashfn(ptr), next |-> tab[j]]
  BY <1>1, <1>3, <1>4 DEF All, Ref
<1>9. Linked(ln')
  BY <1>3, <1>4, <1>6, <1>7, <1>8, HashAssumption DEF Linked, All, Ref
<1>10. ASSUME NEW l \in Ref PROVE ChainOf(ln', l) = Chain(l) /\ new \notin Chain(l)
  <2>1. Chain(l) \subseteq All
    BY <1>4, ChainLeast DEF Chain, Ref
  <2>2. \A k \in Chain(l) : k \in DOMAIN ln' /\ ln'[k].next = ln[k].next
    BY <1>8, <2>1 DEF All
  <2>. QED  BY <1>3, <1>4, <1>9, <2>1, <2>2, ChainSame DEF Chain, Ref
<1>11. Acyclic'
  <2>1. ASSUME NEW l \in All PROVE l \notin ChainOf(ln', ln'[l].next)
    <3>1. ln'[l].next = ln[l].next /\ ln[l].next \in Ref
      BY <1>2, <1>8 DEF Links
    <3>. QED  BY <1>2, <1>10, <3>1 DEF Links, Acyclic
  <2>2. new \notin ChainOf(ln', ln'[new].next)
    BY <1>6, <1>7, <1>8, <1>10
  <2>. QED  BY <1>8, <2>1, <2>2 DEF Acyclic, Chain
<1>12. Links'
  <2>1. ln' \in [All' -> [ptr : Ptrs, hash : Nat, next : Ref']]
    <3>1. ASSUME NEW l \in All PROVE ln'[l] \in [ptr : Ptrs, hash : Nat, next : Ref']
      <4>1. ln[l] \in [ptr : Ptrs, hash : Nat, next : Ref] /\ Ref \subseteq Ref'
        BY <1>2, <1>8 DEF Links
      <4>2. ln[l] = [ptr |-> ln[l].ptr, hash |-> ln[l].hash, next |-> ln[l].next]
        BY <4>1
      <4>. QED  BY <1>8, <4>1, <4>2
    <3>2. ln'[new] \in [ptr : Ptrs, hash : Nat, next : Ref']
      BY <1>2, <1>5, <1>6, <1>7, <1>8
    <3>3. DOMAIN ln' = All' /\ ln' = [k \in DOMAIN ln' |-> ln'[k]]
      BY <1>1 DEF All
    <3>. QED  BY <1>8, <3>1, <3>2, <3>3
  <2>2. \A l \in All' : ln'[l].hash = hash'[ln'[l].ptr]
    BY <1>1, <1>2, <1>5, <1>8 DEF Links
  <2>3. \A k, l \in All' : ln'[k].ptr = ln'[l].ptr => k = l
    BY <1>2, <1>8 DEF Links
  <2>. QED  BY <1>1, <1>2, <1>11, <2>1, <2>2, <2>3 DEF Links
<1>13. /\ DOMAIN tab' = DOMAIN tab /\ Cap(tab') = Cap(tab) /\ IsTable(tab')
       /\ \A k \in DOMAIN tab : tab'[k] = IF k = j THEN new ELSE tab[k]
  <2>1. DOMAIN tab' = DOMAIN tab
    BY <1>1
  <2>2. IsTable(tab')
    BY <1>1, <1>3, <1>6, <2>1 DEF IsTable
  <2>. QED  BY <1>1, <2>1, <2>2 DEF Cap
<1>14. /\ \A l \in All : Home(tab, l)' = Home(tab, l)
       /\ Home(tab, new)' = j
  BY <1>8, <1>13 DEF Home
<1>15. ASSUME NEW k \in DOMAIN tab
       PROVE  ChainOf(ln', tab'[k]) = {l \in All' : Home(tab, l)' = k}
  <2>1. CASE k = j
    <3>1. ChainOf(ln', new) = {new} \cup ChainOf(ln', ln'[new].next)
      BY <1>8, <1>9, ChainStep DEF All
    <3>2. ChainOf(ln', ln'[new].next) = {l \in All : Home(tab, l) = j}
      BY <1>6, <1>7, <1>8, <1>10
    <3>. QED  BY <1>8, <1>13, <1>14, <2>1, <3>1, <3>2
  <2>2. CASE k # j
    BY <1>7, <1>8, <1>10, <1>13, <1>14, <2>2
  <2>. QED  BY <2>1, <2>2
<1>16. InTab'
  <2>1. ASSUME NEW k \in DOMAIN tab
        PROVE  ChainOf(ln', tab'[k]) = {l \in All' : ln'[l].hash % Cap(tab') = k}
    BY <1>15 DEF Home
  <2>. QED  BY <1>13, <2>1 DEF InTab, InChains, Chain, IsTable
<1>17. Count'
  BY <1>1, <1>2, <1>3, <1>8 DEF Count
<1>18. Calls'
  <2>1. added = {ln[l].ptr : l \in All} /\ added' = added \cup {ptr}
    BY <1>1, <1>2 DEF Calls
  <2>2. {ln'[l].ptr : l \in All'} = {ln'[l].ptr : l \in All} \cup {ln'[new].ptr}
    BY <1>8
  <2>3. {ln'[l].ptr : l \in All} = {ln[l].ptr : l \in All} /\ ln'[new].ptr = ptr
    BY <1>8
  <2>4. added' = {ln'[l].ptr : l \in All'}
    BY <2>1, <2>2, <2>3
  <2>. QED  BY <1>1, <1>2, <2>4 DEF Calls
<1>. QED  BY <1>1, <1>12, <1>16, <1>17, <1>18 DEF Inv, Stage

LEMMA OtherSteps ==
  ASSUME Inv,
         (\E q \in Ptrs : SetFound(q) \/ Has(q)) \/ HasReturns \/ Dies \/ Free \/ UNCHANGED vars
  PROVE  Inv'
<1>1. Links /\ Count /\ Calls
  BY DEF Inv
<1>2. UNCHANGED <<hash, tab, ln, len>>
  BY DEF SetFound, Has, HasReturns, Dies, Free, vars, table
<1>3. /\ All' = All /\ Ref' = Ref /\ (\A l : ChainOf(ln', l) = Chain(l)) /\ Links'
  BY <1>1, <1>2, LinksKept
<1>4. InTab => InTab'
  BY <1>2, InTabKept
<1>5. ASSUME NEW q \in Ptrs, Has(q) PROVE Inv'
  BY <1>1, <1>2, <1>3, <1>4, <1>5 DEF Has, Inv, Stage, Count, Calls
<1>6. CASE HasReturns
  BY <1>1, <1>2, <1>3, <1>4, <1>6 DEF HasReturns, Inv, Stage, Count, Calls
<1>7. CASE Dies
  BY <1>1, <1>2, <1>3, <1>4, <1>7 DEF Dies, calls, Inv, Stage, Count, Calls
<1>8. CASE Free
  <2>1. /\ pc = "idle" /\ pc' = "freeing" /\ WalkFrom0 /\ added' = {}
        /\ UNCHANGED <<asked, answer, given>>
    BY <1>8 DEF Free
  <2>2. InTab /\ All = 1..len /\ given = {}
    BY <1>1, <2>1 DEF Inv, Stage, Count, Calls
  <2>3. Walking' /\ Rest' = All' /\ count' = 0
    BY <1>1, <1>2, <2>1, <2>2, WalkBegins
  <2>4. (1..len) \ All = {}
    BY <2>2
  <2>5. Freeing'
    BY <1>2, <1>3, <2>1, <2>2, <2>3, <2>4, FS_EmptySet DEF Freeing
  <2>. QED  BY <1>1, <1>2, <1>3, <2>1, <2>5 DEF Inv, Stage, Count, Calls
<1>9. CASE UNCHANGED vars
  <2>1. UNCHANGED <<pc, newtab, i, p, count, ptr, asked, answer, added, given>>
    BY <1>9 DEF vars, walk, calls
  <2>2. Walking => Walking'
    BY <1>2, <2>1 DEF Walking, IsTable, Chain, Home, All, Ref, Cap
  <2>3. Rest' = Rest
    BY <1>2, <2>1 DEF Rest, Chain
  <2>4. Growing => Growing'
    BY <1>2, <1>3, <2>1, <2>2, <2>3 DEF Growing, IsTable, InChains, Chain, Cap
  <2>5. Freeing => Freeing'
    BY <1>2, <1>3, <2>1, <2>2, <2>3 DEF Freeing
  <2>. QED  BY <1>1, <1>2, <1>3, <1>4, <2>1, <2>4, <2>5 DEF Inv, Stage, Count, Calls
<1>10. CASE \E q \in Ptrs : SetFound(q)
  BY <1>9, <1>10 DEF SetFound
<1>. QED  BY <1>5, <1>6, <1>7, <1>8, <1>9, <1>10

LEMMA StepInv == ASSUME Bertrand PROVE Inv /\ [Next]_vars => Inv'
BY SetNewStep, WalkStep, LinkStep, OtherSteps DEF Next

\* the invariant holds whatever the pointers and their hashes
THEOREM Invariance == ASSUME Bertrand PROVE Spec => []Inv
<1>. QED  BY InitInv, StepInv, PTL DEF Spec

\* every link stays in the chain where hash_set() and hash_has() look for it,
\* and no walk reads behind the table
THEOREM EveryLinkIsChained == ASSUME Bertrand PROVE Spec => []Chained
<1>1. Inv => Chained
  <2>. SUFFICES ASSUME Inv PROVE Chained
    OBVIOUS
  <2>1. All = DOMAIN ln /\ Links /\ Count /\ Stage
    BY DEF Inv, All
  <2>2. pc \in {"idle", "has", "linking", "growing"} => len = Cardinality(All)
    BY <2>1, CountOk DEF Count
  <2>3. pc = "freeing" => Rest = All /\ count = Cardinality(given)
    BY <2>1 DEF Stage, Freeing
  <2>. QED  BY <2>1, <2>2, <2>3 DEF Chained, Stage, InTab, Growing, Links
<1>. QED  BY <1>1, Invariance, PTL

-----------------------------------------------------------------------------
(* What callers see *)

\* the state of the set that hash_set() and hash_has() change
LEMMA IdealStep ==
  ASSUME Inv, [Next]_vars
  PROVE  [Ideal!Next]_Ideal!vars
<1>. USE DEF Ideal!Next, Ideal!vars
<1>1. Links /\ Count /\ Calls /\ Stage
  BY DEF Inv
<1>2. ASSUME NEW q \in Ptrs, SetFound(q) PROVE UNCHANGED Ideal!vars
  BY <1>2 DEF SetFound, vars, calls
<1>3. ASSUME NEW q \in Ptrs, SetNew(q) PROVE UNCHANGED Ideal!vars
  <2>1. pc = "idle" /\ pc' \in {"growing", "linking"} /\ UNCHANGED <<asked, answer, added>>
    BY <1>3 DEF SetNew
  <2>. QED  BY <2>1
<1>4. ASSUME NEW q \in Ptrs, Has(q) PROVE Ideal!Has(q)
  <2>1. /\ pc = "idle" /\ pc' = "has" /\ asked' = q /\ answer' = Finds(q)
        /\ UNCHANGED added
    BY <1>4 DEF Has
  <2>2. asked = <<>> /\ added = {ln[l].ptr : l \in All} /\ InTab
    BY <1>1, <2>1 DEF Calls, Stage
  <2>3. Finds(q) <=> \E r \in added : q = r
    BY <1>1, <2>2, FindsIs
  <2>4. Finds(q) = \E r \in added : Ideal!Same(q, r)
    BY <2>3 DEF Ideal!Same, Finds
  <2>. QED  BY <2>1, <2>2, <2>4 DEF Ideal!Has
<1>5. ASSUME Walk PROVE UNCHANGED Ideal!vars
  <2>1. UNCHANGED <<asked, answer, added>>
    BY <1>5, WalkStep DEF calls
  <2>2. \/ pc = "growing" /\ pc' \in {"growing", "linking"}
        \/ pc = "freeing" /\ pc' \in {"freeing", "freed"}
    BY <1>5, WalkStep DEF Walk, GrowMove, NextIndex, GrowEnd, FreeLink, FreeEnd
  <2>. QED  BY <2>1, <2>2
<1>6. ASSUME Link PROVE Ideal!Add(ptr) /\ ptr \in Ptrs
  <2>1. /\ pc = "linking" /\ pc' = "idle" /\ added' = added \cup {ptr}
        /\ UNCHANGED <<asked, answer>>
    BY <1>6 DEF Link
  <2>2. asked = <<>> /\ ptr \in Ptrs
    BY <1>1, <2>1 DEF Calls
  <2>. QED  BY <2>1, <2>2 DEF Ideal!Add
<1>7. ASSUME HasReturns PROVE Ideal!Taken
  <2>1. /\ pc = "has" /\ pc' = "idle" /\ asked' = <<>> /\ answer' = FALSE
        /\ UNCHANGED added
    BY <1>7 DEF HasReturns
  <2>2. asked \in Ptrs /\ asked # <<>>
    BY <1>1, <2>1, HashAssumption DEF Calls
  <2>. QED  BY <2>1, <2>2 DEF Ideal!Taken
<1>8. ASSUME Dies PROVE UNCHANGED Ideal!vars
  BY <1>8 DEF Dies, calls
<1>9. ASSUME Free PROVE Ideal!Free
  <2>1. /\ pc = "idle" /\ pc' = "freeing" /\ added' = {} /\ UNCHANGED <<asked, answer>>
    BY <1>9 DEF Free
  <2>2. asked = <<>>
    BY <1>1, <2>1 DEF Calls
  <2>. QED  BY <2>1, <2>2 DEF Ideal!Free
<1>10. UNCHANGED vars => UNCHANGED Ideal!vars
  BY DEF vars, calls
<1>. QED
  BY <1>2, <1>3, <1>4, <1>5, <1>6, <1>7, <1>8, <1>9, <1>10 DEF Next

\* callers cannot tell the table from a set of pointers, whatever collides and
\* however often it grew
THEOREM ImplementsAbstract == ASSUME Bertrand PROVE Spec => ImplementsPtrSet
<1>1. Init => Ideal!Init
  BY DEF Init, Ideal!Init
<1>2. Inv /\ [Next]_vars => [Ideal!Next]_Ideal!vars
  BY IdealStep
<1>. QED  BY <1>1, <1>2, Invariance, PTL DEF Spec, ImplementsPtrSet, Ideal!Spec
=============================================================================
