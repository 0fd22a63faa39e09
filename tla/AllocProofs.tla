----------------------------- MODULE AllocProofs -----------------------------
(***************************************************************************)
(* Proofs about the three allocators.  They share no variable; each has an *)
(* invariant of its own.                                                   *)
(*                                                                         *)
(* FreeList, for every WIDTH, WORDS and MaxNodes.  NeverCorrupt is not     *)
(* inductive: that a node with a count has a zero bit where the search     *)
(* looks follows from what the node handed out so far.  The bits ever set  *)
(* are those below top[n]; `last' never passes the word of top[n]; and a   *)
(* get that raises top[n] is one that fn_count counts.  So fn_count[n] > 0 *)
(* leaves top[n] < POOL_SIZE, and the bit top[n] itself is zero and seen.  *)
(*                                                                         *)
(* Heap, for every bound of the break, every node size and every choice of *)
(* requests.  Its ring is known by its history: a place in it and its two  *)
(* neighbours is all that an operation touches.                            *)
(*                                                                         *)
(* SlabTab, for every number of threads and objects, when the callers      *)
(* coordinate their calls in one of the two ways that MayPut describes.    *)
(* slab_tab_put() takes no lock: without the callers' help its theorems    *)
(* are false, as the run SlabRace shows.                                   *)
(***************************************************************************)
EXTENDS FreeList, Heap, SlabTab, Functions, FiniteSetTheorems, SequenceTheorems,
        TLAPS

-----------------------------------------------------------------------------
(* The list of nodes: what is kept *)

\* what each node keeps
NodesOk ==
  \A n \in Node :
    /\ \A i \in set[n] : i < top[n]
    /\ last[n] * WIDTH <= top[n]
    /\ fn_count[n] + top[n] <= POOL_SIZE

\* nodes that are not on the list yet
FreshOk == \A n \in Node : n > Len(freelist) => fn_count[n] = POOL_SIZE

\* the inductive invariant
Inv == TypeOK /\ ListOk /\ BitsAreHeld /\ NodesOk /\ FreshOk /\ NeverCorrupt

-----------------------------------------------------------------------------
\* POOL_SIZE is a positive number, and every bit has its word
LEMMA PoolSize == POOL_SIZE \in Nat \ {0}
  BY FreeListAssumption, SMT DEF POOL_SIZE

\* the first word and the words of the bitset
LEMMA WordBound ==
  ASSUME NEW w \in Word PROVE w \in Nat /\ w * WIDTH \in Nat /\ w * WIDTH < POOL_SIZE
  <1>1. w \in Nat /\ WIDTH \in Nat /\ WORDS \in Nat /\ w + 1 <= WORDS /\ WIDTH > 0
    BY FreeListAssumption DEF Word
  <1>2. (w + 1) * WIDTH <= WORDS * WIDTH
    BY <1>1, Z3
  <1>3. (w + 1) * WIDTH = w * WIDTH + WIDTH /\ WORDS * WIDTH = WIDTH * WORDS
    BY <1>1, Z3
  <1>. QED
    BY <1>1, <1>2, <1>3, Z3 DEF POOL_SIZE

\* a node with a count, taken by freelist_get(), hands out a zero bit, and
\* what the nodes keep is kept
LEMMA NodeGetKeeps ==
  ASSUME Inv, proc = "up", NEW n \in Node, fn_count[n] > 0, NodeGet(n)
  PROVE  /\ set' \in [Node -> SUBSET Bit] /\ last' \in [Node -> Word]
         /\ fn_count' \in [Node -> 0..POOL_SIZE]
         /\ held' \subseteq Node \X Bit /\ top' \in [Node -> 0..POOL_SIZE]
         /\ proc' = "up" /\ BitsAreHeld' /\ NodesOk'
         /\ \A m \in Node \ {n} : fn_count'[m] = fn_count[m]
  <1>0. POOL_SIZE \in Nat \ {0}  BY PoolSize
  <1>1. /\ set \in [Node -> SUBSET Bit] /\ last \in [Node -> Word]
        /\ fn_count \in [Node -> 0..POOL_SIZE] /\ held \subseteq Node \X Bit
        /\ top \in [Node -> 0..POOL_SIZE]
    BY DEF Inv, TypeOK
  <1>2. last[n] * WIDTH \in Nat  BY <1>1, WordBound
  <1>3. top[n] \in Seen(n)
    <2>1. top[n] < POOL_SIZE /\ top[n] \in Bit
      BY <1>0, <1>1 DEF Inv, NodesOk, Bit
    <2>2. top[n] \notin set[n] /\ last[n] * WIDTH <= top[n]
      BY <1>1, <2>1 DEF Inv, NodesOk, Bit
    <2>. QED  BY <2>1, <2>2 DEF Seen
  <1>4. PICK i \in Seen(n), w \in Word :
           /\ \A j \in Seen(n) : i <= j
           /\ IsWordOf(w, i)
           /\ set' = [set EXCEPT ![n] = @ \cup {i}]
           /\ last' = [last EXCEPT ![n] = w]
           /\ fn_count' = [fn_count EXCEPT ![n] = @ - 1]
           /\ held' = held \cup {<<n, i>>}
           /\ top' = [top EXCEPT ![n] = IF i >= @ THEN i + 1 ELSE @]
           /\ UNCHANGED proc
    BY <1>3 DEF NodeGet
  <1>5. i \in Bit /\ i \in Nat /\ i < POOL_SIZE /\ i <= top[n] /\ i \notin set[n]
    BY <1>0, <1>3, <1>4 DEF Seen, Bit
  <1>6. w * WIDTH \in Nat /\ w * WIDTH <= i
    BY <1>4, WordBound DEF IsWordOf
  <1>7. /\ set' \in [Node -> SUBSET Bit] /\ last' \in [Node -> Word]
        /\ held' \subseteq Node \X Bit
    BY <1>1, <1>4, <1>5
  <1>8. fn_count' \in [Node -> 0..POOL_SIZE]
    BY <1>0, <1>1, <1>4
  <1>9. top' \in [Node -> 0..POOL_SIZE]
    BY <1>0, <1>1, <1>4, <1>5
  <1>10. proc' = "up"  BY <1>4
  <1>11. BitsAreHeld'
    BY <1>1, <1>4, <1>5 DEF Inv, BitsAreHeld
  <1>12. NodesOk'
    <2>. SUFFICES ASSUME NEW m \in Node
                  PROVE  /\ \A j \in set'[m] : j < top'[m]
                         /\ last'[m] * WIDTH <= top'[m]
                         /\ fn_count'[m] + top'[m] <= POOL_SIZE
      BY DEF NodesOk
    <2>1. CASE m # n
      BY <1>1, <1>4, <2>1 DEF Inv, NodesOk
    <2>2. CASE m = n
      <3>1. top'[n] = (IF i >= top[n] THEN i + 1 ELSE top[n]) /\ top[n] \in Nat
        BY <1>0, <1>1, <1>4
      <3>2. top[n] <= top'[n] /\ i < top'[n] /\ top'[n] <= top[n] + 1
        BY <1>5, <3>1
      <3>3. \A j \in set'[n] : j < top'[n]
        <4>1. \A j \in set[n] : j \in Nat /\ j < top[n]
          BY <1>1 DEF Inv, NodesOk, Bit
        <4>2. set'[n] = set[n] \cup {i}
          BY <1>1, <1>4
        <4>. QED  BY <3>1, <3>2, <4>1, <4>2, <1>5
      <3>4. last'[n] * WIDTH <= top'[n]
        <4>1. last'[n] = w  BY <1>1, <1>4
        <4>. QED  BY <4>1, <1>5, <1>6, <3>1, <3>2
      <3>5. fn_count'[n] + top'[n] <= POOL_SIZE
        <4>1. fn_count'[n] = fn_count[n] - 1 /\ fn_count[n] \in Nat
          BY <1>0, <1>1, <1>4
        <4>2. fn_count[n] + top[n] <= POOL_SIZE
          BY DEF Inv, NodesOk
        <4>. QED  BY <1>0, <1>5, <3>1, <3>2, <4>1, <4>2
      <3>. QED  BY <2>2, <3>3, <3>4, <3>5
    <2>. QED  BY <2>1, <2>2
  <1>13. \A m \in Node \ {n} : fn_count'[m] = fn_count[m]
    BY <1>1, <1>4
  <1>. QED  BY <1>7, <1>8, <1>9, <1>10, <1>11, <1>12, <1>13

\* moving a node to the front permutes the list
LEMMA MovedToFrontKeeps ==
  ASSUME Inv, NEW k \in 1..Len(freelist), freelist' = MovedToFront(k)
  PROVE  freelist' \in Seq(Node) /\ Len(freelist') = Len(freelist) /\ ListOk'
  <1>1. freelist \in Seq(Node) /\ Len(freelist) \in Nat
    BY DEF Inv, TypeOK
  <1>2. \A j \in 1..Len(freelist) : freelist[j] \in Node
    BY <1>1
  <1>3. /\ freelist' \in [1..Len(freelist) -> Node]
        /\ \A j \in 1..Len(freelist) :
             freelist'[j] = IF j = 1 THEN freelist[k]
                            ELSE IF j <= k THEN freelist[j - 1] ELSE freelist[j]
    BY <1>1, <1>2 DEF MovedToFront
  <1>4. freelist' \in Seq(Node) /\ Len(freelist') = Len(freelist)
    BY <1>1, <1>3
  <1>5. \A j \in 1..Len(freelist) : freelist'[j] <= Len(freelist)
    BY <1>1, <1>3 DEF Inv, ListOk
  <1>6. ASSUME NEW i \in 1..Len(freelist), NEW j \in 1..Len(freelist),
               freelist'[i] = freelist'[j]
        PROVE  i = j
    BY <1>1, <1>3, <1>6 DEF Inv, ListOk
  <1>. QED  BY <1>1, <1>4, <1>5, <1>6 DEF Inv, ListOk

\* a new node goes in front of the others
LEMMA NewNodeKeeps ==
  ASSUME Inv, Len(freelist) < MaxNodes,
         freelist' = <<Len(freelist) + 1>> \o freelist
  PROVE  freelist' \in Seq(Node) /\ Len(freelist') = Len(freelist) + 1 /\ ListOk'
  <1>1. freelist \in Seq(Node) /\ Len(freelist) \in Nat /\ MaxNodes \in Nat
    BY FreeListAssumption DEF Inv, TypeOK
  <1>2. Len(freelist) + 1 \in Node
    BY <1>1 DEF Node
  <1>3. freelist' \in Seq(Node) /\ Len(freelist') = Len(freelist) + 1
    BY <1>1, <1>2
  <1>4. \A j \in 1..Len(freelist') :
          freelist'[j] = IF j = 1 THEN Len(freelist) + 1 ELSE freelist[j - 1]
    BY <1>1, <1>2
  <1>5. \A j \in 1..Len(freelist) : freelist[j] \in Node /\ freelist[j] <= Len(freelist)
    BY <1>1 DEF Inv, ListOk
  <1>6. \A j \in 1..Len(freelist') : freelist'[j] <= Len(freelist')
    BY <1>1, <1>3, <1>4, <1>5 DEF Node
  <1>7. ASSUME NEW i \in 1..Len(freelist'), NEW j \in 1..Len(freelist'),
               freelist'[i] = freelist'[j]
        PROVE  i = j
    <2>1. i \in 1..(Len(freelist) + 1) /\ j \in 1..(Len(freelist) + 1)
      BY <1>3
    <2>2. CASE i = 1 /\ j = 1
      BY <2>2
    <2>3. CASE i = 1 /\ j # 1
      <3>1. j - 1 \in 1..Len(freelist)
        BY <1>1, <2>1, <2>3
      <3>2. freelist[j - 1] = Len(freelist) + 1
        BY <1>4, <1>7, <2>3
      <3>3. freelist[j - 1] \in Nat /\ freelist[j - 1] <= Len(freelist)
        BY <1>5, <3>1 DEF Node
      <3>. QED  BY <1>1, <3>2, <3>3
    <2>4. CASE i # 1 /\ j = 1
      <3>1. i - 1 \in 1..Len(freelist)
        BY <1>1, <2>1, <2>4
      <3>2. freelist[i - 1] = Len(freelist) + 1
        BY <1>4, <1>7, <2>4
      <3>3. freelist[i - 1] \in Nat /\ freelist[i - 1] <= Len(freelist)
        BY <1>5, <3>1 DEF Node
      <3>. QED  BY <1>1, <3>2, <3>3
    <2>5. CASE i # 1 /\ j # 1
      <3>1. i - 1 \in 1..Len(freelist) /\ j - 1 \in 1..Len(freelist)
        BY <1>1, <2>1, <2>5
      <3>2. freelist[i - 1] = freelist[j - 1]
        BY <1>4, <1>7, <2>5
      <3>3. i - 1 = j - 1
        BY <3>1, <3>2 DEF Inv, ListOk
      <3>. QED  BY <1>1, <2>1, <3>3
    <2>. QED  BY <2>2, <2>3, <2>4, <2>5
  <1>. QED  BY <1>1, <1>3, <1>6, <1>7 DEF ListOk

-----------------------------------------------------------------------------
\* freelist_put() keeps the invariant
LEMMA PutKeeps ==
  ASSUME Inv, NEW n \in Node, NEW i \in Bit, Put(n, i)
  PROVE  Inv'
  <1>1. /\ set \in [Node -> SUBSET Bit] /\ last \in [Node -> Word]
        /\ fn_count \in [Node -> 0..POOL_SIZE] /\ held \subseteq Node \X Bit
        /\ top \in [Node -> 0..POOL_SIZE] /\ POOL_SIZE \in Nat \ {0}
    BY PoolSize DEF Inv, TypeOK
  <1>2. PICK w \in Word : IsWordOf(w, i) /\ last' = [last EXCEPT ![n] = w]
    BY DEF Put
  <1>3. /\ set' = [set EXCEPT ![n] = @ \ {i}] /\ held' = held \ {<<n, i>>}
        /\ <<n, i>> \in held
        /\ freelist' = freelist /\ fn_count' = fn_count /\ proc' = proc /\ top' = top
    BY DEF Put
  <1>4. TypeOK'
    BY <1>1, <1>2, <1>3 DEF Inv, TypeOK
  <1>5. ListOk' /\ FreshOk' /\ NeverCorrupt'
    BY <1>3 DEF Inv, ListOk, FreshOk, NeverCorrupt
  <1>6. BitsAreHeld'
    BY <1>1, <1>3 DEF Inv, BitsAreHeld
  <1>7. w * WIDTH <= top[n]
    <2>1. i \in set[n]
      BY <1>3 DEF Inv, BitsAreHeld
    <2>2. i < top[n] /\ i \in Nat /\ top[n] \in Nat
      BY <1>1, <2>1 DEF Inv, NodesOk, Bit
    <2>3. w * WIDTH \in Nat /\ w * WIDTH <= i
      BY <1>2, WordBound DEF IsWordOf
    <2>. QED  BY <2>2, <2>3
  <1>8. NodesOk'
    BY <1>1, <1>2, <1>3, <1>7 DEF Inv, NodesOk
  <1>. QED  BY <1>4, <1>5, <1>6, <1>8 DEF Inv

\* every step keeps the invariant
LEMMA Invariance == Spec => []Inv
  <1>1. Init => Inv
    <2>. SUFFICES ASSUME Init PROVE Inv
      OBVIOUS
    <2>1. POOL_SIZE \in Nat \ {0} /\ WORDS \in Nat \ {0} /\ MaxNodes \in Nat
      BY PoolSize, FreeListAssumption
    <2>2. TypeOK
      BY <2>1 DEF Init, TypeOK, Word
    <2>3. ListOk /\ BitsAreHeld /\ FreshOk /\ NeverCorrupt
      BY <2>1 DEF Init, ListOk, BitsAreHeld, FreshOk, NeverCorrupt
    <2>4. NodesOk
      BY <2>1, FreeListAssumption DEF Init, NodesOk
    <2>. QED  BY <2>2, <2>3, <2>4 DEF Inv
  <1>2. Inv /\ [Next]_vars => Inv'
    <2>. SUFFICES ASSUME Inv, [Next]_vars PROVE Inv'
      OBVIOUS
    <2>0. freelist \in Seq(Node) /\ Len(freelist) \in Nat /\ MaxNodes \in Nat
      BY FreeListAssumption DEF Inv, TypeOK
    <2>1. ASSUME NEW k \in 1..Len(freelist), GetOld(k) PROVE Inv'
      <3>1. freelist[k] \in Node /\ freelist[k] <= Len(freelist)
        BY <2>0 DEF Inv, ListOk
      <3>2. fn_count[freelist[k]] > 0 /\ proc = "up" /\ NodeGet(freelist[k])
            /\ freelist' = MovedToFront(k)
        BY <2>1 DEF GetOld
      <3>3. freelist' \in Seq(Node) /\ Len(freelist') = Len(freelist) /\ ListOk'
        BY <3>2, MovedToFrontKeeps
      <3>4. /\ set' \in [Node -> SUBSET Bit] /\ last' \in [Node -> Word]
            /\ fn_count' \in [Node -> 0..POOL_SIZE]
            /\ held' \subseteq Node \X Bit /\ top' \in [Node -> 0..POOL_SIZE]
            /\ proc' = "up" /\ BitsAreHeld' /\ NodesOk'
            /\ \A m \in Node \ {freelist[k]} : fn_count'[m] = fn_count[m]
        BY <3>1, <3>2, NodeGetKeeps
      <3>5. FreshOk'
        <4>. SUFFICES ASSUME NEW m \in Node, m > Len(freelist')
                      PROVE  fn_count'[m] = POOL_SIZE
          BY DEF FreshOk
        <4>1. m > Len(freelist) /\ m # freelist[k]
          BY <2>0, <3>1, <3>3 DEF Node
        <4>. QED  BY <3>4, <4>1 DEF Inv, FreshOk
      <3>6. TypeOK' /\ NeverCorrupt'
        BY <3>3, <3>4 DEF TypeOK, NeverCorrupt
      <3>. QED  BY <3>3, <3>4, <3>5, <3>6 DEF Inv
    <2>2. CASE GetNew
      <3>1. Len(freelist) + 1 \in Node
        BY <2>0, <2>2 DEF GetNew, Node
      <3>2. fn_count[Len(freelist) + 1] > 0
        BY <2>0, <3>1, PoolSize DEF Inv, FreshOk
      <3>3. proc = "up" /\ NodeGet(Len(freelist) + 1) /\ Len(freelist) < MaxNodes
            /\ freelist' = <<Len(freelist) + 1>> \o freelist
        BY <2>2 DEF GetNew
      <3>4. freelist' \in Seq(Node) /\ Len(freelist') = Len(freelist) + 1 /\ ListOk'
        BY <3>3, NewNodeKeeps
      <3>5. /\ set' \in [Node -> SUBSET Bit] /\ last' \in [Node -> Word]
            /\ fn_count' \in [Node -> 0..POOL_SIZE]
            /\ held' \subseteq Node \X Bit /\ top' \in [Node -> 0..POOL_SIZE]
            /\ proc' = "up" /\ BitsAreHeld' /\ NodesOk'
            /\ \A m \in Node \ {Len(freelist) + 1} : fn_count'[m] = fn_count[m]
        BY <3>1, <3>2, <3>3, NodeGetKeeps
      <3>6. FreshOk'
        <4>. SUFFICES ASSUME NEW m \in Node, m > Len(freelist')
                      PROVE  fn_count'[m] = POOL_SIZE
          BY DEF FreshOk
        <4>1. m > Len(freelist) /\ m # Len(freelist) + 1
          BY <2>0, <3>4 DEF Node
        <4>. QED  BY <3>5, <4>1 DEF Inv, FreshOk
      <3>7. TypeOK' /\ NeverCorrupt'
        BY <3>4, <3>5 DEF TypeOK, NeverCorrupt
      <3>. QED  BY <3>4, <3>5, <3>6, <3>7 DEF Inv
    <2>3. CASE GetDies
      BY <2>3
         DEF GetDies, Inv, TypeOK, ListOk, BitsAreHeld, NodesOk, FreshOk, NeverCorrupt
    <2>4. ASSUME NEW n \in Node, NEW i \in Bit, Put(n, i) PROVE Inv'
      BY <2>4, PutKeeps
    <2>5. CASE UNCHANGED vars
      BY <2>5 DEF vars, Inv, TypeOK, ListOk, BitsAreHeld, NodesOk, FreshOk, NeverCorrupt
    <2>. QED  BY <2>1, <2>2, <2>3, <2>4, <2>5 DEF Next
  <1>. QED  BY <1>1, <1>2, PTL DEF Spec

-----------------------------------------------------------------------------
\* type correctness of the list, the bitsets and the counts
THEOREM TypeCorrect == Spec => []TypeOK
  BY Invariance, PTL DEF Inv

\* the list holds every node once, for any number of nodes
THEOREM ListIsWhole == Spec => []ListOk
  BY Invariance, PTL DEF Inv

\* a bit is one exactly while its object is held (bitset.h, free_node.h)
THEOREM BitsTellHolders == Spec => []BitsAreHeld
  BY Invariance, PTL DEF Inv

\* the search of NAME_get() never fails, for every pool size
THEOREM GetNeverFails == Spec => []NeverCorrupt
  BY Invariance, PTL DEF Inv

\* freelist_put() always takes its early return
THEOREM PutReturnsEarly == Spec => []RingUnreached
  <1>1. Inv => RingUnreached
    <2>. SUFFICES ASSUME Inv, NEW p \in held PROVE fn_count[p[1]] # POOL_SIZE
      BY DEF RingUnreached
    <2>1. PICK n \in Node, i \in Bit : p = <<n, i>>
      BY DEF Inv, TypeOK
    <2>2. i \in set[n]
      BY <2>1 DEF Inv, BitsAreHeld
    <2>3. i < top[n] /\ i \in Nat /\ fn_count[n] + top[n] <= POOL_SIZE
      BY <2>2, PoolSize DEF Inv, NodesOk, Bit
    <2>4. fn_count[n] \in Nat /\ top[n] \in Nat /\ POOL_SIZE \in Nat
      BY PoolSize DEF Inv, TypeOK
    <2>. QED  BY <2>1, <2>3, <2>4
  <1>. QED  BY <1>1, Invariance, PTL

-----------------------------------------------------------------------------
(* The ring of the heap: what is kept *)

\* the type invariant: links and places are cells, the ring holds no head
HeapTypeOK ==
  /\ hn_next \in [Cells -> Cells] /\ hn_prev \in [Cells -> Cells]
  /\ h_count \in Nat /\ brk \in Cells
  /\ life \in {"up", "freed", "died"}
  /\ taken \subseteq Cells \ {h_head} /\ ring \in Seq(Cells \ {h_head})
  /\ others \subseteq Cells \ {h_head}

\* what the break was taken for lies below it
Below ==
  life = "up" => /\ taken \subseteq 1..brk /\ others \subseteq 1..brk
               /\ \A k \in 1..Len(ring) : ring[k] \in 1..brk

HeapInv == HeapTypeOK /\ RingOk /\ BreakRestored /\ Below

LEMMA CellsFinite ==
  /\ IsFiniteSet(Cells)
  /\ \A S \in SUBSET Cells : IsFiniteSet(S) /\ Cardinality(S) \in Nat
<1>1. IsFiniteSet(Cells)
  BY FS_Interval, HeapAssumption DEF Cells
<1>. QED  BY <1>1, FS_Subset, FS_CardinalityType

LEMMA HeapTypes ==
  ASSUME HeapInv
  PROVE  /\ hn_next \in [Cells -> Cells] /\ hn_prev \in [Cells -> Cells]
         /\ ring \in Seq(Cells \ {h_head}) /\ Len(ring) \in Nat
         /\ brk \in Nat /\ h_count \in Nat /\ MaxBreak \in Nat
<1>1. brk \in Cells /\ MaxBreak \in Nat
  BY HeapAssumption DEF HeapInv, HeapTypeOK
<1>2. brk \in Nat
  BY <1>1 DEF Cells
<1>. QED  BY <1>1, <1>2 DEF HeapInv, HeapTypeOK

LEMMA HeapInitInv == HeapInit => HeapInv
<1>. SUFFICES ASSUME HeapInit PROVE HeapInv
  OBVIOUS
<1>1. HeapTypeOK
  BY HeapAssumption DEF HeapInit, HeapTypeOK, Cells, h_head
<1>2. RingOk
  BY HeapAssumption DEF HeapInit, RingOk, At, Cells, h_head
<1>3. BreakRestored /\ Below
  BY FS_EmptySet DEF HeapInit, BreakRestored, Below
<1>. QED  BY <1>1, <1>2, <1>3 DEF HeapInv

\* the places of the ring, with h_head at both ends
LEMMA Places ==
  ASSUME HeapInv
  PROVE  /\ At(ring, 0) = h_head /\ At(ring, Len(ring) + 1) = h_head
         /\ \A k \in Nat : At(ring, k) \in Cells
         /\ \A k \in 1..Len(ring) : At(ring, k) = ring[k] /\ At(ring, k) # h_head
         /\ Len(ring) \in Nat /\ h_head \in Cells
<1>1. ring \in Seq(Cells \ {h_head}) /\ Len(ring) \in Nat
  BY DEF HeapInv, HeapTypeOK
<1>2. h_head \in Cells
  BY HeapAssumption DEF h_head, Cells
<1>. QED  BY <1>1, <1>2 DEF At

LEMMA HeapGetFreeStep ==
  ASSUME HeapInv, NEW size \in Sizes, HeapGetFree(size)
  PROVE  HeapInv'
<1>. DEFINE n == hn_next[h_head]
<1>1. /\ life = "up" /\ n # h_head
      /\ hn_next' = [hn_next EXCEPT ![hn_prev[n]] = hn_next[n]]
      /\ hn_prev' = [hn_prev EXCEPT ![hn_next[n]] = hn_prev[n]]
      /\ taken' = taken \cup {n} /\ ring' = Tail(ring)
      /\ UNCHANGED <<h_count, brk, life, others>>
  BY DEF HeapGetFree, Fits, RmNext, RmPrev
<1>2. /\ hn_next \in [Cells -> Cells] /\ hn_prev \in [Cells -> Cells]
      /\ ring \in Seq(Cells \ {h_head}) /\ Len(ring) \in Nat /\ brk \in Nat
  BY HeapTypes
<1>3. Len(ring) > 0 /\ n = At(ring, 1) /\ n = ring[1] /\ n \in Cells
  <2>1. hn_next[At(ring, 0)] = At(ring, 0 + 1) /\ 0 \in 0..Len(ring)
    BY <1>2 DEF HeapInv, RingOk
  <2>2. n = At(ring, 1)
    BY <2>1, Places
  <2>. QED  BY <1>1, <1>2, <2>2, Places DEF At
<1>4. hn_next[n] = At(ring, 2) /\ hn_prev[n] = h_head
  <2>1. hn_next[At(ring, 1)] = At(ring, 1 + 1) /\ hn_prev[At(ring, 0 + 1)] = At(ring, 0)
    BY <1>2, <1>3 DEF HeapInv, RingOk
  <2>. QED  BY <1>3, <2>1, Places
<1>5. /\ ring' \in Seq(Cells \ {h_head}) /\ Len(ring') = Len(ring) - 1
      /\ \A k \in 1..Len(ring') : ring'[k] = ring[k + 1]
  BY <1>1, <1>2, <1>3
<1>6. \A k \in Nat : At(ring', k) = IF k = 0 THEN h_head ELSE At(ring, k + 1)
  BY <1>2, <1>3, <1>5 DEF At, h_head
<1>7. HeapTypeOK'
  <2>1. At(ring, 2) \in Cells /\ h_head \in Cells
    BY Places
  <2>. QED  BY <1>1, <1>2, <1>3, <1>4, <1>5, <2>1 DEF HeapInv, HeapTypeOK
<1>8. RingOk'
  <2>1. ASSUME NEW k \in 0..Len(ring')
        PROVE  hn_next'[At(ring', k)] = At(ring', k + 1) /\ hn_prev'[At(ring', k + 1)] = At(ring', k)
    <3>. k \in Nat /\ k + 1 \in Nat /\ k + 2 \in Nat /\ k <= Len(ring) - 1
      BY <1>2, <1>5
    <3>1. At(ring', k + 1) = At(ring, k + 2) /\ k + 1 \in 0..Len(ring)
      <4>1. At(ring', k + 1) = At(ring, (k + 1) + 1)
        BY <1>6
      <4>2. (k + 1) + 1 = k + 2
        OBVIOUS
      <4>. QED  BY <1>2, <4>1, <4>2
    <3>2. CASE k = 0
      <4>1. At(ring', k) = h_head /\ At(ring, 2) \in Cells /\ h_head \in Cells
        BY <1>6, <3>2, Places
      <4>. QED  BY <1>1, <1>2, <1>4, <3>1, <3>2, <4>1
    <3>3. CASE k # 0
      <4>1. /\ At(ring', k) = At(ring, k + 1) /\ At(ring, k + 1) # h_head
            /\ At(ring, k + 1) \in Cells /\ At(ring, k + 2) \in Cells
        <5>1. k + 1 \in 1..Len(ring)
          BY <1>2
        <5>. QED  BY <1>6, <3>3, <5>1, Places
      <4>2. hn_next[At(ring, k + 1)] = At(ring, k + 2) /\ hn_prev[At(ring, k + 2)] = At(ring, k + 1)
        <5>1. hn_next[At(ring, k + 1)] = At(ring, k + 1 + 1) /\ hn_prev[At(ring, k + 1 + 1)] = At(ring, k + 1)
          BY <3>1 DEF HeapInv, RingOk
        <5>. QED  BY <5>1
      <4>3. At(ring, k + 2) # At(ring, 2)
        <5>1. At(ring, 2) = ring[2] /\ At(ring, 2) # h_head
          BY <1>2, <1>5, <3>3, Places
        <5>2. CASE k + 2 = Len(ring) + 1
          BY <5>1, <5>2, Places
        <5>3. CASE k + 2 \in 1..Len(ring)
          BY <1>2, <1>5, <3>3, <5>1, <5>3, Places DEF HeapInv, RingOk
        <5>. QED  BY <1>2, <1>3, <1>5, <5>2, <5>3
      <4>. QED  BY <1>1, <1>2, <1>4, <3>1, <4>1, <4>2, <4>3
    <3>. QED  BY <3>2, <3>3
  <2>2. \A j, k \in 1..Len(ring') : ring'[j] = ring'[k] => j = k
    BY <1>2, <1>3, <1>5 DEF HeapInv, RingOk
  <2>3. \A k \in 1..Len(ring') : ring'[k] \notin taken'
    BY <1>1, <1>2, <1>3, <1>5 DEF HeapInv, RingOk
  <2>. QED  BY <2>1, <2>2, <2>3 DEF RingOk
<1>9. Below'
  BY <1>1, <1>2, <1>3, <1>5 DEF HeapInv, Below
<1>10. BreakRestored'
  <2>1. ASSUME NEW c \in 1..brk
        PROVE  \/ c \in taken' /\ c \notin others
               \/ c \notin taken' /\ (c \in others <=> \A k \in 1..Len(ring') : ring'[k] # c)
    <3>1. CASE c = n
      <4>1. 1 \in 1..Len(ring) /\ ring[1] = c /\ c \notin taken
        BY <1>2, <1>3, <3>1 DEF HeapInv, RingOk
      <4>2. c \notin others
        BY <1>1, <4>1 DEF HeapInv, BreakRestored
      <4>. QED  BY <1>1, <3>1, <4>2
    <3>2. CASE c # n
      <4>1. (\A k \in 1..Len(ring') : ring'[k] # c) <=> (\A k \in 1..Len(ring) : ring[k] # c)
        <5>1. ASSUME \A k \in 1..Len(ring') : ring'[k] # c, NEW k \in 1..Len(ring)
              PROVE  ring[k] # c
          <6>1. CASE k = 1
            BY <1>3, <3>2, <6>1
          <6>2. CASE k # 1
            <7>1. k - 1 \in 1..Len(ring') /\ ring'[k - 1] = ring[(k - 1) + 1]
              BY <1>2, <1>5, <6>2
            <7>. QED  BY <1>2, <5>1, <7>1
          <6>. QED  BY <6>1, <6>2
        <5>2. ASSUME \A k \in 1..Len(ring) : ring[k] # c, NEW k \in 1..Len(ring')
              PROVE  ring'[k] # c
          BY <1>2, <1>5, <5>2
        <5>. QED  BY <5>1, <5>2
      <4>2. c \in taken' <=> c \in taken
        BY <1>1, <3>2
      <4>. QED  BY <1>1, <4>1, <4>2 DEF HeapInv, BreakRestored
    <3>. QED  BY <3>1, <3>2
  <2>2. brk' = Cardinality(others') + (IF life' = "freed" THEN 0 ELSE h_count')
    BY <1>1 DEF HeapInv, BreakRestored
  <2>. QED  BY <1>1, <2>1, <2>2 DEF BreakRestored
<1>. QED  BY <1>7, <1>8, <1>9, <1>10 DEF HeapInv

\* a node that is added and removed at once leaves the ring as it was
LEMMA HeapGetNewStep ==
  ASSUME HeapInv, NEW size \in Sizes, HeapGetNew(size)
  PROVE  HeapInv'
<1>. DEFINE n == brk + 1
            f == AddNext(hn_next, n)
            b == AddPrev(hn_next, hn_prev, n)
<1>1. /\ life = "up" /\ brk < MaxBreak /\ brk' = n /\ h_count' = h_count + 1
      /\ hn_next' = RmNext(f, b, n) /\ hn_prev' = RmPrev(f, b, n)
      /\ taken' = taken \cup {n} /\ UNCHANGED <<life, ring, others>>
  BY DEF HeapGetNew
<1>2. /\ hn_next \in [Cells -> Cells] /\ hn_prev \in [Cells -> Cells]
      /\ ring \in Seq(Cells \ {h_head}) /\ Len(ring) \in Nat
      /\ brk \in Nat /\ h_count \in Nat /\ MaxBreak \in Nat
  BY HeapTypes
<1>3. n \in Cells /\ n # h_head /\ h_head \in Cells
  BY <1>1, <1>2 DEF Cells, h_head
<1>4. \A k \in Nat : At(ring, k) # n
  <2>1. \A k \in 1..Len(ring) : ring[k] # n
    BY <1>1, <1>2 DEF HeapInv, Below
  <2>. QED  BY <1>3, <2>1 DEF At
<1>5. hn_next[h_head] # n /\ hn_prev[hn_next[h_head]] = h_head
  <2>1. hn_next[At(ring, 0)] = At(ring, 0 + 1) /\ hn_prev[At(ring, 0 + 1)] = At(ring, 0)
    BY <1>2 DEF HeapInv, RingOk
  <2>. QED  BY <1>4, <2>1, Places
<1>6. /\ hn_next' = [hn_next EXCEPT ![n] = hn_next[h_head]]
      /\ hn_prev' = [hn_prev EXCEPT ![n] = h_head]
  <2>1. f = [hn_next EXCEPT ![n] = hn_next[h_head], ![h_head] = n]
    BY DEF AddNext
  <2>2. b = [hn_prev EXCEPT ![n] = h_head, ![hn_next[h_head]] = n]
    BY DEF AddPrev
  <2>3. hn_next[h_head] \in Cells
    BY <1>2, <1>3
  <2>4. b[n] = h_head /\ f[n] = hn_next[h_head]
    BY <1>2, <1>3, <1>5, <2>1, <2>2, <2>3
  <2>5. hn_next' = [f EXCEPT ![h_head] = hn_next[h_head]]
    BY <1>1, <2>4 DEF RmNext
  <2>6. hn_prev' = [b EXCEPT ![hn_next[h_head]] = h_head]
    BY <1>1, <2>4 DEF RmPrev
  <2>7. hn_next' = [hn_next EXCEPT ![n] = hn_next[h_head]]
    BY <1>2, <1>3, <2>1, <2>3, <2>5
  <2>8. hn_prev' = [hn_prev EXCEPT ![n] = h_head]
    BY <1>2, <1>3, <1>5, <2>2, <2>3, <2>6
  <2>. QED  BY <2>7, <2>8
<1>. HIDE DEF f, b
<1>7. HeapTypeOK'
  BY <1>1, <1>2, <1>3, <1>6 DEF HeapInv, HeapTypeOK
<1>8. RingOk'
  <2>1. ASSUME NEW k \in 0..Len(ring)
        PROVE  /\ hn_next'[At(ring, k)] = At(ring, k + 1)
               /\ hn_prev'[At(ring, k + 1)] = At(ring, k)
    <3>1. At(ring, k) # n /\ At(ring, k + 1) # n
      BY <1>2, <1>4
    <3>2. hn_next[At(ring, k)] = At(ring, k + 1) /\ hn_prev[At(ring, k + 1)] = At(ring, k)
      BY DEF HeapInv, RingOk
    <3>3. At(ring, k) \in Cells /\ At(ring, k + 1) \in Cells
      BY <1>2, Places
    <3>. QED  BY <1>2, <1>6, <3>1, <3>2, <3>3
  <2>2. \A k \in 1..Len(ring) : ring[k] \notin taken'
    BY <1>1, <1>2 DEF HeapInv, RingOk, Below
  <2>. QED  BY <1>1, <2>1, <2>2 DEF HeapInv, RingOk
<1>9. Below'
  BY <1>1, <1>2 DEF HeapInv, Below
<1>10. BreakRestored'
  <2>1. ASSUME NEW c \in 1..n
        PROVE  \/ c \in taken' /\ c \notin others
               \/ c \notin taken' /\ (c \in others <=> \A k \in 1..Len(ring) : ring[k] # c)
    <3>1. CASE c = n
      BY <1>1, <1>2, <3>1 DEF HeapInv, Below
    <3>2. CASE c # n
      <4>1. c \in 1..brk /\ (c \in taken' <=> c \in taken)
        BY <1>1, <1>2, <3>2
      <4>. QED  BY <1>1, <4>1 DEF HeapInv, BreakRestored
    <3>. QED  BY <3>1, <3>2
  <2>2. Cardinality(others) \in Nat
    BY CellsFinite DEF HeapInv, HeapTypeOK
  <2>3. brk' = Cardinality(others) + h_count'
    BY <1>1, <1>2, <2>2 DEF HeapInv, BreakRestored
  <2>. QED  BY <1>1, <2>1, <2>3 DEF BreakRestored
<1>. QED  BY <1>7, <1>8, <1>9, <1>10 DEF HeapInv

LEMMA HeapPutStep ==
  ASSUME HeapInv, NEW n \in taken, HeapPut(n)
  PROVE  HeapInv'
<1>1. /\ life = "up"
      /\ hn_next' = [hn_next EXCEPT ![n] = hn_next[h_head], ![h_head] = n]
      /\ hn_prev' = [hn_prev EXCEPT ![n] = h_head, ![hn_next[h_head]] = n]
      /\ taken' = taken \ {n} /\ ring' = <<n>> \o ring
      /\ UNCHANGED <<h_count, brk, life, others>>
  BY DEF HeapPut, AddNext, AddPrev
<1>2. /\ hn_next \in [Cells -> Cells] /\ hn_prev \in [Cells -> Cells]
      /\ ring \in Seq(Cells \ {h_head}) /\ Len(ring) \in Nat /\ brk \in Nat
      /\ n \in Cells /\ n # h_head /\ h_head \in Cells
  BY HeapTypes, Places DEF HeapInv, HeapTypeOK
<1>3. hn_next[h_head] = At(ring, 1)
  <2>1. hn_next[At(ring, 0)] = At(ring, 0 + 1)
    BY <1>2 DEF HeapInv, RingOk
  <2>. QED  BY <2>1, Places
<1>4. /\ ring' \in Seq(Cells \ {h_head}) /\ Len(ring') = Len(ring) + 1
      /\ ring'[1] = n /\ \A k \in 1..Len(ring) : ring'[k + 1] = ring[k]
  BY <1>1, <1>2
<1>5. /\ At(ring', 0) = h_head /\ At(ring', 1) = n
      /\ \A k \in Nat \ {0} : At(ring', k + 1) = At(ring, k)
  BY <1>2, <1>4 DEF At
<1>6. \A k \in 1..Len(ring) : ring[k] # n
  BY DEF HeapInv, RingOk
<1>7. HeapTypeOK'
  <2>1. At(ring, 1) \in Cells
    BY Places
  <2>. QED  BY <1>1, <1>2, <1>3, <1>4, <2>1 DEF HeapInv, HeapTypeOK
<1>8. RingOk'
  <2>1. ASSUME NEW k \in 0..Len(ring')
        PROVE  hn_next'[At(ring', k)] = At(ring', k + 1) /\ hn_prev'[At(ring', k + 1)] = At(ring', k)
    <3>. k \in Nat /\ k <= Len(ring) + 1
      BY <1>2, <1>4
    <3>1. At(ring, 1) \in Cells /\ At(ring, 1) # n
      <4>1. CASE Len(ring) = 0
        BY <1>2, <4>1, Places
      <4>2. CASE Len(ring) # 0
        BY <1>2, <1>6, <4>2, Places
      <4>. QED  BY <4>1, <4>2
    <3>2. CASE k = 0
      BY <1>1, <1>2, <1>3, <1>5, <3>1, <3>2
    <3>3. CASE k = 1
      <4>1. At(ring', 1 + 1) = At(ring, 1)
        BY <1>5
      <4>. QED  BY <1>1, <1>2, <1>3, <1>5, <3>1, <3>3, <4>1
    <3>4. CASE k > 1
      <4>. DEFINE j == k - 1
      <4>1. j \in 1..Len(ring) /\ j + 1 = k /\ j \in Nat \ {0} /\ j + 1 \in Nat \ {0}
        BY <1>2, <3>4
      <4>. HIDE DEF j
      <4>2. At(ring', k) = At(ring, j) /\ At(ring', k + 1) = At(ring, j + 1)
        <5>1. At(ring', j + 1) = At(ring, j) /\ At(ring', (j + 1) + 1) = At(ring, j + 1)
          BY <1>5, <4>1
        <5>. QED  BY <4>1, <5>1
      <4>3. hn_next[At(ring, j)] = At(ring, j + 1) /\ hn_prev[At(ring, j + 1)] = At(ring, j)
        BY <1>2, <4>1 DEF HeapInv, RingOk
      <4>4. /\ At(ring, j) \in Cells \ {n, h_head} /\ At(ring, j) = ring[j]
            /\ At(ring, j + 1) \in Cells \ {n}
        <5>1. At(ring, j) = ring[j] /\ At(ring, j) # h_head /\ ring[j] # n /\ At(ring, j) \in Cells
          BY <1>6, <4>1, Places
        <5>2. CASE j = Len(ring)
          BY <1>2, <5>1, <5>2, Places
        <5>3. CASE j # Len(ring)
          BY <1>2, <1>6, <4>1, <5>1, <5>3, Places
        <5>. QED  BY <5>2, <5>3
      <4>5. At(ring, j + 1) # At(ring, 1)
        <5>1. At(ring, 1) = ring[1] /\ At(ring, 1) # h_head
          BY <1>2, <4>1, Places
        <5>2. CASE j = Len(ring)
          BY <5>1, <5>2, Places
        <5>3. CASE j # Len(ring)
          <6>1. j + 1 \in 1..Len(ring) /\ At(ring, j + 1) = ring[j + 1] /\ j + 1 # 1
            BY <1>2, <4>1, <5>3, Places
          <6>. QED  BY <1>2, <4>1, <5>1, <6>1 DEF HeapInv, RingOk
        <5>. QED  BY <5>2, <5>3
      <4>. QED  BY <1>1, <1>2, <1>3, <3>1, <4>2, <4>3, <4>4, <4>5
    <3>. QED  BY <3>2, <3>3, <3>4
  <2>2. ASSUME NEW j \in 1..Len(ring'), NEW k \in 1..Len(ring'), ring'[j] = ring'[k]
        PROVE  j = k
    <3>1. j = 1 \/ (j - 1 \in 1..Len(ring) /\ ring'[j] = ring[j - 1])
      <4>1. j # 1 => j - 1 \in 1..Len(ring) /\ (j - 1) + 1 = j
        BY <1>2, <1>4
      <4>. QED  BY <1>4, <4>1
    <3>2. k = 1 \/ (k - 1 \in 1..Len(ring) /\ ring'[k] = ring[k - 1])
      <4>1. k # 1 => k - 1 \in 1..Len(ring) /\ (k - 1) + 1 = k
        BY <1>2, <1>4
      <4>. QED  BY <1>4, <4>1
    <3>3. CASE j = 1 \/ k = 1
      BY <1>4, <1>6, <2>2, <3>1, <3>2, <3>3
    <3>4. CASE j # 1 /\ k # 1
      <4>1. j - 1 = k - 1
        BY <2>2, <3>1, <3>2, <3>4 DEF HeapInv, RingOk
      <4>. QED  BY <1>2, <1>4, <4>1
    <3>. QED  BY <3>3, <3>4
  <2>3. ASSUME NEW k \in 1..Len(ring') PROVE ring'[k] \notin taken'
    <3>1. CASE k = 1
      BY <1>1, <1>4, <3>1
    <3>2. CASE k # 1
      <4>1. k - 1 \in 1..Len(ring) /\ (k - 1) + 1 = k
        BY <1>2, <1>4, <3>2
      <4>2. ring'[k] = ring[k - 1]
        BY <1>4, <4>1
      <4>. QED  BY <1>1, <4>1, <4>2 DEF HeapInv, RingOk
    <3>. QED  BY <3>1, <3>2
  <2>. QED  BY <2>1, <2>2, <2>3 DEF RingOk
<1>9. Below'
  <2>1. ASSUME NEW k \in 1..Len(ring') PROVE ring'[k] \in 1..brk
    <3>1. k = 1 \/ (k - 1 \in 1..Len(ring) /\ (k - 1) + 1 = k)
      BY <1>2, <1>4
    <3>. QED  BY <1>1, <1>4, <3>1 DEF HeapInv, Below
  <2>. QED  BY <1>1, <2>1 DEF HeapInv, Below
<1>10. BreakRestored'
  <2>1. ASSUME NEW c \in 1..brk
        PROVE  \/ c \in taken' /\ c \notin others
               \/ c \notin taken' /\ (c \in others <=> \A k \in 1..Len(ring') : ring'[k] # c)
    <3>1. CASE c = n
      <4>1. c \notin others /\ c \notin taken' /\ 1 \in 1..Len(ring') /\ ring'[1] = c
        BY <1>1, <1>2, <1>4, <3>1 DEF HeapInv, BreakRestored
      <4>. QED  BY <4>1
    <3>2. CASE c # n
      <4>1. (\A k \in 1..Len(ring') : ring'[k] # c) <=> (\A k \in 1..Len(ring) : ring[k] # c)
        <5>1. ASSUME \A k \in 1..Len(ring') : ring'[k] # c, NEW k \in 1..Len(ring)
              PROVE  ring[k] # c
          <6>1. k + 1 \in 1..Len(ring')
            BY <1>2, <1>4
          <6>. QED  BY <1>4, <5>1, <6>1
        <5>2. ASSUME \A k \in 1..Len(ring) : ring[k] # c, NEW k \in 1..Len(ring')
              PROVE  ring'[k] # c
          <6>1. k = 1 \/ (k - 1 \in 1..Len(ring) /\ (k - 1) + 1 = k)
            BY <1>2, <1>4
          <6>. QED  BY <1>4, <3>2, <5>2, <6>1
        <5>. QED  BY <5>1, <5>2
      <4>2. c \in taken' <=> c \in taken
        BY <1>1, <3>2
      <4>. QED  BY <1>1, <4>1, <4>2 DEF HeapInv, BreakRestored
    <3>. QED  BY <3>1, <3>2
  <2>. QED  BY <1>1, <2>1 DEF HeapInv, BreakRestored
<1>. QED  BY <1>7, <1>8, <1>9, <1>10 DEF HeapInv

LEMMA HeapOtherSteps ==
  ASSUME HeapInv,
         \/ \E size \in Sizes : HeapGetDies(size)
         \/ HeapFree \/ OtherGrows \/ OtherShrinks \/ UNCHANGED heap_vars
  PROVE  HeapInv'
<1>1. /\ ring \in Seq(Cells \ {h_head}) /\ Len(ring) \in Nat
      /\ brk \in Nat /\ h_count \in Nat /\ MaxBreak \in Nat
  BY HeapTypes
<1>2. IsFiniteSet(others) /\ Cardinality(others) \in Nat
  BY CellsFinite DEF HeapInv, HeapTypeOK
<1>3. CASE \E size \in Sizes : HeapGetDies(size)
  BY <1>1, <1>3
     DEF HeapGetDies, links, HeapInv, HeapTypeOK, RingOk, BreakRestored, Below
<1>4. CASE HeapFree
  <2>1. brk = Cardinality(others) + h_count
    BY <1>4 DEF HeapFree, HeapInv, BreakRestored
  <2>2. brk' = Cardinality(others) /\ brk' \in Nat /\ brk' <= brk
    BY <1>1, <1>2, <1>4, <2>1 DEF HeapFree
  <2>3. brk' \in Cells
    <3>1. brk <= MaxBreak
      BY <1>1 DEF HeapInv, HeapTypeOK, Cells
    <3>. QED  BY <1>1, <2>2, <3>1 DEF Cells
  <2>4. UNCHANGED <<hn_next, hn_prev, h_count, taken, ring, others>> /\ life' = "freed"
    BY <1>4 DEF HeapFree, links
  <2>5. HeapTypeOK' /\ RingOk'
    BY <2>3, <2>4 DEF HeapInv, HeapTypeOK, RingOk
  <2>6. BreakRestored' /\ Below'
    BY <2>2, <2>4 DEF BreakRestored, Below
  <2>. QED  BY <2>5, <2>6 DEF HeapInv
<1>5. CASE OtherGrows
  <2>1. /\ life = "up" /\ brk < MaxBreak /\ brk' = brk + 1
        /\ others' = others \cup {brk + 1}
        /\ UNCHANGED <<hn_next, hn_prev, h_count, life, taken, ring>>
    BY <1>5 DEF OtherGrows, links
  <2>2. /\ taken \subseteq 1..brk /\ others \subseteq 1..brk
        /\ \A k \in 1..Len(ring) : ring[k] \in 1..brk
    BY <2>1 DEF HeapInv, Below
  <2>3. brk + 1 \in Cells \ {h_head}
    BY <1>1, <2>1 DEF Cells, h_head
  <2>4. HeapTypeOK' /\ RingOk'
    BY <2>1, <2>3 DEF HeapInv, HeapTypeOK, RingOk
  <2>5. Below'
    BY <1>1, <2>1, <2>2 DEF Below
  <2>6. Cardinality(others') = Cardinality(others) + 1
    <3>1. brk + 1 \notin others
      BY <1>1, <2>2
    <3>. QED  BY <1>2, <2>1, <3>1, FS_AddElement
  <2>7. ASSUME NEW c \in 1..(brk + 1)
        PROVE  \/ c \in taken /\ c \notin others'
               \/ c \notin taken /\ (c \in others' <=> \A k \in 1..Len(ring) : ring[k] # c)
    <3>1. CASE c = brk + 1
      BY <1>1, <2>1, <2>2, <3>1
    <3>2. CASE c # brk + 1
      <4>1. c \in 1..brk /\ (c \in others' <=> c \in others)
        BY <1>1, <2>1, <3>2
      <4>. QED  BY <2>1, <4>1 DEF HeapInv, BreakRestored
    <3>. QED  BY <3>1, <3>2
  <2>8. brk' = Cardinality(others') + h_count
    BY <1>1, <1>2, <2>1, <2>6 DEF HeapInv, BreakRestored
  <2>. QED  BY <2>1, <2>4, <2>5, <2>7, <2>8 DEF HeapInv, BreakRestored
<1>6. CASE OtherShrinks
  <2>1. /\ life = "up" /\ brk \in others /\ brk' = brk - 1 /\ others' = others \ {brk}
        /\ UNCHANGED <<hn_next, hn_prev, h_count, life, taken, ring>>
    BY <1>6 DEF OtherShrinks, links
  <2>2. /\ taken \subseteq 1..brk /\ others \subseteq 1..brk
        /\ \A k \in 1..Len(ring) : ring[k] \in 1..brk
    BY <2>1 DEF HeapInv, Below
  <2>3. brk \in 1..brk /\ brk' \in Nat /\ brk' < brk
    BY <1>1, <2>1, <2>2
  <2>4. brk' \in Cells
    <3>1. brk <= MaxBreak
      BY <1>1 DEF HeapInv, HeapTypeOK, Cells
    <3>. QED  BY <1>1, <2>3, <3>1 DEF Cells
  <2>5. brk \notin taken /\ \A k \in 1..Len(ring) : ring[k] # brk
    BY <2>1, <2>3 DEF HeapInv, BreakRestored
  <2>6. HeapTypeOK' /\ RingOk'
    BY <2>1, <2>4 DEF HeapInv, HeapTypeOK, RingOk
  <2>7. Below'
    <3>1. \A c \in 1..brk : c # brk => c \in 1..(brk - 1)
      BY <1>1
    <3>. QED  BY <2>1, <2>2, <2>5, <3>1 DEF Below
  <2>8. Cardinality(others') = Cardinality(others) - 1
    BY <1>2, <2>1, FS_RemoveElement
  <2>9. \A c \in 1..brk' : c \in 1..brk /\ c # brk
    BY <1>1, <2>1
  <2>10. \A c \in 1..brk' : \/ c \in taken /\ c \notin others'
                            \/ c \notin taken /\ (c \in others' <=> \A k \in 1..Len(ring) : ring[k] # c)
    BY <2>1, <2>9 DEF HeapInv, BreakRestored
  <2>11. brk' = Cardinality(others') + h_count
    BY <1>1, <1>2, <2>1, <2>8 DEF HeapInv, BreakRestored
  <2>. QED  BY <2>1, <2>6, <2>7, <2>10, <2>11 DEF HeapInv, BreakRestored
<1>7. CASE UNCHANGED heap_vars
  BY <1>7 DEF heap_vars, links, HeapInv, HeapTypeOK, RingOk, BreakRestored, Below
<1>. QED  BY <1>3, <1>4, <1>5, <1>6, <1>7

LEMMA HeapStepInv == HeapInv /\ [HeapNext]_heap_vars => HeapInv'
BY HeapGetFreeStep, HeapGetNewStep, HeapPutStep, HeapOtherSteps DEF HeapNext

\* the ring, the break and what lies below it agree in every state
THEOREM HeapInvariance == HeapSpec => []HeapInv
BY HeapInitInv, HeapStepInv, PTL DEF HeapSpec

\* the ring leads through the free nodes and nothing else: no node has two
\* holders, however gets and puts follow each other
THEOREM RingIsFree == HeapSpec => []RingOk
<1>1. HeapInv => RingOk
  BY DEF HeapInv
<1>. QED  BY <1>1, HeapInvariance, PTL

\* h_count is what heap_free() has to take off the break
THEOREM FreeRestores == HeapSpec => []BreakRestored
<1>1. HeapInv => BreakRestored
  BY DEF HeapInv
<1>. QED  BY <1>1, HeapInvariance, PTL

-----------------------------------------------------------------------------
(* The slab table entry, when the callers coordinate: who is where *)

\* callers coordinate: a put meets no get that is awake and no other put
Coordinated == "any" \notin Disciplines

Inside == {"test", "block", "read", "dec", "load", "unlock"}

\* whoever is between MUTEX_LOCK and MUTEX_UNLOCK holds the mutex
Locked == \A t \in Thread : pc[t] \in Inside => mut = t

Asleep == \A t \in waiters : pc[t] = "wait"

\* the other threads are outside of a call, or asleep, while one puts; where a
\* sleeper may wake up by itself, nobody sleeps
PutAlone ==
  \A t \in Thread : pc[t] \in PutPcs =>
    /\ \A u \in Thread \ {t} : pc[u] = "idle" \/ u \in waiters
    /\ disc = "phased" => waiters = {}

\* what a thread has read of fp is still true while it needs it, and it has
\* an object while it is to have one
Fresh ==
  \A t \in Thread :
    /\ pc[t] = "read"  => fp > 0
    /\ pc[t] = "dec"   => reg[t] = fp /\ fp > 0
    /\ pc[t] = "load"  => reg[t] = fp + 1
    /\ pc[t] = "both"  => reg[t] = fp
    /\ pc[t] = "step"  => reg[t] = fp /\ fp < SIZE /\ free[fp] = obj[t]
    /\ pc[t] = "store" => fp = reg[t] + 1
    /\ pc[t] \in {"unlock", "put", "both", "step", "store"} => obj[t] # None

\* how many objects are on the stack: fp may be stepped before the store
Depth == IF \E t \in Thread : pc[t] = "store" THEN fp - 1 ELSE fp

\* the object that is on its way between the stack and a caller
Transit(t) ==
  IF pc[t] = "load" THEN {free[reg[t] - 1]}
  ELSE IF pc[t] \in {"unlock", "put", "both", "step", "store"} THEN {obj[t]}
  ELSE {}

Own(t) == got[t] \cup Transit(t)

\* every object is in exactly one place
OnePlace ==
  /\ \A i, j \in 0..(Depth - 1) : free[i] = free[j] => i = j
  /\ \A t \in Thread : \A i \in 0..(Depth - 1) : free[i] \notin Own(t)
  /\ \A t, u \in Thread : t # u => Own(t) \cap Own(u) = {}
  /\ \A t \in Thread : got[t] \cap Transit(t) = {}
  /\ \A o \in Obj : \/ \E i \in 0..(Depth - 1) : free[i] = o
                    \/ \E t \in Thread : o \in Own(t)

SlabInv == SlabTypeOK /\ disc # "any" /\ Locked /\ Asleep /\ PutAlone /\ Fresh /\ OnePlace

-----------------------------------------------------------------------------
(* Who can be where *)

LEMMA Types ==
  /\ SIZE \in Nat \ {0} /\ Thread # {}
  /\ Obj = 0..(SIZE - 1) /\ Slot = 0..(SIZE - 1)
  /\ None \notin Thread /\ None \notin Obj
BY SlabTabAssumption DEF Obj, Slot

\* a thread that holds the mutex is the only one in a get or a put
LEMMA OneInside ==
  ASSUME SlabInv, NEW t \in Thread, pc[t] \in Inside, NEW u \in Thread \ {t}
  PROVE  pc[u] \notin Inside \cup PutPcs
BY DEF SlabInv, Locked, PutAlone, Asleep, Inside, PutPcs

\* and so is a thread that puts
LEMMA OnePutting ==
  ASSUME SlabInv, NEW t \in Thread, pc[t] \in PutPcs, NEW u \in Thread \ {t}
  PROVE  pc[u] \in {"idle", "wait"}
BY DEF SlabInv, PutAlone, Asleep

\* fp tells how many objects are on the stack, but between the step and the
\* store of a put
LEMMA DepthIs ==
  ASSUME SlabInv, NEW t \in Thread
  PROVE  /\ Depth \in 0..fp
         /\ pc[t] \in Inside \/ pc[t] \in PutPcs \ {"store"} => Depth = fp
         /\ pc[t] = "store" => Depth = reg[t] /\ fp = Depth + 1
<1>1. fp \in Nat /\ \A u \in Thread : reg[u] \in Nat
  BY Types DEF SlabInv, SlabTypeOK
<1>2. ASSUME NEW u \in Thread, pc[u] = "store" PROVE fp = reg[u] + 1 /\ Depth = fp - 1
  BY <1>2 DEF SlabInv, Fresh, Depth
<1>3. pc[t] \in Inside \/ pc[t] \in PutPcs \ {"store"} =>
        \A u \in Thread : pc[u] # "store"
  BY OneInside, OnePutting DEF Inside, PutPcs
<1>4. CASE \E u \in Thread : pc[u] = "store"
  BY <1>1, <1>2, <1>3, <1>4
<1>5. CASE ~ \E u \in Thread : pc[u] = "store"
  BY <1>1, <1>3, <1>5 DEF Depth
<1>. QED  BY <1>4, <1>5

\* an object that a thread has leaves room on the stack
LEMMA RoomOnStack ==
  ASSUME SlabInv, NEW t \in Thread, NEW o \in Own(t), o \in Obj
  PROVE  Depth < SIZE
<1>1. Depth \in 0..SIZE /\ SIZE \in Nat
  <2>1. Depth \in 0..fp /\ fp \in 0..SIZE
    BY DepthIs DEF SlabInv, SlabTypeOK
  <2>. QED  BY <2>1, Types
<1>. SUFFICES ASSUME Depth = SIZE PROVE FALSE
  BY <1>1
<1>2. /\ \A i \in Slot : free[i] \in Obj \ {o}
      /\ \A i, j \in Slot : free[i] = free[j] => i = j
  BY Types DEF SlabInv, OnePlace, SlabTypeOK
<1>3. [i \in Slot |-> free[i]] \in Injection(Slot, Obj \ {o})
  BY <1>2 DEF Injection, IsInjective
<1>4. /\ IsFiniteSet(Obj) /\ Cardinality(Obj) = SIZE
      /\ Cardinality(Slot) = SIZE
  BY <1>1, Types, FS_Interval
<1>5. IsFiniteSet(Obj \ {o}) /\ Cardinality(Obj \ {o}) = SIZE - 1
  BY <1>4, FS_RemoveElement
<1>6. Cardinality(Slot) <= Cardinality(Obj \ {o})
  BY <1>3, <1>5, FS_Injection
<1>. QED  BY <1>1, <1>4, <1>5, <1>6

-----------------------------------------------------------------------------
(* Steps that move no object *)

LEMMA SameOnePlace ==
  ASSUME SlabInv, Depth' = Depth,
         \A i \in 0..(Depth - 1) : free'[i] = free[i],
         \A u \in Thread : Own(u)' = Own(u) /\ got'[u] \cap Transit(u)' = {}
  PROVE  OnePlace'
BY DEF SlabInv, OnePlace

Carrying == {"load", "unlock", "put", "both", "step", "store"}

\* a step of a thread that has no object on its way
LEMMA Aside ==
  ASSUME SlabInv, NEW t \in Thread, NEW w, pc[t] \notin Carrying, w \notin Carrying,
         pc' = [pc EXCEPT ![t] = w], UNCHANGED <<free, fp, obj, got>>,
         \A u \in Thread \ {t} : reg'[u] = reg[u]
  PROVE  OnePlace'
<1>1. \A u \in Thread : pc'[u] = IF u = t THEN w ELSE pc[u]
  BY DEF SlabInv, SlabTypeOK
<1>2. Depth' = Depth
  <2>1. (\E u \in Thread : pc'[u] = "store") <=> (\E u \in Thread : pc[u] = "store")
    BY <1>1 DEF Carrying
  <2>. QED  BY <2>1 DEF Depth
<1>3. ASSUME NEW u \in Thread PROVE Transit(u)' = Transit(u)
  <2>1. CASE u = t
    BY <1>1, <2>1 DEF Transit, Carrying
  <2>2. CASE u # t
    BY <1>1, <2>2 DEF Transit
  <2>. QED  BY <2>1, <2>2
<1>4. \A u \in Thread : Own(u)' = Own(u) /\ got'[u] \cap Transit(u)' = {}
  BY <1>3 DEF Own, SlabInv, OnePlace
<1>. QED  BY <1>2, <1>4, SameOnePlace

-----------------------------------------------------------------------------
(* The steps *)

\* what a step of one thread does to the other conjuncts is plain from where
\* the others can be
Control == SlabTypeOK /\ disc # "any" /\ Locked /\ Asleep /\ PutAlone /\ Fresh

LEMMA InitInv ==
  ASSUME Coordinated, SlabInit
  PROVE  SlabInv
<1>1. disc # "any" /\ SlabTypeOK
  BY Types DEF Coordinated, SlabInit, SlabTypeOK
<1>2. Locked /\ Asleep /\ PutAlone /\ Fresh
  BY DEF SlabInit, Locked, Asleep, PutAlone, Fresh, Inside, PutPcs
<1>3. Depth = SIZE /\ \A t \in Thread : Own(t) = {} /\ Transit(t) = {}
  BY DEF SlabInit, Depth, Own, Transit
<1>4. OnePlace
  BY <1>3, Types DEF SlabInit, OnePlace
<1>. QED  BY <1>1, <1>2, <1>4 DEF SlabInv

LEMMA GetCallStep ==
  ASSUME SlabInv, NEW t \in Thread, GetCall(t), UNCHANGED disc
  PROVE  SlabInv'
<1>1. Control'
  BY
     DEF SlabInv, Control, GetCall, MayGet, Go, SlabTypeOK, Locked, Asleep, PutAlone, Fresh,
         Inside,
         GetPcs, PutPcs
<1>2. OnePlace'
  BY Aside DEF GetCall, Go, Carrying
<1>. QED  BY <1>1, <1>2 DEF SlabInv, Control

LEMMA LockStep ==
  ASSUME SlabInv, NEW t \in Thread, Lock(t), UNCHANGED disc
  PROVE  SlabInv'
<1>1. Control'
  <2>1. SlabTypeOK' /\ disc' # "any"
    BY Types DEF SlabInv, Control, SlabTypeOK, Lock, Go, Inside, GetPcs, PutPcs
  <2>2. Locked' /\ Asleep'
    BY Types DEF SlabInv, SlabTypeOK, Locked, Asleep, PutAlone, Lock, Go, Inside, PutPcs
  <2>3. PutAlone'
    BY DEF SlabInv, SlabTypeOK, Asleep, PutAlone, Lock, Go, Inside, PutPcs
  <2>4. Fresh'
    BY Types DEF SlabInv, SlabTypeOK, Fresh, PutAlone, Lock, Go, Inside, PutPcs
  <2>. QED  BY <2>1, <2>2, <2>3, <2>4 DEF Control
<1>2. OnePlace'
  BY Aside DEF Lock, Go, Carrying
<1>. QED  BY <1>1, <1>2 DEF SlabInv, Control

LEMMA TestStep ==
  ASSUME SlabInv, NEW t \in Thread, Test(t), UNCHANGED disc
  PROVE  SlabInv'
<1>1. Control'
  <2>1. SlabTypeOK' /\ disc' # "any"
    BY Types DEF SlabInv, Control, SlabTypeOK, Test, Go, Inside, GetPcs, PutPcs
  <2>2. Locked' /\ Asleep'
    BY DEF SlabInv, SlabTypeOK, Locked, Asleep, PutAlone, Test, Go, Inside, PutPcs
  <2>3. PutAlone'
    BY DEF SlabInv, SlabTypeOK, Asleep, PutAlone, Test, Go, Inside, PutPcs
  <2>4. Fresh'
    BY Types DEF SlabInv, SlabTypeOK, Fresh, PutAlone, Test, Go, Inside, PutPcs
  <2>. QED  BY <2>1, <2>2, <2>3, <2>4 DEF Control
<1>2. OnePlace'
  BY Aside DEF Test, Go, Carrying
<1>. QED  BY <1>1, <1>2 DEF SlabInv, Control

LEMMA BlockStep ==
  ASSUME SlabInv, NEW t \in Thread, Block(t), UNCHANGED disc
  PROVE  SlabInv'
<1>0. \A u \in Thread \ {t} : pc[u] \notin Inside \cup PutPcs
  BY OneInside DEF Block, Inside
<1>1. Control'
  <2>1. SlabTypeOK' /\ disc' # "any"
    BY <1>0, Types DEF SlabInv, Control, SlabTypeOK, Block, Go, Inside, GetPcs, PutPcs
  <2>2. Locked' /\ Asleep'
    BY <1>0 DEF SlabInv, SlabTypeOK, Locked, Asleep, PutAlone, Block, Go, Inside, PutPcs
  <2>3. PutAlone'
    BY <1>0 DEF SlabInv, SlabTypeOK, Asleep, PutAlone, Block, Go, Inside, PutPcs
  <2>4. Fresh'
    BY <1>0, Types DEF SlabInv, SlabTypeOK, Fresh, PutAlone, Block, Go, Inside, PutPcs
  <2>. QED  BY <2>1, <2>2, <2>3, <2>4 DEF Control
<1>2. OnePlace'
  BY Aside DEF Block, Go, Carrying
<1>. QED  BY <1>1, <1>2 DEF SlabInv, Control

LEMMA ReadStep ==
  ASSUME SlabInv, NEW t \in Thread, Read(t), UNCHANGED disc
  PROVE  SlabInv'
<1>1. Control'
  <2>1. SlabTypeOK' /\ disc' # "any"
    BY Types DEF SlabInv, Control, SlabTypeOK, Read, Go, Inside, GetPcs, PutPcs
  <2>2. Locked' /\ Asleep'
    BY DEF SlabInv, SlabTypeOK, Locked, Asleep, PutAlone, Read, Go, Inside, PutPcs
  <2>3. PutAlone'
    BY DEF SlabInv, SlabTypeOK, Asleep, PutAlone, Read, Go, Inside, PutPcs
  <2>4. Fresh'
    BY Types DEF SlabInv, SlabTypeOK, Fresh, PutAlone, Read, Go, Inside, PutPcs
  <2>. QED  BY <2>1, <2>2, <2>3, <2>4 DEF Control
<1>2. OnePlace'
  BY Aside DEF Read, Go, Carrying, SlabInv, SlabTypeOK
<1>. QED  BY <1>1, <1>2 DEF SlabInv, Control

LEMMA SignalStep ==
  ASSUME SlabInv, NEW t \in Thread, Signal(t), UNCHANGED disc
  PROVE  SlabInv'
<1>0. \A u \in Thread \ {t} : pc[u] \in {"idle", "wait"}
  BY OnePutting DEF Signal, PutPcs
<1>1. Control'
  <2>1. SlabTypeOK' /\ disc' # "any"
    BY <1>0, Types DEF SlabInv, Control, SlabTypeOK, Signal, Go, Inside, GetPcs, PutPcs
  <2>2. Locked' /\ Asleep'
    BY <1>0
       DEF SlabInv, SlabTypeOK, Locked, Asleep, PutAlone, Signal, Go, Inside, PutPcs
  <2>3. PutAlone'
    BY <1>0 DEF SlabInv, SlabTypeOK, Asleep, PutAlone, Signal, Go, Inside, PutPcs
  <2>4. Fresh'
    BY <1>0, Types DEF SlabInv, SlabTypeOK, Fresh, PutAlone, Signal, Go, Inside, PutPcs
  <2>. QED  BY <2>1, <2>2, <2>3, <2>4 DEF Control
<1>2. OnePlace'
  BY Aside DEF Signal, Go, Carrying
<1>. QED  BY <1>1, <1>2 DEF SlabInv, Control

LEMMA WakeStep ==
  ASSUME SlabInv, NEW t \in Thread, WakeSpuriously(t), UNCHANGED disc
  PROVE  SlabInv'
<1>1. Control'
  <2>1. SlabTypeOK' /\ disc' # "any"
    BY Types DEF SlabInv, Control, SlabTypeOK, WakeSpuriously, Inside, GetPcs, PutPcs
  <2>2. Locked' /\ Asleep'
    BY DEF SlabInv, SlabTypeOK, Locked, Asleep, PutAlone, WakeSpuriously, Inside, PutPcs
  <2>3. PutAlone'
    BY SlabTabAssumption
       DEF SlabInv, SlabTypeOK, Asleep, PutAlone, WakeSpuriously, Inside, PutPcs
  <2>4. Fresh'
    BY Types DEF SlabInv, SlabTypeOK, Fresh, PutAlone, WakeSpuriously, Inside, PutPcs
  <2>. QED  BY <2>1, <2>2, <2>3, <2>4 DEF Control
<1>2. OnePlace'
  BY DEF WakeSpuriously, SlabInv, OnePlace, Depth, Own, Transit
<1>. QED  BY <1>1, <1>2 DEF SlabInv, Control

-----------------------------------------------------------------------------
(* Steps that move an object *)

LEMMA PutCallStep ==
  ASSUME SlabInv, NEW t \in Thread, PutCall(t), UNCHANGED disc
  PROVE  SlabInv'
<1>. PICK o \in got[t] : /\ obj' = [obj EXCEPT ![t] = o]
                          /\ got' = [got EXCEPT ![t] = @ \ {o}]
  BY DEF PutCall
<1>1. /\ pc[t] = "idle" /\ MayPut(t) /\ pc' = [pc EXCEPT ![t] = "put"]
      /\ UNCHANGED <<disc, free, fp, mut, waiters, reg>> /\ o \in Obj
  BY DEF PutCall, Go, SlabInv, SlabTypeOK
<1>2. Control'
  <2>1. SlabTypeOK' /\ disc' # "any"
    BY <1>1 DEF SlabInv, SlabTypeOK, PutPcs
  <2>2. Locked' /\ Asleep'
    BY <1>1 DEF SlabInv, SlabTypeOK, Locked, Asleep, Inside
  <2>3. PutAlone'
    BY <1>1, SlabTabAssumption DEF SlabInv, SlabTypeOK, Asleep, PutAlone, MayPut, PutPcs
  <2>4. Fresh'
    BY <1>1, Types DEF SlabInv, SlabTypeOK, Fresh
  <2>. QED  BY <2>1, <2>2, <2>3, <2>4 DEF Control
<1>3. OnePlace'
  <2>1. Depth' = Depth
    BY <1>1 DEF Depth, SlabInv, SlabTypeOK
  <2>2. ASSUME NEW u \in Thread PROVE Own(u)' = Own(u) /\ got'[u] \cap Transit(u)' = {}
    <3>1. CASE u = t
      BY <1>1, <3>1 DEF Own, Transit, SlabInv, SlabTypeOK
    <3>2. CASE u # t
      BY <1>1, <3>2 DEF Own, Transit, SlabInv, SlabTypeOK, OnePlace
    <3>. QED  BY <3>1, <3>2
  <2>. QED  BY <1>1, <2>1, <2>2, SameOnePlace
<1>. QED  BY <1>2, <1>3 DEF SlabInv, Control

LEMMA UnlockStep ==
  ASSUME SlabInv, NEW t \in Thread, Unlock(t), UNCHANGED disc
  PROVE  SlabInv'
<1>1. /\ pc[t] = "unlock" /\ pc' = [pc EXCEPT ![t] = "idle"] /\ mut' = None
      /\ got' = [got EXCEPT ![t] = @ \cup {obj[t]}]
      /\ UNCHANGED <<disc, free, fp, waiters, reg, obj>>
  BY DEF Unlock, Go
<1>2. obj[t] \in Obj
  BY <1>1 DEF SlabInv, SlabTypeOK, Fresh
<1>3. \A u \in Thread \ {t} : pc[u] \notin Inside \cup PutPcs
  BY <1>1, OneInside DEF Inside
<1>4. Control'
  <2>1. SlabTypeOK' /\ disc' # "any"
    BY <1>1, <1>2 DEF SlabInv, SlabTypeOK
  <2>2. Locked' /\ Asleep'
    BY <1>1, <1>3 DEF SlabInv, SlabTypeOK, Locked, Asleep, Inside
  <2>3. PutAlone'
    BY <1>1, <1>3 DEF SlabInv, SlabTypeOK, PutAlone, PutPcs
  <2>4. Fresh'
    BY <1>1, Types DEF SlabInv, SlabTypeOK, Fresh
  <2>. QED  BY <2>1, <2>2, <2>3, <2>4 DEF Control
<1>5. OnePlace'
  <2>1. Depth' = Depth
    BY <1>1 DEF Depth, SlabInv, SlabTypeOK
  <2>2. ASSUME NEW u \in Thread PROVE Own(u)' = Own(u) /\ got'[u] \cap Transit(u)' = {}
    <3>1. CASE u = t
      BY <1>1, <3>1 DEF Own, Transit, SlabInv, SlabTypeOK
    <3>2. CASE u # t
      BY <1>1, <3>2 DEF Own, Transit, SlabInv, SlabTypeOK, OnePlace
    <3>. QED  BY <3>1, <3>2
  <2>. QED  BY <1>1, <2>1, <2>2, SameOnePlace
<1>. QED  BY <1>4, <1>5 DEF SlabInv, Control

LEMMA DecStep ==
  ASSUME SlabInv, NEW t \in Thread, Dec(t), UNCHANGED disc
  PROVE  SlabInv'
<1>1. /\ pc[t] = "dec" /\ pc' = [pc EXCEPT ![t] = "load"] /\ fp' = reg[t] - 1
      /\ UNCHANGED <<disc, free, mut, waiters, reg, obj, got>>
  BY DEF Dec, Go
<1>2. reg[t] = fp /\ fp \in 1..SIZE /\ fp' = fp - 1 /\ SIZE \in Nat
  BY <1>1, Types DEF SlabInv, SlabTypeOK, Fresh
<1>3. \A u \in Thread \ {t} : pc[u] \notin Inside \cup PutPcs
  BY <1>1, OneInside DEF Inside
<1>4. Control'
  <2>1. SlabTypeOK' /\ disc' # "any"
    BY <1>1, <1>2 DEF SlabInv, SlabTypeOK, GetPcs
  <2>2. Locked' /\ Asleep'
    BY <1>1 DEF SlabInv, SlabTypeOK, Locked, Asleep, Inside
  <2>3. PutAlone'
    BY <1>1, <1>3 DEF SlabInv, SlabTypeOK, PutAlone, PutPcs
  <2>4. Fresh'
    BY <1>1, <1>2, <1>3 DEF SlabInv, SlabTypeOK, Fresh, Inside, PutPcs
  <2>. QED  BY <2>1, <2>2, <2>3, <2>4 DEF Control
<1>5. OnePlace'
  <2>1. Depth = fp /\ Depth' = fp - 1
    BY <1>1, <1>2, <1>3 DEF Depth, SlabInv, SlabTypeOK, PutPcs
  <2>2. /\ Transit(t) = {} /\ Transit(t)' = {free[fp - 1]}
        /\ \A u \in Thread \ {t} : Transit(u)' = Transit(u)
    BY <1>1, <1>2 DEF Transit, SlabInv, SlabTypeOK
  <2>3. /\ Own(t) = got[t] /\ Own(t)' = got[t] \cup {free[fp - 1]}
        /\ \A u \in Thread \ {t} : Own(u)' = Own(u)
    BY <1>1, <2>2 DEF Own
  <2>4. \A i \in 0..(fp - 1) : i = fp - 1 \/ i \in 0..(fp - 2)
    BY <1>2
  <2>. QED  BY <1>1, <1>2, <2>1, <2>2, <2>3, <2>4 DEF SlabInv, OnePlace
<1>. QED  BY <1>4, <1>5 DEF SlabInv, Control

LEMMA LoadStep ==
  ASSUME SlabInv, NEW t \in Thread, Load(t), UNCHANGED disc
  PROVE  SlabInv'
<1>1. /\ pc[t] = "load" /\ pc' = [pc EXCEPT ![t] = "unlock"]
      /\ obj' = [obj EXCEPT ![t] = free[reg[t] - 1]]
      /\ UNCHANGED <<disc, free, fp, mut, waiters, reg, got>>
  BY DEF Load, Go
<1>2. free[reg[t] - 1] \in Obj
  <2>1. reg[t] - 1 \in Slot
    BY <1>1, Types DEF SlabInv, SlabTypeOK, Fresh
  <2>. QED  BY <2>1 DEF SlabInv, SlabTypeOK
<1>3. \A u \in Thread \ {t} : pc[u] \notin Inside \cup PutPcs
  BY <1>1, OneInside DEF Inside
<1>4. Control'
  <2>1. SlabTypeOK' /\ disc' # "any"
    BY <1>1, <1>2 DEF SlabInv, SlabTypeOK, GetPcs
  <2>2. Locked' /\ Asleep'
    BY <1>1 DEF SlabInv, SlabTypeOK, Locked, Asleep, Inside
  <2>3. PutAlone'
    BY <1>1, <1>3 DEF SlabInv, SlabTypeOK, PutAlone, PutPcs
  <2>4. Fresh'
    BY <1>1, <1>2, <1>3, Types DEF SlabInv, SlabTypeOK, Fresh, Inside, PutPcs
  <2>. QED  BY <2>1, <2>2, <2>3, <2>4 DEF Control
<1>5. OnePlace'
  <2>1. Depth' = Depth
    BY <1>1 DEF Depth, SlabInv, SlabTypeOK
  <2>2. ASSUME NEW u \in Thread PROVE Own(u)' = Own(u) /\ got'[u] \cap Transit(u)' = {}
    BY <1>1 DEF Own, Transit, SlabInv, SlabTypeOK, OnePlace
  <2>. QED  BY <1>1, <2>1, <2>2, SameOnePlace
<1>. QED  BY <1>4, <1>5 DEF SlabInv, Control

LEMMA PutReadStep ==
  ASSUME SlabInv, NEW t \in Thread, PutRead(t), UNCHANGED disc
  PROVE  SlabInv'
<1>1. /\ pc[t] = "put" /\ pc' = [pc EXCEPT ![t] = "both"]
      /\ reg' = [reg EXCEPT ![t] = fp]
      /\ UNCHANGED <<disc, free, fp, mut, waiters, obj, got>>
  BY DEF PutRead, Go
<1>2. Control'
  <2>1. SlabTypeOK' /\ disc' # "any"
    BY <1>1 DEF SlabInv, SlabTypeOK, PutPcs
  <2>2. Locked' /\ Asleep'
    BY <1>1 DEF SlabInv, SlabTypeOK, Locked, Asleep, Inside
  <2>3. PutAlone'
    BY <1>1 DEF SlabInv, SlabTypeOK, PutAlone, PutPcs
  <2>4. Fresh'
    BY <1>1 DEF SlabInv, SlabTypeOK, Fresh
  <2>. QED  BY <2>1, <2>2, <2>3, <2>4 DEF Control
<1>3. OnePlace'
  <2>1. Depth' = Depth
    BY <1>1 DEF Depth, SlabInv, SlabTypeOK
  <2>2. ASSUME NEW u \in Thread PROVE Own(u)' = Own(u) /\ got'[u] \cap Transit(u)' = {}
    BY <1>1 DEF Own, Transit, SlabInv, SlabTypeOK, OnePlace
  <2>. QED  BY <1>1, <2>1, <2>2, SameOnePlace
<1>. QED  BY <1>2, <1>3 DEF SlabInv, Control

\* the second of the two accesses of a put makes the object part of the stack
LEMMA Pushed ==
  ASSUME SlabInv, NEW t \in Thread, pc[t] \in {"step", "store"},
         Depth' = Depth + 1, free'[Depth] = obj[t],
         \A i \in 0..(Depth - 1) : free'[i] = free[i],
         pc' = [pc EXCEPT ![t] = "signal"], UNCHANGED <<reg, obj, got>>
  PROVE  OnePlace'
<1>1. Depth \in Nat
  BY DepthIs DEF SlabInv, SlabTypeOK
<1>2. /\ Transit(t) = {obj[t]} /\ Transit(t)' = {}
      /\ \A u \in Thread \ {t} : Transit(u) = {} /\ Transit(u)' = {}
  BY OnePutting DEF Transit, SlabInv, SlabTypeOK, PutPcs
<1>3. /\ Own(t) = got[t] \cup {obj[t]} /\ Own(t)' = got[t]
      /\ \A u \in Thread \ {t} : Own(u) = got[u] /\ Own(u)' = got[u]
  BY <1>2 DEF Own
<1>4. \A i \in 0..Depth : i = Depth \/ i \in 0..(Depth - 1)
  BY <1>1
<1>5. Depth' - 1 = Depth /\ Depth \in 0..Depth /\ 0..(Depth - 1) \subseteq 0..Depth
  BY <1>1
<1>6. /\ \A i, j \in 0..Depth : free'[i] = free'[j] => i = j
      /\ \A u \in Thread : \A i \in 0..Depth : free'[i] \notin got[u]
  BY <1>2, <1>3, <1>4 DEF SlabInv, OnePlace
<1>7. ASSUME NEW o \in Obj
      PROVE  (\E i \in 0..Depth : free'[i] = o) \/ \E u \in Thread : o \in got[u]
  BY <1>3, <1>5 DEF SlabInv, OnePlace
<1>8. \A u, v \in Thread : u # v => got[u] \cap got[v] = {}
  BY <1>3 DEF SlabInv, OnePlace
<1>9. \A u \in Thread : Own(u)' = got[u] /\ Transit(u)' = {}
  BY <1>2, <1>3
<1>. QED  BY <1>5, <1>6, <1>7, <1>8, <1>9 DEF OnePlace

LEMMA PutStepStep ==
  ASSUME SlabInv, NEW t \in Thread, PutStep(t), UNCHANGED disc
  PROVE  SlabInv'
<1>1. /\ pc[t] \in {"both", "step"} /\ fp' = reg[t] + 1
      /\ pc' = [pc EXCEPT ![t] = IF pc[t] = "both" THEN "store" ELSE "signal"]
      /\ UNCHANGED <<disc, free, mut, waiters, reg, obj, got>>
  BY DEF PutStep, Go
<1>2. /\ Depth = fp /\ reg[t] = fp /\ fp' = fp + 1 /\ obj[t] \in Obj
      /\ fp \in Nat /\ SIZE \in Nat
  <2>1. Depth = fp
    BY <1>1, DepthIs DEF PutPcs
  <2>2. reg[t] = fp /\ obj[t] \in Obj
    BY <1>1 DEF SlabInv, SlabTypeOK, Fresh
  <2>. QED  BY <1>1, <2>1, <2>2, Types DEF SlabInv, SlabTypeOK
<1>3. fp < SIZE
  <2>1. obj[t] \in Own(t)
    BY <1>1 DEF Own, Transit
  <2>. QED  BY <1>2, <2>1, RoomOnStack
<1>4. \A u \in Thread \ {t} : pc[u] \in {"idle", "wait"}
  BY <1>1, OnePutting DEF PutPcs
<1>5. Control'
  <2>1. SlabTypeOK' /\ disc' # "any"
    BY <1>1, <1>2, <1>3 DEF SlabInv, SlabTypeOK, PutPcs
  <2>2. Locked' /\ Asleep'
    BY <1>1 DEF SlabInv, SlabTypeOK, Locked, Asleep, Inside
  <2>3. PutAlone'
    BY <1>1 DEF SlabInv, SlabTypeOK, PutAlone, PutPcs
  <2>4. Fresh'
    BY <1>1, <1>2, <1>4, Types DEF SlabInv, SlabTypeOK, Fresh
  <2>. QED  BY <2>1, <2>2, <2>3, <2>4 DEF Control
<1>6. CASE pc[t] = "both"
  <2>1. Depth' = Depth
    BY <1>1, <1>2, <1>6 DEF Depth, SlabInv, SlabTypeOK
  <2>2. ASSUME NEW u \in Thread PROVE Own(u)' = Own(u) /\ got'[u] \cap Transit(u)' = {}
    BY <1>1, <1>6 DEF Own, Transit, SlabInv, SlabTypeOK, OnePlace
  <2>3. OnePlace'
    BY <1>1, <2>1, <2>2, SameOnePlace
  <2>. QED  BY <1>5, <2>3 DEF SlabInv, Control
<1>7. CASE pc[t] = "step"
  <2>1. Depth' = Depth + 1
    BY <1>1, <1>2, <1>4, <1>7 DEF Depth, SlabInv, SlabTypeOK
  <2>2. free'[Depth] = obj[t]
    BY <1>1, <1>2, <1>7 DEF SlabInv, Fresh
  <2>3. OnePlace'
    BY <1>1, <1>7, <2>1, <2>2, Pushed
  <2>. QED  BY <1>5, <2>3 DEF SlabInv, Control
<1>. QED  BY <1>1, <1>6, <1>7

LEMMA PutStoreStep ==
  ASSUME SlabInv, NEW t \in Thread, PutStore(t), UNCHANGED disc
  PROVE  SlabInv'
<1>1. /\ pc[t] \in {"both", "store"} /\ reg[t] < SIZE
      /\ free' = [free EXCEPT ![reg[t]] = obj[t]]
      /\ pc' = [pc EXCEPT ![t] = IF pc[t] = "both" THEN "step" ELSE "signal"]
      /\ UNCHANGED <<disc, fp, mut, waiters, reg, obj, got>>
  BY DEF PutStore, Go
<1>2. /\ Depth = reg[t] /\ reg[t] \in Slot /\ obj[t] \in Obj /\ fp \in Nat
      /\ fp = IF pc[t] = "both" THEN Depth ELSE Depth + 1
  <2>1. reg[t] \in Nat /\ fp \in Nat /\ obj[t] \in Obj
    BY <1>1, Types DEF SlabInv, SlabTypeOK, Fresh
  <2>2. CASE pc[t] = "both"
    BY <1>1, <2>1, <2>2, DepthIs, Types DEF SlabInv, Fresh, PutPcs
  <2>3. CASE pc[t] = "store"
    BY <1>1, <2>1, <2>3, DepthIs, Types
  <2>. QED  BY <1>1, <2>2, <2>3
<1>3. /\ free'[Depth] = obj[t]
      /\ \A i \in 0..(Depth - 1) : free'[i] = free[i]
  BY <1>1, <1>2, Types DEF SlabInv, SlabTypeOK
<1>4. \A u \in Thread \ {t} : pc[u] \in {"idle", "wait"}
  BY <1>1, OnePutting DEF PutPcs
<1>5. Control'
  <2>1. SlabTypeOK' /\ disc' # "any"
    BY <1>1, <1>2 DEF SlabInv, SlabTypeOK, PutPcs
  <2>2. Locked' /\ Asleep'
    BY <1>1 DEF SlabInv, SlabTypeOK, Locked, Asleep, Inside
  <2>3. PutAlone'
    BY <1>1 DEF SlabInv, SlabTypeOK, PutAlone, PutPcs
  <2>4. Fresh'
    BY <1>1, <1>2, <1>3, <1>4, Types DEF SlabInv, SlabTypeOK, Fresh
  <2>. QED  BY <2>1, <2>2, <2>3, <2>4 DEF Control
<1>6. CASE pc[t] = "both"
  <2>1. Depth' = Depth
    BY <1>1, <1>2, <1>6 DEF Depth, SlabInv, SlabTypeOK
  <2>2. ASSUME NEW u \in Thread PROVE Own(u)' = Own(u) /\ got'[u] \cap Transit(u)' = {}
    BY <1>1, <1>4, <1>6 DEF Own, Transit, SlabInv, SlabTypeOK, OnePlace
  <2>3. OnePlace'
    BY <1>3, <2>1, <2>2, SameOnePlace
  <2>. QED  BY <1>5, <2>3 DEF SlabInv, Control
<1>7. CASE pc[t] = "store"
  <2>1. Depth' = Depth + 1
    BY <1>1, <1>2, <1>4, <1>7 DEF Depth, SlabInv, SlabTypeOK
  <2>2. OnePlace'
    BY <1>1, <1>3, <1>7, <2>1, Pushed
  <2>. QED  BY <1>5, <2>2 DEF SlabInv, Control
<1>. QED  BY <1>1, <1>6, <1>7

LEMMA NextInv == SlabInv /\ [SlabNext]_slab_allvars => SlabInv'
<1>. SUFFICES ASSUME SlabInv, [SlabNext]_slab_allvars PROVE SlabInv'
  OBVIOUS
<1>1. ASSUME NEW t \in Thread, GetCall(t) \/ PutCall(t) \/ WakeSpuriously(t), UNCHANGED disc
      PROVE  SlabInv'
  BY <1>1, GetCallStep, PutCallStep, WakeStep
<1>2. ASSUME NEW t \in Thread, Step(t), UNCHANGED disc
      PROVE  SlabInv'
  BY <1>2, LockStep, TestStep, BlockStep, ReadStep, DecStep, LoadStep, UnlockStep,
     PutReadStep, PutStepStep, PutStoreStep, SignalStep DEF Step
<1>3. CASE UNCHANGED slab_allvars
  <2>1. SlabTypeOK' /\ disc' # "any" /\ Locked' /\ Asleep' /\ PutAlone' /\ Fresh'
    BY <1>3
       DEF slab_allvars, slab_vars, SlabInv, SlabTypeOK, Locked, Asleep, PutAlone, Fresh
  <2>2. OnePlace'
    BY <1>3 DEF slab_allvars, slab_vars, SlabInv, OnePlace, Depth, Own, Transit
  <2>. QED  BY <2>1, <2>2 DEF SlabInv
<1>. QED  BY <1>1, <1>2, <1>3 DEF SlabNext

\* behind every access to fp and the stack, each object is in one place
THEOREM SlabInvariance == ASSUME Coordinated PROVE SlabSpec => []SlabInv
<1>1. SlabInit => SlabInv
  BY InitInv
<1>. QED  BY <1>1, NextInv, PTL DEF SlabSpec

-----------------------------------------------------------------------------
(* What follows *)

\* fp never leaves the array
THEOREM SlabTypeCorrect == ASSUME Coordinated PROVE SlabSpec => []SlabTypeOK
<1>1. SlabInv => SlabTypeOK
  BY DEF SlabInv
<1>. QED  BY <1>1, SlabInvariance, PTL

\* no two threads are given the same object
THEOREM HandedOutOnce == ASSUME Coordinated PROVE SlabSpec => []NoDoubleHandout
<1>1. SlabInv => NoDoubleHandout
  <2>1. \A t \in Thread : Mine(t) \subseteq Own(t)
    BY DEF Mine, Own, Transit
  <2>. QED  BY <2>1 DEF SlabInv, OnePlace, NoDoubleHandout
<1>. QED  BY <1>1, SlabInvariance, PTL

\* between calls each object is on the stack or with one thread
THEOREM NothingLost == ASSUME Coordinated PROVE SlabSpec => []Conserved
<1>1. SlabInv => Conserved
  <2>. SUFFICES ASSUME SlabInv, Quiet
                PROVE  /\ \A i, j \in 0..(fp - 1) : free[i] = free[j] => i = j
                       /\ {free[i] : i \in 0..(fp - 1)}
                            = Obj \ UNION {got[t] : t \in Thread}
    BY DEF Conserved
  <2>1. \A t \in Thread : pc[t] \in {"idle", "wait"}
    BY DEF Quiet, SlabInv, Asleep
  <2>2. Depth = fp /\ \A t \in Thread : Own(t) = got[t]
    BY <2>1 DEF Depth, Own, Transit
  <2>3. \A i \in 0..(fp - 1) : free[i] \in Obj
    BY Types DEF SlabInv, SlabTypeOK
  <2>. QED  BY <2>2, <2>3 DEF SlabInv, OnePlace
<1>. QED  BY <1>1, SlabInvariance, PTL

\* with callers that coordinate, what slab_tab_exit_check() asks for is true
THEOREM FullAtExit == ASSUME Coordinated PROVE SlabSpec => []FullOnExit
<1>1. SlabInv => FullOnExit
  <2>. SUFFICES ASSUME SlabInv, \A t \in Thread : pc[t] = "idle" /\ got[t] = {}
                PROVE  fp = SIZE
    BY DEF FullOnExit
  <2>1. Depth = fp /\ \A t \in Thread : Own(t) = {}
    BY DEF Depth, Own, Transit
  <2>2. \A o \in Obj : \E i \in 0..(fp - 1) : free[i] = o
    BY <2>1 DEF SlabInv, OnePlace
  <2>3. fp \in 0..SIZE /\ SIZE \in Nat
    BY Types DEF SlabInv, SlabTypeOK
  <2>4. \A i \in 0..(fp - 1) : free[i] \in Obj
    BY <2>3, Types DEF SlabInv, SlabTypeOK
  <2>5. [i \in 0..(fp - 1) |-> free[i]] \in Surjection(0..(fp - 1), Obj)
    BY <2>2, <2>4 DEF Surjection
  <2>6. /\ IsFiniteSet(0..(fp - 1)) /\ Cardinality(0..(fp - 1)) = fp
        /\ Cardinality(Obj) = SIZE
    <3>1. fp - 1 \in Int /\ SIZE - 1 \in Int /\ (0 > fp - 1 <=> fp = 0)
      BY <2>3
    <3>2. /\ IsFiniteSet(0..(fp - 1))
          /\ Cardinality(0..(fp - 1)) = IF 0 > fp - 1 THEN 0 ELSE (fp - 1) - 0 + 1
      BY <3>1, FS_Interval
    <3>3. Cardinality(Obj) = IF 0 > SIZE - 1 THEN 0 ELSE (SIZE - 1) - 0 + 1
      BY <3>1, Types, FS_Interval
    <3>. QED  BY <2>3, <3>1, <3>2, <3>3, Types
  <2>7. Cardinality(Obj) <= Cardinality(0..(fp - 1))
    BY <2>5, <2>6, FS_Surjection
  <2>. QED  BY <2>3, <2>6, <2>7
<1>. QED  BY <1>1, SlabInvariance, PTL
=============================================================================
