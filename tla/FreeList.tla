------------------------------ MODULE FreeList ------------------------------
(***************************************************************************)
(* The allocator of ideas/free: a circular list of nodes (free_node.h),    *)
(* each with a pool of objects and a bitset (bitset.h) that says which are *)
(* handed out; freelist_get() and freelist_put() of main.c.                *)
(*                                                                         *)
(* Two things make it delicate.  The search for a free bit starts at the   *)
(* word `last', which a put moves to the word of its object, forwards too. *)
(* And fn_count goes down at each get and never up: it counts the gets a   *)
(* node has left, not its free objects.                                    *)
(*                                                                         *)
(* main() puts the object it got last; here callers put any they hold.     *)
(***************************************************************************)
EXTENDS Naturals, Sequences

CONSTANTS WIDTH,       \* bits of a word (64 in the build)
          WORDS,       \* words of a bitset (POOL_SIZE / 64)
          MaxNodes     \* bound: nodes the program allocates

ASSUME FreeListAssumption ==
  /\ WIDTH \in Nat \ {0}
  /\ WORDS \in Nat \ {0}
  /\ MaxNodes \in Nat

POOL_SIZE == WIDTH * WORDS

Node == 1..MaxNodes
Bit  == 0..(POOL_SIZE - 1)
Word == 0..(WORDS - 1)

VARIABLES freelist,    \* the nodes, from the head of the list
          set,         \* per node, the bits that are one
          last,        \* per node, the word where the search starts
          fn_count,    \* per node, see above
          proc,        \* "up"; "down" behind die(); "corrupt" when an index
                       \* of -1 was used
          held,        \* the pointers that callers own: <<node, bit>>
          top          \* history, per node: the bits ever set lie below

vars == <<freelist, set, last, fn_count, proc, held, top>>

Init ==
  /\ freelist = <<>>
  /\ set = [n \in Node |-> {}]
  /\ last = [n \in Node |-> 0]
  /\ fn_count = [n \in Node |-> POOL_SIZE]
  /\ proc = "up" /\ held = {}
  /\ top = [n \in Node |-> 0]

-----------------------------------------------------------------------------
\* the zero bits that NAME_first_zero() looks at
Seen(n) == {i \in Bit : last[n] * WIDTH <= i} \ set[n]

\* the word of a bit: BITSET_WORD_IDX
IsWordOf(w, i) == w * WIDTH <= i /\ i < (w + 1) * WIDTH

\* mutant: the get is not counted
NodeGetUncounted(n) ==
  IF Seen(n) = {}
    THEN /\ proc' = "corrupt"
         /\ UNCHANGED <<set, last, fn_count, held, top>>
    ELSE \E i \in Seen(n), w \in Word :
           /\ \A j \in Seen(n) : i <= j
           /\ IsWordOf(w, i)
           /\ set' = [set EXCEPT ![n] = @ \cup {i}]
           /\ last' = [last EXCEPT ![n] = w]
           /\ held' = held \cup {<<n, i>>}
           /\ top' = [top EXCEPT ![n] = IF i >= @ THEN i + 1 ELSE @]
           /\ UNCHANGED <<proc, fn_count>>

\* NAME_get() of node n: the first zero bit from the word `last' on; without
\* one the index is -1, in front of the pool and far behind the bitset
NodeGet(n) ==
  IF Seen(n) = {}
    THEN /\ proc' = "corrupt"
         /\ UNCHANGED <<set, last, fn_count, held, top>>
    ELSE \E i \in Seen(n), w \in Word :
           /\ \A j \in Seen(n) : i <= j
           /\ IsWordOf(w, i)
           /\ set' = [set EXCEPT ![n] = @ \cup {i}]
           /\ last' = [last EXCEPT ![n] = w]
           /\ fn_count' = [fn_count EXCEPT ![n] = @ - 1]
           /\ held' = held \cup {<<n, i>>}
           /\ top' = [top EXCEPT ![n] = IF i >= @ THEN i + 1 ELSE @]
           /\ UNCHANGED proc

\* mutant: the node at k is added at the front and not removed from its place
Doubled(k) == <<freelist[k]>> \o freelist

\* list_rm() of the node at k and list_add_after() the head
MovedToFront(k) ==
  [j \in 1..Len(freelist) |-> IF j = 1 THEN freelist[k]
                              ELSE IF j <= k THEN freelist[j - 1] ELSE freelist[j]]

\* mutant: the first node of the list, whatever its count
GetFront(k) ==
  /\ proc = "up"
  /\ k = 1
  /\ freelist' = MovedToFront(k)
  /\ NodeGet(freelist[k])

\* freelist_get(): the first node of the list that has a count
GetOld(k) ==
  /\ proc = "up"
  /\ fn_count[freelist[k]] > 0
  /\ \A j \in 1..(k - 1) : fn_count[freelist[j]] = 0
  /\ freelist' = MovedToFront(k)
  /\ NodeGet(freelist[k])

\* freelist_get() when no node has a count: a new one.  The ring is empty, for
\* nothing is ever put into it: see RingUnreached
GetNew ==
  /\ proc = "up"
  /\ \A j \in 1..Len(freelist) : fn_count[freelist[j]] = 0
  /\ Len(freelist) < MaxNodes
  /\ freelist' = <<Len(freelist) + 1>> \o freelist
  /\ NodeGet(Len(freelist) + 1)

\* malloc() failed: freelist_get() returns NULL and main() calls die(), or a
\* node that could not be made is dereferenced
GetDies ==
  /\ proc = "up"
  /\ proc' = "down"
  /\ UNCHANGED <<freelist, set, last, fn_count, held, top>>

\* mutant: a put is counted
PutCounted(n, i) ==
  /\ proc = "up"
  /\ <<n, i>> \in held
  /\ held' = held \ {<<n, i>>}
  /\ set' = [set EXCEPT ![n] = @ \ {i}]
  /\ \E w \in Word : IsWordOf(w, i) /\ last' = [last EXCEPT ![n] = w]
  /\ fn_count' = [fn_count EXCEPT ![n] = @ + 1]
  /\ UNCHANGED <<freelist, proc, top>>

\* mutant: the whole word is cleared
PutClearsWord(n, i) ==
  /\ proc = "up"
  /\ <<n, i>> \in held
  /\ held' = held \ {<<n, i>>}
  /\ \E w \in Word : /\ IsWordOf(w, i)
                     /\ last' = [last EXCEPT ![n] = w]
                     /\ set' = [set EXCEPT ![n] = {j \in @ : ~IsWordOf(w, j)}]
  /\ UNCHANGED <<freelist, fn_count, proc, top>>

\* freelist_put(): NAME_ptr_free(), and the return behind `fn_count !=
\* POOL_SIZE', which is always taken: see RingUnreached
Put(n, i) ==
  /\ proc = "up"
  /\ <<n, i>> \in held
  /\ held' = held \ {<<n, i>>}
  /\ set' = [set EXCEPT ![n] = @ \ {i}]
  /\ \E w \in Word : IsWordOf(w, i) /\ last' = [last EXCEPT ![n] = w]
  /\ UNCHANGED <<freelist, fn_count, proc, top>>

Next == \/ \E k \in 1..Len(freelist) : GetOld(k)
        \/ GetNew
        \/ GetDies
        \/ \E n \in Node, i \in Bit : Put(n, i)

Spec == Init /\ [][Next]_vars

-----------------------------------------------------------------------------
\* the type invariant
TypeOK ==
  /\ freelist \in Seq(Node)
  /\ set \in [Node -> SUBSET Bit]
  /\ last \in [Node -> Word]
  /\ fn_count \in [Node -> 0..POOL_SIZE]
  /\ proc \in {"up", "down", "corrupt"}
  /\ held \subseteq Node \X Bit
  /\ top \in [Node -> 0..POOL_SIZE]

\* list_rm() and list_add_after() keep the list a list of all nodes, each once
ListOk ==
  /\ Len(freelist) <= MaxNodes
  /\ \A j \in 1..Len(freelist) : freelist[j] <= Len(freelist)
  /\ \A j, k \in 1..Len(freelist) : freelist[j] = freelist[k] => j = k

\* a bit is one exactly while a caller holds its object: no object is handed
\* out to two callers (bitset.h:71-88, free_node.h:52-75)
BitsAreHeld == \A n \in Node : set[n] = {i \in Bit : <<n, i>> \in held}

\* NAME_get() of a node with a count always finds a zero bit: it never uses
\* the -1 of NAME_first_zero() as an index (free_node.h:62-63), though zero
\* bits may lie below the word `last'
NeverCorrupt == proc # "corrupt"

\* the test in freelist_put() (main.c:119) always returns: an owner of an object
\* never has its full count again, so the ring stays empty
RingUnreached == \A p \in held : fn_count[p[1]] # POOL_SIZE
=============================================================================
