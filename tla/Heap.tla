-------------------------------- MODULE Heap --------------------------------
(***************************************************************************)
(* The heap of ideas/heap/main.c: nodes of one size, taken from the break  *)
(* of the process one by one, kept in a ring while they are free, and      *)
(* given back all at once by moving the break down.                        *)
(*                                                                         *)
(* An address counts in nodes: a node is the address it has, from 1, and 0 *)
(* stands for h_head.                                                      *)
(***************************************************************************)
EXTENDS Integers, Sequences, FiniteSets

CONSTANTS HEAP_NODE_SIZE,
          Sizes,                \* what callers ask for
          MaxBreak              \* bound: where sbrk() fails at the latest

ASSUME HeapAssumption ==
  HEAP_NODE_SIZE \in Nat /\ Sizes \subseteq Nat /\ MaxBreak \in Nat

VARIABLES hn_next, hn_prev,     \* of the nodes and of h_head
          h_count,
          brk,                  \* the break
          life,                 \* "up", "freed" by heap_free(), or "died"
          taken,                \* nodes that callers have
          ring,                 \* history: the free nodes, put last first
          others                \* what others took from the break

links == <<hn_next, hn_prev>>
heap_vars == <<links, h_count, brk, life, taken, ring, others>>

h_head == 0
Cells == 0..MaxBreak

\* heap_init(), and heap_node_init() of each node there may be
HeapInit ==
  /\ hn_next = [c \in Cells |-> c] /\ hn_prev = [c \in Cells |-> c]
  /\ h_count = 0
  /\ brk = 0 /\ life = "up"
  /\ taken = {} /\ ring = <<>> /\ others = {}

-----------------------------------------------------------------------------
\* heap_node_add(): n behind h_head, in the links f (hn_next) and b (hn_prev)
AddNext(f, n) == [f EXCEPT ![n] = f[h_head], ![h_head] = n]
AddPrev(f, b, n) == [b EXCEPT ![n] = h_head, ![f[h_head]] = n]

\* mutant: the neighbour behind n keeps its hn_prev
RmPrevKept(f, b, n) == b

\* heap_node_rm()
RmNext(f, b, n) == [f EXCEPT ![b[n]] = f[n]]
RmPrev(f, b, n) == [b EXCEPT ![f[n]] = b[n]]

\* the first node that is large enough; all are of one size
Fits(size) == hn_next[h_head] # h_head /\ HEAP_NODE_SIZE >= size

HeapGetFree(size) ==
  /\ life = "up" /\ Fits(size)
  /\ LET n == hn_next[h_head]
     IN  /\ hn_next' = RmNext(hn_next, hn_prev, n)
         /\ hn_prev' = RmPrev(hn_next, hn_prev, n)
         /\ taken' = taken \cup {n}
  /\ ring' = Tail(ring)
  /\ UNCHANGED <<h_count, brk, life, others>>

\* mutant: only the first node is counted
HeapGetNewOnce(size) ==
  /\ life = "up" /\ ~Fits(size) /\ brk < MaxBreak
  /\ brk' = brk + 1
  /\ h_count' = 1
  /\ taken' = taken \cup {brk'}
  /\ UNCHANGED <<links, life, ring, others>>

\* a node from sbrk() goes into the ring and out of it
HeapGetNew(size) ==
  /\ life = "up" /\ ~Fits(size) /\ brk < MaxBreak
  /\ brk' = brk + 1
  /\ LET n == brk'
         f == AddNext(hn_next, n)
         b == AddPrev(hn_next, hn_prev, n)
     IN  /\ hn_next' = RmNext(f, b, n)
         /\ hn_prev' = RmPrev(f, b, n)
         /\ taken' = taken \cup {n}
  /\ h_count' = h_count + 1
  /\ UNCHANGED <<life, ring, others>>

\* sbrk() fails
HeapGetDies(size) ==
  /\ life = "up" /\ ~Fits(size)
  /\ life' = "died"
  /\ UNCHANGED <<links, h_count, brk, taken, ring, others>>

\* heap_put() of what a caller has, which is then NULL
HeapPut(n) ==
  /\ life = "up" /\ n \in taken
  /\ hn_next' = AddNext(hn_next, n)
  /\ hn_prev' = AddPrev(hn_next, hn_prev, n)
  /\ taken' = taken \ {n}
  /\ ring' = <<n>> \o ring
  /\ UNCHANGED <<h_count, brk, life, others>>

\* heap_free(): the break goes down by as many nodes as were made
HeapFree ==
  /\ life = "up"
  /\ brk' = brk - h_count
  /\ life' = "freed"
  /\ UNCHANGED <<links, h_count, taken, ring, others>>

\* malloc() of the C library, which puts() of main calls, moves the break too,
\* up, and down again if what lies there is its own
OtherGrows ==
  /\ life = "up" /\ brk < MaxBreak
  /\ brk' = brk + 1 /\ others' = others \cup {brk'}
  /\ UNCHANGED <<links, h_count, life, taken, ring>>

OtherShrinks ==
  /\ life = "up" /\ brk \in others
  /\ brk' = brk - 1 /\ others' = others \ {brk}
  /\ UNCHANGED <<links, h_count, life, taken, ring>>

HeapNext ==
  \/ \E size \in Sizes : HeapGetFree(size) \/ HeapGetNew(size) \/ HeapGetDies(size)
  \/ \E n \in taken : HeapPut(n)
  \/ HeapFree \/ OtherGrows \/ OtherShrinks

HeapSpec == HeapInit /\ [][HeapNext]_heap_vars

-----------------------------------------------------------------------------
(* Properties *)

\* place k of the ring r; at both ends h_head closes it
At(r, k) == IF k \in 1..Len(r) THEN r[k] ELSE h_head

\* The links, forwards and backwards, lead through the free nodes, the one put
\* last first, and through nothing else: so heap_get() never hands out a node
\* that a caller still has, and a node that was put is found again.
RingOk ==
  /\ \A k \in 0..Len(ring) : /\ hn_next[At(ring, k)] = At(ring, k + 1)
                              /\ hn_prev[At(ring, k + 1)] = At(ring, k)
  /\ \A j, k \in 1..Len(ring) : ring[j] = ring[k] => j = k
  /\ \A k \in 1..Len(ring) : ring[k] \notin taken

\* What lies below the break is either held by a caller, or in the ring, or
\* taken by others, and heap_free() takes as much off the break as heap_get()
\* put on it: the break is where it was if nobody else moved it.
BreakRestored ==
  /\ life = "up" => \A c \in 1..brk :
       \/ c \in taken /\ c \notin others
       \/ c \notin taken /\ (c \in others <=> \A k \in 1..Len(ring) : ring[k] # c)
  /\ brk = Cardinality(others) + (IF life = "freed" THEN 0 ELSE h_count)
=============================================================================
