----------------------------- MODULE DarrProofs -----------------------------
(***************************************************************************)
(* Proofs about Darr, for every number of threads, of numbers per thread   *)
(* and every initial capacity.  The numbers of a thread are a block of its *)
(* own, so that what has been pushed is known from where the threads are.  *)
(***************************************************************************)
EXTENDS Darr, FiniteSetTheorems, SequenceTheorems, TLAPS

\* the first number of thread t, and the last of the thread before it plus one
Lo(t) == t * EACH

\* where a thread holds nums_mut, and ptrs_mut, and where its number is not yet
\* counted among the elements
InNums == {"push", "store", "inc", "release", "add_ptr", "end"}
InPtrs == {"read", "link"}
Early  == {"next", "push", "store", "inc"}

\* the numbers that are in the array
Pushed == {n \in Num : \E t \in Thread :
             Lo(t) <= n /\ (n < i[t] \/ (n = i[t] /\ pc[t] \notin Early))}

\* who holds a mutex
Locks == \A t \in Thread : /\ pc[t] \in InNums => nums_mut = t
                           /\ pc[t] \in InPtrs => ptrs_mut = t

\* each thread is in its block of numbers
InBlock == \A t \in Thread : /\ Lo(t) <= i[t] /\ i[t] <= Lo(t + 1)
                             /\ pc[t] # "next" => i[t] < Lo(t + 1)

\* a push has room, and has been stored before it is counted
Room == \A t \in Thread :
          /\ pc[t] \in {"store", "inc"} => d_len < d_cap
          /\ pc[t] = "inc" /\ proc = "up" => d_len \in Num /\ data[d_len] = i[t]

\* the array holds what was pushed, each number once
Filled ==
  /\ \A j \in 0..(d_len - 1) : data[j] \in Pushed
  /\ \A j, k \in 0..(d_len - 1) : data[j] = data[k] => j = k
  /\ \A n \in Pushed : \E j \in 0..(d_len - 1) : data[j] = n

\* the block the array lies in is the one that is mapped, except between the
\* growth and the store behind it
Block ==
  /\ main = "join" /\ proc = "up" =>
       \/ d_arr # 0 /\ mapped = {d_arr}
       \/ d_arr = 0 /\ \E t \in Thread : pc[t] = "store"
  /\ main # "join" => mapped = {} /\ d_ptrs = {}

\* pointers that are not kept are NULL
Cleared == \A n \in Num \ d_ptrs : target[n] = NULL

\* the list that a thread has read is still the list when it links its struct,
\* which lives from malloc() to the end of main()
Linking == \A t \in Thread : /\ pc[t] = "link" => seen[t] = ptrs
                             /\ pc[t] \in {"read", "link", "again", "add_ptr"} => i[t] \in live

\* structs are linked or about to be, until all are freed
Owned ==
  /\ main = "done" => live = {}
  /\ \A n \in live : \/ \E k \in 1..Len(ptrs) : ptrs[k] = n
                     \/ \E t \in Thread : pc[t] \in InPtrs /\ i[t] = n

\* main() has gone on behind the joins
Ended == main # "join" => Joined

\* the inductive invariant
Inv == /\ TypeOK /\ Locks /\ InBlock /\ Room /\ Filled /\ Block
       /\ PointersLead /\ Cleared /\ Linking /\ Owned /\ Ended

-----------------------------------------------------------------------------
(* The blocks of numbers. *)

LEMMA LoMono ==
  ASSUME NEW t \in Nat, NEW u \in Nat, t <= u
  PROVE  Lo(t) <= Lo(u) /\ Lo(t) \in Nat /\ Lo(u) \in Nat
<1>1. EACH \in Nat /\ u - t \in Nat /\ u = t + (u - t)
  BY DarrAssumption
<1>2. u * EACH = t * EACH + (u - t) * EACH
  BY <1>1
<1>3. (u - t) * EACH \in Nat /\ t * EACH \in Nat /\ u * EACH \in Nat
  BY <1>1
<1>. QED  BY <1>2, <1>3 DEF Lo

LEMMA Types ==
  /\ THREADS \in Nat \ {0} /\ EACH \in Nat /\ Lo(THREADS) = THREADS * EACH
  /\ Lo(THREADS) \in Nat /\ Num = 0..(Lo(THREADS) - 1)
  /\ Thread = 0..(THREADS - 1) /\ None = THREADS
  /\ \A t \in Thread : /\ t \in Nat /\ t + 1 \in Nat /\ t + 1 <= THREADS
                       /\ Lo(t) \in Nat /\ Lo(t + 1) \in Nat /\ Lo(t + 1) <= Lo(THREADS)
<1>1. /\ THREADS \in Nat \ {0} /\ EACH \in Nat /\ Lo(THREADS) = THREADS * EACH
      /\ Num = 0..(Lo(THREADS) - 1) /\ Thread = 0..(THREADS - 1) /\ None = THREADS
  BY DarrAssumption DEF Lo, Num, Thread, None
<1>2. ASSUME NEW t \in Thread
      PROVE  /\ t \in Nat /\ t + 1 \in Nat /\ t + 1 <= THREADS
             /\ Lo(t) \in Nat /\ Lo(t + 1) \in Nat /\ Lo(t + 1) <= Lo(THREADS)
  BY <1>1, LoMono
<1>3. Lo(THREADS) \in Nat
  BY <1>1, LoMono
<1>. QED  BY <1>1, <1>2, <1>3

\* the blocks do not overlap
LEMMA Apart ==
  ASSUME NEW t \in Thread, NEW u \in Thread, NEW n \in Nat,
         Lo(t) <= n, n < Lo(t + 1), Lo(u) <= n, n < Lo(u + 1)
  PROVE  t = u
<1>1. ASSUME NEW v \in Thread, NEW w \in Thread, v < w
      PROVE  Lo(v + 1) <= Lo(w)
  BY <1>1, Types, LoMono
<1>2. t \in Nat /\ u \in Nat /\ Lo(t) \in Nat /\ Lo(u) \in Nat /\ Lo(t + 1) \in Nat /\ Lo(u + 1) \in Nat
  BY Types
<1>3. ~(t < u)
  BY <1>1, <1>2
<1>4. ~(u < t)
  BY <1>1, <1>2
<1>. QED  BY <1>2, <1>3, <1>4

\* every number is in one
LEMMA Covered ==
  ASSUME NEW n \in Num
  PROVE  \E t \in Thread : Lo(t) <= n /\ n < Lo(t + 1)
<1>1. n \in Nat /\ n < THREADS * EACH /\ THREADS \in Nat /\ EACH \in Nat
  BY Types
<1>2. EACH # 0
  BY <1>1
<1>. DEFINE t == n \div EACH
<1>3. t \in Nat /\ t * EACH <= n /\ n < (t + 1) * EACH
  BY <1>1, <1>2
<1>4. t < THREADS
  <2>1. SUFFICES ASSUME THREADS <= t PROVE FALSE
    BY <1>1, <1>3
  <2>2. Lo(THREADS) <= Lo(t) /\ Lo(THREADS) \in Nat /\ Lo(t) \in Nat
    BY <1>1, <1>3, <2>1, LoMono
  <2>. QED  BY <1>1, <1>3, <2>2 DEF Lo
<1>5. t \in Thread
  BY <1>1, <1>3, <1>4 DEF Thread
<1>6. Lo(t) <= n /\ n < Lo(t + 1)
  BY <1>3 DEF Lo
<1>. QED  BY <1>5, <1>6

\* what is counted is what was pushed
LEMMA Counted ==
  ASSUME TypeOK, Filled
  PROVE  /\ IsFiniteSet(Num) /\ Cardinality(Num) = Lo(THREADS)
         /\ d_len = Cardinality(Pushed) /\ d_len <= Lo(THREADS)
<1>. DEFINE f == [j \in 0..(d_len - 1) |-> data[j]]
<1>1. d_len \in Nat
  BY DEF TypeOK
<1>2. IsFiniteSet(0..(d_len - 1)) /\ Cardinality(0..(d_len - 1)) = d_len
  BY <1>1, FS_Interval
<1>3. f \in Bijection(0..(d_len - 1), Pushed)
  <2>1. f \in [0..(d_len - 1) -> Pushed]
    BY DEF Filled
  <2>2. \A j, k \in 0..(d_len - 1) : f[j] = f[k] => j = k
    BY DEF Filled
  <2>3. \A n \in Pushed : \E j \in 0..(d_len - 1) : f[j] = n
    BY DEF Filled
  <2>. QED  BY <2>1, <2>2, <2>3 DEF Bijection, Injection, Surjection, IsInjective
<1>4. Cardinality(Pushed) = d_len
  BY <1>2, <1>3, FS_Bijection DEF ExistsBijection
<1>5. IsFiniteSet(Num) /\ Cardinality(Num) = Lo(THREADS)
  BY Types, FS_Interval
<1>6. Cardinality(Pushed) <= Cardinality(Num)
  BY <1>5, FS_Subset DEF Pushed
<1>. QED  BY <1>4, <1>5, <1>6

\* a number that is not in the array finds an index in front of data's end
LEMMA RoomForOne ==
  ASSUME TypeOK, Filled, NEW n \in Num, n \notin Pushed
  PROVE  d_len \in Num
<1>1. IsFiniteSet(Pushed \cup {n}) /\ Cardinality(Pushed \cup {n}) = Cardinality(Pushed) + 1
  <2>1. IsFiniteSet(Pushed)
    BY Counted, FS_Subset DEF Pushed
  <2>. QED  BY <2>1, FS_AddElement
<1>2. Cardinality(Pushed \cup {n}) <= Cardinality(Num)
  <2>1. Pushed \cup {n} \in SUBSET Num
    BY DEF Pushed
  <2>. QED  BY <2>1, Counted, FS_Subset
<1>3. d_len \in Nat /\ Lo(THREADS) \in Nat
  BY Types DEF TypeOK
<1>. QED  BY <1>1, <1>2, <1>3, Counted, Types

\* the number of a thread is not in the array before its push is counted
LEMMA NotYet ==
  ASSUME TypeOK, InBlock, NEW t \in Thread, pc[t] \in Early, pc[t] # "next"
  PROVE  i[t] \in Num /\ i[t] \notin Pushed
<1>1. i[t] \in Nat /\ Lo(t) <= i[t] /\ i[t] < Lo(t + 1)
  BY DEF TypeOK, InBlock
<1>2. i[t] \in Num
  BY <1>1, Types
<1>3. ASSUME NEW u \in Thread, Lo(u) <= i[t],
             i[t] < i[u] \/ (i[t] = i[u] /\ pc[u] \notin Early)
      PROVE  FALSE
  <2>1. i[u] \in Nat /\ i[u] <= Lo(u + 1) /\ (pc[u] # "next" => i[u] < Lo(u + 1))
    BY DEF TypeOK, InBlock
  <2>2. i[t] < Lo(u + 1)
    <3>1. Lo(u + 1) \in Nat /\ ("next" \in Early)
      BY Types DEF Early
    <3>. QED  BY <1>1, <1>3, <2>1, <3>1
  <2>3. t = u
    BY <1>1, <1>3, <2>2, Apart
  <2>. QED  BY <1>1, <1>3, <2>3
<1>. QED  BY <1>2, <1>3 DEF Pushed
-----------------------------------------------------------------------------
(* The steps. *)

LEMMA InitInv == Init => Inv
<1>. SUFFICES ASSUME Init PROVE Inv
  OBVIOUS
<1>1. TypeOK
  <2>1. i \in [Thread -> 0..(THREADS * EACH)]
    <3>1. ASSUME NEW t \in Thread PROVE t * EACH \in 0..(THREADS * EACH)
      BY Types, LoMono DEF Lo
    <3>. QED  BY <3>1 DEF Init
  <2>2. d_cap \in Nat \ {0}
    BY DarrAssumption DEF Init
  <2>. QED  BY <2>1, <2>2 DEF Init, TypeOK, NULL
<1>2. InBlock
  <2>1. ASSUME NEW t \in Thread PROVE Lo(t) <= Lo(t + 1)
    BY Types, LoMono
  <2>2. ASSUME NEW t \in Thread PROVE i[t] = Lo(t) /\ pc[t] = "next" /\ Lo(t) \in Nat
    BY Types DEF Init, Lo
  <2>. QED  BY <2>1, <2>2 DEF InBlock
<1>3. Pushed = {}
  <2>1. ASSUME NEW n \in Num, NEW t \in Thread
        PROVE  ~(Lo(t) <= n /\ (n < i[t] \/ (n = i[t] /\ pc[t] \notin Early)))
    BY Types DEF Init, Lo, Early
  <2>. QED  BY <2>1 DEF Pushed
<1>4. Filled
  BY <1>3 DEF Init, Filled
<1>. QED  BY <1>1, <1>2, <1>4
          DEF Init, Inv, Locks, Room, Block, PointersLead, Cleared, Linking, Owned,
              Ended, InNums, InPtrs

\* a step that keeps every thread on its side of the count
LEMMA SamePushed ==
  ASSUME i' = i, \A u \in Thread : pc'[u] \in Early <=> pc[u] \in Early
  PROVE  Pushed' = Pushed
BY DEF Pushed

LEMMA SameFilled ==
  ASSUME Filled, Pushed' = Pushed, UNCHANGED <<d_len, data>>
  PROVE  Filled'
BY DEF Filled

LEMMA SameOwned ==
  ASSUME Owned, UNCHANGED <<live, ptrs, i, main>>,
         \A u \in Thread : pc[u] \in InPtrs => pc'[u] \in InPtrs
  PROVE  Owned'
BY DEF Owned

\* a mutex that is free is what its section lacks
LEMMA NobodyIn ==
  ASSUME Locks
  PROVE  /\ nums_mut = None => \A u \in Thread : pc[u] \notin InNums
         /\ ptrs_mut = None => \A u \in Thread : pc[u] \notin InPtrs
<1>1. \A u \in Thread : u # None
  BY Types
<1>. QED  BY <1>1 DEF Locks

\* where one thread is, no other is
LEMMA AloneIn ==
  ASSUME Locks, NEW t \in Thread
  PROVE  /\ pc[t] \in InNums => \A u \in Thread \ {t} : pc[u] \notin InNums
         /\ pc[t] \in InPtrs => \A u \in Thread \ {t} : pc[u] \notin InPtrs
BY DEF Locks

LEMMA Facts ==
  ASSUME Inv, NEW t \in Thread
  PROVE  /\ pc \in [Thread -> {"next", "push", "store", "inc", "release", "malloc",
                               "read", "link", "again", "add_ptr", "end"}]
         /\ i \in [Thread -> 0..Lo(THREADS)] /\ i[t] \in Nat /\ t \in Nat
         /\ pc[t] # "next" => i[t] \in Num
         /\ pc[t] # "next" => main = "join"
         /\ pc[t] \in {"push", "store", "inc"} => i[t] \notin Pushed /\ d_len \in Num
         /\ d_len \in Nat /\ d_cap \in Nat \ {0} /\ Lo(t) \in Nat /\ Lo(t + 1) \in Nat
<1>1. TypeOK /\ InBlock /\ Ended /\ Filled
  BY DEF Inv
<1>2. /\ pc \in [Thread -> {"next", "push", "store", "inc", "release", "malloc",
                            "read", "link", "again", "add_ptr", "end"}]
      /\ i \in [Thread -> 0..(THREADS * EACH)]
      /\ d_cap \in Nat \ {0} /\ d_len \in 0..d_cap
  BY <1>1, Zenon DEF TypeOK
<1>3. t \in Nat /\ Lo(t) \in Nat /\ Lo(t + 1) \in Nat /\ Lo(t + 1) <= Lo(THREADS)
  BY Types
<1>4. i \in [Thread -> 0..Lo(THREADS)] /\ Lo(THREADS) \in Nat
  BY <1>2, Types
<1>5. i[t] \in Nat /\ d_len \in Nat
  BY <1>2, <1>4
<1>6. ASSUME pc[t] # "next" PROVE i[t] \in Num /\ main = "join"
  <2>1. i[t] < Lo(t + 1)
    BY <1>1, <1>6 DEF InBlock
  <2>2. i[t] \in Num
    BY <1>3, <1>4, <1>5, <2>1, Types
  <2>3. main = "join"
    BY <1>1, <1>6 DEF Ended, Joined
  <2>. QED  BY <2>2, <2>3
<1>7. ASSUME pc[t] \in {"push", "store", "inc"} PROVE i[t] \notin Pushed /\ d_len \in Num
  <2>1. i[t] \in Num /\ i[t] \notin Pushed
    BY <1>1, <1>7, NotYet DEF Early
  <2>2. d_len \in Num
    BY <1>1, <2>1, RoomForOne, Zenon
  <2>. QED  BY <2>1, <2>2
<1>. QED  BY <1>2, <1>3, <1>4, <1>5, <1>6, <1>7

LEMMA BeginStep ==
  ASSUME Inv, NEW t \in Thread, Begin(t)
  PROVE  Inv'
<1>1. /\ pc[t] = "next" /\ pc' = [pc EXCEPT ![t] = "push"] /\ proc = "up"
      /\ i[t] < Lo(t + 1) /\ nums_mut = None /\ nums_mut' = t
      /\ UNCHANGED <<d_cap, d_len, d_arr, d_ptrs, data, mapped, ptrs, target, live,
                     ptrs_mut, i, seen, main, proc>>
  BY DEF Begin, LockNums, At, Go, Lo
<1>2. TypeOK'
  BY <1>1 DEF Inv, TypeOK
<1>3. Locks'
  BY <1>1, Facts, NobodyIn DEF Inv, Locks, InNums, InPtrs
<1>4. InBlock' /\ Room'
  BY <1>1, Facts DEF Inv, InBlock, Room
<1>5. Filled'
  BY <1>1, Facts, SamePushed, SameFilled DEF Inv, Early
<1>6. Block' /\ PointersLead' /\ Cleared' /\ Linking' /\ Ended'
  <2>1. Block'
    BY <1>1, Facts DEF Inv, Block
  <2>2. Ended'
    BY <1>1, Facts DEF Inv, Ended, Joined, Lo
  <2>. QED  BY <1>1, <2>1, <2>2, Facts DEF Inv, PointersLead, Cleared, Linking
<1>7. Owned'
  BY <1>1, Facts, SameOwned DEF Inv, InPtrs
<1>. QED  BY <1>2, <1>3, <1>4, <1>5, <1>6, <1>7 DEF Inv

LEMMA GrowStep ==
  ASSUME Inv, NEW t \in Thread, Grow(t)
  PROVE  Inv'
<1>. PICK new \in {1, 2} \ mapped : /\ target' = Grown(new)
                                    /\ mapped' = (mapped \cup {new}) \ {d_arr}
  BY DEF Grow
<1>1. /\ pc[t] = "push" /\ pc' = [pc EXCEPT ![t] = "store"] /\ proc = "up"
      /\ d_len = d_cap /\ d_arr' = 0 /\ d_cap' = 2 * d_cap
      /\ UNCHANGED <<d_len, d_ptrs, data, ptrs, live, nums_mut, ptrs_mut, i, seen,
                     main, proc>>
  BY DEF Grow, At, Go
<1>2. target' \in [Num -> (0..2) \X Nat]
  BY DEF Grown, Inv, TypeOK
<1>3. TypeOK'
  BY <1>1, <1>2, Facts DEF Inv, TypeOK
<1>4. Locks'
  BY <1>1, Facts DEF Inv, Locks, InNums, InPtrs
<1>5. InBlock' /\ Room'
  BY <1>1, Facts DEF Inv, InBlock, Room
<1>6. Filled'
  BY <1>1, Facts, SamePushed, SameFilled DEF Inv, Early
<1>7. d_arr # 0 /\ mapped = {d_arr} /\ mapped' = {new}
  <2>1. pc[t] \in InNums /\ main = "join"
    BY <1>1, Facts DEF InNums
  <2>2. \A u \in Thread : pc[u] # "store"
    BY <1>1, <2>1, AloneIn DEF Inv, InNums
  <2>3. d_arr # 0 /\ mapped = {d_arr}
    BY <1>1, <2>1, <2>2 DEF Inv, Block
  <2>. QED  BY <2>3
<1>8. Block'
  BY <1>1, Facts DEF Inv, Block
<1>9. PointersLead'
  <2>1. \A n \in d_ptrs : target'[n] = <<new, target[n][2]>>
    BY DEF Grown, Inv, TypeOK
  <2>. QED  BY <1>1, <1>7, <2>1 DEF Inv, PointersLead
<1>10. Cleared'
  BY <1>1 DEF Inv, Cleared, Grown
<1>11. Linking' /\ Ended'
  BY <1>1, Facts DEF Inv, Linking, Ended, Joined
<1>12. Owned'
  BY <1>1, Facts, SameOwned DEF Inv, InPtrs
<1>. QED  BY <1>3, <1>4, <1>5, <1>6, <1>8, <1>9, <1>10, <1>11, <1>12 DEF Inv

LEMMA StoreStep ==
  ASSUME Inv, NEW t \in Thread, Store(t)
  PROVE  Inv'
<1>1. /\ pc[t] \in {"push", "store"} /\ pc' = [pc EXCEPT ![t] = "inc"] /\ proc = "up"
      /\ pc[t] = "push" => d_len < d_cap
      /\ UNCHANGED <<d_cap, d_len, d_arr, d_ptrs, mapped, ptrs, target, live,
                     nums_mut, ptrs_mut, i, seen, main>>
      /\ IF d_arr = 0 THEN proc' = "crashed" /\ data' = data
                      ELSE data' = [data EXCEPT ![d_len] = i[t]] /\ proc' = proc
  BY DEF Store, At, Go
<1>2. i[t] \in Num /\ d_len \in Num /\ main = "join" /\ d_len < d_cap
  BY <1>1, Facts DEF Inv, Room
<1>3. /\ data \in [Num -> Num \cup {None}] /\ data' \in [Num -> Num \cup {None}]
      /\ proc' = "up" => data'[d_len] = i[t]
      /\ \A j \in 0..(d_len - 1) : data'[j] = data[j]
  <2>1. data \in [Num -> Num \cup {None}]
    BY DEF Inv, TypeOK
  <2>2. \A j \in 0..(d_len - 1) : j \in Num /\ j # d_len
    BY <1>2, Types
  <2>3. data' \in [Num -> Num \cup {None}]
    BY <1>1, <1>2, <2>1
  <2>4. proc' = "up" => data'[d_len] = i[t]
    BY <1>1, <1>2, <2>1
  <2>5. ASSUME NEW j \in 0..(d_len - 1) PROVE data'[j] = data[j]
    BY <1>1, <1>2, <2>1, <2>2
  <2>. QED  BY <2>1, <2>3, <2>4, <2>5
<1>4. TypeOK'
  BY <1>1, <1>3 DEF Inv, TypeOK
<1>5. Locks'
  BY <1>1, Facts DEF Inv, Locks, InNums, InPtrs
<1>6. InBlock'
  BY <1>1, Facts DEF Inv, InBlock
<1>7. Room'
  <2>1. \A u \in Thread \ {t} : pc'[u] = pc[u] /\ pc[u] \notin InNums
    BY <1>1, Facts, AloneIn DEF Inv, InNums
  <2>2. pc'[t] = "inc"
    BY <1>1, Facts
  <2>. QED  BY <1>1, <1>2, <1>3, <2>1, <2>2 DEF Room, InNums
<1>8. Filled'
  <2>1. Pushed' = Pushed
    BY <1>1, Facts, SamePushed DEF Early
  <2>. QED  BY <1>1, <1>3, <2>1 DEF Inv, Filled
<1>9. Block'
  <2>1. proc' = "up" => d_arr # 0
    BY <1>1
  <2>. QED  BY <1>1, <1>2, <2>1 DEF Inv, Block
<1>10. PointersLead' /\ Cleared' /\ Linking' /\ Ended'
  BY <1>1, <1>2, Facts DEF Inv, PointersLead, Cleared, Linking, Ended
<1>11. Owned'
  BY <1>1, Facts, SameOwned DEF Inv, InPtrs
<1>. QED  BY <1>4, <1>5, <1>6, <1>7, <1>8, <1>9, <1>10, <1>11 DEF Inv

LEMMA IncStep ==
  ASSUME Inv, NEW t \in Thread, Inc(t)
  PROVE  Inv'
<1>1. /\ pc[t] = "inc" /\ proc = "up" /\ d_len' = d_len + 1
      /\ pc' = [pc EXCEPT ![t] = pc'[t]] /\ pc'[t] \in {"release", "end"}
      /\ UNCHANGED <<d_cap, d_arr, d_ptrs, data, mapped, ptrs, target, live,
                     nums_mut, ptrs_mut, i, seen, main, proc>>
  BY Facts DEF Inc, At, Go
<1>2. /\ i[t] \in Num /\ i[t] \notin Pushed /\ d_len \in Num /\ d_len < d_cap
      /\ data[d_len] = i[t] /\ d_len \in Nat /\ d_cap \in Nat
  BY <1>1, Facts DEF Inv, Room
<1>3. TypeOK'
  <2>1. d_len' \in 0..d_cap'
    BY <1>1, <1>2
  <2>2. pc' \in [Thread -> {"next", "push", "store", "inc", "release", "malloc",
                            "read", "link", "again", "add_ptr", "end"}]
    BY <1>1, Facts
  <2>. QED  BY <1>1, <2>1, <2>2 DEF Inv, TypeOK
<1>4. Locks'
  BY <1>1, Facts DEF Inv, Locks, InNums, InPtrs
<1>5. InBlock'
  BY <1>1, Facts DEF Inv, InBlock
<1>6. Room'
  <2>1. \A u \in Thread \ {t} : pc'[u] = pc[u] /\ pc[u] \notin InNums
    BY <1>1, Facts, AloneIn DEF Inv, InNums
  <2>. QED  BY <1>1, <2>1 DEF Room, InNums
<1>7. Pushed' = Pushed \cup {i[t]}
  <2>1. ASSUME NEW n \in Num, NEW u \in Thread, u # t
        PROVE  pc'[u] = pc[u] /\ i'[u] = i[u]
    BY <1>1, <2>1, Facts
  <2>2. pc[t] \in Early /\ pc'[t] \notin Early /\ i'[t] = i[t]
    BY <1>1 DEF Early
  <2>3. Lo(t) <= i[t] /\ i[t] \in Nat
    BY Facts DEF Inv, InBlock
  <2>. QED  BY <1>2, <2>1, <2>2, <2>3 DEF Pushed
<1>8. Filled'
  <2>1. 0..(d_len' - 1) = 0..(d_len - 1) \cup {d_len}
    BY <1>1, <1>2
  <2>2. Filled
    BY DEF Inv
  <2>3. \A j \in 0..(d_len' - 1) : data'[j] \in Pushed'
    BY <1>1, <1>2, <1>7, <2>1, <2>2 DEF Filled
  <2>4. \A j, k \in 0..(d_len' - 1) : data'[j] = data'[k] => j = k
    BY <1>1, <1>2, <2>1, <2>2 DEF Filled
  <2>5. \A n \in Pushed' : \E j \in 0..(d_len' - 1) : data'[j] = n
    BY <1>1, <1>2, <1>7, <2>1, <2>2 DEF Filled
  <2>. QED  BY <2>3, <2>4, <2>5 DEF Filled
<1>9. Block'
  BY <1>1, Facts DEF Inv, Block
<1>10. PointersLead'
  <2>1. ASSUME NEW n \in d_ptrs PROVE target[n][2] \in Nat
    BY DEF Inv, TypeOK
  <2>. QED  BY <1>1, <1>2, <2>1 DEF Inv, PointersLead
<1>11. Cleared' /\ Linking' /\ Ended'
  BY <1>1, Facts DEF Inv, Cleared, Linking, Ended
<1>12. Owned'
  BY <1>1, Facts, SameOwned DEF Inv, InPtrs
<1>. QED  BY <1>3, <1>4, <1>5, <1>6, <1>8, <1>9, <1>10, <1>11, <1>12 DEF Inv

LEMMA ReleaseStep ==
  ASSUME Inv, NEW t \in Thread, Release(t)
  PROVE  Inv'
<1>1. /\ pc[t] = "release" /\ pc' = [pc EXCEPT ![t] = "malloc"] /\ proc = "up"
      /\ nums_mut' = None
      /\ UNCHANGED <<d_cap, d_len, d_arr, d_ptrs, data, mapped, ptrs, target, live,
                     ptrs_mut, i, seen, main, proc>>
  BY DEF Release, At, Go
<1>2. TypeOK'
  BY <1>1 DEF Inv, TypeOK
<1>3. Locks'
  <2>1. \A u \in Thread \ {t} : pc'[u] = pc[u] /\ pc[u] \notin InNums
    BY <1>1, Facts, AloneIn DEF Inv, InNums
  <2>. QED  BY <1>1, <2>1, Facts DEF Inv, Locks, InNums, InPtrs
<1>4. InBlock' /\ Room'
  BY <1>1, Facts DEF Inv, InBlock, Room
<1>5. Filled'
  BY <1>1, Facts, SamePushed, SameFilled DEF Inv, Early
<1>6. Block' /\ PointersLead' /\ Cleared' /\ Linking' /\ Ended'
  BY <1>1, Facts DEF Inv, Block, PointersLead, Cleared, Linking, Ended
<1>7. Owned'
  BY <1>1, Facts, SameOwned DEF Inv, InPtrs
<1>. QED  BY <1>2, <1>3, <1>4, <1>5, <1>6, <1>7 DEF Inv

LEMMA MallocStep ==
  ASSUME Inv, NEW t \in Thread, Malloc(t)
  PROVE  Inv'
<1>1. /\ pc[t] = "malloc" /\ pc' = [pc EXCEPT ![t] = "read"] /\ proc = "up"
      /\ ptrs_mut = None /\ ptrs_mut' = t /\ live' = live \cup {i[t]}
      /\ UNCHANGED <<d_cap, d_len, d_arr, d_ptrs, data, mapped, ptrs, target,
                     nums_mut, i, seen, main, proc>>
  BY DEF Malloc, At, Go
<1>2. i[t] \in Num /\ main = "join" /\ pc'[t] = "read"
  BY <1>1, Facts
<1>3. TypeOK'
  BY <1>1, <1>2 DEF Inv, TypeOK
<1>4. Locks'
  BY <1>1, Facts, NobodyIn DEF Inv, Locks, InNums, InPtrs
<1>5. InBlock' /\ Room'
  BY <1>1, Facts DEF Inv, InBlock, Room
<1>6. Filled'
  BY <1>1, Facts, SamePushed, SameFilled DEF Inv, Early
<1>7. Block' /\ PointersLead' /\ Cleared' /\ Linking' /\ Ended'
  BY <1>1, <1>2, Facts DEF Inv, Block, PointersLead, Cleared, Linking, Ended
<1>8. Owned'
  <2>1. \A u \in Thread : pc[u] \in InPtrs => pc'[u] \in InPtrs
    BY <1>1, Facts DEF InPtrs
  <2>. QED  BY <1>1, <1>2, <2>1 DEF Inv, Owned, InPtrs
<1>. QED  BY <1>3, <1>4, <1>5, <1>6, <1>7, <1>8 DEF Inv

LEMMA LinkReadStep ==
  ASSUME Inv, NEW t \in Thread, LinkRead(t)
  PROVE  Inv'
<1>1. /\ pc[t] = "read" /\ pc' = [pc EXCEPT ![t] = "link"] /\ proc = "up"
      /\ seen' = [seen EXCEPT ![t] = ptrs]
      /\ UNCHANGED <<d_cap, d_len, d_arr, d_ptrs, data, mapped, ptrs, target, live,
                     nums_mut, ptrs_mut, i, main, proc>>
  BY DEF LinkRead, At, Go
<1>2. TypeOK'
  BY <1>1 DEF Inv, TypeOK
<1>3. Locks'
  BY <1>1, Facts DEF Inv, Locks, InNums, InPtrs
<1>4. InBlock' /\ Room'
  BY <1>1, Facts DEF Inv, InBlock, Room
<1>5. Filled'
  BY <1>1, Facts, SamePushed, SameFilled DEF Inv, Early
<1>6. Block' /\ PointersLead' /\ Cleared' /\ Ended'
  BY <1>1, Facts DEF Inv, Block, PointersLead, Cleared, Ended
<1>7. Linking'
  <2>1. seen \in [Thread -> Seq(Num)]
    BY DEF Inv, TypeOK
  <2>. QED  BY <1>1, <2>1, Facts DEF Inv, Linking
<1>8. Owned'
  BY <1>1, Facts, SameOwned DEF Inv, InPtrs
<1>. QED  BY <1>2, <1>3, <1>4, <1>5, <1>6, <1>7, <1>8 DEF Inv

LEMMA LinkStep ==
  ASSUME Inv, NEW t \in Thread, Link(t)
  PROVE  Inv'
<1>1. /\ pc[t] = "link" /\ pc' = [pc EXCEPT ![t] = "again"] /\ proc = "up"
      /\ ptrs' = <<i[t]>> \o seen[t] /\ ptrs_mut' = None
      /\ UNCHANGED <<d_cap, d_len, d_arr, d_ptrs, data, mapped, target, live,
                     nums_mut, i, seen, main, proc>>
  BY DEF Link, At, Go
<1>2. i[t] \in Num /\ main = "join" /\ seen[t] = ptrs /\ ptrs \in Seq(Num)
  BY <1>1, Facts DEF Inv, Linking, TypeOK
<1>3. \A u \in Thread \ {t} : pc'[u] = pc[u] /\ pc[u] \notin InPtrs
  BY <1>1, Facts, AloneIn DEF Inv, InPtrs
<1>4. /\ ptrs' \in Seq(Num) /\ Len(ptrs') = Len(ptrs) + 1 /\ ptrs'[1] = i[t]
      /\ \A k \in 1..Len(ptrs) : ptrs'[k + 1] = ptrs[k]
      /\ Len(ptrs) \in Nat
  BY <1>1, <1>2
<1>5. TypeOK'
  BY <1>1, <1>4 DEF Inv, TypeOK
<1>6. Locks'
  BY <1>1, <1>3, Facts DEF Inv, Locks, InNums, InPtrs
<1>7. InBlock' /\ Room'
  BY <1>1, Facts DEF Inv, InBlock, Room
<1>8. Filled'
  BY <1>1, Facts, SamePushed, SameFilled DEF Inv, Early
<1>9. Block' /\ PointersLead' /\ Cleared' /\ Ended'
  BY <1>1, Facts DEF Inv, Block, PointersLead, Cleared, Ended
<1>10. Linking'
  BY <1>1, <1>3, Facts DEF Inv, Linking, InPtrs
<1>11. Owned'
  <2>1. ASSUME NEW n \in live
        PROVE  \E k \in 1..Len(ptrs') : ptrs'[k] = n
    <3>1. CASE n = i[t]
      BY <1>4, <3>1
    <3>2. CASE n # i[t]
      <4>1. PICK k \in 1..Len(ptrs) : ptrs[k] = n
        BY <1>3, <3>2 DEF Inv, Owned
      <4>2. k + 1 \in 1..Len(ptrs') /\ ptrs'[k + 1] = n
        BY <1>4, <4>1
      <4>. QED  BY <4>2
    <3>. QED  BY <3>1, <3>2
  <2>. QED  BY <1>1, <1>2, <2>1 DEF Owned
<1>. QED  BY <1>5, <1>6, <1>7, <1>8, <1>9, <1>10, <1>11 DEF Inv

LEMMA AgainStep ==
  ASSUME Inv, NEW t \in Thread, Again(t)
  PROVE  Inv'
<1>1. /\ pc[t] = "again" /\ pc' = [pc EXCEPT ![t] = "add_ptr"] /\ proc = "up"
      /\ nums_mut = None /\ nums_mut' = t
      /\ UNCHANGED <<d_cap, d_len, d_arr, d_ptrs, data, mapped, ptrs, target, live,
                     ptrs_mut, i, seen, main, proc>>
  BY DEF Again, LockNums, At, Go
<1>2. TypeOK'
  BY <1>1 DEF Inv, TypeOK
<1>3. Locks'
  BY <1>1, Facts, NobodyIn DEF Inv, Locks, InNums, InPtrs
<1>4. InBlock' /\ Room'
  BY <1>1, Facts DEF Inv, InBlock, Room
<1>5. Filled'
  BY <1>1, Facts, SamePushed, SameFilled DEF Inv, Early
<1>6. Block' /\ PointersLead' /\ Cleared' /\ Linking' /\ Ended'
  BY <1>1, Facts DEF Inv, Block, PointersLead, Cleared, Linking, Ended
<1>7. Owned'
  BY <1>1, Facts, SameOwned DEF Inv, InPtrs
<1>. QED  BY <1>2, <1>3, <1>4, <1>5, <1>6, <1>7 DEF Inv

LEMMA AddPtrStep ==
  ASSUME Inv, NEW t \in Thread, AddPtr(t)
  PROVE  Inv'
<1>. PICK r \in 0..(d_len - 1) : target' = [target EXCEPT ![i[t]] = <<d_arr, r>>]
  BY DEF AddPtr
<1>1. /\ pc[t] = "add_ptr" /\ pc' = [pc EXCEPT ![t] = "end"] /\ proc = "up"
      /\ d_ptrs' = d_ptrs \cup {i[t]}
      /\ UNCHANGED <<d_cap, d_len, d_arr, data, mapped, ptrs, live,
                     nums_mut, ptrs_mut, i, seen, main, proc>>
  BY DEF AddPtr, At, Go
<1>2. /\ i[t] \in Num /\ main = "join" /\ i[t] \in live /\ r \in Nat /\ r < d_len
      /\ d_arr \in 0..2 /\ target \in [Num -> (0..2) \X Nat]
  BY <1>1, Facts DEF Inv, Linking, TypeOK
<1>3. d_arr \in mapped
  <2>1. \A u \in Thread : pc[u] # "store"
    BY <1>1, AloneIn DEF Inv, InNums
  <2>. QED  BY <1>1, <1>2, <2>1 DEF Inv, Block
<1>4. target' \in [Num -> (0..2) \X Nat]
  BY <1>2
<1>5. TypeOK'
  BY <1>1, <1>2, <1>4 DEF Inv, TypeOK
<1>6. Locks'
  BY <1>1, Facts DEF Inv, Locks, InNums, InPtrs
<1>7. InBlock' /\ Room'
  BY <1>1, Facts DEF Inv, InBlock, Room
<1>8. Filled'
  BY <1>1, Facts, SamePushed, SameFilled DEF Inv, Early
<1>9. Block' /\ Linking' /\ Ended'
  BY <1>1, <1>2, Facts DEF Inv, Block, Linking, Ended
<1>10. PointersLead'
  <2>1. ASSUME NEW n \in d_ptrs' PROVE target'[n][1] \in mapped /\ target'[n][2] < d_len
    <3>1. CASE n = i[t]
      BY <1>2, <1>3, <3>1
    <3>2. CASE n # i[t]
      <4>1. n \in d_ptrs /\ n \in Num
        BY <1>1, <3>2 DEF Inv, TypeOK
      <4>. QED  BY <1>1, <1>2, <3>2, <4>1 DEF Inv, PointersLead
    <3>. QED  BY <3>1, <3>2
  <2>. QED  BY <1>1, <1>2, <2>1 DEF Inv, PointersLead
<1>11. Cleared'
  BY <1>1, <1>2 DEF Inv, Cleared
<1>12. Owned'
  BY <1>1, Facts, SameOwned DEF Inv, InPtrs
<1>. QED  BY <1>5, <1>6, <1>7, <1>8, <1>9, <1>10, <1>11, <1>12 DEF Inv

LEMMA EndStep ==
  ASSUME Inv, NEW t \in Thread, End(t)
  PROVE  Inv'
<1>1. /\ pc[t] = "end" /\ pc' = [pc EXCEPT ![t] = "next"] /\ proc = "up"
      /\ nums_mut' = None /\ i' = [i EXCEPT ![t] = i[t] + 1]
      /\ UNCHANGED <<d_cap, d_len, d_arr, d_ptrs, data, mapped, ptrs, target, live,
                     ptrs_mut, seen, main, proc>>
  BY DEF End, At, Go
<1>2. /\ i[t] \in Nat /\ Lo(t) <= i[t] /\ i[t] < Lo(t + 1) /\ Lo(t + 1) <= Lo(THREADS)
      /\ Lo(t) \in Nat /\ Lo(t + 1) \in Nat /\ Lo(THREADS) \in Nat /\ main = "join"
  BY <1>1, Facts, Types DEF Inv, InBlock
<1>3. \A u \in Thread \ {t} : pc'[u] = pc[u] /\ pc[u] \notin InNums /\ i'[u] = i[u]
  BY <1>1, Facts, AloneIn DEF Inv, InNums
<1>4. pc'[t] = "next" /\ i'[t] = i[t] + 1
  BY <1>1, Facts
<1>5. TypeOK'
  <2>1. i' \in [Thread -> 0..Lo(THREADS)]
    BY <1>1, <1>2, Facts
  <2>. QED  BY <1>1, <2>1, Types DEF Inv, TypeOK
<1>6. Locks'
  BY <1>1, <1>3, <1>4 DEF Inv, Locks, InNums, InPtrs
<1>7. InBlock'
  BY <1>2, <1>3, <1>4 DEF Inv, InBlock
<1>8. Room'
  BY <1>1, <1>3, <1>4 DEF Inv, Room
<1>9. Pushed' = Pushed
  <2>1. pc[t] \notin Early /\ pc'[t] \in Early
    BY <1>1, <1>4 DEF Early
  <2>2. \A n \in Num : n \in Nat /\ (n < i[t] + 1 <=> n < i[t] \/ n = i[t])
    BY <1>2, Types
  <2>. QED  BY <1>3, <1>4, <2>1, <2>2 DEF Pushed
<1>10. Filled'
  BY <1>1, <1>9, SameFilled DEF Inv
<1>11. Block' /\ PointersLead' /\ Cleared' /\ Linking' /\ Ended'
  BY <1>1, <1>2, <1>3, <1>4 DEF Inv, Block, PointersLead, Cleared, Linking, Ended
<1>12. Owned'
  BY <1>1, <1>3, <1>4 DEF Inv, Owned, InPtrs
<1>. QED  BY <1>5, <1>6, <1>7, <1>8, <1>10, <1>11, <1>12 DEF Inv

LEMMA DiesStep ==
  ASSUME Inv, NEW t \in Thread, Dies(t)
  PROVE  Inv'
<1>1. /\ proc' = "down"
      /\ UNCHANGED <<d_cap, d_len, d_arr, d_ptrs, data, mapped, ptrs, target, live,
                     nums_mut, ptrs_mut, pc, i, seen, main>>
  BY DEF Dies
<1>2. Filled'
  BY <1>1, SamePushed, SameFilled DEF Inv
<1>3. TypeOK' /\ Locks' /\ InBlock' /\ Room'
  BY <1>1 DEF Inv, TypeOK, Locks, InBlock, Room
<1>4. Block' /\ PointersLead' /\ Cleared' /\ Linking' /\ Owned' /\ Ended'
  BY <1>1 DEF Inv, Block, PointersLead, Cleared, Linking, Owned, Ended, Joined
<1>. QED  BY <1>2, <1>3, <1>4 DEF Inv

LEMMA FreeStep ==
  ASSUME Inv, Free
  PROVE  Inv'
<1>1. /\ proc = "up" /\ main = "join" /\ Joined /\ d_ptrs' = {} /\ d_arr' = 0
      /\ mapped' = mapped \ {d_arr} /\ main' = "ptrs_free"
      /\ target' = [n \in Num |-> IF n \in d_ptrs THEN NULL ELSE target[n]]
      /\ UNCHANGED <<d_cap, d_len, data, ptrs, live, nums_mut, ptrs_mut, pc, i, seen, proc>>
  BY DEF Free
<1>2. \A t \in Thread : pc[t] = "next"
  BY <1>1 DEF Joined
<1>3. mapped' = {}
  BY <1>1, <1>2 DEF Inv, Block
<1>4. TypeOK'
  <2>1. target' \in [Num -> (0..2) \X Nat]
    BY <1>1 DEF Inv, TypeOK, NULL
  <2>. QED  BY <1>1, <1>3, <2>1 DEF Inv, TypeOK
<1>5. Filled'
  BY <1>1, SamePushed, SameFilled DEF Inv
<1>6. Locks' /\ InBlock' /\ Room' /\ Linking' /\ Owned'
  BY <1>1, <1>2 DEF Inv, Locks, InBlock, Room, Linking, Owned, InNums, InPtrs
<1>7. Block' /\ PointersLead' /\ Cleared' /\ Ended'
  BY <1>1, <1>3 DEF Inv, Block, PointersLead, Cleared, Ended, Joined
<1>. QED  BY <1>4, <1>5, <1>6, <1>7 DEF Inv

LEMMA PtrsFreeStep ==
  ASSUME Inv, PtrsFree
  PROVE  Inv'
<1>1. /\ proc = "up" /\ main = "ptrs_free" /\ main' = "done"
      /\ live' = live \ {ptrs[k] : k \in 1..Len(ptrs)}
      /\ UNCHANGED <<d_cap, d_len, d_arr, d_ptrs, data, mapped, ptrs, target,
                     nums_mut, ptrs_mut, pc, i, seen, proc>>
  BY DEF PtrsFree
<1>2. Joined /\ \A t \in Thread : pc[t] = "next"
  BY <1>1 DEF Inv, Ended, Joined
<1>3. live' = {} /\ mapped = {} /\ d_ptrs = {}
  BY <1>1, <1>2 DEF Inv, Owned, Block, InPtrs
<1>4. Filled'
  BY <1>1, SamePushed, SameFilled DEF Inv
<1>5. TypeOK'
  BY <1>1, <1>3 DEF Inv, TypeOK
<1>6. Locks' /\ InBlock' /\ Room' /\ Linking' /\ Owned'
  BY <1>1, <1>2, <1>3 DEF Inv, Locks, InBlock, Room, Linking, Owned, InNums, InPtrs
<1>7. Block' /\ PointersLead' /\ Cleared' /\ Ended'
  BY <1>1, <1>2, <1>3 DEF Inv, Block, PointersLead, Cleared, Ended, Joined
<1>. QED  BY <1>4, <1>5, <1>6, <1>7 DEF Inv

LEMMA StutterStep ==
  ASSUME Inv, UNCHANGED vars
  PROVE  Inv'
<1>1. Filled'
  BY SamePushed, SameFilled DEF Inv, vars, tvars
<1>2. TypeOK' /\ Locks' /\ InBlock' /\ Room'
  BY DEF vars, tvars, Inv, TypeOK, Locks, InBlock, Room
<1>3. Block' /\ PointersLead' /\ Cleared' /\ Linking' /\ Owned' /\ Ended'
  BY DEF vars, tvars, Inv, Block, PointersLead, Cleared, Linking, Owned, Ended, Joined
<1>. QED  BY <1>1, <1>2, <1>3 DEF Inv

-----------------------------------------------------------------------------
\* every reachable state satisfies the invariant
LEMMA Invariance == Spec => []Inv
<1>1. Init => Inv
  BY InitInv
<1>2. ASSUME Inv, [Next]_vars PROVE Inv'
  <2>1. ASSUME NEW t \in Thread, Worker(t) PROVE Inv'
    BY <1>2, <2>1, BeginStep, GrowStep, StoreStep, IncStep, ReleaseStep, MallocStep,
       LinkReadStep, LinkStep, AgainStep, AddPtrStep, EndStep, Zenon DEF Worker
  <2>2. ASSUME NEW t \in Thread, Dies(t) PROVE Inv'
    BY <1>2, <2>2, DiesStep, Zenon
  <2>3. ASSUME Free PROVE Inv'
    BY <1>2, <2>3, FreeStep, Zenon
  <2>4. ASSUME PtrsFree PROVE Inv'
    BY <1>2, <2>4, PtrsFreeStep, Zenon
  <2>5. ASSUME UNCHANGED vars PROVE Inv'
    BY <1>2, <2>5, StutterStep, Zenon
  <2>. QED  BY <1>2, <2>1, <2>2, <2>3, <2>4, <2>5, Zenon DEF Next
<1>. QED  BY <1>1, <1>2, PTL DEF Spec

(* The variables keep their types; the length of the array never passes its *)
(* capacity, which intarr_push() relies on when it stores without a check. *)
THEOREM TypeCorrect == Spec => []TypeOK
<1>1. Inv => TypeOK
  BY DEF Inv
<1>. QED  BY <1>1, Invariance, PTL

(* However the threads interleave and the array grows, when main() has joined *)
(* them the array holds all their numbers, each once.                        *)
THEOREM NoPushLost == Spec => []NothingOverwritten
<1>1. Inv => NothingOverwritten
  <2>. SUFFICES ASSUME Inv, Joined PROVE /\ d_len = Cardinality(Num)
                                        /\ {data[j] : j \in 0..(d_len - 1)} = Num
    BY DEF NothingOverwritten
  <2>1. Pushed = Num
    <3>1. ASSUME NEW n \in Num PROVE n \in Pushed
      <4>1. PICK t \in Thread : Lo(t) <= n /\ n < Lo(t + 1)
        BY Covered
      <4>2. i[t] = Lo(t + 1)
        BY DEF Joined, Lo
      <4>. QED  BY <4>1, <4>2 DEF Pushed
    <3>. QED  BY <3>1 DEF Pushed
  <2>2. d_len = Cardinality(Num)
    BY <2>1, Counted DEF Inv
  <2>3. {data[j] : j \in 0..(d_len - 1)} = Num
    BY <2>1 DEF Inv, Filled
  <2>. QED  BY <2>2, <2>3
<1>. QED  BY <1>1, Invariance, PTL

(* The pointers that the array keeps lead into a mapped block, below its     *)
(* length, and lie in structs that are not freed: intarr_grow() moves every *)
(* one of them, whichever thread grows the array.                           *)
THEOREM PointersFollow == Spec => []PointersLead
<1>1. Inv => PointersLead
  BY DEF Inv
<1>. QED  BY <1>1, Invariance, PTL

(* When main() is done no struct, no block and no pointer is left: no thread *)
(* loses a struct that another links at the same time.                      *)
THEOREM NothingLeft == Spec => []AllReturned
<1>1. Inv => AllReturned
  <2>. SUFFICES ASSUME Inv, main = "done" PROVE live = {} /\ mapped = {} /\ \A n \in Num : target[n] = NULL
    BY DEF AllReturned
  <2>1. live = {} /\ mapped = {} /\ d_ptrs = {}
    BY DEF Inv, Owned, Block
  <2>. QED  BY <2>1 DEF Inv, Cleared
<1>. QED  BY <1>1, Invariance, PTL
=============================================================================
