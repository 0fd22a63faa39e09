-------------------------------- MODULE Darr --------------------------------
(***************************************************************************)
(* The dynamic array of ideas/dynarr/main.c and the program around it:     *)
(* threads push numbers into one array under nums_mut; for every even      *)
(* number a thread makes a struct ptr, links it into the list `ptrs' under *)
(* ptrs_mut, and has the array keep its pointer to a random element up to  *)
(* date (intarr_add_ptr).  main() joins the threads, frees the array, which *)
(* clears the pointers, and then the structs.                              *)
(*                                                                         *)
(* A pointer is a block of memory and an index.  A push, and the linking of *)
(* a struct, take several steps, as their reads and writes do.             *)
(***************************************************************************)
EXTENDS Naturals, Sequences, FiniteSets

CONSTANTS THREADS,     \* NR_THREADS, 32 in the build
          EACH,        \* numbers per thread
          Caps         \* initial capacities (DARR_CAP_INIT, 2^30 in the build)

ASSUME DarrAssumption ==
  /\ THREADS \in Nat \ {0} /\ EACH \in Nat
  /\ Caps \subseteq Nat \ {0}

Thread == 0..(THREADS - 1)
Num    == 0..(THREADS * EACH - 1)
NULL   == <<0, 0>>                  \* the null pointer; block 0 is not mapped
None   == THREADS                   \* no thread

VARIABLES d_cap, d_len,
          d_arr,       \* the block the array lies in, 0 for NULL
          d_ptrs,      \* the structs whose pointers the array keeps
          data,        \* the elements of the array, by index
          mapped,      \* the blocks that mmap() gave and munmap() did not take
          ptrs,        \* the list of structs, from its head
          target,      \* per struct, its pointer p
          live,        \* the structs that malloc() gave and free() did not take
          nums_mut, ptrs_mut,       \* their holders, or None
          pc, i,       \* per thread, where it is and its number
          seen,        \* per thread, the list it read of ptrs
          main,        \* where main() is
          proc         \* "up"; "down" behind die(); "crashed"

tvars == <<nums_mut, ptrs_mut, pc, i, seen, main, proc>>
vars  == <<d_cap, d_len, d_arr, d_ptrs, data, mapped, ptrs, target, live, tvars>>

\* intarr_init() has run and the threads are created
Init ==
  /\ d_cap \in Caps /\ d_len = 0 /\ d_arr = 1 /\ d_ptrs = {}
  /\ data = [j \in Num |-> None] /\ mapped = {1}
  /\ ptrs = <<>> /\ target = [n \in Num |-> NULL] /\ live = {}
  /\ nums_mut = None /\ ptrs_mut = None
  /\ pc = [t \in Thread |-> "next"]
  /\ i = [t \in Thread |-> t * EACH]
  /\ seen = [t \in Thread |-> <<>>]
  /\ main = "join" /\ proc = "up"

At(t, where) == proc = "up" /\ pc[t] = where
Go(t, where) == pc' = [pc EXCEPT ![t] = where]
Even(n) == n % 2 = 0

-----------------------------------------------------------------------------
\* mutant: nums_mut is not waited for
LockNumsUnguarded(t) ==
  /\ nums_mut' = t
  /\ UNCHANGED <<d_cap, d_len, d_arr, d_ptrs, data, mapped, ptrs, target, live,
                 ptrs_mut, i, seen, main, proc>>

LockNums(t) ==
  /\ nums_mut = None
  /\ nums_mut' = t
  /\ UNCHANGED <<d_cap, d_len, d_arr, d_ptrs, data, mapped, ptrs, target, live,
                 ptrs_mut, i, seen, main, proc>>

\* workerbee(): the next number, if there is one; add_num() takes nums_mut
Begin(t) ==
  /\ At(t, "next") /\ i[t] < (t + 1) * EACH
  /\ LockNums(t) /\ Go(t, "push")

\* mutant: the pointers stay where they are
GrownUnmoved(new) == target

\* intarr_grow() moves the pointers it keeps into the new block
Grown(new) ==
  [n \in Num |-> IF n \in d_ptrs THEN <<new, target[n][2]>> ELSE target[n]]

\* intarr_push() of a full array: intarr_grow(), which at its end sets d_arr
\* to a local that is still NULL, not to the new block
Grow(t) ==
  /\ At(t, "push") /\ d_len = d_cap
  /\ \E new \in {1, 2} \ mapped :
       /\ target' = Grown(new)
       /\ mapped' = (mapped \cup {new}) \ {d_arr}
  /\ d_arr' = 0 /\ d_cap' = 2 * d_cap
  /\ Go(t, "store")
  /\ UNCHANGED <<d_len, d_ptrs, data, ptrs, live, nums_mut, ptrs_mut, i, seen,
                 main, proc>>

\* mmap() or malloc() failed: die()
Dies(t) ==
  /\ \/ At(t, "push") /\ d_len = d_cap
     \/ At(t, "malloc")
     \/ At(t, "add_ptr")
  /\ proc' = "down"
  /\ UNCHANGED <<d_cap, d_len, d_arr, d_ptrs, data, mapped, ptrs, target, live,
                 nums_mut, ptrs_mut, pc, i, seen, main>>

\* intarr_push(): the store; through NULL it ends the process
Store(t) ==
  /\ At(t, "store") \/ (At(t, "push") /\ d_len < d_cap)
  /\ IF d_arr = 0
       THEN proc' = "crashed" /\ UNCHANGED data
       ELSE data' = [data EXCEPT ![d_len] = i[t]] /\ UNCHANGED proc
  /\ Go(t, "inc")
  /\ UNCHANGED <<d_cap, d_len, d_arr, d_ptrs, mapped, ptrs, target, live,
                 nums_mut, ptrs_mut, i, seen, main>>

Inc(t) ==
  /\ At(t, "inc")
  /\ d_len' = d_len + 1
  /\ Go(t, IF Even(i[t]) THEN "release" ELSE "end")
  /\ UNCHANGED <<d_cap, d_arr, d_ptrs, data, mapped, ptrs, target, live,
                 nums_mut, ptrs_mut, i, seen, main, proc>>

\* add_num() of an even number: nums_mut is let go for the time being
Release(t) ==
  /\ At(t, "release")
  /\ nums_mut' = None
  /\ Go(t, "malloc")
  /\ UNCHANGED <<d_cap, d_len, d_arr, d_ptrs, data, mapped, ptrs, target, live,
                 ptrs_mut, i, seen, main, proc>>

\* mutant: ptrs_mut is not waited for
MallocUnguarded(t) ==
  /\ At(t, "malloc")
  /\ live' = live \cup {i[t]}
  /\ ptrs_mut' = t
  /\ Go(t, "read")
  /\ UNCHANGED <<d_cap, d_len, d_arr, d_ptrs, data, mapped, ptrs, target,
                 nums_mut, i, seen, main, proc>>

\* malloc() of the struct, and the lock of ptrs_mut
Malloc(t) ==
  /\ At(t, "malloc")
  /\ ptrs_mut = None
  /\ live' = live \cup {i[t]}
  /\ ptrs_mut' = t
  /\ Go(t, "read")
  /\ UNCHANGED <<d_cap, d_len, d_arr, d_ptrs, data, mapped, ptrs, target,
                 nums_mut, i, seen, main, proc>>

\* p->next = ptrs
LinkRead(t) ==
  /\ At(t, "read")
  /\ seen' = [seen EXCEPT ![t] = ptrs]
  /\ Go(t, "link")
  /\ UNCHANGED <<d_cap, d_len, d_arr, d_ptrs, data, mapped, ptrs, target, live,
                 nums_mut, ptrs_mut, i, main, proc>>

\* ptrs = p, and the unlock
Link(t) ==
  /\ At(t, "link")
  /\ ptrs' = <<i[t]>> \o seen[t]
  /\ ptrs_mut' = None
  /\ Go(t, "again")
  /\ UNCHANGED <<d_cap, d_len, d_arr, d_ptrs, data, mapped, target, live,
                 nums_mut, i, seen, main, proc>>

\* nums_mut is taken a second time
Again(t) ==
  /\ At(t, "again")
  /\ LockNums(t) /\ Go(t, "add_ptr")

\* p->p = &nums.d_arr[r] of a random r, and intarr_add_ptr()
AddPtr(t) ==
  /\ At(t, "add_ptr")
  /\ \E r \in 0..(d_len - 1) : target' = [target EXCEPT ![i[t]] = <<d_arr, r>>]
  /\ d_ptrs' = d_ptrs \cup {i[t]}
  /\ Go(t, "end")
  /\ UNCHANGED <<d_cap, d_len, d_arr, data, mapped, ptrs, live,
                 nums_mut, ptrs_mut, i, seen, main, proc>>

\* mutant: nums_mut is only given back when a pointer was added
EndKeepsMutex(t) ==
  /\ At(t, "end")
  /\ nums_mut' = IF Even(i[t]) THEN None ELSE nums_mut
  /\ i' = [i EXCEPT ![t] = @ + 1]
  /\ Go(t, "next")
  /\ UNCHANGED <<d_cap, d_len, d_arr, d_ptrs, data, mapped, ptrs, target, live,
                 ptrs_mut, seen, main, proc>>

\* add_num() returns
End(t) ==
  /\ At(t, "end")
  /\ nums_mut' = None
  /\ i' = [i EXCEPT ![t] = @ + 1]
  /\ Go(t, "next")
  /\ UNCHANGED <<d_cap, d_len, d_arr, d_ptrs, data, mapped, ptrs, target, live,
                 ptrs_mut, seen, main, proc>>

Worker(t) == \/ Begin(t) \/ Grow(t) \/ Store(t) \/ Inc(t) \/ Release(t)
             \/ Malloc(t) \/ LinkRead(t) \/ Link(t) \/ Again(t) \/ AddPtr(t)
             \/ End(t)

-----------------------------------------------------------------------------
Joined == \A t \in Thread : pc[t] = "next" /\ i[t] = (t + 1) * EACH

\* mutant: main() does not wait for the threads
FreeUnjoined ==
  /\ proc = "up" /\ main = "join"
  /\ target' = [n \in Num |-> IF n \in d_ptrs THEN NULL ELSE target[n]]
  /\ d_ptrs' = {}
  /\ mapped' = mapped \ {d_arr} /\ d_arr' = 0
  /\ main' = "ptrs_free"
  /\ UNCHANGED <<d_cap, d_len, data, ptrs, live, nums_mut, ptrs_mut, pc, i, seen,
                 proc>>

\* main(): all threads are joined; intarr_free() clears the pointers it keeps
Free ==
  /\ proc = "up" /\ main = "join"
  /\ Joined
  /\ target' = [n \in Num |-> IF n \in d_ptrs THEN NULL ELSE target[n]]
  /\ d_ptrs' = {}
  /\ mapped' = mapped \ {d_arr} /\ d_arr' = 0
  /\ main' = "ptrs_free"
  /\ UNCHANGED <<d_cap, d_len, data, ptrs, live, nums_mut, ptrs_mut, pc, i, seen,
                 proc>>

\* ptrs_free(), and the end of main()
PtrsFree ==
  /\ proc = "up" /\ main = "ptrs_free"
  /\ live' = live \ {ptrs[k] : k \in 1..Len(ptrs)}
  /\ main' = "done"
  /\ UNCHANGED <<d_cap, d_len, d_arr, d_ptrs, data, mapped, ptrs, target,
                 nums_mut, ptrs_mut, pc, i, seen, proc>>

Next == (\E t \in Thread : Worker(t) \/ Dies(t)) \/ Free \/ PtrsFree

\* the scheduler runs every thread that can run
Spec == /\ Init /\ [][Next]_vars
        /\ \A t \in Thread : WF_vars(Worker(t))
        /\ WF_vars(Free \/ PtrsFree)

-----------------------------------------------------------------------------
\* the type invariant
TypeOK ==
  /\ d_cap \in Nat \ {0} /\ d_len \in 0..d_cap /\ d_arr \in 0..2
  /\ d_ptrs \subseteq Num /\ live \subseteq Num /\ mapped \subseteq {1, 2}
  /\ data \in [Num -> Num \cup {None}]
  /\ ptrs \in Seq(Num) /\ seen \in [Thread -> Seq(Num)]
  /\ target \in [Num -> (0..2) \X Nat]
  /\ {nums_mut, ptrs_mut} \subseteq Thread \cup {None}
  /\ pc \in [Thread -> {"next", "push", "store", "inc", "release", "malloc",
                        "read", "link", "again", "add_ptr", "end"}]
  /\ i \in [Thread -> 0..(THREADS * EACH)]
  /\ main \in {"join", "ptrs_free", "done"}
  /\ proc \in {"up", "down", "crashed"}

\* the pushes of all threads are in the array, each once, when they are joined:
\* no push overwrites another although add_num() lets the mutex go in between
NothingOverwritten ==
  Joined => /\ d_len = Cardinality(Num)
            /\ {data[j] : j \in 0..(d_len - 1)} = Num

\* the pointers that the array keeps lead to elements of a block that is still
\* mapped, also across a growth that happens while their owner is elsewhere;
\* and the structs they are in are not freed before the array is done with
\* them: neither intarr_grow() nor intarr_free() writes through a freed one
PointersLead ==
  /\ proc = "up" =>
       \A n \in d_ptrs : target[n][1] \in mapped /\ target[n][2] < d_len
  /\ d_ptrs \subseteq live

\* when main() is done every struct is freed, and nobody is left with a pointer
\* into the array
AllReturned ==
  main = "done" => live = {} /\ mapped = {} /\ \A n \in Num : target[n] = NULL

\* the threads, with two mutexes between them, and main() come to their end
Terminates == <>(main = "done" \/ proc # "up")
=============================================================================
