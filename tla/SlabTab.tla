------------------------------ MODULE SlabTab ------------------------------
(***************************************************************************)
(* One entry of the slab table of ideas/slab: the free stack of slab.h,    *)
(* guarded by the entry's mutex and condition variable in slab_tab.c, used *)
(* by several threads after slab_tab_init().                               *)
(*                                                                         *)
(* slab_tab_get() works under the mutex.  slab_tab_put() takes no lock: it *)
(* updates the stack and signals beside whatever the others are doing, so  *)
(* each access to memory is a step of its own here.  `*sp->fp++ = *pp` is a *)
(* read of fp and two stores the compiler may order either way.            *)
(***************************************************************************)
EXTENDS Naturals, FiniteSets

CONSTANTS Thread,
          SIZE,              \* objects in the slab (AST_STR_SLAB_SIZE, 256)
          None,              \* no thread, no object
          Disciplines        \* how callers may coordinate their calls, see MayPut

ASSUME SlabTabAssumption ==
  /\ Thread # {} /\ IsFiniteSet(Thread)
  /\ SIZE \in Nat \ {0}
  /\ Disciplines \subseteq {"any", "phased", "serial"}
  /\ None \notin Thread /\ None \notin 0..SIZE

Obj  == 0..(SIZE - 1)                         \* the pool
Slot == 0..(SIZE - 1)

VARIABLES disc,        \* the callers' discipline, which never changes
          free,        \* the stack's array: which object each slot points to
          fp,          \* its stack pointer, as an index
          mut,         \* the thread that holds ste_mut, or None
          waiters,     \* the threads asleep on ste_cond
          pc,          \* where each thread is, see the actions
          reg,         \* what it read of fp
          obj,         \* the object of its call
          got          \* the objects it got and has not put

slab_vars == <<free, fp, mut, waiters, pc, reg, obj, got>>
slab_allvars == <<disc, slab_vars>>

\* slab_tab_init() has run
SlabInit ==
  /\ disc \in Disciplines
  /\ free = [i \in Slot |-> i] /\ fp = SIZE
  /\ mut = None /\ waiters = {}
  /\ pc = [t \in Thread |-> "idle"]
  /\ reg = [t \in Thread |-> 0]
  /\ obj = [t \in Thread |-> None]
  /\ got = [t \in Thread |-> {}]

GetPcs == {"lock", "test", "block", "wait", "read", "dec", "load", "unlock"}
PutPcs == {"put", "both", "step", "store", "signal"}

Go(t, where) == pc' = [pc EXCEPT ![t] = where]

-----------------------------------------------------------------------------
(* The callers.  "any": they call when they like.  "phased": nobody puts     *)
(* while another thread is in a call, nobody calls while another puts, as    *)
(* in a program that frees after it has joined its threads.  "serial": the   *)
(* same, but threads may be asleep in a get, where a spurious wakeup would   *)
(* bring them into the put: it is not taken then.                            *)
MayPut(t) ==
  \A u \in Thread \ {t} :
    \/ disc = "any"
    \/ pc[u] = "idle"
    \/ disc = "serial" /\ u \in waiters
MayGet(t) == disc = "any" \/ \A u \in Thread : pc[u] \notin PutPcs

GetCall(t) ==
  /\ pc[t] = "idle" /\ MayGet(t)
  /\ Go(t, "lock")
  /\ UNCHANGED <<free, fp, mut, waiters, reg, obj, got>>

PutCall(t) ==
  /\ pc[t] = "idle" /\ MayPut(t)
  /\ \E o \in got[t] :
       /\ obj' = [obj EXCEPT ![t] = o]
       /\ got' = [got EXCEPT ![t] = @ \ {o}]
  /\ Go(t, "put")
  /\ UNCHANGED <<free, fp, mut, waiters, reg>>

-----------------------------------------------------------------------------
(* slab_tab_get() *)

\* mutant: COND_WAIT tests the slab only once
LockTestsOnce(t) ==
  /\ pc[t] = "lock" \/ (pc[t] = "wait" /\ t \notin waiters)
  /\ mut = None
  /\ mut' = t
  /\ Go(t, IF pc[t] = "wait" THEN "read" ELSE "test")
  /\ UNCHANGED <<free, fp, waiters, reg, obj, got>>

\* mutant: the mutex is not waited for
LockUnguarded(t) ==
  /\ pc[t] = "lock" \/ (pc[t] = "wait" /\ t \notin waiters)
  /\ mut' = t
  /\ Go(t, "test")
  /\ UNCHANGED <<free, fp, waiters, reg, obj, got>>

\* COND_WAIT: MUTEX_LOCK, and the mutex that pthread_cond_wait() takes again
Lock(t) ==
  /\ pc[t] = "lock" \/ (pc[t] = "wait" /\ t \notin waiters)
  /\ mut = None
  /\ mut' = t
  /\ Go(t, "test")
  /\ UNCHANGED <<free, fp, waiters, reg, obj, got>>

\* while (s_empty(sp))
Test(t) ==
  /\ pc[t] = "test"
  /\ Go(t, IF fp = 0 THEN "block" ELSE "read")
  /\ UNCHANGED <<free, fp, mut, waiters, reg, obj, got>>

\* pthread_cond_wait(): to sleep and to unlock are one step
Block(t) ==
  /\ pc[t] = "block"
  /\ mut' = None
  /\ waiters' = waiters \cup {t}
  /\ Go(t, "wait")
  /\ UNCHANGED <<free, fp, reg, obj, got>>

\* `*--sp->fp` reads fp, writes it back and reads the slot
Read(t) ==
  /\ pc[t] = "read"
  /\ reg' = [reg EXCEPT ![t] = fp]
  /\ Go(t, "dec")
  /\ UNCHANGED <<free, fp, mut, waiters, obj, got>>

Dec(t) ==
  /\ pc[t] = "dec"
  /\ fp' = reg[t] - 1
  /\ Go(t, "load")
  /\ UNCHANGED <<free, mut, waiters, reg, obj, got>>

Load(t) ==
  /\ pc[t] = "load"
  /\ obj' = [obj EXCEPT ![t] = free[reg[t] - 1]]
  /\ Go(t, "unlock")
  /\ UNCHANGED <<free, fp, mut, waiters, reg, got>>

\* MUTEX_UNLOCK and the return: the caller has the object
Unlock(t) ==
  /\ pc[t] = "unlock"
  /\ mut' = None
  /\ got' = [got EXCEPT ![t] = @ \cup {obj[t]}]
  /\ Go(t, "idle")
  /\ UNCHANGED <<free, fp, waiters, reg, obj>>

-----------------------------------------------------------------------------
(* slab_tab_put() *)
PutRead(t) ==
  /\ pc[t] = "put"
  /\ reg' = [reg EXCEPT ![t] = fp]
  /\ Go(t, "both")
  /\ UNCHANGED <<free, fp, mut, waiters, obj, got>>

\* mutant: fp is not stepped
PutInPlace(t) ==
  /\ pc[t] \in {"both", "step"}
  /\ Go(t, IF pc[t] = "both" THEN "store" ELSE "signal")
  /\ UNCHANGED <<free, fp, mut, waiters, reg, obj, got>>

PutStep(t) ==
  /\ pc[t] \in {"both", "step"}
  /\ fp' = reg[t] + 1
  /\ Go(t, IF pc[t] = "both" THEN "store" ELSE "signal")
  /\ UNCHANGED <<free, mut, waiters, reg, obj, got>>

\* bound: a store behind the array, which overwrites fp itself, is not taken
PutStore(t) ==
  /\ pc[t] \in {"both", "store"}
  /\ reg[t] < SIZE
  /\ free' = [free EXCEPT ![reg[t]] = obj[t]]
  /\ Go(t, IF pc[t] = "both" THEN "step" ELSE "signal")
  /\ UNCHANGED <<fp, mut, waiters, reg, obj, got>>

\* mutant: a put signals nobody
SignalNobody(t) ==
  /\ pc[t] = "signal"
  /\ Go(t, "idle")
  /\ UNCHANGED <<free, fp, mut, waiters, reg, obj, got>>

\* COND_SIGNAL wakes one of the sleepers, if there is one
Signal(t) ==
  /\ pc[t] = "signal"
  /\ IF waiters = {} THEN UNCHANGED waiters
     ELSE \E u \in waiters : waiters' = waiters \ {u}
  /\ Go(t, "idle")
  /\ UNCHANGED <<free, fp, mut, reg, obj, got>>

-----------------------------------------------------------------------------
\* a sleeper that nobody signalled wakes up, as POSIX allows
WakeSpuriously(t) ==
  /\ disc # "serial"
  /\ t \in waiters
  /\ waiters' = waiters \ {t}
  /\ UNCHANGED <<free, fp, mut, pc, reg, obj, got>>

Step(t) == \/ Lock(t) \/ Test(t) \/ Block(t) \/ Read(t) \/ Dec(t) \/ Load(t)
           \/ Unlock(t) \/ PutRead(t) \/ PutStep(t) \/ PutStore(t) \/ Signal(t)

SlabNext == /\ \E t \in Thread : \/ GetCall(t) \/ PutCall(t) \/ Step(t)
                             \/ WakeSpuriously(t)
        /\ UNCHANGED disc

\* the scheduler runs every thread that can run; callers may never call again
SlabSpec == SlabInit /\ [][SlabNext]_slab_allvars /\ \A t \in Thread : WF_slab_vars(Step(t))

-----------------------------------------------------------------------------
\* the type invariant: fp stays inside the array
SlabTypeOK ==
  /\ disc \in Disciplines
  /\ free \in [Slot -> Obj] /\ fp \in 0..SIZE
  /\ mut \in Thread \cup {None} /\ waiters \subseteq Thread
  /\ pc \in [Thread -> {"idle"} \cup GetPcs \cup PutPcs]
  /\ reg \in [Thread -> 0..SIZE]
  /\ obj \in [Thread -> Obj \cup {None}]
  /\ got \in [Thread -> SUBSET Obj]

\* the objects a thread can use, also while its call returns or starts
Mine(t) == got[t] \cup (IF pc[t] \in {"unlock", "put", "both", "step", "store"}
                           THEN {obj[t]} ELSE {})

\* two threads never have the same object
NoDoubleHandout ==
  \A t, u \in Thread : t # u => Mine(t) \cap Mine(u) = {}

Quiet == \A t \in Thread : pc[t] = "idle" \/ t \in waiters

\* between calls every object is on the stack, once, or with one thread: the
\* slab neither loses nor duplicates one over any sequence of gets and puts
Conserved ==
  Quiet =>
    /\ \A i, j \in 0..(fp - 1) : free[i] = free[j] => i = j
    /\ {free[i] : i \in 0..(fp - 1)} = Obj \ UNION {got[t] : t \in Thread}

\* full_check() (slab_tab.c:64-73) at exit: when all objects were put back the
\* slab is full
FullOnExit ==
  (\A t \in Thread : pc[t] = "idle" /\ got[t] = {}) => fp = SIZE

\* no signal is lost: an object that is put while threads sleep is taken, or
\* they are woken
Wanted == waiters # {} /\ fp > 0
WantedIsServed == Wanted ~> ~Wanted
=============================================================================
