-------------------------------- MODULE Dstr --------------------------------
(***************************************************************************)
(* struct dstr of lib/include/dstr.h and its operations, lib/src/dstr.c: a *)
(* NUL-terminated string kept in the struct itself (d_short) until it      *)
(* outgrows it, then in a heap block that doubles.                         *)
(*                                                                         *)
(* A block of memory is a function from its indices to bytes; Junk is a    *)
(* byte that realloc returned and nobody has written yet.                  *)
(***************************************************************************)
EXTENDS Naturals, Sequences

CONSTANTS Char,        \* the characters callers push
          NUL,         \* '\0'; a Char only where a run says so
          Junk,        \* an uninitialised byte
          SHORT,       \* DSTR_SHORT_SIZE (31 in the build)
          DBUG,        \* TRUE: the build in which dbug() and OK() check
          MaxLen,      \* bound: longest string a caller builds
          MaxGiven     \* bound: strings moved out and not yet freed

ASSUME DstrAssumption ==
  /\ SHORT \in Nat \ {0}
  /\ MaxLen \in Nat
  /\ MaxGiven \in Nat
  /\ DBUG \in BOOLEAN
  /\ Junk \notin Char \cup {NUL}

Byte == Char \cup {NUL}
NULL == [i \in {} |-> Junk]      \* the null pointer: a block without bytes

VARIABLES d_cap, d_len,
          d_cur,       \* which block d_cur points to: "short", "heap" or "null"
          d_heap,      \* the heap block or NULL
          d_short,     \* the block inside the struct
          out,         \* what the last dstr_move returned
          given,       \* blocks moved out that their callers still own
          allocs,      \* the allocator's live blocks
          proc,        \* "up", or "down" once die() or dbug() has exited
          pushed,      \* history: the characters pushed since the last reset
          asked        \* history: what pushed was when out was returned

dvars == <<d_cap, d_len, d_cur, d_heap, d_short>>
vars  == <<dvars, out, given, allocs, proc, pushed, asked>>

Zeroed == [i \in 0..SHORT |-> NUL]

\* dstr_init(), which dstr_clear() and dstr_move() end with
DstrInit ==
  /\ d_heap' = NULL
  /\ d_cur' = "short"
  /\ d_len' = 0
  /\ d_cap' = SHORT
  /\ d_short' = Zeroed
  /\ pushed' = <<>>

Init ==
  /\ d_heap = NULL /\ d_cur = "short" /\ d_len = 0 /\ d_cap = SHORT
  /\ d_short = Zeroed
  /\ out = NULL /\ given = 0 /\ allocs = 0 /\ proc = "up"
  /\ pushed = <<>> /\ asked = <<>>

Live == proc = "up" /\ d_cur # "null"

Held(p) == IF p = NULL THEN 0 ELSE 1        \* blocks that p owns

-----------------------------------------------------------------------------
\* strcpy() stops behind the first NUL of its source
Strcpied(i) == i <= SHORT /\ \A j \in 0..SHORT : j < i => d_short[j] # NUL

\* mutant: a second growth copies nothing
GrownForgetting ==
  [i \in 0..(2 * d_cap) |->
     IF d_cur = "short" /\ Strcpied(i) THEN d_short[i] ELSE Junk]

\* the block dstr_grow() leaves in d_heap: realloc keeps what the old block
\* had, and the short string is copied into a block that had none
Grown ==
  [i \in 0..(2 * d_cap) |->
     IF d_cur = "short"
       THEN IF Strcpied(i) THEN d_short[i] ELSE Junk
       ELSE IF i <= d_cap THEN d_heap[i] ELSE Junk]

\* mutant: the terminator is not stored
StoredUnterminated(block, c) == [block EXCEPT ![d_len] = c]

\* the two stores that end dstr_push()
Stored(block, c) == [block EXCEPT ![d_len] = c, ![d_len + 1] = NUL]

\* mutant: the doubled capacity is not recorded, so the block is outgrown
GrowingForgetsCap(c) ==
  /\ d_heap' = Stored(Grown, c)
  /\ d_cur' = "heap"
  /\ allocs' = allocs + (1 - Held(d_heap))
  /\ UNCHANGED <<d_short, d_cap>>

PushGrowing(c) ==
  /\ d_heap' = Stored(Grown, c)
  /\ d_cur' = "heap"
  /\ d_cap' = 2 * d_cap
  /\ allocs' = allocs + (1 - Held(d_heap))
  /\ UNCHANGED d_short

PushInPlace(c) ==
  /\ IF d_cur = "short"
       THEN d_short' = Stored(d_short, c) /\ UNCHANGED d_heap
       ELSE d_heap' = Stored(d_heap, c) /\ UNCHANGED d_short
  /\ UNCHANGED <<d_cap, d_cur, allocs>>

Push(c) ==
  /\ Live
  /\ d_len < MaxLen
  /\ IF d_len = d_cap THEN PushGrowing(c) ELSE PushInPlace(c)
  /\ d_len' = d_len + 1
  /\ pushed' = Append(pushed, c)
  /\ UNCHANGED <<out, given, proc, asked>>

\* dstr_push() when realloc() returns NULL: die()
PushDies ==
  /\ Live
  /\ d_len < MaxLen
  /\ d_len = d_cap
  /\ proc' = "down"
  /\ UNCHANGED <<dvars, out, given, allocs, pushed, asked>>

\* mutant: the heap block is not freed
ClearLeaking ==
  /\ Live
  /\ DstrInit
  /\ UNCHANGED <<out, given, allocs, proc, asked>>

Clear ==
  /\ Live
  /\ allocs' = allocs - Held(d_heap)
  /\ DstrInit
  /\ UNCHANGED <<out, given, proc, asked>>

\* mutant: the string is handed over and kept
MoveKeeping ==
  /\ Live
  /\ d_cur = "heap"
  /\ given < MaxGiven
  /\ out' = d_heap
  /\ asked' = pushed
  /\ given' = given + 1
  /\ UNCHANGED <<dvars, allocs, proc, pushed>>

\* in a DBUG build moving a short string exits; in the other build it returns
\* d_heap, which is NULL then
Move ==
  /\ Live
  /\ given < MaxGiven
  /\ IF DBUG /\ d_cur = "short"
       THEN /\ proc' = "down"
            /\ UNCHANGED <<dvars, out, given, pushed, asked>>
       ELSE /\ out' = d_heap
            /\ asked' = pushed
            /\ given' = given + Held(d_heap)
            /\ DstrInit
            /\ UNCHANGED proc
  /\ UNCHANGED allocs

\* free() by a caller of a string it was given
Release ==
  /\ proc = "up"
  /\ given > 0
  /\ given' = given - 1
  /\ allocs' = allocs - 1
  /\ UNCHANGED <<dvars, out, proc, pushed, asked>>

\* dstr_free(): ZERO_P leaves a struct of zeros
Free ==
  /\ Live
  /\ allocs' = allocs - Held(d_heap)
  /\ d_heap' = NULL /\ d_cur' = "null" /\ d_len' = 0 /\ d_cap' = 0
  /\ d_short' = Zeroed /\ pushed' = <<>>
  /\ UNCHANGED <<out, given, proc, asked>>

\* dstr_init() of a struct that dstr_free() zeroed
Reinit ==
  /\ proc = "up"
  /\ d_cur = "null"
  /\ DstrInit
  /\ UNCHANGED <<out, given, allocs, proc, asked>>

Next == (\E c \in Char : Push(c)) \/ PushDies \/ Clear \/ Move \/ Release
          \/ Free \/ Reinit

Spec == Init /\ [][Next]_vars

-----------------------------------------------------------------------------
Block(cap) == [0..cap -> Byte \cup {Junk}]

\* the type invariant: the state of dstr.h's struct and of its callers
TypeOK ==
  /\ d_cap \in Nat /\ d_len \in Nat
  /\ d_cur \in {"short", "heap", "null"}
  /\ d_heap = NULL \/ d_heap \in Block(d_cap)
  /\ d_short \in [0..SHORT -> Byte]
  /\ given \in 0..MaxGiven /\ allocs \in Nat
  /\ proc \in {"up", "down"}
  /\ pushed \in Seq(Char) /\ asked \in Seq(Char)

Cur == IF d_cur = "short" THEN d_short ELSE d_heap

\* what dstr_ok() (dstr.c:41) asks of a string at the entry of every operation:
\* a terminator within the capacity, and a heap block exactly when the string
\* has outgrown the struct
DstrOk ==
  d_cur # "null" =>
    /\ d_cap # 0 /\ d_len <= d_cap
    /\ Cur[d_len] = NUL
    /\ IF d_len <= SHORT
         THEN d_cur = "short" /\ d_heap = NULL
         ELSE d_cur = "heap" /\ d_heap # NULL

\* "add character onto end of string" (dstr.h:45): through every growth the
\* string holds the characters pushed since it was last reset, in their order
ContentsOk ==
  /\ Len(pushed) = d_len
  /\ \A i \in 1..d_len : Cur[i - 1] = pushed[i]

\* every live block has exactly one owner: the string, or a caller that moved
\* it out; clear, free and growth drop none
NoLeak == allocs = Held(d_heap) + given

\* the characters a caller sees behind a char pointer
CString(block) ==
  LET n == CHOOSE n \in DOMAIN block :
             block[n] = NUL /\ \A j \in DOMAIN block : j < n => block[j] # NUL
  IN  [i \in 1..n |-> block[i - 1]]

Contents == [i \in 1..d_len |-> Cur[i - 1]]

S == INSTANCE Str WITH str   <- Contents,
                       moved <- IF out = NULL THEN <<>> ELSE CString(out),
                       open  <- (d_cur # "null")

\* the string implements its abstract specification: growth, the switch from
\* the struct to the heap and back are invisible to callers, and the pointer
\* that dstr_move() returned has the whole string behind it (dstr.h:71-77)
ImplementsStr == S!Spec

=============================================================================
