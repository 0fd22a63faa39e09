----------------------------- MODULE DstrProofs -----------------------------
(***************************************************************************)
(* Proofs about Dstr, for every short-string size, every character set and *)
(* every bound.                                                            *)
(***************************************************************************)
EXTENDS Dstr, TLAPS

\* what dstr_ok() asks, strengthened until it is inductive: a string in the
\* struct has the struct's capacity and no block, a string on the heap has
\* outgrown the struct, and a freed string has nothing
Shape ==
  /\ d_cur = "null"  => d_heap = NULL /\ d_len = 0
  /\ d_cur = "short" => d_heap = NULL /\ d_cap = SHORT /\ d_len <= SHORT
  /\ d_cur = "heap"  => d_heap \in Block(d_cap) /\ SHORT < d_len /\ d_len <= d_cap
  /\ d_cur # "null"  => Cur[d_len] = NUL

Inv == TypeOK /\ Shape /\ NoLeak

\* a block that has a byte is not the null pointer
LEMMA BlockNotNull ==
  ASSUME NEW cap \in Nat, NEW block \in Block(cap)
  PROVE  block # NULL
<1>1. 0 \in DOMAIN block
  BY DEF Block
<1>2. DOMAIN NULL = {}
  BY DEF NULL
<1>. QED  BY <1>1, <1>2

\* a zeroed struct is typed, and terminated at its first byte
LEMMA ZeroedOk == Zeroed \in [0..SHORT -> Byte] /\ Zeroed[0] = NUL
BY DstrAssumption DEF Zeroed, Byte

LEMMA InitInv == Init => Inv
BY DstrAssumption, ZeroedOk DEF Init, Inv, TypeOK, Shape, NoLeak, Cur, Held

LEMMA StepInv == Inv /\ [Next]_vars => Inv'
<1>. SUFFICES ASSUME Inv, [Next]_vars PROVE Inv'
  OBVIOUS
<1>. USE DstrAssumption
<1>1. ASSUME NEW c \in Char, Push(c) PROVE Inv'
  <2>. USE <1>1 DEF Inv
  <2>1. CASE d_len = d_cap
    <3>. USE <2>1
    <3>1. Grown \in Block(2 * d_cap)
      <4>1. SUFFICES ASSUME NEW i \in 0..(2 * d_cap)
                     PROVE  Grown[i] \in Byte \cup {Junk}
        BY DEF Grown, Block
      <4>2. CASE d_cur = "short"
        BY <4>2 DEF Grown, Strcpied, TypeOK
      <4>3. CASE d_cur # "short"
        <5>1. d_heap \in [0..d_cap -> Byte \cup {Junk}] /\ d_cap \in Nat
          BY <4>3 DEF TypeOK, Shape, Push, Live, Block
        <5>. QED  BY <4>3, <5>1 DEF Grown
      <4>. QED  BY <4>2, <4>3
    <3>2. d_len + 1 \in 0..(2 * d_cap)
      BY DEF TypeOK, Shape, Push, Live
    <3>3. /\ Stored(Grown, c) \in Block(2 * d_cap)
          /\ Stored(Grown, c)[d_len + 1] = NUL
      BY <3>1, <3>2 DEF Stored, Block, Byte, TypeOK
    <3>4. /\ d_heap' = Stored(Grown, c) /\ d_cur' = "heap" /\ d_cap' = 2 * d_cap
          /\ d_len' = d_len + 1 /\ pushed' = Append(pushed, c)
          /\ allocs' = allocs + (1 - Held(d_heap))
          /\ UNCHANGED <<d_short, out, given, proc, asked>>
      BY DEF Push, PushGrowing
    <3>5. d_heap' # NULL
      BY <3>3, <3>4, BlockNotNull DEF TypeOK
    <3>6. TypeOK'
      BY <3>3, <3>4 DEF TypeOK, NoLeak, Held
    <3>7. Shape'
      BY <3>2, <3>3, <3>4 DEF TypeOK, Shape, Cur, Push, Live
    <3>8. NoLeak'
      BY <3>4, <3>5 DEF TypeOK, NoLeak, Held
    <3>. QED  BY <3>6, <3>7, <3>8
  <2>2. CASE d_len # d_cap /\ d_cur = "short"
    <3>. USE <2>2
    <3>1. d_len + 1 \in 0..SHORT
      BY DEF TypeOK, Shape
    <3>2. /\ Stored(d_short, c) \in [0..SHORT -> Byte]
          /\ Stored(d_short, c)[d_len + 1] = NUL
      BY <3>1 DEF Stored, TypeOK, Byte
    <3>3. /\ d_short' = Stored(d_short, c) /\ d_len' = d_len + 1
          /\ pushed' = Append(pushed, c)
          /\ UNCHANGED <<d_heap, d_cap, d_cur, allocs, out, given, proc, asked>>
      BY DEF Push, PushInPlace
    <3>. QED  BY <3>1, <3>2, <3>3 DEF TypeOK, Shape, NoLeak, Cur, Held
  <2>3. CASE d_len # d_cap /\ d_cur # "short"
    <3>. USE <2>3
    <3>1. d_cur = "heap" /\ d_heap \in Block(d_cap) /\ d_len + 1 \in 0..d_cap
      BY DEF TypeOK, Shape, Push, Live
    <3>2. /\ Stored(d_heap, c) \in Block(d_cap)
          /\ Stored(d_heap, c)[d_len + 1] = NUL
      BY <3>1 DEF Stored, Block, TypeOK, Byte
    <3>3. /\ d_heap' = Stored(d_heap, c) /\ d_len' = d_len + 1
          /\ pushed' = Append(pushed, c)
          /\ UNCHANGED <<d_short, d_cap, d_cur, allocs, out, given, proc, asked>>
      BY DEF Push, PushInPlace
    <3>4. d_heap # NULL /\ d_heap' # NULL
      BY <3>1, <3>2, <3>3, BlockNotNull DEF TypeOK
    <3>. QED  BY <3>1, <3>2, <3>3, <3>4 DEF TypeOK, Shape, NoLeak, Cur, Held
  <2>. QED  BY <2>1, <2>2, <2>3
<1>2. CASE PushDies
  BY <1>2 DEF PushDies, dvars, Inv, TypeOK, Shape, NoLeak, Cur, Held
<1>3. CASE Clear
  BY <1>3, ZeroedOk DEF Clear, DstrInit, Inv, TypeOK, Shape, NoLeak, Cur, Held
<1>4. CASE Move
  <2>1. CASE DBUG /\ d_cur = "short"
    BY <1>4, <2>1 DEF Move, dvars, Inv, TypeOK, Shape, NoLeak, Cur, Held
  <2>2. CASE ~(DBUG /\ d_cur = "short")
    <3>1. /\ given < MaxGiven /\ given' = given + Held(d_heap)
          /\ asked' = pushed /\ DstrInit /\ UNCHANGED <<proc, allocs>>
      BY <1>4, <2>2 DEF Move
    <3>2. TypeOK'
      <4>1. Held(d_heap) \in {0, 1}
        BY DEF Held
      <4>2. given' \in 0..MaxGiven
        BY <3>1, <4>1 DEF Inv, TypeOK
      <4>. QED  BY <3>1, <4>2, ZeroedOk DEF DstrInit, Inv, TypeOK
    <3>3. Shape'
      BY <3>1, ZeroedOk DEF DstrInit, Shape, Cur
    <3>4. NoLeak'
      BY <3>1 DEF DstrInit, Inv, TypeOK, NoLeak, Held
    <3>. QED  BY <3>2, <3>3, <3>4 DEF Inv
  <2>. QED  BY <2>1, <2>2
<1>5. CASE Release
  BY <1>5 DEF Release, dvars, Inv, TypeOK, Shape, NoLeak, Cur, Held
<1>6. CASE Free
  BY <1>6, ZeroedOk DEF Free, Inv, TypeOK, Shape, NoLeak, Cur, Held
<1>7. CASE Reinit
  BY <1>7, ZeroedOk DEF Reinit, DstrInit, Inv, TypeOK, Shape, NoLeak, Cur, Held
<1>8. CASE UNCHANGED vars
  BY <1>8 DEF vars, dvars, Inv, TypeOK, Shape, NoLeak, Cur, Held
<1>. QED  BY <1>1, <1>2, <1>3, <1>4, <1>5, <1>6, <1>7, <1>8 DEF Next

\* dstr_ok(), the sizes behind it and the owners of blocks hold in every state
THEOREM Invariance == Spec => []Inv
<1>. QED  BY InitInv, StepInv, PTL DEF Spec

\* the struct, its callers and the allocator keep their types
THEOREM TypeCorrect == Spec => []TypeOK
<1>1. Inv => TypeOK
  BY DEF Inv
<1>. QED  BY <1>1, Invariance, PTL

\* at every operation dstr_ok() (dstr.c:41) finds the string in order: the
\* capacity is never exceeded and the terminator is in place
THEOREM DstrIsOk == Spec => []DstrOk
<1>1. Inv => DstrOk
  <2>. SUFFICES ASSUME Inv, d_cur # "null"
                PROVE  /\ d_cap # 0 /\ d_len <= d_cap /\ Cur[d_len] = NUL
                       /\ IF d_len <= SHORT
                            THEN d_cur = "short" /\ d_heap = NULL
                            ELSE d_cur = "heap" /\ d_heap # NULL
    BY DEF DstrOk
  <2>1. d_cur = "heap" => d_heap # NULL
    BY BlockNotNull DEF Inv, TypeOK, Shape
  <2>. QED  BY <2>1, DstrAssumption DEF Inv, TypeOK, Shape
<1>. QED  BY <1>1, Invariance, PTL

\* no operation of dstr.c leaks the heap block or frees it twice
THEOREM NothingLeaks == Spec => []NoLeak
<1>1. Inv => NoLeak
  BY DEF Inv
<1>. QED  BY <1>1, Invariance, PTL

-----------------------------------------------------------------------------
(* What the string holds.  dstr_grow() copies with strcpy(), so this needs   *)
(* callers that push no NUL.                                                 *)

\* strcpy() copies all of a struct that is full of characters
LEMMA StrcpyOk ==
  ASSUME Inv, ContentsOk, NUL \notin Char, d_cur = "short", d_len = SHORT,
         NEW i \in 0..SHORT
  PROVE  Strcpied(i)
<1>1. \A j \in 0..SHORT : j < i => d_short[j] = pushed[j + 1] /\ pushed[j + 1] \in Char
  <2>. SUFFICES ASSUME NEW j \in 0..SHORT, j < i
                PROVE  d_short[j] = pushed[j + 1] /\ pushed[j + 1] \in Char
    OBVIOUS
  <2>1. j + 1 \in 1..d_len /\ (j + 1) - 1 = j
    BY DstrAssumption
  <2>. QED  BY <2>1 DEF Inv, TypeOK, ContentsOk, Cur
<1>. QED  BY <1>1, DstrAssumption DEF Strcpied

LEMMA ContentsStep ==
  ASSUME NUL \notin Char
  PROVE  Inv /\ ContentsOk /\ [Next]_vars => ContentsOk'
<1>. SUFFICES ASSUME Inv, ContentsOk, [Next]_vars PROVE ContentsOk'
  OBVIOUS
<1>. USE DstrAssumption
<1>1. ASSUME NEW c \in Char, Push(c) PROVE ContentsOk'
  <2>1. /\ d_len' = d_len + 1 /\ pushed' = Append(pushed, c)
        /\ d_len \in Nat /\ pushed \in Seq(Char) /\ Len(pushed) = d_len
    BY <1>1 DEF Push, Inv, TypeOK, ContentsOk
  <2>2. /\ Len(pushed') = d_len'
        /\ pushed'[d_len + 1] = c
        /\ \A i \in 1..d_len : pushed'[i] = pushed[i]
    BY <2>1
  <2>3. Cur'[d_len] = c /\ \A i \in 0..(d_len - 1) : Cur'[i] = Cur[i]
    <3>1. CASE d_len = d_cap
      <4>1. Cur' = Stored(Grown, c)
        BY <1>1, <3>1 DEF Push, PushGrowing, Cur
      <4>2. d_len + 1 \in 0..(2 * d_cap)
        BY <1>1, <3>1 DEF Push, Live, Inv, TypeOK, Shape
      <4>3. Cur'[d_len] = c /\ \A i \in 0..(d_len - 1) : Cur'[i] = Grown[i]
        <5>1. DOMAIN Grown = 0..(2 * d_cap) /\ d_cap \in Nat
          BY DEF Grown, Inv, TypeOK
        <5>. QED  BY <5>1, <2>1, <4>1, <4>2 DEF Stored
      <4>4. \A i \in 0..(d_len - 1) : Grown[i] = Cur[i]
        <5>1. CASE d_cur = "short"
          <6>1. d_cap = SHORT /\ d_len = SHORT
            BY <5>1, <3>1 DEF Inv, Shape
          <6>2. \A i \in 0..SHORT : Strcpied(i)
            BY <5>1, <6>1, StrcpyOk
          <6>. QED  BY <5>1, <6>1, <6>2, <2>1 DEF Grown, Cur
        <5>2. CASE d_cur # "short"
          BY <5>2, <3>1, <2>1 DEF Grown, Cur
        <5>. QED  BY <5>1, <5>2
      <4>. QED  BY <4>3, <4>4
    <3>2. CASE d_len # d_cap /\ d_cur = "short"
      <4>1. Cur = d_short /\ Cur' = Stored(d_short, c)
        BY <1>1, <3>2 DEF Push, PushInPlace, Cur
      <4>2. d_short \in [0..SHORT -> Byte] /\ d_len + 1 \in 0..SHORT
        BY <3>2 DEF Inv, TypeOK, Shape
      <4>. QED  BY <4>1, <4>2, <2>1 DEF Stored
    <3>3. CASE d_len # d_cap /\ d_cur # "short"
      <4>1. Cur = d_heap /\ Cur' = Stored(d_heap, c)
        BY <1>1, <3>3 DEF Push, PushInPlace, Cur
      <4>2. /\ d_heap \in [0..d_cap -> Byte \cup {Junk}]
            /\ d_cap \in Nat /\ d_len + 1 \in 0..d_cap
        BY <1>1, <3>3 DEF Push, Live, Inv, TypeOK, Shape, Block
      <4>. QED  BY <4>1, <4>2, <2>1 DEF Stored
    <3>. QED  BY <3>1, <3>2, <3>3
  <2>4. \A i \in 1..(d_len + 1) : Cur'[i - 1] = pushed'[i]
    <3>. SUFFICES ASSUME NEW i \in 1..(d_len + 1) PROVE Cur'[i - 1] = pushed'[i]
      OBVIOUS
    <3>1. CASE i = d_len + 1
      BY <3>1, <2>1, <2>2, <2>3
    <3>2. CASE i # d_len + 1
      <4>1. i \in 1..d_len /\ i - 1 \in 0..(d_len - 1)
        BY <3>2, <2>1
      <4>. QED  BY <4>1, <2>2, <2>3 DEF ContentsOk
    <3>. QED  BY <3>1, <3>2
  <2>. QED  BY <2>1, <2>2, <2>4 DEF ContentsOk
<1>2. ASSUME DstrInit PROVE ContentsOk'
  BY <1>2 DEF DstrInit, ContentsOk
<1>3. ASSUME UNCHANGED <<dvars, pushed>> PROVE ContentsOk'
  BY <1>3 DEF dvars, ContentsOk, Cur
<1>4. CASE Free
  BY <1>4 DEF Free, ContentsOk
<1>5. CASE Move
  BY <1>5, <1>2, <1>3 DEF Move
<1>6. CASE PushDies \/ Release \/ UNCHANGED vars
  BY <1>6, <1>3 DEF PushDies, Release, vars
<1>7. CASE Clear \/ Reinit
  BY <1>7, <1>2 DEF Clear, Reinit
<1>. QED  BY <1>1, <1>4, <1>5, <1>6, <1>7 DEF Next

\* the string holds what was pushed, whatever it grew through
THEOREM ContentsAreKept ==
  ASSUME NUL \notin Char
  PROVE  Spec => []ContentsOk
<1>1. Init => ContentsOk
  BY DEF Init, ContentsOk
<1>. QED  BY <1>1, Invariance, ContentsStep, PTL DEF Spec

-----------------------------------------------------------------------------
(* The refinement of Str, in the build where dstr_move() refuses a short     *)
(* string.                                                                   *)

LEMMA ContentsArePushed == Inv /\ ContentsOk => Contents = pushed
<1>. SUFFICES ASSUME Inv, ContentsOk PROVE Contents = pushed
  OBVIOUS
<1>1. pushed \in Seq(Char) /\ Len(pushed) = d_len /\ d_len \in Nat
  BY DEF Inv, TypeOK, ContentsOk
<1>2. pushed = [i \in 1..d_len |-> pushed[i]]
  BY <1>1
<1>3. \A i \in 1..d_len : Cur[i - 1] = pushed[i]
  BY DEF ContentsOk
<1>. QED  BY <1>2, <1>3 DEF Contents

LEMMA ContentsArePushedNext ==
  Inv' /\ ContentsOk' => Contents' = pushed'
<1>1. (Inv /\ ContentsOk => Contents = pushed)'
  BY ContentsArePushed, PTL
<1>. QED  BY <1>1

\* read as a C string, the current block is the string
LEMMA CurIsCString ==
  ASSUME Inv, ContentsOk, NUL \notin Char, d_cur # "null"
  PROVE  CString(Cur) = Contents
<1>1. /\ DOMAIN Cur = 0..(IF d_cur = "short" THEN SHORT ELSE d_cap)
      /\ d_len \in DOMAIN Cur /\ d_len \in Nat /\ d_cap \in Nat /\ SHORT \in Nat
      /\ Cur[d_len] = NUL
  BY DstrAssumption DEF Inv, TypeOK, Shape, Cur, Block
<1>2. \A j \in 0..(d_len - 1) : Cur[j] # NUL
  <2>. SUFFICES ASSUME NEW j \in 0..(d_len - 1) PROVE Cur[j] # NUL
    OBVIOUS
  <2>1. j + 1 \in 1..d_len /\ (j + 1) - 1 = j
    BY <1>1
  <2>2. Cur[j] = pushed[j + 1]
    BY <2>1, <1>1 DEF ContentsOk
  <2>3. pushed[j + 1] \in Char
    BY <2>1, <1>1 DEF Inv, TypeOK, ContentsOk
  <2>. QED  BY <2>2, <2>3
<1>. DEFINE End(n) == /\ Cur[n] = NUL
                      /\ \A j \in DOMAIN Cur : j < n => Cur[j] # NUL
<1>3. d_len \in DOMAIN Cur /\ End(d_len)
  BY <1>1, <1>2
<1>4. \A n \in DOMAIN Cur : End(n) => n = d_len
  BY <1>1, <1>2, <1>3
<1>5. (CHOOSE n \in DOMAIN Cur : End(n)) = d_len
  <2>. HIDE DEF End
  <2>. QED  BY <1>3, <1>4
<1>. QED  BY <1>5 DEF CString, Contents

LEMMA HeapIsCString ==
  ASSUME Inv, ContentsOk, NUL \notin Char, d_cur = "heap"
  PROVE  d_heap # NULL /\ CString(d_heap) = Contents
BY CurIsCString, BlockNotNull DEF Inv, TypeOK, Shape, Cur

LEMMA RefinementStep ==
  ASSUME NUL \notin Char, DBUG = TRUE
  PROVE  /\ Inv /\ Inv' /\ ContentsOk /\ ContentsOk' /\ [Next]_vars
         => [S!Next]_(S!vars)
<1>. SUFFICES ASSUME Inv, Inv', ContentsOk, ContentsOk', [Next]_vars
              PROVE  [S!Next]_(S!vars)
  OBVIOUS
<1>. DEFINE Moved == IF out = NULL THEN <<>> ELSE CString(out)
<1>1. Contents = pushed /\ Contents' = pushed'
  BY ContentsArePushed, ContentsArePushedNext
<1>2. ASSUME NEW c \in Char, Push(c) PROVE S!Push(c)
  BY <1>1, <1>2 DEF Push, PushGrowing, PushInPlace, Live, S!Push
<1>3. ASSUME Clear PROVE S!Clear
  BY <1>1, <1>3 DEF Clear, DstrInit, Live, S!Clear
<1>4. ASSUME Move PROVE [S!Next]_(S!vars)
  <2>1. CASE d_cur = "short"
    BY <1>1, <1>4, <2>1 DEF Move, dvars, S!vars
  <2>2. CASE d_cur # "short"
    <3>1. d_cur = "heap" /\ d_cur' = "short" /\ out' = d_heap /\ pushed' = <<>>
      BY <1>4, <2>2 DEF Move, DstrInit, Live, Inv, TypeOK
    <3>2. out' # NULL /\ CString(out') = Contents
      BY <3>1, HeapIsCString
    <3>3. Moved' = Contents
      BY <3>2
    <3>4. S!Move
      BY <1>1, <3>1, <3>3 DEF S!Move
    <3>. QED  BY <3>4 DEF S!Next
  <2>. QED  BY <2>1, <2>2
<1>5. ASSUME Free PROVE S!Free
  BY <1>1, <1>5 DEF Free, Live, S!Free
<1>6. ASSUME Reinit PROVE S!Reinit
  <2>1. pushed = <<>>
    BY <1>6 DEF Reinit, Inv, TypeOK, Shape, ContentsOk
  <2>. QED  BY <1>1, <1>6, <2>1 DEF Reinit, DstrInit, S!Reinit
<1>7. ASSUME PushDies \/ Release \/ UNCHANGED vars PROVE UNCHANGED S!vars
  BY <1>1, <1>7 DEF PushDies, Release, vars, dvars, S!vars
<1>. QED  BY <1>2, <1>3, <1>4, <1>5, <1>6, <1>7 DEF Next, S!Next

\* a dstr is a string that grows at its end: callers cannot tell when it
\* leaves the struct for the heap
THEOREM ImplementsAbstract ==
  ASSUME NUL \notin Char, DBUG = TRUE
  PROVE  Spec => ImplementsStr
<1>1. Init => S!Init
  <2>. SUFFICES ASSUME Init PROVE S!Init
    OBVIOUS
  <2>1. Contents = <<>>
    BY DEF Init, Contents
  <2>. QED  BY <2>1 DEF Init, S!Init
<1>. QED  BY <1>1, Invariance, ContentsAreKept, RefinementStep, PTL
       DEF Spec, S!Spec, ImplementsStr
=============================================================================
