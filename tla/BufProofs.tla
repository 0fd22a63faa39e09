----------------------------- MODULE BufProofs -----------------------------
(***************************************************************************)
(* Proofs about Buf and the structs it composes, for every size of the     *)
(* data array that fgets() can read into, every source, every sequence of  *)
(* counts that read() may return and every division into lines.  Nothing   *)
(* holds 0xFF, which looks like BUF_EOF, and what is read as text holds no *)
(* NUL, which looks like the end of what was read.                         *)
(***************************************************************************)
EXTENDS Buf, SequenceTheorems, WellFoundedInduction, TLAPS

NoXff == Sources \subseteq Seq(Byte \ {XFF})

\* the sources that are text
Texts == {s \in Sources : \A i \in 1..Len(s) : s[i] # NUL}

Strings == {"cstr", "nstr"}

Delivered == base + Len(got)

\* what was delivered is the text from base on, BUF_EOF came at its end, and
\* nothing was delivered that was not read
Prefix ==
  /\ file \in Texts
  /\ Delivered <= off
  /\ \A i \in 1..Len(got) : got[i] = file[base + i]
  /\ ret = EOF => Delivered = Len(file)

UnixInv  == Unix!TypeOK /\ Unix!BufferedIsAhead /\ Prefix
StdioInv == Stdio!TypeOK /\ Stdio!BufferedIsAhead /\ Prefix

\* in a string p counts what was delivered, which is the string up to p
StrInv ==
  /\ Str!TypeOK
  /\ b_getc = "cstr" => \A i \in 1..Len(file) : file[i] # NUL
  /\ p = Len(got)
  /\ \A i \in 1..Len(got) : got[i] = file[i]
  /\ ret = EOF => p = Len(file)

Inv ==
  /\ b_getc \in {"unix", "stdio"} \cup Strings
  /\ b_getc = "unix"  => UnixInv
  /\ b_getc = "stdio" => StdioInv
  /\ b_getc \in Strings => StrInv

-----------------------------------------------------------------------------
(* Both structs over a file *)

\* a byte of a text is a character, and b_getc does not take it for BUF_EOF
LEMMA TextByte ==
  ASSUME NoXff, file \in Texts, NEW i \in 1..Len(file)
  PROVE  /\ file[i] \in Byte /\ file[i] # NUL /\ file[i] # EOF
         /\ AsInt(file[i]) = file[i]
BY BytesAssumption DEF NoXff, Texts, AsInt

\* what every b_getc comes down to: the character behind what was delivered
Delivers ==
  IF Delivered < Len(file)
    THEN ret' = file[Delivered + 1] /\ got' = Append(got, ret')
    ELSE ret' = EOF /\ got' = got

\* one character more
LEMMA DeliverStep ==
  ASSUME NoXff, Prefix, got \in Seq(Byte), base \in Nat,
         Delivered < Len(file),
         ret' = AsInt(file[Delivered + 1]),
         got' = (IF ret' = EOF THEN got ELSE Append(got, ret')),
         UNCHANGED <<file, base>>
  PROVE  /\ Delivers
         /\ ret' \in Byte /\ ret' # EOF
         /\ got' \in Seq(Byte) /\ Len(got') = Len(got) + 1
         /\ \A i \in 1..Len(got') : got'[i] = file'[base' + i]
         /\ Delivered' = Delivered + 1
<1>1. Len(got) \in Nat /\ file \in Texts /\ file \in Seq(Byte) /\ Len(file) \in Nat
  BY BytesAssumption DEF Prefix, Texts
<1>2. Delivered + 1 \in 1..Len(file)
  BY <1>1 DEF Delivered
<1>3. ret' = file[Delivered + 1] /\ ret' \in Byte /\ ret' # EOF
  BY <1>1, <1>2, TextByte
<1>4. got' = Append(got, ret')
  BY <1>3
<1>5. got' \in Seq(Byte) /\ Len(got') = Len(got) + 1
  BY <1>3, <1>4
<1>6. ASSUME NEW i \in 1..Len(got') PROVE got'[i] = file'[base' + i]
  <2>1. CASE i = Len(got) + 1
    <3>1. base + i = Delivered + 1
      BY <1>1, <2>1 DEF Delivered
    <3>. QED  BY <1>1, <1>3, <1>4, <2>1, <3>1
  <2>2. CASE i # Len(got) + 1
    BY <1>1, <1>4, <1>5, <2>2 DEF Prefix
  <2>. QED  BY <2>1, <2>2
<1>. QED  BY <1>1, <1>3, <1>4, <1>5, <1>6 DEF Delivers, Delivered

-----------------------------------------------------------------------------
(* A file descriptor *)

LEMMA UnixZeroedOk == Unix!Zeroed \in [0..SIZE -> Byte] /\ Unix!Zeroed[0] = NUL
BY BytesAssumption DEF Unix!Zeroed

LEMMA UnixInitInv ==
  ASSUME NoXff, Unix!Init, file \in Texts
  PROVE  UnixInv
<1>1. file \in Seq(Byte) /\ Len(file) \in Nat
  BY BytesAssumption DEF Unix!Init
<1>2. Unix!TypeOK
  BY <1>1, BytesAssumption, UnixZeroedOk DEF Unix!Init, Unix!TypeOK
<1>3. Unix!BufferedIsAhead
  BY <1>1, BytesAssumption, UnixZeroedOk DEF Unix!Init, Unix!BufferedIsAhead, Unix!Ahead
<1>. QED  BY <1>1, <1>2, <1>3, BytesAssumption DEF Unix!Init, UnixInv, Prefix, Delivered

\* the array behind a read() of n bytes: those bytes and a NUL
LEMMA FilledOk ==
  ASSUME NoXff, Unix!TypeOK, NEW n \in 0..SIZE, off + n <= Len(file)
  PROVE  /\ Unix!Filled(n) \in [0..SIZE -> Byte]
         /\ \A i \in 0..(n - 1) : Unix!Filled(n)[i] = file[off + i + 1]
         /\ Unix!Filled(n)[n] = NUL
<1>1. file \in Seq(Byte) /\ off \in Nat /\ SIZE \in Nat
  BY BytesAssumption DEF Unix!TypeOK
<1>2. \A i \in 0..SIZE : i < n => file[off + i + 1] \in Byte
  <2>. SUFFICES ASSUME NEW i \in 0..SIZE, i < n PROVE file[off + i + 1] \in Byte
    OBVIOUS
  <2>1. off + i + 1 \in 1..Len(file)
    BY <1>1
  <2>. QED  BY <1>1, <2>1
<1>. QED  BY <1>1, <1>2, BytesAssumption DEF Unix!Filled, Unix!TypeOK

LEMMA UnixBufferedStep ==
  ASSUME NoXff, UnixInv, Unix!GetcBuffered
  PROVE  UnixInv' /\ Delivers
<1>1. /\ data \in [0..SIZE -> Byte] /\ p \in 0..SIZE /\ SIZE \in Nat
      /\ off \in 0..Len(file) /\ Len(file) \in Nat /\ Delivered \in Nat
      /\ off \in Nat /\ base \in Nat /\ got \in Seq(Byte) /\ Len(got) \in Nat
  BY BytesAssumption DEF UnixInv, Prefix, Unix!TypeOK, Delivered
<1>2. /\ data[p] # NUL /\ ret' = AsInt(data[p]) /\ p' = p + 1
      /\ got' = (IF ret' = EOF THEN got ELSE Append(got, ret'))
      /\ UNCHANGED <<file, off, data, inited, proc, base>> /\ Unix!Live
  BY DEF Unix!GetcBuffered, Unix!Empty, Unix!NextFrom, Unix!AsInt, AsInt
<1>3. /\ Unix!Ahead = off - Delivered /\ Unix!Ahead \in 0..(SIZE - p)
      /\ \A i \in 0..(Unix!Ahead - 1) : data[p + i] = file[Delivered + i + 1]
      /\ data[p + Unix!Ahead] = NUL
  BY <1>2 DEF UnixInv, Prefix, Unix!BufferedIsAhead, Unix!Ahead, Delivered
<1>4. Unix!Ahead # 0
  BY <1>1, <1>2, <1>3
<1>5. data[p] = file[Delivered + 1] /\ Delivered < Len(file)
  <2>1. 0 \in 0..(Unix!Ahead - 1) /\ p + 0 = p /\ Delivered + 0 + 1 = Delivered + 1
    BY <1>1, <1>3, <1>4
  <2>. QED  BY <1>1, <1>3, <1>4, <2>1
<1>6. /\ Delivers /\ ret' \in Byte /\ ret' # EOF
      /\ got' \in Seq(Byte) /\ Len(got') = Len(got) + 1
      /\ \A i \in 1..Len(got') : got'[i] = file'[base' + i]
      /\ Delivered' = Delivered + 1
  BY <1>1, <1>2, <1>5, DeliverStep DEF UnixInv, StdioInv
<1>7. Delivered' = Delivered + 1 /\ Unix!Ahead' = Unix!Ahead - 1
  <2>1. /\ base \in Int /\ Len(got) \in Int /\ off \in Int
        /\ base' = base /\ off' = off /\ Len(got') = Len(got) + 1
    BY <1>1, <1>2, <1>6
  <2>. QED  BY ONLY <2>1 DEF Delivered, Unix!Ahead
<1>8. Unix!TypeOK'
  BY <1>1, <1>2, <1>3, <1>4, <1>6 DEF UnixInv, Prefix, Unix!TypeOK
<1>9. Unix!BufferedIsAhead'
  <2>1. Unix!Ahead' \in 0..(SIZE - p')
    BY <1>1, <1>2, <1>3, <1>4, <1>7
  <2>2. ASSUME NEW i \in 0..(Unix!Ahead' - 1)
        PROVE  data'[p' + i] = file'[Delivered' + i + 1]
    <3>1. i + 1 \in 0..(Unix!Ahead - 1)
      BY <1>1, <1>3, <1>7
    <3>2. data[p + (i + 1)] = file[Delivered + (i + 1) + 1]
      BY <1>3, <3>1
    <3>3. p' + i = p + (i + 1) /\ Delivered' + i + 1 = Delivered + (i + 1) + 1
      BY <1>1, <1>2, <1>7, <3>1
    <3>. QED  BY <1>2, <3>2, <3>3
  <2>3. data'[p' + Unix!Ahead'] = NUL
    BY <1>1, <1>2, <1>3, <1>7
  <2>. QED  BY <2>1, <2>2, <2>3 DEF Unix!BufferedIsAhead, Delivered
<1>. QED  BY <1>1, <1>2, <1>3, <1>4, <1>5, <1>6, <1>7, <1>8, <1>9 DEF UnixInv, Prefix

LEMMA UnixFillingStep ==
  ASSUME NoXff, UnixInv, Unix!GetcFilling
  PROVE  UnixInv' /\ Delivers
<1>1. /\ data \in [0..SIZE -> Byte] /\ p \in 0..SIZE /\ SIZE \in Nat \ {0}
      /\ off \in 0..Len(file) /\ Len(file) \in Nat /\ Delivered \in Nat
      /\ base \in Nat /\ Len(got) \in Nat /\ got \in Seq(Byte) /\ off \in Nat
      /\ file \in Texts
  BY BytesAssumption DEF UnixInv, Prefix, Unix!TypeOK, Delivered
<1>2. Unix!Live /\ data[p] = NUL /\ UNCHANGED <<file, inited, proc, base>>
  BY DEF Unix!GetcFilling, Unix!Empty
<1>3. /\ Unix!Ahead = off - Delivered /\ Unix!Ahead \in 0..(SIZE - p)
      /\ \A i \in 0..(Unix!Ahead - 1) : data[p + i] = file[Delivered + i + 1]
  BY <1>2 DEF UnixInv, Prefix, Unix!BufferedIsAhead, Unix!Ahead, Delivered
<1>4. off = Delivered
  <2>. SUFFICES ASSUME Unix!Ahead # 0 PROVE FALSE
    BY <1>1, <1>3
  <2>1. 0 \in 0..(Unix!Ahead - 1) /\ p + 0 = p /\ Delivered + 0 + 1 = Delivered + 1
    BY <1>1, <1>3
  <2>2. data[p + 0] = file[Delivered + 0 + 1]
    BY <1>3, <2>1
  <2>3. data[p] = file[Delivered + 1] /\ Delivered + 1 \in 1..Len(file)
    BY <1>1, <1>3, <2>1, <2>2
  <2>. QED  BY <1>1, <1>2, <2>3, TextByte
<1>5. PICK n \in Unix!ReadCounts : Unix!ReadAndNext(n)
  BY DEF Unix!GetcFilling
<1>6. /\ n \in 0..SIZE /\ off + n <= Len(file)
      /\ n = 0 <=> off = Len(file)
  BY <1>1 DEF Unix!ReadCounts
<1>7. /\ Unix!Filled(n) \in [0..SIZE -> Byte]
      /\ \A i \in 0..(n - 1) : Unix!Filled(n)[i] = file[off + i + 1]
      /\ Unix!Filled(n)[n] = NUL
  BY <1>6, FilledOk DEF UnixInv, Prefix
<1>8. data' = Unix!Filled(n) /\ off' = off + n
  BY <1>5 DEF Unix!ReadAndNext
<1>9. CASE n = 0
  <2>1. p' = 0 /\ ret' = EOF /\ got' = got
    BY <1>5, <1>7, <1>9 DEF Unix!ReadAndNext, Unix!Empty
  <2>2. off' = off /\ Delivered' = Delivered /\ Unix!Ahead' = 0 /\ off = Len(file)
    BY <1>1, <1>2, <1>4, <1>6, <1>8, <1>9, <2>1 DEF Delivered, Unix!Ahead
  <2>3. Unix!TypeOK'
    BY <1>1, <1>2, <1>7, <1>8, <2>1, <2>2 DEF UnixInv, Prefix, Unix!TypeOK
  <2>4. Unix!BufferedIsAhead'
    BY <1>1, <1>7, <1>8, <1>9, <2>1, <2>2 DEF Unix!BufferedIsAhead
  <2>. QED  BY <1>1, <1>2, <1>4, <2>1, <2>2, <2>3, <2>4 DEF UnixInv, Prefix, Delivers
<1>10. CASE n # 0
  <2>1. off + 1 \in 1..Len(file) /\ Unix!Filled(n)[0] = file[off + 1]
    BY <1>1, <1>6, <1>7, <1>10
  <2>2. Unix!Filled(n)[0] # NUL
    BY <1>1, <2>1, TextByte
  <2>3. /\ ret' = AsInt(file[Delivered + 1]) /\ p' = 1
        /\ got' = (IF ret' = EOF THEN got ELSE Append(got, ret'))
    BY <1>4, <1>5, <2>1, <2>2
       DEF Unix!ReadAndNext, Unix!Empty, Unix!NextFrom, Unix!AsInt, AsInt
  <2>4. Delivered < Len(file)
    BY <1>1, <1>4, <2>1
  <2>5. /\ Delivers /\ ret' \in Byte /\ ret' # EOF
        /\ got' \in Seq(Byte) /\ Len(got') = Len(got) + 1
        /\ \A i \in 1..Len(got') : got'[i] = file'[base' + i]
        /\ Delivered' = Delivered + 1
    BY <1>1, <1>2, <2>3, <2>4, DeliverStep DEF UnixInv, StdioInv
  <2>6. Delivered' = Delivered + 1 /\ Unix!Ahead' = n - 1
    BY <1>1, <1>2, <1>4, <1>6, <1>8, <2>5 DEF Delivered, Unix!Ahead
  <2>7. Unix!TypeOK'
    BY <1>1, <1>2, <1>6, <1>7, <1>8, <2>3, <2>5 DEF UnixInv, Prefix, Unix!TypeOK
  <2>8. Unix!BufferedIsAhead'
    <3>1. Unix!Ahead' \in 0..(SIZE - p') /\ p' + Unix!Ahead' = n
      BY <1>1, <1>6, <1>10, <2>3, <2>6
    <3>2. ASSUME NEW i \in 0..(Unix!Ahead' - 1)
          PROVE  data'[p' + i] = file'[Delivered' + i + 1]
      <4>1. i + 1 \in 0..(n - 1)
        BY <1>6, <1>10, <2>6
      <4>2. Unix!Filled(n)[i + 1] = file[off + (i + 1) + 1]
        BY <1>7, <4>1
      <4>3. p' + i = i + 1 /\ Delivered' + i + 1 = off + (i + 1) + 1
        BY <1>1, <1>4, <2>3, <2>6, <4>1
      <4>. QED  BY <1>2, <1>8, <4>2, <4>3
    <3>. QED  BY <1>7, <1>8, <3>1, <3>2 DEF Unix!BufferedIsAhead, Delivered
  <2>. QED  BY <1>1, <1>2, <1>4, <1>6, <1>8, <2>4, <2>5, <2>6, <2>7, <2>8
               DEF UnixInv, Prefix
<1>. QED  BY <1>1, <1>4, <1>6, <1>9, <1>10

LEMMA UnixOtherSteps ==
  ASSUME NoXff, UnixInv, Unix!GetcDies \/ Unix!Free \/ Unix!Reinit \/ UNCHANGED Unix!vars
  PROVE  UnixInv'
<1>1. /\ off \in 0..Len(file) /\ Len(file) \in Nat /\ SIZE \in Nat
      /\ file \in Texts /\ base \in Nat /\ Len(got) \in Nat
  BY BytesAssumption DEF UnixInv, Prefix, Unix!TypeOK
<1>2. CASE Unix!GetcDies
  BY <1>2
     DEF Unix!GetcDies, UnixInv, Prefix, Unix!TypeOK, Unix!BufferedIsAhead, Unix!Ahead,
         Delivered, Unix!Live
<1>3. CASE Unix!Free
  <2>1. Unix!TypeOK'
    <3>1. /\ inited' \in BOOLEAN /\ data' \in [0..SIZE -> Byte] /\ p' \in 0..SIZE
          /\ UNCHANGED <<file, off, proc, ret, base, got>>
      BY <1>1, <1>3, UnixZeroedOk DEF Unix!Free
    <3>. QED  BY <3>1 DEF UnixInv, Prefix, Unix!TypeOK
  <2>. QED  BY <1>3, <2>1
               DEF Unix!Free, UnixInv, Prefix, Unix!BufferedIsAhead, Delivered,
                   Unix!Live
<1>4. CASE Unix!Reinit
  <2>1. Unix!TypeOK'
    BY <1>1, <1>4, UnixZeroedOk DEF Unix!Reinit, UnixInv, Prefix, Unix!TypeOK
  <2>2. Unix!BufferedIsAhead'
    BY <1>1, <1>4, UnixZeroedOk DEF Unix!Reinit, Unix!BufferedIsAhead, Unix!Ahead
  <2>. QED  BY <1>1, <1>4, <2>1, <2>2, BytesAssumption
               DEF Unix!Reinit, UnixInv, Prefix, Delivered
<1>5. CASE UNCHANGED Unix!vars
  BY <1>5
     DEF Unix!vars, UnixInv, Prefix, Unix!TypeOK, Unix!BufferedIsAhead, Unix!Ahead,
         Delivered, Unix!Live
<1>. QED  BY <1>2, <1>3, <1>4, <1>5

LEMMA UnixStepInv == NoXff /\ UnixInv /\ [Unix!Next]_(Unix!vars) => UnixInv'
BY UnixBufferedStep, UnixFillingStep, UnixOtherSteps DEF Unix!Next

-----------------------------------------------------------------------------
(* A stdio stream *)

LEMMA StdioZeroedOk == Stdio!Zeroed \in [0..SIZE -> Byte] /\ Stdio!Zeroed[0] = NUL
BY BytesAssumption DEF Stdio!Zeroed

LEMMA StdioInitInv ==
  ASSUME NoXff, Stdio!Init, file \in Texts
  PROVE  StdioInv
<1>1. file \in Seq(Byte) /\ Len(file) \in Nat
  BY BytesAssumption DEF Stdio!Init
<1>2. Stdio!TypeOK
  BY <1>1, BytesAssumption, StdioZeroedOk DEF Stdio!Init, Stdio!TypeOK
<1>3. Stdio!BufferedIsAhead
  BY <1>1, BytesAssumption, StdioZeroedOk
     DEF Stdio!Init, Stdio!BufferedIsAhead, Stdio!Ahead
<1>. QED  BY <1>1, <1>2, <1>3, BytesAssumption
             DEF Stdio!Init, StdioInv, Prefix, Delivered

\* every set of numbers that is not empty has a least
LEMMA Least ==
  ASSUME NEW S \in SUBSET Nat, S # {}
  PROVE  \E m \in S : \A k \in S : m <= k
<1>. DEFINE R == OpToRel(<, Nat)
<1>1. IsWellFoundedOn(R, Nat)
  BY NatLessThanWellFounded
<1>2. \A k, m \in Nat : k < m => <<k, m>> \in R
  BY DEF OpToRel
<1>. HIDE DEF R
<1>3. PICK m \in S : \A k \in S : ~ (<<k, m>> \in R)
  BY <1>1, WFMin
<1>4. \A k \in S : ~ (k < m)
  BY <1>2, <1>3, Zenon
<1>5. \A k \in S : m <= k
  BY <1>4
<1>. QED  BY <1>5

\* fgets() takes something unless the stream is at its end, and leaves the
\* last byte of the array for its NUL
LEMMA LineLenOk ==
  ASSUME SIZE > 1, Stdio!TypeOK, off # Len(file)
  PROVE  Stdio!LineLen \in 1..(SIZE - 1) /\ off + Stdio!LineLen <= Len(file)
<1>1. SIZE \in Nat /\ Len(file) \in Nat /\ off \in Nat /\ off < Len(file)
  BY BytesAssumption DEF Stdio!TypeOK
<1>. DEFINE Ends(n) == n = SIZE - 1 \/ off + n = Len(file) \/ file[off + n] = NL
            S == {n \in 1..(SIZE - 1) : off + n <= Len(file) /\ Ends(n)}
<1>2. S # {}
  <2>1. CASE SIZE - 1 <= Len(file) - off
    <3>1. SIZE - 1 \in S
      BY <1>1, <2>1
    <3>. QED  BY <3>1
  <2>2. CASE ~(SIZE - 1 <= Len(file) - off)
    <3>1. Len(file) - off \in S
      BY <1>1, <2>2
    <3>. QED  BY <3>1
  <2>. QED  BY <2>1, <2>2
<1>3. PICK n \in S : \A m \in S : n <= m
  <2>1. S \in SUBSET Nat
    BY <1>1
  <2>. HIDE DEF S
  <2>. QED  BY <1>2, <2>1, Least
<1>4. \A k \in 1..(n - 1) : file[off + k] # NL
  <2>. SUFFICES ASSUME NEW k \in 1..(n - 1), file[off + k] = NL PROVE FALSE
    OBVIOUS
  <2>1. n \in 1..(SIZE - 1) /\ off + n <= Len(file)
    BY <1>3
  <2>2. k \in Nat /\ n \in Nat /\ k < n /\ k \in 1..(SIZE - 1) /\ off + k <= Len(file)
    BY <1>1, <2>1
  <2>3. k \in S
    BY <2>2
  <2>. HIDE DEF S
  <2>4. n <= k
    BY <1>3, <2>3
  <2>. QED  BY <2>2, <2>4
<1>5. \E l \in 1..(SIZE - 1) : /\ off + l <= Len(file) /\ Ends(l)
                               /\ \A k \in 1..(l - 1) : file[off + k] # NL
  BY <1>4
<1>6. Stdio!LineLen = CHOOSE l \in 1..(SIZE - 1) : /\ off + l <= Len(file) /\ Ends(l)
                                             /\ \A k \in 1..(l - 1) : file[off + k] # NL
  BY DEF Stdio!LineLen
<1>. HIDE DEF Ends, S
<1>. QED  BY <1>5, <1>6

\* the array behind fgets(): the line and a NUL
LEMMA LineOk ==
  ASSUME NoXff, SIZE > 1, Stdio!TypeOK, off # Len(file)
  PROVE  /\ Stdio!Line \in [0..SIZE -> Byte]
         /\ \A i \in 0..(Stdio!LineLen - 1) : Stdio!Line[i] = file[off + i + 1]
         /\ Stdio!Line[Stdio!LineLen] = NUL
<1>. DEFINE n == Stdio!LineLen
<1>1. file \in Seq(Byte) /\ off \in Nat /\ SIZE \in Nat /\ n \in 1..(SIZE - 1)
      /\ off + n <= Len(file) /\ Len(file) \in Nat /\ data \in [0..SIZE -> Byte]
  BY BytesAssumption, LineLenOk DEF Stdio!TypeOK
<1>2. Stdio!Line = [i \in 0..SIZE |-> IF i < n THEN file[off + i + 1]
                                ELSE IF i \in {n, SIZE} THEN NUL
                                ELSE data[i]]
  BY DEF Stdio!Line
<1>. HIDE DEF n
<1>3. \A i \in 0..SIZE : i < n => file[off + i + 1] \in Byte
  <2>. SUFFICES ASSUME NEW i \in 0..SIZE, i < n PROVE file[off + i + 1] \in Byte
    OBVIOUS
  <2>1. off + i + 1 \in 1..Len(file)
    BY <1>1
  <2>. QED  BY <1>1, <2>1
<1>4. /\ Stdio!Line \in [0..SIZE -> Byte]
      /\ \A i \in 0..(n - 1) : Stdio!Line[i] = file[off + i + 1]
      /\ Stdio!Line[n] = NUL
  BY <1>1, <1>2, <1>3, BytesAssumption
<1>. QED  BY <1>4 DEF n

LEMMA StdioBufferedStep ==
  ASSUME NoXff, StdioInv, Stdio!Getc, ~Stdio!Empty
  PROVE  StdioInv' /\ Delivers
<1>1. /\ data \in [0..SIZE -> Byte] /\ p \in 0..SIZE /\ SIZE \in Nat
      /\ off \in 0..Len(file) /\ Len(file) \in Nat /\ Delivered \in Nat
      /\ off \in Nat /\ base \in Nat /\ got \in Seq(Byte) /\ Len(got) \in Nat
  BY BytesAssumption DEF StdioInv, Prefix, Stdio!TypeOK, Delivered
<1>2. /\ data[p] # NUL /\ ret' = AsInt(data[p]) /\ p' = p + 1
      /\ got' = (IF ret' = EOF THEN got ELSE Append(got, ret'))
      /\ UNCHANGED <<file, off, data, inited, proc, base>> /\ Stdio!Live
  BY DEF Stdio!Getc, Stdio!Empty, Stdio!NextFrom, Stdio!AsInt, AsInt
<1>3. /\ Stdio!Ahead = off - Delivered /\ Stdio!Ahead \in 0..(SIZE - p)
      /\ \A i \in 0..(Stdio!Ahead - 1) : data[p + i] = file[Delivered + i + 1]
      /\ data[p + Stdio!Ahead] = NUL
  BY <1>2 DEF StdioInv, Prefix, Stdio!BufferedIsAhead, Stdio!Ahead, Delivered
<1>4. Stdio!Ahead # 0
  BY <1>1, <1>2, <1>3
<1>5. data[p] = file[Delivered + 1] /\ Delivered < Len(file)
  <2>1. 0 \in 0..(Stdio!Ahead - 1) /\ p + 0 = p /\ Delivered + 0 + 1 = Delivered + 1
    BY <1>1, <1>3, <1>4
  <2>. QED  BY <1>1, <1>3, <1>4, <2>1
<1>6. /\ Delivers /\ ret' \in Byte /\ ret' # EOF
      /\ got' \in Seq(Byte) /\ Len(got') = Len(got) + 1
      /\ \A i \in 1..Len(got') : got'[i] = file'[base' + i]
      /\ Delivered' = Delivered + 1
  BY <1>1, <1>2, <1>5, DeliverStep DEF UnixInv, StdioInv
<1>7. Delivered' = Delivered + 1 /\ Stdio!Ahead' = Stdio!Ahead - 1
  <2>1. /\ base \in Int /\ Len(got) \in Int /\ off \in Int
        /\ base' = base /\ off' = off /\ Len(got') = Len(got) + 1
    BY <1>1, <1>2, <1>6
  <2>. QED  BY ONLY <2>1 DEF Delivered, Stdio!Ahead
<1>8. Stdio!TypeOK'
  BY <1>1, <1>2, <1>3, <1>4, <1>6 DEF StdioInv, Prefix, Stdio!TypeOK
<1>9. Stdio!BufferedIsAhead'
  <2>1. Stdio!Ahead' \in 0..(SIZE - p')
    BY <1>1, <1>2, <1>3, <1>4, <1>7
  <2>2. ASSUME NEW i \in 0..(Stdio!Ahead' - 1)
        PROVE  data'[p' + i] = file'[Delivered' + i + 1]
    <3>1. i + 1 \in 0..(Stdio!Ahead - 1)
      BY <1>1, <1>3, <1>7
    <3>2. data[p + (i + 1)] = file[Delivered + (i + 1) + 1]
      BY <1>3, <3>1
    <3>3. p' + i = p + (i + 1) /\ Delivered' + i + 1 = Delivered + (i + 1) + 1
      BY <1>1, <1>2, <1>7, <3>1
    <3>. QED  BY <1>2, <3>2, <3>3
  <2>3. data'[p' + Stdio!Ahead'] = NUL
    BY <1>1, <1>2, <1>3, <1>7
  <2>. QED  BY <2>1, <2>2, <2>3 DEF Stdio!BufferedIsAhead, Delivered
<1>. QED  BY <1>1, <1>2, <1>3, <1>4, <1>5, <1>6, <1>7, <1>8, <1>9
             DEF StdioInv, Prefix, Delivers

\* an array that looks empty is: everything fgets() took was delivered
LEMMA EmptyIsEmpty ==
  ASSUME NoXff, StdioInv, Stdio!Live, Stdio!Empty
  PROVE  off = Delivered
<1>1. /\ p \in 0..SIZE /\ SIZE \in Nat /\ file \in Texts
      /\ off \in 0..Len(file) /\ Len(file) \in Nat /\ Delivered \in Nat
  BY BytesAssumption DEF StdioInv, Prefix, Stdio!TypeOK, Delivered
<1>2. /\ Stdio!Ahead = off - Delivered /\ Stdio!Ahead \in 0..(SIZE - p)
      /\ \A i \in 0..(Stdio!Ahead - 1) : data[p + i] = file[Delivered + i + 1]
  BY DEF StdioInv, Prefix, Stdio!BufferedIsAhead, Stdio!Ahead, Delivered
<1>. SUFFICES ASSUME Stdio!Ahead # 0 PROVE FALSE
  BY <1>1, <1>2
<1>3. 0 \in 0..(Stdio!Ahead - 1) /\ p + 0 = p /\ Delivered + 0 + 1 = Delivered + 1
  BY <1>1, <1>2
<1>4. data[p + 0] = file[Delivered + 0 + 1]
  BY <1>2, <1>3
<1>5. data[p] = file[Delivered + 1] /\ Delivered + 1 \in 1..Len(file)
  BY <1>1, <1>2, <1>3, <1>4
<1>. QED  BY <1>1, <1>5, TextByte DEF Stdio!Empty

LEMMA StdioFillingStep ==
  ASSUME NoXff, SIZE > 1, StdioInv, Stdio!Getc, Stdio!Empty
  PROVE  StdioInv' /\ Delivers
<1>1. /\ data \in [0..SIZE -> Byte] /\ p \in 0..SIZE /\ SIZE \in Nat
      /\ off \in 0..Len(file) /\ Len(file) \in Nat /\ Delivered \in Nat
      /\ base \in Nat /\ Len(got) \in Nat /\ got \in Seq(Byte) /\ off \in Nat
      /\ file \in Texts
  BY BytesAssumption DEF StdioInv, Prefix, Stdio!TypeOK, Delivered
<1>2. Stdio!Live /\ Stdio!FillAndNext /\ UNCHANGED <<file, inited, proc, base>>
  BY DEF Stdio!Getc
<1>3. off = Delivered
  BY <1>2, EmptyIsEmpty
<1>4. CASE off = Len(file)
  <2>1. ret' = EOF /\ UNCHANGED <<off, data, p, got>>
    BY <1>2, <1>4 DEF Stdio!FillAndNext
  <2>2. Stdio!TypeOK' /\ Stdio!BufferedIsAhead'
    BY <1>2, <2>1
       DEF StdioInv, Stdio!TypeOK, Stdio!BufferedIsAhead, Stdio!Ahead, Stdio!Live
  <2>3. Prefix' /\ Delivers
    BY <1>1, <1>2, <1>3, <1>4, <2>1 DEF StdioInv, Prefix, Delivered, Delivers
  <2>. QED  BY <2>2, <2>3 DEF StdioInv
<1>5. CASE off # Len(file)
  <2>. DEFINE n == Stdio!LineLen
  <2>1. n \in 1..(SIZE - 1) /\ off + n <= Len(file)
    BY <1>5, LineLenOk DEF StdioInv, Prefix
  <2>2. /\ Stdio!Line \in [0..SIZE -> Byte]
        /\ \A i \in 0..(n - 1) : Stdio!Line[i] = file[off + i + 1]
        /\ Stdio!Line[n] = NUL
    BY <1>5, LineOk DEF StdioInv, Prefix
  <2>3. /\ data' = Stdio!Line /\ off' = off + n /\ ret' = AsInt(Stdio!Line[0]) /\ p' = 1
        /\ got' = (IF ret' = EOF THEN got ELSE Append(got, ret'))
    BY <1>2, <1>5 DEF Stdio!FillAndNext, Stdio!NextFrom, Stdio!AsInt, AsInt
  <2>. HIDE DEF n
  <2>4. Stdio!Line[0] = file[Delivered + 1] /\ Delivered < Len(file)
    BY <1>1, <1>3, <2>1, <2>2
  <2>5. /\ Delivers /\ ret' \in Byte /\ ret' # EOF
        /\ got' \in Seq(Byte) /\ Len(got') = Len(got) + 1
        /\ \A i \in 1..Len(got') : got'[i] = file'[base' + i]
        /\ Delivered' = Delivered + 1
    BY <1>1, <1>2, <2>3, <2>4, DeliverStep DEF UnixInv, StdioInv
  <2>6. Delivered' = Delivered + 1 /\ Stdio!Ahead' = n - 1
    BY <1>1, <1>2, <1>3, <2>1, <2>3, <2>5 DEF Delivered, Stdio!Ahead
  <2>7. Stdio!TypeOK'
    BY <1>1, <1>2, <2>1, <2>2, <2>3, <2>5 DEF StdioInv, Prefix, Stdio!TypeOK
  <2>8. Stdio!BufferedIsAhead'
    <3>1. Stdio!Ahead' \in 0..(SIZE - p') /\ p' + Stdio!Ahead' = n
      BY <1>1, <2>1, <2>3, <2>6
    <3>2. ASSUME NEW i \in 0..(Stdio!Ahead' - 1)
          PROVE  data'[p' + i] = file'[Delivered' + i + 1]
      <4>1. i + 1 \in 0..(n - 1)
        BY <2>1, <2>6
      <4>2. Stdio!Line[i + 1] = file[off + (i + 1) + 1]
        BY <2>2, <4>1
      <4>3. p' + i = i + 1 /\ Delivered' + i + 1 = off + (i + 1) + 1
        BY <1>1, <1>3, <2>3, <2>6, <4>1
      <4>. QED  BY <1>2, <2>3, <4>2, <4>3
    <3>. QED  BY <2>2, <2>3, <3>1, <3>2 DEF Stdio!BufferedIsAhead, Delivered
  <2>. QED  BY <1>1, <1>2, <1>3, <2>1, <2>3, <2>4, <2>5, <2>6, <2>7, <2>8
               DEF StdioInv, Prefix, Delivers
<1>. QED  BY <1>4, <1>5

LEMMA StdioOtherSteps ==
  ASSUME NoXff, StdioInv, Stdio!GetcDies \/ Stdio!Free \/ Stdio!Reinit \/ UNCHANGED Stdio!bufvars
  PROVE  StdioInv'
<1>1. /\ off \in 0..Len(file) /\ Len(file) \in Nat /\ SIZE \in Nat
      /\ file \in Texts /\ base \in Nat /\ Len(got) \in Nat
  BY BytesAssumption DEF StdioInv, Prefix, Stdio!TypeOK
<1>2. CASE Stdio!GetcDies
  BY <1>2
     DEF Stdio!GetcDies, StdioInv, Prefix, Stdio!TypeOK, Stdio!BufferedIsAhead,
         Stdio!Ahead, Delivered, Stdio!Live
<1>3. CASE Stdio!Free
  <2>1. Stdio!TypeOK'
    <3>1. /\ inited' \in BOOLEAN /\ data' \in [0..SIZE -> Byte] /\ p' \in 0..SIZE
          /\ UNCHANGED <<file, off, proc, ret, base, got>>
      BY <1>1, <1>3, StdioZeroedOk DEF Stdio!Free
    <3>. QED  BY <3>1 DEF StdioInv, Prefix, Stdio!TypeOK
  <2>. QED  BY <1>3, <2>1
               DEF Stdio!Free, StdioInv, Prefix, Stdio!BufferedIsAhead, Delivered,
                   Stdio!Live
<1>4. CASE Stdio!Reinit
  <2>1. Stdio!TypeOK'
    BY <1>1, <1>4, StdioZeroedOk DEF Stdio!Reinit, StdioInv, Prefix, Stdio!TypeOK
  <2>2. Stdio!BufferedIsAhead'
    BY <1>1, <1>4, StdioZeroedOk DEF Stdio!Reinit, Stdio!BufferedIsAhead, Stdio!Ahead
  <2>. QED  BY <1>1, <1>4, <2>1, <2>2, BytesAssumption
               DEF Stdio!Reinit, StdioInv, Prefix, Delivered
<1>5. CASE UNCHANGED Stdio!bufvars
  BY <1>5
     DEF Stdio!bufvars, StdioInv, Prefix, Stdio!TypeOK, Stdio!BufferedIsAhead,
         Stdio!Ahead, Delivered, Stdio!Live
<1>. QED  BY <1>2, <1>3, <1>4, <1>5

LEMMA StdioStepInv == NoXff /\ SIZE > 1 /\ StdioInv /\ [Stdio!Next]_(Stdio!bufvars) => StdioInv'
BY StdioBufferedStep, StdioFillingStep, StdioOtherSteps DEF Stdio!Next

-----------------------------------------------------------------------------
(* A string *)

LEMMA StrInitInv == Str!Init => StrInv
<1>. SUFFICES ASSUME Str!Init PROVE StrInv
  OBVIOUS
<1>1. file \in Seq(Byte) /\ Len(file) \in Nat
  BY BytesAssumption DEF Str!Init
<1>2. Str!TypeOK
  <2>1. inited = (owner = "buf")
    BY Zenon DEF Str!Init
  <2>. QED  BY <1>1, <2>1 DEF Str!Init, Str!TypeOK
<1>. QED  BY <1>1, <1>2, BytesAssumption DEF Str!Init, StrInv

\* what a b_getc comes down to: the character behind what was delivered
StrDelivers ==
  IF Len(got) < Len(file)
    THEN ret' = file[Len(got) + 1] /\ got' = Append(got, ret')
    ELSE ret' = EOF /\ got' = got

LEMMA StrGetcStep ==
  ASSUME NoXff, StrInv, Str!Getc
  PROVE  StrInv' /\ StrDelivers
<1>1. /\ file \in Seq(Byte) /\ Len(file) \in Nat /\ file \in Sources
      /\ got \in Seq(Byte) /\ p = Len(got) /\ p \in 0..Len(file) /\ b_getc \in {"cstr", "nstr"}
  BY BytesAssumption DEF StrInv, Str!TypeOK
<1>2. UNCHANGED <<b_getc, file, owner, inited, base>>
  BY DEF Str!Getc
<1>3. Str!Empty <=> p = Len(file)
  <2>1. CASE p = Len(file)
    BY <1>1, <2>1 DEF Str!Empty, Str!At
  <2>2. CASE p # Len(file)
    <3>1. p + 1 \in 1..Len(file)
      BY <1>1, <2>2
    <3>. QED  BY <1>1, <2>2, <3>1 DEF Str!Empty, Str!At, StrInv
  <2>. QED  BY <2>1, <2>2
<1>4. CASE p = Len(file)
  <2>1. ret' = EOF /\ UNCHANGED <<p, got>>
    BY <1>3, <1>4 DEF Str!Getc
  <2>2. Str!TypeOK'
    BY <1>2, <2>1 DEF StrInv, Str!TypeOK
  <2>3. StrInv'
    BY <1>1, <1>2, <1>4, <2>1, <2>2 DEF StrInv
  <2>. QED  BY <1>1, <1>4, <2>1, <2>3 DEF StrDelivers
<1>5. CASE p # Len(file)
  <2>1. p + 1 \in 1..Len(file) /\ Str!At(p) = file[p + 1]
    BY <1>1, <1>5 DEF Str!At
  <2>2. file[p + 1] \in Byte /\ Str!AsInt(file[p + 1]) = file[p + 1] /\ file[p + 1] # EOF
    <3>1. file \in Seq(Byte \ {XFF})
      BY <1>1 DEF NoXff
    <3>. QED  BY <2>1, <3>1, BytesAssumption DEF Str!AsInt
  <2>3. ret' = file[p + 1] /\ got' = Append(got, ret') /\ p' = p + 1
    BY <1>3, <1>5, <2>1, <2>2 DEF Str!Getc
  <2>4. /\ got' \in Seq(Byte) /\ Len(got') = Len(got) + 1
        /\ \A i \in 1..Len(got') : got'[i] = file[i]
    <3>1. got' \in Seq(Byte) /\ Len(got') = Len(got) + 1
      BY <1>1, <2>2, <2>3
    <3>2. ASSUME NEW i \in 1..Len(got') PROVE got'[i] = file[i]
      <4>1. CASE i = Len(got) + 1
        BY <1>1, <2>3, <4>1
      <4>2. CASE i # Len(got) + 1
        <5>1. i \in 1..Len(got) /\ got'[i] = got[i]
          BY <1>1, <2>3, <3>1, <4>2
        <5>. QED  BY <5>1 DEF StrInv
      <4>. QED  BY <4>1, <4>2
    <3>. QED  BY <3>1, <3>2
  <2>5. Str!TypeOK'
    BY <1>1, <1>2, <2>1, <2>2, <2>3, <2>4 DEF StrInv, Str!TypeOK
  <2>6. StrInv'
    BY <1>1, <1>2, <2>2, <2>3, <2>4, <2>5 DEF StrInv
  <2>. QED  BY <1>1, <2>1, <2>3, <2>6 DEF StrDelivers
<1>. QED  BY <1>4, <1>5

LEMMA StrStepInv == NoXff /\ StrInv /\ [Str!Next]_(Str!vars) => StrInv'
<1>. SUFFICES ASSUME NoXff, StrInv, [Str!Next]_(Str!vars) PROVE StrInv'
  OBVIOUS
<1>1. CASE Str!Getc
  BY <1>1, StrGetcStep
<1>2. ASSUME NEW back \in BOOLEAN, Str!Free(back) PROVE StrInv'
  BY <1>2 DEF Str!Free, StrInv, Str!TypeOK
<1>3. CASE Str!Reinit
  <2>1. file \in Seq(Byte) /\ Len(file) \in Nat
    BY BytesAssumption DEF StrInv, Str!TypeOK
  <2>2. inited' = (owner' = "buf")
    BY <1>3, Zenon DEF Str!Reinit
  <2>3. Str!TypeOK'
    BY <1>3, <2>1, <2>2 DEF Str!Reinit, StrInv, Str!TypeOK
  <2>. QED  BY <1>3, <2>1, <2>3, BytesAssumption DEF Str!Reinit, StrInv
<1>4. CASE UNCHANGED Str!vars
  BY <1>4 DEF Str!vars, StrInv, Str!TypeOK
<1>. QED  BY <1>1, <1>2, <1>3, <1>4 DEF Str!Next

-----------------------------------------------------------------------------
(* The invariant *)

LEMMA InitInv ==
  ASSUME NoXff, IsText, Init
  PROVE  Inv
<1>1. CASE b_getc = "unix" /\ Unix!Init
  <2>1. file \in Texts
    BY <1>1 DEF IsText, Unix!Init, Texts
  <2>2. UnixInv
    BY <1>1, <2>1, UnixInitInv
  <2>. QED  BY <1>1, <2>2 DEF Inv, Strings
<1>2. CASE b_getc = "stdio" /\ Stdio!Init
  <2>1. file \in Texts
    BY <1>2 DEF IsText, Stdio!Init, Texts
  <2>2. StdioInv
    BY <1>2, <2>1, StdioInitInv
  <2>. QED  BY <1>2, <2>2 DEF Inv, Strings
<1>3. CASE Str!Init
  <2>1. b_getc \in Strings
    BY <1>3 DEF Str!Init, Strings
  <2>2. StrInv
    BY <1>3, BytesAssumption, StrInitInv
  <2>. QED  BY <2>1, <2>2 DEF Inv, Strings
<1>. QED  BY <1>1, <1>2, <1>3 DEF Init

LEMMA StepInv ==
  ASSUME NoXff, SIZE > 1, Inv, [Next]_vars
  PROVE  Inv'
<1>1. CASE b_getc = "unix" /\ Unix!Next /\ UNCHANGED <<b_getc, owner>>
  <2>1. UnixInv /\ Unix!Next
    BY <1>1 DEF Inv
  <2>2. UnixInv'
    BY <2>1, UnixStepInv
  <2>. QED  BY <1>1, <2>2 DEF Inv, Strings
<1>2. CASE b_getc = "stdio" /\ Stdio!Next /\ UNCHANGED <<b_getc, owner>>
  <2>1. StdioInv /\ Stdio!Next
    BY <1>2 DEF Inv
  <2>2. StdioInv'
    BY <2>1, StdioStepInv
  <2>. QED  BY <1>2, <2>2 DEF Inv, Strings
<1>3. CASE b_getc \in {"cstr", "nstr"} /\ Str!Next /\ UNCHANGED filevars
  <2>1. StrInv /\ Str!Next /\ b_getc' = b_getc
    <3>1. b_getc' = b_getc
      BY <1>3 DEF Str!Next, Str!Getc, Str!Free, Str!Reinit
    <3>. QED  BY <1>3, <3>1 DEF Inv, Strings
  <2>2. StrInv'
    BY <2>1, BytesAssumption, StrStepInv
  <2>. QED  BY <1>3, <2>1, <2>2 DEF Inv, Strings
<1>4. CASE UNCHANGED vars
  <2>1. UNCHANGED <<Unix!vars, Stdio!bufvars, Str!vars, b_getc>>
    BY <1>4 DEF vars, filevars, Unix!vars, Stdio!bufvars, Str!vars
  <2>2. b_getc = "unix" => UnixInv'
    BY <2>1, UnixStepInv DEF Inv
  <2>3. b_getc = "stdio" => StdioInv'
    BY <2>1, StdioStepInv DEF Inv
  <2>4. b_getc \in Strings => StrInv'
    BY <2>1, BytesAssumption, StrStepInv DEF Inv
  <2>. QED  BY <2>1, <2>2, <2>3, <2>4 DEF Inv
<1>. QED  BY <1>1, <1>2, <1>3, <1>4 DEF Next

\* whichever struct is behind b_getc, what it delivered is the source so far
THEOREM Invariance ==
  ASSUME NoXff, SIZE > 1
  PROVE  IsText /\ Spec => []Inv
<1>1. IsText /\ Init => Inv
  BY InitInv
<1>2. Inv /\ [Next]_vars => Inv'
  BY StepInv
<1>. QED  BY <1>1, <1>2, PTL DEF Spec

\* the position never leaves the array or the string, in any struct
THEOREM TypeCorrect ==
  ASSUME NoXff, SIZE > 1
  PROVE  IsText /\ Spec => []TypeOK
<1>1. Inv => TypeOK
  BY DEF Inv, TypeOK, Strings, UnixInv, StdioInv, StrInv
<1>. QED  BY <1>1, Invariance, PTL

\* no tail of an earlier read or line is delivered, and nothing is lost
THEOREM NothingSkipped ==
  ASSUME NoXff, SIZE > 1
  PROVE  IsText /\ Spec => []BufferedIsAhead
<1>1. Inv => BufferedIsAhead
  BY DEF Inv, BufferedIsAhead, UnixInv, StdioInv
<1>. QED  BY <1>1, Invariance, PTL

\* the copy of a text that buf/test/main.c makes is the text
THEOREM CopyIsWhole ==
  ASSUME NoXff, SIZE > 1
  PROVE  IsText /\ Spec => [](b_getc = "unix" => Unix!CopyIsSource)
<1>1. Inv => (b_getc = "unix" => Unix!CopyIsSource)
  <2>. SUFFICES ASSUME UnixInv, ret = EOF PROVE got = SubSeq(file, base + 1, Len(file))
    BY DEF Inv, Unix!CopyIsSource
  <2>1. /\ file \in Seq(Byte) /\ got \in Seq(Byte) /\ base \in 0..Len(file)
        /\ base + Len(got) = Len(file)
        /\ \A i \in 1..Len(got) : got[i] = file[base + i]
    BY BytesAssumption DEF UnixInv, Prefix, Unix!TypeOK, Delivered
  <2>. DEFINE rest == SubSeq(file, base + 1, Len(file))
  <2>2. rest \in Seq(Byte) /\ Len(rest) = Len(got)
    BY <2>1
  <2>3. \A i \in 1..Len(got) : rest[i] = file[base + i]
    BY <2>1
  <2>. HIDE DEF rest
  <2>4. got = rest
    BY <2>1, <2>2, <2>3, SeqEqual
  <2>. QED  BY <2>4 DEF rest
<1>. QED  BY <1>1, Invariance, PTL

-----------------------------------------------------------------------------
(* The refinement *)

LEMMA DeliversIsGetc ==
  ASSUME inited, Delivers, UNCHANGED <<b_getc, file, base, inited>>
  PROVE  Stream!Getc
BY DEF Delivers, Delivered, Stream!Getc

LEMMA UnixRefines ==
  ASSUME NoXff, UnixInv, Unix!Next, b_getc = "unix", b_getc' = b_getc
  PROVE  [Stream!Next]_(Stream!vars)
<1>1. CASE Unix!GetcBuffered
  <2>1. Delivers
    BY <1>1, UnixBufferedStep
  <2>2. inited /\ UNCHANGED <<file, base, inited>>
    BY <1>1 DEF Unix!GetcBuffered, Unix!Live
  <2>. QED  BY <2>1, <2>2, DeliversIsGetc DEF Stream!Next
<1>2. CASE Unix!GetcFilling
  <2>1. Delivers
    BY <1>2, UnixFillingStep
  <2>2. inited /\ UNCHANGED <<file, base, inited>>
    BY <1>2 DEF Unix!GetcFilling, Unix!Live
  <2>. QED  BY <2>1, <2>2, DeliversIsGetc DEF Stream!Next
<1>3. CASE Unix!Free
  BY <1>3 DEF Unix!Free, Unix!Live, Stream!Next, Stream!Free
<1>4. CASE Unix!Reinit
  <2>1. base + Len(got) <= off /\ off \in 0..Len(file) /\ Len(file) \in Nat
        /\ base + Len(got) \in Nat
    <3>1. file \in Seq(Byte) /\ got \in Seq(Byte) /\ base \in 0..Len(file)
      BY BytesAssumption DEF UnixInv, Unix!TypeOK
    <3>. QED  BY <3>1 DEF UnixInv, Prefix, Unix!TypeOK, Delivered
  <2>2. off \in (base + Len(got))..Len(file)
    BY <2>1
  <2>. QED  BY <1>4, <2>2 DEF Unix!Reinit, Stream!Next, Stream!Reinit
<1>5. CASE Unix!GetcDies
  BY <1>5 DEF Unix!GetcDies, Stream!vars
<1>. QED  BY <1>1, <1>2, <1>3, <1>4, <1>5 DEF Unix!Next

LEMMA StdioRefines ==
  ASSUME NoXff, SIZE > 1, StdioInv, Stdio!Next, b_getc = "stdio", b_getc' = b_getc
  PROVE  [Stream!Next]_(Stream!vars)
<1>1. CASE Stdio!Getc
  <2>1. Delivers
    <3>1. CASE Stdio!Empty
      BY <1>1, <3>1, StdioFillingStep
    <3>2. CASE ~Stdio!Empty
      BY <1>1, <3>2, StdioBufferedStep
    <3>. QED  BY <3>1, <3>2
  <2>2. inited /\ UNCHANGED <<file, base, inited>>
    BY <1>1 DEF Stdio!Getc, Stdio!Live
  <2>. QED  BY <2>1, <2>2, DeliversIsGetc DEF Stream!Next
<1>2. CASE Stdio!Free
  BY <1>2 DEF Stdio!Free, Stdio!Live, Stream!Next, Stream!Free
<1>3. CASE Stdio!Reinit
  <2>1. base + Len(got) <= off /\ off \in 0..Len(file) /\ Len(file) \in Nat
        /\ base + Len(got) \in Nat
    <3>1. file \in Seq(Byte) /\ got \in Seq(Byte) /\ base \in 0..Len(file)
      BY BytesAssumption DEF StdioInv, Stdio!TypeOK
    <3>. QED  BY <3>1 DEF StdioInv, Prefix, Stdio!TypeOK, Delivered
  <2>2. off \in (base + Len(got))..Len(file)
    BY <2>1
  <2>. QED  BY <1>3, <2>2 DEF Stdio!Reinit, Stream!Next, Stream!Reinit
<1>4. CASE Stdio!GetcDies
  BY <1>4 DEF Stdio!GetcDies, Stream!vars
<1>. QED  BY <1>1, <1>2, <1>3, <1>4 DEF Stdio!Next

LEMMA StrRefines ==
  ASSUME NoXff, StrInv, Str!Next, b_getc \in Strings, b_getc' = b_getc
  PROVE  [Stream!Next]_(Stream!vars)
<1>0. base = 0
  BY DEF StrInv, Str!TypeOK
<1>1. CASE Str!Getc
  <2>1. StrDelivers
    BY <1>1, BytesAssumption, StrGetcStep
  <2>2. Len(got) \in Nat /\ Delivered = Len(got)
    BY <1>0 DEF StrInv, Str!TypeOK, Delivered
  <2>3. Delivers
    BY <2>1, <2>2 DEF Delivers, StrDelivers
  <2>4. inited /\ UNCHANGED <<file, base, inited>>
    BY <1>1 DEF Str!Getc
  <2>. QED  BY <2>3, <2>4, DeliversIsGetc DEF Stream!Next
<1>2. ASSUME NEW back \in BOOLEAN, Str!Free(back) PROVE Stream!Next
  BY <1>2 DEF Str!Free, Stream!Next, Stream!Free
<1>3. CASE Str!Reinit
  BY <1>0, <1>3 DEF Str!Reinit, Stream!Next, Stream!Reinit, Strings
<1>. QED  BY <1>1, <1>2, <1>3 DEF Str!Next

\* whichever struct is behind b_getc, callers see an abstract byte stream
THEOREM ImplementsAbstract ==
  ASSUME NoXff, SIZE > 1
  PROVE  IsText /\ Spec => ImplementsByteStream
<1>1. Init => Stream!Init
  BY DEF Init, Unix!Init, Stdio!Init, Str!Init, Stream!Init
<1>2. Inv /\ [Next]_vars => [Stream!Next]_(Stream!vars)
  <2>. SUFFICES ASSUME Inv, [Next]_vars PROVE [Stream!Next]_(Stream!vars)
    OBVIOUS
  <2>1. CASE b_getc = "unix" /\ Unix!Next /\ UNCHANGED <<b_getc, owner>>
    BY <2>1, UnixRefines DEF Inv
  <2>2. CASE b_getc = "stdio" /\ Stdio!Next /\ UNCHANGED <<b_getc, owner>>
    BY <2>2, StdioRefines DEF Inv
  <2>3. CASE b_getc \in {"cstr", "nstr"} /\ Str!Next /\ UNCHANGED filevars
    <3>1. b_getc' = b_getc
      BY <2>3 DEF Str!Next, Str!Getc, Str!Free, Str!Reinit
    <3>. QED  BY <2>3, <3>1, StrRefines DEF Inv, Strings
  <2>4. CASE UNCHANGED vars
    BY <2>4 DEF vars, filevars, Stream!vars
  <2>. QED  BY <2>1, <2>2, <2>3, <2>4 DEF Next
<1>. QED  BY <1>1, <1>2, Invariance, PTL DEF Spec, Stream!Spec, ImplementsByteStream
=============================================================================
