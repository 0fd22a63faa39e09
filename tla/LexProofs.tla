------------------------------ MODULE LexProofs ------------------------------
(***************************************************************************)
(* Proofs about Lex for every division of the bytes into classes, every    *)
(* source and every size of the buf's array and of the string's struct.    *)
(* Sources are text: no NUL, which ends what was read, and no 0xFF, which  *)
(* arrives as BUF_EOF; and fgets() reads at least a byte.                  *)
(*                                                                         *)
(* The lexer's buf and string are those of BufProofs and DstrProofs, whose *)
(* invariants and steps are used here, and nothing else of them.           *)
(***************************************************************************)
EXTENDS Lex, SequenceTheorems, TLAPS

\* what is proved about the buf and about the string; the lexer pushes no NUL
BP == INSTANCE BufProofs WITH b_getc <- "stdio", owner <- "nobody",
                              data <- s_data, p <- s_p, inited <- s_init, proc <- sproc
DP == INSTANCE DstrProofs WITH Char <- Byte \ {NUL}, MaxGiven <- 0

Text == Sources \subseteq Seq(Byte \ {NUL, XFF})

-----------------------------------------------------------------------------
(* The buf and the string *)

BufInv  == BP!StdioInv /\ base = 0
DstrInv == DP!Inv /\ DP!ContentsOk /\ d_cur # "null"

\* what Bytes and Dstr assume of their constants holds of the lexer's
LEMMA BufAssumptions ==
  /\ SIZE \in Nat \ {0}
  /\ {NUL, NL} \subseteq Byte /\ NUL # NL
  /\ EOF \notin Byte /\ Nothing \notin Byte \cup {EOF}
  /\ Sources \subseteq Seq(Byte)
BY LexAssumption DEF Byte, Alpha

LEMMA DstrAssumptions ==
  /\ SHORT \in Nat \ {0} /\ MaxLen \in Nat /\ 0 \in Nat /\ DBUG \in BOOLEAN
  /\ Junk \notin (Byte \ {NUL}) \cup {NUL} /\ NUL \notin Byte \ {NUL}
BY LexAssumption DEF Byte, Alpha

\* the buf and the string of Lex are those the proofs are about
LEMMA GetcSame == B!Getc = BP!Stdio!Getc
<1>1. B!Line = BP!Stdio!Line /\ B!LineLen = BP!Stdio!LineLen
  BY DEF B!Line, B!LineLen, BP!Stdio!Line, BP!Stdio!LineLen
<1>2. B!FillAndNext = BP!Stdio!FillAndNext
  BY <1>1 DEF B!FillAndNext, B!NextFrom, B!AsInt,
              BP!Stdio!FillAndNext, BP!Stdio!NextFrom, BP!Stdio!AsInt
<1>. QED  BY <1>2 DEF B!Getc, B!Live, B!Empty, B!NextFrom, B!AsInt,
                      BP!Stdio!Getc, BP!Stdio!Live, BP!Stdio!Empty, BP!Stdio!NextFrom, BP!Stdio!AsInt

LEMMA BufOtherSame ==
  /\ B!Init = BP!Stdio!Init /\ B!GetcDies = BP!Stdio!GetcDies
  /\ B!Free = BP!Stdio!Free /\ B!TypeOK = BP!Stdio!TypeOK
BY DEF B!Init, B!GetcDies, B!Free, B!Live, B!Empty, B!Zeroed, B!TypeOK,
       BP!Stdio!Init, BP!Stdio!GetcDies, BP!Stdio!Free, BP!Stdio!Live, BP!Stdio!Empty,
       BP!Stdio!Zeroed, BP!Stdio!TypeOK

\* b_getc returns the character behind those it has returned
LEMMA GetcStep ==
  ASSUME Text, SIZE > 1, BufInv, B!Getc
  PROVE  /\ BufInv' /\ UNCHANGED file
         /\ IF Len(got) < Len(file)
              THEN ret' = file[Len(got) + 1] /\ got' = Append(got, ret')
              ELSE ret' = EOF /\ got' = got
<1>1. BP!NoXff
  BY LexAssumption DEF Text, BP!NoXff
<1>2. BP!StdioInv' /\ BP!Delivers
  BY <1>1, GetcSame, BufAssumptions, BP!StdioBufferedStep, BP!StdioFillingStep DEF BufInv
<1>. QED  BY <1>2 DEF BufInv, BP!Delivers, BP!Delivered, B!Getc

LEMMA DstrSame ==
  /\ \A ch : D!Push(ch) = DP!Push(ch)
  /\ D!PushDies = DP!PushDies /\ D!Clear = DP!Clear /\ D!Init = DP!Init
  /\ D!Cur = DP!Cur /\ D!Contents = DP!Contents
  /\ \A block : D!CString(block) = DP!CString(block)
<1>1. /\ D!NULL = DP!NULL /\ D!Live = DP!Live /\ D!dvars = DP!dvars
      /\ \A q : D!Held(q) = DP!Held(q)
      /\ \A i : D!Strcpied(i) = DP!Strcpied(i)
      /\ \A block, ch : D!Stored(block, ch) = DP!Stored(block, ch)
      /\ D!Zeroed = DP!Zeroed
  BY DEF D!NULL, D!Live, D!dvars, D!Held, D!Strcpied, D!Stored, D!Zeroed,
         DP!NULL, DP!Live, DP!dvars, DP!Held, DP!Strcpied, DP!Stored, DP!Zeroed
<1>2. D!Grown = DP!Grown
  BY <1>1 DEF D!Grown, DP!Grown
<1>3. D!DstrInit = DP!DstrInit
  BY <1>1 DEF D!DstrInit, DP!DstrInit
<1>4. ASSUME NEW ch PROVE D!Push(ch) = DP!Push(ch)
  BY <1>1, <1>2 DEF D!Push, D!PushGrowing, D!PushInPlace, DP!Push, DP!PushGrowing, DP!PushInPlace
<1>5. D!PushDies = DP!PushDies
  BY DEF D!PushDies, D!Live, D!dvars, DP!PushDies, DP!Live, DP!dvars
<1>6. D!Clear = DP!Clear
  BY <1>1, <1>3 DEF D!Clear, DP!Clear
<1>7. D!Init = DP!Init
  BY <1>1 DEF D!Init, DP!Init
<1>8. D!Cur = DP!Cur
  BY DEF D!Cur, DP!Cur
<1>9. D!Contents = DP!Contents
  BY <1>8 DEF D!Contents, DP!Contents
<1>10. ASSUME NEW block PROVE D!CString(block) = DP!CString(block)
  BY DEF D!CString, DP!CString
<1>. QED  BY <1>4, <1>5, <1>6, <1>7, <1>8, <1>9, <1>10

LEMMA DstrStep ==
  ASSUME DstrInv, [DP!Next]_(DP!vars), d_cur' # "null"
  PROVE  DstrInv'
BY DstrAssumptions, DP!StepInv, DP!ContentsStep DEF DstrInv

LEMMA PushStep ==
  ASSUME DstrInv, NEW ch \in Byte \ {NUL}, D!Push(ch)
  PROVE  DstrInv' /\ pushed' = Append(pushed, ch)
<1>1. DP!Push(ch)
  BY DstrSame
<1>2. d_cur' # "null" /\ pushed' = Append(pushed, ch)
  BY <1>1 DEF DP!Push, DP!PushGrowing, DP!PushInPlace, DP!Live
<1>3. DP!Next
  BY <1>1 DEF DP!Next
<1>. QED  BY <1>2, <1>3, DstrStep

LEMMA ClearStep ==
  ASSUME DstrInv, D!Clear
  PROVE  DstrInv' /\ pushed' = <<>>
<1>1. DP!Clear
  BY DstrSame
<1>2. d_cur' # "null" /\ pushed' = <<>>
  BY <1>1 DEF DP!Clear, DP!DstrInit
<1>3. DP!Next
  BY <1>1 DEF DP!Next
<1>. QED  BY <1>2, <1>3, DstrStep

LEMMA PushDiesStep ==
  ASSUME DstrInv, D!PushDies
  PROVE  DstrInv' /\ UNCHANGED pushed
<1>1. DP!PushDies
  BY DstrSame
<1>2. d_cur' # "null" /\ UNCHANGED pushed
  BY <1>1 DEF DP!PushDies, DP!dvars, DP!Live
<1>3. DP!Next
  BY <1>1 DEF DP!Next
<1>. QED  BY <1>2, <1>3, DstrStep

LEMMA DstrKept ==
  ASSUME DstrInv, UNCHANGED dstr
  PROVE  DstrInv'
<1>1. UNCHANGED DP!vars /\ d_cur' # "null"
  BY DEF dstr, DP!vars, DP!dvars, DstrInv
<1>. QED  BY <1>1, DstrStep

\* the lexeme that main prints is what id() or str() have pushed
LEMMA DstrText ==
  ASSUME DstrInv
  PROVE  /\ D!Contents = pushed /\ D!CString(D!Cur) = pushed
         /\ pushed \in Seq(Byte \ {NUL}) /\ D!TypeOK
<1>1. D!Contents = pushed
  BY DstrSame, DstrAssumptions, DP!ContentsArePushed DEF DstrInv
<1>2. D!CString(D!Cur) = D!Contents
  BY DstrSame, DstrAssumptions, DP!CurIsCString DEF DstrInv
<1>3. pushed \in Seq(Byte \ {NUL})
  BY DEF DstrInv, DP!Inv, DP!TypeOK
<1>4. D!TypeOK
  <2>1. \A cap : DP!Block(cap) \subseteq D!Block(cap)
    BY DEF DP!Block, D!Block, DP!Byte, D!Byte
  <2>2. DP!NULL = D!NULL
    BY DEF DP!NULL, D!NULL
  <2>3. [0..SHORT -> DP!Byte] \subseteq [0..SHORT -> D!Byte]
    BY DEF DP!Byte, D!Byte
  <2>4. Seq(Byte \ {NUL}) \subseteq Seq(Byte)
    OBVIOUS
  <2>. QED  BY <2>1, <2>2, <2>3, <2>4 DEF DstrInv, DP!Inv, DP!TypeOK, D!TypeOK
<1>. QED  BY <1>1, <1>2, <1>3, <1>4

-----------------------------------------------------------------------------
(* The invariant *)

\* c is the character behind the first m, or BUF_EOF behind the last
Read(m) ==
  /\ m \in 0..Len(file)
  /\ IF m < Len(file)
       THEN c = file[m + 1] /\ Len(got) = m + 1
       ELSE c = EOF /\ Len(got) = m

\* the characters that were read before c
Before == IF c = EOF THEN Len(got) ELSE Len(got) - 1

Accounted(i) ==
  \/ InToken(i) \/ file[i] \in Space
  \/ \E k \in 1..Len(tokens) : IsWord(tokens[k]) /\ i = To(tokens[k]) + 1

\* the lexer is done with the first m characters
Behind(m) ==
  /\ \A k \in 1..Len(tokens) : To(tokens[k]) <= m
  /\ \A i \in 1..m : Accounted(i)

InOrder == \A k \in 2..Len(tokens) : To(tokens[k - 1]) <= tokens[k].from

\* pushed is the source from lo on
Lexeme(lo) == \A i \in 1..Len(pushed) : pushed[i] = file[lo + i]

\* what id() has pushed: letters, of which the first is a lower one
Word ==
  /\ from \in Nat /\ Behind(from) /\ Lexeme(from)
  /\ \A i \in 1..Len(pushed) : pushed[i] \in Alpha
  /\ Len(pushed) > 0 => pushed[1] \in Lower

\* what str() has pushed, behind the quote
Literal ==
  /\ from \in 0..(Len(file) - 1) /\ Behind(from) /\ file[from + 1] = QUOTE
  /\ Lexeme(from + 1)
  /\ \A i \in 1..Len(pushed) : pushed[i] # QUOTE

WordEnd    == from + Len(pushed)
LiteralEnd == from + 1 + Len(pushed)

AtNext     == pc = "next" => Behind(Len(got))
AtDispatch == pc = "dispatch" => Read(Before) /\ Behind(Before) /\ c \notin Space
AtId       == pc = "id" => Word /\ Read(WordEnd) /\ (pushed = <<>> => c \in Lower)
AtStr      == pc = "str" => Literal /\ Len(got) = LiteralEnd
AtStrPush  == pc = "str_push" => Literal /\ Read(LiteralEnd) /\ c \notin {QUOTE, EOF}
AtStrEnd   == pc = "str_end" => Literal /\ Read(LiteralEnd) /\ c \in {QUOTE, EOF}
AtDone     == pc = "done" => Behind(Len(file))

AtMain ==
  pc = "main" =>
    CASE l_type = "TT_EOF"     -> Behind(Len(file))
      [] l_type = "TT_ASSIGN"  -> /\ from \in Nat /\ Behind(from) /\ Len(got) = from + 1
                                  /\ from < Len(file) /\ file[from + 1] = ASSIGN
      [] l_type = "TT_STR_LIT" -> Literal /\ Read(LiteralEnd) /\ c = QUOTE
      [] OTHER                 -> /\ Word /\ Read(WordEnd) /\ c \notin Alpha
                                  /\ Len(pushed) > 0
                                  /\ (l_type = "TT_STR") = (pushed = KWORD)

Tokens == TokensAreSource /\ MaximalMunch /\ InOrder

Control == AtNext /\ AtDispatch /\ AtId /\ AtStr /\ AtStrPush /\ AtStrEnd /\ AtMain /\ AtDone

Typed ==
  /\ l_type \in Types /\ l_putback = NUL
  /\ c \in (Byte \ {XFF}) \cup {EOF}
  /\ pc \in {"next", "dispatch", "id", "str", "str_push", "str_end",
             "main", "done", "exit"}
  /\ from \in -1..Len(file)
  /\ tokens \in Seq(Token)


LEMMA Sizes ==
  ASSUME Text, BufInv, DstrInv
  PROVE  /\ file \in Seq(Byte \ {NUL, XFF}) /\ Len(file) \in Nat
         /\ Len(got) \in Nat /\ Len(got) <= Len(file)
         /\ pushed \in Seq(Byte \ {NUL}) /\ Len(pushed) \in Nat
<1>1. file \in Sources /\ off \in 0..Len(file) /\ got \in Seq(Byte) /\ Len(got) <= off
  BY DEF BufInv, BP!StdioInv, BP!Stdio!TypeOK, BP!Prefix, BP!Delivered
<1>2. file \in Seq(Byte \ {NUL, XFF})
  BY <1>1 DEF Text
<1>. QED  BY <1>1, <1>2, DstrText

\* lex_getc() takes the next character of the source, or BUF_EOF
LEMMA LexGetcStep ==
  ASSUME Text, SIZE > 1, BufInv, DstrInv, Typed, LexGetc, NEW m, m = Len(got)
  PROVE  /\ BufInv' /\ UNCHANGED <<file, l_putback>> /\ Read(m)'
         /\ c' \in (Byte \ {NUL, XFF}) \cup {EOF}
         /\ c' = EOF <=> m = Len(file)
<1>1. B!Getc /\ c' = ret' /\ UNCHANGED l_putback
  BY DEF LexGetc, Typed
<1>2. /\ BufInv' /\ UNCHANGED file
      /\ IF m < Len(file)
           THEN ret' = file[m + 1] /\ got' = Append(got, ret')
           ELSE ret' = EOF /\ got' = got
  BY <1>1, GetcStep
<1>3. /\ file \in Seq(Byte \ {NUL, XFF}) /\ Len(file) \in Nat
      /\ m \in Nat /\ m <= Len(file) /\ Len(got) = m
  BY Sizes
<1>4. got \in Seq(Byte)
  BY DEF BufInv, BP!StdioInv, BP!Stdio!TypeOK
<1>5. CASE m < Len(file)
  <2>1. m + 1 \in 1..Len(file)
    BY <1>3, <1>5
  <2>2. file[m + 1] \in Byte \ {NUL, XFF}
    BY <1>3, <2>1
  <2>3. Len(got') = m + 1
    BY <1>2, <1>3, <1>4, <1>5, <2>2
  <2>. QED  BY <1>1, <1>2, <1>3, <1>5, <2>2, <2>3, LexAssumption DEF Read
<1>6. CASE m = Len(file)
  <2>1. c' = EOF /\ got' = got /\ file' = file /\ ~(m < Len(file)) /\ BufInv'
    BY <1>1, <1>2, <1>3, <1>6
  <2>2. Read(m)'
    <3>1. m \in 0..m /\ ~(m < m)
      BY <1>3
    <3>2. Len(got') = m /\ Len(file') = m
      BY <1>6, <2>1
    <3>. QED  BY <2>1, <3>1, <3>2 DEF Read
  <2>. QED  BY <1>1, <1>6, <2>1, <2>2
<1>. QED  BY <1>3, <1>5, <1>6

LEMMA BufKept ==
  ASSUME Text, BufInv, UNCHANGED buf \/ B!GetcDies \/ B!Free
  PROVE  BufInv' /\ UNCHANGED <<file, got>>
<1>. BP!NoXff
  BY LexAssumption DEF Text, BP!NoXff
<1>1. CASE UNCHANGED buf
  <2>1. UNCHANGED BP!Stdio!bufvars
    BY <1>1 DEF buf, BP!Stdio!bufvars
  <2>. QED  BY <1>1, <2>1, BufAssumptions, BP!StdioOtherSteps DEF BufInv, buf
<1>2. CASE B!GetcDies \/ B!Free
  <2>1. BP!Stdio!GetcDies \/ BP!Stdio!Free
    BY <1>2, BufOtherSame
  <2>2. UNCHANGED <<file, got, base>>
    BY <1>2 DEF B!GetcDies, B!Free
  <2>. QED  BY <2>1, <2>2, BufAssumptions, BP!StdioOtherSteps DEF BufInv
<1>. QED  BY <1>1, <1>2

-----------------------------------------------------------------------------
(* Tokens *)

GoodToken(t) ==
  /\ To(t) <= Len(file) /\ SubSeq(file, t.from + 1, To(t)) = Spelling(t)
  /\ t.type = "TT_ID" => t.text # KWORD /\ t.text[1] \in Lower
                           /\ Range(t.text) \subseteq Alpha
  /\ t.type = "TT_STR_LIT" => QUOTE \notin Range(t.text)
  /\ IsWord(t) /\ To(t) < Len(file) => file[To(t) + 1] \notin Alpha

LEMMA TokensAreGood ==
  (TokensAreSource /\ MaximalMunch) <=> \A k \in 1..Len(tokens) : GoodToken(tokens[k])
BY DEF TokensAreSource, MaximalMunch, GoodToken

LEMMA TokenSpan ==
  ASSUME NEW t \in Token
  PROVE  To(t) \in Nat /\ t.from \in Nat /\ t.from <= To(t) /\ t.type \in Types
<1>1. t.from \in Nat /\ t.text \in Seq(Byte) /\ t.type \in Types
  BY DEF Token
<1>2. Len(Spelling(t)) \in Nat
  <2>1. CASE t.type = "TT_STR"
    BY <2>1, LexAssumption DEF Spelling
  <2>2. CASE t.type = "TT_ASSIGN"
    BY <2>2 DEF Spelling
  <2>3. CASE t.type = "TT_STR_LIT"
    <3>1. <<QUOTE>> \o t.text \o <<QUOTE>> \in Seq(Byte)
      BY <1>1 DEF Byte
    <3>. QED  BY <2>3, <3>1 DEF Spelling
  <2>4. CASE t.type \notin {"TT_STR", "TT_ASSIGN", "TT_STR_LIT"}
    BY <1>1, <2>4 DEF Spelling
  <2>. QED  BY <2>1, <2>2, <2>3, <2>4
<1>. QED  BY <1>1, <1>2 DEF To

\* what the lexer has done stays done while main prints nothing
LEMMA TokensKept ==
  ASSUME Tokens, UNCHANGED <<file, tokens>>
  PROVE  Tokens' /\ \A m : Behind(m)' <=> Behind(m)
<1>1. Tokens'
  BY DEF Tokens, TokensAreSource, MaximalMunch, InOrder, To, IsWord, Spelling
<1>2. ASSUME NEW m PROVE Behind(m)' <=> Behind(m)
  BY DEF Behind, Accounted, InToken, Within, To, IsWord, Spelling
<1>. QED  BY <1>1, <1>2

\* main prints one token more
LEMMA NewToken ==
  ASSUME Tokens, tokens \in Seq(Token), Len(file) \in Nat, NEW t \in Token, GoodToken(t),
         Behind(t.from), tokens' = Append(tokens, t), UNCHANGED file
  PROVE  /\ Tokens' /\ tokens' \in Seq(Token)
         /\ Behind(To(t))'
         /\ IsWord(t) => Behind(To(t) + 1)'
<1>1. /\ Len(tokens) \in Nat /\ tokens' \in Seq(Token) /\ Len(tokens') = Len(tokens) + 1
      /\ \A k \in 1..Len(tokens) : tokens'[k] = tokens[k]
      /\ tokens'[Len(tokens) + 1] = t
  OBVIOUS
<1>2. \A k \in 1..Len(tokens) : tokens[k] \in Token
  OBVIOUS
<1>3. To(t) \in Nat /\ t.from \in Nat /\ t.from <= To(t)
  BY TokenSpan
<1>4. \A k \in 1..Len(tokens') : GoodToken(tokens'[k])
  <2>1. \A k \in 1..Len(tokens) : GoodToken(tokens[k])
    BY TokensAreGood DEF Tokens
  <2>. QED  BY <1>1, <2>1
<1>5. (TokensAreSource /\ MaximalMunch)'
  BY <1>4 DEF TokensAreSource, MaximalMunch, GoodToken, To, IsWord, Spelling
<1>6. InOrder'
  <2>. SUFFICES ASSUME NEW k \in 2..Len(tokens') PROVE To(tokens'[k - 1]) <= tokens'[k].from
    BY DEF InOrder, To, Spelling
  <2>1. k - 1 \in 1..Len(tokens)
    BY <1>1
  <2>2. CASE k = Len(tokens) + 1
    BY <1>1, <2>1, <2>2 DEF Behind
  <2>3. CASE k # Len(tokens) + 1
    BY <1>1, <2>1, <2>3 DEF Tokens, InOrder
  <2>. QED  BY <2>2, <2>3
<1>7. \A i : InToken(i) => InToken(i)'
  BY <1>1 DEF InToken, Within, To, Spelling
<1>8. ASSUME NEW i, Accounted(i) PROVE Accounted(i)'
  BY <1>1, <1>7, <1>8 DEF Accounted, IsWord, To, Spelling
<1>9. ASSUME NEW i \in (t.from + 1)..To(t) PROVE Accounted(i)'
  BY <1>1 DEF Accounted, InToken, Within, To, Spelling
<1>10. \A k \in 1..Len(tokens') : To(tokens'[k]) <= To(t)
  <2>1. \A k \in 1..Len(tokens) : To(tokens[k]) \in Nat /\ To(tokens[k]) <= t.from
    BY <1>2, TokenSpan DEF Behind
  <2>. QED  BY <1>1, <1>3, <2>1
<1>11. \A i \in 1..To(t) : Accounted(i)'
  <2>. SUFFICES ASSUME NEW i \in 1..To(t) PROVE Accounted(i)'
    OBVIOUS
  <2>1. CASE i <= t.from
    BY <1>3, <1>8, <2>1 DEF Behind
  <2>2. CASE ~(i <= t.from)
    BY <1>3, <1>9, <2>2
  <2>. QED  BY <2>1, <2>2
<1>12. Behind(To(t))'
  BY <1>10, <1>11 DEF Behind, To, Spelling
<1>13. ASSUME IsWord(t) PROVE Behind(To(t) + 1)'
  <2>1. Accounted(To(t) + 1)'
    BY <1>1, <1>13 DEF Accounted, IsWord, To, Spelling
  <2>2. \A i \in 1..(To(t) + 1) : Accounted(i)'
    BY <1>3, <1>11, <2>1
  <2>3. \A k \in 1..Len(tokens') : To(tokens'[k]) <= To(t) + 1
    <3>1. \A k \in 1..Len(tokens') : To(tokens'[k]) \in Nat
      BY <1>1, TokenSpan
    <3>. QED  BY <1>3, <1>10, <3>1
  <2>. QED  BY <2>2, <2>3 DEF Behind, To, Spelling
<1>. QED  BY <1>1, <1>5, <1>6, <1>12, <1>13 DEF Tokens

-----------------------------------------------------------------------------
(* The steps *)

Inv == BufInv /\ DstrInv /\ Typed /\ Tokens /\ Control

LEMMA InitInv == ASSUME Text, SIZE > 1 PROVE Init => Inv
<1>. SUFFICES ASSUME Init PROVE Inv
  OBVIOUS
<1>1. BufInv
  <2>1. BP!Stdio!Init /\ base = 0
    BY BufOtherSame DEF Init, B!Init
  <2>2. file \in Sources
    BY DEF Init, B!Init
  <2>3. file \in Seq(Byte \ {NUL, XFF})
    BY <2>2 DEF Text
  <2>4. \A i \in 1..Len(file) : file[i] # NUL
    BY <2>3
  <2>5. file \in BP!Texts /\ BP!NoXff
    BY <2>2, <2>4 DEF Text, BP!Texts, BP!NoXff
  <2>. QED  BY <2>1, <2>5, BufAssumptions, BP!StdioInitInv DEF BufInv
<1>2. DstrInv
  <2>1. DP!Init
    BY DstrSame DEF Init
  <2>2. DP!Inv
    BY <2>1, DstrAssumptions, DP!InitInv
  <2>3. DP!ContentsOk /\ d_cur # "null"
    BY <2>1 DEF DP!Init, DP!ContentsOk
  <2>. QED  BY <2>2, <2>3 DEF DstrInv
<1>3. Len(file) \in Nat
  BY <1>1, <1>2, Sizes
<1>4. Typed
  <2>1. -1 <= 0 /\ 0 <= Len(file)
    BY <1>3
  <2>. QED  BY <2>1, LexAssumption DEF Init, Typed, Types, Byte
<1>5. Tokens
  BY DEF Init, Tokens, TokensAreSource, MaximalMunch, InOrder
<1>6. Control
  BY DEF Init, B!Init, Control, AtNext, AtDispatch, AtId, AtStr, AtStrPush, AtStrEnd, AtMain,
         AtDone, Behind
<1>. QED  BY <1>1, <1>2, <1>4, <1>5, <1>6 DEF Inv

\* the facts that every step keeps
LEMMA StillTyped ==
  ASSUME Typed, UNCHANGED <<file, l_putback, from, tokens>>,
         c' \in (Byte \ {XFF}) \cup {EOF}, l_type' \in Types,
         pc' \in {"next", "dispatch", "id", "str", "str_push", "str_end",
                  "main", "done", "exit"}
  PROVE  Typed'
BY DEF Typed

\* only the loop that runs next has something to keep
LEMMA OneLoop ==
  ASSUME pc' = "next" => AtNext', pc' = "dispatch" => AtDispatch', pc' = "id" => AtId',
         pc' = "str" => AtStr', pc' = "str_push" => AtStrPush', pc' = "str_end" => AtStrEnd',
         pc' = "main" => AtMain', pc' = "done" => AtDone'
  PROVE  Control'
BY DEF Control, AtNext, AtDispatch, AtId, AtStr, AtStrPush, AtStrEnd, AtMain, AtDone

LEMMA NextSkipStep ==
  ASSUME Text, SIZE > 1, Inv, NextSkip
  PROVE  Inv'
<1>. PICK n : n = Len(got)
  OBVIOUS
<1>1. /\ pc = "next" /\ LexGetc /\ UNCHANGED <<dstr, l_type, from, tokens>>
      /\ pc' = IF c' \in Space THEN "next" ELSE "dispatch"
  BY DEF NextSkip
<1>2. /\ BufInv' /\ UNCHANGED <<file, l_putback>> /\ Read(n)'
      /\ c' \in (Byte \ {NUL, XFF}) \cup {EOF}
      /\ c' = EOF <=> n = Len(file)
  BY <1>1, LexGetcStep DEF Inv
<1>3. n \in Nat /\ n <= Len(file) /\ Len(file) \in Nat
  BY Sizes DEF Inv
<1>4. Behind(n) /\ Tokens' /\ \A m : Behind(m)' <=> Behind(m)
  BY <1>1, <1>2, TokensKept DEF Inv, Control, AtNext
<1>5. DstrInv'
  BY <1>1, DstrKept DEF Inv
<1>6. Typed'
  BY <1>1, <1>2, StillTyped DEF Inv, Typed
<1>7. CASE c' \in Space
  <2>1. c' # EOF /\ n < Len(file) /\ c' = file[n + 1] /\ Len(got)' = n + 1
    BY <1>2, <1>3, <1>7, LexAssumption DEF Read, Byte
  <2>2. Behind(n + 1)
    <3>1. Accounted(n + 1)
      BY <1>7, <2>1 DEF Accounted
    <3>2. \A k \in 1..Len(tokens) : To(tokens[k]) \in Nat
      BY TokenSpan DEF Inv, Typed
    <3>. QED  BY <1>3, <1>4, <3>1, <3>2 DEF Behind
  <2>3. AtNext'
    <3>1. Behind(n + 1)'
      BY <1>4, <2>2
    <3>. QED  BY <2>1, <3>1 DEF AtNext, Behind
  <2>. QED  BY <1>1, <1>7, <2>3, <1>2, <1>4, <1>5, <1>6, OneLoop DEF Inv
<1>8. CASE c' \notin Space
  <2>1. Before' = n
    BY <1>2, <1>3 DEF Before, Read
  <2>2. AtDispatch'
    BY <1>2, <1>4, <1>8, <2>1 DEF AtDispatch, Behind, Read
  <2>. QED  BY <1>1, <1>8, <2>2, <1>2, <1>4, <1>5, <1>6, OneLoop DEF Inv
<1>. QED  BY <1>7, <1>8

LEMMA DispatchStep ==
  ASSUME Text, SIZE > 1, Inv, Dispatch
  PROVE  Inv'
<1>. PICK m : m = Before
  OBVIOUS
<1>1. /\ pc = "dispatch" /\ D!Clear /\ from' = Len(got) - 1
      /\ UNCHANGED <<buf, l_putback, c, tokens>>
  BY DEF Dispatch
<1>2. UNCHANGED <<file, got>> /\ BufInv'
  BY <1>1, BufKept DEF Inv, buf
<1>3. DstrInv' /\ pushed' = <<>>
  BY <1>1, ClearStep DEF Inv
<1>4. Len(got) \in Nat /\ Len(got) <= Len(file) /\ Len(file) \in Nat
  BY Sizes DEF Inv
<1>5. Read(m) /\ Behind(m) /\ c \notin Space
  BY <1>1 DEF Inv, Control, AtDispatch
<1>6. Tokens' /\ Behind(m)'
  BY <1>1, <1>2, <1>5, TokensKept DEF Inv
<1>7. /\ l_type' \in Types
      /\ pc' \in {"id", "str", "main", "exit"}
      /\ c = EOF => pc' = "main" /\ l_type' = "TT_EOF"
      /\ c # EOF /\ pc' = "id" => c \in Lower
      /\ c # EOF /\ pc' = "str" => c = QUOTE
      /\ c # EOF /\ pc' = "main" => c = ASSIGN /\ l_type' = "TT_ASSIGN"
  <2>1. CASE c = EOF
    BY <2>1 DEF Dispatch, Types
  <2>2. CASE c # EOF
    BY <2>2 DEF Dispatch, CHAR_FN, Types, Inv, Typed
  <2>. QED  BY <2>1, <2>2
<1>8. Typed'
  <2>1. from' \in -1..Len(file)
    BY <1>1, <1>4
  <2>. QED  BY <1>1, <1>2, <1>7, <2>1 DEF Inv, Typed
<1>9. CASE c = EOF
  <2>1. m = Len(file)'
    BY <1>2, <1>4, <1>5, <1>9 DEF Before, Read
  <2>2. AtMain'
    BY <1>6, <1>7, <1>9, <2>1 DEF AtMain, Behind
  <2>. QED  BY <1>7, <1>9, <2>2, <1>2, <1>3, <1>6, <1>8, OneLoop DEF Inv
<1>10. CASE c # EOF
  <2>1. /\ from' = m /\ from' \in Nat /\ from' < Len(file) /\ c = file[from' + 1]
        /\ Len(got) = from' + 1
    BY <1>1, <1>4, <1>5, <1>10 DEF Before, Read
  <2>2. Behind(from)'
    BY <1>6, <2>1 DEF Behind
  <2>3. pc' = "id" => AtId'
    BY <1>1, <1>2, <1>3, <1>4, <1>7, <1>10, <2>1, <2>2
       DEF AtId, Word, Lexeme, WordEnd, Read
  <2>4. pc' = "str" => AtStr'
    BY <1>1, <1>2, <1>3, <1>4, <1>7, <1>10, <2>1, <2>2
       DEF AtStr, Literal, Lexeme, LiteralEnd
  <2>5. pc' = "main" => AtMain'
    BY <1>1, <1>2, <1>3, <1>4, <1>7, <1>10, <2>1, <2>2 DEF AtMain
  <2>. QED  BY <1>7, <2>3, <2>4, <2>5, <1>2, <1>3, <1>6, <1>8, OneLoop DEF Inv
<1>. QED  BY <1>9, <1>10

\* one letter more
LEMMA Longer ==
  ASSUME pushed \in Seq(Byte), Len(file) \in Nat, NEW lo \in Nat, Lexeme(lo),
         Read(lo + Len(pushed)), c # EOF,
         pushed' = Append(pushed, c), UNCHANGED file
  PROVE  Lexeme(lo)' /\ Len(pushed') = Len(pushed) + 1
<1>1. Len(pushed') = Len(pushed) + 1 /\ Len(pushed) \in Nat
  OBVIOUS
<1>2. c = file[lo + (Len(pushed) + 1)]
  BY <1>1 DEF Read
<1>3. ASSUME NEW i \in 1..Len(pushed') PROVE pushed'[i] = file[lo + i]
  BY <1>1, <1>2 DEF Lexeme
<1>. QED  BY <1>1, <1>3 DEF Lexeme

LEMMA IdPushStep ==
  ASSUME Text, SIZE > 1, Inv, IdPush
  PROVE  Inv'
<1>. PICK n : n = Len(got)
  OBVIOUS
<1>1. /\ pc = "id" /\ c \in Alpha /\ D!Push(c) /\ LexGetc
      /\ UNCHANGED <<l_type, pc, from, tokens>>
  BY DEF IdPush
<1>2. /\ BufInv' /\ UNCHANGED <<file, l_putback>> /\ Read(n)'
      /\ c' \in (Byte \ {NUL, XFF}) \cup {EOF}
  BY <1>1, LexGetcStep DEF Inv
<1>3. /\ n \in Nat /\ n <= Len(file) /\ Len(file) \in Nat
      /\ pushed \in Seq(Byte) /\ Len(pushed) \in Nat
  BY Sizes DEF Inv
<1>4. c \in Byte \ {NUL} /\ c # EOF
  BY <1>1, LexAssumption DEF Byte
<1>5. DstrInv' /\ pushed' = Append(pushed, c)
  BY <1>1, <1>4, PushStep DEF Inv
<1>6. /\ Word /\ Read(WordEnd) /\ (pushed = <<>> => c \in Lower)
  BY <1>1 DEF Inv, Control, AtId
<1>7. Tokens' /\ Behind(from)'
  BY <1>1, <1>2, <1>6, TokensKept DEF Inv, Word, Behind
<1>8. Typed'
  BY <1>1, <1>2, StillTyped DEF Inv, Typed
<1>9. Lexeme(from)' /\ Len(pushed') = Len(pushed) + 1
  BY <1>1, <1>2, <1>3, <1>4, <1>5, <1>6, Longer DEF Word, WordEnd, Lexeme
<1>10. /\ \A i \in 1..Len(pushed') : pushed'[i] \in Alpha
       /\ pushed'[1] \in Lower
  BY <1>1, <1>3, <1>5, <1>6, <1>9 DEF Word
<1>11. n = WordEnd' /\ pushed' # <<>>
  BY <1>1, <1>3, <1>4, <1>6, <1>9 DEF Word, WordEnd, Read
<1>12. AtId'
  BY <1>1, <1>2, <1>6, <1>7, <1>9, <1>10, <1>11 DEF AtId, Word, WordEnd, Read
<1>. QED  BY <1>1, <1>2, <1>5, <1>7, <1>8, <1>12, OneLoop DEF Inv

LEMMA IdEndStep ==
  ASSUME Text, SIZE > 1, Inv, IdEnd
  PROVE  Inv'
<1>1. /\ pc = "id" /\ c \notin Alpha /\ pc' = "main"
      /\ l_type' = (IF D!Contents = KWORD THEN "TT_STR" ELSE "TT_ID")
      /\ UNCHANGED <<buf, dstr, l_putback, c, from, tokens>>
  BY DEF IdEnd
<1>2. UNCHANGED <<file, got, pushed>> /\ BufInv' /\ DstrInv'
  BY <1>1, BufKept, DstrKept DEF Inv, buf, dstr
<1>3. D!Contents = pushed /\ pushed \in Seq(Byte)
  BY DstrText DEF Inv
<1>4. Tokens' /\ \A m : Behind(m)' <=> Behind(m)
  BY <1>1, <1>2, TokensKept DEF Inv
<1>5. /\ Word /\ Read(WordEnd) /\ (pushed = <<>> => c \in Lower)
  BY <1>1 DEF Inv, Control, AtId
<1>6. Len(pushed) > 0
  BY <1>1, <1>3, <1>5 DEF Alpha
<1>7. Typed'
  BY <1>1, <1>2, StillTyped DEF Inv, Typed, Types
<1>8. Behind(from)'
  BY <1>1, <1>2, <1>5, TokensKept DEF Inv, Word, Behind
<1>9. Word' /\ Read(WordEnd)' /\ c' \notin Alpha /\ Len(pushed') > 0
  BY <1>1, <1>2, <1>5, <1>6, <1>8 DEF Word, Lexeme, Read, WordEnd
<1>10. AtMain'
  BY <1>1, <1>2, <1>3, <1>9 DEF AtMain
<1>. QED  BY <1>1, <1>2, <1>4, <1>7, <1>10, OneLoop DEF Inv

LEMMA StrGetcStep ==
  ASSUME Text, SIZE > 1, Inv, StrGetc
  PROVE  Inv'
<1>. PICK n : n = Len(got)
  OBVIOUS
<1>1. /\ pc = "str" /\ LexGetc /\ UNCHANGED <<dstr, l_type, from, tokens>>
      /\ pc' = IF c' \in {EOF, QUOTE} THEN "str_end" ELSE "str_push"
  BY DEF StrGetc
<1>2. /\ BufInv' /\ UNCHANGED <<file, l_putback>> /\ Read(n)'
      /\ c' \in (Byte \ {NUL, XFF}) \cup {EOF}
  BY <1>1, LexGetcStep DEF Inv
<1>3. DstrInv' /\ UNCHANGED pushed
  BY <1>1, DstrKept DEF Inv, dstr
<1>4. Literal /\ n = LiteralEnd
  BY <1>1 DEF Inv, Control, AtStr
<1>5. Tokens' /\ Behind(from)'
  BY <1>1, <1>2, <1>4, TokensKept DEF Inv, Literal, Behind
<1>6. Typed'
  BY <1>1, <1>2, StillTyped DEF Inv, Typed
<1>7. Literal' /\ Read(LiteralEnd)'
  BY <1>1, <1>2, <1>3, <1>4, <1>5 DEF Literal, LiteralEnd, Lexeme, Read
<1>8. Control'
  BY <1>1, <1>7, OneLoop DEF AtStrEnd, AtStrPush
<1>. QED  BY <1>2, <1>3, <1>5, <1>6, <1>8 DEF Inv

LEMMA StrPushStep ==
  ASSUME Text, SIZE > 1, Inv, StrPush
  PROVE  Inv'
<1>1. /\ pc = "str_push" /\ D!Push(c) /\ pc' = "str"
      /\ UNCHANGED <<buf, l_type, l_putback, c, from, tokens>>
  BY DEF StrPush
<1>2. UNCHANGED <<file, got>> /\ BufInv'
  BY <1>1, BufKept DEF Inv, buf
<1>3. Literal /\ Read(LiteralEnd) /\ c \notin {QUOTE, EOF}
  BY <1>1 DEF Inv, Control, AtStrPush
<1>4. /\ file \in Seq(Byte \ {NUL, XFF}) /\ Len(file) \in Nat
      /\ pushed \in Seq(Byte) /\ Len(pushed) \in Nat
  BY Sizes DEF Inv
<1>5. c \in Byte \ {NUL} /\ from \in Nat
  BY <1>3, <1>4 DEF Read, Literal, LiteralEnd
<1>6. DstrInv' /\ pushed' = Append(pushed, c)
  BY <1>1, <1>5, PushStep DEF Inv
<1>7. Tokens' /\ Behind(from)'
  BY <1>1, <1>2, <1>3, TokensKept DEF Inv, Literal, Behind
<1>8. Typed'
  BY <1>1, <1>2, StillTyped DEF Inv, Typed
<1>9. Lexeme(from + 1)' /\ Len(pushed') = Len(pushed) + 1
  <2>. PICK lo \in Nat : lo = from + 1
    BY <1>5
  <2>1. Lexeme(lo) /\ Read(lo + Len(pushed)) /\ c # EOF /\ UNCHANGED file
    BY <1>2, <1>3 DEF Literal, LiteralEnd
  <2>2. Lexeme(lo)' /\ Len(pushed') = Len(pushed) + 1
    BY <1>4, <1>6, <2>1, Longer
  <2>. QED  BY <1>1, <2>2 DEF Lexeme
<1>10. \A i \in 1..Len(pushed') : pushed'[i] # QUOTE
  BY <1>3, <1>4, <1>6, <1>9 DEF Literal
<1>11. Literal'
  BY <1>1, <1>2, <1>3, <1>7, <1>9, <1>10 DEF Literal
<1>12. Len(got)' = LiteralEnd'
  BY <1>1, <1>2, <1>3, <1>4, <1>5, <1>9 DEF Read, LiteralEnd
<1>. QED  BY <1>1, <1>2, <1>6, <1>7, <1>8, <1>11, <1>12, OneLoop DEF Inv, AtStr

LEMMA StrEndStep ==
  ASSUME Text, SIZE > 1, Inv, StrEnd
  PROVE  Inv'
<1>1. /\ pc = "str_end" /\ l_type' = "TT_STR_LIT"
      /\ pc' = IF c = QUOTE THEN "main" ELSE "exit"
      /\ UNCHANGED <<buf, dstr, l_putback, c, from, tokens>>
  BY DEF StrEnd
<1>2. UNCHANGED <<file, got, pushed>> /\ BufInv' /\ DstrInv'
  BY <1>1, BufKept, DstrKept DEF Inv, buf, dstr
<1>3. Literal /\ Read(LiteralEnd)
  BY <1>1 DEF Inv, Control, AtStrEnd
<1>4. Tokens' /\ Behind(from)'
  BY <1>1, <1>2, <1>3, TokensKept DEF Inv, Literal, Behind
<1>5. Typed'
  BY <1>1, <1>2, StillTyped DEF Inv, Typed, Types
<1>6. Literal' /\ Read(LiteralEnd)'
  BY <1>1, <1>2, <1>3, <1>4 DEF Literal, LiteralEnd, Lexeme, Read
<1>7. pc' = "main" => AtMain'
  BY <1>1, <1>6 DEF AtMain
<1>. QED  BY <1>1, <1>2, <1>4, <1>5, <1>7, OneLoop DEF Inv

\* the characters of the source from lo on are those of a sequence s
LEMMA SourcePart ==
  ASSUME file \in Seq(Byte), NEW s \in Seq(Byte), NEW lo \in Nat, lo + Len(s) <= Len(file),
         \A i \in 1..Len(s) : s[i] = file[lo + i]
  PROVE  SubSeq(file, lo + 1, lo + Len(s)) = s
<1>. DEFINE part == SubSeq(file, lo + 1, lo + Len(s))
<1>1. part \in Seq(Byte) /\ Len(part) = Len(s) /\ Len(s) \in Nat
  OBVIOUS
<1>2. \A i \in 1..Len(s) : part[i] = file[lo + i]
  OBVIOUS
<1>. HIDE DEF part
<1>3. part = s
  BY <1>1, <1>2, SeqEqual
<1>. QED  BY <1>3 DEF part

Printed ==
  [type |-> l_type, from |-> from,
   text |-> IF l_type \in {"TT_ID", "TT_STR_LIT"} THEN pushed ELSE <<>>]

\* the token main is about to print is good, and accounts for what was read
LEMMA PrintedIsGood ==
  ASSUME Text, Inv, pc = "main", l_type # "TT_EOF"
  PROVE  /\ Printed \in Token /\ GoodToken(Printed) /\ Behind(from)
         /\ \/ Len(got) = To(Printed)
            \/ Len(got) = To(Printed) + 1 /\ IsWord(Printed)
<1>1. /\ file \in Seq(Byte) /\ Len(file) \in Nat
      /\ pushed \in Seq(Byte) /\ Len(pushed) \in Nat
  BY Sizes DEF Inv
<1>2. /\ Printed.type = l_type /\ Printed.from = from /\ l_type \in Types
      /\ Printed.text = IF l_type \in {"TT_ID", "TT_STR_LIT"} THEN pushed ELSE <<>>
  BY DEF Printed, Inv, Typed
<1>3. ASSUME from \in Nat PROVE Printed \in Token
  BY <1>1, <1>2, <1>3 DEF Printed, Token
<1>4. CASE l_type = "TT_ASSIGN"
  <2>1. /\ from \in Nat /\ Behind(from) /\ Len(got) = from + 1
        /\ from < Len(file) /\ file[from + 1] = ASSIGN
    BY <1>4 DEF Inv, Control, AtMain
  <2>2. Spelling(Printed) = <<ASSIGN>> /\ To(Printed) = from + 1
    BY <1>2, <1>4, <2>1 DEF Spelling, To
  <2>3. SubSeq(file, from + 1, from + 1) = <<ASSIGN>>
    <3>. DEFINE s == <<ASSIGN>>
    <3>1. s \in Seq(Byte) /\ Len(s) = 1 /\ s[1] = ASSIGN
      BY DEF Byte
    <3>2. \A i \in 1..Len(s) : s[i] = file[from + i]
      BY <2>1, <3>1
    <3>. HIDE DEF s
    <3>3. SubSeq(file, from + 1, from + Len(s)) = s
      BY <1>1, <2>1, <3>1, <3>2, SourcePart
    <3>. QED  BY <3>1, <3>3 DEF s
  <2>4. GoodToken(Printed)
    BY <1>1, <1>2, <1>4, <2>1, <2>2, <2>3 DEF GoodToken, IsWord
  <2>. QED  BY <1>3, <2>1, <2>2, <2>4
<1>5. CASE l_type = "TT_STR_LIT"
  <2>1. Literal /\ Read(LiteralEnd) /\ c = QUOTE
    BY <1>5 DEF Inv, Control, AtMain
  <2>2. /\ from \in Nat /\ Behind(from) /\ file[from + 1] = QUOTE
        /\ \A i \in 1..Len(pushed) : pushed[i] = file[from + 1 + i] /\ pushed[i] # QUOTE
        /\ LiteralEnd < Len(file) /\ file[LiteralEnd + 1] = QUOTE
        /\ Len(got) = LiteralEnd + 1 /\ LiteralEnd = from + 1 + Len(pushed)
    BY <1>1, <2>1, LexAssumption DEF Literal, Read, Lexeme, LiteralEnd, Byte
  <2>. DEFINE s == <<QUOTE>> \o pushed \o <<QUOTE>>
  <2>3. s \in Seq(Byte) /\ Len(s) = Len(pushed) + 2
    BY <1>1 DEF Byte
  <2>4. \A i \in 1..Len(s) : s[i] = file[from + i]
    <3>. SUFFICES ASSUME NEW i \in 1..(Len(pushed) + 2) PROVE s[i] = file[from + i]
      BY <2>3
    <3>1. CASE i = 1
      BY <1>1, <2>2, <3>1
    <3>2. CASE i = Len(pushed) + 2
      BY <1>1, <2>2, <3>2
    <3>3. CASE i \in 2..(Len(pushed) + 1)
      <4>1. s[i] = pushed[i - 1] /\ i - 1 \in 1..Len(pushed)
        BY <1>1, <3>3
      <4>2. from + 1 + (i - 1) = from + i
        BY <2>2
      <4>. QED  BY <2>2, <4>1, <4>2
    <3>. QED  BY <1>1, <3>1, <3>2, <3>3
  <2>. HIDE DEF s
  <2>5. Spelling(Printed) = s /\ To(Printed) = from + Len(s)
    BY <1>2, <1>5 DEF Spelling, To, s
  <2>6. SubSeq(file, from + 1, from + Len(s)) = s /\ from + Len(s) <= Len(file)
    BY <1>1, <2>2, <2>3, <2>4, SourcePart
  <2>7. QUOTE \notin Range(pushed)
    BY <1>1, <2>2 DEF Range
  <2>8. GoodToken(Printed)
    BY <1>2, <1>5, <2>5, <2>6, <2>7 DEF GoodToken, IsWord
  <2>. QED  BY <1>1, <1>3, <2>2, <2>3, <2>5, <2>8
<1>6. CASE l_type \in {"TT_ID", "TT_STR"}
  <2>1. /\ Word /\ Read(WordEnd) /\ c \notin Alpha /\ Len(pushed) > 0
        /\ (l_type = "TT_STR") = (pushed = KWORD)
    BY <1>6 DEF Inv, Control, AtMain
  <2>2. Spelling(Printed) = pushed /\ To(Printed) = WordEnd /\ IsWord(Printed)
    BY <1>2, <1>6, <2>1 DEF Spelling, To, IsWord, WordEnd
  <2>3. /\ from \in Nat /\ WordEnd = from + Len(pushed) /\ WordEnd <= Len(file)
        /\ \A i \in 1..Len(pushed) : pushed[i] = file[from + i]
    BY <1>1, <2>1 DEF Word, Read, WordEnd, Lexeme
  <2>4. SubSeq(file, from + 1, WordEnd) = pushed
    BY <1>1, <2>3, SourcePart
  <2>5. Range(pushed) \subseteq Alpha /\ pushed[1] \in Lower
    BY <1>1, <2>1 DEF Word, Range
  <2>6. WordEnd < Len(file) => file[WordEnd + 1] \notin Alpha
    BY <2>1 DEF Read
  <2>7. GoodToken(Printed)
    BY <1>2, <1>6, <2>1, <2>2, <2>3, <2>4, <2>5, <2>6 DEF GoodToken
  <2>. QED  BY <1>3, <2>1, <2>2, <2>3, <2>7 DEF Word, Read
<1>. QED  BY <1>2, <1>4, <1>5, <1>6 DEF Types

LEMMA PrintTokenStep ==
  ASSUME Text, SIZE > 1, Inv, PrintToken
  PROVE  Inv'
<1>. PICK t : t = Printed
  OBVIOUS
<1>1. /\ pc = "main" /\ l_type # "TT_EOF" /\ pc' = "next"
      /\ tokens' = Append(tokens, t)
      /\ UNCHANGED <<buf, dstr, l_type, l_putback, c, from>>
  BY DstrText DEF PrintToken, Printed, Inv
<1>2. UNCHANGED <<file, got, pushed>> /\ BufInv' /\ DstrInv'
  BY <1>1, BufKept, DstrKept DEF Inv, buf, dstr
<1>3. /\ t \in Token /\ GoodToken(t) /\ Behind(t.from)
      /\ \/ Len(got) = To(t)
         \/ Len(got) = To(t) + 1 /\ IsWord(t)
  BY <1>1, PrintedIsGood DEF Printed
<1>4. /\ Tokens' /\ tokens' \in Seq(Token)
      /\ Behind(To(t))'
      /\ IsWord(t) => Behind(To(t) + 1)'
  BY <1>1, <1>2, <1>3, Sizes, NewToken DEF Inv, Typed
<1>5. AtNext'
  BY <1>2, <1>3, <1>4 DEF AtNext, Behind, To, Spelling
<1>6. Typed'
  BY <1>1, <1>2, <1>4 DEF Inv, Typed
<1>. QED  BY <1>1, <1>2, <1>4, <1>5, <1>6, OneLoop DEF Inv

LEMMA FinishStep ==
  ASSUME Text, SIZE > 1, Inv, Finish
  PROVE  Inv'
<1>1. /\ pc = "main" /\ l_type = "TT_EOF" /\ B!Free /\ pc' = "done"
      /\ UNCHANGED <<dstr, l_type, l_putback, c, from, tokens>>
  BY DEF Finish
<1>2. UNCHANGED <<file, got>> /\ BufInv' /\ DstrInv'
  BY <1>1, BufKept, DstrKept DEF Inv
<1>3. Behind(Len(file))
  BY <1>1 DEF Inv, Control, AtMain
<1>4. Tokens' /\ Behind(Len(file))'
  BY <1>1, <1>2, <1>3, TokensKept DEF Inv, Behind
<1>5. Typed'
  BY <1>1, <1>2, StillTyped DEF Inv, Typed
<1>. QED  BY <1>1, <1>2, <1>4, <1>5, OneLoop DEF Inv, AtDone

LEMMA DiesStep ==
  ASSUME Text, SIZE > 1, Inv, Dies
  PROVE  Inv'
<1>1. pc' = "exit" /\ UNCHANGED <<l_type, l_putback, c, from, tokens>>
  BY DEF Dies
<1>2. UNCHANGED file /\ BufInv' /\ DstrInv'
  <2>1. CASE D!PushDies /\ UNCHANGED buf
    BY <2>1, BufKept, PushDiesStep DEF Inv
  <2>2. CASE B!GetcDies /\ UNCHANGED dstr
    BY <2>2, BufKept, DstrKept DEF Inv
  <2>. QED  BY <2>1, <2>2 DEF Dies
<1>3. Tokens'
  BY <1>1, <1>2, TokensKept DEF Inv
<1>4. Typed'
  BY <1>1, <1>2, StillTyped DEF Inv, Typed
<1>. QED  BY <1>1, <1>2, <1>3, <1>4, OneLoop DEF Inv

LEMMA StutterStep ==
  ASSUME Text, SIZE > 1, Inv, UNCHANGED vars
  PROVE  Inv'
<1>1. UNCHANGED <<buf, dstr, l_type, l_putback, c, pc, from, tokens>>
  BY DEF vars
<1>2. UNCHANGED <<file, got, pushed>> /\ BufInv' /\ DstrInv'
  BY <1>1, BufKept, DstrKept DEF Inv, buf, dstr
<1>3. Tokens' /\ \A m : Behind(m)' <=> Behind(m)
  BY <1>1, <1>2, TokensKept DEF Inv
<1>4. Typed'
  BY <1>1, <1>2, StillTyped DEF Inv, Typed
<1>5. Control'
  <2>. USE <1>1, <1>2 DEF Inv, Control, Behind, Accounted, InToken, Within, To, IsWord, Spelling
  <2>1. AtNext' /\ AtDone' /\ AtDispatch'
    BY DEF AtNext, AtDone, AtDispatch, Read, Before
  <2>2. AtId'
    BY DEF AtId, Word, Lexeme, WordEnd, Read
  <2>3. AtStr' /\ AtStrPush' /\ AtStrEnd'
    BY DEF AtStr, AtStrPush, AtStrEnd, Literal, Lexeme, LiteralEnd, Read
  <2>4. AtMain'
    BY DEF AtMain, Word, WordEnd, Literal, LiteralEnd, Lexeme, Read
  <2>. QED  BY <2>1, <2>2, <2>3, <2>4
<1>. QED  BY <1>2, <1>3, <1>4, <1>5 DEF Inv

LEMMA StepInv == ASSUME Text, SIZE > 1 PROVE Inv /\ [Next]_vars => Inv'
BY NextSkipStep, DispatchStep, IdPushStep, IdEndStep, StrGetcStep, StrPushStep, StrEndStep,
   PrintTokenStep, FinishStep, DiesStep, StutterStep DEF Next, Run

\* what each loop of lex.c has read is the source up to the reader
THEOREM Invariance == ASSUME Text, SIZE > 1 PROVE Spec => []Inv
<1>. QED  BY InitInv, StepInv, PTL DEF Spec

\* the lexer, the buf and the string it is built of keep their types
THEOREM TypeCorrect == ASSUME Text, SIZE > 1 PROVE Spec => []TypeOK
<1>1. Inv => TypeOK
  <2>. SUFFICES ASSUME Inv PROVE TypeOK
    OBVIOUS
  <2>1. B!TypeOK
    BY BufOtherSame DEF Inv, BufInv, BP!StdioInv
  <2>2. D!TypeOK
    BY DstrText DEF Inv
  <2>3. NUL \in Byte
    BY DEF Byte
  <2>. QED  BY <2>1, <2>2, <2>3 DEF Inv, Typed, TypeOK
<1>. QED  BY <1>1, Invariance, PTL

\* every token main prints is spelled in the source where it was dispatched
THEOREM TokensAreTheSource == ASSUME Text, SIZE > 1 PROVE Spec => []TokensAreSource
<1>1. Inv => TokensAreSource
  BY DEF Inv, Tokens
<1>. QED  BY <1>1, Invariance, PTL

\* id() (lex.c) takes every letter there is
THEOREM WordsAreMaximal == ASSUME Text, SIZE > 1 PROVE Spec => []MaximalMunch
<1>1. Inv => MaximalMunch
  BY DEF Inv, Tokens
<1>. QED  BY <1>1, Invariance, PTL

\* when main is done, every character is in one token, blank, or the one that
\* id() dropped behind a word
THEOREM NothingElseIsLost == ASSUME Text, SIZE > 1 PROVE Spec => []Accounting
<1>1. Inv => Accounting
  <2>. SUFFICES ASSUME Inv, pc = "done" PROVE Accounting
    BY DEF Accounting
  <2>1. Behind(Len(file)) /\ InOrder
    BY DEF Inv, Tokens, Control, AtDone
  <2>. QED  BY <2>1 DEF Accounting, Behind, Accounted, InOrder
<1>. QED  BY <1>1, Invariance, PTL
=============================================================================
