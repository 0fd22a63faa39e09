-------------------------------- MODULE Lex --------------------------------
(***************************************************************************)
(* The lexer, c/include/lex.h and c/src/lex.c, in the program that runs it, *)
(* c/main.c: struct lex reads characters from a buf_stdio on stdin         *)
(* (BufStdio) and collects the current lexeme in a dstr (Dstr); main prints *)
(* one token after the other until TT_EOF.                                 *)
(*                                                                         *)
(* A step is one pass of a loop of lex.c: one character at most is read.   *)
(***************************************************************************)
EXTENDS Integers, Sequences, Functions

CONSTANTS Lower, Upper, Space, Other,  \* the bytes, by what lex.c tells apart
          QUOTE, ASSIGN, NL,           \* '"', '=' and the newline, a Space
          KWORD,                       \* the spelling of the keyword, "str"
          NUL, XFF, EOF, Nothing, SIZE, Sources,     \* see BufStdio
          Junk, SHORT, DBUG, MaxLen            \* see Dstr

Alpha == Lower \cup Upper                                   \* isalpha()
Byte  == Alpha \cup Space \cup Other \cup {QUOTE, ASSIGN, NUL, XFF}

ASSUME LexAssumption ==
  /\ NL \in Space
  /\ KWORD \in Seq(Lower)
  /\ Lower \cap Upper = {} /\ Space \cap Other = {}
  /\ Alpha \cap (Space \cup Other) = {}
  /\ QUOTE # ASSIGN /\ NUL # XFF
  /\ {QUOTE, ASSIGN, NUL, XFF} \cap (Alpha \cup Space \cup Other) = {}
  /\ {QUOTE, ASSIGN} \cap {NUL, XFF} = {}
  /\ EOF \notin Byte /\ Nothing \notin Byte \cup {EOF} /\ Junk \notin Byte
  /\ SIZE \in Nat \ {0} /\ SHORT \in Nat \ {0} /\ MaxLen \in Nat
  /\ DBUG \in BOOLEAN
  /\ Sources \subseteq Seq(Byte)

VARIABLES file, off, s_data, s_p, s_init, sproc, ret, base, got,
          d_cap, d_len, d_cur, d_heap, d_short,
          out, given, allocs, proc, pushed, asked,
          l_type,      \* type of the current token
          l_putback,   \* the putback character, NUL if there is none
          c,           \* the local c of lex_next(), id() and str()
          pc,          \* which loop is running; see the actions
          from,        \* history: how many characters precede the lexeme
          tokens       \* history: the tokens main has printed

B == INSTANCE BufStdio
D == INSTANCE Dstr WITH Char <- Byte, MaxGiven <- 0

buf  == <<file, off, s_data, s_p, s_init, sproc, ret, base, got>>
dstr == <<d_cap, d_len, d_cur, d_heap, d_short,
          out, given, allocs, proc, pushed, asked>>
vars == <<buf, dstr, l_type, l_putback, c, pc, from, tokens>>

\* main() up to the first b_getc: buf_stdio_init, lex_init, dstr_init
Init ==
  /\ B!Init /\ D!Init
  /\ l_type = "TT_EOF" /\ l_putback = NUL /\ c = NUL
  /\ pc = "next" /\ from = 0 /\ tokens = <<>>

\* lex_getc(): the putback character before the next one of the buf
LexGetc ==
  IF l_putback # NUL
    THEN c' = l_putback /\ l_putback' = NUL /\ UNCHANGED buf
    ELSE B!Getc /\ c' = ret' /\ UNCHANGED l_putback

\* the table CHAR_FN
CHAR_FN(ch) == IF ch \in Lower THEN "id"
               ELSE IF ch = QUOTE THEN "str"
               ELSE IF ch = ASSIGN THEN "single" ELSE "err"

\* mutant: every byte the lexer has no use for is skipped
NextSkipsOther ==
  /\ pc = "next"
  /\ LexGetc
  /\ pc' = IF c' \in Space \cup Other THEN "next" ELSE "dispatch"
  /\ UNCHANGED <<dstr, l_type, from, tokens>>

\* mutant: BUF_EOF is skipped
NextSkipsEof ==
  /\ pc = "next"
  /\ LexGetc
  /\ pc' = IF c' \in Space \cup {EOF} THEN "next" ELSE "dispatch"
  /\ UNCHANGED <<dstr, l_type, from, tokens>>

\* lex_next(): skip characters that isspace() accepts
NextSkip ==
  /\ pc = "next"
  /\ LexGetc
  /\ pc' = IF c' \in Space THEN "next" ELSE "dispatch"
  /\ UNCHANGED <<dstr, l_type, from, tokens>>

\* mutant: the lexeme is cleared only at the end of the file
DispatchUncleared ==
  /\ pc = "dispatch"
  /\ from' = Len(got) - 1
  /\ IF c = EOF
       THEN D!Clear /\ l_type' = "TT_EOF" /\ pc' = "main"
       ELSE /\ UNCHANGED dstr
            /\ pc' = (CASE CHAR_FN(c) = "single" -> "main"
                        [] CHAR_FN(c) = "err"    -> "exit"
                        [] OTHER                 -> CHAR_FN(c))
            /\ l_type' = IF pc' = "main" THEN "TT_ASSIGN" ELSE l_type
  /\ UNCHANGED <<buf, l_putback, c, tokens>>

\* lex_next(): clear the lexeme and call the character's function; err() exits
Dispatch ==
  /\ pc = "dispatch"
  /\ D!Clear
  /\ from' = Len(got) - 1
  /\ IF c = EOF
       THEN l_type' = "TT_EOF" /\ pc' = "main"
       ELSE CASE CHAR_FN(c) = "id"     -> pc' = "id"   /\ UNCHANGED l_type
              [] CHAR_FN(c) = "str"    -> pc' = "str"  /\ UNCHANGED l_type
              [] CHAR_FN(c) = "single" -> pc' = "main" /\ l_type' = "TT_ASSIGN"
              [] OTHER                 -> pc' = "exit" /\ UNCHANGED l_type
  /\ UNCHANGED <<buf, l_putback, c, tokens>>

\* mutant: id() goes on while islower()
IdPushLower ==
  /\ pc = "id"
  /\ c \in Alpha
  /\ D!Push(c)
  /\ LexGetc
  /\ IF c' \in Lower THEN UNCHANGED <<pc, l_type>>
     ELSE pc' = "main" /\ l_type' = "TT_ID"
  /\ UNCHANGED <<from, tokens>>

\* id(): push while isalpha()
IdPush ==
  /\ pc = "id"
  /\ c \in Alpha
  /\ D!Push(c)
  /\ LexGetc
  /\ UNCHANGED <<l_type, pc, from, tokens>>

\* id(): the type, and KWORDS; the character that ended the loop stays in c
IdEnd ==
  /\ pc = "id"
  /\ c \notin Alpha
  /\ l_type' = IF D!Contents = KWORD THEN "TT_STR" ELSE "TT_ID"
  /\ pc' = "main"
  /\ UNCHANGED <<buf, dstr, l_putback, c, from, tokens>>

\* mutant: the end of the file does not end a literal
StrGetcPastEof ==
  /\ pc = "str"
  /\ LexGetc
  /\ pc' = IF c' = QUOTE THEN "str_end" ELSE "str_push"
  /\ UNCHANGED <<dstr, l_type, from, tokens>>

\* str(): the next character ends the literal or goes into the lexeme
StrGetc ==
  /\ pc = "str"
  /\ LexGetc
  /\ pc' = IF c' \in {EOF, QUOTE} THEN "str_end" ELSE "str_push"
  /\ UNCHANGED <<dstr, l_type, from, tokens>>

StrPush ==
  /\ pc = "str_push"
  /\ D!Push(c)
  /\ pc' = "str"
  /\ UNCHANGED <<buf, l_type, l_putback, c, from, tokens>>

\* str(): usage() exits when the literal was not closed
StrEnd ==
  /\ pc = "str_end"
  /\ l_type' = "TT_STR_LIT"
  /\ pc' = IF c = QUOTE THEN "main" ELSE "exit"
  /\ UNCHANGED <<buf, dstr, l_putback, c, from, tokens>>

\* mutant: only tokens with a text are printed
PrintTexts ==
  /\ pc = "main"
  /\ l_type # "TT_EOF"
  /\ tokens' = IF l_type \in {"TT_ID", "TT_STR_LIT"}
                 THEN Append(tokens, [type |-> l_type, from |-> from,
                                      text |-> D!CString(D!Cur)])
                 ELSE tokens
  /\ pc' = "next"
  /\ UNCHANGED <<buf, dstr, l_type, l_putback, c, from>>

\* main(): print the token; the text of an identifier or a literal with it
PrintToken ==
  /\ pc = "main"
  /\ l_type # "TT_EOF"
  /\ tokens' = Append(tokens,
       [type |-> l_type, from |-> from,
        text |-> IF l_type \in {"TT_ID", "TT_STR_LIT"} THEN D!CString(D!Cur)
                 ELSE <<>>])
  /\ pc' = "next"
  /\ UNCHANGED <<buf, dstr, l_type, l_putback, c, from>>

\* main(): buf_stdio_free() behind the loop
Finish ==
  /\ pc = "main"
  /\ l_type = "TT_EOF"
  /\ B!Free
  /\ pc' = "done"
  /\ UNCHANGED <<dstr, l_type, l_putback, c, from, tokens>>

\* a push that cannot grow the lexeme, a read that fails: die()
Dies ==
  /\ \/ pc \in {"id", "str_push"} /\ D!PushDies /\ UNCHANGED buf
     \/ pc \in {"next", "id", "str"} /\ B!GetcDies /\ UNCHANGED dstr
  /\ pc' = "exit"
  /\ UNCHANGED <<l_type, l_putback, c, from, tokens>>

Run == NextSkip \/ Dispatch \/ IdPush \/ IdEnd \/ StrGetc \/ StrPush \/ StrEnd
         \/ PrintToken \/ Finish

Next == Run \/ Dies

\* one thread that never waits for another runs until it exits; that a call
\* fails is never promised
Spec == Init /\ [][Next]_vars /\ WF_vars(Run)

-----------------------------------------------------------------------------
Types == {"TT_EOF", "TT_STR", "TT_ID", "TT_ASSIGN", "TT_STR_LIT"}
Token == [type : Types, from : Nat, text : Seq(Byte)]

\* the type invariant of the lexer (lex_ok()), its buf and its string
TypeOK ==
  /\ B!TypeOK /\ D!TypeOK
  /\ l_type \in Types /\ l_putback \in Byte /\ c \in Byte \cup {EOF}
  /\ pc \in {"next", "dispatch", "id", "str", "str_push", "str_end",
             "main", "done", "exit"}
  /\ from \in -1..Len(file)
  /\ tokens \in Seq(Token)

\* how a token is spelled in the source
Spelling(t) == CASE t.type = "TT_STR"     -> KWORD
                 [] t.type = "TT_ASSIGN"  -> <<ASSIGN>>
                 [] t.type = "TT_STR_LIT" -> <<QUOTE>> \o t.text \o <<QUOTE>>
                 [] OTHER                 -> t.text
To(t)    == t.from + Len(Spelling(t))
IsWord(t) == t.type \in {"TT_ID", "TT_STR"}
Within(t) == (t.from + 1)..To(t)

\* every token main prints is spelled in the source at the place where the
\* lexer dispatched it, and is of the kind its spelling asks for: across
\* refills of the buf and growth of the lexeme nothing is cut, mixed or kept
\* from the token before
TokensAreSource ==
  \A k \in 1..Len(tokens) : LET t == tokens[k] IN
    /\ To(t) <= Len(file) /\ SubSeq(file, t.from + 1, To(t)) = Spelling(t)
    /\ t.type = "TT_ID" => t.text # KWORD /\ t.text[1] \in Lower
                             /\ Range(t.text) \subseteq Alpha
    /\ t.type = "TT_STR_LIT" => QUOTE \notin Range(t.text)

\* an identifier or keyword takes every letter there is: what follows it in
\* the source is no letter, also where a line or the file ends
MaximalMunch ==
  \A k \in 1..Len(tokens) : LET t == tokens[k] IN
    IsWord(t) /\ To(t) < Len(file) => file[To(t) + 1] \notin Alpha

InToken(i) == \E k \in 1..Len(tokens) : i \in Within(tokens[k])

\* what became of each character when the program is done: tokens do not
\* overlap, and outside of them are only blanks and the one character that
\* ended a word, which id() reads and drops: it never goes to l_putback, the
\* "putback character" (lex.h:35)
Accounting ==
  pc = "done" =>
    /\ \A k \in 2..Len(tokens) : To(tokens[k - 1]) <= tokens[k].from
    /\ \A i \in 1..Len(file) :
         InToken(i) \/ file[i] \in Space
           \/ \E k \in 1..Len(tokens) : IsWord(tokens[k]) /\ i = To(tokens[k]) + 1

\* main runs to its end, or exits, on every source
Terminates == <>(pc \in {"done", "exit"})
=============================================================================
