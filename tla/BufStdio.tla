------------------------------ MODULE BufStdio ------------------------------
(***************************************************************************)
(* struct buf_stdio of buf/include/buf_stdio.h and buf/src/stdio.c: a buf  *)
(* over a stdio stream, filled by fgets(), a line or SIZE - 1 characters at *)
(* a time: SIZE is at least 2, as fgets() of one byte reads nothing.       *)
(*                                                                         *)
(* Unlike buf_unix, buf_stdio_fill() does not look at what it read: a line *)
(* that starts with NUL delivers that NUL and what follows it.             *)
(***************************************************************************)
EXTENDS Bytes

VARIABLES file,        \* the contents of the stream s_fp
          off,         \* its position
          s_data,      \* the data array, 0..SIZE
          s_p,         \* index of the next char in s_data
          s_init,      \* between buf_stdio_init and buf_stdio_free
          sproc,       \* "up", or "down" once die() has exited
          ret,         \* what b_getc returned last
          base, got    \* history: off at init; characters returned since

bufvars == <<file, off, s_data, s_p, s_init, sproc, ret, base, got>>

Zeroed == [i \in 0..SIZE |-> NUL]

Init ==
  /\ file \in Sources
  /\ off = 0 /\ s_data = Zeroed /\ s_p = 0 /\ s_init = TRUE
  /\ sproc = "up" /\ ret = Nothing /\ base = 0 /\ got = <<>>

Live == sproc = "up" /\ s_init

Empty == s_data[s_p] = NUL                            \* buf_stdio_empty()

\* mutant: s_p is not stepped
NextStuck(data, p) ==
  /\ ret' = AsInt(data[p])
  /\ got' = IF ret' = EOF THEN got ELSE Append(got, ret')
  /\ s_p' = p

NextFrom(data, p) ==                                  \* buf_stdio_next()
  /\ ret' = AsInt(data[p])
  /\ got' = IF ret' = EOF THEN got ELSE Append(got, ret')
  /\ s_p' = p + 1

\* mutant: fgets() is told of one byte more than s_data has room for
LineLenOverlong ==
  CHOOSE n \in 1..(SIZE + 1) :
    /\ off + n <= Len(file)
    /\ n = SIZE + 1 \/ off + n = Len(file) \/ file[off + n] = NL
    /\ \A k \in 1..(n - 1) : file[off + k] # NL

\* how many characters fgets() takes: through the first newline, at most
\* SIZE - 1, and all there are if the file ends first
LineLen ==
  CHOOSE n \in 1..(SIZE - 1) :
    /\ off + n <= Len(file)
    /\ n = SIZE - 1 \/ off + n = Len(file) \/ file[off + n] = NL
    /\ \A k \in 1..(n - 1) : file[off + k] # NL

\* mutant: the array is filled anew but for the terminator
LineUnterminated ==
  [i \in 0..SIZE |-> IF i < LineLen THEN file[off + i + 1]
                     ELSE IF i = SIZE THEN NUL ELSE s_data[i]]

\* s_data behind fgets() and the NUL that buf_stdio_fill() puts at its end
Line == [i \in 0..SIZE |-> IF i < LineLen THEN file[off + i + 1]
                           ELSE IF i \in {LineLen, SIZE} THEN NUL
                           ELSE s_data[i]]

\* mutant: s_p is not reset, and next starts where the last line ended
FillForgetsReset ==
  IF off = Len(file)
    THEN ret' = EOF /\ UNCHANGED <<off, s_data, s_p, got>>
    ELSE /\ s_data' = Line
         /\ off' = off + LineLen
         /\ NextFrom(Line, s_p)

\* buf_stdio_fill() and the next that follows it; at the end of the file
\* fgets() returns NULL and leaves s_data alone
FillAndNext ==
  IF off = Len(file)
    THEN ret' = EOF /\ UNCHANGED <<off, s_data, s_p, got>>
    ELSE /\ s_data' = Line
         /\ off' = off + LineLen
         /\ NextFrom(Line, 0)

\* b_getc: the next character of s_data, or the first of the next line
Getc ==
  /\ Live
  /\ IF Empty
       THEN FillAndNext
       ELSE NextFrom(s_data, s_p) /\ UNCHANGED <<off, s_data>>
  /\ UNCHANGED <<file, s_init, sproc, base>>

\* ferror(): die()
GetcDies ==
  /\ Live
  /\ Empty
  /\ sproc' = "down"
  /\ UNCHANGED <<file, off, s_data, s_p, s_init, ret, base, got>>

\* buf_stdio_free(): the rest of the line goes with the struct
Free ==
  /\ Live
  /\ s_init' = FALSE
  /\ s_data' = Zeroed /\ s_p' = 0
  /\ UNCHANGED <<file, off, sproc, ret, base, got>>

\* buf_stdio_init() on the same stream
Reinit ==
  /\ sproc = "up"
  /\ ~s_init
  /\ s_init' = TRUE
  /\ s_data' = Zeroed /\ s_p' = 0
  /\ base' = off /\ got' = <<>> /\ ret' = Nothing
  /\ UNCHANGED <<file, off, sproc>>

Next == Getc \/ GetcDies \/ Free \/ Reinit

Spec == Init /\ [][Next]_bufvars

-----------------------------------------------------------------------------
\* the type invariant: s_p stays inside s_data, as buf_stdio_ok() asks
TypeOK ==
  /\ file \in Sources
  /\ off \in 0..Len(file) /\ base \in 0..Len(file)
  /\ s_data \in [0..SIZE -> Byte]
  /\ s_p \in 0..SIZE
  /\ s_init \in BOOLEAN /\ sproc \in {"up", "down"}
  /\ ret \in Byte \cup {EOF, Nothing}
  /\ got \in Seq(Byte)

\* the bytes from s_p up to the NUL that ends them are exactly those between
\* what was delivered and the stream's position: the tail of an earlier,
\* longer line that is still in s_data is never delivered
Ahead == off - (base + Len(got))
BufferedIsAhead ==
  Live =>
    /\ Ahead \in 0..(SIZE - s_p)
    /\ \A i \in 0..(Ahead - 1) : s_data[s_p + i] = file[base + Len(got) + i + 1]
    /\ s_data[s_p + Ahead] = NUL
=============================================================================
