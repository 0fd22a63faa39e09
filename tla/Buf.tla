-------------------------------- MODULE Buf --------------------------------
(***************************************************************************)
(* struct buf of buf/include/buf.h: what a caller holds is a pointer to    *)
(* b_getc, and which of the four structs is behind it was settled at init. *)
(* Buf composes the models of the four (BufUnix, BufStdio, BufStr); the    *)
(* steps of a buf are those of its struct.                                 *)
(***************************************************************************)
EXTENDS Bytes

VARIABLES b_getc,      \* the struct: "unix", "stdio", "cstr" or "nstr"
          file,        \* the source
          off,         \* position of the descriptor or the stream
          data,        \* u_data or s_data; a string has none
          p,           \* index of the next char, in data or in the string
          inited,      \* between init and free
          proc,        \* "up", or "down" once die() has exited
          owner,       \* who can free a string, see BufStr
          ret,         \* what b_getc returned last
          base, got    \* history: off at init; characters returned since

filevars == <<off, data, proc>>
vars == <<b_getc, file, filevars, p, inited, owner, ret, base, got>>

Unix  == INSTANCE BufUnix  WITH u_data <- data, u_p <- p, u_init <- inited
Stdio == INSTANCE BufStdio WITH s_data <- data, s_p <- p, s_init <- inited,
                                sproc <- proc
Str   == INSTANCE BufStr   WITH kind <- b_getc

Init ==
  \/ b_getc = "unix"  /\ Unix!Init  /\ owner = "nobody"
  \/ b_getc = "stdio" /\ Stdio!Init /\ owner = "nobody"
  \/ Str!Init /\ off = 0 /\ data = <<>> /\ proc = "up"

Next ==
  \/ b_getc = "unix"  /\ Unix!Next  /\ UNCHANGED <<b_getc, owner>>
  \/ b_getc = "stdio" /\ Stdio!Next /\ UNCHANGED <<b_getc, owner>>
  \/ b_getc \in {"cstr", "nstr"} /\ Str!Next /\ UNCHANGED filevars

Spec == Init /\ [][Next]_vars

-----------------------------------------------------------------------------
\* a file with a NUL is not text, and a string ends at its first one, except a
\* string with a length
IsText == b_getc # "nstr" => \A i \in 1..Len(file) : file[i] # NUL

\* the type invariant: the position stays inside the array or the string, as
\* buf_unix_ok(), buf_stdio_ok(), buf_cstr_ok() and buf_nstr_ok() ask
TypeOK ==
  CASE b_getc = "unix"  -> Unix!TypeOK
    [] b_getc = "stdio" -> Stdio!TypeOK
    [] OTHER            -> Str!TypeOK

\* between the position in the data array and the NUL lie exactly the bytes
\* that were read and not delivered; tails of earlier, longer reads and lines
\* that are still in the array are never delivered
BufferedIsAhead ==
  /\ b_getc = "unix"  => Unix!BufferedIsAhead
  /\ b_getc = "stdio" => Stdio!BufferedIsAhead

Stream == INSTANCE ByteStream WITH rewinds <- b_getc \in {"cstr", "nstr"},
                                   open <- inited

\* whichever struct is behind b_getc, a caller such as buf_test() of
\* buf/test/main.c sees the characters in order and BUF_EOF at the end and not
\* before, across short reads, lines longer than the array, and
\* re-initialisation
ImplementsByteStream == Stream!Spec
=============================================================================
