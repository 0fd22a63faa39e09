------------------------------- MODULE Bytes -------------------------------
(***************************************************************************)
(* What every buf of src/buf is about: the bytes of its source and the two *)
(* that are special, the end of file, and the size of a data array.        *)
(***************************************************************************)
EXTENDS Integers, Sequences

CONSTANTS Byte,        \* values of a byte, among them NUL, XFF and NL
          NUL,         \* '\0'
          XFF,         \* '\377', which a signed char holds as -1
          NL,          \* '\n'
          EOF,         \* BUF_EOF, -1
          Nothing,     \* no character was asked for yet
          SIZE,        \* BUF_UNIX_DATA_SIZE, BUF_STDIO_DATA_SIZE (8191)
          Sources      \* contents of the files and strings

ASSUME BytesAssumption ==
  /\ SIZE \in Nat \ {0}
  /\ {NUL, NL} \subseteq Byte /\ NUL # NL
  /\ EOF \notin Byte /\ Nothing \notin Byte \cup {EOF}
  /\ Sources \subseteq Seq(Byte)

\* int c = *p: a byte of 0xFF arrives as -1, which is BUF_EOF
AsInt(b) == IF b = XFF THEN EOF ELSE b
=============================================================================
