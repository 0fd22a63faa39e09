------------------------------ MODULE BufUnix ------------------------------
(***************************************************************************)
(* struct buf_unix of buf/include/buf_unix.h and buf/src/unix.c: a buf over *)
(* a file descriptor.  read() fills u_data and a NUL behind the bytes read *)
(* marks their end; u_p walks up to it.                                    *)
(*                                                                         *)
(* read() returns at most SIZE bytes, often fewer (pipes, terminals), and 0 *)
(* only at the end of the file, which does not grow.                       *)
(***************************************************************************)
EXTENDS Bytes

VARIABLES file,        \* the contents behind u_fd
          off,         \* the descriptor's offset in file
          u_data,      \* the data array, 0..SIZE
          u_p,         \* index of the next char in u_data
          u_init,      \* between buf_unix_init and buf_unix_free
          proc,        \* "up", or "down" once die() has exited
          ret,         \* what b_getc returned last
          base, got    \* history: off at init; characters returned since

vars == <<file, off, u_data, u_p, u_init, proc, ret, base, got>>

Zeroed == [i \in 0..SIZE |-> NUL]

Init ==
  /\ file \in Sources
  /\ off = 0 /\ u_data = Zeroed /\ u_p = 0 /\ u_init = TRUE
  /\ proc = "up" /\ ret = Nothing /\ base = 0 /\ got = <<>>

Live == proc = "up" /\ u_init

Empty(data, p) == data[p] = NUL                       \* buf_unix_empty()

\* mutant: u_p is not stepped
NextStuck(data, p) ==
  /\ ret' = AsInt(data[p])
  /\ got' = IF ret' = EOF THEN got ELSE Append(got, ret')
  /\ u_p' = p

\* buf_unix_next(), behind the callers' test that there is a character
NextFrom(data, p) ==
  /\ ret' = AsInt(data[p])
  /\ got' = IF ret' = EOF THEN got ELSE Append(got, ret')
  /\ u_p' = p + 1

\* mutant: read() is asked for sizeof(u_data) bytes, one too many
ReadCountsOverlong ==
  IF off = Len(file) THEN {0}
  ELSE 1..(IF Len(file) - off <= SIZE THEN Len(file) - off ELSE SIZE + 1)

\* how many bytes read() may return
ReadCounts ==
  IF off = Len(file) THEN {0}
  ELSE 1..(IF Len(file) - off < SIZE THEN Len(file) - off ELSE SIZE)

\* mutant: no NUL is put behind the bytes read
FilledUnterminated(n) ==
  [i \in 0..SIZE |-> IF i < n THEN file[off + i + 1] ELSE u_data[i]]

\* u_data after read() returned n and the code put a NUL behind the bytes
Filled(n) == [i \in 0..SIZE |-> IF i < n THEN file[off + i + 1]
                                ELSE IF i = n THEN NUL ELSE u_data[i]]

\* mutant: a short read is taken for the end of the file
ReadEndsOnShort(n) ==
  /\ u_data' = Filled(n)
  /\ off' = off + n
  /\ IF n < SIZE
       THEN u_p' = 0 /\ ret' = EOF /\ UNCHANGED got
       ELSE NextFrom(Filled(n), 0)

\* buf_unix_read(): false, and BUF_EOF, when what was read looks empty
ReadAndNext(n) ==
  /\ u_data' = Filled(n)
  /\ off' = off + n
  /\ IF Empty(Filled(n), 0)
       THEN u_p' = 0 /\ ret' = EOF /\ UNCHANGED got
       ELSE NextFrom(Filled(n), 0)

\* b_getc with characters left in u_data
GetcBuffered ==
  /\ Live
  /\ ~Empty(u_data, u_p)
  /\ NextFrom(u_data, u_p)
  /\ UNCHANGED <<file, off, u_data, u_init, proc, base>>

\* b_getc that has to fill u_data first
GetcFilling ==
  /\ Live
  /\ Empty(u_data, u_p)
  /\ \E n \in ReadCounts : ReadAndNext(n)
  /\ UNCHANGED <<file, u_init, proc, base>>

\* read() returned -1: die()
GetcDies ==
  /\ Live
  /\ Empty(u_data, u_p)
  /\ proc' = "down"
  /\ UNCHANGED <<file, off, u_data, u_p, u_init, ret, base, got>>

\* buf_unix_free(): the bytes read ahead go with the struct
Free ==
  /\ Live
  /\ u_init' = FALSE
  /\ u_data' = Zeroed /\ u_p' = 0
  /\ UNCHANGED <<file, off, proc, ret, base, got>>

\* buf_unix_init() on the same descriptor
Reinit ==
  /\ proc = "up"
  /\ ~u_init
  /\ u_init' = TRUE
  /\ u_data' = Zeroed /\ u_p' = 0
  /\ base' = off /\ got' = <<>> /\ ret' = Nothing
  /\ UNCHANGED <<file, off, proc>>

Next == GetcBuffered \/ GetcFilling \/ GetcDies \/ Free \/ Reinit

Spec == Init /\ [][Next]_vars

-----------------------------------------------------------------------------
\* the type invariant: u_p stays inside u_data, as buf_unix_ok() asks
TypeOK ==
  /\ file \in Sources
  /\ off \in 0..Len(file) /\ base \in 0..Len(file)
  /\ u_data \in [0..SIZE -> Byte]
  /\ u_p \in 0..SIZE
  /\ u_init \in BOOLEAN /\ proc \in {"up", "down"}
  /\ ret \in Byte \cup {EOF, Nothing}
  /\ got \in Seq(Byte)

\* the bytes from u_p up to the NUL that ends them are exactly those between
\* what was delivered and the descriptor's offset: nothing read is lost or
\* seen twice, whatever counts read() returned
Ahead == off - (base + Len(got))
BufferedIsAhead ==
  Live =>
    /\ Ahead \in 0..(SIZE - u_p)
    /\ \A i \in 0..(Ahead - 1) : u_data[u_p + i] = file[base + Len(got) + i + 1]
    /\ u_data[u_p + Ahead] = NUL

\* the claim of buf/test/main.c (buf_test and the diff behind it): the copy
\* that b_getc makes until it returns BUF_EOF is the source
CopyIsSource ==
  ret = EOF => got = SubSeq(file, base + 1, Len(file))

Stream == INSTANCE ByteStream WITH open <- u_init, rewinds <- FALSE

\* the backend implements the interface: characters in order, BUF_EOF at the
\* end of the file and not before, across short reads and re-initialisation
ImplementsByteStream == Stream!Spec
=============================================================================
