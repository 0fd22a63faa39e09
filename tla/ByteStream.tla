----------------------------- MODULE ByteStream -----------------------------
(***************************************************************************)
(* What buf/include/buf.h promises of every buf: b_getc returns the        *)
(* characters of its source one by one, in order, and BUF_EOF when and     *)
(* only when the source has ended.  BufUnix, BufStdio and BufStr refine it. *)
(*                                                                         *)
(* A buf may be freed and another one set up on the same source.  Over a   *)
(* string that starts over; over a file it starts somewhere behind what    *)
(* was delivered: what the first one had read ahead is lost with it.       *)
(***************************************************************************)
EXTENDS Naturals, Sequences

CONSTANTS EOF,         \* BUF_EOF
          Nothing,     \* no character was asked for yet
          Sources      \* the sources: sequences of bytes

VARIABLES rewinds,     \* a new buf starts over (a string in memory)
          file,        \* the source
          base,        \* where in file this buf started
          got,         \* what it has delivered since
          ret,         \* what the last b_getc returned
          open         \* between init and free

vars == <<rewinds, file, base, got, ret, open>>

Init ==
  /\ rewinds \in BOOLEAN /\ file \in Sources
  /\ base = 0 /\ got = <<>> /\ ret = Nothing /\ open = TRUE

Getc ==
  /\ open
  /\ IF base + Len(got) < Len(file)
       THEN /\ ret' = file[base + Len(got) + 1]
            /\ got' = Append(got, ret')
       ELSE ret' = EOF /\ UNCHANGED got
  /\ UNCHANGED <<rewinds, file, base, open>>

Free ==
  /\ open
  /\ open' = FALSE
  /\ UNCHANGED <<rewinds, file, base, got, ret>>

Reinit ==
  /\ ~open
  /\ open' = TRUE
  /\ base' \in IF rewinds THEN {0} ELSE (base + Len(got))..Len(file)
  /\ got' = <<>>
  /\ ret' = Nothing
  /\ UNCHANGED <<rewinds, file>>

Next == Getc \/ Free \/ Reinit

Spec == Init /\ [][Next]_vars
=============================================================================
