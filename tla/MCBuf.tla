------------------------------- MODULE MCBuf -------------------------------
(* Values for model-checking Buf: every text of up to MaxFile bytes, with    *)
(* newlines, and, for nstr, with NUL; nothing holds 0xFF.  Text is read from *)
(* a data array in several fills.                                            *)
EXTENDS Buf

CONSTANTS a, b, MaxFile

AllBytes == {a, b, NUL, XFF, NL}
Contents == UNION {[1..n -> {a, NL}] \cup [1..n -> {a, b, NUL}] : n \in 0..MaxFile}

MCInit == Init /\ IsText
MCSpec == MCInit /\ [][Next]_vars
=============================================================================
