------------------------------- MODULE MCLex -------------------------------
(* Values for model-checking Lex: every short source over one byte of each   *)
(* class, and sources with the keyword, among them c/prog.me's.              *)
EXTENDS Lex

CONSTANTS ch_s, ch_t, ch_r, U, SP, BAD, MaxFile

LowerBytes == {ch_s, ch_t, ch_r}
UpperBytes == {U}
SpaceBytes == {SP, NL}
OtherBytes == {BAD}
Keyword    == <<ch_s, ch_t, ch_r>>
Classes    == {ch_s, U, SP, NL, QUOTE, ASSIGN, BAD}
Words(S, n) == UNION {[1..m -> S] : m \in 0..n}
Inputs == Words(Classes, MaxFile)
            \cup {Keyword \o w : w \in Words({ch_s, SP, ASSIGN, QUOTE}, 2)}
            \cup {Keyword \o <<SP, ch_s, U, SP, ASSIGN, SP, QUOTE, ch_s, SP, U, QUOTE, NL>>}
=============================================================================
