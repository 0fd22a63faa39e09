------------------------------- MODULE BufStr -------------------------------
(***************************************************************************)
(* The two bufs over a string in memory: struct buf_cstr (buf/src/cstr.c), *)
(* whose string ends at its NUL, and struct buf_nstr (buf/src/nstr.c),     *)
(* whose string has a length.  Both take the string from their caller at   *)
(* init and give it back at free, if the caller asks for it.               *)
(***************************************************************************)
EXTENDS Bytes

VARIABLES kind,        \* which struct it is, "cstr" or "nstr"
          file,        \* the string
          p,           \* c_p, n_p: index of the next char
          owner,       \* who can free the string: "buf", "caller" or "nobody"
          inited,      \* between init and free
          ret,         \* what b_getc returned last
          base, got    \* history: always 0; characters returned since init

vars == <<kind, file, p, owner, inited, ret, base, got>>

\* a cstr ends at its first NUL
Init ==
  /\ kind \in {"cstr", "nstr"}
  /\ file \in Sources
  /\ kind = "cstr" => \A i \in 1..Len(file) : file[i] # NUL
  /\ p = 0 /\ owner = "buf" /\ inited = TRUE
  /\ ret = Nothing /\ base = 0 /\ got = <<>>

\* the array behind the string: a cstr has its terminator
At(i) == IF i < Len(file) THEN file[i + 1] ELSE NUL

\* mutant: a string with a length is ended by a NUL as well
EmptyAtNul == p = Len(file) \/ At(p) = NUL

\* mutant: the end is taken to be one character late
EmptyOneLate == p = Len(file) + 1

\* buf_cstr_empty() and buf_nstr_empty()
Empty == IF kind = "cstr" THEN At(p) = NUL ELSE p = Len(file)

\* mutant: the last character is returned again and again
GetcStuck ==
  /\ inited
  /\ IF Empty
       THEN ret' = EOF /\ UNCHANGED <<p, got>>
       ELSE /\ ret' = AsInt(At(p))
            /\ got' = IF ret' = EOF THEN got ELSE Append(got, ret')
            /\ p' = IF p + 1 = Len(file) THEN p ELSE p + 1
  /\ UNCHANGED <<kind, file, owner, inited, base>>

\* buf_cstr_getc() and buf_nstr_getc()
Getc ==
  /\ inited
  /\ IF Empty
       THEN ret' = EOF /\ UNCHANGED <<p, got>>
       ELSE /\ ret' = AsInt(At(p))
            /\ got' = IF ret' = EOF THEN got ELSE Append(got, ret')
            /\ p' = p + 1
  /\ UNCHANGED <<kind, file, owner, inited, base>>

\* buf_cstr_free(), buf_nstr_free(): back says whether strpp is not NULL
Free(back) ==
  /\ inited
  /\ inited' = FALSE
  /\ owner' = IF back THEN "caller" ELSE "nobody"
  /\ UNCHANGED <<kind, file, p, ret, base, got>>

\* init of a caller that got its string back
Reinit ==
  /\ ~inited
  /\ owner = "caller"
  /\ owner' = "buf"
  /\ inited' = TRUE
  /\ p' = 0 /\ ret' = Nothing /\ got' = <<>>
  /\ UNCHANGED <<kind, file, base>>

Next == Getc \/ (\E back \in BOOLEAN : Free(back)) \/ Reinit

Spec == Init /\ [][Next]_vars

-----------------------------------------------------------------------------
\* the type invariant: p stays inside the string and its terminator, however
\* often b_getc is called behind the end (buf_cstr_ok(), buf_nstr_ok()), and
\* the struct owns the string exactly while it is initialised
TypeOK ==
  /\ kind \in {"cstr", "nstr"} /\ file \in Sources
  /\ p \in 0..Len(file)
  /\ owner \in {"buf", "caller", "nobody"}
  /\ inited = (owner = "buf")
  /\ ret \in Byte \cup {EOF, Nothing}
  /\ base = 0 /\ got \in Seq(Byte)
=============================================================================
