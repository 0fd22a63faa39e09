-------------------------------- MODULE Str --------------------------------
(***************************************************************************)
(* What lib/include/dstr.h promises of a dynamic string: a sequence of     *)
(* characters that grows at its end, is reset, or is handed to the caller. *)
(* It says nothing of capacities, of the short-string buffer or of the     *)
(* heap: Dstr refines it.                                                  *)
(***************************************************************************)
EXTENDS Sequences

CONSTANT Char                       \* what callers push

VARIABLES str,                      \* the characters of the string
          moved,                    \* the string last handed over by Move
          open                      \* between dstr_init and dstr_free

vars == <<str, moved, open>>

Init == str = <<>> /\ moved = <<>> /\ open = TRUE

Push(c) == open /\ str' = Append(str, c) /\ UNCHANGED <<moved, open>>

Clear == open /\ str' = <<>> /\ UNCHANGED <<moved, open>>

Move == open /\ moved' = str /\ str' = <<>> /\ UNCHANGED open

Free == open /\ open' = FALSE /\ str' = <<>> /\ UNCHANGED moved

Reinit == ~open /\ open' = TRUE /\ UNCHANGED <<str, moved>>

Next == (\E c \in Char : Push(c)) \/ Clear \/ Move \/ Free \/ Reinit

Spec == Init /\ [][Next]_vars
=============================================================================
