-------------------------------- MODULE Ast --------------------------------
(***************************************************************************)
(* The program of ideas/ast: an expression is printed by one visitor, and  *)
(* another generates code for it from a stack of registers (reglist.c).    *)
(* Visitors are called back by the nodes they visit: what they keep        *)
(* between two calls is adv_space and the stack of registers.              *)
(*                                                                         *)
(* A node is known by its path from the root, so a tree is a set of paths  *)
(* and the path is the stack of calls.  One action is what a callback does *)
(* up to its next call of a_visit() or its return.                         *)
(***************************************************************************)
EXTENDS Integers, Sequences, SequencesExt, FiniteSets

CONSTANTS Trees,                \* the expressions
          REG_COUNT             \* registers (3 in the build)

Kid(n, side) == Append(n, side)

\* An operator (struct ast_bin_op) has two operands, a value has none, and each
\* node lies in the one above it.
IsExpression(t) ==
  /\ IsFiniteSet(t) /\ t \subseteq Seq({"left", "right"}) /\ <<>> \in t
  /\ \A n \in t : \A i \in 0..Len(n) : SubSeq(n, 1, i) \in t
  /\ \A n \in t : Kid(n, "left") \in t <=> Kid(n, "right") \in t

ASSUME AstAssumption ==
  /\ \A t \in Trees : IsExpression(t)
  /\ REG_COUNT \in Nat

VARIABLES tree,
          pc,                   \* what main is at, or how it ended
          at, back,             \* the node that is visited; its visit is over
          adv_space,            \* of struct ast_dump_visitor
          r_regs, r_p,          \* of struct reglist
          dumped, code          \* history: the braces and the instructions

vars == <<tree, pc, at, back, adv_space, r_regs, r_p, dumped, code>>

Leaves(t) == {n \in t : Kid(n, "left") \notin t}          \* struct ast_prim

\* the registers, each known by its slot in REGS
REGS == [s \in 0..(REG_COUNT - 1) |-> s]

Init ==
  /\ tree \in Trees
  /\ pc = "dump" /\ at = <<>> /\ back = FALSE
  /\ adv_space = 0
  /\ r_regs = REGS /\ r_p = REG_COUNT
  /\ dumped = <<>> /\ code = <<>>

-----------------------------------------------------------------------------
\* a_visit() of an operator, of its second operand, and the return from that
Entering(stage) == pc = stage /\ ~back /\ at \notin Leaves(tree)
Between(stage)  == pc = stage /\ back /\ at # <<>> /\ Last(at) = "left"
Leaving(stage)  == pc = stage /\ back /\ at # <<>> /\ Last(at) = "right"

ToLeft  == at' = Kid(at, "left") /\ back' = FALSE
ToRight == at' = Kid(Front(at), "right") /\ back' = FALSE
ToOperator == at' = Front(at) /\ back' = TRUE

\* a brace of node n, printed behind s blanks
Brace(b, n, s) == [brace |-> b, node |-> n, space |-> s]

DumpPrim ==
  /\ pc = "dump" /\ ~back /\ at \in Leaves(tree)
  /\ dumped' = dumped \o <<Brace("open", at, adv_space), Brace("close", at, adv_space)>>
  /\ back' = TRUE
  /\ UNCHANGED <<tree, pc, at, adv_space, r_regs, r_p, code>>

DumpLeft ==
  /\ Entering("dump")
  /\ dumped' = Append(dumped, Brace("open", at, adv_space))
  /\ adv_space' = adv_space + 4 /\ ToLeft
  /\ UNCHANGED <<tree, pc, r_regs, r_p, code>>

\* mutant: the blanks of the first operand are not taken back
DumpRightDeeper ==
  /\ Between("dump")
  /\ adv_space' = adv_space + 4 /\ ToRight
  /\ UNCHANGED <<tree, pc, r_regs, r_p, dumped, code>>

\* dec() and inc() again
DumpRight ==
  /\ Between("dump")
  /\ adv_space' = (adv_space - 4) + 4 /\ ToRight
  /\ UNCHANGED <<tree, pc, r_regs, r_p, dumped, code>>

DumpEnd ==
  /\ Leaving("dump")
  /\ adv_space' = adv_space - 4
  /\ dumped' = Append(dumped, Brace("close", Front(at), adv_space - 4)) /\ ToOperator
  /\ UNCHANGED <<tree, pc, r_regs, r_p, code>>

\* main goes on with the other visitor
DumpDone ==
  /\ pc = "dump" /\ back /\ at = <<>>
  /\ pc' = "gen" /\ back' = FALSE
  /\ UNCHANGED <<tree, at, adv_space, r_regs, r_p, dumped, code>>

-----------------------------------------------------------------------------
\* reglist_get(): the register that r_p comes down to
Gets == r_p > 0
Got == r_regs[r_p - 1]

\* prim_gen()
GenPrim ==
  /\ pc = "gen" /\ ~back /\ at \in Leaves(tree) /\ Gets
  /\ r_p' = r_p - 1
  /\ code' = Append(code, [cmd |-> "mov", dst |-> Got, src |-> at, node |-> at])
  /\ back' = TRUE
  /\ UNCHANGED <<tree, pc, at, adv_space, r_regs, dumped>>

GenLeft ==
  /\ Entering("gen") /\ ToLeft
  /\ UNCHANGED <<tree, pc, adv_space, r_regs, r_p, dumped, code>>

GenRight ==
  /\ Between("gen") /\ ToRight
  /\ UNCHANGED <<tree, pc, adv_space, r_regs, r_p, dumped, code>>

\* mutant: the register that was got last
TopSlot == r_p

\* reglist_last(): one above the register that was got last
LastSlot == r_p + 1

\* mutant: both operands' registers come back
GenOpPuts ==
  /\ Leaving("gen") /\ Gets
  /\ code' = Append(code, [cmd |-> "op", dst |-> Got, src |-> r_regs[LastSlot],
                           node |-> Front(at)])
  /\ r_regs' = r_regs /\ r_p' = r_p + 1
  /\ ToOperator
  /\ UNCHANGED <<tree, pc, adv_space, dumped>>

\* reglist_put(): the slot that r_p came down to holds reg, and r_p goes up
Refilled(reg) == [r_regs EXCEPT ![r_p - 1] = reg]

\* bin_op_gen() behind its operands: a register is got for the result, and the
\* slot it came from is given the name of the other one by reglist_put()
GenOp ==
  /\ Leaving("gen") /\ Gets
  /\ code' = Append(code, [cmd |-> "op", dst |-> Got, src |-> r_regs[LastSlot],
                           node |-> Front(at)])
  /\ r_regs' = Refilled(r_regs[LastSlot])
  /\ ToOperator
  /\ UNCHANGED <<tree, pc, adv_space, r_p, dumped>>

\* die_c() in reglist_get()
GenDies ==
  /\ \/ pc = "gen" /\ ~back /\ at \in Leaves(tree)
     \/ Leaving("gen")
  /\ ~Gets
  /\ pc' = "died"
  /\ UNCHANGED <<tree, at, back, adv_space, r_regs, r_p, dumped, code>>

GenDone ==
  /\ pc = "gen" /\ back /\ at = <<>>
  /\ pc' = "var_def" /\ back' = FALSE
  /\ UNCHANGED <<tree, at, adv_space, r_regs, r_p, dumped, code>>

\* what avd_init holds: ast_var_def_init() does not set it
AvdInit == {"NULL", "stray"}

\* var_def_dump(): the initialiser is visited through avd_init unless it is NULL
VarDefDump ==
  /\ pc = "var_def"
  /\ \E expr \in AvdInit : pc' = IF expr = "NULL" THEN "exited" ELSE "crashed"
  /\ UNCHANGED <<tree, at, back, adv_space, r_regs, r_p, dumped, code>>

Next == DumpPrim \/ DumpLeft \/ DumpRight \/ DumpEnd \/ DumpDone
          \/ GenPrim \/ GenLeft \/ GenRight \/ GenOp \/ GenDies
          \/ GenDone \/ VarDefDump

Spec == Init /\ [][Next]_vars

-----------------------------------------------------------------------------
(* Properties *)

\* one of the braces K is brace b of node n
Printed(b, n, K) == \E k \in K : dumped[k].brace = b /\ dumped[k].node = n

Loads == {k \in DOMAIN code : code[k].cmd = "mov"}

\* What the visitor prints nests as the expression does: a brace stands four
\* blanks behind those of the node around it, no node has two, none is opened
\* before those around it and none is closed before those inside it.  In the
\* end all are, and the next expression starts at the margin again.  The
\* callbacks agree on adv_space only.
DumpNests ==
  /\ \A k \in DOMAIN dumped :
       LET b == dumped[k]
       IN  /\ b.space = 4 * Len(b.node)
           /\ ~Printed(b.brace, b.node, 1..(k - 1))
           /\ b.brace = "open" =>
                \A n \in tree : IsStrictPrefix(n, b.node) => Printed("open", n, 1..(k - 1))
           /\ b.brace = "close" =>
                \A n \in tree : IsPrefix(b.node, n) =>
                  Printed("open", n, 1..(k - 1)) /\ (n = b.node \/ Printed("close", n, 1..(k - 1)))
  /\ pc # "dump" => adv_space = 0 /\ \A n \in tree : Printed("close", n, DOMAIN dumped)

\* A register that holds a value never comes back: each value of the expression
\* takes one for good, and an operator needs one more while it is printed.  So
\* with three registers code is generated for one value or one operator on two,
\* and each larger expression ends in die().
RegistersRunOut ==
  LET values == Cardinality(Leaves(tree))
  IN  /\ REG_COUNT - r_p = Cardinality(Loads)
      /\ pc = "died" => values >= REG_COUNT
      /\ pc \in {"var_def", "exited", "crashed"} => values = 1 \/ values < REG_COUNT

\* With the three registers of the build reglist_last() reads inside the array,
\* and the register an operator has for its source holds the value of its left
\* operand: no instruction behind it in the code wrote to that register.
SourceIsLeft ==
  /\ Leaving("gen") => LastSlot < REG_COUNT
  /\ \A k \in DOMAIN code : code[k].cmd = "op" =>
       \E j \in 1..(k - 1) :
         /\ code[j].node = Kid(code[k].node, "left")
         /\ code[j].dst = code[k].src
         /\ \A m \in (j + 1)..(k - 1) : code[m].dst # code[j].dst
=============================================================================
