----------------------------- MODULE AstProofs -----------------------------
(***************************************************************************)
(* Proofs about Ast for every expression: what the dump visitor prints     *)
(* nests as the expression does, whatever its shape, and the registers run *)
(* out, however many there are.                                            *)
(***************************************************************************)
EXTENDS Ast, FiniteSetTheorems, SequenceTheorems, TLAPS

-----------------------------------------------------------------------------
(* Paths and the tour of the nodes that both visitors make *)

Sides == {"left", "right"}

Below(p, n) == Len(p) <= Len(n) /\ \A i \in 1..Len(p) : p[i] = n[i]

\* n lies to the left of the way down to at
Passed(n) ==
  \E i \in 1..Len(at) :
    /\ at[i] = "right" /\ i <= Len(n) /\ n[i] = "left"
    /\ \A j \in 1..(i - 1) : n[j] = at[j]

\* n is above at
Around(n) == Len(n) < Len(at) /\ Below(n, at)

\* the visit of n is over; the visit of n has begun
Closed(n) == Passed(n) \/ (back /\ Below(at, n))
Opened(n) == Closed(n) \/ Around(n)

Tour == IsExpression(tree) /\ at \in tree

LEMMA PrefixBelow ==
  ASSUME NEW p \in Seq(Sides), NEW n \in Seq(Sides)
  PROVE  /\ IsPrefix(p, n) <=> Below(p, n)
         /\ IsStrictPrefix(p, n) <=> Below(p, n) /\ Len(p) < Len(n)
         /\ Below(p, n) /\ Len(p) = Len(n) => p = n
<1>1. Below(p, n) /\ Len(p) = Len(n) => p = n
  BY DEF Below
<1>2. IsPrefix(p, n) => Below(p, n)
  <2>. SUFFICES ASSUME IsPrefix(p, n) PROVE Below(p, n)
    OBVIOUS
  <2>1. Len(p) <= Len(n) /\ SubSeq(p, 1, Len(p)) = SubSeq(n, 1, Len(p))
    BY DEF IsPrefix
  <2>2. ASSUME NEW i \in 1..Len(p) PROVE p[i] = n[i]
    <3>1. SubSeq(p, 1, Len(p))[i] = p[i] /\ SubSeq(n, 1, Len(p))[i] = n[i]
      BY <2>1
    <3>. QED  BY <2>1, <3>1
  <2>. QED  BY <2>1, <2>2 DEF Below
<1>3. Below(p, n) => IsPrefix(p, n)
  <2>. SUFFICES ASSUME Below(p, n) PROVE IsPrefix(p, n)
    OBVIOUS
  <2>1. SubSeq(p, 1, Len(p)) = SubSeq(n, 1, Len(p))
    BY DEF Below
  <2>. QED  BY <2>1 DEF Below, IsPrefix
<1>4. Len(p) = Len(n) /\ p # n => ~Below(p, n)
  BY <1>1
<1>. QED  BY <1>1, <1>2, <1>3 DEF IsStrictPrefix, Below

LEMMA Paths ==
  ASSUME IsExpression(tree)
  PROVE  /\ tree \subseteq Seq(Sides) /\ <<>> \in tree
         /\ \A n \in tree : Kid(n, "left") \in tree <=> Kid(n, "right") \in tree
         /\ Leaves(tree) \subseteq tree /\ IsFiniteSet(Leaves(tree))
<1>1. IsFiniteSet(tree)
  BY DEF IsExpression
<1>2. Leaves(tree) \subseteq tree
  BY DEF Leaves
<1>. QED  BY <1>1, <1>2, FS_Subset DEF IsExpression, Sides

\* a kid on the way to a node
LEMMA KidOnTheWay ==
  ASSUME IsExpression(tree), NEW p \in tree, NEW n \in tree, Below(p, n), Len(p) < Len(n)
  PROVE  /\ n[Len(p) + 1] \in Sides
         /\ Kid(p, n[Len(p) + 1]) \in tree
<1>1. p \in Seq(Sides) /\ n \in Seq(Sides)
  BY Paths
<1>2. n[Len(p) + 1] \in Sides
  BY <1>1
<1>3. SubSeq(n, 1, Len(p) + 1) = Kid(p, n[Len(p) + 1])
  <2>. DEFINE a == SubSeq(n, 1, Len(p) + 1)
              b == Kid(p, n[Len(p) + 1])
  <2>1. a \in Seq(Sides) /\ b \in Seq(Sides) /\ Len(a) = Len(p) + 1 /\ Len(b) = Len(p) + 1
    BY <1>1, <1>2 DEF Kid
  <2>2. ASSUME NEW i \in 1..(Len(p) + 1) PROVE a[i] = b[i]
    <3>1. a[i] = n[i]
      BY <1>1
    <3>2. b[i] = IF i = Len(p) + 1 THEN n[Len(p) + 1] ELSE p[i]
      BY <1>1 DEF Kid
    <3>. QED  BY <3>1, <3>2 DEF Below
  <2>. QED  BY <2>1, <2>2
<1>4. SubSeq(n, 1, Len(p) + 1) \in tree
  BY <1>1 DEF IsExpression
<1>. QED  BY <1>2, <1>3, <1>4

LEMMA LeafAlone ==
  ASSUME IsExpression(tree), NEW p \in Leaves(tree), NEW n \in tree
  PROVE  Below(p, n) <=> n = p
<1>1. p \in Seq(Sides) /\ n \in Seq(Sides) /\ p \in tree
  BY Paths
<1>2. ASSUME Below(p, n) PROVE ~ (Len(p) < Len(n))
  <2>. SUFFICES ASSUME Len(p) < Len(n) PROVE FALSE
    OBVIOUS
  <2>1. \E s \in Sides : Kid(p, s) \in tree
    BY <1>1, <1>2, KidOnTheWay
  <2>. QED  BY <1>1, <2>1, Paths DEF Leaves, Sides
<1>3. Below(p, n) => Len(p) = Len(n)
  BY <1>1, <1>2 DEF Below
<1>. QED  BY <1>1, <1>3, PrefixBelow DEF Below

\* a node is not begun while it is about to be visited
LEMMA NotBegun ==
  ASSUME Tour, ~back
  PROVE  ~Opened(at)
BY Paths DEF Tour, Opened, Closed, Passed, Around

\* a value is visited
LEMMA AtLeaf ==
  ASSUME Tour, ~back, at \in Leaves(tree), UNCHANGED <<tree, at>>, back' = TRUE, NEW n \in tree
  PROVE  /\ Tour' /\ Closed(n)' = (Closed(n) \/ n = at)
         /\ Opened(n)' = (Opened(n) \/ n = at)
<1>1. Below(at, n) <=> n = at
  BY LeafAlone DEF Tour
<1>2. Passed(n)' = Passed(n) /\ Around(n)' = Around(n)
  BY DEF Passed, Around, Below
<1>3. Closed(n)' = (Closed(n) \/ n = at)
  BY <1>1, <1>2 DEF Closed, Below
<1>. QED  BY <1>2, <1>3 DEF Opened, Tour, IsExpression

LEMMA KidPath ==
  ASSUME NEW q \in Seq(Sides), NEW s \in Sides
  PROVE  /\ Kid(q, s) \in Seq(Sides) /\ Len(Kid(q, s)) = Len(q) + 1
         /\ Kid(q, s)[Len(q) + 1] = s
         /\ \A i \in 1..Len(q) : Kid(q, s)[i] = q[i]
         /\ Front(Kid(q, s)) = q /\ Last(Kid(q, s)) = s
<1>1. /\ Kid(q, s) \in Seq(Sides) /\ Len(Kid(q, s)) = Len(q) + 1
      /\ Kid(q, s)[Len(q) + 1] = s
      /\ \A i \in 1..Len(q) : Kid(q, s)[i] = q[i]
  BY DEF Kid
<1>2. Front(Kid(q, s)) = q
  BY <1>1 DEF Front
<1>3. Last(Kid(q, s)) = s
  BY <1>1 DEF Last
<1>. QED  BY <1>1, <1>2, <1>3

\* where the way down came from
LEMMA AtKid ==
  ASSUME Tour, at # <<>>
  PROVE  /\ Front(at) \in tree /\ Last(at) \in Sides /\ at = Kid(Front(at), Last(at))
         /\ Front(at) \in Seq(Sides)
<1>1. at \in Seq(Sides) /\ Len(at) \in Nat \ {0}
  BY Paths DEF Tour
<1>2. Front(at) = SubSeq(at, 1, Len(at) - 1)
  BY <1>1 DEF Front
<1>3. Front(at) \in tree /\ Front(at) \in Seq(Sides)
  BY <1>1, <1>2, Paths DEF Tour, IsExpression
<1>4. Last(at) = at[Len(at)] /\ Last(at) \in Sides
  BY <1>1 DEF Last
<1>5. /\ Len(SubSeq(at, 1, Len(at) - 1)) = Len(at) - 1
      /\ \A i \in 1..(Len(at) - 1) : SubSeq(at, 1, Len(at) - 1)[i] = at[i]
  <2>. DEFINE l == Len(at) - 1
  <2>1. l \in Nat /\ \A i \in 1..l : at[i] \in Sides
    BY <1>1
  <2>. HIDE DEF l
  <2>2. /\ Len(SubSeq(at, 1, l)) = IF 1 <= l THEN l - 1 + 1 ELSE 0
        /\ \A i \in 1..(l - 1 + 1) : SubSeq(at, 1, l)[i] = at[1 + i - 1]
    BY <2>1, SubSeqProperties
  <2>3. Len(SubSeq(at, 1, l)) = l /\ \A i \in 1..l : SubSeq(at, 1, l)[i] = at[i]
    BY <2>1, <2>2
  <2>. QED  BY <2>3 DEF l
<1>6. at = Kid(Front(at), Last(at))
  <2>. DEFINE k == Kid(Front(at), Last(at))
  <2>1. /\ k \in Seq(Sides) /\ Len(k) = Len(at) /\ k[Len(at)] = at[Len(at)]
        /\ \A i \in 1..(Len(at) - 1) : k[i] = at[i]
    <3>1. Len(Front(at)) = Len(at) - 1 /\ \A i \in 1..(Len(at) - 1) : Front(at)[i] = at[i]
      BY <1>2, <1>5
    <3>2. /\ k \in Seq(Sides) /\ Len(k) = Len(Front(at)) + 1
          /\ k[Len(Front(at)) + 1] = Last(at)
          /\ \A i \in 1..Len(Front(at)) : k[i] = Front(at)[i]
      BY <1>3, <1>4, KidPath
    <3>. HIDE DEF k
    <3>. QED  BY <1>1, <1>4, <3>1, <3>2
  <2>2. \A i \in 1..Len(at) : k[i] = at[i]
    BY <1>1, <2>1
  <2>. HIDE DEF k
  <2>3. k = at
    BY <1>1, <2>1, <2>2
  <2>. QED  BY <2>3 DEF k
<1>. QED  BY <1>3, <1>4, <1>6

\* from an operator to its first operand
LEMMA AtOperator ==
  ASSUME Tour, ~back, at \notin Leaves(tree), UNCHANGED tree, ToLeft, NEW n \in tree
  PROVE  /\ Tour' /\ Closed(n)' = Closed(n)
         /\ Opened(n)' = (Opened(n) \/ n = at)
<1>1. at' = Kid(at, "left") /\ ~back' /\ at' \in tree
  BY DEF ToLeft, Leaves, Tour
<1>2. /\ at \in Seq(Sides) /\ n \in Seq(Sides)
      /\ Len(at') = Len(at) + 1 /\ at'[Len(at) + 1] = "left"
      /\ \A i \in 1..Len(at) : at'[i] = at[i]
  BY <1>1, Paths, KidPath DEF Tour, Sides
<1>3. Passed(n)' = Passed(n)
  <2>1. ASSUME NEW i \in 1..Len(at), \A j \in 1..(i - 1) : n[j] = at[j]
        PROVE  \A j \in 1..(i - 1) : n[j] = at'[j]
    BY <1>2, <2>1
  <2>2. Passed(n) => Passed(n)'
    BY <1>2, <2>1 DEF Passed
  <2>3. Passed(n)' => Passed(n)
    BY <1>2 DEF Passed
  <2>. QED  BY <2>2, <2>3 DEF Passed
<1>4. Around(n)' <=> Around(n) \/ n = at
  <2>1. Around(n)' => Around(n) \/ n = at
    <3>. SUFFICES ASSUME Around(n)' PROVE Around(n) \/ n = at
      OBVIOUS
    <3>1. Len(n) <= Len(at) /\ \A i \in 1..Len(n) : n[i] = at[i]
      BY <1>2 DEF Around, Below
    <3>. QED  BY <1>2, <3>1, PrefixBelow DEF Around, Below
  <2>2. Around(n) \/ n = at => Around(n)'
    BY <1>2 DEF Around, Below
  <2>. QED  BY <2>1, <2>2
<1>5. Closed(n)' = Closed(n)
  BY <1>1, <1>3 DEF Closed, Passed
<1>6. Opened(n)' <=> (Opened(n) \/ n = at)
  BY <1>4, <1>5 DEF Opened
<1>. QED  BY <1>1, <1>5, <1>6 DEF Opened, Closed, Passed, Around, Tour, IsExpression

\* from the first operand to the second
LEMMA AtFirst ==
  ASSUME Tour, back, at # <<>>, Last(at) = "left", UNCHANGED tree, ToRight, NEW n \in tree
  PROVE  /\ Tour' /\ Closed(n)' = Closed(n) /\ Opened(n)' = Opened(n)
<1>. DEFINE q == Front(at)
<1>1. q \in tree /\ q \in Seq(Sides) /\ at = Kid(q, "left")
  BY AtKid
<1>2. at' = Kid(q, "right") /\ ~back' /\ at' \in tree
  BY <1>1, Paths DEF ToRight, Tour
<1>. HIDE DEF q
<1>3. /\ Len(at) = Len(q) + 1 /\ Len(at') = Len(q) + 1 /\ Len(q) \in Nat
      /\ at[Len(q) + 1] = "left" /\ at'[Len(q) + 1] = "right"
      /\ \A i \in 1..Len(q) : at[i] = q[i] /\ at'[i] = q[i]
  BY <1>1, <1>2, KidPath DEF Sides
<1>4. n \in Seq(Sides) /\ at \in Seq(Sides)
  BY Paths DEF Tour
<1>5. Passed(n)' <=> Passed(n) \/ Below(at, n)
  <2>1. Passed(n) => Passed(n)'
    <3>. SUFFICES ASSUME Passed(n) PROVE Passed(n)'
      OBVIOUS
    <3>1. PICK i \in 1..Len(at) : /\ at[i] = "right" /\ i <= Len(n) /\ n[i] = "left"
                                 /\ \A j \in 1..(i - 1) : n[j] = at[j]
      BY DEF Passed
    <3>2. i \in 1..Len(q)
      BY <1>3, <3>1
    <3>3. at'[i] = "right" /\ \A j \in 1..(i - 1) : n[j] = at'[j]
      BY <1>3, <3>1, <3>2
    <3>. QED  BY <1>3, <3>1, <3>2, <3>3 DEF Passed
  <2>2. Below(at, n) => Passed(n)'
    <3>. SUFFICES ASSUME Below(at, n) PROVE Passed(n)'
      OBVIOUS
    <3>1. /\ Len(q) + 1 <= Len(n) /\ n[Len(q) + 1] = "left"
          /\ \A j \in 1..Len(q) : n[j] = at'[j]
      BY <1>3 DEF Below
    <3>. QED  BY <1>3, <3>1 DEF Passed
  <2>3. Passed(n)' => Passed(n) \/ Below(at, n)
    <3>. SUFFICES ASSUME Passed(n)' PROVE Passed(n) \/ Below(at, n)
      OBVIOUS
    <3>1. PICK i \in 1..Len(at') : /\ at'[i] = "right" /\ i <= Len(n) /\ n[i] = "left"
                                  /\ \A j \in 1..(i - 1) : n[j] = at'[j]
      BY DEF Passed
    <3>2. CASE i = Len(q) + 1
      BY <1>3, <3>1, <3>2 DEF Below
    <3>3. CASE i \in 1..Len(q)
      <4>1. at[i] = "right" /\ \A j \in 1..(i - 1) : n[j] = at[j]
        BY <1>3, <3>1, <3>3
      <4>. QED  BY <1>3, <3>1, <3>3, <4>1 DEF Passed
    <3>. QED  BY <1>3, <3>1, <3>2, <3>3
  <2>. QED  BY <2>1, <2>2, <2>3
<1>6. Around(n)' = Around(n)
  BY <1>3, <1>4 DEF Around, Below
<1>7. Closed(n)' <=> Closed(n)
  BY <1>2, <1>5 DEF Closed
<1>8. Opened(n)' <=> Opened(n)
  BY <1>6, <1>7 DEF Opened
<1>. QED  BY <1>2, <1>7, <1>8
             DEF Opened, Closed, Passed, Around, Below, Tour, IsExpression

\* from the second operand back to the operator
LEMMA AtSecond ==
  ASSUME Tour, back, at # <<>>, Last(at) = "right", UNCHANGED tree, ToOperator, NEW n \in tree
  PROVE  /\ Tour' /\ at' = Front(at) /\ at' \notin Leaves(tree)
         /\ Closed(n)' = (Closed(n) \/ n = Front(at)) /\ Opened(n)' = Opened(n)
         /\ ~Closed(Front(at)) /\ Opened(Front(at))
         /\ Closed(Kid(Front(at), "left")) /\ Closed(at)
         /\ Below(Front(at), n) => Opened(n) /\ (n = Front(at) \/ Closed(n))
<1>. PICK q : q = Front(at)
  OBVIOUS
<1>1. q \in tree /\ q \in Seq(Sides) /\ at = Kid(q, "right") /\ at' = q /\ back'
  BY AtKid DEF ToOperator
<1>2. q \notin Leaves(tree)
  BY <1>1, Paths DEF Tour, Leaves
<1>3. /\ Len(at) = Len(q) + 1 /\ Len(q) \in Nat
      /\ at[Len(q) + 1] = "right"
      /\ \A i \in 1..Len(q) : at[i] = q[i]
  BY <1>1, KidPath DEF Sides
<1>4. n \in Seq(Sides) /\ at \in Seq(Sides)
  BY Paths DEF Tour
<1>5. ASSUME NEW m \in Seq(Sides)
      PROVE  Passed(m) <=> Passed(m)' \/ (Below(q, m) /\ Len(q) < Len(m) /\ m[Len(q) + 1] = "left")
  <2>1. Passed(m)' => Passed(m)
    <3>. SUFFICES ASSUME NEW i \in 1..Len(q), q[i] = "right", i <= Len(m), m[i] = "left",
                         \A j \in 1..(i - 1) : m[j] = q[j]
                  PROVE  Passed(m)
      BY <1>1 DEF Passed
    <3>1. i \in 1..Len(at) /\ at[i] = "right" /\ \A j \in 1..(i - 1) : m[j] = at[j]
      BY <1>3
    <3>. QED  BY <3>1 DEF Passed
  <2>2. Below(q, m) /\ Len(q) < Len(m) /\ m[Len(q) + 1] = "left" => Passed(m)
    BY <1>3 DEF Passed, Below
  <2>3. ASSUME NEW i \in 1..Len(at), at[i] = "right", i <= Len(m), m[i] = "left",
               \A j \in 1..(i - 1) : m[j] = at[j]
        PROVE  Passed(m)' \/ (Below(q, m) /\ Len(q) < Len(m) /\ m[Len(q) + 1] = "left")
    <3>1. CASE i = Len(q) + 1
      BY <1>3, <2>3, <3>1 DEF Below
    <3>2. CASE i \in 1..Len(q)
      <4>1. q[i] = "right" /\ \A j \in 1..(i - 1) : m[j] = q[j]
        BY <1>3, <2>3, <3>2
      <4>. QED  BY <1>1, <2>3, <3>2, <4>1 DEF Passed
    <3>. QED  BY <1>3, <3>1, <3>2
  <2>. QED  BY <2>1, <2>2, <2>3 DEF Passed
<1>6. Below(q, n) => n = q \/ (Len(q) < Len(n) /\ n[Len(q) + 1] \in Sides)
  <2>1. Below(q, n) /\ ~ (Len(q) < Len(n)) => Len(q) = Len(n)
    BY <1>1, <1>4 DEF Below
  <2>. QED  BY <1>1, <1>4, <2>1, PrefixBelow, KidOnTheWay DEF Tour
<1>7. Below(at, n) <=> Below(q, n) /\ Len(q) < Len(n) /\ n[Len(q) + 1] = "right"
  BY <1>3, <1>4 DEF Below
<1>8. Below(q, q) /\ ~Passed(q)' /\ ~Below(at, q) /\ Around(q)
  <2>1. ~Passed(q)'
    BY <1>1, <1>3 DEF Passed
  <2>. QED  BY <1>1, <1>3, <2>1 DEF Below, Around
<1>9. ~Passed(q)
  BY <1>1, <1>5, <1>8
<1>10. Closed(n)' <=> Closed(n) \/ n = q
  BY <1>1, <1>4, <1>5, <1>6, <1>7, <1>8 DEF Closed, Below, Sides
<1>11. Around(n) <=> Around(n)' \/ n = q
  <2>1. Around(n) => Around(n)' \/ n = q
    <3>. SUFFICES ASSUME Around(n) PROVE Around(n)' \/ n = q
      OBVIOUS
    <3>1. Len(n) <= Len(q) /\ \A i \in 1..Len(n) : n[i] = q[i]
      BY <1>3, <1>4 DEF Around, Below
    <3>2. CASE Len(n) = Len(q)
      BY <1>1, <1>4, <3>1, <3>2, PrefixBelow DEF Below
    <3>3. CASE Len(n) < Len(q)
      BY <1>1, <3>1, <3>3 DEF Around, Below
    <3>. QED  BY <1>1, <1>4, <3>1, <3>2, <3>3
  <2>2. Around(n)' => Around(n)
    <3>. SUFFICES ASSUME Len(n) < Len(q), \A i \in 1..Len(n) : n[i] = q[i]
                  PROVE  Around(n)
      BY <1>1 DEF Around, Below
    <3>. QED  BY <1>3, <1>4 DEF Around, Below
  <2>. QED  BY <1>8, <2>1, <2>2
<1>12. Opened(n)' <=> Opened(n)
  BY <1>10, <1>11 DEF Opened
<1>13. Closed(Kid(q, "left")) /\ Closed(at)
  <2>1. /\ Kid(q, "left") \in Seq(Sides) /\ Below(q, Kid(q, "left")) /\ Len(q) < Len(Kid(q, "left"))
        /\ Kid(q, "left")[Len(q) + 1] = "left"
    BY <1>1, KidPath DEF Sides, Below
  <2>2. Passed(Kid(q, "left"))
    BY <1>5, <2>1
  <2>. QED  BY <1>4, <2>2 DEF Closed, Below
<1>14. Below(q, n) => n = q \/ Closed(n)
  BY <1>4, <1>5, <1>6, <1>7 DEF Closed, Sides
<1>15. ~Closed(q) /\ Opened(q)
  BY <1>8, <1>9 DEF Closed, Opened
<1>16. Closed(n)' = (Closed(n) \/ n = q) /\ Opened(n)' = Opened(n)
  BY <1>10, <1>12 DEF Closed, Opened, Passed, Around
<1>17. Tour' /\ at' = q /\ at' \notin Leaves(tree)
  BY <1>1, <1>2 DEF Tour, IsExpression
<1>. QED  BY <1>13, <1>14, <1>15, <1>16, <1>17 DEF Opened

\* the tour ends where it began
LEMMA TourEnds ==
  ASSUME Tour, at = <<>>, NEW n \in tree
  PROVE  /\ back => Closed(n)
         /\ ~back => ~Closed(n) /\ ~Opened(n)
<1>1. n \in Seq(Sides)
  BY Paths DEF Tour
<1>. QED  BY <1>1 DEF Closed, Opened, Passed, Around, Below

-----------------------------------------------------------------------------
(* What is printed *)

Braces == {"open", "close"}

PrintedIn(d, b, n, K) == \E k \in K : d[k].brace = b /\ d[k].node = n

\* brace k of d is where the expression wants it
NestedAt(d, k) ==
  /\ d[k].space = 4 * Len(d[k].node)
  /\ ~PrintedIn(d, d[k].brace, d[k].node, 1..(k - 1))
  /\ d[k].brace = "open" =>
       \A n \in tree : IsStrictPrefix(n, d[k].node) => PrintedIn(d, "open", n, 1..(k - 1))
  /\ d[k].brace = "close" =>
       \A n \in tree : IsPrefix(d[k].node, n) =>
         /\ PrintedIn(d, "open", n, 1..(k - 1))
         /\ n = d[k].node \/ PrintedIn(d, "close", n, 1..(k - 1))

Nested(d) ==
  /\ d \in Seq([brace : Braces, node : tree, space : Int])
  /\ \A k \in DOMAIN d : NestedAt(d, k)

\* a brace that may come next
LEMMA BraceAppended ==
  ASSUME IsExpression(tree), NEW d, Nested(d), NEW b \in Braces, NEW n \in tree,
         ~PrintedIn(d, b, n, DOMAIN d),
         b = "open" => \A m \in tree : IsStrictPrefix(m, n) => PrintedIn(d, "open", m, DOMAIN d),
         b = "close" => \A m \in tree : IsPrefix(n, m) =>
                      /\ PrintedIn(d, "open", m, DOMAIN d)
                      /\ m = n \/ PrintedIn(d, "close", m, DOMAIN d)
  PROVE  LET e == Append(d, Brace(b, n, 4 * Len(n)))
         IN  /\ Nested(e)
             /\ \A c \in Braces, m \in tree :
                  PrintedIn(e, c, m, DOMAIN e) <=> PrintedIn(d, c, m, DOMAIN d) \/ (c = b /\ m = n)
<1>. DEFINE new == Brace(b, n, 4 * Len(n))
            e == Append(d, new)
            B == [brace : Braces, node : tree, space : Int]
<1>1. n \in Seq(Sides) /\ d \in Seq(B)
  BY Paths DEF Nested
<1>2. new \in B /\ new.brace = b /\ new.node = n /\ new.space = 4 * Len(n)
  BY <1>1 DEF Brace
<1>. HIDE DEF new, B
<1>3. /\ e \in Seq(B) /\ DOMAIN d = 1..Len(d) /\ DOMAIN e = 1..(Len(d) + 1) /\ Len(d) \in Nat
      /\ e[Len(d) + 1] = new /\ \A k \in 1..Len(d) : e[k] = d[k]
  BY <1>1, <1>2, LenProperties, AppendProperties
<1>. HIDE DEF e
<1>4. ASSUME NEW c, NEW m, NEW k \in 0..Len(d)
      PROVE  PrintedIn(e, c, m, 1..k) <=> PrintedIn(d, c, m, 1..k)
  <2>1. \A j \in 1..k : e[j] = d[j]
    BY <1>3, <1>4
  <2>. QED  BY <2>1 DEF PrintedIn
<1>5. ASSUME NEW k \in 1..Len(d) PROVE NestedAt(e, k)
  <2>1. NestedAt(d, k) /\ e[k] = d[k] /\ k - 1 \in 0..Len(d)
    BY <1>3 DEF Nested
  <2>. QED  BY <1>4, <2>1 DEF NestedAt
<1>6. NestedAt(e, Len(d) + 1)
  <2>1. \A c, m : PrintedIn(e, c, m, 1..Len(d)) <=> PrintedIn(d, c, m, DOMAIN d)
    BY <1>3, <1>4
  <2>2. Len(d) + 1 - 1 = Len(d)
    BY <1>3
  <2>. QED  BY <1>2, <1>3, <2>1, <2>2 DEF NestedAt
<1>7. Nested(e)
  BY <1>3, <1>5, <1>6 DEF Nested, B
<1>8. ASSUME NEW c \in Braces, NEW m \in tree
      PROVE  PrintedIn(e, c, m, DOMAIN e) <=> PrintedIn(d, c, m, DOMAIN d) \/ (c = b /\ m = n)
  BY <1>2, <1>3 DEF PrintedIn
<1>. QED  BY <1>7, <1>8 DEF e, new

\* what the dump visitor has printed where it is
Dump ==
  /\ Nested(dumped)
  /\ pc = "dump" =>
       /\ adv_space = 4 * Len(at)
       /\ \A n \in tree :
            /\ PrintedIn(dumped, "open", n, DOMAIN dumped) <=> Opened(n)
            /\ PrintedIn(dumped, "close", n, DOMAIN dumped) <=> Closed(n)
  /\ pc # "dump" =>
       adv_space = 0 /\ \A n \in tree : PrintedIn(dumped, "close", n, DOMAIN dumped)

LEMMA DumpPrimStep ==
  ASSUME Tour, Dump, DumpPrim
  PROVE  Tour' /\ Dump'
<1>. DEFINE d1 == Append(dumped, Brace("open", at, adv_space))
            d2 == Append(d1, Brace("close", at, adv_space))
<1>1. /\ pc = "dump" /\ ~back /\ at \in Leaves(tree) /\ back' = TRUE
      /\ UNCHANGED <<tree, pc, at, adv_space>>
      /\ dumped' = dumped \o <<Brace("open", at, adv_space), Brace("close", at, adv_space)>>
  BY DEF DumpPrim
<1>2. at \in tree /\ at \in Seq(Sides) /\ adv_space = 4 * Len(at) /\ Nested(dumped) /\ IsExpression(tree)
  BY <1>1, Paths DEF Tour, Dump
<1>3. ASSUME NEW n \in tree
      PROVE  /\ PrintedIn(dumped, "open", n, DOMAIN dumped) <=> Opened(n)
             /\ PrintedIn(dumped, "close", n, DOMAIN dumped) <=> Closed(n)
  BY <1>1 DEF Dump
<1>4. dumped' = d2
  <2>1. dumped \in Seq([brace : Braces, node : tree, space : Int])
    BY <1>2 DEF Nested
  <2>. QED  BY <1>1, <2>1
<1>5. ~Opened(at) /\ ~Closed(at)
  BY <1>1, NotBegun DEF Opened
<1>6. ASSUME NEW m \in tree, IsStrictPrefix(m, at) PROVE PrintedIn(dumped, "open", m, DOMAIN dumped)
  <2>1. Below(m, at) /\ Len(m) < Len(at)
    BY <1>2, <1>6, Paths, PrefixBelow
  <2>. QED  BY <1>3, <2>1 DEF Opened, Around
<1>7. /\ Nested(d1)
      /\ \A c \in Braces, m \in tree :
           PrintedIn(d1, c, m, DOMAIN d1) <=> PrintedIn(dumped, c, m, DOMAIN dumped) \/ (c = "open" /\ m = at)
  BY <1>2, <1>3, <1>5, <1>6, BraceAppended DEF Braces
<1>. HIDE DEF d1
<1>8. \A m \in tree : IsPrefix(at, m) => m = at
  BY <1>1, <1>2, Paths, PrefixBelow, LeafAlone
<1>9. /\ Nested(d2)
      /\ \A c \in Braces, m \in tree :
           PrintedIn(d2, c, m, DOMAIN d2) <=> PrintedIn(d1, c, m, DOMAIN d1) \/ (c = "close" /\ m = at)
  <2>1. "close" \in Braces /\ "open" \in Braces /\ ~PrintedIn(d1, "close", at, DOMAIN d1)
    BY <1>2, <1>3, <1>5, <1>7 DEF Braces
  <2>2. \A m \in tree : IsPrefix(at, m) => PrintedIn(d1, "open", m, DOMAIN d1) /\ m = at
    BY <1>7, <1>8, <2>1
  <2>. QED  BY <1>2, <1>7, <2>1, <2>2, BraceAppended
<1>. HIDE DEF d2
<1>10. ASSUME NEW n \in tree
       PROVE  /\ PrintedIn(d2, "open", n, DOMAIN d2) <=> Opened(n)'
              /\ PrintedIn(d2, "close", n, DOMAIN d2) <=> Closed(n)'
  <2>1. Closed(n)' = (Closed(n) \/ n = at) /\ Opened(n)' = (Opened(n) \/ n = at)
    BY <1>1, AtLeaf
  <2>. QED  BY <1>3, <1>7, <1>9, <2>1 DEF Braces
<1>11. Tour'
  BY <1>1 DEF Tour, IsExpression
<1>12. Nested(dumped)'
  BY <1>1, <1>4, <1>9 DEF Nested, NestedAt
<1>13. /\ pc' = "dump" /\ adv_space' = 4 * Len(at')
       /\ \A n \in tree' :
            /\ PrintedIn(dumped', "open", n, DOMAIN dumped') <=> Opened(n)'
            /\ PrintedIn(dumped', "close", n, DOMAIN dumped') <=> Closed(n)'
  BY <1>1, <1>2, <1>4, <1>10
<1>. QED  BY <1>11, <1>12, <1>13 DEF Dump

LEMMA DumpLeftStep ==
  ASSUME Tour, Dump, DumpLeft
  PROVE  Tour' /\ Dump'
<1>. DEFINE d == Append(dumped, Brace("open", at, 4 * Len(at)))
<1>1. /\ pc = "dump" /\ pc' = "dump" /\ ~back /\ at \notin Leaves(tree)
      /\ adv_space' = adv_space + 4 /\ ToLeft /\ tree' = tree
      /\ dumped' = Append(dumped, Brace("open", at, adv_space))
  BY DEF DumpLeft, Entering
<1>2. at \in tree /\ at \in Seq(Sides) /\ adv_space = 4 * Len(at) /\ Nested(dumped) /\ IsExpression(tree)
  BY <1>1, Paths DEF Tour, Dump
<1>3. ASSUME NEW n \in tree
      PROVE  /\ PrintedIn(dumped, "open", n, DOMAIN dumped) <=> Opened(n)
             /\ PrintedIn(dumped, "close", n, DOMAIN dumped) <=> Closed(n)
  BY <1>1 DEF Dump
<1>4. dumped' = d
  BY <1>1, <1>2
<1>5. ~Opened(at)
  BY <1>1, NotBegun
<1>6. ASSUME NEW m \in tree, IsStrictPrefix(m, at) PROVE PrintedIn(dumped, "open", m, DOMAIN dumped)
  <2>1. Below(m, at) /\ Len(m) < Len(at)
    BY <1>2, <1>6, Paths, PrefixBelow
  <2>. QED  BY <1>3, <2>1 DEF Opened, Around
<1>7. /\ Nested(d)
      /\ \A c \in Braces, m \in tree :
           PrintedIn(d, c, m, DOMAIN d) <=> PrintedIn(dumped, c, m, DOMAIN dumped) \/ (c = "open" /\ m = at)
  BY <1>2, <1>3, <1>5, <1>6, BraceAppended DEF Braces
<1>. HIDE DEF d
<1>8. Tour' /\ adv_space' = 4 * Len(at')
  <2>1. Len(at') = Len(at) + 1 /\ Len(at) \in Nat
    BY <1>1, <1>2, KidPath DEF ToLeft, Sides
  <2>. QED  BY <1>1, <1>2, <2>1, AtOperator
<1>9. ASSUME NEW n \in tree
      PROVE  /\ PrintedIn(d, "open", n, DOMAIN d) <=> Opened(n)'
             /\ PrintedIn(d, "close", n, DOMAIN d) <=> Closed(n)'
  <2>1. Closed(n)' = Closed(n) /\ Opened(n)' = (Opened(n) \/ n = at)
    BY <1>1, AtOperator
  <2>. QED  BY <1>3, <1>7, <2>1 DEF Braces
<1>10. Nested(dumped)'
  BY <1>1, <1>4, <1>7 DEF Nested, NestedAt
<1>11. \A n \in tree' :
         /\ PrintedIn(dumped', "open", n, DOMAIN dumped') <=> Opened(n)'
         /\ PrintedIn(dumped', "close", n, DOMAIN dumped') <=> Closed(n)'
  BY <1>1, <1>4, <1>9
<1>. QED  BY <1>1, <1>8, <1>10, <1>11 DEF Dump

LEMMA DumpRightStep ==
  ASSUME Tour, Dump, DumpRight
  PROVE  Tour' /\ Dump'
<1>1. /\ pc = "dump" /\ pc' = "dump" /\ back /\ at # <<>> /\ Last(at) = "left"
      /\ adv_space' = (adv_space - 4) + 4 /\ ToRight /\ tree' = tree /\ dumped' = dumped
  BY DEF DumpRight, Between
<1>2. at \in tree /\ at \in Seq(Sides) /\ adv_space = 4 * Len(at) /\ Nested(dumped) /\ IsExpression(tree)
  BY <1>1, Paths DEF Tour, Dump
<1>3. Tour' /\ adv_space' = 4 * Len(at')
  <2>1. at = Kid(Front(at), "left") /\ Front(at) \in Seq(Sides)
    BY <1>1, AtKid
  <2>2. Len(at') = Len(Front(at)) + 1 /\ Len(at) = Len(Front(at)) + 1
    BY <1>1, <2>1, KidPath DEF ToRight, Sides
  <2>3. Len(at) \in Nat
    BY <1>2
  <2>4. adv_space' = adv_space
    BY <1>1, <1>2, <2>3
  <2>. QED  BY <1>1, <1>2, <2>2, <2>4, AtFirst
<1>4. \A n \in tree' :
        /\ PrintedIn(dumped', "open", n, DOMAIN dumped') <=> Opened(n)'
        /\ PrintedIn(dumped', "close", n, DOMAIN dumped') <=> Closed(n)'
  <2>1. ASSUME NEW n \in tree
        PROVE  /\ PrintedIn(dumped', "open", n, DOMAIN dumped') <=> Opened(n)'
               /\ PrintedIn(dumped', "close", n, DOMAIN dumped') <=> Closed(n)'
    <3>1. Closed(n)' = Closed(n) /\ Opened(n)' = Opened(n)
      BY <1>1, AtFirst
    <3>. QED  BY <1>1, <3>1 DEF Dump
  <2>. QED  BY <1>1, <2>1
<1>5. Nested(dumped)'
  BY <1>1, <1>2 DEF Nested, NestedAt
<1>. QED  BY <1>1, <1>3, <1>4, <1>5 DEF Dump

LEMMA DumpEndStep ==
  ASSUME Tour, Dump, DumpEnd
  PROVE  Tour' /\ Dump'
<1>. PICK q : q = Front(at)
  OBVIOUS
<1>. DEFINE d == Append(dumped, Brace("close", q, 4 * Len(q)))
<1>1. /\ pc = "dump" /\ pc' = "dump" /\ back /\ at # <<>> /\ Last(at) = "right"
      /\ adv_space' = adv_space - 4 /\ ToOperator /\ tree' = tree
      /\ dumped' = Append(dumped, Brace("close", q, adv_space - 4))
  BY DEF DumpEnd, Leaving
<1>2. at \in tree /\ at \in Seq(Sides) /\ adv_space = 4 * Len(at) /\ Nested(dumped) /\ IsExpression(tree)
  BY <1>1, Paths DEF Tour, Dump
<1>3. ASSUME NEW n \in tree
      PROVE  /\ PrintedIn(dumped, "open", n, DOMAIN dumped) <=> Opened(n)
             /\ PrintedIn(dumped, "close", n, DOMAIN dumped) <=> Closed(n)
  BY <1>1 DEF Dump
<1>4. q \in tree /\ q \in Seq(Sides) /\ Len(q) \in Nat /\ Len(at) = Len(q) + 1 /\ at' = q
  <2>1. q \in tree /\ q \in Seq(Sides) /\ at = Kid(q, "right") /\ at' = q
    BY <1>1, AtKid DEF ToOperator
  <2>2. Len(Kid(q, "right")) = Len(q) + 1
    BY <2>1, KidPath DEF Sides
  <2>3. Len(q) \in Nat
    BY <2>1
  <2>. QED  BY <2>1, <2>2, <2>3
<1>5. adv_space - 4 = 4 * Len(q) /\ dumped' = d
  <2>1. adv_space - 4 = 4 * Len(q)
    BY <1>2, <1>4
  <2>. QED  BY <1>1, <2>1
<1>6. /\ Tour' /\ ~Closed(q)
      /\ \A n \in tree : /\ Closed(n)' = (Closed(n) \/ n = q)
                         /\ Opened(n)' = Opened(n)
                         /\ Below(q, n) => Opened(n) /\ (n = q \/ Closed(n))
  BY <1>1, <1>2, AtSecond
<1>7. ASSUME NEW m \in tree, IsPrefix(q, m)
      PROVE  /\ PrintedIn(dumped, "open", m, DOMAIN dumped)
             /\ m = q \/ PrintedIn(dumped, "close", m, DOMAIN dumped)
  <2>1. Below(q, m)
    BY <1>2, <1>4, <1>7, Paths, PrefixBelow
  <2>. QED  BY <1>3, <1>6, <2>1
<1>8. /\ Nested(d)
      /\ \A c \in Braces, m \in tree :
           PrintedIn(d, c, m, DOMAIN d) <=> PrintedIn(dumped, c, m, DOMAIN dumped) \/ (c = "close" /\ m = q)
  <2>1. "close" \in Braces /\ ~PrintedIn(dumped, "close", q, DOMAIN dumped)
    BY <1>3, <1>4, <1>6 DEF Braces
  <2>2. \A m \in tree : IsPrefix(q, m) =>
          /\ PrintedIn(dumped, "open", m, DOMAIN dumped)
          /\ m = q \/ PrintedIn(dumped, "close", m, DOMAIN dumped)
    BY <1>7
  <2>3. IsExpression(tree) /\ Nested(dumped) /\ q \in tree
    BY <1>2, <1>4
  <2>. QED  BY <2>1, <2>2, <2>3, BraceAppended
<1>. HIDE DEF d
<1>9. ASSUME NEW n \in tree
      PROVE  /\ PrintedIn(d, "open", n, DOMAIN d) <=> Opened(n)'
             /\ PrintedIn(d, "close", n, DOMAIN d) <=> Closed(n)'
  BY <1>3, <1>6, <1>8 DEF Braces
<1>10. Nested(dumped)'
  BY <1>1, <1>5, <1>8 DEF Nested, NestedAt
<1>11. \A n \in tree' :
         /\ PrintedIn(dumped', "open", n, DOMAIN dumped') <=> Opened(n)'
         /\ PrintedIn(dumped', "close", n, DOMAIN dumped') <=> Closed(n)'
  BY <1>1, <1>5, <1>9
<1>. QED  BY <1>1, <1>4, <1>5, <1>6, <1>10, <1>11 DEF Dump

LEMMA DumpDoneStep ==
  ASSUME Tour, Dump, DumpDone
  PROVE  Tour' /\ Dump'
<1>1. /\ pc = "dump" /\ pc' = "gen" /\ back /\ at = <<>>
      /\ UNCHANGED <<tree, at, adv_space, dumped>>
  BY DEF DumpDone
<1>2. adv_space' = 0
  BY <1>1 DEF Dump
<1>3. ASSUME NEW n \in tree PROVE PrintedIn(dumped, "close", n, DOMAIN dumped)
  BY <1>1, TourEnds DEF Dump
<1>4. Nested(dumped)'
  BY <1>1 DEF Dump, Nested, NestedAt
<1>. QED  BY <1>1, <1>2, <1>3, <1>4 DEF Dump, Tour, IsExpression

-----------------------------------------------------------------------------
(* The code that is generated *)

Reg == 0..(REG_COUNT - 1)
Instr == [cmd : {"mov", "op"}, dst : Reg, src : Reg \cup tree, node : tree]

\* each value that was visited is in a register of its own
Registers ==
  /\ code \in Seq(Instr) /\ r_regs \in [Reg -> Reg]
  /\ r_p \in 0..REG_COUNT
  /\ REG_COUNT - r_p = Cardinality(Loads)
  /\ \A k \in Loads : code[k].node \in Leaves(tree)
  /\ \A j, k \in Loads : code[j].node = code[k].node => j = k

\* the values whose visit is over are the loaded ones; what is visited, and not
\* a value, has been printed and has a loaded value below
Visited ==
  /\ \A n \in Leaves(tree) : Closed(n) <=> \E k \in Loads : code[k].node = n
  /\ \A n \in tree : Closed(n) => \E k \in Loads : Below(n, code[k].node)
  /\ \A n \in tree : \A k \in DOMAIN code :
       code[k].cmd = "op" /\ code[k].node = n => Closed(n) /\ n \notin Leaves(tree)
  /\ back /\ at \notin Leaves(tree) => r_p > 0

Ends == {"var_def", "exited", "crashed"}

Gen ==
  /\ pc \in {"dump", "gen", "died"} \cup Ends
  /\ Registers
  /\ pc = "dump" => code = <<>>
  /\ pc \in {"gen", "died"} => Visited
  /\ pc = "died" => r_p = 0
  /\ pc \in Ends => Cardinality(Leaves(tree)) = 1 \/ Cardinality(Leaves(tree)) < REG_COUNT

LEMMA LoadsFinite ==
  ASSUME Registers
  PROVE  /\ Loads \subseteq 1..Len(code) /\ IsFiniteSet(Loads) /\ Cardinality(Loads) \in Nat
         /\ Len(code) \in Nat /\ DOMAIN code = 1..Len(code)
<1>1. Loads \subseteq 1..Len(code) /\ Len(code) \in Nat /\ DOMAIN code = 1..Len(code)
  BY LenProperties DEF Registers, Loads
<1>2. IsFiniteSet(Loads)
  <2>1. IsFiniteSet(1..Len(code))
    BY <1>1, FS_Interval
  <2>. QED  BY <1>1, <2>1, FS_Subset
<1>. QED  BY <1>1, <1>2, FS_CardinalityType

\* no more values are loaded than there are, and as many if all are
LEMMA LoadsCount ==
  ASSUME IsExpression(tree), Registers
  PROVE  /\ Cardinality(Loads) <= Cardinality(Leaves(tree))
         /\ (\A n \in Leaves(tree) : \E k \in Loads : code[k].node = n)
              => Cardinality(Loads) = Cardinality(Leaves(tree))
<1>. DEFINE f == [k \in Loads |-> code[k].node]
<1>1. f \in Injection(Loads, Leaves(tree))
  <2>1. f \in [Loads -> Leaves(tree)]
    BY DEF Registers
  <2>2. \A j, k \in Loads : f[j] = f[k] => j = k
    BY DEF Registers
  <2>. HIDE DEF f
  <2>. QED  BY <2>1, <2>2 DEF Injection, IsInjective
<1>2. IsFiniteSet(Leaves(tree))
  BY Paths
<1>3. (\A n \in Leaves(tree) : \E k \in Loads : code[k].node = n) => f \in Surjection(Loads, Leaves(tree))
  <2>1. f \in [Loads -> Leaves(tree)]
    BY DEF Registers
  <2>2. \A k \in Loads : f[k] = code[k].node
    OBVIOUS
  <2>. HIDE DEF f
  <2>. QED  BY <2>1, <2>2 DEF Surjection
<1>. HIDE DEF f
<1>. QED  BY <1>1, <1>2, <1>3, FS_Injection

\* an operator that is left has a loaded value on either side
LEMMA TwoLoads ==
  ASSUME Tour, Registers, Visited, back, at # <<>>, Last(at) = "right"
  PROVE  \E j, k \in Loads : /\ Below(Kid(Front(at), "left"), code[j].node)
                             /\ Below(at, code[k].node)
                             /\ j # k
<1>. PICK q : q = Front(at)
  OBVIOUS
<1>1. q \in tree /\ q \in Seq(Sides) /\ at = Kid(q, "right") /\ at \in tree /\ IsExpression(tree)
  BY AtKid DEF Tour
<1>2. Kid(q, "left") \in tree
  BY <1>1, Paths
<1>3. Closed(Kid(q, "left")) /\ Closed(at)
  <2>1. Below(at, at)
    BY DEF Below
  <2>2. Kid(q, "left") \in Seq(Sides)
    BY <1>1, KidPath DEF Sides
  <2>3. Passed(Kid(q, "left"))
    <3>. DEFINE l == Kid(q, "left")
    <3>1. /\ Len(l) = Len(q) + 1 /\ l[Len(q) + 1] = "left" /\ \A i \in 1..Len(q) : l[i] = q[i]
          /\ Len(at) = Len(q) + 1 /\ at[Len(q) + 1] = "right" /\ \A i \in 1..Len(q) : at[i] = q[i]
      BY <1>1, KidPath DEF Sides
    <3>. HIDE DEF l
    <3>2. Len(q) \in Nat
      BY <1>1
    <3>3. Passed(l)
      BY <3>1, <3>2 DEF Passed
    <3>. QED  BY <3>3 DEF l
  <2>. QED  BY <2>1, <2>3 DEF Closed
<1>4. PICK j \in Loads : Below(Kid(q, "left"), code[j].node)
  BY <1>2, <1>3 DEF Visited
<1>5. PICK k \in Loads : Below(at, code[k].node)
  BY <1>1, <1>3 DEF Visited
<1>6. j # k
  <2>1. /\ Len(Kid(q, "left")) = Len(q) + 1 /\ Kid(q, "left")[Len(q) + 1] = "left"
        /\ Len(at) = Len(q) + 1 /\ at[Len(q) + 1] = "right" /\ Len(q) \in Nat
    BY <1>1, KidPath DEF Sides
  <2>2. code[j].node[Len(q) + 1] = "left" /\ code[k].node[Len(q) + 1] = "right"
    BY <1>4, <1>5, <2>1 DEF Below
  <2>. QED  BY <2>2
<1>. QED  BY <1>4, <1>5, <1>6

\* so two registers are gone, and reglist_last() reads inside the array
LEMMA LastInside ==
  ASSUME Tour, Registers, Visited, back, at # <<>>, Last(at) = "right"
  PROVE  r_p + 2 <= REG_COUNT
<1>1. PICK j, k \in Loads : j # k
  BY TwoLoads
<1>2. IsFiniteSet({j, k}) /\ Cardinality({j, k}) = 2
  <2>1. IsFiniteSet({j}) /\ Cardinality({j}) = 1
    BY FS_Singleton
  <2>2. {j, k} = {j} \cup {k}
    OBVIOUS
  <2>. QED  BY <1>1, <2>1, <2>2, FS_AddElement
<1>3. 2 <= Cardinality(Loads)
  BY <1>2, LoadsFinite, FS_Subset
<1>. QED  BY <1>3, AstAssumption DEF Registers

LEMMA GenPrimStep ==
  ASSUME Tour, Gen, GenPrim
  PROVE  Tour' /\ Gen'
<1>. PICK ins : ins = [cmd |-> "mov", dst |-> Got, src |-> at, node |-> at]
  OBVIOUS
<1>1. /\ pc = "gen" /\ pc' = "gen" /\ ~back /\ back' = TRUE /\ at \in Leaves(tree) /\ r_p > 0
      /\ r_p' = r_p - 1 /\ code' = Append(code, ins)
      /\ UNCHANGED <<tree, at, r_regs>>
  BY DEF GenPrim, Gets
<1>2. /\ Registers /\ Visited /\ IsExpression(tree) /\ at \in tree
      /\ code \in Seq(Instr) /\ r_regs \in [Reg -> Reg] /\ r_p \in 0..REG_COUNT
      /\ REG_COUNT - r_p = Cardinality(Loads) /\ REG_COUNT \in Nat
  BY <1>1, AstAssumption DEF Gen, Registers, Tour
<1>3. ins \in Instr /\ ins.cmd = "mov" /\ ins.node = at
  <2>1. Got \in Reg
    BY <1>1, <1>2 DEF Got, Reg
  <2>. QED  BY <1>2, <2>1 DEF Instr
<1>. DEFINE new == Len(code) + 1
<1>4. /\ code' \in Seq(Instr) /\ DOMAIN code' = 1..new /\ code'[new] = ins
      /\ \A k \in 1..Len(code) : code'[k] = code[k]
      /\ DOMAIN code = 1..Len(code) /\ Len(code) \in Nat
  BY <1>1, <1>2, <1>3, AppendProperties, LenProperties
<1>. HIDE DEF new
<1>5. /\ Loads \subseteq 1..Len(code) /\ IsFiniteSet(Loads) /\ Cardinality(Loads) \in Nat
      /\ new \notin 1..Len(code) /\ 1..new = (1..Len(code)) \cup {new}
  BY <1>2, <1>4, LoadsFinite DEF new
<1>6. Loads' = Loads \cup {new}
  BY <1>3, <1>4, <1>5 DEF Loads
<1>7. Cardinality(Loads') = Cardinality(Loads) + 1
  BY <1>5, <1>6, FS_AddElement
<1>8. /\ \A k \in Loads : code'[k] = code[k]
      /\ code'[new].node = at
  BY <1>3, <1>4, <1>5
<1>9. \A k \in Loads : code[k].node # at
  <2>1. ~Closed(at)
    BY <1>1, NotBegun DEF Opened
  <2>. QED  BY <1>1, <1>2, <2>1 DEF Visited
<1>10. Registers'
  <2>1. r_p' \in 0..REG_COUNT /\ REG_COUNT - r_p' = Cardinality(Loads')
    BY <1>1, <1>2, <1>5, <1>7
  <2>2. \A k \in Loads' : code'[k].node \in Leaves(tree')
    BY <1>1, <1>2, <1>6, <1>8 DEF Registers
  <2>3. \A j, k \in Loads' : code'[j].node = code'[k].node => j = k
    BY <1>2, <1>6, <1>8, <1>9 DEF Registers
  <2>4. code' \in Seq(Instr)'
    BY <1>1, <1>4 DEF Instr
  <2>. QED  BY <1>1, <1>2, <2>1, <2>2, <2>3, <2>4 DEF Registers
<1>11. \A n \in tree : Closed(n)' <=> Closed(n) \/ n = at
  BY <1>1, AtLeaf
<1>12. Visited'
  <2>1. \A n \in Leaves(tree)' : Closed(n)' <=> \E k \in Loads' : code'[k].node = n
    <3>1. Leaves(tree)' = Leaves(tree) /\ Leaves(tree) \subseteq tree
      BY <1>1, <1>2, Paths DEF Leaves
    <3>. QED  BY <1>2, <1>6, <1>8, <1>11, <3>1 DEF Visited
  <2>2. \A n \in tree' : Closed(n)' => \E k \in Loads' : Below(n, code'[k].node)
    <3>1. Below(at, at)
      BY DEF Below
    <3>. QED  BY <1>1, <1>2, <1>6, <1>8, <1>11, <3>1 DEF Visited
  <2>3. ASSUME NEW n \in tree, NEW k \in DOMAIN code', code'[k].cmd = "op", code'[k].node = n
        PROVE  Closed(n)' /\ n \notin Leaves(tree)'
    <3>1. k \in DOMAIN code /\ code'[k] = code[k]
      BY <1>3, <1>4, <1>5, <2>3
    <3>2. Closed(n) /\ n \notin Leaves(tree)
      BY <1>2, <2>3, <3>1 DEF Visited
    <3>. QED  BY <1>1, <1>11, <3>2 DEF Leaves
  <2>. QED  BY <1>1, <2>1, <2>2, <2>3 DEF Visited
<1>13. Tour'
  BY <1>1, <1>2 DEF Tour, IsExpression
<1>. QED  BY <1>1, <1>10, <1>12, <1>13 DEF Gen, Ends

LEMMA GenDownStep ==
  ASSUME Tour, Gen, GenLeft \/ GenRight
  PROVE  Tour' /\ Gen'
<1>1. pc = "gen" /\ pc' = "gen" /\ ~back' /\ UNCHANGED <<tree, r_regs, r_p, code>>
  BY DEF GenLeft, GenRight, Entering, Between, ToLeft, ToRight
<1>2. /\ Tour'
      /\ \A n \in tree : Closed(n)' = Closed(n)
  <2>1. <<>> \in tree
    BY Paths DEF Tour
  <2>2. CASE GenLeft
    BY <2>1, <2>2, AtOperator DEF GenLeft, Entering
  <2>3. CASE GenRight
    BY <2>1, <2>3, AtFirst DEF GenRight, Between
  <2>. QED  BY <2>2, <2>3
<1>3. Registers /\ Visited /\ Leaves(tree) \subseteq tree
  BY <1>1, Paths DEF Gen, Tour
<1>4. Registers' /\ Loads' = Loads /\ Leaves(tree)' = Leaves(tree)
  BY <1>1, <1>3 DEF Registers, Loads, Leaves, Instr
<1>5. Visited'
  <2>1. ASSUME NEW n \in tree, NEW k \in DOMAIN code, code[k].cmd = "op", code[k].node = n
        PROVE  Closed(n)' /\ n \notin Leaves(tree)
    BY <1>2, <1>3, <2>1 DEF Visited
  <2>2. \A n \in Leaves(tree)' : Closed(n)' <=> \E k \in Loads' : code'[k].node = n
    BY <1>1, <1>2, <1>3, <1>4 DEF Visited
  <2>3. \A n \in tree' : Closed(n)' => \E k \in Loads' : Below(n, code'[k].node)
    BY <1>1, <1>2, <1>3, <1>4 DEF Visited
  <2>. QED  BY <1>1, <1>3, <1>4, <2>1, <2>2, <2>3 DEF Visited
<1>. QED  BY <1>1, <1>2, <1>4, <1>5 DEF Gen, Ends

LEMMA GenOpStep ==
  ASSUME Tour, Gen, GenOp
  PROVE  Tour' /\ Gen'
<1>. PICK q, ins : q = Front(at) /\ ins = [cmd |-> "op", dst |-> Got, src |-> r_regs[LastSlot],
                                          node |-> Front(at)]
  OBVIOUS
<1>1. /\ pc = "gen" /\ pc' = "gen" /\ back /\ at # <<>> /\ Last(at) = "right" /\ r_p > 0
      /\ code' = Append(code, ins) /\ r_regs' = Refilled(r_regs[LastSlot]) /\ ToOperator
      /\ UNCHANGED <<tree, r_p>>
  BY DEF GenOp, Leaving, Gets
<1>2. /\ Registers /\ Visited /\ IsExpression(tree) /\ at \in tree
      /\ code \in Seq(Instr) /\ r_regs \in [Reg -> Reg] /\ r_p \in 0..REG_COUNT
      /\ REG_COUNT - r_p = Cardinality(Loads) /\ REG_COUNT \in Nat
  BY <1>1, AstAssumption DEF Gen, Registers, Tour
<1>3. q \in tree /\ q \in Seq(Sides) /\ at = Kid(q, "right") /\ at' = q /\ back'
  BY <1>1, AtKid DEF ToOperator
<1>4. r_p + 2 <= REG_COUNT
  BY <1>1, <1>2, LastInside
<1>5. r_regs[LastSlot] \in Reg /\ Got \in Reg
  BY <1>1, <1>2, <1>4 DEF LastSlot, Got, Reg
<1>6. ins \in Instr /\ ins.cmd = "op" /\ ins.node = q
  BY <1>3, <1>5 DEF Instr
<1>. DEFINE new == Len(code) + 1
<1>7. /\ code' \in Seq(Instr) /\ DOMAIN code' = 1..new /\ code'[new] = ins
      /\ \A k \in 1..Len(code) : code'[k] = code[k]
      /\ DOMAIN code = 1..Len(code) /\ Len(code) \in Nat
  BY <1>1, <1>2, <1>6, AppendProperties, LenProperties
<1>8. 1..new = (1..Len(code)) \cup {new}
  BY <1>7
<1>. HIDE DEF new
<1>9. Loads' = Loads /\ \A k \in Loads : code'[k] = code[k]
  BY <1>6, <1>7, <1>8 DEF Loads
<1>10. Leaves(tree)' = Leaves(tree) /\ Leaves(tree) \subseteq tree
  BY <1>1, <1>2, Paths DEF Leaves
<1>11. /\ Tour' /\ q \notin Leaves(tree)
       /\ \A n \in tree : Closed(n)' <=> Closed(n) \/ n = q
  BY <1>1, <1>2, <1>3, AtSecond
<1>12. Registers'
  <2>1. r_regs' \in [Reg -> Reg]
    BY <1>1, <1>2, <1>5 DEF Refilled
  <2>2. code' \in Seq(Instr)'
    BY <1>1, <1>7 DEF Instr
  <2>3. \A k \in Loads' : code'[k].node \in Leaves(tree')
    BY <1>1, <1>2, <1>9 DEF Registers
  <2>4. \A j, k \in Loads' : code'[j].node = code'[k].node => j = k
    BY <1>2, <1>9 DEF Registers
  <2>. QED  BY <1>1, <1>2, <1>9, <2>1, <2>2, <2>3, <2>4 DEF Registers
<1>13. Visited'
  <2>1. \A n \in Leaves(tree)' : Closed(n)' <=> \E k \in Loads' : code'[k].node = n
    BY <1>2, <1>9, <1>10, <1>11 DEF Visited
  <2>2. \E k \in Loads : Below(q, code[k].node)
    <3>1. PICK k \in Loads : Below(at, code[k].node)
      BY <1>1, <1>2, TwoLoads
    <3>2. Len(at) = Len(q) + 1 /\ (\A i \in 1..Len(q) : at[i] = q[i]) /\ Len(q) \in Nat
      <4>1. /\ Len(Kid(q, "right")) = Len(q) + 1
            /\ \A i \in 1..Len(q) : Kid(q, "right")[i] = q[i]
        BY <1>3, KidPath DEF Sides
      <4>. QED  BY <1>3, <4>1
    <3>3. code[k].node \in Seq(Sides)
      BY <1>2, <1>10, Paths DEF Registers
    <3>4. Below(q, code[k].node)
      BY <3>1, <3>2, <3>3 DEF Below
    <3>. QED  BY <3>4
  <2>3. \A n \in tree' : Closed(n)' => \E k \in Loads' : Below(n, code'[k].node)
    BY <1>1, <1>2, <1>9, <1>11, <2>2 DEF Visited
  <2>4. ASSUME NEW n \in tree, NEW k \in DOMAIN code', code'[k].cmd = "op", code'[k].node = n
        PROVE  Closed(n)' /\ n \notin Leaves(tree)'
    <3>1. CASE k = new
      BY <1>3, <1>6, <1>7, <1>10, <1>11, <2>4, <3>1
    <3>2. CASE k \in DOMAIN code
      <4>1. code'[k] = code[k]
        BY <1>7, <3>2
      <4>. QED  BY <1>2, <1>10, <1>11, <2>4, <3>2, <4>1 DEF Visited
    <3>. QED  BY <1>7, <1>8, <2>4, <3>1, <3>2
  <2>. QED  BY <1>1, <1>10, <2>1, <2>3, <2>4 DEF Visited
<1>. QED  BY <1>1, <1>11, <1>12, <1>13 DEF Gen, Ends

LEMMA OtherSteps ==
  ASSUME Tour, Gen,
         DumpPrim \/ DumpLeft \/ DumpRight \/ DumpEnd \/ DumpDone \/ GenDies \/ GenDone \/ VarDefDump
           \/ UNCHANGED vars
  PROVE  Gen'
<1>1. UNCHANGED <<tree, r_regs, r_p, code>>
  BY
     DEF DumpPrim, DumpLeft, DumpRight, DumpEnd, DumpDone, GenDies, GenDone,
         VarDefDump, vars
<1>2. Registers /\ IsExpression(tree) /\ REG_COUNT \in Nat
  BY AstAssumption DEF Gen, Tour
<1>3. Registers' /\ Loads' = Loads /\ Leaves(tree)' = Leaves(tree)
  BY <1>1, <1>2 DEF Registers, Loads, Leaves, Instr
<1>4. CASE DumpPrim \/ DumpLeft \/ DumpRight \/ DumpEnd
  <2>1. pc = "dump" /\ pc' = "dump"
    BY <1>4 DEF DumpPrim, DumpLeft, DumpRight, DumpEnd, Entering, Between, Leaving
  <2>. QED  BY <1>1, <1>3, <2>1 DEF Gen, Ends
<1>5. CASE DumpDone
  <2>1. pc = "dump" /\ pc' = "gen" /\ ~back' /\ at = <<>> /\ UNCHANGED at
    BY <1>5 DEF DumpDone
  <2>2. code' = <<>> /\ Loads' = {}
    BY <1>1, <1>3, <2>1 DEF Gen, Loads
  <2>3. \A n \in tree' : ~Closed(n)'
    <3>1. \A n \in tree : n \in Seq(Sides)
      BY <1>2, Paths
    <3>. QED  BY <1>1, <2>1, <3>1 DEF Closed, Passed
  <2>4. Leaves(tree)' \subseteq tree'
    BY <1>1, <1>2, <1>3, Paths
  <2>5. Visited'
    BY <2>1, <2>2, <2>3, <2>4 DEF Visited
  <2>. QED  BY <1>3, <2>1, <2>5 DEF Gen, Ends
<1>6. CASE GenDies
  <2>1. pc = "gen" /\ pc' = "died" /\ ~ (r_p > 0) /\ UNCHANGED <<at, back>>
    BY <1>6 DEF GenDies, Leaving, Gets
  <2>2. r_p' = 0
    BY <1>1, <1>2, <2>1 DEF Registers
  <2>3. Visited'
    BY <1>1, <1>3, <2>1 DEF Gen, Visited, Closed, Passed
  <2>. QED  BY <1>3, <2>1, <2>2, <2>3 DEF Gen, Ends
<1>7. CASE GenDone
  <2>1. pc = "gen" /\ pc' = "var_def" /\ back /\ at = <<>>
    BY <1>7 DEF GenDone
  <2>2. Visited
    BY <2>1 DEF Gen
  <2>3. Cardinality(Leaves(tree)) = REG_COUNT - r_p
    <3>1. \A n \in Leaves(tree) : \E k \in Loads : code[k].node = n
      <4>1. \A n \in Leaves(tree) : Closed(n)
        BY <1>2, <2>1, TourEnds, Paths
      <4>. QED  BY <2>2, <4>1 DEF Visited
    <3>. QED  BY <1>2, <3>1, LoadsCount DEF Registers
  <2>4. CASE at \in Leaves(tree)
    <3>1. \A n \in tree : Below(at, n)
      BY <1>2, <2>1, Paths DEF Below
    <3>2. Leaves(tree) = {at}
      BY <1>2, <2>4, <3>1, LeafAlone, Paths
    <3>3. Cardinality(Leaves(tree)) = 1
      BY <3>2, FS_Singleton
    <3>. QED  BY <1>1, <1>3, <2>1, <3>3 DEF Gen, Ends
  <2>5. CASE at \notin Leaves(tree)
    <3>1. r_p > 0 /\ r_p \in Nat
      BY <1>2, <2>1, <2>2, <2>5 DEF Visited, Registers
    <3>2. Cardinality(Leaves(tree)) < REG_COUNT
      BY <1>2, <2>3, <3>1
    <3>. QED  BY <1>1, <1>3, <2>1, <3>2 DEF Gen, Ends
  <2>. QED  BY <2>4, <2>5
<1>8. CASE VarDefDump
  <2>1. pc = "var_def" /\ pc' \in Ends
    BY <1>8 DEF VarDefDump, Ends
  <2>. QED  BY <1>3, <2>1 DEF Gen, Ends
<1>9. CASE UNCHANGED vars
  <2>1. UNCHANGED <<pc, at, back>>
    BY <1>9 DEF vars
  <2>2. Visited => Visited'
    BY <1>1, <1>3, <2>1 DEF Visited, Closed, Passed
  <2>. QED  BY <1>1, <1>3, <2>1, <2>2 DEF Gen, Ends
<1>. QED  BY <1>4, <1>5, <1>6, <1>7, <1>8, <1>9

-----------------------------------------------------------------------------
(* The theorems *)

Inv == Tour /\ Dump /\ Gen

LEMMA InitInv == Init => Inv
<1>. SUFFICES ASSUME Init PROVE Inv
  OBVIOUS
<1>1. /\ tree \in Trees /\ pc = "dump" /\ at = <<>> /\ ~back /\ adv_space = 0
      /\ r_regs = REGS /\ r_p = REG_COUNT /\ dumped = <<>> /\ code = <<>>
  BY DEF Init
<1>2. Tour
  BY <1>1, AstAssumption DEF Tour, IsExpression
<1>3. Dump
  <2>1. \A n \in tree : ~Closed(n) /\ ~Opened(n)
    BY <1>1, <1>2, TourEnds
  <2>2. \A n \in tree, b \in Braces : ~PrintedIn(dumped, b, n, DOMAIN dumped)
    BY <1>1 DEF PrintedIn
  <2>. QED  BY <1>1, <2>1, <2>2 DEF Dump, Nested, Braces
<1>4. Gen
  <2>1. Loads = {}
    BY <1>1 DEF Loads
  <2>2. r_regs \in [Reg -> Reg]
    BY <1>1 DEF REGS, Reg
  <2>. QED  BY <1>1, <2>1, <2>2, FS_EmptySet, AstAssumption DEF Gen, Registers, Ends
<1>. QED  BY <1>2, <1>3, <1>4 DEF Inv

LEMMA StepInv == Inv /\ [Next]_vars => Inv'
<1>. SUFFICES ASSUME Inv, [Next]_vars PROVE Inv'
  OBVIOUS
<1>1. Tour /\ Dump /\ Gen
  BY DEF Inv
<1>2. CASE DumpPrim \/ DumpLeft \/ DumpRight \/ DumpEnd \/ DumpDone
  BY <1>1, <1>2, DumpPrimStep, DumpLeftStep, DumpRightStep, DumpEndStep, DumpDoneStep, OtherSteps
     DEF Inv
<1>3. ASSUME pc # "dump", pc' # "dump", UNCHANGED <<tree, dumped, adv_space>> PROVE Dump'
  BY <1>1, <1>3 DEF Dump, Nested, NestedAt, PrintedIn
<1>4. CASE GenPrim
  <2>1. pc = "gen" /\ pc' = "gen" /\ UNCHANGED <<tree, dumped, adv_space>>
    BY <1>4 DEF GenPrim
  <2>. QED  BY <1>1, <1>3, <1>4, <2>1, GenPrimStep DEF Inv
<1>5. CASE GenLeft \/ GenRight
  <2>1. pc = "gen" /\ pc' = "gen" /\ UNCHANGED <<tree, dumped, adv_space>>
    BY <1>5 DEF GenLeft, GenRight, Entering, Between
  <2>. QED  BY <1>1, <1>3, <1>5, <2>1, GenDownStep DEF Inv
<1>6. CASE GenOp
  <2>1. pc = "gen" /\ pc' = "gen" /\ UNCHANGED <<tree, dumped, adv_space>>
    BY <1>6 DEF GenOp, Leaving
  <2>. QED  BY <1>1, <1>3, <1>6, <2>1, GenOpStep DEF Inv
<1>7. CASE GenDies \/ GenDone \/ VarDefDump
  <2>1. pc # "dump" /\ pc' # "dump" /\ UNCHANGED <<tree, at, dumped, adv_space>>
    BY <1>7 DEF GenDies, GenDone, VarDefDump, Leaving
  <2>2. Tour'
    BY <1>1, <2>1 DEF Tour, IsExpression
  <2>. QED  BY <1>1, <1>3, <1>7, <2>1, <2>2, OtherSteps DEF Inv
<1>8. CASE UNCHANGED vars
  <2>1. UNCHANGED <<tree, pc, at, back, adv_space, dumped>>
    BY <1>8 DEF vars
  <2>2. Tour'
    BY <1>1, <2>1 DEF Tour, IsExpression
  <2>3. \A n : Opened(n)' = Opened(n) /\ Closed(n)' = Closed(n)
    BY <2>1 DEF Opened, Closed, Passed, Around
  <2>4. Nested(dumped)' = Nested(dumped)
    BY <2>1 DEF Nested, NestedAt, PrintedIn
  <2>5. \A b, n : PrintedIn(dumped, b, n, DOMAIN dumped)' = PrintedIn(dumped, b, n, DOMAIN dumped)
    BY <2>1 DEF PrintedIn
  <2>6. Dump'
    BY <1>1, <2>1, <2>3, <2>4, <2>5 DEF Dump
  <2>. QED  BY <1>1, <1>8, <2>2, <2>6, OtherSteps DEF Inv
<1>. QED  BY <1>2, <1>4, <1>5, <1>6, <1>7, <1>8 DEF Next

\* the node that is visited, the braces and the registers agree throughout
THEOREM Invariance == Spec => []Inv
BY InitInv, StepInv, PTL DEF Spec

\* Whatever the expression, what the dump visitor prints nests as it does: the
\* callbacks of ast_dump_visitor hand adv_space back as they were given it.
THEOREM PrintNests == Spec => []DumpNests
<1>1. Inv => DumpNests
  BY DEF Inv, Dump, Nested, NestedAt, DumpNests, Printed, PrintedIn
<1>. QED  BY <1>1, Invariance, PTL

\* However many registers reglist.c has, each value takes one for good, and an
\* expression with as many values as registers ends in die().
THEOREM NoRegisterComesBack == Spec => []RegistersRunOut
<1>1. Inv => RegistersRunOut
  <2>. SUFFICES ASSUME Inv PROVE RegistersRunOut
    OBVIOUS
  <2>1. Gen /\ Registers /\ IsExpression(tree)
    BY DEF Inv, Gen, Tour
  <2>2. Cardinality(Loads) <= Cardinality(Leaves(tree))
    BY <2>1, LoadsCount
  <2>. QED  BY <2>1, <2>2, AstAssumption, LoadsFinite, Paths, FS_CardinalityType
            DEF Gen, Registers, RegistersRunOut, Ends
<1>. QED  BY <1>1, Invariance, PTL

-----------------------------------------------------------------------------
(* With the three registers of the build *)

\* m lies to the left of n
LeftOf(m, n) ==
  \E i \in 1..Len(n) :
    /\ n[i] = "right" /\ i <= Len(m) /\ m[i] = "left"
    /\ \A j \in 1..(i - 1) : m[j] = n[j]

\* Values are loaded from the left to the right, the first to register 2 and the
\* second to register 1.  Only an operator on these two finds a register for its
\* result, and it gives slot 0 the name of register 2.
Three ==
  /\ \A j, k \in Loads : j < k => LeftOf(code[j].node, code[k].node)
  /\ r_p = 3 => Len(code) = 0
  /\ r_p = 2 => Len(code) = 1
  /\ r_p < 2 => Len(code) >= 2
  /\ Len(code) <= 2 => r_regs = REGS
  /\ Len(code) >= 1 => code[1].cmd = "mov" /\ code[1].dst = 2
  /\ Len(code) >= 2 => code[2].cmd = "mov" /\ code[2].dst = 1
  /\ \A k \in DOMAIN code : code[k].cmd = "op" =>
       k = 3 /\ code[k].src = 2 /\ code[1].node = Kid(code[k].node, "left")

\* what lies below a node whose visit is over has been visited
LEMMA ClosedBelow ==
  ASSUME Tour, NEW n \in tree, NEW m \in tree, Closed(n), Below(n, m)
  PROVE  Closed(m)
<1>1. n \in Seq(Sides) /\ m \in Seq(Sides) /\ at \in Seq(Sides)
  BY Paths DEF Tour
<1>2. CASE Passed(n)
  BY <1>1, <1>2 DEF Passed, Below, Closed
<1>3. CASE back /\ Below(at, n)
  BY <1>1, <1>3 DEF Below, Closed
<1>. QED  BY <1>2, <1>3 DEF Closed

\* an operator whose visit is over has a loaded value on either side
LEMMA LoadOnEachSide ==
  ASSUME Tour, Registers, Visited, NEW p \in tree, p \notin Leaves(tree), Closed(p)
  PROVE  \E j, k \in Loads : /\ Below(Kid(p, "left"), code[j].node)
                             /\ Below(Kid(p, "right"), code[k].node)
<1>1. p \in Seq(Sides) /\ Kid(p, "left") \in tree /\ Kid(p, "right") \in tree
  BY Paths DEF Tour, Leaves
<1>2. ASSUME NEW s \in Sides PROVE Closed(Kid(p, s))
  <2>1. Len(Kid(p, s)) = Len(p) + 1 /\ \A i \in 1..Len(p) : Kid(p, s)[i] = p[i]
    BY <1>1, KidPath
  <2>2. Below(p, Kid(p, s)) /\ Kid(p, s) \in tree
    BY <1>1, <2>1 DEF Below, Sides
  <2>. QED  BY <2>2, ClosedBelow
<1>. QED  BY <1>1, <1>2 DEF Visited, Sides

\* of two loads there is no third
LEMMA OnlyTwo ==
  ASSUME Registers, Cardinality(Loads) = 2, NEW j \in Loads, NEW k \in Loads, j # k
  PROVE  Loads = {j, k}
<1>1. IsFiniteSet({j, k}) /\ Cardinality({j, k}) = 2
  <2>1. IsFiniteSet({j}) /\ Cardinality({j}) = 1
    BY FS_Singleton
  <2>2. {j, k} = {j} \cup {k}
    OBVIOUS
  <2>. QED  BY <2>1, <2>2, FS_AddElement
<1>. QED  BY <1>1, LoadsFinite, FS_Subset

\* below an operand
LEMMA BelowKid ==
  ASSUME NEW q \in Seq(Sides), NEW s \in Sides, NEW n \in Seq(Sides), Below(Kid(q, s), n)
  PROVE  /\ Below(q, n) /\ Len(q) + 1 <= Len(n) /\ n[Len(q) + 1] = s
         /\ \A i \in 1..Len(q) : n[i] = q[i]
<1>1. /\ Len(Kid(q, s)) = Len(q) + 1 /\ Kid(q, s)[Len(q) + 1] = s
      /\ \A i \in 1..Len(q) : Kid(q, s)[i] = q[i]
  BY KidPath
<1>2. Len(q) \in Nat /\ Len(n) \in Nat
  OBVIOUS
<1>. HIDE DEF Kid
<1>3. Len(q) + 1 <= Len(n) /\ \A i \in 1..(Len(q) + 1) : Kid(q, s)[i] = n[i]
  BY <1>1 DEF Below
<1>4. n[Len(q) + 1] = s
  BY <1>1, <1>2, <1>3
<1>5. \A i \in 1..Len(q) : n[i] = q[i]
  BY <1>1, <1>2, <1>3
<1>. QED  BY <1>2, <1>3, <1>4, <1>5 DEF Below

\* what is above nodes on either side of an operator is above the operator
LEMMA AboveBoth ==
  ASSUME NEW q \in Seq(Sides), NEW p \in Seq(Sides), NEW m \in Seq(Sides), NEW n \in Seq(Sides),
         Below(Kid(q, "left"), m), Below(Kid(q, "right"), n), Below(p, m), Below(p, n)
  PROVE  Below(p, q)
<1>1. /\ m[Len(q) + 1] = "left" /\ n[Len(q) + 1] = "right"
      /\ \A i \in 1..Len(q) : m[i] = q[i]
  BY BelowKid DEF Sides
<1>2. \A i \in 1..Len(p) : p[i] = m[i] /\ p[i] = n[i]
  BY DEF Below
<1>3. Len(q) \in Nat /\ Len(p) \in Nat
  OBVIOUS
<1>4. Len(p) <= Len(q)
  <2>1. Len(q) + 1 \notin 1..Len(p)
    BY <1>1, <1>2
  <2>. QED  BY <1>3, <2>1
<1>. QED  BY <1>1, <1>2, <1>3, <1>4 DEF Below

LEMMA RightIsNotLeft ==
  ASSUME NEW q \in Seq(Sides), NEW m \in Seq(Sides), NEW n \in Seq(Sides),
         Below(Kid(q, "left"), m), Below(Kid(q, "right"), n)
  PROVE  ~LeftOf(n, m)
<1>1. /\ m[Len(q) + 1] = "left" /\ n[Len(q) + 1] = "right"
      /\ \A i \in 1..Len(q) : m[i] = q[i]
      /\ \A i \in 1..Len(q) : n[i] = q[i]
  BY BelowKid DEF Sides
<1>2. Len(q) \in Nat /\ Len(m) \in Nat
  OBVIOUS
<1>3. ASSUME NEW i \in 1..Len(m), m[i] = "right", n[i] = "left",
             \A h \in 1..(i - 1) : n[h] = m[h]
      PROVE  FALSE
  <2>1. CASE i <= Len(q)
    BY <1>1, <1>2, <1>3, <2>1
  <2>2. CASE i = Len(q) + 1
    BY <1>1, <1>3, <2>2
  <2>3. CASE i > Len(q) + 1
    <3>1. Len(q) + 1 \in 1..(i - 1)
      BY <1>2, <2>3
    <3>. QED  BY <1>1, <1>3, <3>1
  <2>. QED  BY <1>2, <2>1, <2>2, <2>3
<1>. QED  BY <1>3 DEF LeftOf

\* with two values loaded, an operator is reached whose left operand is the first
\* of them, and no operator was printed before
LEMMA FirstOperator ==
  ASSUME Tour, Registers, Visited, Three, Cardinality(Loads) = 2, Len(code) >= 2,
         back, at # <<>>, Last(at) = "right"
  PROVE  Len(code) = 2 /\ code[1].node = Kid(Front(at), "left")
<1>. PICK q, l : q = Front(at) /\ l = Kid(q, "left")
  OBVIOUS
<1>1. /\ q \in tree /\ q \in Seq(Sides) /\ at = Kid(q, "right") /\ at \in tree /\ IsExpression(tree)
      /\ l \in tree /\ l \in Seq(Sides) /\ at \in Seq(Sides)
      /\ \A n \in tree : n \in Seq(Sides)
  <2>1. q \in tree /\ q \in Seq(Sides) /\ at = Kid(q, "right") /\ at \in tree /\ IsExpression(tree)
    BY AtKid DEF Tour
  <2>. QED  BY <2>1, Paths
<1>2. ~Closed(q) /\ Closed(l)
  <2>1. /\ Len(l) = Len(q) + 1 /\ l[Len(q) + 1] = "left"
        /\ \A i \in 1..Len(q) : l[i] = q[i]
    BY <1>1, KidPath DEF Sides
  <2>2. /\ Len(at) = Len(q) + 1 /\ at[Len(q) + 1] = "right"
        /\ \A i \in 1..Len(q) : at[i] = q[i]
    <3>1. /\ Len(Kid(q, "right")) = Len(q) + 1 /\ Kid(q, "right")[Len(q) + 1] = "right"
          /\ \A i \in 1..Len(q) : Kid(q, "right")[i] = q[i]
      BY <1>1, KidPath DEF Sides
    <3>. QED  BY <1>1, <3>1
  <2>3. Len(q) \in Nat /\ Len(q) + 1 \in 1..(Len(q) + 1)
    BY <1>1
  <2>4. Passed(l)
    BY <2>1, <2>2, <2>3 DEF Passed
  <2>5. ~Passed(q)
    BY <2>2, <2>3 DEF Passed
  <2>6. ~Below(at, q)
    BY <2>2, <2>3 DEF Below
  <2>. QED  BY <2>4, <2>5, <2>6 DEF Closed
<1>3. PICK j, k \in Loads : Below(l, code[j].node) /\ Below(at, code[k].node) /\ j # k
  BY TwoLoads
<1>4. Loads = {j, k} /\ \A i \in Loads : code[i].node \in Seq(Sides)
  <2>1. \A i \in Loads : code[i].node \in tree
    BY <1>1, Paths DEF Registers
  <2>. QED  BY <1>1, <1>3, <2>1, OnlyTwo
<1>5. code[k].node[Len(q) + 1] = "right" /\ ~LeftOf(code[k].node, code[j].node)
  <2>1. code[j].node \in Seq(Sides) /\ code[k].node \in Seq(Sides)
    BY <1>4
  <2>2. code[k].node[Len(q) + 1] = "right"
    BY <1>1, <1>3, <2>1, BelowKid DEF Sides
  <2>. QED  BY <1>1, <1>3, <2>1, <2>2, RightIsNotLeft
<1>6. 1 \in Loads /\ 2 \in Loads /\ Len(code) \in Nat /\ DOMAIN code = 1..Len(code)
  BY LoadsFinite DEF Loads, Three
<1>7. j = 1 /\ k = 2
  BY <1>4, <1>5, <1>6 DEF Three
<1>8. l \in Leaves(tree)
  <2>. SUFFICES ASSUME l \notin Leaves(tree) PROVE FALSE
    OBVIOUS
  <2>1. PICK a, b \in Loads : /\ Below(Kid(l, "left"), code[a].node)
                              /\ Below(Kid(l, "right"), code[b].node)
    BY <1>1, <1>2, LoadOnEachSide
  <2>2. code[a].node \in Seq(Sides) /\ code[b].node \in Seq(Sides)
    BY <1>4
  <2>3. code[a].node[Len(l) + 1] = "left" /\ Below(l, code[a].node)
    BY <1>1, <2>1, <2>2, BelowKid DEF Sides
  <2>4. code[b].node[Len(l) + 1] = "right" /\ Below(l, code[b].node)
    BY <1>1, <2>1, <2>2, BelowKid DEF Sides
  <2>5. code[a].node[Len(q) + 1] = "left" /\ code[b].node[Len(q) + 1] = "left"
    BY <1>1, <2>2, <2>3, <2>4, BelowKid DEF Sides
  <2>. QED  BY <1>4, <1>5, <2>3, <2>4, <2>5
<1>9. code[1].node = l
  <2>1. PICK i \in Loads : code[i].node = l
    BY <1>2, <1>8 DEF Visited
  <2>2. l[Len(q) + 1] = "left"
    BY <1>1, KidPath DEF Sides
  <2>. QED  BY <1>4, <1>5, <1>7, <2>1, <2>2
<1>10. ASSUME Len(code) >= 3 PROVE FALSE
  <2>1. 3 \in DOMAIN code /\ 3 \notin Loads
    BY <1>4, <1>6, <1>7, <1>10
  <2>2. code[3] \in Instr
    BY <2>1 DEF Registers
  <2>. PICK p : p = code[3].node
    OBVIOUS
  <2>3. code[3].cmd = "op" /\ p \in tree
    BY <2>1, <2>2 DEF Loads, Instr
  <2>4. Closed(p) /\ p \notin Leaves(tree) /\ p \in Seq(Sides)
    BY <1>1, <2>1, <2>3 DEF Visited
  <2>5. PICK a, b \in Loads : /\ Below(Kid(p, "left"), code[a].node)
                              /\ Below(Kid(p, "right"), code[b].node)
    BY <2>3, <2>4, LoadOnEachSide
  <2>6. code[a].node \in Seq(Sides) /\ code[b].node \in Seq(Sides)
    BY <1>4
  <2>7. code[a].node[Len(p) + 1] = "left" /\ Below(p, code[a].node)
    BY <2>4, <2>5, <2>6, BelowKid DEF Sides
  <2>8. code[b].node[Len(p) + 1] = "right" /\ Below(p, code[b].node)
    BY <2>4, <2>5, <2>6, BelowKid DEF Sides
  <2>9. Below(p, code[j].node) /\ Below(p, code[k].node)
    BY <1>4, <2>7, <2>8
  <2>10. Below(p, q)
    BY <1>1, <1>3, <1>4, <2>4, <2>9, AboveBoth
  <2>. QED  BY <1>1, <1>2, <2>3, <2>4, <2>10, ClosedBelow
<1>. QED  BY <1>6, <1>9, <1>10

LEMMA ThreePrim ==
  ASSUME Tour, Gen, GenPrim, Three, REG_COUNT = 3
  PROVE  Three'
<1>. PICK ins : ins = [cmd |-> "mov", dst |-> Got, src |-> at, node |-> at]
  OBVIOUS
<1>1. /\ pc = "gen" /\ ~back /\ at \in Leaves(tree) /\ r_p > 0
      /\ r_p' = r_p - 1 /\ code' = Append(code, ins) /\ r_regs' = r_regs
      /\ ins.cmd = "mov" /\ ins.dst = Got /\ ins.node = at
  BY DEF GenPrim, Gets
<1>2. /\ Registers /\ Visited /\ r_p \in 0..3 /\ 3 - r_p = Cardinality(Loads)
      /\ \A k \in Loads : code[k].node \in Leaves(tree)
      /\ Leaves(tree) \subseteq tree /\ Len(code) \in Nat /\ DOMAIN code = 1..Len(code)
      /\ Loads \subseteq 1..Len(code)
  BY <1>1, Paths, LoadsFinite DEF Gen, Registers, Tour
<1>. DEFINE new == Len(code) + 1
<1>3. /\ Len(code') = new /\ DOMAIN code' = 1..new /\ code'[new] = ins
      /\ \A k \in 1..Len(code) : code'[k] = code[k]
      /\ 1..new = (1..Len(code)) \cup {new} /\ new \notin 1..Len(code)
  <2>1. code \in Seq(Instr)
    BY <1>2 DEF Registers
  <2>2. Len(code') = new /\ DOMAIN code' = 1..new /\ \A k \in 1..new : code'[k] = IF k = new THEN ins ELSE code[k]
    BY <1>1, <2>1
  <2>. QED  BY <1>2, <2>2
<1>4. new \in Nat /\ new = Len(code) + 1
  BY <1>2
<1>. HIDE DEF new
<1>5. Loads' = Loads \cup {new}
  BY <1>1, <1>2, <1>3 DEF Loads
<1>6. \A j \in Loads : LeftOf(code[j].node, at)
  <2>. TAKE j \in Loads
  <2>. PICK n : n = code[j].node
    OBVIOUS
  <2>1. n \in Leaves(tree) /\ Closed(n)
    BY <1>2 DEF Visited
  <2>. QED  BY <1>1, <2>1 DEF Closed, Passed, LeftOf
<1>7. \A j, k \in Loads' : j < k => LeftOf(code'[j].node, code'[k].node)
  <2>1. \A j \in Loads : j < new /\ code'[j] = code[j]
    BY <1>2, <1>3, <1>4
  <2>2. \A k \in Loads : ~(new < k)
    BY <1>2, <1>4
  <2>. SUFFICES ASSUME NEW j \in Loads', NEW k \in Loads', j < k
                PROVE  LeftOf(code'[j].node, code'[k].node)
    OBVIOUS
  <2>3. CASE j \in Loads /\ k \in Loads
    BY <2>1, <2>3 DEF Three
  <2>4. CASE j \in Loads /\ k = new
    BY <1>1, <1>3, <1>6, <2>1, <2>4
  <2>5. j \in Loads
    BY <1>4, <1>5, <2>2
  <2>. QED  BY <1>5, <2>3, <2>4, <2>5
<1>8. /\ Len(code) = 0 => Got = 2
      /\ Len(code) = 1 => Got = 1
  <2>1. Len(code) <= 2 => r_regs = [s \in 0..2 |-> s]
    BY DEF Three, REGS
  <2>2. (Len(code) = 0 => r_p = 3) /\ (Len(code) = 1 => r_p = 2)
    BY <1>2 DEF Three
  <2>3. CASE Len(code) = 0
    <3>1. r_regs = [s \in 0..2 |-> s] /\ r_p - 1 = 2
      BY <2>1, <2>2, <2>3
    <3>. QED  BY <2>3, <3>1 DEF Got
  <2>4. CASE Len(code) = 1
    <3>1. r_regs = [s \in 0..2 |-> s] /\ r_p - 1 = 1
      BY <2>1, <2>2, <2>4
    <3>. QED  BY <2>4, <3>1 DEF Got
  <2>. QED  BY <2>3, <2>4
<1>9. /\ r_p' = 3 => Len(code') = 0
      /\ r_p' = 2 => Len(code') = 1
      /\ r_p' < 2 => Len(code') >= 2
  BY <1>1, <1>2, <1>3, <1>4 DEF Three
<1>10. Len(code') <= 2 => r_regs' = REGS
  BY <1>1, <1>2, <1>3, <1>4 DEF Three
<1>11. /\ Len(code') >= 1 => code'[1].cmd = "mov" /\ code'[1].dst = 2
       /\ Len(code') >= 2 => code'[2].cmd = "mov" /\ code'[2].dst = 1
  <2>1. CASE Len(code) = 0
    BY <1>1, <1>3, <1>4, <1>8, <2>1
  <2>2. CASE Len(code) = 1
    BY <1>1, <1>3, <1>4, <1>8, <2>2 DEF Three
  <2>3. CASE Len(code) >= 2
    BY <1>2, <1>3, <1>4, <2>3 DEF Three
  <2>. QED  BY <1>2, <2>1, <2>2, <2>3
<1>12. \A k \in DOMAIN code' : code'[k].cmd = "op" =>
         k = 3 /\ code'[k].src = 2 /\ code'[1].node = Kid(code'[k].node, "left")
  <2>. SUFFICES ASSUME NEW k \in DOMAIN code', code'[k].cmd = "op"
                PROVE  k = 3 /\ code'[k].src = 2 /\ code'[1].node = Kid(code'[k].node, "left")
    OBVIOUS
  <2>1. k \in DOMAIN code /\ code'[k] = code[k]
    BY <1>1, <1>2, <1>3
  <2>2. k = 3 /\ code[k].src = 2 /\ code[1].node = Kid(code[k].node, "left")
    BY <2>1 DEF Three
  <2>3. code'[1] = code[1]
    BY <1>2, <1>3, <2>1, <2>2
  <2>. QED  BY <2>1, <2>2, <2>3
<1>. QED  BY <1>7, <1>9, <1>10, <1>11, <1>12 DEF Three, LeftOf, REGS

LEMMA ThreeOp ==
  ASSUME Tour, Gen, GenOp, Three, REG_COUNT = 3
  PROVE  Three'
<1>. PICK q, ins : q = Front(at) /\ ins = [cmd |-> "op", dst |-> Got, src |-> r_regs[LastSlot],
                                          node |-> Front(at)]
  OBVIOUS
<1>1. /\ pc = "gen" /\ back /\ at # <<>> /\ Last(at) = "right" /\ r_p > 0 /\ r_p' = r_p
      /\ code' = Append(code, ins) /\ ins.cmd = "op" /\ ins.src = r_regs[LastSlot] /\ ins.node = q
  BY DEF GenOp, Leaving, Gets
<1>2. /\ Registers /\ Visited /\ r_p \in 0..3 /\ 3 - r_p = Cardinality(Loads)
      /\ Len(code) \in Nat /\ DOMAIN code = 1..Len(code) /\ Loads \subseteq 1..Len(code)
  BY <1>1, LoadsFinite DEF Gen, Registers, Tour
<1>3. r_p = 1
  BY <1>1, <1>2, LastInside
<1>4. Len(code) = 2 /\ code[1].node = Kid(q, "left")
  BY <1>1, <1>2, <1>3, FirstOperator DEF Three
<1>5. ins.src = 2
  <2>1. r_regs = [s \in 0..2 |-> s]
    BY <1>4 DEF Three, REGS
  <2>. QED  BY <1>1, <1>3, <2>1 DEF LastSlot
<1>6. /\ Len(code') = 3 /\ DOMAIN code' = 1..3 /\ code'[3] = ins
      /\ code'[1] = code[1] /\ code'[2] = code[2]
  <2>1. code \in Seq(Instr)
    BY <1>2 DEF Registers
  <2>2. Len(code') = Len(code) + 1 /\ \A k \in 1..Len(code') : code'[k] = IF k = Len(code) + 1 THEN ins ELSE code[k]
    BY <1>1, <2>1
  <2>3. DOMAIN code' = 1..Len(code')
    BY <1>1, <2>1
  <2>. QED  BY <1>4, <2>2, <2>3
<1>7. Loads' = Loads /\ Loads \subseteq 1..2
  BY <1>1, <1>2, <1>4, <1>6 DEF Loads
<1>8. \A j, k \in Loads' : j < k => LeftOf(code'[j].node, code'[k].node)
  <2>1. \A k \in Loads : code'[k] = code[k]
    <3>1. \A k \in Loads : k = 1 \/ k = 2
      BY <1>7
    <3>. QED  BY <1>6, <3>1
  <2>. QED  BY <1>7, <2>1 DEF Three
<1>9. \A k \in DOMAIN code' : code'[k].cmd = "op" =>
         k = 3 /\ code'[k].src = 2 /\ code'[1].node = Kid(code'[k].node, "left")
  <2>1. code[1].cmd = "mov" /\ code[2].cmd = "mov"
    BY <1>4 DEF Three
  <2>. QED  BY <1>1, <1>4, <1>5, <1>6, <2>1
<1>10. /\ code'[1].cmd = "mov" /\ code'[1].dst = 2
       /\ code'[2].cmd = "mov" /\ code'[2].dst = 1
  BY <1>4, <1>6 DEF Three
<1>11. /\ r_p' = 1 /\ Len(code') = 3
  BY <1>1, <1>3, <1>6
<1>. QED  BY <1>8, <1>9, <1>10, <1>11 DEF Three, LeftOf

\* With the three registers of the build, an operator's source is the register
\* that its left operand was loaded to, and reglist_last() finds it in the array.
THEOREM OperatorsReadTheLeft ==
  ASSUME REG_COUNT = 3
  PROVE  Spec => []SourceIsLeft
<1>1. Init => Three
  <2>. SUFFICES ASSUME Init PROVE Three
    OBVIOUS
  <2>1. code = <<>> /\ r_p = 3 /\ r_regs = REGS
    BY DEF Init
  <2>. QED  BY <2>1 DEF Three, Loads
<1>2. Inv /\ Three /\ [Next]_vars => Three'
  <2>. SUFFICES ASSUME Inv, Three, [Next]_vars PROVE Three'
    OBVIOUS
  <2>1. CASE GenPrim
    BY <2>1, ThreePrim DEF Inv
  <2>2. CASE GenOp
    BY <2>2, ThreeOp DEF Inv
  <2>3. CASE UNCHANGED <<code, r_p, r_regs>>
    <3>1. Loads' = Loads
      BY <2>3 DEF Loads
    <3>2. code' = code /\ r_p' = r_p /\ r_regs' = r_regs
      BY <2>3
    <3>3. \A j, k \in Loads' : j < k => LeftOf(code'[j].node, code'[k].node)
      BY <3>1, <3>2 DEF Three
    <3>4. /\ r_p' = 3 => Len(code') = 0
          /\ r_p' = 2 => Len(code') = 1
          /\ r_p' < 2 => Len(code') >= 2
          /\ Len(code') <= 2 => r_regs' = REGS
      BY <3>2 DEF Three
    <3>5. /\ Len(code') >= 1 => code'[1].cmd = "mov" /\ code'[1].dst = 2
          /\ Len(code') >= 2 => code'[2].cmd = "mov" /\ code'[2].dst = 1
      BY <3>2 DEF Three
    <3>6. \A k \in DOMAIN code' : code'[k].cmd = "op" =>
            k = 3 /\ code'[k].src = 2 /\ code'[1].node = Kid(code'[k].node, "left")
      BY <3>2 DEF Three
    <3>. QED  BY <3>3, <3>4, <3>5, <3>6 DEF Three, LeftOf, REGS
  <2>. QED  BY <2>1, <2>2, <2>3
            DEF Next, vars, DumpPrim, DumpLeft, DumpRight, DumpEnd, DumpDone, GenLeft, GenRight, GenDies,
                GenDone, VarDefDump
<1>3. Inv /\ Three => SourceIsLeft
  <2>. SUFFICES ASSUME Inv, Three PROVE SourceIsLeft
    OBVIOUS
  <2>1. Tour /\ Gen /\ Registers
    BY DEF Inv, Gen
  <2>2. Leaving("gen") => LastSlot < REG_COUNT
    <3>. SUFFICES ASSUME Leaving("gen") PROVE LastSlot < REG_COUNT
      OBVIOUS
    <3>1. pc = "gen" /\ back /\ at # <<>> /\ Last(at) = "right" /\ r_p \in Nat
      BY <2>1 DEF Leaving, Registers
    <3>2. r_p + 2 <= REG_COUNT
      BY <2>1, <3>1, LastInside DEF Gen
    <3>. QED  BY <3>1, <3>2 DEF LastSlot
  <2>3. ASSUME NEW k \in DOMAIN code, code[k].cmd = "op"
        PROVE  \E j \in 1..(k - 1) : /\ code[j].node = Kid(code[k].node, "left")
                                     /\ code[j].dst = code[k].src
                                     /\ \A m \in (j + 1)..(k - 1) : code[m].dst # code[j].dst
    <3>1. k = 3 /\ code[k].src = 2 /\ code[1].node = Kid(code[k].node, "left")
      BY <2>3 DEF Three
    <3>2. Len(code) >= 3
      BY <2>1, <2>3, <3>1, LoadsFinite
    <3>3. code[1].dst = 2 /\ code[2].dst = 1
      BY <2>1, <3>2, LoadsFinite DEF Three
    <3>. QED  BY <3>1, <3>3
  <2>. QED  BY <2>2, <2>3 DEF SourceIsLeft
<1>. QED  BY <1>1, <1>2, <1>3, Invariance, PTL DEF Spec
=============================================================================
