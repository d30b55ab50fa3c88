------------------------------ MODULE MCBlocks ------------------------------
(***************************************************************************)
(* Two menus for Blocks: every sequence of a few lines with one simple      *)
(* condition ("shapes"), and three shapes of procedure with every kind of   *)
(* condition on 2-bit registers that take every value ("conditions").       *)
(***************************************************************************)
EXTENDS Blocks

OneFlag == {CondFlag("CARRY?")}
OneRegister == {[r \in {"a", "b"} |-> 0]}
CarryOnly == {[zf |-> FALSE, sf |-> FALSE, cf |-> c, of |-> FALSE, af |-> FALSE] : c \in BOOLEAN}
-----------------------------------------------------------------------------
ThreeShapes == {<<".if", "mark", ".elseif", "mark", ".else", "mark", ".endif">>,
                <<".while", "mark", ".endw">>,
                <<".repeat", "mark", ".until">>}

AllValues == [{"a", "b"} -> Words]
ZeroOrCarry == {[zf |-> ~c, sf |-> FALSE, cf |-> c, of |-> FALSE, af |-> FALSE] : c \in BOOLEAN}

A == Register("a")
B == Register("b")
Zero == CondFlag("ZERO?")
Carry == CondFlag("CARRY?")
Less == CondCompare(A, "<", B)
Same == CondCompare(A, "==", Immediate(1))

Simple == {CondCompare(A, op, B) : op \in {"==", "!=", "<", "<=", ">", ">="}}
          \union {CondExpr(A), CondTest(A, B), Zero, Carry}

\* Among them: parts that settle the whole early or late, either way; compounds
\* under compounds of the other kind and under !; flags read after a comparison.
Compound ==
  {CondNot(Less), CondNot(CondTest(A, B)),
   CondAnd(<<Less, Carry>>), CondOr(<<Less, Zero>>), CondAnd(<<Carry, Less, Same>>),
   CondNot(CondOr(<<Carry, Same, Less>>)), CondNot(CondAnd(<<Less, Same>>)),
   CondOr(<<CondAnd(<<Less, CondExpr(A)>>), CondAnd(<<Zero, CondNot(Same)>>)>>),
   CondAnd(<<CondOr(<<Same, Less>>), CondNot(CondAnd(<<CondExpr(B), Zero>>))>>),
   CondOr(<<CondNot(CondOr(<<Less, Same>>)), Carry>>)}

AllConds == Simple \union Compound
-----------------------------------------------------------------------------
ShapesOnly == {"shapes"}
ShapesAndConditions == {"shapes", "conditions"}

\* The first for the menu of shapes, the second for that of conditions
ByMenu(shapes, conditions) == [m \in ShapesAndConditions |-> IF m = "shapes" THEN shapes ELSE conditions]

MCShapes == ByMenu({}, ThreeShapes)
MCConds == ByMenu(OneFlag, AllConds)
MCRegValues == ByMenu(OneRegister, AllValues)
MCFlagValues == ByMenu(CarryOnly, ZeroOrCarry)
=============================================================================
