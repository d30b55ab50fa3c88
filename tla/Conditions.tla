----------------------------- MODULE Conditions -----------------------------
(***************************************************************************)
(* The conditions of .IF, .ELSEIF, .WHILE and .UNTIL: how                   *)
(* internal/masm/condition.go compiles one into comparisons and jumps of    *)
(* the machine (Alu), and, in Evaluate, what the condition means: && and || *)
(* from left to right, no further than needed, comparisons signed, ZERO?    *)
(* and CARRY? the flags as the comparisons before them left them.           *)
(*                                                                          *)
(* An operand is a register or an immediate.                                *)
(***************************************************************************)
EXTENDS Alu, Sequences, SequencesExt, Bitwise

Register(r) == [kind |-> "reg", name |-> r, val |-> 0]
Immediate(v) == [kind |-> "imm", name |-> "", val |-> v]
NoOperand == Immediate(0)
ValueOf(op, regs) == IF op.kind = "reg" THEN regs[op.name] ELSE op.val
-----------------------------------------------------------------------------
(***************************************************************************)
(* The tree parseCondition makes of a condition's text                      *)
(***************************************************************************)
Node(kind, op, left, right, parts) ==
  [kind |-> kind, op |-> op, left |-> left, right |-> right, parts |-> parts]

CondFlag(name) == Node("flag", name, NoOperand, NoOperand, << >>)
CondCompare(l, op, r) == Node("compare", op, l, r, << >>)
CondExpr(l) == Node("expr", "", l, NoOperand, << >>)
CondTest(l, r) == Node("test", "", l, r, << >>)       \* the expression l & r
CondAnd(parts) == Node("and", "", NoOperand, NoOperand, parts)
CondOr(parts) == Node("or", "", NoOperand, NoOperand, parts)
CondNot(part) == Node("not", "", NoOperand, NoOperand, <<part>>)
-----------------------------------------------------------------------------
(***************************************************************************)
(* The translation under way: the instructions so far, the labels placed    *)
(* (each at the instruction that follows it) and the number of synthetic    *)
(* labels made                                                              *)
(***************************************************************************)
EmptyTranslation == [code |-> << >>, labels |-> << >>, counter |-> 0]

addInst(t, line, op, a, b, to) ==
  [t EXCEPT !.code = Append(@, [line |-> line, op |-> op, a |-> a, b |-> b, to |-> to])]

addJump(t, line, op, to) == addInst(t, line, op, NoOperand, NoOperand, to)

\* Mutant of addLabel: the label is placed one instruction late.
addLabelLate(t, name) ==
  [t EXCEPT !.labels = [l \in DOMAIN @ \union {name} |-> IF l = name THEN Len(t.code) + 2 ELSE @[l]]]

addLabel(t, name) ==
  [t EXCEPT !.labels = [l \in DOMAIN @ \union {name} |-> IF l = name THEN Len(t.code) + 1 ELSE @[l]]]

\* newSyntheticLabel: t with n labels made; they are t.counter+1..t.counter+n.
newLabels(t, n) == [t EXCEPT !.counter = @ + n]

falseJumpForFlag(flag) == IF flag = "CARRY?" THEN "jnc" ELSE "jnz"
trueJumpForFlag(flag) == IF flag = "CARRY?" THEN "jc" ELSE "jz"

falseJumpForCompare(op) ==
  CASE op = "==" -> "jne" [] op = "!=" -> "je"
    [] op = "<"  -> "jge" [] op = "<=" -> "jg"
    [] op = ">"  -> "jle" [] op = ">=" -> "jl"

trueJumpForCompare(op) ==
  CASE op = "==" -> "je"  [] op = "!=" -> "jne"
    [] op = "<"  -> "jl"  [] op = "<=" -> "jle"
    [] op = ">"  -> "jg"  [] op = ">=" -> "jge"

\* Code that goes to label when the condition's truth is sense, else falls through.
Leaf(t, line, node, label, sense) ==
  LET jump(true, false) == IF sense THEN true ELSE false
  IN  CASE node.kind = "flag" ->
             addJump(t, line, jump(trueJumpForFlag(node.op), falseJumpForFlag(node.op)), label)
        [] node.kind = "compare" ->
             addJump(addInst(t, line, "cmp", node.left, node.right, 0), line,
                     jump(trueJumpForCompare(node.op), falseJumpForCompare(node.op)), label)
        [] node.kind = "test" ->
             addJump(addInst(t, line, "test", node.left, node.right, 0), line, jump("jnz", "jz"), label)
        [] node.kind = "expr" ->
             addJump(addInst(t, line, "cmp", node.left, Immediate(0), 0), line, jump("jne", "je"), label)

\* Mutant of SkipsAhead: every compound condition is a chain of jumps to label.
SkipsNever(kind, sense) == FALSE

\* An || compiled for the jump when false, or an && for the jump when true, has
\* parts that settle it the other way: they skip to its end.
SkipsAhead(kind, sense) == (kind = "or" /\ ~sense) \/ (kind = "and" /\ sense)

RECURSIVE compileCond(_, _, _, _, _), compileParts(_, _, _, _, _)

\* compileCondTrue for sense TRUE, compileCondFalse for FALSE
compileCond(t, line, node, label, sense) ==
  CASE node.kind = "not" -> compileCond(t, line, node.parts[1], label, ~sense)
    [] node.kind \in {"and", "or"} /\ SkipsAhead(node.kind, sense) ->
         LET skip == t.counter + 1
             most == compileParts(newLabels(t, 1), line, Front(node.parts), skip, ~sense)
         IN  addLabel(compileCond(most, line, Last(node.parts), label, sense), skip)
    [] node.kind \in {"and", "or"} /\ ~SkipsAhead(node.kind, sense) ->
         compileParts(t, line, node.parts, label, sense)
    [] OTHER -> Leaf(t, line, node, label, sense)

compileParts(t, line, parts, label, sense) ==
  IF parts = << >> THEN t
  ELSE compileParts(compileCond(t, line, Head(parts), label, sense), line, Tail(parts), label, sense)

compileCondFalse(t, line, node, label) == compileCond(t, line, node, label, FALSE)
-----------------------------------------------------------------------------
(***************************************************************************)
(* What a condition means                                                   *)
(***************************************************************************)
Compares(op, l, r) ==
  CASE op = "==" -> l = r [] op = "!=" -> l # r
    [] op = "<"  -> signExtend(l) < signExtend(r) [] op = "<=" -> signExtend(l) <= signExtend(r)
    [] op = ">"  -> signExtend(l) > signExtend(r) [] op = ">=" -> signExtend(l) >= signExtend(r)

Result(value, flags) == [value |-> value, flags |-> flags]

RECURSIVE Evaluate(_, _, _)

\* The truth of a condition and the flags it leaves.
Evaluate(node, regs, flags) ==
  LET l == ValueOf(node.left, regs)
      r == ValueOf(node.right, regs)
  IN  CASE node.kind = "flag" -> Result(IF node.op = "CARRY?" THEN flags.cf ELSE flags.zf, flags)
        [] node.kind = "compare" -> Result(Compares(node.op, l, r), sub(l, r).flags)
        [] node.kind = "test" -> Result((l & r) # 0, logic(l & r, flags).flags)
        [] node.kind = "expr" -> Result(l # 0, sub(l, 0).flags)
        [] node.kind = "not" -> LET e == Evaluate(node.parts[1], regs, flags)
                                IN  Result(~e.value, e.flags)
        [] node.kind \in {"and", "or"} ->
             LET first == Evaluate(Head(node.parts), regs, flags)
             IN  IF Len(node.parts) = 1 \/ first.value = (node.kind = "or") THEN first
                 ELSE Evaluate([node EXCEPT !.parts = Tail(@)], regs, first.flags)
=============================================================================
