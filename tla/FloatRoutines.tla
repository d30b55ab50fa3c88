--------------------------- MODULE FloatRoutines ---------------------------
(***************************************************************************)
(* Expressions on the floating point stack of vm/machine.go, in the forms   *)
(* its instructions allow, and comparisons taken to the jumps.              *)
(***************************************************************************)
EXTENDS Routines

Load(k) == Op("fld", <<Var(k)>>)
StoreAt(k) == Op("fstp", <<Var(k)>>)
Drop == Op("fstp", <<St(0)>>)
Exchange == Op("fxch", << >>)
Result == 3                  \* where results go; X, Y and Z are variables 0, 1 and 2

\* What lies under an expression, and must lie there after it.
Below0 == Op("fld1", << >>)
Under == <<Whole(1)>>
-----------------------------------------------------------------------------
(***************************************************************************)
(* Expressions                                                              *)
(***************************************************************************)
Operations == {"add", "sub", "mul", "div"}
TurnedRound == [add |-> "add", sub |-> "subr", mul |-> "mul", div |-> "divr"]

\* The ways to make the left operand op the right one from the codes of both;
\* spill is a variable to keep the right one in
Combined(form, op, left, right, spill) ==
  CASE form = "plain"     -> left \o right \o <<Farith(op, << >>)>>
    [] form = "popping"   -> left \o right \o <<FarithP(op, <<St(1), St(0)>>)>>
    [] form = "reversed"  -> right \o left \o <<Farith(TurnedRound[op], << >>)>>
    [] form = "exchanged" -> right \o left \o <<Exchange, FarithP(op, <<St(1), St(0)>>)>>
    [] form = "kept"      -> left \o right \o <<Exchange, Farith(op, <<St(0), St(1)>>), Op("fstp", <<St(1)>>)>>
    [] form = "spilled"   -> right \o <<StoreAt(spill)>> \o left \o <<Farith(op, <<Var(spill)>>)>>
Forms == {"plain", "popping", "reversed", "exchanged", "kept", "spilled"}

\* (X op1 Y) op2 Z and X op1 (Y op2 Z), over what lies under
LeftDeep(form1, form2, op1, op2) ==
  <<Below0>> \o Combined(form2, op2, Combined(form1, op1, <<Load(0)>>, <<Load(1)>>, 4), <<Load(2)>>, 5) \o <<StoreAt(Result)>>
RightDeep(form1, form2, op1, op2) ==
  <<Below0>> \o Combined(form1, op1, <<Load(0)>>, Combined(form2, op2, <<Load(1)>>, <<Load(2)>>, 4), 5) \o <<StoreAt(Result)>>

\* n numbers loaded and added up
PileCode(n) == [k \in 1..n |-> Load(0)] \o [k \in 1..(n - 1) |-> Farith("add", << >>)] \o <<StoreAt(Result)>>
\* One sum too many
DrainCode == <<Load(0), Load(1), Farith("add", << >>), Farith("add", << >>)>>

\* The second of three negated where it lies, found by turning the stack or by name
TurnCode == <<Load(0), Load(1), Load(2), Op("fincstp", << >>), Op("fchs", << >>), Op("ffree", <<St(0)>>), Op("fdecstp", << >>)>>
NameCode == <<Load(0), Load(1), Load(2), Op("fxch", <<St(1)>>), Op("fchs", << >>), Op("fxch", <<St(1)>>)>>

\* The mean of the words 0 and 1, rounded as the control word at cell 2 says, at cell 5
MeanCode == <<Op("fldcw", <<Mem(2)>>), Op("fldz", << >>), Op("mov", <<C, Imm(2)>>),
              Fiarith("add", Mem(0)), Op("inc", <<I>>), Loop("loop", 4), Op("mov", <<I, Imm(0)>>),
              Fiarith("div", Mem(4)), Op("fist", <<Mem(5)>>), Op("frndint", << >>), StoreAt(Result)>>

\* The control word for rounding toward 0, for one store; then the one before.
TruncateCode == <<Op("fild", <<Mem(0)>>), Fiarith("div", Mem(4)),
                  Op("fstcw", <<Mem(2)>>), Op("mov", <<B, Mem(3)>>), Op("or", <<B, Imm(12)>>),
                  Op("xchg", <<B, Mem(3)>>), Op("fldcw", <<Mem(2)>>), Op("fistp", <<Mem(5)>>),
                  Op("mov", <<Mem(3), B>>), Op("fldcw", <<Mem(2)>>)>>

RemainderCode(op) == <<Load(1), Load(0), Op(op, << >>), StoreAt(Result), Drop>>
ScaleCode == <<Load(1), Load(0), Op("fscale", << >>), StoreAt(Result), Drop>>
\* Taken apart and put together; the exponent is on top and has to go under.
RebuildCode == <<Load(0), Op("fxtract", << >>), Exchange, Op("fscale", << >>), StoreAt(Result), Drop>>

Same(x, y) == ~Unordered(x, y) /\ Equal(x, y)
Stored == reals[Result]
Given(k) == start.reals[k]

\* k is num / den rounded in a mode of the control word; den is positive.
IsRounded(mode, k, num, den) ==
  CASE mode = 0 -> /\ \A j \in {k - 1, k + 1} : Magnitude(k * den - num) <= Magnitude(j * den - num)
                   /\ 2 * Magnitude(k * den - num) = den => k % 2 = 0
    [] mode = 1 -> k * den <= num /\ num < (k + 1) * den
    [] mode = 2 -> (k - 1) * den < num /\ num <= k * den
    [] mode = 3 -> Magnitude(k * den) <= Magnitude(num) /\ Magnitude(num) < (Magnitude(k) + 1) * den
                   /\ (k # 0 => (k < 0) = (num < 0))

\* Every form of an expression stores its exact value and leaves under it what lay
\* there; eight numbers fit the stack, and the ninth, or an operand too few, ends
\* the program (fpuPush, execFArithmetic); turning the stack and back touches the
\* register meant; integers go in signed and come out rounded as the control word
\* says, restored after (roundFloatToInt, execFLDCW).
FloatsEvaluate ==
  /\ Ended("left deep") =>
       Same(Stored, apply(name[2][2], apply(name[2][1], Given(0), Given(1)), Given(2))) /\ fpu = Under
  /\ Ended("right deep") =>
       Same(Stored, apply(name[2][1], Given(0), apply(name[2][2], Given(1), Given(2)))) /\ fpu = Under
  /\ Ended("pile") => Same(Stored, Product2(Whole(name[2]), Given(0))) /\ fpu = << >>
  /\ name[1] = "pile" /\ status # "running" => (status = "ended") = (name[2] \in 1..8)
  /\ ~Ended("drain")
  /\ Ended("turn") => fpu = <<Given(0), Negated(Given(1)), Given(2)>>
  /\ Ended("mean") =>
       LET num == signExtend(start.mem[0]) + signExtend(start.mem[1])
       IN  /\ IsRounded(RoundingMode(start.mem[2] + 256 * start.mem[3]), signExtend(mem[5]), num, start.mem[4])
           /\ Same(Stored, Whole(signExtend(mem[5])))
  /\ Ended("truncate") => /\ IsRounded(3, signExtend(mem[5]), signExtend(start.mem[0]), start.mem[4])
                          /\ fpuControlWord = InitialControl /\ fpu = << >>
  /\ Ended("remainder") =>
       LET rest == Sum2(Given(0), Negated(Stored))
           times == Quotient2(rest, Given(1))
           within == Product2(Whole(IF name[2] = "fprem" THEN 1 ELSE 2), Stored)
       IN  /\ times.n % times.d = 0
           /\ ~Less(unary("abs", Given(1)), unary("abs", within))
           /\ name[2] = "fprem" /\ Stored.n # 0 => (Stored.n < 0) = (Given(0).n < 0)
  /\ Ended("scale") => Same(Stored, Product2(Given(0), PowerOfTwo(Given(1).n)))
  /\ Ended("rebuild") => Same(Stored, Given(0))
-----------------------------------------------------------------------------
(***************************************************************************)
(* Comparisons of variable 0 with variable 1; b = 1 when the jump is taken  *)
(***************************************************************************)
Taken(cond, n) == <<Op("mov", <<B, One>>), Jcc(cond, n + 4), Op("mov", <<B, Imm(0)>>)>>
ByStatus == <<Op("fnstsw", << >>), Op("sahf", << >>)>>

ComparingCodes ==
  {<<Load(1), Load(0), Op("fcom", << >>)>> \o ByStatus \o <<Drop, Drop>>,
   <<Load(0), Op("fcomp", <<Var(1)>>)>> \o ByStatus,
   <<Load(1), Load(1), Load(0), Op("fucomp", <<St(2)>>)>> \o ByStatus \o <<Drop, Drop>>,
   <<Load(1), Load(0), Op("fucom", << >>)>> \o ByStatus \o <<Op("fstp", <<St(1)>>), Drop>>,
   <<Load(1), Load(0), Op("fcompp", << >>)>> \o ByStatus,
   <<Load(1), Load(0), Op("fcomip", <<St(0), St(1)>>), Drop>>,
   <<Load(1), Load(0), Op("fcomi", <<St(0), St(1)>>), Op("finit", << >>)>>,
   \* after another comparison, whose answer must not show
   <<Load(0), Op("fcom", <<Var(0)>>), Op("fcomp", <<Var(1)>>)>> \o ByStatus,
   <<Load(0), Farith("sub", <<Var(1)>>), Op("ftst", << >>)>> \o ByStatus \o <<Drop, Op("fclex", << >>)>>}

CompareFloatsCode(compare, cond) == compare \o Taken(cond, Len(compare))

FloatRelations == {"je", "jne", "jb", "jbe", "ja", "jae"}

\* The greatest of variables 0, 1 and 2, kept in ST(0)
GreatestCode == <<Load(0), Op("mov", <<C, Imm(2)>>),
                  Op("inc", <<I>>), Load(0), Op("fcomi", <<St(0), St(1)>>), Jcc("jbe", 8), Exchange, Drop, Loop("loop", 3),
                  Op("mov", <<I, Imm(0)>>), StoreAt(Result)>>

\* However a comparison reaches the flags, and whatever was compared before it,
\* the unsigned jumps tell the relation of the two numbers, an unordered pair
\* counting as below and equal at once; nothing is left on the stack
\* (setFPUCompareStatus, execFNSTSW, execSAHF, setCPUFloatCompareFlags).
FloatsCompare ==
  LET x == Given(0)
      y == Given(1)
      below == Unordered(x, y) \/ Less(x, y)
      equal == Unordered(x, y) \/ Equal(x, y)
      holds == CASE name[2] = "je" -> equal [] name[2] = "jne" -> ~equal
                 [] name[2] = "jb" -> below [] name[2] = "jae" -> ~below
                 [] name[2] = "jbe" -> below \/ equal [] name[2] = "ja" -> ~(below \/ equal)
  IN  /\ Ended("compare floats") => (regs["b"] = 1) = holds /\ fpu = << >>
      /\ Ended("greatest") => /\ \A k \in 0..2 : ~Less(Stored, Given(k))
                              /\ \E k \in 0..2 : Same(Stored, Given(k))
                              /\ fpu = << >>
=============================================================================
