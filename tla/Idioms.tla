------------------------------- MODULE Idioms -------------------------------
(***************************************************************************)
(* What programs rely on instructions to do together: numbers wider than a  *)
(* word added, negated, shifted and compared a word at a time, the carry    *)
(* surviving the instructions between; products and quotients that fit each *)
(* other; jumps that mean the relation they are named for; decimal digits.  *)
(* Each idiom is a code and a promise about the state it ends in.           *)
(***************************************************************************)
EXTENDS Cpu

CONSTANT Limbs    \* words of the numbers X, Y and Z in memory, the lowest first

ASSUME LimbsAssumption == Limbs \in Nat \ {0} /\ 3 * Limbs <= MemTop

A == Reg("a")
B == Reg("b")
C == Reg("c")
D == Reg("d")
I == Reg("i")
S == Reg("s")
X == Mem(0)
Y == Mem(Limbs)
Z == Mem(2 * Limbs)

\* The first n words of a number of words in base base, at a cell of memory m.
Number(m, x, n, base) == MapThenSumSet(LAMBDA j : m[x.n + j] * base^j, 0..(n - 1))

Both(d, a) == d * Modulus + a
Ended(kind) == status = "ended" /\ name[1] = kind
count == start.regs["c"]
Zeros == [f \in {"zf", "sf", "cf", "of", "af"} |-> FALSE]
-----------------------------------------------------------------------------
(***************************************************************************)
(* Sums and differences of numbers in memory, of c words                    *)
(***************************************************************************)
\* Z := X + Y, one word longer; the index moves by add, so flags are saved around it.
ExtendedAdd == <<Op("mov", <<I, Imm(0)>>), Op("clc", << >>),
                 Op("mov", <<A, X>>), Op("adc", <<A, Y>>), Op("pushfd", << >>),
                 Op("mov", <<Z, A>>), Op("add", <<I, Imm(1)>>), Op("popfd", << >>), Loop("loop", 3),
                 Op("mov", <<Z, Imm(0)>>), Op("adc", <<Z, Imm(0)>>)>>

\* The same, the flags kept in AH
ExtendedAddAH == [ExtendedAdd EXCEPT ![5] = Op("lahf", << >>), ![8] = Op("sahf", << >>)]

\* Z := X - Y, and d the borrow as a mask; inc leaves the carry alone.
ExtendedSub == <<Op("mov", <<I, Imm(0)>>), Op("clc", << >>), Loop("jecxz", 9),
                 Op("mov", <<A, X>>), Op("sbb", <<A, Y>>), Op("mov", <<Z, A>>),
                 Op("inc", <<I>>), Loop("loop", 4),
                 Op("sbb", <<D, D>>)>>

\* b := X < Y, from the highest word down
ExtendedCompare == <<Op("mov", <<I, C>>), Op("dec", <<I>>),
                     Op("mov", <<A, X>>), Op("cmp", <<A, Y>>), Op("pushfd", << >>),
                     Op("dec", <<I>>), Op("popfd", << >>), Loop("loopz", 3),
                     Set("jb", B)>>

\* d := whether a is among the words of X; i is where
Search == <<Op("mov", <<I, Imm(Modulus - 1)>>), Op("inc", <<I>>),
            Op("cmp", <<A, X>>), Loop("loopnz", 2), Set("je", D)>>

\* d:a := -(d:a), two ways
WideNeg == <<Op("neg", <<D>>), Op("neg", <<A>>), Op("sbb", <<D, Imm(0)>>)>>
WideNot == <<Op("not", <<A>>), Op("not", <<D>>), Op("add", <<A, Imm(1)>>), Op("adc", <<D, Imm(0)>>)>>

NumberOf(x) == Number(start.mem, x, count, Modulus)

\* Numbers wider than a word come out exact: the carry and the zero flag of one
\* word (adc, sbb, cmp) reach the next through whatever moves, counts and saves
\* between them (execAdcSbb, execIncDec, execPushfd, execPopfd, the loops).
WideSums ==
  /\ Ended("add") => Number(mem, Z, count + 1, Modulus) = NumberOf(X) + NumberOf(Y)
  /\ Ended("sub") => /\ Number(mem, Z, count, Modulus) = (NumberOf(X) - NumberOf(Y)) % Modulus^count
                     /\ regs["d"] = IF NumberOf(X) < NumberOf(Y) THEN Modulus - 1 ELSE 0
  /\ Ended("compare") => (regs["b"] = 1) = (NumberOf(X) < NumberOf(Y))
  /\ Ended("search") =>
       LET found == {j \in 0..(count - 1) : mem[j] = start.regs["a"]}
       IN  IF found = {} THEN regs["d"] = 0
           ELSE regs["d"] = 1 /\ regs["i"] \in found /\ \A j \in found : regs["i"] <= j
  /\ Ended("neg") => Both(regs["d"], regs["a"])
                       = (-Both(start.regs["d"], start.regs["a"])) % (Modulus * Modulus)
-----------------------------------------------------------------------------
(***************************************************************************)
(* Shifts and rotations by c of the pair d:a                                *)
(***************************************************************************)
Repeat(first, second) == <<Loop("jecxz", 5), first, second, Loop("loop", 2)>>
One == Imm(1)

ShiftCodes ==
  [shl |-> {Repeat(Op("shl", <<A, One>>), Op("rcl", <<D, One>>)),
            <<Op("shld", <<D, A, C>>), Op("shl", <<A, C>>)>>},
   shr |-> {Repeat(Op("shr", <<D, One>>), Op("rcr", <<A, One>>)),
            <<Op("shrd", <<A, D, C>>), Op("shr", <<D, C>>)>>},
   sar |-> {Repeat(Op("sar", <<D, One>>), Op("rcr", <<A, One>>)),
            <<Op("shrd", <<A, D, C>>), Op("sar", <<D, C>>)>>}]

Undo(first, second) == <<Op(first, <<A, C>>), Op(second, <<A, C>>)>>
UndoBitByBit(first, second) ==
  <<Op(first, <<A, C>>), Loop("jecxz", 5), Op(second, <<A, One>>), Loop("loop", 3)>>

RotateCodes(undo(_, _)) == {undo("rol", "ror"), undo("ror", "rol")}
CarryRotateCodes(undo(_, _)) == {undo("rcl", "rcr"), undo("rcr", "rcl")}

\* A pair shifted bit by bit through the carry, or at once by a double shift, is
\* multiplied or divided (rounding down) by the power of two, the sign kept by
\* sar; a rotation is undone by its opposite for every count, at once or, to the
\* largest count there is, bit by bit, the carry with it when it takes part
\* (execShift, execDoubleShift, execRotate).
WideShifts ==
  LET before == Both(start.regs["d"], start.regs["a"])
      after == Both(regs["d"], regs["a"])
      wide == Modulus * Modulus
  IN  /\ Ended("shl") => after = (before * 2^count) % wide
      /\ Ended("shr") => after = before \div 2^count
      /\ Ended("sar") => after = (signExtendPair(start.regs["d"], start.regs["a"]) \div 2^count) % wide
      /\ Ended("rotate") => regs["a"] = start.regs["a"]
      /\ Ended("carry rotate") => regs["a"] = start.regs["a"] /\ flags.cf = start.flags.cf
-----------------------------------------------------------------------------
(***************************************************************************)
(* Products and quotients                                                   *)
(***************************************************************************)
\* (d:a) / b * b + remainder
DivideAndBack == <<Op("div", <<B>>), Op("mov", <<C, D>>), Op("mul", <<B>>),
                   Op("add", <<A, C>>), Op("adc", <<D, Imm(0)>>)>>

\* a / b * b + remainder, signed; the remainder stays in c
SignedDivideAndBack == <<Op("cwd", << >>), Op("idiv", <<B>>), Op("mov", <<C, D>>),
                         Op("imul", <<B>>), Op("add", <<A, C>>)>>

\* a * b / b, signed
MultiplyAndBack == <<Op("imul", <<B>>), Op("idiv", <<B>>)>>

\* A quotient and its remainder, multiplied out, give the dividend back whenever
\* the quotient fits, the signed remainder smaller than the divisor and of the
\* dividend's sign; a product divided by a factor is the other factor; only a
\* divisor of 0 ends the program (execMul, execIMul, execDiv, execCWD).
DivisionRestores ==
  LET fits == start.regs["d"] < start.regs["b"]
      divisor == signExtend(start.regs["b"])
      dividend == signExtend(start.regs["a"])
      remainder == signExtend(regs["c"])
  IN  /\ Ended("divide") /\ fits =>
           regs["a"] = start.regs["a"] /\ regs["d"] = start.regs["d"]
      /\ Ended("signed divide") =>
           /\ regs["a"] = start.regs["a"]
           /\ Magnitude(remainder) < Magnitude(divisor)
           /\ remainder # 0 => (remainder < 0) = (dividend < 0)
      /\ Ended("multiply") => regs["a"] = start.regs["a"] /\ regs["d"] = 0
      /\ name[1] \in {"divide", "signed divide", "multiply"} =>
           (status = "fault" => start.regs["b"] = 0) /\ (status = "ended" => start.regs["b"] # 0)
-----------------------------------------------------------------------------
(***************************************************************************)
(* Jumps and the relations they are named for; d = 1 when the jump is taken *)
(***************************************************************************)
Decide(first, cond) == <<first, Op("mov", <<D, One>>), Jcc(cond, 5), Op("mov", <<D, Imm(0)>>)>>

\* By op, what the jumps on overflow and carry should tell.
Overflows(op, l, r) ==
  LET exact == CASE op = "add" -> signExtend(l) + signExtend(r)
                 [] op = "sub" -> signExtend(l) - signExtend(r)
                 [] op = "imul" -> signExtend(l) * signExtend(r)
                 [] op = "imul by 3" -> signExtend(r) * 3
  IN  exact \notin (-Half)..(Half - 1)

Carries(op, l, r) ==
  CASE op = "add" -> l + r \notin Words [] op = "sub" -> l - r \notin Words
    [] op = "mul" -> l * r \notin Words

\* The greater of a and b, signed or not; the magnitude of a, which is b
GreaterCode(cond) == <<Op("cmp", <<A, B>>), Cmov(cond, A, B)>>
MagnitudeCode == <<Op("cwd", << >>), Op("xor", <<A, D>>), Op("sub", <<A, D>>)>>

\* a rounded up to an even number, unless that is too large
EvenCode == <<Op("add", <<A, One>>), Jcc("jc", 4), Op("and", <<A, Imm(Modulus - 2)>>)>>
\* d := a < 0, and the flags of test and or
NegativeCode == <<Op("mov", <<D, Imm(0)>>), Op("test", <<A, A>>), Jcc("jns", 5),
                  Op("or", <<D, One>>)>>

\* After cmp each jump is taken exactly when its relation, signed or unsigned,
\* holds between the operands, subtractions that overflow included; jo and jc
\* tell exactly when a result does not fit; what cmov, sets of flags by logic and
\* sign words build on them is right (updateAddFlags, updateSubFlags, jumpIf).
ComparisonsDecide ==
  LET l == start.regs["a"]
      r == start.regs["b"]
      taken == regs["d"] = 1
  IN  /\ Ended("relation") => taken = Related(name[2], l, r)
      /\ Ended("overflow") => taken = Overflows(name[2], l, r)
      /\ Ended("carry") => taken = Carries(name[2], l, r)
      /\ Ended("greater") => regs["a"] = IF Related(name[2], l, r) THEN r ELSE l
      /\ Ended("magnitude") => regs["a"] = Magnitude(signExtend(l))
      /\ Ended("even") /\ l < Modulus - 1 => regs["a"] = 2 * ((l + 1) \div 2)
      /\ Ended("negative") => taken = signBit(l)

\* The pairs d:a and c:b compared word by word; i = 1 when the jump is taken
WideRelation(cond) == <<Op("cmp", <<A, B>>), Op("sbb", <<D, C>>),
                        Op("mov", <<I, One>>), Jcc(cond, 6), Op("mov", <<I, Imm(0)>>)>>

\* After cmp of the low words and sbb of the high ones, jb tells the unsigned
\* order of the pairs, and jl the signed one unless the borrow is added to the
\* greatest signed word, which it wraps (execAdcSbb, machine.go:814).
WideOrder ==
  LET s == start.regs
      wraps == s["a"] < s["b"] /\ s["c"] = Half - 1
  IN  /\ Ended("wide below") =>
           (regs["i"] = 1) = (Both(s["d"], s["a"]) < Both(s["c"], s["b"]))
      /\ Ended("wide less") /\ ~wraps =>
           (regs["i"] = 1) = (signExtendPair(s["d"], s["a"]) < signExtendPair(s["c"], s["b"]))

\* imul of two operands multiplies the first by the second: machine.go:1028 says
\* that "imul supports one, two, or three operands".
TwoOperandProduct ==
  Ended("product") => regs["a"] = truncate(start.regs["a"] * start.regs["b"])
-----------------------------------------------------------------------------
(***************************************************************************)
(* Decimal numbers, two digits to a byte or one character to a digit        *)
(***************************************************************************)
PackedAdd == <<Op("mov", <<I, Imm(0)>>), Op("clc", << >>),
               Op("mov", <<A, X>>), Op("adc", <<A, Y>>), Op("daa", << >>), Op("mov", <<Z, A>>),
               Op("inc", <<I>>), Loop("loop", 3)>>

PackedSub == [PackedAdd EXCEPT ![4] = Op("sbb", <<A, Y>>), ![5] = Op("das", << >>)]

\* d:a := a * b, digit by digit; a := d:a / b and d the rest, the pair two digits
DigitProduct == <<Op("mul", <<B>>), Op("aam", << >>)>>
DigitProductBack == DigitProduct \o <<Op("aad", << >>)>>
DigitQuotient == <<Op("aad", << >>), Op("div", <<B>>)>>

AsciiAdd == <<Op("adc", <<A, B>>), Op("aaa", << >>)>>
AsciiSub == <<Op("sbb", <<A, B>>), Op("aas", << >>)>>

Unpacked(m) == [j \in DOMAIN m |-> 10 * (m[j] \div 16) + (m[j] % 16)]
DecimalOf(m, x) == Number(Unpacked(m), x, count, 100)
Character(digit) == 48 + digit
DigitOf(char) == char - 48

\* Decimal numbers added or subtracted a byte at a time and adjusted come out
\* decimal and exact, the carry of each byte reaching the next, digits that carry
\* without showing it included (execDecimalAdjust after execAdcSbb).
DecimalSums ==
  LET digits == \A j \in Cells : mem[j] % 16 < 10 /\ mem[j] \div 16 < 10
      l == DigitOf(start.regs["a"])
      r == DigitOf(start.regs["b"])
      carry == b2i(start.flags.cf)
  IN  /\ Ended("packed add") =>
           digits /\ DecimalOf(mem, Z) + 100^count * b2i(flags.cf)
                       = DecimalOf(start.mem, X) + DecimalOf(start.mem, Y)
      /\ Ended("packed sub") =>
           digits /\ DecimalOf(mem, Z) - 100^count * b2i(flags.cf)
                       = DecimalOf(start.mem, X) - DecimalOf(start.mem, Y)
      /\ Ended("ascii add") => 10 * regs["d"] + regs["a"] = l + r + carry
      /\ Ended("digit product") => 10 * regs["d"] + regs["a"] = start.regs["a"] * start.regs["b"] /\ regs["a"] < 10
      /\ Ended("digit product back") => regs["a"] = start.regs["a"] * start.regs["b"]
      /\ Ended("digit quotient") => /\ regs["a"] * start.regs["b"] + regs["d"] = 10 * start.regs["d"] + start.regs["a"]
                                    /\ regs["d"] < start.regs["b"]
      /\ Ended("ascii sub") => regs["a"] < 10 /\ regs["a"] - 10 * b2i(flags.cf) = l - r - carry
=============================================================================
