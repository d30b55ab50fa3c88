-------------------------------- MODULE Fpu --------------------------------
(***************************************************************************)
(* The floating point stack of vm/machine.go and what its instructions      *)
(* compute.  Numbers are exact, [n |-> numerator, d |-> denominator] with d *)
(* positive, or NaN: how the host rounds an operation is not modelled, and  *)
(* quotients by 0 are not among the inputs.                                 *)
(***************************************************************************)
EXTENDS Integers, Sequences, SequencesExt

Real(n, d) == [n |-> n, d |-> d]
Whole(n) == Real(n, 1)
NaN == Real(0, 0)
IsNaN(x) == x.d = 0

FpuRegisters == 8
-----------------------------------------------------------------------------
(***************************************************************************)
(* The stack, ST(0) last                                                    *)
(***************************************************************************)
fpuPeek(st, k) == st[Len(st) - k]
fpuSet(st, k, v) == [st EXCEPT ![Len(st) - k] = v]
fpuPop(st) == Front(st)

\* Mutant of RotateUp: the registers turn the other way.
RotateUpDown(st) == IF st = << >> THEN st ELSE Append(Tail(st), Head(st))

\* fincstp and fdecstp turn the registers in use.
RotateUp(st) == IF st = << >> THEN st ELSE <<Last(st)>> \o Front(st)
RotateDown(st) == IF st = << >> THEN st ELSE Append(Tail(st), Head(st))
-----------------------------------------------------------------------------
(***************************************************************************)
(* Arithmetic                                                               *)
(***************************************************************************)
Negated(x) == Real(-x.n, x.d)
Sum2(x, y) == Real(x.n * y.d + y.n * x.d, x.d * y.d)
Product2(x, y) == Real(x.n * y.n, x.d * y.d)
Quotient2(x, y) == IF y.n < 0 THEN Real(-(x.n * y.d), -(x.d * y.n)) ELSE Real(x.n * y.d, x.d * y.n)

apply(op, left, right) ==
  CASE op = "add"  -> Sum2(left, right)
    [] op = "sub"  -> Sum2(left, Negated(right))
    [] op = "mul"  -> Product2(left, right)
    [] op = "div"  -> Quotient2(left, right)
    [] op = "subr" -> Sum2(right, Negated(left))
    [] op = "divr" -> Quotient2(right, left)

unary(op, x) == IF op = "chs" \/ x.n < 0 THEN Negated(x) ELSE x

Floor(x) == x.n \div x.d
Ceil(x) == -Floor(Negated(x))
Trunc(x) == IF x.n < 0 THEN Ceil(x) ELSE Floor(x)

\* Mutant of RoundToEven: halves go up.
RoundUp(x) == (2 * x.n + x.d) \div (2 * x.d)

\* To the nearest, halves to the even.
RoundToEven(x) ==
  LET up == (2 * x.n + x.d) \div (2 * x.d)
      half == (2 * x.n + x.d) % (2 * x.d) = 0
  IN  IF half /\ up % 2 = 1 THEN up - 1 ELSE up

\* By the two bits of the control word
RoundingMode(control) == (control \div 1024) % 4

roundFloatToInt(x, control) ==
  CASE RoundingMode(control) = 0 -> RoundToEven(x)
    [] RoundingMode(control) = 1 -> Floor(x)
    [] RoundingMode(control) = 2 -> Ceil(x)
    [] RoundingMode(control) = 3 -> Trunc(x)

\* fprem divides toward 0, fprem1 to the nearest
FloatRemainder(op, x, y) ==
  LET times == IF op = "fprem" THEN Trunc(Quotient2(x, y)) ELSE RoundToEven(Quotient2(x, y))
  IN  Sum2(x, Negated(Product2(Whole(times), y)))

PowerOfTwo(k) == IF k < 0 THEN Real(1, 2^(-k)) ELSE Whole(2^k)

\* The power of two in a number that is not 0, and what it leaves in [1, 2)
Exponent(x) == CHOOSE k \in -16..16 :
                 LET s == Product2(Real(IF x.n < 0 THEN -x.n ELSE x.n, x.d), PowerOfTwo(-k))
                 IN  s.d <= s.n /\ s.n < 2 * s.d
Significand(x) == Product2(x, PowerOfTwo(-Exponent(x)))
-----------------------------------------------------------------------------
(***************************************************************************)
(* Comparison                                                               *)
(***************************************************************************)
Less(x, y) == x.n * y.d < y.n * x.d
Equal(x, y) == x.n * y.d = y.n * x.d
Unordered(x, y) == IsNaN(x) \/ IsNaN(y)

\* below and equal, as C0 and C3 of the status word or CF and ZF tell them
Below(x, y) == Unordered(x, y) \/ Less(x, y)
Alike(x, y) == Unordered(x, y) \/ Equal(x, y)

StatusSet == [c0 : BOOLEAN, c2 : BOOLEAN, c3 : BOOLEAN]
NoStatus == [c0 |-> FALSE, c2 |-> FALSE, c3 |-> FALSE]
InitialControl == 895        \* 037Fh

\* Mutant of setFPUCompareStatus: what an earlier comparison set stays set.
keepFPUCompareStatus(x, y, before) ==
  [c0 |-> Below(x, y) \/ before.c0, c2 |-> Unordered(x, y) \/ before.c2, c3 |-> Alike(x, y) \/ before.c3]

setFPUCompareStatus(x, y, before) ==
  [before EXCEPT !.c0 = Below(x, y), !.c2 = Unordered(x, y), !.c3 = Alike(x, y)]

\* The high byte of the status word
StatusByte(s) == (IF s.c0 THEN 1 ELSE 0) + (IF s.c2 THEN 4 ELSE 0) + (IF s.c3 THEN 64 ELSE 0)

setCPUFloatCompareFlags(x, y) ==
  [cf |-> Below(x, y), zf |-> Alike(x, y), of |-> FALSE, sf |-> FALSE, af |-> FALSE]
=============================================================================
