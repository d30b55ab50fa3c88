------------------------------- MODULE Floats -------------------------------
(***************************************************************************)
(* The floating point instructions of vm/machine.go and fpu_extended.go,    *)
(* with the instructions that take their comparisons to the conditional     *)
(* jumps.  fldcw and fstcw move two bytes: words are bytes there.           *)
(***************************************************************************)
EXTENDS Arith

St(k) == [kind |-> "st", reg |-> "", n |-> k]
Var(n) == [kind |-> "real", reg |-> "i", n |-> n]      \* a floating point variable

\* cond names the operation of arithmetic: fadd is Farith("add", ...), faddp FarithP.
Farith(op, args) == Instruction("farith", args, op, 0)
FarithP(op, args) == Instruction("farithp", args, op, 0)
Fiarith(op, x) == Instruction("fiarith", <<x>>, op, 0)

FloatValue(x) == IF x.kind = "st" THEN fpuPeek(fpu, x.n) ELSE reals[resolveAddress(x)]
FloatArg(k) == FloatValue(Inst.args[k])
Integer(k) == Whole(signExtend(Value(k)))
Holds(k) == k < Len(fpu)
ST0 == fpuPeek(fpu, 0)
ST1 == fpuPeek(fpu, 1)
-----------------------------------------------------------------------------
(***************************************************************************)
(* How an instruction ends                                                  *)
(***************************************************************************)
FloatOnly == Advance /\ UNCHANGED <<regs, mem, flags, df, stack, console>>

\* With the stack st.
LeavesStack(st) == /\ fpu' = st /\ FloatOnly
                   /\ UNCHANGED <<fpuStatus, fpuControlWord, reals>>

Push(st, v) == IF Len(st) >= FpuRegisters THEN Fails ELSE LeavesStack(Append(st, v))

Popped(st, times) == SubSeq(st, 1, Len(st) - times)
-----------------------------------------------------------------------------
(***************************************************************************)
(* Loads and stores                                                         *)
(***************************************************************************)
\* fld, fld1, fldz and fild
execFLD == /\ Fetched({"fld", "fld1", "fldz", "fild"})
           /\ Push(fpu, CASE Inst.op = "fld"  -> FloatArg(1)
                          [] Inst.op = "fild" -> Integer(1)
                          [] Inst.op = "fld1" -> Whole(1)
                          [] Inst.op = "fldz" -> Whole(0))

execFST ==
  /\ Fetched({"fst", "fstp"})
  /\ LET x == Inst.args[1]
         set == IF x.kind = "st" THEN fpuSet(fpu, x.n, ST0) ELSE fpu
     IN  IF ~Holds(0) THEN Fails
         ELSE /\ fpu' = Popped(set, IF Inst.op = "fstp" THEN 1 ELSE 0)
              /\ reals' = IF x.kind = "st" THEN reals ELSE [reals EXCEPT ![resolveAddress(x)] = ST0]
              /\ FloatOnly /\ UNCHANGED <<fpuStatus, fpuControlWord>>

execFIST ==
  /\ Fetched({"fist", "fistp"})
  /\ IF ~Holds(0) THEN Fails
     ELSE /\ assign(Inst.args[1], roundFloatToInt(ST0, fpuControlWord))
          /\ fpu' = Popped(fpu, IF Inst.op = "fistp" THEN 1 ELSE 0)
          /\ Advance /\ UNCHANGED <<flags, df, stack, console, fpuStatus, fpuControlWord, reals>>
-----------------------------------------------------------------------------
(***************************************************************************)
(* Arithmetic                                                               *)
(***************************************************************************)
\* The register that takes the result, and the right operand
Dest == CASE Inst.args = << >> -> 1
          [] Len(Inst.args) = 1 -> 0
          [] Len(Inst.args) = 2 -> Inst.args[1].n
RightOperand == IF Inst.args = << >> THEN ST0 ELSE FloatValue(Last(Inst.args))

Arithmetic(times) ==
  IF Holds(Dest) THEN LeavesStack(Popped(fpuSet(fpu, Dest, apply(Inst.cond, fpuPeek(fpu, Dest), RightOperand)), times))
  ELSE Fails

\* Mutant of Pops: only the forms with a p in their names pop.
PopsNamed == 0

\* The form without operands pops as faddp and its like do.
Pops == IF Inst.args = << >> THEN 1 ELSE 0

\* execFArithmetic and execFReverseArithmetic
execFArithmetic == Fetched({"farith"}) /\ Arithmetic(Pops)

execFArithmeticPop == Fetched({"farithp"}) /\ Arithmetic(1)

execFIArithmetic ==
  /\ Fetched({"fiarith"})
  /\ IF Holds(0) THEN LeavesStack(fpuSet(fpu, 0, apply(Inst.cond, ST0, Integer(1)))) ELSE Fails

execFUnary == /\ Fetched({"fchs", "fabs"})
              /\ IF Holds(0) THEN LeavesStack(fpuSet(fpu, 0, unary(IF Inst.op = "fchs" THEN "chs" ELSE "abs", ST0)))
                 ELSE Fails

execFRNDINT == /\ Fetched({"frndint"})
               /\ IF Holds(0) THEN LeavesStack(fpuSet(fpu, 0, Whole(roundFloatToInt(ST0, fpuControlWord))))
                  ELSE Fails

\* fprem and fprem1
execFPREM == /\ Fetched({"fprem", "fprem1"})
             /\ IF ~Holds(1) THEN Fails
                ELSE /\ fpu' = fpuSet(fpu, 0, FloatRemainder(Inst.op, ST0, ST1))
                     /\ fpuStatus' = [fpuStatus EXCEPT !.c2 = FALSE]
                     /\ FloatOnly /\ UNCHANGED <<fpuControlWord, reals>>

execFSCALE == /\ Fetched({"fscale"})
              /\ IF Holds(1) THEN LeavesStack(fpuSet(fpu, 0, Product2(ST0, PowerOfTwo(Trunc(ST1)))))
                 ELSE Fails

\* The exponent is pushed over the significand; a full stack keeps the significand.
execFXTRACT == /\ Fetched({"fxtract"})
               /\ IF ~Holds(0) THEN Fails
                  ELSE LET set == fpuSet(fpu, 0, Significand(ST0))
                       IN  IF Len(fpu) >= FpuRegisters
                           THEN /\ fpu' = set /\ status' = "fault"
                                /\ UNCHANGED <<task, pc, regs, mem, flags, df, stack, console,
                                               fpuStatus, fpuControlWord, reals>>
                           ELSE LeavesStack(Append(set, Whole(Exponent(ST0))))
-----------------------------------------------------------------------------
(***************************************************************************)
(* Exchanges and turns of the stack                                         *)
(***************************************************************************)
execFXCH == /\ Fetched({"fxch"})
            /\ LET k == IF Inst.args = << >> THEN 1 ELSE Inst.args[1].n
               IN  IF Holds(k) THEN LeavesStack(fpuSet(fpuSet(fpu, 0, fpuPeek(fpu, k)), k, ST0)) ELSE Fails

execFINCSTP == /\ Fetched({"fincstp", "fdecstp"})
               /\ LeavesStack(IF Inst.op = "fincstp" THEN RotateUp(fpu) ELSE RotateDown(fpu))

\* ffree is checked by nobody and frees nothing.
execFFREE == Running /\ Inst.op = "ffree" /\ LeavesStack(fpu)
-----------------------------------------------------------------------------
(***************************************************************************)
(* Comparison and control                                                   *)
(***************************************************************************)
\* With the status of ST(0) against right, and times registers popped.
Compares(right, times) ==
  /\ fpuStatus' = setFPUCompareStatus(ST0, right, fpuStatus)
  /\ fpu' = Popped(fpu, times)
  /\ FloatOnly /\ UNCHANGED <<fpuControlWord, reals>>

execFTST == Fetched({"ftst"}) /\ IF Holds(0) THEN Compares(Whole(0), 0) ELSE Fails

\* fcom compares with ST(1) or with its operand, fcomp with its operand.
execFCOM == /\ Fetched({"fcom"})
            /\ IF ~Holds(IF Inst.args = << >> THEN 1 ELSE 0) THEN Fails
               ELSE Compares(IF Inst.args = << >> THEN ST1 ELSE FloatArg(1), 0)

execFCOMP == Fetched({"fcomp"}) /\ IF Holds(0) THEN Compares(FloatArg(1), 1) ELSE Fails

\* fucom and fucomp, with ST(1) or the register named
execFUCOM == /\ Fetched({"fucom", "fucomp"})
             /\ LET k == IF Inst.args = << >> THEN 1 ELSE Inst.args[1].n
                IN  IF Holds(k) THEN Compares(fpuPeek(fpu, k), IF Inst.op = "fucomp" THEN 1 ELSE 0) ELSE Fails

\* fcompp and fucompp
execFCOMPP == Fetched({"fcompp"}) /\ IF Holds(1) THEN Compares(ST1, 2) ELSE Fails

\* fcomi and fucomi
CompareFlags(times) ==
  /\ flags' = setCPUFloatCompareFlags(FloatArg(1), FloatArg(2))
  /\ fpu' = Popped(fpu, times)
  /\ Advance /\ UNCHANGED <<regs, mem, df, stack, console, fpuStatus, fpuControlWord, reals>>

execFCOMI == Fetched({"fcomi"}) /\ CompareFlags(0)
execFCOMIP == Fetched({"fcomip"}) /\ CompareFlags(1)

\* fnstsw ax: AL takes the low byte, which is always 0.
execFNSTSW == Fetched({"fnstsw"}) /\ LeavesPair(Pair(StatusByte(fpuStatus), 0, flags))

\* fclex; finit
execFInit ==
  /\ Fetched({"finit", "fclex"})
  /\ fpuStatus' = NoStatus
  /\ IF Inst.op = "finit" THEN fpu' = << >> /\ fpuControlWord' = InitialControl
     ELSE UNCHANGED <<fpu, fpuControlWord>>
  /\ FloatOnly /\ UNCHANGED reals

\* The two bytes at x, when both are in memory
NextByte(x) == [x EXCEPT !.n = @ + 1]
TwoBytes(x) == Readable(NextByte(x))

execFLDCW ==
  /\ Fetched({"fldcw"})
  /\ LET x == Inst.args[1]
     IN  IF ~TwoBytes(x) THEN Fails
         ELSE /\ fpuControlWord' = resolveValue(x) + Modulus * resolveValue(NextByte(x))
              /\ FloatOnly /\ UNCHANGED <<fpu, fpuStatus, reals>>

execFSTCW ==
  /\ Fetched({"fstcw"})
  /\ LET x == Inst.args[1]
     IN  IF ~TwoBytes(x) THEN Fails
         ELSE /\ mem' = [mem EXCEPT ![resolveAddress(x)] = truncate(fpuControlWord),
                                    ![resolveAddress(NextByte(x))] = fpuControlWord \div Modulus]
              /\ Advance /\ UNCHANGED <<regs, flags, others>>

FloatStep ==
  \/ execFLD \/ execFST \/ execFIST
  \/ execFArithmetic \/ execFArithmeticPop \/ execFIArithmetic \/ execFUnary \/ execFRNDINT
  \/ execFPREM \/ execFSCALE \/ execFXTRACT
  \/ execFXCH \/ execFINCSTP \/ execFFREE
  \/ execFTST \/ execFCOM \/ execFCOMP \/ execFUCOM \/ execFCOMPP \/ execFCOMI \/ execFCOMIP
  \/ execFNSTSW \/ execFInit \/ execFLDCW \/ execFSTCW
=============================================================================
