-------------------------------- MODULE Cpu --------------------------------
(***************************************************************************)
(* The whole machine of Arith, Strings, Floats and Console: one task, from  *)
(* its start to its end or to an error.                                     *)
(***************************************************************************)
EXTENDS Strings, Floats, Console

Next == ArithStep \/ StringStep \/ FloatStep \/ ConsoleStep \/ BadOperand \/ End

\* The interpreter never stops before its program does.
Spec == Init /\ [][Next]_vars /\ WF_vars(Next)
-----------------------------------------------------------------------------
\* Every value stays a word, in registers and memory: nothing an instruction
\* computes is stored wider than its operands are (assign, writeRegister); the
\* floating point stack never grows past its eight registers (fpuPush).
TypeOK == /\ pc \in 1..(Len(code) + 1)
          /\ status \in {"running", "ended", "fault"}
          /\ regs \in [Registers -> Words]
          /\ mem \in [Cells -> Words]
          /\ flags \in FlagSet /\ df \in BOOLEAN
          /\ stack \in Seq(Nat)
          /\ Len(fpu) <= FpuRegisters
          /\ fpuStatus \in StatusSet /\ fpuControlWord \in Nat

\* Every task comes to its end or to an error, a loop entered with a count of 0
\* too (the loop instructions count down and wrap).
TaskEnds == <>(status # "running")
=============================================================================
