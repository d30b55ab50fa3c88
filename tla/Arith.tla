------------------------------- MODULE Arith -------------------------------
(***************************************************************************)
(* The machine of vm/machine.go at arithmetic: straight code and jumps of   *)
(* one procedure over registers, memory and flags, every instruction an     *)
(* outcome of Alu.  Strings, Floats and Console add their instructions, Cpu *)
(* puts the machine together.                                               *)
(*                                                                          *)
(* All operands have one width.  Registers "a" and "d" are the accumulator  *)
(* and its extension: AL and AH, AX and DX, or EAX and EDX; "c" is the      *)
(* count, "i" the index (EDI), "s" ESI.  Memory has one cell to a word, and *)
(* floating point variables have cells of their own.                        *)
(***************************************************************************)
EXTENDS Alu, Fpu, Sequences, SequencesExt, Bitwise

CONSTANTS MemTop,     \* the last cell of memory
          Tasks       \* what may run: [name, code, starts], starts a set of
                      \* [regs, mem, flags, reals, stdin, peekable]

ASSUME MemTopAssumption == MemTop \in Nat

VARIABLES name, code, start,   \* the task
          pc, status,          \* status: "running", "ended" or "fault"
          regs, mem, flags, df,
          stack,               \* what pushfd saved, the top last
          fpu,                 \* the floating point stack, ST(0) last
          fpuStatus,           \* C0, C2 and C3 of its status word
          fpuControlWord,
          reals,               \* floating point variables, in tasks that have some
          stdin,               \* the bytes of the input not read yet
          peekable             \* whether all of the input is there at once

task == <<name, code, start>>
float == <<fpu, fpuStatus, fpuControlWord, reals>>
console == <<stdin, peekable>>
others == <<df, stack, float, console>>       \* what arithmetic leaves alone
vars == <<task, pc, status, regs, mem, flags, others>>

Registers == {"a", "d", "c", "b", "i", "s"}
Cells == 0..MemTop
-----------------------------------------------------------------------------
(***************************************************************************)
(* Instructions and operands                                                *)
(***************************************************************************)
Reg(r) == [kind |-> "reg", reg |-> r, n |-> 0]
Imm(n) == [kind |-> "imm", reg |-> "", n |-> n]
Mem(n) == [kind |-> "mem", reg |-> "i", n |-> n]      \* [edi + n]
At(r) == [kind |-> "mem", reg |-> r, n |-> 0]

\* cond names a jump with the condition of a cmov, set or jump; jumps go to to.
Instruction(op, args, cond, to) == [op |-> op, args |-> args, cond |-> cond, to |-> to]
Op(op, args) == Instruction(op, args, "jmp", 0)
Jcc(cond, to) == Instruction("jcc", << >>, cond, to)
Loop(op, to) == Instruction(op, << >>, "jmp", to)
Cmov(cond, x, y) == Instruction("cmov", <<x, y>>, cond, 0)
Set(cond, x) == Instruction("set", <<x>>, cond, 0)

\* Registers and memory in the middle of an instruction
here == [regs |-> regs, mem |-> mem]
AddressIn(z, x) == z.regs[x.reg] + x.n
Assignable(z, x) == x.kind = "mem" => AddressIn(z, x) \in Cells

resolveAddress(x) == AddressIn(here, x)

\* fpuPeek and fpuSet know the registers in use only.
Readable(x) ==
  CASE x.kind \in {"mem", "real"} -> resolveAddress(x) \in Cells
    [] x.kind = "st" -> x.n < Len(fpu)
    [] OTHER -> TRUE

resolveValue(x) ==
  CASE x.kind = "reg" -> regs[x.reg]
    [] x.kind = "imm" -> x.n
    [] x.kind = "mem" -> mem[resolveAddress(x)]

Inst == code[pc]
Value(k) == resolveValue(Inst.args[k])
CondHolds == JumpTaken(Inst.cond, flags)

Running == status = "running" /\ pc <= Len(code)

\* Calls take the addresses of their arguments (requireAddress).
AddressCalls == {"readconsole", "scanf", "peekconsoleinput", "readconsoleinput", "getnumberofconsoleinputevents"}

\* A cmov whose condition fails reads nothing.
Reads == IF (Inst.op = "cmov" /\ ~CondHolds) \/ Inst.op \in AddressCalls THEN {} ELSE DOMAIN Inst.args

Fetched(ops) == Running /\ Inst.op \in ops /\ \A k \in Reads : Readable(Inst.args[k])
-----------------------------------------------------------------------------
(***************************************************************************)
(* How an instruction ends                                                  *)
(***************************************************************************)
\* z after it, for instructions that store twice
stored(z, x, v) ==
  IF x.kind = "reg" THEN [z EXCEPT !.regs[x.reg] = truncate(v)]
  ELSE [z EXCEPT !.mem[AddressIn(z, x)] = truncate(v)]

assign(x, v) ==
  IF x.kind = "reg" THEN regs' = [regs EXCEPT ![x.reg] = truncate(v)] /\ UNCHANGED mem
  ELSE mem' = [mem EXCEPT ![resolveAddress(x)] = truncate(v)] /\ UNCHANGED regs

Advance == pc' = pc + 1 /\ UNCHANGED <<task, status>>

\* With an outcome: the first operand takes the value.
Leaves(outcome) ==
  /\ assign(Inst.args[1], outcome.value)
  /\ flags' = outcome.flags
  /\ Advance /\ UNCHANGED others

\* With two values: the second operand is found where the first value left it.
LeavesTwo(first, v, second, w, f) ==
  LET once == stored(here, first, v)
      twice == IF Assignable(once, second) THEN stored(once, second, w) ELSE once
  IN  /\ regs' = twice.regs /\ mem' = twice.mem /\ flags' = f
      /\ IF Assignable(once, second) THEN Advance ELSE status' = "fault" /\ UNCHANGED <<task, pc>>
      /\ UNCHANGED others

\* With a pair: the accumulator and its extension take it.
LeavesPair(pair) ==
  /\ regs' = [regs EXCEPT !["a"] = pair.low, !["d"] = pair.high]
  /\ flags' = pair.flags
  /\ Advance /\ UNCHANGED <<mem, others>>

\* With flags alone.
LeavesFlags(f) == flags' = f /\ Advance /\ UNCHANGED <<regs, mem, others>>

\* With an error, which ends the program.
Fails == status' = "fault" /\ UNCHANGED <<task, pc, regs, mem, flags, others>>
-----------------------------------------------------------------------------
(***************************************************************************)
(* One action per handler of execute                                        *)
(***************************************************************************)
Init == \E t \in Tasks : \E s \in t.starts :
          /\ name = t.name /\ code = t.code /\ start = s
          /\ pc = 1 /\ status = "running"
          /\ regs = s.regs /\ mem = s.mem /\ flags = s.flags /\ df = FALSE
          /\ stack = << >>
          /\ fpu = << >> /\ fpuStatus = NoStatus /\ fpuControlWord = InitialControl
          /\ reals = s.reals
          /\ stdin = s.stdin /\ peekable = s.peekable

execMov == Fetched({"mov"}) /\ Leaves(Outcome(Value(2), flags))

execCmov == /\ Fetched({"cmov"})
            /\ IF CondHolds THEN Leaves(Outcome(Value(2), flags)) ELSE LeavesFlags(flags)

execSetcc == Fetched({"set"}) /\ Leaves(Outcome(b2i(CondHolds), flags))

execAddSub == /\ Fetched({"add", "sub"})
              /\ Leaves(IF Inst.op = "add" THEN add(Value(1), Value(2)) ELSE sub(Value(1), Value(2)))

execAdcSbb == /\ Fetched({"adc", "sbb"})
              /\ Leaves(IF Inst.op = "adc" THEN adc(Value(1), Value(2), flags)
                        ELSE sbb(Value(1), Value(2), flags))

execCmp == Fetched({"cmp"}) /\ LeavesFlags(sub(Value(1), Value(2)).flags)

execIncDec == /\ Fetched({"inc", "dec"})
              /\ Leaves(IF Inst.op = "inc" THEN inc(Value(1), flags) ELSE dec(Value(1), flags))

execNeg == Fetched({"neg"}) /\ Leaves(neg(Value(1)))

execNot == Fetched({"not"}) /\ Leaves(Outcome(Modulus - 1 - Value(1), flags))

execLogic ==
  /\ Fetched({"xor", "and", "or"})
  /\ Leaves(logic(CASE Inst.op = "xor" -> Value(1) ^^ Value(2)
                    [] Inst.op = "and" -> Value(1) & Value(2)
                    [] Inst.op = "or"  -> Value(1) | Value(2), flags))

execTest == Fetched({"test"}) /\ LeavesFlags(logic(Value(1) & Value(2), flags).flags)

execShift == /\ Fetched({"shl", "shr", "sar"})
             /\ Leaves(shift(Inst.op, Value(1), Value(2), flags))

execDoubleShift == /\ Fetched({"shld", "shrd"})
                   /\ Leaves(doubleShift(Inst.op, Value(1), Value(2), Value(3), flags))

execRotate == /\ Fetched({"rol", "ror", "rcl", "rcr"})
              /\ Leaves(rotate(Inst.op, Value(1), Value(2), flags))

execMul == /\ Fetched({"mul", "imul"}) /\ Len(Inst.args) = 1
           /\ LeavesPair(IF Inst.op = "mul" THEN mul(regs["a"], Value(1), flags)
                         ELSE imul(regs["a"], Value(1), flags))

execIMul == /\ Fetched({"imul"}) /\ Len(Inst.args) > 1
            /\ Leaves(imulLow(Value(2), Value(Len(Inst.args)), flags))

execDiv ==
  /\ Fetched({"div", "idiv"})
  /\ IF Value(1) = 0 THEN Fails
     ELSE LeavesPair(IF Inst.op = "div" THEN div(regs["d"], regs["a"], Value(1), flags)
                     ELSE idiv(regs["d"], regs["a"], Value(1), flags))

\* cbw, cwd, cdq
execCWD == Fetched({"cwd"}) /\ LeavesPair(Pair(SignWord(regs["a"]), regs["a"], flags))

execDecimalAdjust ==
  \/ /\ Fetched({"aaa", "aas"})
     /\ LeavesPair(adjustAscii(IF Inst.op = "aaa" THEN 1 ELSE -1, regs["a"], regs["d"], flags))
  \/ /\ Fetched({"daa", "das"})
     /\ LET adjusted == adjustPacked(IF Inst.op = "daa" THEN 1 ELSE -1, regs["a"], flags)
        IN  LeavesPair(Pair(regs["d"], adjusted.value, adjusted.flags))

\* aam and aad, the base written or 10
execAAM ==
  /\ Fetched({"aam", "aad"})
  /\ LET base == IF Inst.args = << >> THEN 10 ELSE Value(1)
     IN  IF Inst.op = "aad" THEN LeavesPair(packDigits(regs["a"], regs["d"], base, flags))
         ELSE IF base = 0 THEN Fails
         ELSE LeavesPair(splitDigits(regs["a"], base, flags))

execBitTest == /\ Fetched({"bt", "bts", "btr", "btc"})
               /\ LET tested == bitTest(Inst.op, Value(1), Value(2), flags)
                  IN  IF Inst.op = "bt" THEN LeavesFlags(tested.flags) ELSE Leaves(tested)

\* bsf and bsr
execBSF == /\ Fetched({"bsf", "bsr"})
           /\ LET found == bitScan(Inst.op, Value(1), Value(2), flags)
              IN  IF Value(2) = 0 THEN LeavesFlags(found.flags) ELSE Leaves(found)

\* Mutant of execXchg: what the first operand held is lost.
execXchgCopy == Fetched({"xchg"}) /\ Leaves(Outcome(Value(2), flags))

execXchg == /\ Fetched({"xchg"})
            /\ LeavesTwo(Inst.args[1], Value(2), Inst.args[2], Value(1), flags)

\* Mutant of execXADD: the sum is stored first.
execXADDSumFirst == /\ Fetched({"xadd"})
                    /\ LET sum == add(Value(1), Value(2))
                       IN  LeavesTwo(Inst.args[1], sum.value, Inst.args[2], sum.value, sum.flags)

execXADD == /\ Fetched({"xadd"})
            /\ LET sum == add(Value(1), Value(2))
               IN  LeavesTwo(Inst.args[2], Value(1), Inst.args[1], sum.value, sum.flags)

execCMPXCHG ==
  /\ Fetched({"cmpxchg"})
  /\ LET compared == sub(regs["a"], Value(1)).flags
     IN  /\ IF compared.zf THEN assign(Inst.args[1], Value(2)) ELSE assign(Reg("a"), Value(1))
         /\ flags' = compared /\ Advance /\ UNCHANGED others

\* lahf and sahf, d being AH
execLAHF == Fetched({"lahf"}) /\ LeavesPair(Pair(FlagByte(flags), regs["a"], flags))
execSAHF == Fetched({"sahf"}) /\ LeavesFlags(WithFlagByte(regs["d"], flags))

SetCarry ==
  /\ Fetched({"clc", "stc", "cmc"})
  /\ LeavesFlags([flags EXCEPT !.cf = CASE Inst.op = "clc" -> FALSE
                                        [] Inst.op = "stc" -> TRUE
                                        [] Inst.op = "cmc" -> ~flags.cf])

SetDirection == /\ Fetched({"cld", "std"})
                /\ df' = (Inst.op = "std")
                /\ Advance /\ UNCHANGED <<regs, mem, flags, stack, float, console>>

currentEFlags(f, direction) ==
  2 + FlagByte(f) + 1024 * b2i(direction) + 2048 * b2i(f.of)

applyEFlags(v) == WithFlagByte(v, [of |-> Bit(v, 2048) = 1])

execPushfd == /\ Fetched({"pushfd"})
              /\ stack' = Append(stack, currentEFlags(flags, df))
              /\ Advance /\ UNCHANGED <<regs, mem, flags, df, float, console>>

execPopfd == /\ Fetched({"popfd"}) /\ stack # << >>
             /\ flags' = applyEFlags(Last(stack)) /\ df' = (Bit(Last(stack), 1024) = 1)
             /\ stack' = Front(stack)
             /\ Advance /\ UNCHANGED <<regs, mem, float, console>>

\* jump and jumpIf
JumpIf(condition) ==
  /\ pc' = IF condition THEN Inst.to ELSE pc + 1
  /\ UNCHANGED <<task, status, mem, flags, others>>

Jump == Fetched({"jcc"}) /\ JumpIf(CondHolds) /\ UNCHANGED regs

jecxz == Fetched({"jecxz"}) /\ JumpIf(regs["c"] = 0) /\ UNCHANGED regs

\* Mutants of CountDown: no count, and a count below 0.
CountKept(n) == n
CountDownSigned(n) == n - 1

CountDown(n) == truncate(n - 1)

loop ==
  /\ Fetched({"loop", "loopz", "loopnz"})
  /\ regs' = [regs EXCEPT !["c"] = CountDown(@)]
  /\ JumpIf(/\ regs'["c"] # 0
            /\ Inst.op = "loopz" => flags.zf
            /\ Inst.op = "loopnz" => ~flags.zf)

\* readMemory or fpuPeek fails
BadOperand == Running /\ (\E k \in Reads : ~Readable(Inst.args[k])) /\ Fails

End == /\ status = "running" /\ pc > Len(code)
       /\ status' = "ended" /\ UNCHANGED <<task, pc, regs, mem, flags, others>>

ArithStep ==
  \/ execMov \/ execCmov \/ execSetcc
  \/ execAddSub \/ execAdcSbb \/ execCmp \/ execIncDec \/ execNeg
  \/ execNot \/ execLogic \/ execTest
  \/ execShift \/ execDoubleShift \/ execRotate
  \/ execMul \/ execIMul \/ execDiv \/ execCWD \/ execDecimalAdjust \/ execAAM
  \/ execBitTest \/ execBSF \/ execXchg \/ execXADD \/ execCMPXCHG
  \/ execLAHF \/ execSAHF
  \/ SetCarry \/ SetDirection \/ execPushfd \/ execPopfd
  \/ Jump \/ jecxz \/ loop
=============================================================================
