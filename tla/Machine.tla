------------------------------ MODULE Machine ------------------------------
(***************************************************************************)
(* The interpreter loop of vm/machine.go: the stack of frames (which        *)
(* procedure runs, and where), the registers, and the instructions that     *)
(* move the stack or change the frame.  A frame is pushed by call and       *)
(* popped by ret; the return address call leaves on the stack is a mark     *)
(* nobody reads, so what keeps the two stacks in step is only that the      *)
(* program pushes and pops in pairs.                                        *)
(*                                                                          *)
(* Memory is counted in 4-byte slots and an address is a slot number.  A    *)
(* number below 0 stands for the word it wraps to, which is above memory    *)
(* and faults in the same places.                                           *)
(***************************************************************************)
EXTENDS Operands, SequencesExt

CONSTANTS Procs,        \* the names of the program's procedures
          Main,         \* the entry procedure
          ProcAddress,  \* the word that stands for a procedure in data
          MemTop,       \* slots of memory
          ReturnMark    \* the word call leaves on the stack, 0xC0DEF00D

Regs == {"eax", "ecx", "edx", "ebx", "esp", "ebp", "esi", "edi"}
Slots == 0..(MemTop - 1)

ASSUME ProgramAssumption ==
  /\ Main \in Procs /\ MemTop \in Nat
  /\ \A p, q \in Procs : ProcAddress[p] = ProcAddress[q] => p = q

VARIABLES code,      \* m.program: the instructions of each procedure
          frames,    \* the call stack, the running procedure last
          regs,
          memory,
          status,    \* "running", "done", or "error" once Run has returned
          exitCode

mvars == <<code, frames, regs, memory, status, exitCode>>
-----------------------------------------------------------------------------
\* The part of the machine an instruction works on; ok is FALSE after an error.
Cpu == [regs |-> regs, memory |-> memory, ok |-> TRUE]

Failed(st) == [st EXCEPT !.ok = FALSE]

EffectiveAddress(st, op) == st.regs[op.base] + op.val

Readable(st, op) == op.kind = "mem" => EffectiveAddress(st, op) \in Slots

resolveValue(st, op) == CASE op.kind = "imm" -> op.val
                          [] op.kind = "reg" -> st.regs[op.base]
                          [] OTHER -> st.memory[EffectiveAddress(st, op)]

assign(st, op, v) ==
  CASE ~st.ok -> st
    [] st.ok /\ op.kind = "reg" -> [st EXCEPT !.regs[op.base] = v]
    [] st.ok /\ op.kind = "mem" /\ EffectiveAddress(st, op) \in Slots ->
         [st EXCEPT !.memory[EffectiveAddress(st, op)] = v]
    [] OTHER -> Failed(st)

\* ESP moves only when the store succeeded.
push32(st, v) ==
  LET top == st.regs["esp"] - 1
  IN  IF st.ok /\ top \in Slots
      THEN [st EXCEPT !.memory[top] = v, !.regs["esp"] = top]
      ELSE Failed(st)

CanPop(st) == st.ok /\ st.regs["esp"] \in Slots

Popped(st) == st.memory[st.regs["esp"]]

\* pop32, the value dropped
pop32(st) == IF CanPop(st) THEN [st EXCEPT !.regs["esp"] = @ + 1] ELSE Failed(st)

PopTo(st, op) == IF CanPop(st) THEN assign(pop32(st), op, Popped(st)) ELSE Failed(st)
-----------------------------------------------------------------------------
(***************************************************************************)
(* What each instruction does to registers and memory                       *)
(***************************************************************************)
WithValue(st, op, effect(_)) ==
  IF Readable(st, op) THEN effect(resolveValue(st, op)) ELSE Failed(st)

execMov(st, dst, src) == WithValue(st, src, LAMBDA v : assign(st, dst, v))

execAddSub(st, dst, src, sign) ==
  WithValue(st, dst, LAMBDA a :
    WithValue(st, src, LAMBDA b : assign(st, dst, a + sign * b)))

execPush(st, op) == WithValue(st, op, LAMBDA v : push32(st, v))

\* A sequence of values pushed one after the other; one that fails ends Run.
pushAll(st, values) ==
  LET esp == st.regs["esp"]
      n == Len(values)
  IN  IF st.ok /\ (esp - n)..(esp - 1) \subseteq Slots
      THEN [st EXCEPT !.memory = [a \in Slots |-> IF a \in (esp - n)..(esp - 1)
                                                  THEN values[esp - a] ELSE st.memory[a]],
                      !.regs["esp"] = esp - n]
      ELSE Failed(st)

PushadOrder == <<"eax", "ecx", "edx", "ebx", "esp", "ebp", "esi", "edi">>

execPushad(st) == pushAll(st, [i \in 1..8 |-> st.regs[PushadOrder[i]]])

\* ESP's copy is popped and dropped.
execPopad(st) ==
  LET esp == st.regs["esp"]
      place == [r \in Regs |-> 8 - (CHOOSE i \in 1..8 : PushadOrder[i] = r)]
  IN  IF esp..(esp + 7) \subseteq Slots
      THEN [st EXCEPT !.regs = [r \in Regs |-> IF r = "esp" THEN esp + 8
                                               ELSE st.memory[esp + place[r]]]]
      ELSE Failed(st)

\* Mutant of execLeave: ESP is not brought back to the frame.
execLeaveInPlace(st) == PopTo(st, Reg("ebp"))

execLeave(st) == PopTo([st EXCEPT !.regs["esp"] = st.regs["ebp"]], Reg("ebp"))

\* EBP is saved; for level > 0 the frame pointers of the enclosing frames, which
\* lie below the old EBP, are copied, and the new frame's own is added.
execEnter(st, alloc, level) ==
  LET oldEBP == st.regs["ebp"]
      frameTemp == st.regs["esp"] - 1
      \* the values pushed in turn; one may be read from a slot just pushed
      display[i \in 0..(level - 1)] ==
        LET at == oldEBP - i
        IN  IF i = 0 THEN oldEBP
            ELSE IF at \in (frameTemp - i + 1)..frameTemp THEN display[frameTemp - at]
            ELSE st.memory[at]
      readable == \A i \in 1..(level - 1) : oldEBP - i \in Slots
      values == IF level = 0 THEN <<oldEBP>>
                ELSE [i \in 1..level |-> display[i - 1]] \o <<frameTemp>>
  IN  IF readable /\ pushAll(st, values).ok
      THEN [pushAll(st, values) EXCEPT !.regs["ebp"] = frameTemp, !.regs["esp"] = @ - alloc]
      ELSE Failed(st)
-----------------------------------------------------------------------------
(***************************************************************************)
(* The loop of Run                                                          *)
(***************************************************************************)
\* The state in which Run enters its loop, code being the program.
Boot == /\ frames = <<[proc |-> Main, pc |-> 1]>>
        /\ regs = [r \in Regs |-> IF r = "esp" THEN MemTop ELSE 0]
        /\ memory = [a \in Slots |-> 0]
        /\ status = "running"
        /\ exitCode = 0

Current == frames[Len(frames)]
Body == code[Current.proc]
Fetched == frames # << >> /\ Current.pc <= Len(Body)
Inst == Body[Current.pc]

Advanced == [frames EXCEPT ![Len(frames)].pc = @ + 1]
Returned == SubSeq(frames, 1, Len(frames) - 1)

\* An error ends Run; what the failed instruction did before it is not seen.
Error == status' = "error" /\ UNCHANGED <<frames, regs, memory, exitCode>>

\* The instruction leaves st, and the frames as given.
Commit(st, newFrames) ==
  \/ /\ st.ok
     /\ regs' = st.regs /\ memory' = st.memory /\ frames' = newFrames
     /\ UNCHANGED <<status, exitCode>>
  \/ ~st.ok /\ Error

Straight(op, st) == Fetched /\ Inst.op = op /\ Commit(st, Advanced)

Mov == Straight("mov", execMov(Cpu, Inst.a, Inst.b))
Add == Straight("add", execAddSub(Cpu, Inst.a, Inst.b, 1))
Sub == Straight("sub", execAddSub(Cpu, Inst.a, Inst.b, -1))
Push == Straight("push", execPush(Cpu, Inst.a))
Pop == Straight("pop", PopTo(Cpu, Inst.a))
Pushad == Straight("pushad", execPushad(Cpu))
Popad == Straight("popad", execPopad(Cpu))
Enter == Straight("enter", execEnter(Cpu, Inst.a.val, Inst.b.val))
Leave == Straight("leave", execLeave(Cpu))

\* call of one of the built-in Irvine procedures: no frame, no return address;
\* the result, if any, is in EAX.
Builtin == /\ Fetched /\ Inst.op = "builtin"
           /\ Commit(assign(Cpu, Reg("eax"), Inst.a.val), Advanced)

\* Mutant of enterProcedure: begins before the first instruction.
enterProcedureEarly(st, target) ==
  Commit(push32(st, ReturnMark), Append(Advanced, [proc |-> target, pc |-> 0]))

enterProcedure(st, target) ==
  Commit(push32(st, ReturnMark), Append(Advanced, [proc |-> target, pc |-> 1]))

Call == /\ Fetched /\ Inst.op = "call"
        /\ IF Inst.target \in Procs THEN enterProcedure(Cpu, Inst.target) ELSE Error

CallIndirect ==
  /\ Fetched /\ Inst.op = "call_indirect"
  /\ \/ /\ ~Readable(Cpu, Inst.a)
        /\ Error
     \/ /\ Readable(Cpu, Inst.a)
        /\ \A p \in Procs : ProcAddress[p] # resolveValue(Cpu, Inst.a)
        /\ Error
     \/ /\ Readable(Cpu, Inst.a)
        /\ \E p \in Procs : /\ ProcAddress[p] = resolveValue(Cpu, Inst.a)
                            /\ enterProcedure(Cpu, p)

\* INVOKE of a name that is no built-in.  With no argument the call is made on
\* a list of frames of its own, which is dropped: the return address is pushed
\* and the procedure does not run.
Invoke == /\ Fetched /\ Inst.op = "invoke"
          /\ IF Inst.n = 0 /\ Inst.target \in Procs
             THEN Commit(push32(Cpu, ReturnMark), Advanced)
             ELSE Error

\* ret n: drops the return address, then n slots, and the frame.
Ret == /\ Fetched /\ Inst.op = "ret"
       /\ Commit(execAddSub(pop32(Cpu), Reg("esp"), Imm(Inst.n), 1), Returned)

\* Mutant of Jump: the label is not looked for.
JumpUnchecked == Commit(Cpu, [frames EXCEPT ![Len(frames)].pc = Inst.n])

\* A label the procedure does not have is an error when the jump is taken.
Jump == IF Inst.n \in 1..(Len(Body) + 1)
        THEN Commit(Cpu, [frames EXCEPT ![Len(frames)].pc = Inst.n])
        ELSE Error

Jmp == Fetched /\ Inst.op = "jmp" /\ Jump

\* Which way a conditional jump goes is up to the flags, not modelled here.
Jcc == Fetched /\ Inst.op = "jcc" /\ (Jump \/ Commit(Cpu, Advanced))

Exit == /\ Fetched /\ Inst.op = "exit"
        /\ frames' = << >> /\ exitCode' = Inst.n
        /\ UNCHANGED <<regs, memory, status>>

\* call ExitProcess: the code is what ESP points to, 0 when that is no memory.
ExitProcess == /\ Fetched /\ Inst.op = "exitprocess"
               /\ frames' = << >>
               /\ exitCode' = IF CanPop(Cpu) THEN Popped(Cpu) ELSE 0
               /\ UNCHANGED <<regs, memory, status>>

\* Mutant of FallOff: the return address stays on the stack.
FallOffKeepsSlot == /\ frames # << >> /\ ~Fetched
                    /\ frames' = Returned
                    /\ UNCHANGED <<regs, memory, status, exitCode>>

\* The end of a procedure's instructions: its frame goes and, except for the
\* entry procedure, one slot is popped; a failure of that pop is ignored.
FallOff == /\ frames # << >> /\ ~Fetched
           /\ frames' = Returned
           /\ regs' = IF Current.proc # Main /\ CanPop(Cpu) THEN pop32(Cpu).regs ELSE regs
           /\ UNCHANGED <<memory, status, exitCode>>

\* The loop is over: Run closes the program's files and returns.
Finish == /\ frames = << >>
          /\ status' = "done"
          /\ UNCHANGED <<frames, regs, memory, exitCode>>

Step == /\ status = "running"
        /\ UNCHANGED code
        /\ \/ Mov \/ Add \/ Sub \/ Push \/ Pop \/ Pushad \/ Popad \/ Enter \/ Leave
           \/ Builtin \/ Call \/ CallIndirect \/ Invoke \/ Ret \/ Jmp \/ Jcc
           \/ Exit \/ ExitProcess \/ FallOff \/ Finish

=============================================================================
