------------------------------- MODULE Procs -------------------------------
(***************************************************************************)
(* Procedures end to end: a source program translated by Lowering, run by   *)
(* Machine.  Beside the machine runs the source program's own idea of its   *)
(* activations - the arguments each was invoked with, the values its locals *)
(* hold, the registers its caller had - which the machine never reads, and  *)
(* which the properties compare with registers, memory and frames.          *)
(***************************************************************************)
EXTENDS Machine, Lowering

CONSTANTS Sources,    \* the source programs, [Procs -> procedure]
          Orderly     \* those that pop what they push, call what there is and exit

ASSUME SourceAssumption ==
  \A src \in Sources : DOMAIN src = Procs /\ \A p \in Procs : IsProcedure(src[p])

VARIABLES source,   \* the program that was translated
          acts,     \* one activation for each frame, in the same order
          pending   \* the arguments of the INVOKE being executed

vars == <<mvars, source, acts, pending>>
-----------------------------------------------------------------------------
Top == acts[Len(acts)]
CurrentProc == source[Current.proc]

\* An instruction that is the first of its line; the prologue is line 0.
LineStart == /\ Fetched /\ Inst.line > 0
             /\ Current.pc = 1 \/ Body[Current.pc - 1].line # Inst.line

Line == CurrentProc.lines[Inst.line]

\* The first of the words an INVOKE passes that belongs to a parameter: one
\* argument to a word, whatever the parameters' sizes.
FirstWord(proc, i) == 1 + Total(SubSeq(proc.params, 1, i - 1))

\* What an operand means to the source program.
Meaning(op) == CASE op.kind = "param" -> Top.args[FirstWord(CurrentProc, op.val)]
                 [] op.kind = "local" -> Top.locals[op.val]
                 [] op.kind = "imm"   -> op.val
                 [] OTHER             -> regs[op.base]

Activation(registers, args) ==
  [entry |-> registers,   \* the registers when the procedure was called
   base |-> -1,           \* EBP once the prologue set it
   args |-> args,
   locals |-> << >>]      \* local number -> value, for the locals assigned

WithLocal(act, k, v) ==
  [act EXCEPT !.locals = [i \in DOMAIN act.locals \union {k} |->
                            IF i = k THEN v ELSE act.locals[i]]]

IsPrologueMov == /\ Inst.op = "mov" /\ Inst.a = Reg("ebp") /\ Inst.b = Reg("esp")

AssignsLocal == /\ Inst.line > 0 /\ Line.st = "inst" /\ Line.op = "mov"
                /\ Line.args[1].kind = "local"

\* The activations follow the frames.
Follow ==
  /\ UNCHANGED source
  /\ pending' = IF LineStart /\ Line.st = "invoke"
                THEN [i \in 1..Len(Line.args) |-> Meaning(Line.args[i])]
                ELSE IF Fetched /\ Inst.op = "call" THEN << >> ELSE pending
  /\ acts' =
       IF Len(frames') > Len(frames) THEN Append(acts, Activation(regs, pending))
       ELSE IF Len(frames') < Len(frames) THEN SubSeq(acts, 1, Len(frames'))
       ELSE CASE Fetched /\ IsPrologueMov -> [acts EXCEPT ![Len(acts)].base = regs["esp"]]
              [] Fetched /\ ~IsPrologueMov /\ AssignsLocal ->
                   [acts EXCEPT ![Len(acts)] =
                      WithLocal(@, Line.args[1].val, Meaning(Line.args[2]))]
              [] OTHER -> acts

PInit == /\ source \in Sources
         /\ code = Lower(source)
         /\ Boot
         /\ acts = <<Activation([regs EXCEPT !["esp"] = MemTop + 1], << >>)>>
         /\ pending = << >>

PNext == Step /\ Follow

Spec == PInit /\ [][PNext]_vars
-----------------------------------------------------------------------------
(***************************************************************************)
(* Properties                                                               *)
(***************************************************************************)
TypeOK ==
  /\ status \in {"running", "done", "error"}
  /\ \A i \in 1..Len(frames) : /\ frames[i].proc \in Procs
                               /\ frames[i].pc \in 1..(Len(code[frames[i].proc]) + 1)
  /\ DOMAIN regs = Regs /\ DOMAIN memory = Slots
  /\ Len(acts) = Len(frames)

HasFrame(proc) == FrameStarted(proc, Len(proc.lines) + 1)

LocalSlots(proc) == Total(AllLocals(proc))

\* Slots the program itself has pushed and not yet popped before a line.
Pushed(proc, line) ==
  FoldLeft(LAMBDA t, l : t + l.depth, 0,
           SelectSeq(SubSeq(proc.lines, 1, line - 1), LAMBDA l : l.st = "inst"))

\* What the INVOKEs before a line leave: the words pushed for arguments less
\* those of the parameters.  0 where the two agree, and always for C procedures,
\* whose caller knows what it pushed.
Mismatch(src, call) == IF src[call.target].convention = "c" THEN 0
                       ELSE Len(call.args) - Total(src[call.target].params)

Left(src, proc, line) ==
  FoldLeft(LAMBDA t, l : t + Mismatch(src, l), 0,
           SelectSeq(SubSeq(proc.lines, 1, line - 1), LAMBDA l : l.st = "invoke"))

\* The LOCALs, when there are any, lie before the line.
InBody(proc, line) == LocalSlots(proc) > 0 => LocalsUpTo(proc, line - 1) # << >>

\* Between the lines of a procedure the stack is where the text says: below its
\* saved registers and its locals, and the slots it has pushed itself.  A call
\* and the LOCALs leave nothing behind, and INVOKE exactly the words by which its
\* arguments differ from the parameters, which it does not compare
\* (parseInvoke, rewriteRet, execCall, execRet).
StackBalanced ==
  status = "running" /\ LineStart /\ InBody(CurrentProc, Inst.line) =>
    regs["esp"] = (IF HasFrame(CurrentProc)
                   THEN Top.base - Len(CurrentProc.uses) - LocalSlots(CurrentProc)
                   ELSE Top.entry["esp"] - 1)
                  - Pushed(CurrentProc, Inst.line) - Left(source, CurrentProc, Inst.line)

\* A parameter's name means the words it was invoked with, as far as there were
\* any, on every line of the procedure: nothing it calls, saves or pushes
\* overwrites them (installParamAliases and the order parseInvoke pushes in).
ParamsNamed ==
  status = "running" /\ LineStart =>
    \A i \in 1..Len(CurrentProc.params) : \A k \in 0..(CurrentProc.params[i] - 1) :
      LET word == FirstWord(CurrentProc, i) + k
      IN  word <= Len(Top.args) =>
            memory[regs["ebp"] + ParamDisp(CurrentProc, i) + k] = Top.args[word]

\* The locals of every activation, not only the last, keep their values until
\* it assigns them: calls, saved registers and other activations of the same
\* procedure never share their slots (parseLocalLine).
LocalsKept ==
  status = "running" =>
    \A f \in 1..Len(acts) : \A k \in DOMAIN acts[f].locals :
      memory[acts[f].base + LocalDisp(source[frames[f].proc], k)] = acts[f].locals[k]

\* The return address of every active call is where the call put it, so the
\* frames and the stack stay in step (enterProcedure, execRet).
ReturnSlotsIntact ==
  status = "running" =>
    \A f \in 2..Len(acts) : memory[acts[f].entry["esp"] - 1] = ReturnMark

\* The arguments a procedure removes: those ret names, or all of its own.
Removed(proc, n) == IF n # 0 \/ proc.convention = "c" THEN n ELSE Total(proc.params)

\* A procedure gives its caller back EBP, the registers of its USES list, and
\* the stack pointer with its arguments removed (rewriteRet, execRet).
CalleeRestores ==
  [][(status = "running" /\ Fetched /\ Inst.op = "ret" /\ Len(frames') = Len(frames) - 1) =>
       /\ regs'["ebp"] = Top.entry["ebp"]
       /\ \A i \in 1..Len(CurrentProc.uses) :
            regs'[CurrentProc.uses[i]] = Top.entry[CurrentProc.uses[i]]
       /\ regs'["esp"] = Top.entry["esp"] + Removed(CurrentProc, Inst.n)]_vars

\* An INVOKE of a user-defined procedure runs it, arguments or not (execInvoke).
InvokeRuns ==
  [][(status = "running" /\ Fetched /\ Inst.op = "invoke" /\ Inst.n = 0 /\ Inst.target \in Procs) =>
       Len(frames') = Len(frames) + 1]_vars

\* A program that balances its own pushes, INVOKEs what it defines and ends in
\* exit never faults: nothing the translator adds to it can (Run).
NeverFaults == status = "error" => source \notin Orderly
=============================================================================
