------------------------------ MODULE Lowering ------------------------------
(***************************************************************************)
(* How the translator (internal/masm) turns PROC, LOCAL, INVOKE and ret     *)
(* into instructions: one pass over the lines of a procedure, which emits   *)
(* the prologue, gives parameters and locals an address relative to EBP,    *)
(* and rewrites every ret into the epilogue.  Sizes are in 4-byte slots.    *)
(*                                                                          *)
(* A procedure is a record [at, proto, convention, uses, params, lines]: at *)
(* is its place in the file, proto the convention of the PROTO that precedes*)
(* all procedures ("none" without one), params the sequence of the          *)
(* parameters' SlotSize.  A line is one of                                  *)
(*   [st |-> "local", n]                   LOCAL of n slots                 *)
(*   [st |-> "invoke", target, args]       INVOKE                           *)
(*   [st |-> "ret", args]                  ret, ret n                       *)
(*   [st |-> "inst", op, args, n, target]  any other instruction            *)
(* An operand may name a parameter or a local by its number; the n of a     *)
(* jump is the line of its label, 0 when the procedure has no such label.   *)
(***************************************************************************)
EXTENDS Operands, SequencesExt, FiniteSets

Param(i) == [kind |-> "param", val |-> i, base |-> ""]
LocalVar(i) == [kind |-> "local", val |-> i, base |-> ""]

IsProcedure(proc) ==
  /\ IsSequence(proc.uses) /\ IsSequence(proc.lines)
  /\ \A i \in 1..Len(proc.lines) : proc.lines[i].st # "local" => IsSequence(proc.lines[i].args)

Total(slots) == FoldLeft(LAMBDA t, n : t + n, 0, slots)

\* Every instruction carries the number of the line it comes from.
Instr(line, op, args, n, target) ==
  [line |-> line, op |-> op, n |-> n, target |-> target,
   a |-> IF Len(args) > 0 THEN args[1] ELSE Imm(0),
   b |-> IF Len(args) > 1 THEN args[2] ELSE Imm(0)]

Op(line, op, args) == <<Instr(line, op, args, 0, "")>>
Control(line, op, n, target) == <<Instr(line, op, << >>, n, target)>>
-----------------------------------------------------------------------------
(***************************************************************************)
(* What the pass knows when it reaches a line                               *)
(***************************************************************************)
\* The slots of the LOCALs up to a line, that line included.
LocalsUpTo(proc, line) ==
  LET decls == SelectSeq(SubSeq(proc.lines, 1, line), LAMBDA l : l.st = "local")
  IN  [i \in 1..Len(decls) |-> decls[i].n]

AllLocals(proc) == LocalsUpTo(proc, Len(proc.lines))

FramedAtProc(proc) == proc.params # << >> \/ proc.uses # << >>

\* frameStarted, before a line
FrameStarted(proc, line) == FramedAtProc(proc) \/ LocalsUpTo(proc, line - 1) # << >>

\* Mutant of ParamDisp: forgets the return address.
ParamDispShort(proc, i) == 1 + Total(SubSeq(proc.params, 1, i - 1))

\* Above the saved EBP and the return address, in order of declaration.
ParamDisp(proc, i) == 2 + Total(SubSeq(proc.params, 1, i - 1))

\* Mutants of LocalDisp: on the wrong side of EBP; one slot too low.
LocalDispUp(proc, i) == Len(proc.uses) + Total(SubSeq(AllLocals(proc), 1, i))
LocalDispLow(proc, i) == -(Len(proc.uses) + Total(SubSeq(AllLocals(proc), 1, i)) + 1)

\* Below the saved registers and the locals declared before it.
LocalDisp(proc, i) == -(Len(proc.uses) + Total(SubSeq(AllLocals(proc), 1, i)))

Resolved(proc, op) ==
  CASE op.kind = "param" -> [kind |-> "mem", base |-> "ebp", val |-> ParamDisp(proc, op.val)]
    [] op.kind = "local" -> [kind |-> "mem", base |-> "ebp", val |-> LocalDisp(proc, op.val)]
    [] OTHER -> op
-----------------------------------------------------------------------------
(***************************************************************************)
(* The instructions of a line                                               *)
(***************************************************************************)
ensureFrameStarted(proc, line) ==
  Op(line, "push", <<Reg("ebp")>>) \o Op(line, "mov", <<Reg("ebp"), Reg("esp")>>)
  \o [i \in 1..Len(proc.uses) |-> Instr(line, "push", <<Reg(proc.uses[i])>>, 0, "")]

\* Mutant of Reserved: the sub is not raised by the LOCALs that follow.
ReservedSoFar(proc, line) == Total(LocalsUpTo(proc, line))

\* The amount of the sub that makes room for the locals, once all are parsed.
Reserved(proc, line) == Total(AllLocals(proc))

\* All LOCALs of a procedure share the sub of the first: each that follows
\* raises its amount.
parseLocalLine(proc, line) ==
  (IF FrameStarted(proc, line) THEN << >> ELSE ensureFrameStarted(proc, line))
  \o (IF LocalsUpTo(proc, line - 1) # << >> THEN << >>
      ELSE Op(line, "sub", <<Reg("esp"), Imm(Reserved(proc, line))>>))

\* Mutants of autoCleanup: nothing is removed; all is removed twice.
NoCleanup(convention, params) == 0
DoubleCleanup(convention, params) == 2 * Total(params)

\* What the callee removes; with the C convention nothing, and neither does
\* the caller, which uses the same number.
autoCleanup(convention, params) == IF convention = "c" THEN 0 ELSE Total(params)

\* Mutant of RestoreOrder: in the order they were pushed.
RestoreAsPushed(uses) == uses

RestoreOrder(uses) == Reverse(uses)

\* The locals freed are those declared so far.
rewriteRet(proc, line, args) ==
  LET locals == LocalsUpTo(proc, line)
      uses == RestoreOrder(proc.uses)
      ret(default) == Control(line, "ret", IF args = << >> THEN default ELSE args[1], "")
  IN  IF ~FrameStarted(proc, line) THEN ret(0)
      ELSE (IF locals = << >> THEN << >>
            ELSE Op(line, "add", <<Reg("esp"), Imm(Total(locals))>>))
           \o [i \in 1..Len(uses) |-> Instr(line, "pop", <<Reg(uses[i])>>, 0, "")]
           \o Op(line, "pop", <<Reg("ebp")>>)
           \o ret(autoCleanup(proc.convention, proc.params))

\* Mutant of PushOrder: from the first to the last.
PushAsWritten(args) == args

PushOrder(args) == Reverse(args)

\* The convention of the signature the pass knows for a target when it is
\* inside a procedure: the PROC's when that came first, else the PROTO's.
Visible(source, proc, target) ==
  IF source[target].at <= proc.at THEN source[target].convention ELSE source[target].proto

\* A procedure with a signature, and arguments: pushed from the last to the
\* first, called, and for a C procedure followed by an add to ESP.  Anything
\* else is left to the machine.
parseInvoke(source, proc, line, target, args) ==
  LET last == PushOrder(args)
      convention == IF target \in DOMAIN source THEN Visible(source, proc, target) ELSE "none"
  IN  IF convention # "none" /\ args # << >>
      THEN [i \in 1..Len(last) |-> Instr(line, "push", <<Resolved(proc, last[i])>>, 0, "")]
           \o Control(line, "call", 0, target)
           \o IF convention # "c" THEN << >>
              ELSE Op(line, "add", <<Reg("esp"), Imm(autoCleanup("c", source[target].params))>>)
      ELSE Control(line, "invoke", Len(args), target)

parseCodeLine(source, proc, line) ==
  LET text == proc.lines[line]
  IN  CASE text.st = "local"  -> parseLocalLine(proc, line)
        [] text.st = "invoke" -> parseInvoke(source, proc, line, text.target, text.args)
        [] text.st = "ret"    -> rewriteRet(proc, line, text.args)
        [] OTHER -> <<Instr(line, text.op,
                            [i \in 1..Len(text.args) |-> Resolved(proc, text.args[i])],
                            text.n, text.target)>>

\* A label stands for the first instruction that follows it.
WithLabels(body) ==
  [i \in 1..Len(body) |->
     IF body[i].op \in {"jmp", "jcc"} /\ body[i].n # 0
     THEN [body[i] EXCEPT !.n = 1 + Cardinality({k \in 1..Len(body) : body[k].line < @})]
     ELSE body[i]]

LowerProc(source, proc) ==
  WithLabels((IF FramedAtProc(proc) THEN ensureFrameStarted(proc, 0) ELSE << >>)
             \o FlattenSeq([line \in 1..Len(proc.lines) |-> parseCodeLine(source, proc, line)]))

Lower(source) == [name \in DOMAIN source |-> LowerProc(source, source[name])]
=============================================================================
