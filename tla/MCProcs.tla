------------------------------ MODULE MCProcs ------------------------------
(***************************************************************************)
(* Source programs for Procs: main INVOKEs P twice, the second time with a  *)
(* word of its own on the stack, and P INVOKEs Q with a local and a         *)
(* parameter of its own.  P and Q range over conventions, USES lists,       *)
(* parameters, locals and shapes of body.  The theorems of DisciplineProofs *)
(* are about programs with shapes; that these have them is evaluated last.  *)
(***************************************************************************)
EXTENDS Names

MCProcNames == {"main", "P", "Q"}
MCAddress == [p \in MCProcNames |-> CASE p = "main" -> 1000 [] p = "P" -> 1001 [] OTHER -> 1002]

Ln(op, args, n, target, depth) ==
  [st |-> "inst", op |-> op, args |-> args, n |-> n, target |-> target, depth |-> depth]
Do(op, args) == Ln(op, args, 0, "", 0)
LOCALS(n) == [st |-> "local", n |-> n]
INVOKE(p, args) == [st |-> "invoke", target |-> p, args |-> args]
RET == [st |-> "ret", args |-> << >>]
Set(r, v) == Do("mov", <<Reg(r), Imm(v)>>)
PushLn(op) == Ln("push", <<op>>, 0, "", 1)
PopLn(op) == Ln("pop", <<op>>, 0, "", -1)

Proc(at, convention, uses, params, lines) ==
  [at |-> at, proto |-> convention, convention |-> convention,
   uses |-> uses, params |-> params, lines |-> lines]

Args(n, first) == [i \in 1..n |-> Imm(first + i)]

MainProc(nargs) ==
  Proc(1, "stdcall", << >>, << >>,
       <<Set("ebx", 5), Set("esi", 6), INVOKE("P", Args(nargs, 10)), PushLn(Reg("ebx")),
         INVOKE("P", [Args(nargs, 20) EXCEPT ![1] = Reg("esi")]), PopLn(Reg("ebx")),
         Ln("exit", << >>, 0, "", 0)>>)

\* The LOCALs come first, and each is set before it is used.
LocalLines(sizes) == [i \in 1..Len(sizes) |-> LOCALS(sizes[i])]
SetLocals(sizes) == [i \in 1..Len(sizes) |-> Do("mov", <<LocalVar(i), Imm(30 + i)>>)]

\* Q's arguments: a local of the caller when it has one, and its first parameter.
QArgs(n, sizes) == LET own == IF sizes = << >> THEN Imm(40) ELSE LocalVar(Len(sizes))
                   IN  IF n = 1 THEN <<own>> ELSE <<own, Param(1)>>

Clobber(uses) == [i \in 1..Len(uses) |-> Set(uses[i], 50 + i)]

\* The rest of P's body: a call of Q between pushes, an early ret, PUSHAD.
Shapes(qargs) == <<
  <<INVOKE("Q", qargs), RET>>,
  <<PushLn(Reg("eax")), INVOKE("Q", qargs), INVOKE("Q", qargs), PopLn(Reg("eax")), RET>>,
  <<Ln("pushad", << >>, 0, "", 8), Set("edi", 9), Ln("popad", << >>, 0, "", -8), RET>> >>

UsesLists == << << >>, <<"ebx">>, <<"ebx", "esi">> >>
ParamLists == << <<1>>, <<1, 1>> >>
LocalLists == << << >>, <<1>>, <<2, 1>> >>

\* A program is named by the choices it is made of.
InvokeIds == [uses : 1..3, params : 1..2, locals : 1..3, shape : 1..3,
              quses : 1..2, qparams : 1..2, qlocals : 1..2]

PProc(id) ==
  LET uses == UsesLists[id.uses]
      sizes == LocalLists[id.locals]
      qargs == QArgs(Len(ParamLists[id.qparams]), sizes)
  IN  Proc(2, "stdcall", uses, ParamLists[id.params],
           LocalLines(sizes) \o SetLocals(sizes) \o Clobber(uses) \o Shapes(qargs)[id.shape])

QProc(id) ==
  LET uses == << << >>, <<"esi">> >>[id.quses]
      sizes == LocalLists[id.qlocals]
  IN  Proc(3, "stdcall", uses, ParamLists[id.qparams],
           LocalLines(sizes) \o SetLocals(sizes) \o Clobber(uses) \o <<Set("eax", 60), RET>>)

InvokeProgram(id) == [n \in MCProcNames |->
  CASE n = "main" -> MainProc(Len(ParamLists[id.params])) [] n = "P" -> PProc(id) [] OTHER -> QProc(id)]

\* INVOKE as the translator has it work: stdcall, at least one argument.
InvokeSources == {InvokeProgram(id) : id \in InvokeIds}
-----------------------------------------------------------------------------
(***************************************************************************)
(* Everything else the loop runs: calls by hand and through a word, jumps,  *)
(* ENTER, recursion until memory ends, and programs that fault              *)
(***************************************************************************)
CallLn(op, depth, target) == Ln(op, << >>, 0, target, depth)
JumpLn(op, line) == Ln(op, << >>, line, "", 0)
Pause == Set("eax", 60)
ExitLn == Ln("exit", << >>, 3, "", 0)
Main1(lines) == Proc(1, "stdcall", << >>, << >>, lines)
Callee(uses, params, lines) == Proc(2, "stdcall", uses, params, lines)

\* Procedures that take nothing from the stack but their return address.
Plain == <<
  Callee(<< >>, << >>, <<Pause, Do("builtin", <<Imm(7)>>)>>),
  Callee(<< >>, << >>, <<Ln("enter", <<Imm(2), Imm(0)>>, 0, "", 3), PushLn(Imm(1)), PopLn(Reg("edx")),
                         Ln("leave", << >>, 0, "", -3), RET>>),
  Callee(<<"ebx">>, << >>, <<Ln("enter", <<Imm(1), Imm(3)>>, 0, "", 5), Set("ebx", 8),
                             Ln("leave", << >>, 0, "", -5), RET>>),
  Callee(<< >>, << >>, <<JumpLn("jcc", 4), Pause, RET, PushLn(Imm(1)), PopLn(Reg("edx")), RET>>),
  Callee(<<"ebx">>, << >>, <<LOCALS(1), Do("mov", <<LocalVar(1), Imm(9)>>), PushLn(LocalVar(1)),
                             PopLn(Reg("ebx")), JumpLn("jcc", 3), RET>>) >>

\* Procedures with one argument, of each convention, and one that names what
\* its ret removes.
Taking == <<
  Callee(<< >>, <<1>>, <<PushLn(Param(1)), PopLn(Reg("ecx")), RET>>),
  [Callee(<<"esi">>, <<1>>, <<Do("sub", <<Param(1), Imm(1)>>), Set("esi", 1), RET>>)
     EXCEPT !.convention = "c", !.proto = "c"],
  Callee(<< >>, << >>, <<Pause, [st |-> "ret", args |-> <<1>>]>>) >>

CallsPlain == <<
  <<CallLn("call", 0, "P"), PushLn(Imm(4)), CallLn("call", 0, "P"), PopLn(Reg("ecx")), ExitLn>>,
  <<Set("ecx", MCAddress["P"]), Do("call_indirect", <<Reg("ecx")>>), JumpLn("jmp", 5), Pause, Pause>>,
  <<CallLn("call", 0, "P"), PushLn(Imm(2)), Ln("exitprocess", << >>, 0, "", 0)>> >>

\* With a C procedure the caller removes the argument.
CallsTaking(c) ==
  IF c THEN <<PushLn(Imm(4)), CallLn("call", 0, "P"),
              Ln("add", <<Reg("esp"), Imm(1)>>, 0, "", -1), ExitLn>>
  ELSE <<PushLn(Imm(4)), CallLn("call", -1, "P"), Pause, ExitLn>>

Recursive(uses) ==
  Callee(uses, <<1>>, <<LOCALS(1), Do("mov", <<LocalVar(1), Param(1)>>), Do("mov", <<Reg("eax"), Param(1)>>),
                        JumpLn("jcc", 7), Do("add", <<Reg("eax"), Imm(1)>>), INVOKE("P", <<Reg("eax")>>), RET>>)

Faulty == <<
  <<CallLn("call", 0, "Z")>>,
  <<Do("call_indirect", <<Imm(0)>>)>>,
  <<Do("call_indirect", <<Mem("ebp", -1)>>)>>,
  <<JumpLn("jmp", 0)>>,
  <<INVOKE("P", <<Imm(1)>>), Pause>>,
  <<INVOKE("P", << >>)>>,
  <<RET>>,
  <<Do("popad", << >>)>>,
  <<Do("mov", <<Mem("ebp", -1), Imm(1)>>)>> >>

\* P is unknown to main without a PROTO; nobody calls Q.
Program(main, p) == [n \in MCProcNames |->
  CASE n = "main" -> Main1(main) [] n = "P" -> p
    [] n = "Q" -> Proc(3, "stdcall", << >>, << >>, <<RET>>)]

\* P INVOKEs itself as long as there is memory.
RecursiveSources ==
  {Program(<<INVOKE("P", <<Imm(1)>>), Pause, ExitLn>>, Recursive(uses)) : uses \in {<< >>, <<"ebx">>}}

ControlSources ==
  {Program(CallsPlain[i], Plain[j]) : i \in 1..3, j \in 1..5}
  \union {Program(CallsTaking(Taking[j].convention = "c"), Taking[j]) : j \in 1..3}
  \union RecursiveSources
  \union {Program(Faulty[i], [Plain[1] EXCEPT !.proto = "none"]) : i \in 1..Len(Faulty)}

\* INVOKEs whose number of words is that of the parameters, or is not: parameters
\* of two words (QWORD, REAL8), one argument to a parameter, too many, too few.
Wide(params) ==
  Callee(<<"ebx">>, params, <<LOCALS(1), Do("mov", <<LocalVar(1), Imm(9)>>), Set("ebx", 8), RET>>)

WordSources ==
  {Program(<<PushLn(Reg("ebx")), INVOKE("P", Args(n, 10)), Pause, INVOKE("P", Args(n, 20)), Pause, ExitLn>>,
           Wide(params)) : n \in 1..3, params \in {<<1>>, <<1, 1>>, <<2>>, <<2, 1>>, <<1, 2>>}}

AllSources == InvokeSources \union ControlSources \union WordSources

\* INVOKE of a procedure without arguments, and of a C procedure.
NoArgSources == {Program(<<INVOKE("P", << >>), Pause, ExitLn>>, Plain[j]) : j \in 1..5}

CSources == {Program(<<PushLn(Reg("ebx")), INVOKE("P", <<Imm(7)>>), PopLn(Reg("ebx")), ExitLn>>,
                     [Taking[j] EXCEPT !.convention = "c", !.proto = "c"]) : j \in 1..2}
-----------------------------------------------------------------------------
(***************************************************************************)
(* The shapes of a program, computed from the first instruction of each     *)
(* procedure to its last: Disciplined has a witness                         *)
(***************************************************************************)
Summary(proc, body) ==
  LET rets == {i \in 1..Len(body) : body[i].op = "ret"}
      pops == IF rets = {} THEN 0 ELSE body[CHOOSE i \in rets : TRUE].n
  IN  [args |-> IF Total(proc.params) > pops THEN Total(proc.params) ELSE pops, pops |-> pops,
       saves |-> {"ebp"} \union {proc.uses[i] : i \in 1..Len(proc.uses)}]

\* What is left of a shape after a call, and where a line starts.
AfterCall(sum, s) ==
  [Resized(s, s.depth - sum.pops) EXCEPT
     !.slots = [i \in 1..(s.depth - sum.pops) |-> IF i <= s.depth - sum.args THEN s.slots[i] ELSE Unknown],
     !.regs = [r \in Regs |-> IF r \in sum.saves THEN s.regs[r] ELSE Unknown]]

AtLine(body, pc, s) ==
  IF pc <= Len(body) /\ StartsLine(body, pc)
  THEN [s EXCEPT !.regs = [r \in Regs |-> IF r = "ebp" THEN s.regs[r] ELSE Unknown]]
  ELSE [s EXCEPT !.regs = [r \in Regs |-> s.regs[r]]]

\* After an instruction that goes elsewhere the text goes on with the shape its
\* line began with.
Leaves == {"ret", "jmp", "exit", "exitprocess"}

NextShape(sums, body, at) ==
  LET pc == Len(at)
      inst == body[pc]
      first == CHOOSE k \in 1..pc : /\ body[k].line = inst.line
                                    /\ k = 1 \/ body[k - 1].line # inst.line
      s == CASE inst.op = "call" /\ inst.target \in Procs -> AfterCall(sums[inst.target], at[pc])
             [] inst.op \in Leaves -> at[first]
             [] OTHER -> After(at[pc], inst)
  IN  AtLine(body, pc + 1, [s EXCEPT !.live = pc < Len(body) \/ inst.op \notin Leaves])

\* Applied once to each procedure.
Each(F(_)) == LET found == <<F("main"), F("P"), F("Q")>>
              IN  [p \in MCProcNames |-> found[CASE p = "main" -> 1 [] p = "P" -> 2 [] OTHER -> 3]]

ShapesOf(src) ==
  LET low == Lower(src)
      sums == Each(LAMBDA p : Summary(src[p], low[p]))
      At(p) == FoldLeft(LAMBDA at, inst : Append(at, NextShape(sums, low[p], at)),
                        <<AtLine(low[p], 1, Entered)>>, low[p])
  IN  Each(LAMBDA p : [args |-> sums[p].args, pops |-> sums[p].pops, saves |-> sums[p].saves, at |-> At(p)])

\* The slots each procedure needs: its own depth, and at its calls the need of what
\* it calls, which the procedures of the text are too few to nest further.
NeedOf(src, shape) ==
  LET low == Lower(src)
      Deepest(p, need) ==
        Max({shape[p].at[pc].depth
             + (IF pc <= Len(low[p]) /\ low[p][pc].op = "call" /\ low[p][pc].target \in MCProcNames
                THEN 1 + need[low[p][pc].target] ELSE 0) :
               pc \in {k \in DOMAIN shape[p].at : shape[p].at[k].live}})
  IN  FoldLeft(LAMBDA need, i : Each(LAMBDA p : Deepest(p, need)), [p \in MCProcNames |-> 0], <<1, 2, 3>>)

\* The names of a program: the locals assigned so far in the text, the words of an
\* INVOKE pushed so far, and the fewest words any call passes.
NextNames(proc, body, at) ==
  LET pc == Len(at)
      inst == body[pc]
      invokes == inst.line > 0 /\ LineOf(proc, inst).st = "invoke"
  IN  [set |-> at[pc].set \union (IF Assigns(proc, inst) THEN {AssignedBy(proc, inst)} ELSE {}),
       passed |-> IF invokes /\ inst.op = "push" THEN at[pc].passed + 1 ELSE 0]

FewestWords(src, low, p) ==
  LET calls(q) == {pc \in 1..Len(low[q]) : low[q][pc].op = "call" /\ low[q][pc].target = p}
      words(q, pc) == LET line == LineOf(src[q], low[q][pc])
                      IN  IF line.st = "invoke" THEN Len(line.args) ELSE 0
      passed == UNION {{words(q, pc) : pc \in calls(q)} : q \in MCProcNames}
  IN  IF passed = {} THEN 0 ELSE Min(passed)

NamesOf(src) ==
  LET low == Lower(src)
      At(p) == FoldLeft(LAMBDA at, inst : Append(at, NextNames(src[p], low[p], at)),
                        <<[set |-> {}, passed |-> 0]>>, low[p])
      Of1(p, at) == [words |-> FewestWords(src, low, p),
                     set |-> [pc \in 1..Len(at) |-> at[pc].set],
                     passed |-> [pc \in 1..Len(at) |-> at[pc].passed]]
  IN  Each(LAMBDA p : Of1(p, At(p)))

\* Calls by hand of a procedure that jumps, ENTERs or takes an argument.
HandSources ==
  {Program(CallsPlain[i], Plain[j]) : i \in {1, 3}, j \in {1, 2, 4, 5}}
  \union {Program(CallsTaking(Taking[j].convention = "c"), Taking[j]) : j \in 1..3}

OrderlySources == InvokeSources \union HandSources

\* Programs whose names hold what they stand for: of the calls by hand not the one
\* whose procedure changes its parameter, of the INVOKEs those that pass no fewer
\* words than there are parameters.
NamedSources ==
  InvokeSources \union RecursiveSources
  \union (HandSources \ {Program(CallsTaking(TRUE), Taking[2])})
  \union {src \in WordSources : \A p \in MCProcNames : Total(src[p].params) <= NamesOf(src)[p].words}

\* The hypotheses of DisciplineProofs, RoomProofs and NamesProofs hold of these
\* programs.  It is a fact about the translator, the same in every run: the smallest
\* one, procs_noargs, evaluates it.
ASSUME ProgramsAreDisciplined ==
  Sources = NoArgSources =>
    /\ \A src \in OrderlySources : LET shape == ShapesOf(src)
                                   IN  Verified(src, shape) /\ Balanced(src, shape) /\ Roomy(src, shape, NeedOf(src, shape))
    /\ \A src \in RecursiveSources : Verified(src, ShapesOf(src)) /\ Balanced(src, ShapesOf(src))
    /\ \A src \in NamedSources : LET shape == ShapesOf(src)
                                 IN  Verified(src, shape) /\ KeepsNames(src, shape, NamesOf(src))
=============================================================================
