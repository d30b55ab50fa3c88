-------------------------------- MODULE Names --------------------------------
(***************************************************************************)
(* Which verified programs keep what their names stand for, again told from *)
(* their instructions: the words of a parameter are those the INVOKE pushed *)
(* and nobody writes to them, and the word of a local is written only by    *)
(* the lines that assign it.  To the shapes of Discipline comes, for each   *)
(* procedure, how many words every call passes at least, and before each    *)
(* instruction which locals are assigned and how many words of an INVOKE    *)
(* are pushed.  What it is worth is proved in NamesProofs.                  *)
(***************************************************************************)
EXTENDS Discipline

\* The slots an instruction writes to.
Written(s, inst) ==
  CASE inst.op \in {"mov", "add", "sub"} -> IF inst.a.kind = "mem" THEN {Slot(s, inst.a)} ELSE {}
    [] inst.op \in {"push", "enter", "invoke", "call"} -> {s.depth + 1}
    [] inst.op = "pushad" -> (s.depth + 1)..(s.depth + 8)
    [] OTHER -> {}

LineOf(proc, inst) == proc.lines[inst.line]

\* The instruction of a line that assigns a local, and the locals there are
\* such lines of.
Assigns(proc, inst) == /\ inst.line > 0 /\ LineOf(proc, inst).st = "inst" /\ LineOf(proc, inst).op = "mov"
                       /\ LineOf(proc, inst).args[1].kind = "local"

AssignedBy(proc, inst) == LineOf(proc, inst).args[1].val

Named(proc, body) == {AssignedBy(proc, body[pc]) : pc \in {k \in 1..Len(body) : Assigns(proc, body[k])}}

\* The slot of a local, below the base.
SlotOf(proc, s, k) == s.base - LocalDisp(proc, k)

\* An operand of which the shape tells that the machine finds what the source means.
Understood(proc, name, pc, s, op) ==
  /\ op.kind \in {"imm", "reg", "param", "local"}
  /\ op.kind = "reg" => op.base \in Regs \ {"esp"}
  /\ op.kind = "param" => /\ s.regs["ebp"] = Frame(1) /\ op.val \in 1..Len(proc.params)
                          /\ FirstWord(proc, op.val) \in 1..name.words
  /\ op.kind = "local" => s.base > 0 /\ s.regs["ebp"] = Frame(s.base) /\ op.val \in name.set[pc]

\* Nothing but the line that assigns a local writes to its slot, and nothing to a
\* word above the frame.
SparesNames(proc, body, s, inst) ==
  \A i \in Written(s, inst) :
    /\ i >= 1
    /\ s.base > 0 => \A k \in Named(proc, body) :
         i # SlotOf(proc, s, k) \/ (Assigns(proc, inst) /\ k = AssignedBy(proc, inst))

\* A line that assigns a local moves to it, through EBP, what it says.
AssignsAsSaid(proc, name, body, pc, s) ==
  LET inst == body[pc]
      args == LineOf(proc, inst).args
  IN  Assigns(proc, inst) =>
        /\ inst.op = "mov" /\ inst.a = Resolved(proc, args[1]) /\ inst.b = Resolved(proc, args[2])
        /\ s.base > 0 /\ s.regs["ebp"] = Frame(s.base)
        /\ Understood(proc, name, pc, s, args[2])

OpensInvoke(proc, body, pc) == StartsLine(body, pc) /\ LineOf(proc, body[pc]).st = "invoke"

\* The words of an INVOKE are pushed from the last to the first, one after the
\* other, and then comes the call.
PassesAsSaid(proc, name, body, pc, s) ==
  LET inst == body[pc]
      args == LineOf(proc, inst).args
      n == Len(args)
      j == name.passed[pc]
  IN  IF j > 0 \/ OpensInvoke(proc, body, pc)
      THEN /\ inst.line > 0 /\ LineOf(proc, inst).st = "invoke" /\ n \in Nat
           /\ j > 0 => ~StartsLine(body, pc)
           /\ \/ /\ inst.op = "push" /\ j < n
                 /\ inst.a = Resolved(proc, args[n - j])
                 /\ \A w \in 1..n : Understood(proc, name, pc, s, args[w])
                 /\ name.passed[pc + 1] = j + 1 /\ body[pc + 1].line = inst.line
              \/ inst.op = "call" /\ j = n /\ n > 0 /\ name.passed[pc + 1] = 0
              \/ inst.op = "invoke" /\ n = 0 /\ j = 0 /\ name.passed[pc + 1] = 0
      ELSE inst.op \notin {"jmp", "ret", "exit", "exitprocess"} => name.passed[pc + 1] = 0

\* A call leaves the locals above what the called procedure may write, and passes the
\* words it counts on.
CallsWith(names, shape, proc, body, name, pc, s) ==
  LET inst == body[pc]
  IN  inst.op = "call" /\ inst.target \in Procs =>
        /\ s.base > 0 => \A k \in Named(proc, body) : SlotOf(proc, s, k) <= s.depth - shape[inst.target].args
        /\ names[inst.target].words <= (IF name.passed[pc] > 0 THEN Len(LineOf(proc, inst).args) ELSE 0)

\* From an instruction to one that may come next.
GoesWith(proc, name, at, inst, pc, n) ==
  /\ at[pc].base > 0 => at[n].base = at[pc].base
  /\ \A k \in name.set[n] : k \in name.set[pc] \/ (Assigns(proc, inst) /\ k = AssignedBy(proc, inst))

KeepsAt(names, shape, src, p, body, pc) ==
  LET proc == src[p]
      name == names[p]
      at == shape[p].at
      inst == body[pc]
  IN  /\ SparesNames(proc, body, at[pc], inst)
      /\ AssignsAsSaid(proc, name, body, pc, at[pc])
      /\ PassesAsSaid(proc, name, body, pc, at[pc])
      /\ CallsWith(names, shape, proc, body, name, pc, at[pc])
      /\ inst.op \notin {"jmp", "ret", "exit", "exitprocess"} => GoesWith(proc, name, at, inst, pc, pc + 1)
      /\ inst.op \in {"jmp", "jcc"} /\ inst.n \in DOMAIN at =>
           GoesWith(proc, name, at, inst, pc, inst.n) /\ name.passed[inst.n] = 0
      /\ StartsLine(body, pc) /\ proc.params # << >> => at[pc].regs["ebp"] = Frame(1)

KeepsNames(src, shape, names) ==
  /\ names[Main].words = 0
  /\ \A p \in Procs :
       LET proc == src[p]
           body == Lower(src)[p]
           name == names[p]
       IN  /\ name.words \in Nat
           /\ name.set \in [1..(Len(body) + 1) -> SUBSET Named(proc, body)]
           /\ name.passed \in [1..(Len(body) + 1) -> Nat]
           /\ name.set[1] = {} /\ name.passed[1] = 0 /\ name.passed[Len(body) + 1] = 0
           /\ \A k \in Named(proc, body) : LocalDisp(proc, k) \in Int
           /\ \A i \in 1..Len(proc.params) : /\ FirstWord(proc, i) \in Nat \ {0}
                                             /\ ParamDisp(proc, i) = FirstWord(proc, i) + 1
           /\ \A pc \in 1..Len(body) : shape[p].at[pc].live => KeepsAt(names, shape, src, p, body, pc)

\* Programs of which some shapes tell it.
Faithful(src) == \E shape, names : Verified(src, shape) /\ KeepsNames(src, shape, names)
=============================================================================
