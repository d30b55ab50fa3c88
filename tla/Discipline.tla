----------------------------- MODULE Discipline -----------------------------
(***************************************************************************)
(* Which translated programs keep their stack in order, told from their     *)
(* instructions without running them.  Before each instruction of a         *)
(* procedure a shape says what is known of the slots pushed since it was    *)
(* called and of the registers: nothing, what the caller had in a register, *)
(* or the address of a slot of the frame.  A program is verified when the   *)
(* shapes agree from each instruction to those that may come next.  What    *)
(* that is worth - return addresses, saved registers and the stack pointer  *)
(* are right in every run of a verified program, however deep its calls -   *)
(* is proved in DisciplineProofs, and in RoomProofs that it never faults    *)
(* when memory has room; that translated programs are verified is evaluated *)
(* in MCProcs.                                                              *)
(***************************************************************************)
EXTENDS Procs

\* What may be known of a word.  A frame's addresses count down from that of
\* its return address.
Unknown == [of |-> "any", reg |-> "esp", at |-> 0]
Caller(r) == [of |-> "caller", reg |-> r, at |-> 0]
Frame(k) == [of |-> "frame", reg |-> "esp", at |-> k]

Knowledge == [of : {"any", "caller", "frame"}, reg : Regs, at : Nat]

\* depth slots are pushed; base is the depth at which the prologue set EBP, 0
\* before; a shape that is not live is one no run comes to.
ShapeFields == {"live", "depth", "base", "slots", "regs"}

IsShape(s) == /\ DOMAIN s = ShapeFields
              /\ s.depth \in Nat /\ s.base \in Nat
              /\ s.slots \in [1..s.depth -> Knowledge]
              /\ s.regs \in [Regs -> Knowledge]

Entered == [live |-> TRUE, depth |-> 0, slots |-> << >>, base |-> 0,
            regs |-> [r \in Regs |-> Caller(r)]]

\* What a procedure takes from its caller and gives back: the words of the
\* caller it may write, those its ret removes, the registers it restores.
IsSummary(sum) == sum.args \in Nat /\ sum.pops \in Nat /\ sum.saves \subseteq Regs \ {"esp"}
-----------------------------------------------------------------------------
(***************************************************************************)
(* What an instruction makes of a shape                                     *)
(***************************************************************************)
Of(s, r) == IF r = "esp" THEN Frame(s.depth) ELSE s.regs[r]

KnownOf(s, op) == IF op.kind = "reg" /\ op.base \in Regs THEN Of(s, op.base) ELSE Unknown

\* The stack with n slots, those that are new unknown.
Resized(s, n) == [s EXCEPT !.depth = n,
                           !.slots = [i \in 1..n |-> IF i <= s.depth THEN s.slots[i] ELSE Unknown]]

WithTop(s, known) == [s EXCEPT !.depth = @ + 1,
                               !.slots = [i \in 1..(s.depth + 1) |-> IF i <= s.depth THEN s.slots[i]
                                                                     ELSE known]]

WithReg(s, r, known) == IF r = "esp" THEN Resized(s, known.at) ELSE [s EXCEPT !.regs[r] = known]

PoppedTo(s, r) == WithReg(Resized(s, s.depth - 1), r, s.slots[s.depth])

Assigned(s, op, known) == IF op.kind = "reg" THEN WithReg(s, op.base, known) ELSE s

\* An operand may be assigned to: a register, ESP only with an address of the
\* frame; of memory, a slot of the frame of which nothing is known, or an argument.
Slot(s, op) == Of(s, op.base).at - op.val

Assignable(sum, s, op, known) ==
  /\ op.kind \in {"reg", "mem"} /\ op.base \in Regs
  /\ op.kind = "reg" /\ op.base = "esp" => known.of = "frame"
  /\ op.kind = "mem" => /\ op.val \in Int
                        /\ Of(s, op.base).of = "frame"
                        /\ \/ Slot(s, op) \in 1..s.depth /\ s.slots[Slot(s, op)] = Unknown
                           \/ -Slot(s, op) \in 1..sum.args

\* An address of the frame and a number make an address of the frame.
Sum(s, inst, sign) ==
  LET known == KnownOf(s, inst.a)
  IN  IF /\ known.of = "frame" /\ inst.b.kind = "imm" /\ inst.b.val \in Int
         /\ known.at >= sign * inst.b.val
      THEN Frame(known.at - sign * inst.b.val)
      ELSE Unknown

\* The shape after an instruction that stays in its procedure.
After(s, inst) ==
  CASE inst.op = "mov" ->
         LET t == Assigned(s, inst.a, KnownOf(s, inst.b))
         IN  IF inst.a = Reg("ebp") /\ inst.b = Reg("esp") THEN [t EXCEPT !.base = s.depth] ELSE t
    [] inst.op = "add" -> Assigned(s, inst.a, Sum(s, inst, 1))
    [] inst.op = "sub" -> Assigned(s, inst.a, Sum(s, inst, -1))
    [] inst.op = "push" -> WithTop(s, KnownOf(s, inst.a))
    [] inst.op = "pop" -> PoppedTo(s, inst.a.base)
    [] inst.op = "pushad" ->
         [s EXCEPT !.depth = @ + 8,
                   !.slots = [i \in 1..(s.depth + 8) |-> IF i <= s.depth THEN s.slots[i]
                                                         ELSE Of(s, PushadOrder[i - s.depth])]]
    [] inst.op = "popad" ->
         [Resized(s, s.depth - 8) EXCEPT
            !.regs = [r \in Regs |-> IF r = "esp" THEN Unknown
                                     ELSE s.slots[s.depth - 8 + (CHOOSE i \in 1..8 : PushadOrder[i] = r)]]]
    [] inst.op = "enter" ->
         Resized(WithReg(WithTop(s, Of(s, "ebp")), "ebp", Frame(s.depth + 1)), s.depth + 1 + inst.a.val)
    [] inst.op = "leave" -> PoppedTo(Resized(s, Of(s, "ebp").at), "ebp")
    [] inst.op = "builtin" -> WithReg(s, "eax", Unknown)
    [] inst.op = "invoke" -> WithTop(s, Unknown)
    [] OTHER -> s

\* What must hold before it.
Allowed(sum, s, inst) ==
  CASE inst.op = "mov" -> Assignable(sum, s, inst.a, KnownOf(s, inst.b))
    [] inst.op = "add" -> Assignable(sum, s, inst.a, Sum(s, inst, 1))
    [] inst.op = "sub" -> Assignable(sum, s, inst.a, Sum(s, inst, -1))
    [] inst.op = "pop" -> s.depth > 0 /\ inst.a.kind = "reg" /\ inst.a.base \in Regs \ {"esp"}
    [] inst.op = "popad" -> s.depth >= 8
    [] inst.op = "enter" -> inst.a.val \in Nat /\ inst.b.val = 0
    [] inst.op = "leave" -> Of(s, "ebp").of = "frame" /\ Of(s, "ebp").at \in 1..s.depth
    [] inst.op \in {"push", "pushad", "builtin", "invoke"} -> TRUE
    [] OTHER -> FALSE
-----------------------------------------------------------------------------
(***************************************************************************)
(* Verified programs                                                        *)
(***************************************************************************)
\* What s says, t may say or leave open.
Fits(s, t) ==
  /\ t.live /\ t.depth = s.depth
  /\ t.base \in {0, s.base}
  /\ \A i \in 1..t.depth : t.slots[i] \in {Unknown, s.slots[i]}
  /\ \A r \in Regs \ {"esp"} : t.regs[r] \in {Unknown, s.regs[r]}

\* After a call the words removed are gone, those the callee may write unknown,
\* and so are the registers it does not restore.
FitsAfterCall(sum, s, t) ==
  /\ t.live /\ sum.args <= s.depth /\ t.depth = s.depth - sum.pops
  /\ t.base \in {0, s.base}
  /\ \A i \in 1..t.depth : \/ t.slots[i] = Unknown
                           \/ t.slots[i] = s.slots[i] /\ i <= s.depth - sum.args
  /\ \A r \in Regs \ {"esp"} : \/ t.regs[r] = Unknown
                               \/ t.regs[r] = s.regs[r] /\ r \in sum.saves

GivesBack(sum, s) == s.depth = 0 /\ \A r \in sum.saves : s.regs[r] = Caller(r)

\* One instruction of a procedure, where the shapes say it may be reached.
\* Calls through a word, and of the entry procedure, are not verified.
Accepts(shape, p, pc, inst) ==
  LET sum == shape[p]
      s == sum.at[pc]
  IN  CASE inst.op = "call" ->
             inst.target \in Procs =>
               inst.target # Main /\ FitsAfterCall(shape[inst.target], s, sum.at[pc + 1])
        [] inst.op = "ret" -> GivesBack(sum, s) /\ inst.n = sum.pops
        [] inst.op \in {"jmp", "jcc"} ->
             /\ inst.n \in DOMAIN sum.at => Fits(s, sum.at[inst.n])
             /\ inst.op = "jcc" => Fits(s, sum.at[pc + 1])
        [] inst.op \in {"exit", "exitprocess"} -> TRUE
        [] OTHER -> Allowed(sum, s, inst) /\ Fits(After(s, inst), sum.at[pc + 1])

\* Each procedure restores the registers of its USES list and EBP, and removes the
\* words it is said to.
KeepsPromise(src, p, sum, body) ==
  /\ "ebp" \in sum.saves /\ \A i \in 1..Len(src[p].uses) : src[p].uses[i] \in sum.saves
  /\ \A pc \in 1..Len(body) : body[pc].op = "ret" => body[pc].n = Removed(src[p], body[pc].n)

Verified(src, shape) ==
  \A p \in Procs :
    LET body == Lower(src)[p]
        sum == shape[p]
    IN  /\ IsSummary(sum) /\ DOMAIN sum.at = 1..(Len(body) + 1)
        /\ \A pc \in DOMAIN sum.at : IsShape(sum.at[pc])
        /\ Fits(Entered, sum.at[1])
        /\ \A pc \in 1..Len(body) : sum.at[pc].live => Accepts(shape, p, pc, body[pc])
        /\ p # Main /\ sum.at[Len(body) + 1].live =>
             GivesBack(sum, sum.at[Len(body) + 1]) /\ sum.pops = 0
        /\ KeepsPromise(src, p, sum, body)

\* Where a line starts, the depth is the one its text says.
DepthOfLine(src, proc, line, s) ==
  /\ {LocalSlots(proc), Pushed(proc, line), Left(src, proc, line)} \subseteq Int
  /\ s.depth = (IF HasFrame(proc) THEN s.base + Len(proc.uses) + LocalSlots(proc) ELSE 0)
               + Pushed(proc, line) + Left(src, proc, line)

StartsLine(body, pc) == body[pc].line > 0 /\ (pc = 1 \/ body[pc - 1].line # body[pc].line)

Balanced(src, shape) ==
  \A p \in Procs :
    LET body == Lower(src)[p]
    IN  \A pc \in 1..Len(body) :
          StartsLine(body, pc) /\ InBody(src[p], body[pc].line) /\ shape[p].at[pc].live =>
            /\ HasFrame(src[p]) => shape[p].at[pc].base > 0
            /\ DepthOfLine(src, src[p], body[pc].line, shape[p].at[pc])

-----------------------------------------------------------------------------
(***************************************************************************)
(* Programs that cannot fault                                               *)
(***************************************************************************)
\* An operand is no word of memory, or a slot of the frame or an argument.
Held(sum, p, s, op) ==
  op.kind = "mem" =>
    /\ op.base \in Regs /\ op.val \in Int /\ Of(s, op.base).of = "frame"
    /\ \/ Slot(s, op) \in 1..s.depth
       \/ p # Main /\ -Slot(s, op) \in 1..sum.args

\* An instruction has what it works on: memory, a procedure to call with room for
\* what that pushes, a return address to drop, a place to jump to.
Supplied(shape, need, p, pc, body) ==
  LET inst == body[pc]
      s == shape[p].at[pc]
  IN  CASE inst.op \in {"mov", "add", "sub", "push"} ->
             \A op \in {inst.a, inst.b} : Held(shape[p], p, s, op)
        [] inst.op = "call" -> inst.target \in Procs /\ s.depth + 1 + need[inst.target] <= need[p]
        [] inst.op = "invoke" -> inst.n = 0 /\ inst.target \in Procs
        [] inst.op = "ret" -> p # Main
        [] inst.op \in {"jmp", "jcc"} -> inst.n \in 1..(Len(body) + 1)
        [] OTHER -> TRUE

\* need counts the slots a procedure pushes below its return address, those of the
\* calls it makes included: procedures that call one another have no such number.
\* Memory has room for those of the entry procedure.
Roomy(src, shape, need) ==
  /\ need \in [Procs -> Nat] /\ need[Main] <= MemTop
  /\ \A p \in Procs :
       LET body == Lower(src)[p]
       IN  \A pc \in 1..(Len(body) + 1) : shape[p].at[pc].live =>
             /\ shape[p].at[pc].depth <= need[p]
             /\ pc <= Len(body) => Supplied(shape, need, p, pc, body)

Contained(src) == \E shape, need : Verified(src, shape) /\ Roomy(src, shape, need)
-----------------------------------------------------------------------------
\* Programs that some shapes verify, and whose lines start at their depth.
Disciplined(src) == \E shape : Verified(src, shape)
DisciplinedLines(src) == \E shape : Verified(src, shape) /\ Balanced(src, shape)
=============================================================================
