------------------------------ MODULE Strings ------------------------------
(***************************************************************************)
(* The string instructions of vm/machine.go: one element at ESI or EDI, or, *)
(* with a prefix, elements until the count in ECX, or what the comparison   *)
(* found, ends them.  A repetition is one instruction: an address outside   *)
(* memory ends the program with the elements before it moved.               *)
(***************************************************************************)
EXTENDS Arith

\* prefix is "rep", "repe", "repne" or, for none, "jmp".
String(prefix, op) == Instruction(op, << >>, prefix, 0)

StringOps == {"lods", "stos", "movs", "cmps", "scas"}

\* The registers an instruction finds its elements through; they advance with it.
Pointers(op) ==
  CASE op = "lods" -> {"s"}
    [] op \in {"stos", "scas"} -> {"i"}
    [] op \in {"movs", "cmps"} -> {"s", "i"}

\* Mutant of advanceStringRegs: the direction flag is not looked at.
advanceStringRegsUp(op, r) == [p \in Registers |-> IF p \in Pointers(op) THEN truncate(r[p] + 1) ELSE r[p]]

advanceStringRegs(op, r) ==
  LET step == IF df THEN -1 ELSE 1
  IN  [p \in Registers |-> IF p \in Pointers(op) THEN truncate(r[p] + step) ELSE r[p]]

\* z is in InString, its state "on", "over" or "fault".
Moved(op, z) ==
  LET at(p) == z.mem[z.regs[p]]
  IN  CASE op = "lods" -> [z EXCEPT !.regs["a"] = at("s")]
        [] op = "stos" -> [z EXCEPT !.mem[z.regs["i"]] = z.regs["a"]]
        [] op = "movs" -> [z EXCEPT !.mem[z.regs["i"]] = at("s")]
        [] op = "cmps" -> [z EXCEPT !.flags = sub(at("s"), at("i")).flags]
        [] op = "scas" -> [z EXCEPT !.flags = sub(z.regs["a"], at("i")).flags]

execStringOp(op, z) ==
  IF \E p \in Pointers(op) : z.regs[p] \notin Cells THEN [z EXCEPT !.state = "fault"]
  ELSE LET moved == Moved(op, z) IN [moved EXCEPT !.regs = advanceStringRegs(op, moved.regs)]

\* Mutant of Found: ZF ends repetitions that compare nothing too.
FoundByFlag(prefix, op, z) == z.flags.zf = (prefix = "repne")

\* A comparison ends a repetition that asks for one; rep alone asks for none.
Found(prefix, op, z) ==
  /\ op \in {"cmps", "scas"}
  /\ \/ prefix = "repe" /\ ~z.flags.zf
     \/ prefix = "repne" /\ z.flags.zf

\* One turn of the loop
Turn(prefix, op, z) ==
  LET once == execStringOp(op, z)
      counted == [once EXCEPT !.regs["c"] = @ - 1]
  IN  IF once.state = "fault" THEN once
      ELSE IF Found(prefix, op, counted) THEN [counted EXCEPT !.state = "over"] ELSE counted

InString == [regs : [Registers -> Words], mem : [Cells -> Words], flags : FlagSet,
             state : {"on", "over", "fault"}]

execRepeatString(prefix, op, z) ==
  LET run[y \in InString] ==
        IF y.regs["c"] = 0 \/ y.state # "on" THEN y ELSE run[Turn(prefix, op, y)]
  IN  run[z]

execString ==
  /\ Running /\ Inst.op \in StringOps
  /\ LET z == [regs |-> regs, mem |-> mem, flags |-> flags, state |-> "on"]
         end == IF Inst.cond = "jmp" THEN execStringOp(Inst.op, z)
                ELSE execRepeatString(Inst.cond, Inst.op, z)
     IN  /\ regs' = end.regs /\ mem' = end.mem /\ flags' = end.flags
         /\ IF end.state = "fault" THEN status' = "fault" /\ UNCHANGED <<task, pc>> ELSE Advance
         /\ UNCHANGED others

execXLAT ==
  /\ Fetched({"xlat"})
  /\ LET cell == regs["b"] + regs["a"]
     IN  IF cell \in Cells
         THEN assign(Reg("a"), mem[cell]) /\ flags' = flags /\ Advance /\ UNCHANGED others
         ELSE Fails

StringStep == execString \/ execXLAT
=============================================================================
