----------------------------- MODULE RoomProofs -----------------------------
(***************************************************************************)
(* Programs that are verified and Roomy never fault: every frame lies in    *)
(* memory with room below it for what its procedure and the procedures it   *)
(* calls push, so each instruction finds the memory it works on.            *)
(***************************************************************************)
EXTENDS DisciplineProofs

\* A frame of p with the shape s lies in memory, with the arguments it may write.
InMemory(p, sum, s, home) ==
  home \in Int /\ home <= MemTop /\ s.depth <= home /\ (p # Main => home + sum.args < MemTop)

LEMMA SlotsAre == \A a \in Int : 0 <= a /\ a < MemTop => a \in Slots
  BY ProgramAssumption DEF Slots

LEMMA HeldIn ==
  ASSUME NEW s, NEW home, NEW entry, NEW st, Agrees(s, home, entry, st),
         NEW sum, IsSummary(sum), NEW p, InMemory(p, sum, s, home), NEW op, Held(sum, p, s, op)
  PROVE  op.kind = "mem" => EffectiveAddress(st, op) \in Slots
  <1> SUFFICES ASSUME op.kind = "mem" PROVE EffectiveAddress(st, op) \in Slots
    OBVIOUS
  <1> DEFINE i == Slot(s, op)
  <1>0. home \in Int /\ s.depth \in Nat /\ sum.args \in Nat /\ MemTop \in Nat
    BY ProgramAssumption DEF InMemory, Agrees, IsShape, IsSummary
  <1>1. /\ op.base \in Regs /\ op.val \in Int /\ Of(s, op.base).of = "frame"
        /\ i \in 1..s.depth \/ (p # Main /\ -i \in 1..sum.args)
    BY DEF Held
  <1>2. Of(s, op.base) \in Knowledge /\ Denotes(Of(s, op.base), home, entry, st.regs[op.base])
    BY <1>0, <1>1, OfTold DEF Agrees, Told
  <1>3. st.regs[op.base] = home - Of(s, op.base).at /\ Of(s, op.base).at \in Nat
    BY <1>1, <1>2 DEF Denotes, Knowledge
  <1>4. EffectiveAddress(st, op) = home - i /\ i \in Int
    BY <1>0, <1>1, <1>3 DEF EffectiveAddress, Slot
  <1> HIDE DEF i
  <1>5. home <= MemTop /\ s.depth <= home /\ (p # Main => home + sum.args < MemTop)
    BY DEF InMemory
  <1>6. 0 <= home - i /\ home - i < MemTop
    <2>1. CASE i \in 1..s.depth
      BY <1>0, <1>5, <2>1
    <2>2. CASE p # Main /\ -i \in 1..sum.args
      BY <1>0, <1>4, <1>5, <2>2
    <2> QED BY <1>1, <2>1, <2>2
  <1> QED BY <1>0, <1>4, <1>6, SlotsAre

LEMMA HeldAssigns ==
  ASSUME NEW s, NEW home, NEW entry, NEW st, Agrees(s, home, entry, st), st.ok,
         NEW sum, IsSummary(sum), NEW p, InMemory(p, sum, s, home), NEW op, Held(sum, p, s, op),
         NEW known, Assignable(sum, s, op, known), NEW v
  PROVE  assign(st, op, v).ok
  <1>1. CASE op.kind = "reg"
    BY <1>1 DEF assign, Agrees, IsCpu
  <1>2. CASE op.kind = "mem"
    <2>1. EffectiveAddress(st, op) \in Slots /\ op.kind # "reg"
      BY <1>2, HeldIn
    <2> QED BY <1>2, <2>1 DEF assign, Agrees, IsCpu
  <1> QED BY <1>1, <1>2 DEF Assignable

LEMMA Pushes ==
  ASSUME NEW s, NEW home, NEW entry, NEW st, Agrees(s, home, entry, st), st.ok,
         home \in Int, home <= MemTop, s.depth + 1 <= home, NEW v
  PROVE  push32(st, v).ok
  <1>1. st.regs["esp"] = home - s.depth /\ s.depth \in Nat /\ MemTop \in Nat
    BY ProgramAssumption DEF Agrees, Told, RegsTold, IsShape
  <1>2. st.regs["esp"] - 1 \in Slots
    <2>1. 0 <= (home - s.depth) - 1 /\ (home - s.depth) - 1 < MemTop
      BY <1>1
    <2> QED BY <1>1, <2>1, SlotsAre
  <1> QED BY <1>2 DEF push32, Agrees, IsCpu

LEMMA PushesAll ==
  ASSUME NEW s, NEW home, NEW entry, NEW st, Agrees(s, home, entry, st), st.ok,
         home \in Int, home <= MemTop, NEW values, NEW n \in Nat, Len(values) = n, s.depth + n <= home
  PROVE  pushAll(st, values).ok
  <1>1. st.regs["esp"] = home - s.depth /\ s.depth \in Nat /\ MemTop \in Nat
    BY ProgramAssumption DEF Agrees, Told, RegsTold, IsShape
  <1> DEFINE esp == home - s.depth
  <1>2. esp \in Int /\ esp - n >= 0 /\ esp <= MemTop
    BY <1>1
  <1> HIDE DEF esp
  <1>3. ASSUME NEW a \in (esp - n)..(esp - 1) PROVE a \in Slots
    <2>1. a \in Int /\ 0 <= a /\ a < MemTop
      BY <1>1, <1>2
    <2> QED BY <2>1, SlotsAre
  <1>4. (st.regs["esp"] - Len(values))..(st.regs["esp"] - 1) \subseteq Slots
    BY <1>1, <1>3 DEF esp
  <1> DEFINE m == [a \in Slots |-> IF a \in (st.regs["esp"] - Len(values))..(st.regs["esp"] - 1)
                                   THEN values[st.regs["esp"] - a] ELSE st.memory[a]]
             e == st.regs["esp"] - Len(values)
  <1>5. pushAll(st, values) = [st EXCEPT !.memory = m, !.regs["esp"] = e]
    BY <1>4 DEF pushAll
  <1> HIDE DEF m, e
  <1> QED BY <1>5 DEF Agrees, IsCpu

LEMMA Pops ==
  ASSUME NEW s, NEW home, NEW entry, NEW st, Agrees(s, home, entry, st), st.ok,
         home \in Int, home <= MemTop, s.depth <= home, s.depth > 0
  PROVE  CanPop(st)
  <1>1. st.regs["esp"] = home - s.depth /\ s.depth \in Nat /\ MemTop \in Nat
    BY ProgramAssumption DEF Agrees, Told, RegsTold, IsShape
  <1>2. home - s.depth \in Slots
    <2>1. 0 <= home - s.depth /\ home - s.depth < MemTop
      BY <1>1
    <2> QED BY <1>1, <2>1, SlotsAre
  <1> QED BY <1>1, <1>2 DEF CanPop

LEMMA PopsTo ==
  ASSUME NEW st, IsCpu(st), CanPop(st), NEW op, op.kind = "reg"
  PROVE  PopTo(st, op).ok
  <1>1. pop32(st).ok
    BY DEF pop32, CanPop, IsCpu
  <1>2. IsCpu(pop32(st))
    BY Pop32Is
  <1> HIDE DEF pop32
  <1>3. assign(pop32(st), op, Popped(st)).ok
    BY <1>1, <1>2 DEF assign, IsCpu
  <1> QED BY <1>3 DEF PopTo

\* An instruction the verifier allows finds its memory.
LEMMA InstRuns ==
  ASSUME NEW s, NEW home, NEW entry, NEW st, Agrees(s, home, entry, st), st.ok,
         NEW sum, IsSummary(sum), NEW p, InMemory(p, sum, s, home),
         NEW inst, inst.op \in Staying, Allowed(sum, s, inst),
         inst.op \in {"mov", "add", "sub", "push"} => \A op \in {inst.a, inst.b} : Held(sum, p, s, op),
         NEW t, Fits(After(s, inst), t), t.depth <= home
  PROVE  Exec(st, inst).ok
  <1>0. /\ home \in Int /\ home <= MemTop /\ s.depth <= home /\ s.depth \in Nat /\ IsCpu(st) /\ IsShape(s)
        /\ MemTop \in Nat
    BY ProgramAssumption DEF InMemory, Agrees, IsShape
  <1>1. t.depth = After(s, inst).depth
    BY DEF Fits
  <1>2. inst.op \in {"mov", "add", "sub", "push"} => Readable(st, inst.a) /\ Readable(st, inst.b)
    BY HeldIn DEF Readable
  <1>3. CASE inst.op = "mov"
    <2>1. assign(st, inst.a, resolveValue(st, inst.b)).ok
      BY <1>3, HeldAssigns DEF Allowed
    <2> QED BY <1>2, <1>3, <2>1 DEF Exec, execMov, WithValue
  <1>4. CASE inst.op = "add"
    <2>1. assign(st, inst.a, resolveValue(st, inst.a) + 1 * resolveValue(st, inst.b)).ok
      BY <1>4, HeldAssigns DEF Allowed
    <2>2. Exec(st, inst) = execAddSub(st, inst.a, inst.b, 1)
      BY <1>4 DEF Exec
    <2> QED BY <1>2, <1>4, <2>1, <2>2 DEF execAddSub, WithValue
  <1>5. CASE inst.op = "sub"
    <2>1. assign(st, inst.a, resolveValue(st, inst.a) + (-1) * resolveValue(st, inst.b)).ok
      BY <1>5, HeldAssigns DEF Allowed
    <2>2. Exec(st, inst) = execAddSub(st, inst.a, inst.b, -1)
      BY <1>5 DEF Exec
    <2> QED BY <1>2, <1>5, <2>1, <2>2 DEF execAddSub, WithValue
  <1>6. CASE inst.op = "push"
    <2>1. After(s, inst).depth = s.depth + 1
      <3>1. After(s, inst) = WithTop(s, KnownOf(s, inst.a))
        BY <1>6 DEF After
      <3> QED BY <1>0, <3>1, ValueKnown, WithTopIs
    <2>2. push32(st, resolveValue(st, inst.a)).ok
      BY <1>0, <1>1, <2>1, Pushes
    <2>3. Exec(st, inst) = execPush(st, inst.a)
      BY <1>6 DEF Exec
    <2> QED BY <1>2, <1>6, <2>2, <2>3 DEF execPush, WithValue
  <1>7. CASE inst.op = "pop"
    <2>1. s.depth > 0 /\ inst.a.kind = "reg"
      BY <1>7 DEF Allowed
    <2>2. Exec(st, inst) = PopTo(st, inst.a)
      BY <1>7 DEF Exec
    <2> QED BY <1>0, <2>1, <2>2, Pops, PopsTo
  <1>8. CASE inst.op = "pushad"
    <2> DEFINE slots == [i \in 1..(s.depth + 8) |-> IF i <= s.depth THEN s.slots[i]
                                                    ELSE Of(s, PushadOrder[i - s.depth])]
               values == [i \in 1..8 |-> st.regs[PushadOrder[i]]]
               n == s.depth + 8
    <2>1. After(s, inst) = [s EXCEPT !.depth = n, !.slots = slots]
      BY <1>8 DEF After
    <2>2. After(s, inst).depth = n
      <3> HIDE DEF slots, n
      <3> QED BY <1>0, <2>1 DEF IsShape, ShapeFields
    <2>3. Len(values) = 8
      OBVIOUS
    <2>4. Exec(st, inst) = pushAll(st, values)
      BY <1>8 DEF Exec, execPushad
    <2> HIDE DEF values
    <2> QED BY <1>0, <1>1, <2>2, <2>3, <2>4, PushesAll
  <1>9. CASE inst.op = "popad"
    <2> DEFINE esp == st.regs["esp"]
               place == [r \in Regs |-> 8 - (CHOOSE i \in 1..8 : PushadOrder[i] = r)]
               new == [r \in Regs |-> IF r = "esp" THEN esp + 8 ELSE st.memory[esp + place[r]]]
    <2>1. s.depth >= 8 /\ Exec(st, inst) = execPopad(st)
      BY <1>9 DEF Allowed, Exec
    <2>2. esp = home - s.depth
      BY DEF Agrees, Told, RegsTold
    <2>3. ASSUME NEW a \in esp..(esp + 7) PROVE a \in Slots
      <3>1. a \in Int /\ 0 <= a /\ a < MemTop
        BY <1>0, <2>1, <2>2
      <3> QED BY <3>1, SlotsAre
    <2>4. execPopad(st) = [st EXCEPT !.regs = new]
      BY <2>3 DEF execPopad
    <2> HIDE DEF new
    <2> QED BY <1>0, <2>1, <2>4 DEF IsCpu
  <1>10. CASE inst.op = "enter"
    <2> DEFINE u == WithReg(WithTop(s, Of(s, "ebp")), "ebp", Frame(s.depth + 1))
               n == s.depth + 1 + inst.a.val
    <2>1. /\ inst.a.val \in Nat /\ inst.b.val = 0 /\ Exec(st, inst) = execEnter(st, inst.a.val, 0)
          /\ After(s, inst) = Resized(u, n)
      BY <1>10 DEF Exec, Allowed, After
    <2>2. IsShape(u)
      <3>1. Of(s, "ebp") \in Knowledge
        BY <1>0, OfTold DEF Agrees, Told, Regs
      <3>2. IsShape(WithTop(s, Of(s, "ebp")))
        BY <1>0, <3>1, WithTopIs
      <3>3. Frame(s.depth + 1) \in Knowledge
        BY <1>0, FrameKnown
      <3> DEFINE w == WithTop(s, Of(s, "ebp"))
                 k == Frame(s.depth + 1)
      <3> HIDE DEF w, k
      <3>4. u = [w EXCEPT !.regs["ebp"] = k]
        BY DEF WithReg, w, k
      <3>5. DOMAIN u = ShapeFields /\ u.depth = w.depth /\ u.base = w.base /\ u.slots = w.slots
            /\ u.regs = [w.regs EXCEPT !["ebp"] = k]
        <4> HIDE DEF u
        <4> QED BY <3>2, <3>4 DEF IsShape, ShapeFields, w
      <3>6. u.regs \in [Regs -> Knowledge]
        BY <3>2, <3>3, <3>5 DEF IsShape, w, k
      <3> HIDE DEF u
      <3> QED BY <3>2, <3>5, <3>6 DEF IsShape, w
    <2>3. n \in Nat /\ n >= s.depth + 1
      BY <1>0, <2>1
    <2>4. After(s, inst).depth = n
      <3> HIDE DEF u, n
      <3>1. n \in Nat
        BY <2>3
      <3>2. Resized(u, n).depth = n
        BY <2>2, <3>1, ResizedIs
      <3> QED BY <2>1, <3>2
    <2>5. s.depth + 1 <= home
      BY <1>0, <1>1, <2>1, <2>4
    <2> DEFINE values == <<st.regs["ebp"]>>
               v == pushAll(st, values)
    <2>6. Len(values) = 1
      OBVIOUS
    <2>7. v.ok
      <3> HIDE DEF values
      <3> QED BY <1>0, <2>5, <2>6, PushesAll
    <2>8. IsCpu(v)
      BY <1>0, PushAllIs
    <2>9. execEnter(st, inst.a.val, 0) =
            [v EXCEPT !.regs["ebp"] = st.regs["esp"] - 1, !.regs["esp"] = @ - inst.a.val]
      BY <2>7 DEF execEnter
    <2> HIDE DEF v, u, n
    <2> QED BY <2>1, <2>7, <2>8, <2>9 DEF IsCpu
  <1>11. CASE inst.op = "leave"
    <2> DEFINE k == Of(s, "ebp")
               u == [st EXCEPT !.regs["esp"] = st.regs["ebp"]]
    <2>1. k.of = "frame" /\ k.at \in 1..s.depth /\ Exec(st, inst) = PopTo(u, Reg("ebp"))
      BY <1>11 DEF Allowed, Exec, execLeave
    <2>2. Denotes(k, home, entry, st.regs["ebp"])
      BY <1>0, OfTold DEF Agrees, Told, Regs
    <2>3. u.regs["esp"] = home - k.at /\ u.ok /\ IsCpu(u)
      BY <1>0, <2>1, <2>2 DEF IsCpu, Denotes, Regs
    <2>4. home - k.at \in Slots
      <3>1. 0 <= home - k.at /\ home - k.at < MemTop
        BY <1>0, <2>1
      <3> QED BY <1>0, <2>1, <3>1, SlotsAre
    <2>5. CanPop(u)
      BY <2>3, <2>4 DEF CanPop
    <2>6. Reg("ebp").kind = "reg"
      BY DEF Reg
    <2> HIDE DEF u, k
    <2> QED BY <2>1, <2>3, <2>5, <2>6, PopsTo
  <1>12. CASE inst.op = "builtin"
    <2>1. Exec(st, inst) = assign(st, Reg("eax"), inst.a.val) /\ Reg("eax").kind = "reg"
      BY <1>12 DEF Exec, Reg
    <2> QED BY <1>0, <2>1 DEF assign, IsCpu
  <1>13. CASE inst.op = "invoke"
    <2>1. After(s, inst) = WithTop(s, Unknown) /\ Exec(st, inst) = push32(st, ReturnMark)
      BY <1>13 DEF After, Exec
    <2>2. After(s, inst).depth = s.depth + 1
      BY <1>0, <2>1, UnknownIs, WithTopIs
    <2> QED BY <1>0, <1>1, <2>1, <2>2, Pushes
  <1> QED BY <1>3, <1>4, <1>5, <1>6, <1>7, <1>8, <1>9, <1>10, <1>11, <1>12, <1>13 DEF Staying
-----------------------------------------------------------------------------
(***************************************************************************)
(* Runs                                                                     *)
(***************************************************************************)
\* Every frame has the room its procedure needs, the first all of memory.
Room(need) ==
  /\ frames # << >> => Home(1) = MemTop
  /\ \A f \in 1..Len(frames) : need[frames[f].proc] <= Home(f)

LEMMA RoomyIs ==
  ASSUME Typed, NEW shape, NEW need, Roomy(source, shape, need), NEW p \in Procs,
         NEW pc \in 1..(Len(code[p]) + 1), shape[p].at[pc].live
  PROVE  /\ need[p] \in Nat /\ shape[p].at[pc].depth <= need[p]
         /\ pc <= Len(code[p]) => Supplied(shape, need, p, pc, code[p])
  <1>1. code[p] = Lower(source)[p]
    BY DEF Typed
  <1> QED BY <1>1 DEF Roomy

LEMMA TopHasRoom ==
  ASSUME Typed, NEW shape, Verified(source, shape), Shaped(shape), NEW need, Roomy(source, shape, need),
         Room(need), frames # << >>
  PROVE  /\ InMemory(Current.proc, shape[Current.proc], shape[Current.proc].at[Current.pc], Home(Len(frames)))
         /\ need[Current.proc] \in Nat /\ need[Current.proc] <= Home(Len(frames))
         /\ Fetched => Supplied(shape, need, Current.proc, Current.pc, Body)
  <1>0. PICK L : L = Len(frames)
    OBVIOUS
  <1>1. /\ L \in 1..L /\ L \in Nat /\ Current.proc \in Procs /\ Current.pc \in 1..(Len(Body) + 1)
        /\ Current = frames[L] /\ Len(Body) \in Nat
    BY <1>0, LastFrame DEF Current
  <1>2. /\ shape[Current.proc].at[Current.pc].live /\ Home(L) \in Int
        /\ Promise(shape, L) = shape[Current.proc]
    BY <1>0, TopIs
  <1>3. /\ need[Current.proc] \in Nat /\ shape[Current.proc].at[Current.pc].depth <= need[Current.proc]
        /\ Current.pc <= Len(Body) => Supplied(shape, need, Current.proc, Current.pc, Body)
    BY <1>1, <1>2, RoomyIs DEF Body
  <1>4. need[Current.proc] <= Home(L) /\ Home(1) = MemTop /\ MemTop \in Nat
    BY <1>0, <1>1, ProgramAssumption DEF Room
  <1>5. shape[Current.proc].at[Current.pc].depth \in Nat /\ shape[Current.proc].args \in Nat
    BY <1>1, VerifiedIs DEF IsShape, IsSummary, Body
  <1>6. Home(L) <= MemTop
    <2>1. L > 1 => Home(L) \in Slots
      BY <1>0, <1>1 DEF Shaped, Placed
    <2> QED BY <1>1, <1>4, <2>1 DEF Slots
  <1>7. ASSUME Current.proc # Main PROVE Home(L) + shape[Current.proc].args < MemTop
    <2>1. 1 \in 1..L /\ 1 < L
      BY <1>0, <1>1, <1>7 DEF Shaped, Placed
    <2>2. Apart(shape, 1, L)
      BY <1>0, <1>1, <2>1 DEF Shaped
    <2> QED BY <1>2, <1>4, <2>2 DEF Apart
  <1>8. shape[Current.proc].at[Current.pc].depth <= Home(L)
    BY <1>2, <1>3, <1>4, <1>5
  <1> QED BY <1>0, <1>1, <1>2, <1>3, <1>4, <1>6, <1>7, <1>8 DEF InMemory, Fetched

\* What a verified program with room does next is no error.
LEMMA NoFault ==
  ASSUME Typed, PNext, NEW shape, Verified(source, shape), Shaped(shape), NEW need, Roomy(source, shape, need),
         Room(need)
  PROVE  status' # "error"
  <1>0. Step /\ status = "running"
    BY DEF PNext, Step
  <1>1. ASSUME NEW st, st.ok, NEW new, Commit(st, new) PROVE status' # "error"
    BY <1>0, <1>1 DEF Commit
  <1> DEFINE L == Len(frames)
             p == Current.proc
             sum == shape[p]
             s == sum.at[Current.pc]
             t == sum.at[Current.pc + 1]
  <1>2. ASSUME Fetched
        PROVE  /\ frames # << >> /\ L \in 1..L /\ At(shape, L) = s /\ s.live /\ Home(L) \in Int
               /\ Agrees(s, Home(L), acts[L].entry, Cpu) /\ Accepts(shape, p, Current.pc, Inst)
               /\ IsSummary(sum) /\ InMemory(p, sum, s, Home(L))
               /\ need[p] \in Nat /\ need[p] <= Home(L)
               /\ Supplied(shape, need, p, Current.pc, Body)
               /\ p \in Procs /\ Current.pc + 1 \in 1..(Len(Body) + 1) /\ Body = code[p]
    <2>1. frames # << >>
      BY <1>2 DEF Fetched
    <2>2. IsSummary(sum) /\ p \in Procs /\ Current.pc + 1 \in 1..(Len(Body) + 1) /\ Body = code[p]
      BY <1>2, <2>1, LastFrame, VerifiedIs DEF Fetched, Body
    <2> QED BY <1>2, <2>1, <2>2, TopIs, TopHasRoom
  <1>3. Cpu.ok /\ Cpu.regs = regs /\ Cpu.memory = memory
    BY DEF Cpu
  <1> HIDE DEF L, s, sum, t
  <1>4. ASSUME NEW op \in Staying, NEW st, Straight(op, st), st = Exec(Cpu, Inst) PROVE status' # "error"
    <2>1. Fetched /\ Inst.op = op /\ Commit(st, Advanced)
      BY <1>4 DEF Straight
    <2>2. Allowed(sum, s, Inst) /\ Fits(After(s, Inst), t)
      BY <1>2, <1>4, <2>1 DEF Accepts, Staying, sum, s, t
    <2>3. t.depth <= need[p] /\ IsShape(t)
      <3>1. t.live
        BY <2>2 DEF Fits
      <3> QED BY <1>2, <2>1, <3>1, RoomyIs, VerifiedIs DEF t, sum
    <2>4. t.depth <= Home(L)
      BY <1>2, <2>1, <2>3 DEF IsShape
    <2>5. Inst.op \in {"mov", "add", "sub", "push"} => \A o \in {Inst.a, Inst.b} : Held(sum, p, s, o)
      BY <1>2, <2>1 DEF Supplied, Inst, sum, s
    <2>6. Exec(Cpu, Inst).ok
      BY <1>2, <1>3, <1>4, <2>1, <2>2, <2>4, <2>5, InstRuns
    <2> QED BY <1>1, <1>4, <2>1, <2>6
  <1>5. CASE Mov
    BY <1>4, <1>5 DEF Mov, Straight, Exec, Staying
  <1>6. CASE Add
    BY <1>4, <1>6 DEF Add, Straight, Exec, Staying
  <1>7. CASE Sub
    BY <1>4, <1>7 DEF Sub, Straight, Exec, Staying
  <1>8. CASE Push
    BY <1>4, <1>8 DEF Push, Straight, Exec, Staying
  <1>9. CASE Pop
    BY <1>4, <1>9 DEF Pop, Straight, Exec, Staying
  <1>10. CASE Pushad
    BY <1>4, <1>10 DEF Pushad, Straight, Exec, Staying
  <1>11. CASE Popad
    BY <1>4, <1>11 DEF Popad, Straight, Exec, Staying
  <1>12. CASE Enter
    BY <1>4, <1>12 DEF Enter, Straight, Exec, Staying
  <1>13. CASE Leave
    BY <1>4, <1>13 DEF Leave, Straight, Exec, Staying
  <1>14. CASE Builtin
    <2>1. Straight("builtin", assign(Cpu, Reg("eax"), Inst.a.val))
      BY <1>14 DEF Builtin, Straight
    <2>2. Exec(Cpu, Inst) = assign(Cpu, Reg("eax"), Inst.a.val)
      BY <1>14 DEF Builtin, Exec
    <2> QED BY <1>4, <2>1, <2>2 DEF Staying
  <1>15. CASE Invoke
    <2>1. Inst.n = 0 /\ Inst.target \in Procs
      BY <1>2, <1>15 DEF Invoke, Supplied, Inst
    <2>2. Straight("invoke", push32(Cpu, ReturnMark))
      BY <1>15, <2>1 DEF Invoke, Straight
    <2>3. Exec(Cpu, Inst) = push32(Cpu, ReturnMark)
      BY <1>15 DEF Invoke, Exec
    <2> QED BY <1>4, <2>2, <2>3 DEF Staying
  <1>16. CASE Call
    <2>1. Fetched /\ Inst.target \in Procs /\ s.depth + 1 + need[Inst.target] <= need[p]
      BY <1>2, <1>16 DEF Call, Supplied, Inst, s, sum
    <2>2. need[Inst.target] \in Nat /\ s.depth \in Nat
      BY <1>2, <2>1 DEF Roomy, Agrees, IsShape
    <2>3. s.depth + 1 <= Home(L) /\ Home(L) \in Int /\ Home(L) <= MemTop
      BY <1>2, <2>1, <2>2 DEF InMemory
    <2>4. push32(Cpu, ReturnMark).ok
      BY <1>2, <1>3, <2>1, <2>3, Pushes
    <2>5. enterProcedure(Cpu, Inst.target)
      BY <1>16, <2>1 DEF Call
    <2> QED BY <1>1, <2>4, <2>5 DEF enterProcedure
  <1>17. CASE CallIndirect
    BY <1>2, <1>17 DEF CallIndirect, Accepts, Allowed
  <1>18. CASE Ret
    <2>1. Fetched /\ Inst.op = "ret" /\ Commit(execAddSub(pop32(Cpu), Reg("esp"), Imm(Inst.n), 1), Returned)
      BY <1>18 DEF Ret
    <2>2. p # Main /\ s.depth = 0
      BY <1>2, <2>1 DEF Supplied, Accepts, GivesBack, Inst, s, sum
    <2>3. Home(L) \in Slots
      BY <1>2, <2>1, <2>2 DEF Shaped, Placed, Current, L, p
    <2>4. CanPop(Cpu)
      <3>1. Cpu.regs["esp"] = Home(L) - 0 /\ Home(L) \in Int
        BY <1>2, <2>1, <2>2 DEF Agrees, Told, RegsTold
      <3> QED BY <1>3, <2>3, <3>1 DEF CanPop
    <2>5. pop32(Cpu).ok /\ IsCpu(pop32(Cpu))
      BY <2>4, CpuIs, Pop32Is DEF pop32, CanPop, IsCpu
    <2>6. Reg("esp").kind = "reg" /\ Imm(Inst.n).kind = "imm"
      BY DEF Reg, Imm
    <2> DEFINE u == pop32(Cpu)
               a == Reg("esp")
               b == Imm(Inst.n)
    <2> HIDE DEF u, a, b
    <2>7. execAddSub(u, a, b, 1).ok
      <3>1. Readable(u, a) /\ Readable(u, b)
        BY <2>6 DEF Readable, a, b
      <3>2. assign(u, a, resolveValue(u, a) + 1 * resolveValue(u, b)).ok
        BY <2>5, <2>6 DEF assign, IsCpu, u, a
      <3> QED BY <3>1, <3>2 DEF execAddSub, WithValue
    <2> QED BY <1>1, <2>1, <2>7 DEF u, a, b
  <1>19. CASE Jmp \/ Jcc
    <2>1. Fetched /\ Inst.op \in {"jmp", "jcc"} /\ (Jump \/ Commit(Cpu, Advanced))
      BY <1>19 DEF Jmp, Jcc
    <2>2. Inst.n \in 1..(Len(Body) + 1)
      BY <1>2, <2>1 DEF Supplied, Inst
    <2>3. \E new : Commit(Cpu, new)
      BY <2>1, <2>2 DEF Jump
    <2> QED BY <1>1, <1>3, <2>3
  <1>20. CASE Exit \/ ExitProcess \/ FallOff \/ Finish
    BY <1>0, <1>20 DEF Exit, ExitProcess, FallOff, Finish
  <1> QED BY <1>0, <1>5, <1>6, <1>7, <1>8, <1>9, <1>10, <1>11, <1>12, <1>13, <1>14, <1>15, <1>16, <1>17,
             <1>18, <1>19, <1>20 DEF Step

\* The stack of frames grows in calls only.
LEMMA OnlyCallsEnter ==
  ASSUME Typed, Step, Len(frames') = Len(frames) + 1
  PROVE  Call \/ CallIndirect
  <1>0. Len(frames) \in Nat
    BY DEF Typed, TypeOK
  <1>1. /\ frames' # frames
        /\ frames # << >> => frames' # Advanced /\ frames' # Returned /\ \A n : frames' # [frames EXCEPT ![Len(frames)].pc = n]
    <2>1. ASSUME frames # << >>
          PROVE  Len(Advanced) = Len(frames) /\ \A n : Len([frames EXCEPT ![Len(frames)].pc = n]) = Len(frames)
      BY DEF Advanced, Typed
    <2>2. ASSUME frames # << >> PROVE Len(Returned) = Len(frames) - 1
      <3>1. IsSequence(frames) /\ Len(frames) - 1 \in 0..Len(frames)
        BY <2>2, LastFrame, SeqIs DEF Typed
      <3> QED BY <3>1, FrontIs DEF Returned
    <2> QED BY <1>0, <2>1, <2>2
  <1>2. ASSUME NEW op, NEW st, Straight(op, st) PROVE FALSE
    BY <1>1, <1>2 DEF Straight, Commit, Error, Fetched
  <1>3. Fetched => ~Jump /\ \A st : ~Commit(st, Advanced) /\ ~Commit(st, Returned)
    BY <1>1 DEF Jump, Commit, Error, Fetched
  <1>4. ~Mov /\ ~Add /\ ~Sub /\ ~Push /\ ~Pop /\ ~Pushad /\ ~Popad /\ ~Enter /\ ~Leave
    BY <1>2 DEF Mov, Add, Sub, Push, Pop, Pushad, Popad, Enter, Leave
  <1>5. ~Builtin /\ ~Invoke /\ ~Ret /\ ~Jmp /\ ~Jcc
    BY <1>1, <1>3 DEF Builtin, Invoke, Ret, Jmp, Jcc, Error
  <1>6. ~Exit /\ ~ExitProcess
    <2>1. frames' # << >>
      BY <1>0
    <2> QED BY <2>1 DEF Exit, ExitProcess
  <1>7. ~FallOff /\ ~Finish
    BY <1>1 DEF FallOff, Finish
  <1> QED BY <1>4, <1>5, <1>6, <1>7 DEF Step

LEMMA RoomStep ==
  ASSUME Typed, PNext, NEW shape, Verified(source, shape), Shaped(shape), NEW need, Roomy(source, shape, need),
         Room(need), status' = "running"
  PROVE  Room(need)'
  <1>0. PICK L : L = Len(frames)
    OBVIOUS
  <1>1. /\ Follow /\ Step /\ StepShape /\ L \in Nat /\ Len(acts) = L
        /\ frames # << >> => L \in 1..L /\ L # 0 /\ 1 \in 1..L
    BY <1>0, StepHasShape, LastFrame DEF PNext, Typed, TypeOK
  <1>2. ASSUME NEW n \in Nat, n <= L, NEW m \in {n, n + 1}, Len(frames') = m,
               \A f \in 1..n : frames'[f].proc = frames[f].proc /\ acts'[f].entry = acts[f].entry,
               m = n + 1 => n > 0 /\ need[frames'[m].proc] <= Home(m)'
        PROVE  Room(need)'
    <2>1. \A f \in 1..n : f \in 1..L /\ Home(f)' = Home(f) /\ need[frames'[f].proc] <= Home(f)'
      BY <1>0, <1>1, <1>2 DEF Home, Room
    <2>2. \A f \in 1..m : f \in 1..n \/ (m = n + 1 /\ f = m)
      BY <1>2
    <2>3. \A f \in 1..Len(frames') : need[frames'[f].proc] <= Home(f)'
      BY <1>2, <2>1, <2>2
    <2>4. frames' # << >> => n > 0
      BY <1>2
    <2>5. n > 0 => Home(1)' = MemTop
      <3>1. n > 0 => 1 \in 1..n /\ frames # << >>
        BY <1>0, <1>1, <1>2
      <3> QED BY <2>1, <3>1 DEF Room
    <2> QED BY <2>3, <2>4, <2>5 DEF Room
  <1>3. CASE frames' = frames
    BY <1>0, <1>1, <1>2, <1>3, ActsStay
  <1>4. CASE \E n \in Int : Goes(n)
    <2>1. PICK n \in Int : Goes(n)
      BY <1>4
    <2>2. /\ Len(frames') = L /\ \A f \in 1..(L - 1) : frames'[f] = frames[f]
          /\ frames'[L].proc = frames[L].proc
      <3>1. /\ Len(frames') = L /\ \A f \in 1..(L - 1) : frames'[f] = frames[f]
            /\ frames'[L] = [proc |-> Current.proc, pc |-> n]
        BY <1>0, <2>1, GoesFrames
      <3> QED BY <1>0, <3>1 DEF Current
    <2>3. \A f \in 1..L : f = L \/ f \in 1..(L - 1)
      BY <1>1
    <2>4. \A f \in 1..L : frames'[f].proc = frames[f].proc /\ acts'[f].entry = acts[f].entry
      BY <1>0, <1>1, <2>2, <2>3, ActsStay
    <2> QED BY <1>1, <1>2, <2>2, <2>4
  <1>5. CASE \E p \in Procs : Enters(p)
    <2>1. PICK p \in Procs : Enters(p)
      BY <1>5
    <2>2. /\ Len(frames') = L + 1 /\ \A f \in 1..(L - 1) : frames'[f] = frames[f]
          /\ frames'[L].proc = frames[L].proc /\ frames'[L + 1].proc = p
          /\ Fetched /\ frames # << >>
      BY <1>0, <2>1, EntersFrames DEF Current, Enters, Fetched
    <2>3. \A f \in 1..L : f = L \/ f \in 1..(L - 1)
      BY <1>1
    <2>4. /\ \A f \in 1..L : frames'[f].proc = frames[f].proc /\ acts'[f].entry = acts[f].entry
          /\ acts'[L + 1].entry = regs
      BY <1>0, <1>1, <2>2, <2>3, ActsGrow DEF Activation
    <2>5. Call \/ CallIndirect
      BY <1>0, <1>1, <2>2, OnlyCallsEnter
    <2>6. /\ Accepts(shape, Current.proc, Current.pc, Inst) /\ Supplied(shape, need, Current.proc, Current.pc, Body)
          /\ Agrees(shape[Current.proc].at[Current.pc], Home(L), acts[L].entry, Cpu) /\ Home(L) \in Int
          /\ need[Current.proc] <= Home(L) /\ need[Current.proc] \in Nat
      BY <1>0, <2>2, TopIs, TopHasRoom
    <2>7. Inst.op = "call"
      BY <2>5, <2>6 DEF Call, CallIndirect, Accepts, Allowed
    <2>8. Inst.target = p
      <3>1. Call
        BY <2>5, <2>7 DEF CallIndirect
      <3>2. Inst.target \in Procs /\ enterProcedure(Cpu, Inst.target)
        BY <2>6, <2>7, <3>1 DEF Call, Supplied, Inst
      <3>3. frames' = Append(Advanced, [proc |-> Inst.target, pc |-> 1])
        <4>1. frames' # frames
          BY <1>0, <1>1, <2>2
        <4> QED BY <3>2, <4>1 DEF enterProcedure, Commit, Error
      <3>4. Enters(Inst.target)
        BY <2>2, <3>2, <3>3 DEF Enters
      <3>5. frames'[L + 1] = [proc |-> Inst.target, pc |-> 1]
        BY <1>0, <3>4, EntersFrames
      <3> QED BY <2>2, <3>5
    <2>9. shape[Current.proc].at[Current.pc].depth + 1 + need[p] <= need[Current.proc]
      BY <2>6, <2>7, <2>8 DEF Supplied, Inst
    <2>10. /\ shape[Current.proc].at[Current.pc].depth \in Nat /\ need[p] \in Nat
           /\ regs["esp"] = Home(L) - shape[Current.proc].at[Current.pc].depth
      BY <2>6 DEF Agrees, IsShape, Told, RegsTold, Cpu, Roomy
    <2>11. Home(L + 1)' = regs["esp"] - 1
      BY <2>4 DEF Home
    <2>12. need[p] <= Home(L + 1)'
      BY <2>6, <2>9, <2>10, <2>11
    <2> QED BY <1>1, <1>2, <2>2, <2>4, <2>12
  <1>6. CASE Leaves
    <2>1. Len(frames') = L - 1 /\ \A f \in 1..(L - 1) : frames'[f] = frames[f]
      BY <1>0, <1>6, LeavesFrames
    <2>2. L - 1 \in Nat /\ L - 1 < L
      BY <1>1, <1>6 DEF Leaves
    <2>3. \A f \in 1..(L - 1) : acts'[f] = acts[f]
      BY <1>0, <1>1, <2>1, <2>2, ActsShrink
    <2> QED BY <1>1, <1>2, <2>1, <2>2, <2>3
  <1>7. CASE Ends
    BY <1>7 DEF Ends, Room
  <1> QED BY <1>1, <1>3, <1>4, <1>5, <1>6, <1>7 DEF StepShape
-----------------------------------------------------------------------------
\* The inductive invariant.
Sheltered == /\ status = "running" => \A shape, need : Verified(source, shape) /\ Roomy(source, shape, need) => Room(need)
             /\ Contained(source) => status # "error"

LEMMA ShelteredInit == ASSUME PInit PROVE Sheltered
  <1>1. ASSUME NEW shape, NEW need, Roomy(source, shape, need) PROVE Room(need)
    <2>1. /\ frames = <<[proc |-> Main, pc |-> 1]>> /\ regs["esp"] = MemTop
          /\ acts = <<Activation([regs EXCEPT !["esp"] = MemTop + 1], << >>)>>
          /\ DOMAIN regs = Regs /\ "esp" \in Regs
      BY DEF PInit, Boot, Regs
    <2>2. Len(frames) = 1 /\ frames[1].proc = Main /\ acts[1].entry["esp"] = MemTop + 1
      BY <2>1 DEF Activation
    <2>3. Home(1) = MemTop /\ MemTop \in Nat
      BY <2>2, ProgramAssumption DEF Home
    <2>4. need[Main] <= MemTop
      BY <1>1 DEF Roomy
    <2> QED BY <2>2, <2>3, <2>4 DEF Room
  <1>2. status = "running"
    BY DEF PInit, Boot
  <1> QED BY <1>1, <1>2 DEF Sheltered

LEMMA ShelteredNext == ASSUME InShape, Sheltered, [PNext]_vars PROVE Sheltered'
  <1>1. CASE UNCHANGED vars
    <2>1. source' = source /\ frames' = frames /\ acts' = acts /\ status' = status
      BY <1>1 DEF vars, mvars
    <2> QED BY <2>1 DEF Sheltered, Room, Home
  <1>2. CASE PNext
    <2>1. source' = source /\ status = "running" /\ Typed
      BY <1>2 DEF InShape, PNext, Follow, Step
    <2>2. ASSUME NEW shape, NEW need, Verified(source, shape), Roomy(source, shape, need)
          PROVE  status' # "error" /\ (status' = "running" => Room(need)')
      <3>1. Shaped(shape) /\ Room(need)
        BY <2>1, <2>2 DEF InShape, Ordered, Sheltered
      <3> QED BY <1>2, <2>1, <2>2, <3>1, NoFault, RoomStep
    <2>3. Contained(source) => status' # "error"
      BY <2>2 DEF Contained
    <2>4. Contained(source)' <=> Contained(source)
      BY <2>1 DEF Contained
    <2>5. \A shape, need : /\ Verified(source, shape)' <=> Verified(source, shape)
                           /\ Roomy(source, shape, need)' <=> Roomy(source, shape, need)
      BY <2>1
    <2>6. ASSUME status' = "running", NEW shape, NEW need, (Verified(source, shape) /\ Roomy(source, shape, need))'
          PROVE  Room(need)'
      BY <2>2, <2>5, <2>6
    <2> QED BY <2>3, <2>4, <2>6 DEF Sheltered
  <1> QED BY <1>1, <1>2

\* A program whose shapes are verified and that has room never faults: not for the
\* stack, nor for anything an instruction of it reads, writes, calls or jumps to (Run).
THEOREM ContainedNeverFault == Spec => [](Contained(source) => status # "error")
  <1>1. PInit => InShape /\ Sheltered
    BY InShapeInit, ShelteredInit
  <1>2. InShape /\ Sheltered /\ [PNext]_vars => (InShape /\ Sheltered)'
    BY InShapeNext, ShelteredNext
  <1>3. InShape /\ Sheltered => (Contained(source) => status # "error")
    BY DEF Sheltered
  <1> QED BY <1>1, <1>2, <1>3, PTL DEF Spec

\* Orderly programs never fault, when each is found to be verified and to have room.
THEOREM OrderlyNeverFault ==
  ASSUME \A src \in Orderly : Contained(src)
  PROVE  Spec => []NeverFaults
  <1>1. (Contained(source) => status # "error") => NeverFaults
    BY DEF NeverFaults
  <1> QED BY <1>1, ContainedNeverFault, PTL
=============================================================================
