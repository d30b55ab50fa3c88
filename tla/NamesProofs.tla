----------------------------- MODULE NamesProofs -----------------------------
(***************************************************************************)
(* Programs that Names accepts keep what names stand for: in every frame,   *)
(* at every depth of calls, a parameter is the words the INVOKE pushed and  *)
(* a local the value its lines gave it.                                     *)
(***************************************************************************)
EXTENDS DisciplineProofs, Names

(***************************************************************************)
(* One instruction: it writes where Written says                            *)
(***************************************************************************)
LEMMA SlotAddress ==
  ASSUME NEW s, NEW home \in Int, NEW entry, NEW st, Agrees(s, home, entry, st), NEW op,
         op.base \in Regs, op.val \in Int, Of(s, op.base).of = "frame"
  PROVE  EffectiveAddress(st, op) = home - Slot(s, op) /\ Slot(s, op) \in Int
  <1>1. Of(s, op.base) \in Knowledge /\ Denotes(Of(s, op.base), home, entry, st.regs[op.base])
    BY OfTold DEF Agrees, Told
  <1>2. st.regs[op.base] = home - Of(s, op.base).at /\ Of(s, op.base).at \in Nat
    BY <1>1 DEF Denotes, Knowledge
  <1> QED BY <1>2 DEF EffectiveAddress, Slot

LEMMA AssignWrites ==
  ASSUME NEW s, NEW home \in Int, NEW entry, NEW st, Agrees(s, home, entry, st), NEW sum, NEW op, NEW known, NEW v,
         Assignable(sum, s, op, known), assign(st, op, v).ok,
         NEW a \in Slots, op.kind = "mem" => a # home - Slot(s, op)
  PROVE  assign(st, op, v).memory[a] = st.memory[a]
  <1>1. assign(st, op, v) # Failed(st) /\ st.ok
    BY FailedIs DEF assign, Agrees
  <1>2. CASE op.kind = "reg"
    <2>1. assign(st, op, v) = [st EXCEPT !.regs[op.base] = v]
      BY <1>1, <1>2 DEF assign
    <2> QED BY <2>1 DEF Agrees, IsCpu
  <1>3. CASE op.kind = "mem"
    <2>1. EffectiveAddress(st, op) = home - Slot(s, op)
      BY <1>3, SlotAddress DEF Assignable
    <2>2. assign(st, op, v) = [st EXCEPT !.memory[EffectiveAddress(st, op)] = v]
      BY <1>1, <1>3 DEF assign
    <2> QED BY <1>3, <2>1, <2>2 DEF Agrees, IsCpu
  <1> QED BY <1>2, <1>3 DEF Assignable

LEMMA PushWrites ==
  ASSUME NEW s, NEW home \in Int, NEW entry, NEW st, Agrees(s, home, entry, st), NEW v, push32(st, v).ok,
         NEW a \in Slots
  PROVE  /\ a # home - (s.depth + 1) => push32(st, v).memory[a] = st.memory[a]
         /\ home - (s.depth + 1) \in Slots /\ push32(st, v).memory[home - (s.depth + 1)] = v
         /\ push32(st, v).regs["esp"] = home - (s.depth + 1)
         /\ \A r \in Regs \ {"esp"} : push32(st, v).regs[r] = st.regs[r]
  <1> DEFINE top == st.regs["esp"] - 1
  <1>1. top = home - (s.depth + 1)
    <2>1. s.depth \in Nat /\ st.regs["esp"] = home - s.depth
      BY DEF Agrees, Told, RegsTold, IsShape
    <2> QED BY <2>1
  <1>2. top \in Slots /\ push32(st, v) = [st EXCEPT !.memory[top] = v, !.regs["esp"] = top]
    BY FailedIs DEF Agrees, push32
  <1> HIDE DEF top
  <1>3. /\ push32(st, v).memory = [st.memory EXCEPT ![top] = v] /\ DOMAIN st.memory = Slots
        /\ push32(st, v).regs = [st.regs EXCEPT !["esp"] = top] /\ DOMAIN st.regs = Regs /\ "esp" \in Regs
    BY <1>2 DEF Agrees, IsCpu, Regs
  <1> QED BY <1>1, <1>2, <1>3

LEMMA WritesOnly ==
  ASSUME NEW s, NEW home \in Int, NEW entry, NEW st, Agrees(s, home, entry, st), NEW sum,
         NEW inst, inst.op \in Staying, Allowed(sum, s, inst), Exec(st, inst).ok,
         NEW a \in Slots, \A i \in Written(s, inst) : a # home - i
  PROVE  Exec(st, inst).memory[a] = st.memory[a]
  <1>0. s.depth \in Nat /\ st.regs["esp"] = home - s.depth /\ IsShape(s) /\ IsCpu(st)
    BY DEF Agrees, Told, RegsTold, IsShape
  <1>1. CASE inst.op \in {"mov", "add", "sub"}
    <2> DEFINE v == CASE inst.op = "mov" -> resolveValue(st, inst.b)
                      [] inst.op = "add" -> resolveValue(st, inst.a) + 1 * resolveValue(st, inst.b)
                      [] OTHER -> resolveValue(st, inst.a) + (-1) * resolveValue(st, inst.b)
    <2>1. Exec(st, inst) = assign(st, inst.a, v)
      <3>1. CASE inst.op = "mov"
        BY <3>1, FailedIs DEF Exec, execMov, WithValue, Agrees
      <3>2. CASE inst.op = "add"
        <4>1. Exec(st, inst) = execAddSub(st, inst.a, inst.b, 1)
          BY <3>2 DEF Exec
        <4> QED BY <3>2, <4>1, FailedIs DEF execAddSub, WithValue, Agrees
      <3>3. CASE inst.op = "sub"
        <4>1. Exec(st, inst) = execAddSub(st, inst.a, inst.b, -1)
          BY <3>3 DEF Exec
        <4> QED BY <3>3, <4>1, FailedIs DEF execAddSub, WithValue, Agrees
      <3> QED BY <1>1, <3>1, <3>2, <3>3
    <2>2. \E known : Assignable(sum, s, inst.a, known)
      BY <1>1 DEF Allowed
    <2>3. inst.a.kind = "mem" => a # home - Slot(s, inst.a)
      BY <1>1 DEF Written
    <2> HIDE DEF v
    <2> QED BY <2>1, <2>2, <2>3, AssignWrites
  <1>2. CASE inst.op \in {"push", "invoke"}
    <2>1. a # home - (s.depth + 1)
      BY <1>2 DEF Written
    <2>2. \E v : Exec(st, inst) = push32(st, v)
      <3>1. CASE inst.op = "push"
        BY <3>1, FailedIs DEF Exec, execPush, WithValue, Agrees
      <3>2. CASE inst.op = "invoke"
        BY <3>2 DEF Exec
      <3> QED BY <1>2, <3>1, <3>2
    <2> QED BY <2>1, <2>2, PushWrites
  <1>3. CASE inst.op = "pop"
    <2>1. Exec(st, inst) = PopTo(st, inst.a) /\ s.depth > 0 /\ inst.a.kind = "reg" /\ inst.a.base \in Regs \ {"esp"}
      BY <1>3 DEF Exec, Allowed
    <2> QED BY <2>1, PopToSound
  <1>4. CASE inst.op = "popad"
    <2>1. Exec(st, inst) = execPopad(st) /\ s.depth >= 8
      BY <1>4 DEF Exec, Allowed
    <2> QED BY <1>4, <2>1, PopadSound
  <1>5. CASE inst.op = "leave"
    <2>1. Exec(st, inst) = execLeave(st) /\ Of(s, "ebp").of = "frame" /\ Of(s, "ebp").at \in 1..s.depth
      BY <1>5 DEF Exec, Allowed
    <2> QED BY <2>1, LeaveSound
  <1>6. CASE inst.op = "builtin"
    <2>1. Exec(st, inst) = assign(st, Reg("eax"), inst.a.val) /\ Reg("eax").kind = "reg"
      BY <1>6 DEF Exec, Reg
    <2>2. DOMAIN st = {"regs", "memory", "ok"}
      BY <1>0 DEF IsCpu
    <2> QED BY <2>1, <2>2, FailedIs DEF assign, Agrees
  <1>7. CASE inst.op = "enter"
    <2> DEFINE old == st.regs["ebp"]
               top == st.regs["esp"] - 1
    <2>1. inst.a.val \in Nat /\ inst.b.val = 0 /\ Exec(st, inst) = execEnter(st, inst.a.val, 0)
      BY <1>7 DEF Exec, Allowed
    <2>2. st.regs["esp"] \in Int /\ DOMAIN st = {"regs", "memory", "ok"}
      BY <1>0 DEF IsCpu
    <2>3. pushAll(st, <<old>>) = push32(st, old)
      BY <1>0, <2>2, PushOne
    <2>4. /\ push32(st, old).ok
          /\ execEnter(st, inst.a.val, 0) =
               [push32(st, old) EXCEPT !.regs["ebp"] = top, !.regs["esp"] = @ - inst.a.val]
      <3>0. execEnter(st, inst.a.val, 0).ok
        BY <2>1
      <3>1. /\ pushAll(st, <<old>>).ok
            /\ execEnter(st, inst.a.val, 0) = [pushAll(st, <<old>>) EXCEPT !.regs["ebp"] = top, !.regs["esp"] = @ - inst.a.val]
        BY <1>0, <3>0, EnterFlat
      <3> HIDE DEF old, top
      <3> QED BY <2>3, <3>1
    <2>5. IsCpu(push32(st, old))
      BY <1>0, PushIs
    <2>6. a # home - (s.depth + 1)
      BY <1>7 DEF Written
    <2>7. push32(st, old).memory[a] = st.memory[a]
      BY <2>4, <2>6, PushWrites
    <2> DEFINE u == push32(st, old)
    <2> HIDE DEF u, old, top
    <2>8. [u EXCEPT !.regs["ebp"] = top, !.regs["esp"] = @ - inst.a.val].memory = u.memory
      BY <2>5 DEF IsCpu, u
    <2> QED BY <2>1, <2>4, <2>7, <2>8 DEF u
  <1>8. CASE inst.op = "pushad"
    <2> DEFINE values == [i \in 1..8 |-> st.regs[PushadOrder[i]]]
               e == st.regs["esp"]
               m == [x \in Slots |-> IF x \in (e - 8)..(e - 1) THEN values[e - x] ELSE st.memory[x]]
    <2>1. Exec(st, inst) = pushAll(st, values) /\ Len(values) = 8
      BY <1>8 DEF Exec, execPushad
    <2>2. pushAll(st, values) = [st EXCEPT !.memory = m, !.regs["esp"] = e - 8]
      <3> HIDE DEF values
      <3> QED BY <1>0, <2>1, FailedIs DEF pushAll
    <2>3. pushAll(st, values).memory = m
      <3> HIDE DEF m, values
      <3> QED BY <1>0, <2>2 DEF IsCpu
    <2>4. a \notin (e - 8)..(e - 1)
      <3> SUFFICES ASSUME a \in (e - 8)..(e - 1) PROVE FALSE
        OBVIOUS
      <3>1. home - a \in (s.depth + 1)..(s.depth + 8) /\ a = home - (home - a)
        BY <1>0
      <3> QED BY <1>8, <3>1 DEF Written
    <2>5. m[a] = st.memory[a]
      <3> HIDE DEF values
      <3> QED BY <2>4
    <2> QED BY <2>1, <2>3, <2>5
  <1> QED BY <1>1, <1>2, <1>3, <1>4, <1>5, <1>6, <1>7, <1>8 DEF Staying
-----------------------------------------------------------------------------
(***************************************************************************)
(* What the names of every frame stand for                                  *)
(***************************************************************************)
LocalAt(f, k) == acts[f].base + LocalDisp(source[frames[f].proc], k)

LocalsHeld(shape, f) ==
  \A k \in DOMAIN acts[f].locals :
    /\ k \in Named(source[frames[f].proc], code[frames[f].proc]) /\ At(shape, f).base > 0
    /\ LocalAt(f, k) \in Slots /\ memory[LocalAt(f, k)] = acts[f].locals[k]

ArgsHeld(names, f) ==
  /\ Len(acts[f].args) \in Nat /\ names[frames[f].proc].words <= Len(acts[f].args)
  /\ \A w \in 1..Len(acts[f].args) : Home(f) + w \in Slots /\ memory[Home(f) + w] = acts[f].args[w]

NamesHeld(shape, names, f) ==
  /\ LocalsHeld(shape, f) /\ ArgsHeld(names, f)
  /\ names[frames[f].proc].set[frames[f].pc] \subseteq DOMAIN acts[f].locals

\* What a frame may write lies below the locals of the frames that wait for it.
LocalsApart(shape, f, g) ==
  \A k \in DOMAIN acts[f].locals : Home(g) + Promise(shape, g).args < LocalAt(f, k)

\* Of the words of an INVOKE those pushed are on the stack, and the operands of the
\* others still mean what they meant when it began.
Passing(names) ==
  LET j == names[Current.proc].passed[Current.pc]
      n == Len(Line.args)
  IN  IF j = 0 THEN pending = << >>
      ELSE /\ Len(pending) = n
           /\ \A w \in 1..n : IF w <= n - j THEN pending[w] = Meaning(Line.args[w])
                              ELSE /\ regs["esp"] + (w - (n - j)) - 1 \in Slots
                                   /\ pending[w] = memory[regs["esp"] + (w - (n - j)) - 1]

Idle(names, f) == names[frames[f].proc].passed[frames[f].pc] = 0

FramesKeep(shape, names) ==
  /\ \A f \in 1..Len(frames) : NamesHeld(shape, names, f)
  /\ \A f, g \in 1..Len(frames) : f < g => LocalsApart(shape, f, g)
  /\ \A f \in 1..(Len(frames) - 1) : Idle(names, f)

NamesKept(shape, names) == FramesKeep(shape, names) /\ (frames # << >> => Passing(names))

LEMMA KeepsIs ==
  ASSUME Typed, NEW shape, NEW names, KeepsNames(source, shape, names), NEW p \in Procs
  PROVE  /\ names[p].words \in Nat
         /\ names[p].set[1] = {} /\ names[p].passed[1] = 0 /\ names[p].passed[Len(code[p]) + 1] = 0
         /\ \A pc \in 1..(Len(code[p]) + 1) : /\ names[p].set[pc] \subseteq Named(source[p], code[p])
                                              /\ names[p].passed[pc] \in Nat
         /\ \A k \in Named(source[p], code[p]) : LocalDisp(source[p], k) \in Int
         /\ \A i \in 1..Len(source[p].params) : /\ FirstWord(source[p], i) \in Nat \ {0}
                                                /\ ParamDisp(source[p], i) = FirstWord(source[p], i) + 1
         /\ \A pc \in 1..Len(code[p]) : shape[p].at[pc].live => KeepsAt(names, shape, source, p, code[p], pc)
  <1>1. code[p] = Lower(source)[p]
    BY DEF Typed
  <1> QED BY <1>1 DEF KeepsNames

LEMMA TopKeeps ==
  ASSUME Typed, NEW shape, Verified(source, shape), Shaped(shape), NEW names, KeepsNames(source, shape, names), Fetched
  PROVE  /\ KeepsAt(names, shape, source, Current.proc, Body, Current.pc)
         /\ Current.pc \in 1..Len(Body) /\ Current.proc \in Procs /\ Body = code[Current.proc] /\ Len(Body) \in Nat
         /\ Current.pc + 1 \in 1..(Len(Body) + 1)
         /\ Inst = Body[Current.pc] /\ Line = LineOf(CurrentProc, Inst) /\ CurrentProc = source[Current.proc]
         /\ LineStart <=> StartsLine(Body, Current.pc)
         /\ AssignsLocal <=> Assigns(CurrentProc, Inst)
  <1>1. /\ Current.pc \in 1..Len(Body) /\ Current.proc \in Procs /\ Body = code[Current.proc] /\ Len(Body) \in Nat
        /\ Current.pc + 1 \in 1..(Len(Body) + 1)
    BY LastFrame DEF Fetched, Body
  <1>2. shape[Current.proc].at[Current.pc].live
    BY TopIs DEF Fetched
  <1>3. KeepsAt(names, shape, source, Current.proc, Body, Current.pc)
    BY <1>1, <1>2, KeepsIs
  <1> QED BY <1>1, <1>3 DEF Inst, Line, LineOf, CurrentProc, LineStart, StartsLine, AssignsLocal, Assigns

\* Where a frame has a local, told from its return address.
LEMMA LocalPlace ==
  ASSUME Typed, NEW shape, Verified(source, shape), Shaped(shape), NEW names, KeepsNames(source, shape, names),
         NEW f, f \in 1..Len(frames), At(shape, f).base > 0, NEW k \in Named(source[frames[f].proc], code[frames[f].proc])
  PROVE  /\ LocalAt(f, k) = Home(f) - SlotOf(source[frames[f].proc], At(shape, f), k)
         /\ SlotOf(source[frames[f].proc], At(shape, f), k) \in Int /\ Home(f) \in Int
         /\ acts[f].base = Home(f) - At(shape, f).base
  <1>1. /\ frames[f].proc \in Procs /\ At(shape, f).base \in Nat
    BY PromiseIs
  <1>2. Home(f) \in Int /\ acts[f].base = Home(f) - At(shape, f).base
    BY DEF Shaped, Placed
  <1>3. LocalDisp(source[frames[f].proc], k) \in Int
    BY <1>1, KeepsIs
  <1> QED BY <1>1, <1>2, <1>3 DEF LocalAt, SlotOf

\* An operand the shape understands: the machine's value of its translation is what
\* the source means by it.
LEMMA Meant ==
  ASSUME Typed, NEW shape, Verified(source, shape), Shaped(shape), NEW names, KeepsNames(source, shape, names),
         frames # << >>, NamesHeld(shape, names, Len(frames)), NEW op,
         Understood(CurrentProc, names[Current.proc], Current.pc, shape[Current.proc].at[Current.pc], op)
  PROVE  Meaning(op) = resolveValue(Cpu, Resolved(CurrentProc, op))
  <1>0. PICK L, s, home, proc : /\ L = Len(frames) /\ s = shape[Current.proc].at[Current.pc]
                                /\ home = Home(Len(frames)) /\ proc = CurrentProc
    OBVIOUS
  <1>1. /\ L \in 1..L /\ Len(acts) = L /\ At(shape, L) = s /\ home \in Int /\ Current.proc \in Procs
        /\ Agrees(s, home, acts[L].entry, Cpu) /\ Top = acts[L] /\ Cpu.regs = regs /\ Cpu.memory = memory
    BY <1>0, TopIs, LastFrame DEF Top, Cpu
  <1>2. /\ \A r \in Regs \ {"esp"} : Denotes(s.regs[r], home, acts[L].entry, regs[r])
        /\ "ebp" \in Regs \ {"esp"}
    BY <1>1 DEF Agrees, Told, RegsTold, Regs
  <1>3. frames[L] = Current /\ source[Current.proc] = proc
    BY <1>0 DEF Current, CurrentProc
  <1>4. CASE op.kind = "imm"
    BY <1>4 DEF Meaning, resolveValue, Resolved
  <1>5. CASE op.kind = "reg"
    BY <1>1, <1>5 DEF Meaning, resolveValue, Resolved
  <1>6. CASE op.kind = "param"
    <2>1. PICK w : w = FirstWord(proc, op.val)
      OBVIOUS
    <2>2. /\ s.regs["ebp"] = Frame(1) /\ op.val \in 1..Len(proc.params) /\ w \in 1..names[Current.proc].words
      BY <1>0, <1>6, <2>1 DEF Understood
    <2>3. ParamDisp(proc, op.val) = w + 1 /\ w \in Int /\ names[Current.proc].words \in Nat
      BY <1>1, <1>3, <2>1, <2>2, KeepsIs
    <2>4. regs["ebp"] = home - 1
      BY <1>2, <2>2, FrameKnown DEF Denotes
    <2>5. memory[home + w] = acts[L].args[w]
      <3>1. /\ Len(acts[L].args) \in Nat /\ names[Current.proc].words <= Len(acts[L].args)
            /\ \A x \in 1..Len(acts[L].args) : memory[home + x] = acts[L].args[x]
        BY <1>0, <1>3 DEF NamesHeld, ArgsHeld
      <3>2. w \in 1..Len(acts[L].args)
        BY <2>2, <2>3, <3>1
      <3> QED BY <3>1, <3>2
    <2>6. Meaning(op) = acts[L].args[w]
      BY <1>0, <1>1, <1>6, <2>1 DEF Meaning
    <2>7. Resolved(proc, op) = [kind |-> "mem", base |-> "ebp", val |-> w + 1]
      BY <1>6, <2>3 DEF Resolved
    <2>8. resolveValue(Cpu, Resolved(proc, op)) = memory[(home - 1) + (w + 1)]
      BY <1>1, <2>4, <2>7 DEF resolveValue, EffectiveAddress
    <2>9. (home - 1) + (w + 1) = home + w
      BY <1>1, <2>3
    <2> QED BY <1>0, <2>5, <2>6, <2>8, <2>9
  <1>7. CASE op.kind = "local"
    <2>1. /\ s.base > 0 /\ s.regs["ebp"] = Frame(s.base) /\ op.val \in names[Current.proc].set[Current.pc]
      BY <1>0, <1>7 DEF Understood
    <2>2. op.val \in DOMAIN acts[L].locals
      BY <1>0, <1>3, <2>1 DEF NamesHeld
    <2>3. /\ memory[LocalAt(L, op.val)] = acts[L].locals[op.val]
          /\ op.val \in Named(proc, code[Current.proc])
      BY <1>0, <1>3, <2>2 DEF NamesHeld, LocalsHeld
    <2>4. acts[L].base = home - s.base /\ s.base \in Nat
      <3>1. s.base \in Nat
        BY <1>1 DEF Agrees, IsShape
      <3> QED BY <1>0, <1>1, <2>1, <3>1 DEF Shaped, Placed
    <2>5. regs["ebp"] = home - s.base
      BY <1>2, <2>1, <2>4, FrameKnown DEF Denotes
    <2>6. Resolved(proc, op) = [kind |-> "mem", base |-> "ebp", val |-> LocalDisp(proc, op.val)]
      BY <1>7 DEF Resolved
    <2>7. resolveValue(Cpu, Resolved(proc, op)) = memory[LocalAt(L, op.val)]
      BY <1>1, <1>3, <2>4, <2>5, <2>6 DEF resolveValue, EffectiveAddress, LocalAt
    <2>8. Meaning(op) = acts[L].locals[op.val]
      BY <1>1, <1>7 DEF Meaning
    <2> QED BY <1>0, <2>3, <2>7, <2>8
  <1> QED BY <1>4, <1>5, <1>6, <1>7 DEF Understood
-----------------------------------------------------------------------------
(***************************************************************************)
(* Steps of the stack of frames                                             *)
(***************************************************************************)
\* A frame that waits keeps its names whatever the running procedure may write.
LEMMA WaiterKeeps ==
  ASSUME Typed, NEW shape, Verified(source, shape), Shaped(shape), NEW names, FramesKeep(shape, names),
         NEW f, f \in 1..(Len(frames) - 1), frames'[f] = frames[f], acts'[f] = acts[f], source' = source, code' = code,
         OwnChanges(Home(Len(frames)), Promise(shape, Len(frames)).args, memory, memory')
  PROVE  NamesHeld(shape, names, f)' /\ Idle(names, f)'
  <1> DEFINE L == Len(frames)
             low == Home(L) + Promise(shape, L).args
  <1>1. L \in Nat /\ L \in 1..L /\ f \in 1..L /\ f < L
    BY DEF Typed, TypeOK
  <1>2. NamesHeld(shape, names, f) /\ LocalsApart(shape, f, L) /\ Apart(shape, f, L) /\ Idle(names, f)
    BY <1>1 DEF FramesKeep, Shaped
  <1>3. /\ At(shape, f)' = At(shape, f) /\ Home(f)' = Home(f)
        /\ \A k : LocalAt(f, k)' = LocalAt(f, k)
    BY DEF At, Promise, Home, LocalAt
  <1>4. \A a \in Slots : a > low => memory'[a] = memory[a]
    BY DEF OwnChanges
  <1>5. low < Home(f) /\ low \in Int /\ Home(f) \in Int
    <2>1. Home(L) \in Int /\ Home(f) \in Int
      BY <1>1 DEF Shaped, Placed
    <2>2. Promise(shape, L).args \in Nat
      BY <1>1, PromiseIs
    <2> QED BY <1>2, <2>1, <2>2 DEF Apart
  <1> HIDE DEF low
  <1>6. LocalsHeld(shape, f)'
    <2> SUFFICES ASSUME NEW k \in DOMAIN acts[f].locals
                 PROVE  /\ k \in Named(source[frames[f].proc], code[frames[f].proc]) /\ At(shape, f).base > 0
                        /\ LocalAt(f, k) \in Slots /\ memory'[LocalAt(f, k)] = acts[f].locals[k]
      BY <1>3 DEF LocalsHeld
    <2>1. /\ k \in Named(source[frames[f].proc], code[frames[f].proc]) /\ At(shape, f).base > 0
          /\ LocalAt(f, k) \in Slots /\ memory[LocalAt(f, k)] = acts[f].locals[k]
      BY <1>2 DEF NamesHeld, LocalsHeld
    <2>2. low < LocalAt(f, k) /\ LocalAt(f, k) \in Int
      BY <1>2, <2>1 DEF LocalsApart, low, Slots
    <2> QED BY <1>4, <1>5, <2>1, <2>2
  <1>7. ArgsHeld(names, f)'
    <2> SUFFICES ASSUME NEW w \in 1..Len(acts[f].args)
                 PROVE  Home(f) + w \in Slots /\ memory'[Home(f) + w] = acts[f].args[w]
      BY <1>2, <1>3 DEF ArgsHeld, NamesHeld
    <2>1. Home(f) + w \in Slots /\ memory[Home(f) + w] = acts[f].args[w] /\ w \in Int /\ w >= 1
      BY <1>2 DEF NamesHeld, ArgsHeld
    <2>2. Home(f) + w > low
      BY <1>5, <2>1
    <2> QED BY <1>4, <2>1, <2>2
  <1> QED BY <1>2, <1>6, <1>7 DEF NamesHeld, Idle

\* What Follow makes of the names of the running procedure.
LEMMA ActsNames ==
  ASSUME Typed, Follow, Len(frames') = Len(frames), frames # << >>
  PROVE  /\ acts'[Len(acts)].args = acts[Len(acts)].args
         /\ acts'[Len(acts)].locals =
              IF Fetched /\ ~IsPrologueMov /\ AssignsLocal
              THEN [i \in DOMAIN acts[Len(acts)].locals \union {Line.args[1].val} |->
                      IF i = Line.args[1].val THEN Meaning(Line.args[2]) ELSE acts[Len(acts)].locals[i]]
              ELSE acts[Len(acts)].locals
  <1>0. PICK L, act : L = Len(acts) /\ act = acts[Len(acts)]
    OBVIOUS
  <1>1. L = Len(frames) /\ IsSequence(acts) /\ L \in 1..L /\ DOMAIN act = ActFields /\ L \in Nat
    BY <1>0, LastFrame DEF Typed, TypeOK
  <1>2. DOMAIN acts = 1..L
    BY <1>0, <1>1 DEF IsSequence
  <1>3. CASE acts' = acts /\ ~(Fetched /\ ~IsPrologueMov /\ AssignsLocal)
    BY <1>3
  <1>4. CASE Fetched /\ IsPrologueMov /\ acts' = [acts EXCEPT ![Len(acts)].base = regs["esp"]]
    <2>1. acts' = [acts EXCEPT ![L] = [act EXCEPT !.base = regs["esp"]]]
      BY <1>0, <1>4
    <2>2. acts'[L] = [act EXCEPT !.base = regs["esp"]]
      BY <1>1, <1>2, <2>1
    <2>3. [act EXCEPT !.base = regs["esp"]].args = act.args /\ [act EXCEPT !.base = regs["esp"]].locals = act.locals
      BY <1>1 DEF ActFields
    <2> QED BY <1>0, <1>4, <2>2, <2>3
  <1>5. CASE /\ Fetched /\ ~IsPrologueMov /\ AssignsLocal
             /\ acts' = [acts EXCEPT ![Len(acts)] = WithLocal(@, Line.args[1].val, Meaning(Line.args[2]))]
    <2> DEFINE new == WithLocal(act, Line.args[1].val, Meaning(Line.args[2]))
    <2>1. acts'[L] = new
      BY <1>0, <1>1, <1>2, <1>5
    <2>2. /\ new.args = act.args
          /\ new.locals = [i \in DOMAIN act.locals \union {Line.args[1].val} |->
                             IF i = Line.args[1].val THEN Meaning(Line.args[2]) ELSE act.locals[i]]
      BY <1>1 DEF ActFields, WithLocal
    <2> HIDE DEF new
    <2> QED BY <1>0, <1>5, <2>1, <2>2
  <1>6. Len(frames) \in Nat
    BY LastFrame
  <1> QED BY <1>3, <1>4, <1>5, <1>6 DEF Follow

LEMMA WrittenIs ==
  ASSUME NEW s, IsShape(s), NEW sum, NEW inst, inst.op \in {"mov", "add", "sub"} => Allowed(sum, s, inst),
         NEW i \in Written(s, inst)
  PROVE  i \in Int
  <1>0. s.depth \in Nat /\ \A r \in Regs : Of(s, r).at \in Nat
    BY FrameKnown DEF IsShape, Of, Knowledge
  <1>1. CASE inst.op \in {"mov", "add", "sub"}
    <2>1. inst.a.kind = "mem" /\ i = Slot(s, inst.a)
      BY <1>1 DEF Written
    <2>2. inst.a.base \in Regs /\ inst.a.val \in Int
      BY <1>1, <2>1 DEF Allowed, Assignable
    <2> QED BY <1>0, <2>1, <2>2 DEF Slot
  <1>2. CASE inst.op \in {"push", "enter", "invoke", "call"}
    BY <1>0, <1>2 DEF Written
  <1>3. CASE inst.op = "pushad"
    BY <1>0, <1>3 DEF Written
  <1> QED BY <1>1, <1>2, <1>3 DEF Written

\* What an instruction that goes on in its procedure leaves of the running frame's
\* names, when it writes where it is said to.
LEMMA TopStays ==
  ASSUME Typed, Follow, code' = code, NEW shape, Verified(source, shape), Shaped(shape), Shaped(shape)',
         NEW names, KeepsNames(source, shape, names), FramesKeep(shape, names), Fetched, NEW n, Goes(n),
         GoesWith(CurrentProc, names[Current.proc], shape[Current.proc].at, Inst, Current.pc, n),
         \A a \in Slots : (\A i \in Written(shape[Current.proc].at[Current.pc], Inst) : a # Home(Len(frames)) - i)
                            => memory'[a] = memory[a],
         Inst.op = "mov" => Exec(Cpu, Inst).ok /\ memory' = Exec(Cpu, Inst).memory
  PROVE  NamesHeld(shape, names, Len(frames))'
  <1>0. PICK L, s, t, home, proc, body, name :
          /\ L = Len(frames) /\ s = shape[Current.proc].at[Current.pc] /\ t = shape[Current.proc].at[n]
          /\ home = Home(Len(frames)) /\ proc = CurrentProc /\ body = Body /\ name = names[Current.proc]
    OBVIOUS
  <1>1. /\ L \in 1..L /\ Len(acts) = L /\ At(shape, L) = s /\ home \in Int /\ Current.proc \in Procs
        /\ Agrees(s, home, acts[L].entry, Cpu) /\ Top = acts[L] /\ Cpu.regs = regs /\ Cpu.memory = memory
        /\ frames[L] = Current /\ source[Current.proc] = proc /\ code[Current.proc] = body /\ frames # << >>
    BY <1>0, TopIs, LastFrame DEF Top, Cpu, Current, CurrentProc, Body, Fetched
  <1>2. /\ Len(frames') = L /\ frames'[L] = [proc |-> Current.proc, pc |-> n] /\ source' = source
        /\ frames'[L].proc = Current.proc /\ frames'[L].pc = n
    <2>1. Len(frames') = L /\ frames'[L] = [proc |-> Current.proc, pc |-> n] /\ source' = source
      BY <1>0, GoesFrames DEF Follow
    <2> QED BY <2>1
  <1>3. At(shape, L)' = t
    BY <1>0, <1>2 DEF At, Promise
  <1>4. /\ SparesNames(proc, body, s, Inst) /\ AssignsAsSaid(proc, name, body, Current.pc, s)
        /\ Inst = body[Current.pc] /\ Line = LineOf(proc, Inst)
        /\ AssignsLocal <=> Assigns(proc, Inst)
    BY <1>0, TopKeeps DEF KeepsAt, CurrentProc
  <1>5. /\ s.base > 0 => t.base = s.base
        /\ \A k \in name.set[n] : k \in name.set[Current.pc] \/ (Assigns(proc, Inst) /\ k = AssignedBy(proc, Inst))
    BY <1>0 DEF GoesWith
  <1>6. NamesHeld(shape, names, L)
    BY <1>0, <1>1 DEF FramesKeep
  <1>7. /\ Home(L)' = home /\ acts'[L].args = acts[L].args
        /\ \A k : s.base > 0 => LocalAt(L, k)' = LocalAt(L, k)
    <2>1. acts'[L].entry = acts[L].entry /\ acts'[L].args = acts[L].args
      BY <1>0, <1>1, <1>2, ActsStay, ActsNames
    <2>2. Placed(shape, L) /\ Placed(shape, L)'
      BY <1>0, <1>1, <1>2 DEF Shaped
    <2>3. Home(L)' = home
      BY <1>0, <2>1 DEF Home
    <2>4. s.base > 0 => acts'[L].base = acts[L].base
      BY <1>0, <1>1, <1>3, <1>5, <2>2, <2>3 DEF Placed
    <2> QED BY <1>1, <1>2, <2>1, <2>3, <2>4 DEF LocalAt
  \* The line that assigns a local does what it says.
  <1>8. ASSUME Assigns(proc, Inst)
        PROVE  LET k == AssignedBy(proc, Inst)
               IN  /\ k \in Named(proc, body) /\ s.base > 0 /\ LocalAt(L, k) \in Slots
                   /\ memory'[LocalAt(L, k)] = Meaning(Line.args[2])
                   /\ ~IsPrologueMov
    <2>0. PICK k, args : k = AssignedBy(proc, Inst) /\ args = Line.args
      OBVIOUS
    <2>1. /\ Inst.op = "mov" /\ Inst.a = Resolved(proc, args[1]) /\ Inst.b = Resolved(proc, args[2])
          /\ s.base > 0 /\ s.regs["ebp"] = Frame(s.base) /\ Understood(proc, name, Current.pc, s, args[2])
      BY <1>4, <1>8, <2>0 DEF AssignsAsSaid
    <2>2. args[1].kind = "local" /\ args[1].val = k
      BY <1>4, <1>8, <2>0 DEF Assigns, AssignedBy
    <2>3. Inst.a = [kind |-> "mem", base |-> "ebp", val |-> LocalDisp(proc, k)]
      BY <2>1, <2>2 DEF Resolved
    <2>4. k \in Named(proc, body)
      <3>1. Current.pc \in 1..Len(body)
        BY <1>0, TopKeeps
      <3> QED BY <1>4, <1>8, <2>0, <3>1 DEF Named
    <2>5. acts[L].base = home - s.base /\ regs["ebp"] = home - s.base /\ s.base \in Nat
      <3>1. s.base \in Nat /\ "ebp" \in Regs \ {"esp"}
        BY <1>1 DEF Agrees, IsShape, Regs
      <3>2. regs["ebp"] = home - s.base
        BY <1>1, <2>1, <3>1, FrameKnown DEF Agrees, Told, RegsTold, Denotes
      <3>3. acts[L].base = home - s.base
        BY <1>0, <1>1, <2>1 DEF Shaped, Placed
      <3> QED BY <3>1, <3>2, <3>3
    <2>6. EffectiveAddress(Cpu, Inst.a) = LocalAt(L, k)
      BY <1>1, <2>3, <2>5 DEF EffectiveAddress, LocalAt
    <2> DEFINE v == resolveValue(Cpu, Inst.b)
    <2>7. Exec(Cpu, Inst) = assign(Cpu, Inst.a, v) /\ assign(Cpu, Inst.a, v).ok /\ memory' = assign(Cpu, Inst.a, v).memory
      <3>1. Exec(Cpu, Inst) = execMov(Cpu, Inst.a, Inst.b)
        BY <2>1 DEF Exec
      <3>2. Exec(Cpu, Inst) = assign(Cpu, Inst.a, v)
        BY <2>1, <3>1, CpuIs, FailedIs DEF execMov, WithValue
      <3> QED BY <2>1, <3>2
    <2> HIDE DEF v
    <2>8. /\ LocalAt(L, k) \in Slots
          /\ assign(Cpu, Inst.a, v) = [Cpu EXCEPT !.memory[LocalAt(L, k)] = v]
      <3>1. Inst.a.kind = "mem"
        BY <2>3
      <3>2. IsCpu(Cpu) /\ ~Failed(Cpu).ok
        BY CpuIs, FailedIs
      <3> QED BY <2>6, <2>7, <3>1, <3>2 DEF assign
    <2>9. memory' = [memory EXCEPT ![LocalAt(L, k)] = v]
      <3>1. [Cpu EXCEPT !.memory[LocalAt(L, k)] = v].memory = [memory EXCEPT ![LocalAt(L, k)] = v]
        BY <1>1, CpuIs DEF IsCpu
      <3> QED BY <2>7, <2>8, <3>1
    <2>10. memory'[LocalAt(L, k)] = v
      <3>1. DOMAIN memory = Slots
        BY DEF Typed, TypeOK
      <3> QED BY <2>8, <2>9, <3>1
    <2>11. v = Meaning(args[2])
      BY <1>0, <1>1, <1>6, <2>1, Meant DEF v
    <2>12. ~IsPrologueMov
      BY <2>3 DEF IsPrologueMov, Reg
    <2> QED BY <2>0, <2>1, <2>4, <2>8, <2>10, <2>11, <2>12
  <1>9. acts'[L].locals =
          IF Assigns(proc, Inst)
          THEN [i \in DOMAIN acts[L].locals \union {AssignedBy(proc, Inst)} |->
                  IF i = AssignedBy(proc, Inst) THEN Meaning(Line.args[2]) ELSE acts[L].locals[i]]
          ELSE acts[L].locals
    <2>1. Line.args[1].val = AssignedBy(proc, Inst)
      BY <1>4 DEF AssignedBy
    <2>2. Assigns(proc, Inst) <=> (Fetched /\ ~IsPrologueMov /\ AssignsLocal)
      BY <1>4, <1>8
    <2> QED BY <1>0, <1>1, <1>2, <2>1, <2>2, ActsNames
  <1>13. \A i \in Written(s, Inst) : i \in Int
    <2>1. Accepts(shape, Current.proc, Current.pc, Inst) /\ IsShape(s)
      BY <1>0, <1>1, TopIs DEF Agrees
    <2>2. Inst.op \in {"mov", "add", "sub"} => Allowed(shape[Current.proc], s, Inst)
      BY <1>0, <2>1 DEF Accepts
    <2> QED BY <2>1, <2>2, WrittenIs
  <1>10. LocalsHeld(shape, L)'
    <2>1. SUFFICES ASSUME NEW k \in DOMAIN acts'[L].locals
                   PROVE  /\ k \in Named(proc, body) /\ s.base > 0 /\ s.base \in Nat
                          /\ LocalAt(L, k) \in Slots /\ memory'[LocalAt(L, k)] = acts'[L].locals[k]
      BY <1>1, <1>2, <1>3, <1>5, <1>7 DEF LocalsHeld
    <2>2. s.base \in Nat
      BY <1>1 DEF Agrees, IsShape
    <2>3. CASE Assigns(proc, Inst) /\ k = AssignedBy(proc, Inst)
      BY <1>8, <1>9, <2>2, <2>3
    <2>4. CASE ~(Assigns(proc, Inst) /\ k = AssignedBy(proc, Inst))
      <3>1. k \in DOMAIN acts[L].locals /\ acts'[L].locals[k] = acts[L].locals[k]
        BY <1>9, <2>1, <2>4
      <3>2. /\ k \in Named(proc, body) /\ s.base > 0
            /\ LocalAt(L, k) \in Slots /\ memory[LocalAt(L, k)] = acts[L].locals[k]
        BY <1>1, <1>6, <3>1 DEF NamesHeld, LocalsHeld
      <3>3. LocalAt(L, k) = home - SlotOf(proc, s, k) /\ SlotOf(proc, s, k) \in Int
        BY <1>0, <1>1, <3>2, LocalPlace
      <3>4. ASSUME NEW i \in Written(s, Inst) PROVE LocalAt(L, k) # home - i
        <4>1. i # SlotOf(proc, s, k)
          BY <1>4, <2>4, <3>2 DEF SparesNames
        <4> QED BY <1>1, <1>13, <3>3, <4>1
      <3>5. memory'[LocalAt(L, k)] = memory[LocalAt(L, k)]
        BY <1>0, <3>2, <3>4
      <3> QED BY <2>2, <3>1, <3>2, <3>5
    <2> QED BY <2>3, <2>4
  <1>11. ArgsHeld(names, L)'
    <2> SUFFICES ASSUME NEW w \in 1..Len(acts[L].args)
                 PROVE  home + w \in Slots /\ memory'[home + w] = acts[L].args[w]
      BY <1>1, <1>2, <1>6, <1>7 DEF ArgsHeld, NamesHeld
    <2>1. home + w \in Slots /\ memory[home + w] = acts[L].args[w] /\ w \in Int /\ w >= 1
      BY <1>0, <1>6 DEF NamesHeld, ArgsHeld
    <2>2. ASSUME NEW i \in Written(s, Inst) PROVE home + w # home - i
      <3>1. i >= 1
        BY <1>4 DEF SparesNames
      <3> QED BY <1>1, <1>13, <2>1, <3>1
    <2> QED BY <1>0, <2>1, <2>2
  <1>12. name.set[n] \subseteq DOMAIN acts'[L].locals
    BY <1>0, <1>1, <1>5, <1>6, <1>9 DEF NamesHeld
  <1> QED BY <1>0, <1>2, <1>10, <1>11, <1>12 DEF NamesHeld

\* The same of all frames.
LEMMA FramesGo ==
  ASSUME Typed, Follow, code' = code, NEW shape, Verified(source, shape), Shaped(shape), Shaped(shape)',
         NEW names, KeepsNames(source, shape, names), FramesKeep(shape, names), Fetched, NEW n, Goes(n),
         GoesWith(CurrentProc, names[Current.proc], shape[Current.proc].at, Inst, Current.pc, n),
         \A a \in Slots : (\A i \in Written(shape[Current.proc].at[Current.pc], Inst) : a # Home(Len(frames)) - i)
                            => memory'[a] = memory[a],
         Inst.op = "mov" => Exec(Cpu, Inst).ok /\ memory' = Exec(Cpu, Inst).memory,
         OwnChanges(Home(Len(frames)), Promise(shape, Len(frames)).args, memory, memory')
  PROVE  FramesKeep(shape, names)'
  <1>0. PICK L : L = Len(frames)
    OBVIOUS
  <1>1. L \in 1..L /\ L \in Nat /\ Len(acts) = L /\ frames # << >>
    BY <1>0, LastFrame DEF Fetched, Typed, TypeOK
  <1>2. /\ Len(frames') = L /\ source' = source
        /\ \A f \in 1..(L - 1) : frames'[f] = frames[f]
        /\ frames'[L] = [proc |-> Current.proc, pc |-> n]
    BY <1>0, GoesFrames DEF Follow
  <1>3. /\ \A f \in 1..(L - 1) : acts'[f] = acts[f]
        /\ \A f \in 1..L : acts'[f].entry = acts[f].entry
    BY <1>0, <1>1, <1>2, ActsStay
  <1>4. \A f \in 1..L : f = L \/ f \in 1..(L - 1)
    BY <1>1
  <1>5. NamesHeld(shape, names, L)'
    BY <1>0, <1>2, TopStays
  <1>6. \A f \in 1..(L - 1) : NamesHeld(shape, names, f)' /\ Idle(names, f)'
    BY <1>0, <1>2, <1>3, WaiterKeeps
  <1>7. ASSUME NEW f \in 1..L, NEW g \in 1..L, f < g PROVE LocalsApart(shape, f, g)'
    <2>1. f \in 1..(L - 1) /\ LocalsApart(shape, f, g)
      BY <1>0, <1>1, <1>7 DEF FramesKeep
    <2>2. frames'[g].proc = frames[g].proc
      <3>1. CASE g = L
        BY <1>0, <1>2, <3>1 DEF Current
      <3> QED BY <1>2, <1>4, <3>1
    <2>3. Promise(shape, g)' = Promise(shape, g) /\ Home(g)' = Home(g) /\ \A k : LocalAt(f, k)' = LocalAt(f, k)
      BY <1>2, <1>3, <2>1, <2>2 DEF Promise, Home, LocalAt
    <2> QED BY <1>3, <2>1, <2>3 DEF LocalsApart
  <1>8. \A f \in 1..L : NamesHeld(shape, names, f)'
    BY <1>4, <1>5, <1>6
  <1> QED BY <1>2, <1>6, <1>7, <1>8 DEF FramesKeep

\* Where no INVOKE is being executed none begins, except at its first instruction.
LEMMA PassesNone ==
  ASSUME Typed, Follow, NEW shape, Verified(source, shape), Shaped(shape),
         NEW names, KeepsNames(source, shape, names), Passing(names), Fetched,
         names[Current.proc].passed[Current.pc] = 0, ~OpensInvoke(CurrentProc, Body, Current.pc)
  PROVE  pending = << >> /\ pending' = << >>
  <1>1. pending = << >>
    BY DEF Passing
  <1>2. ~(LineStart /\ Line.st = "invoke")
    BY TopKeeps DEF OpensInvoke
  <1> QED BY <1>1, <1>2 DEF Follow

\* A word of an INVOKE is pushed.
LEMMA PassesOne ==
  ASSUME Typed, Follow, NEW shape, Verified(source, shape), Shaped(shape), Shaped(shape)',
         NEW names, KeepsNames(source, shape, names), NamesKept(shape, names), Fetched, code' = code,
         Goes(Current.pc + 1), Inst.op = "push", Exec(Cpu, Inst).ok,
         regs' = Exec(Cpu, Inst).regs, memory' = Exec(Cpu, Inst).memory,
         names[Current.proc].passed[Current.pc] > 0 \/ OpensInvoke(CurrentProc, Body, Current.pc)
  PROVE  Passing(names)'
  <1>0. PICK L, s, home, proc, body, name, j, args, n, esp :
          /\ L = Len(frames) /\ s = shape[Current.proc].at[Current.pc]
          /\ home = Home(Len(frames)) /\ proc = CurrentProc /\ body = Body /\ name = names[Current.proc]
          /\ j = name.passed[Current.pc] /\ args = Line.args /\ n = Len(args) /\ esp = regs["esp"]
    OBVIOUS
  <1>1. /\ L \in 1..L /\ Len(acts) = L /\ home \in Int /\ Current.proc \in Procs
        /\ Agrees(s, home, acts[L].entry, Cpu) /\ Top = acts[L] /\ Cpu.regs = regs /\ Cpu.memory = memory
        /\ frames # << >>
    BY <1>0, TopIs, LastFrame DEF Top, Cpu, Fetched
  <1>2. /\ Len(frames') = L /\ source' = source
        /\ frames'[L].proc = Current.proc /\ frames'[L].pc = Current.pc + 1
    <2>1. Len(frames') = L /\ source' = source /\ frames'[L] = [proc |-> Current.proc, pc |-> Current.pc + 1]
      BY <1>0, GoesFrames DEF Follow
    <2> QED BY <2>1
  <1>3. /\ PassesAsSaid(proc, name, body, Current.pc, s) /\ AssignsAsSaid(proc, name, body, Current.pc, s)
        /\ Inst = body[Current.pc] /\ Line = LineOf(proc, Inst)
        /\ LineStart <=> StartsLine(body, Current.pc)
        /\ AssignsLocal <=> Assigns(proc, Inst)
    BY <1>0, TopKeeps DEF KeepsAt
  <1>4. /\ j \in Nat /\ n \in Nat /\ j < n
        /\ j > 0 => ~LineStart
        /\ Inst.a = Resolved(proc, args[n - j])
        /\ \A w \in 1..n : Understood(proc, name, Current.pc, s, args[w])
        /\ name.passed[Current.pc + 1] = j + 1 /\ body[Current.pc + 1].line = Inst.line
        /\ LineStart => Line.st = "invoke"
    <2>1. j \in Nat
      <3>1. Current.pc \in 1..(Len(code[Current.proc]) + 1)
        BY <1>1, LastFrame DEF Body
      <3> QED BY <1>0, <1>1, <3>1, KeepsIs
    <2>2. j > 0 \/ OpensInvoke(proc, body, Current.pc)
      BY <1>0
    <2>3. LineOf(proc, Inst).args = args
      BY <1>0, <1>3
    <2>4. LineStart /\ j = 0 => Line.st = "invoke"
      BY <1>3, <2>2 DEF OpensInvoke
    <2> QED BY <1>0, <1>3, <2>1, <2>2, <2>3, <2>4 DEF PassesAsSaid
  <1>5. Line' = Line /\ Current'.proc = Current.proc /\ Current'.pc = Current.pc + 1
    <2>1. Current'.proc = Current.proc /\ Current'.pc = Current.pc + 1
      BY <1>2 DEF Current
    <2>2. CurrentProc' = proc /\ Body' = body
      BY <1>0, <1>2, <2>1 DEF CurrentProc, Body
    <2> QED BY <1>0, <1>4, <2>1, <2>2 DEF Line, Inst
  <1>6. /\ Top'.args = Top.args /\ Top'.locals = Top.locals
    <2>1. ~Assigns(proc, Inst)
      BY <1>3 DEF AssignsAsSaid
    <2>2. acts'[L].args = acts[L].args /\ acts'[L].locals = acts[L].locals
      BY <1>0, <1>1, <1>2, <1>3, <2>1, ActsNames
    <2>3. Len(acts') = L
      BY <1>0, <1>1, <1>2, ActsStay
    <2> QED BY <1>1, <2>2, <2>3 DEF Top
  <1> DEFINE v == resolveValue(Cpu, Inst.a)
  <1>7. Exec(Cpu, Inst) = push32(Cpu, v) /\ push32(Cpu, v).ok
    <2>1. Exec(Cpu, Inst) = execPush(Cpu, Inst.a)
      BY DEF Exec
    <2> QED BY <2>1, CpuIs, FailedIs DEF execPush, WithValue
  <1>8. esp = home - s.depth /\ s.depth \in Nat /\ esp \in Int /\ home - (s.depth + 1) = esp - 1
    <2>1. esp = home - s.depth /\ s.depth \in Nat
      BY <1>0, <1>1 DEF Agrees, IsShape, Told, RegsTold
    <2> QED BY <1>1, <2>1
  <1> HIDE DEF v
  <1>9. /\ \A a \in Slots : a # esp - 1 => memory'[a] = memory[a]
        /\ esp - 1 \in Slots /\ memory'[esp - 1] = v /\ regs'["esp"] = esp - 1
        /\ \A r \in Regs \ {"esp"} : regs'[r] = regs[r]
    <2>1. MemTop \in Nat
      BY ProgramAssumption
    <2>2. \A a \in Slots :
            /\ a # home - (s.depth + 1) => push32(Cpu, v).memory[a] = Cpu.memory[a]
            /\ home - (s.depth + 1) \in Slots /\ push32(Cpu, v).memory[home - (s.depth + 1)] = v
            /\ push32(Cpu, v).regs["esp"] = home - (s.depth + 1)
            /\ \A r \in Regs \ {"esp"} : push32(Cpu, v).regs[r] = Cpu.regs[r]
      BY <1>1, <1>7, PushWrites
    <2>3. Slots # {}
      BY <1>7, FailedIs, CpuIs DEF push32
    <2> QED BY <1>1, <1>7, <1>8, <2>2, <2>3
  \* The words mean the same as before, and those pending are they.
  <1>10. \A w \in 1..n : Meaning(args[w])' = Meaning(args[w])
    <2> SUFFICES ASSUME NEW w \in 1..n PROVE Meaning(args[w])' = Meaning(args[w])
      OBVIOUS
    <2>1. Understood(proc, name, Current.pc, s, args[w])
      BY <1>4
    <2>2. CurrentProc' = CurrentProc
      BY <1>2, <1>5 DEF CurrentProc
    <2>3. args[w].kind = "reg" => regs'[args[w].base] = regs[args[w].base]
      BY <1>9, <2>1 DEF Understood
    <2>4. args[w].kind \in {"imm", "reg", "param", "local"}
      BY <2>1 DEF Understood
    <2> QED BY <1>0, <1>6, <2>2, <2>3, <2>4 DEF Meaning
  <1>11. /\ Len(pending') = n
         /\ \A w \in 1..n : w <= n - j => pending'[w] = Meaning(args[w])
         /\ \A w \in 1..n : w > n - j => /\ esp + (w - (n - j)) - 1 \in Slots
                                         /\ pending'[w] = memory[esp + (w - (n - j)) - 1]
    <2>1. CASE LineStart
      <3>1. pending' = [i \in 1..n |-> Meaning(args[i])] /\ j = 0
        BY <1>0, <1>4, <2>1 DEF Follow
      <3>2. Len(pending') = n
        BY <1>4, <3>1
      <3> QED BY <1>4, <3>1, <3>2
    <2>2. CASE ~LineStart
      <3>1. pending' = pending
        BY <2>2 DEF Follow
      <3>2. j > 0
        BY <1>0, <1>3, <2>2 DEF OpensInvoke
      <3>3. Passing(names) /\ names[Current.proc].passed[Current.pc] = j /\ Line.args = args /\ Len(args) = n /\ j # 0
        BY <1>0, <1>1, <1>4, <3>2 DEF NamesKept
      <3>4. /\ Len(pending) = n
            /\ \A w \in 1..n : IF w <= n - j THEN pending[w] = Meaning(args[w])
                               ELSE /\ regs["esp"] + (w - (n - j)) - 1 \in Slots
                                    /\ pending[w] = memory[regs["esp"] + (w - (n - j)) - 1]
        BY <3>3 DEF Passing
      <3>5. \A w \in 1..n : w > n - j => ~(w <= n - j)
        BY <1>4
      <3> QED BY <1>0, <3>1, <3>4, <3>5
    <2> QED BY <2>1, <2>2
  <1>12. v = Meaning(args[n - j]) /\ n - j \in 1..n
    <2>1. n - j \in 1..n
      BY <1>4
    <2>2. Understood(CurrentProc, names[Current.proc], Current.pc, shape[Current.proc].at[Current.pc], args[n - j])
      BY <1>0, <1>4, <2>1
    <2>3. NamesHeld(shape, names, Len(frames))
      BY <1>0, <1>1 DEF NamesKept, FramesKeep
    <2> QED BY <1>0, <1>1, <1>4, <2>1, <2>2, <2>3, Meant DEF v
  <1>13. ASSUME NEW w \in 1..n
         PROVE  IF w <= n - (j + 1) THEN pending'[w] = Meaning(args[w])'
                ELSE /\ regs'["esp"] + (w - (n - (j + 1))) - 1 \in Slots
                     /\ pending'[w] = memory'[regs'["esp"] + (w - (n - (j + 1))) - 1]
    <2>1. CASE w <= n - (j + 1)
      BY <1>4, <1>10, <1>11, <2>1
    <2>2. CASE w = n - j
      <3>1. regs'["esp"] + (w - (n - (j + 1))) - 1 = esp - 1 /\ ~(w <= n - (j + 1))
        BY <1>4, <1>8, <1>9, <2>2
      <3>2. pending'[w] = v
        BY <1>4, <1>11, <1>12, <2>2
      <3> QED BY <1>9, <3>1, <3>2
    <2>3. CASE w > n - j
      <3>1. /\ regs'["esp"] + (w - (n - (j + 1))) - 1 = esp + (w - (n - j)) - 1 /\ ~(w <= n - (j + 1))
            /\ esp + (w - (n - j)) - 1 # esp - 1
        BY <1>4, <1>8, <1>9, <2>3
      <3> QED BY <1>9, <1>11, <2>3, <3>1
    <2> QED BY <1>4, <2>1, <2>2, <2>3
  <1>14. names[Current'.proc].passed[Current'.pc] = j + 1 /\ Line'.args = args /\ j + 1 # 0
    BY <1>0, <1>4, <1>5
  <1> QED BY <1>0, <1>4, <1>11, <1>13, <1>14 DEF Passing

LEMMA PassingIdle ==
  ASSUME Typed, NEW n, Goes(n), NEW names, pending' = << >>, names[Current.proc].passed[n] = 0
  PROVE  Passing(names)'
  <1>1. Len(frames') = Len(frames) /\ frames'[Len(frames)] = [proc |-> Current.proc, pc |-> n]
    BY GoesFrames
  <1>2. Current'.proc = Current.proc /\ Current'.pc = n
    BY <1>1 DEF Current
  <1> QED BY <1>2 DEF Passing

LEMMA NamesGoOn ==
  ASSUME Typed, Follow, code' = code, NEW shape, Verified(source, shape), Shaped(shape), Shaped(shape)',
         NEW names, KeepsNames(source, shape, names), NamesKept(shape, names), Fetched,
         Inst.op \in Staying, Exec(Cpu, Inst).ok, frames' = Advanced,
         regs' = Exec(Cpu, Inst).regs, memory' = Exec(Cpu, Inst).memory
  PROVE  NamesKept(shape, names)'
  <1>0. PICK L, s, sum, home, entry, name :
          /\ L = Len(frames) /\ sum = shape[Current.proc] /\ s = sum.at[Current.pc]
          /\ home = Home(Len(frames)) /\ entry = acts[Len(frames)].entry /\ name = names[Current.proc]
    OBVIOUS
  <1>1. Goes(Current.pc + 1) /\ frames # << >>
    BY AdvancedGoes DEF Fetched
  <1>2. /\ Agrees(s, home, entry, Cpu) /\ home \in Int /\ IsSummary(sum) /\ Promise(shape, L) = sum
        /\ Allowed(sum, s, Inst) /\ Cpu.memory = memory
    <2>1. Accepts(shape, Current.proc, Current.pc, Inst) /\ Agrees(s, home, entry, Cpu) /\ home \in Int
      BY <1>0, <1>1, TopIs
    <2>2. IsSummary(sum)
      BY <1>0, <1>1, LastFrame, VerifiedIs
    <2>3. Promise(shape, L) = sum
      BY <1>0 DEF Promise, Current
    <2>4. Allowed(sum, s, Inst)
      BY <1>0, <2>1 DEF Accepts, Staying
    <2> QED BY <2>1, <2>2, <2>3, <2>4 DEF Cpu
  <1>3. OwnChanges(home, sum.args, memory, memory')
    BY <1>2, InstSound
  <1>4. \A a \in Slots : (\A i \in Written(s, Inst) : a # home - i) => memory'[a] = memory[a]
    BY <1>2, WritesOnly
  <1>5. /\ GoesWith(CurrentProc, name, sum.at, Inst, Current.pc, Current.pc + 1)
        /\ PassesAsSaid(CurrentProc, name, Body, Current.pc, s)
    <2>1. Inst.op \notin {"jmp", "ret", "exit", "exitprocess"}
      BY DEF Staying
    <2> QED BY <1>0, <2>1, TopKeeps DEF KeepsAt
  <1>6. FramesKeep(shape, names)'
    BY <1>0, <1>1, <1>2, <1>3, <1>4, <1>5, FramesGo DEF NamesKept
  <1>7. Passing(names)'
    <2>1. PICK j : j = name.passed[Current.pc] /\ j \in Nat
      <3>1. Current.proc \in Procs /\ Current.pc \in 1..(Len(code[Current.proc]) + 1)
        BY <1>1, LastFrame DEF Body
      <3> QED BY <1>0, <3>1, KeepsIs
    <2>2. Passing(names) /\ Inst = Body[Current.pc]
      BY <1>1 DEF NamesKept, Inst
    <2>3. CASE Inst.op = "push" /\ (j > 0 \/ OpensInvoke(CurrentProc, Body, Current.pc))
      BY <1>0, <1>1, <2>1, <2>3, PassesOne
    <2>4. CASE ~(j > 0 \/ OpensInvoke(CurrentProc, Body, Current.pc))
      <3>1. pending' = << >>
        BY <1>0, <2>1, <2>2, <2>4, PassesNone
      <3>2. name.passed[Current.pc + 1] = 0
        BY <1>5, <2>1, <2>2, <2>4 DEF PassesAsSaid, Staying
      <3> QED BY <1>0, <1>1, <3>1, <3>2, PassingIdle
    <2>5. CASE Inst.op # "push" /\ (j > 0 \/ OpensInvoke(CurrentProc, Body, Current.pc))
      <3>1. /\ Inst.op = "invoke" /\ Len(LineOf(CurrentProc, Inst).args) = 0 /\ j = 0
            /\ name.passed[Current.pc + 1] = 0
        BY <1>5, <2>1, <2>2, <2>5 DEF PassesAsSaid, Staying
      <3>2. LineStart /\ Line.st = "invoke" /\ Line = LineOf(CurrentProc, Inst)
        BY <2>1, <2>2, <2>5, <3>1, TopKeeps DEF OpensInvoke
      <3>3. pending' = [i \in 1..0 |-> Meaning(Line.args[i])]
        BY <3>1, <3>2 DEF Follow
      <3>4. pending' = << >>
        BY <3>3
      <3> QED BY <1>0, <1>1, <3>1, <3>4, PassingIdle
    <2> QED BY <2>3, <2>4, <2>5
  <1> QED BY <1>6, <1>7 DEF NamesKept

\* A jump, taken or not.
LEMMA NamesGoTo ==
  ASSUME Typed, Follow, code' = code, NEW shape, Verified(source, shape), Shaped(shape), Shaped(shape)',
         NEW names, KeepsNames(source, shape, names), NamesKept(shape, names), Fetched, NEW n, Goes(n),
         Inst.op \in {"jmp", "jcc"}, memory' = memory, n = Inst.n \/ (n = Current.pc + 1 /\ Inst.op = "jcc"),
         n = Inst.n => n \in DOMAIN shape[Current.proc].at
  PROVE  NamesKept(shape, names)'
  <1>1. /\ KeepsAt(names, shape, source, Current.proc, Body, Current.pc) /\ Inst = Body[Current.pc]
        /\ CurrentProc = source[Current.proc] /\ frames # << >>
    BY TopKeeps DEF Fetched
  <1>2. PassesAsSaid(CurrentProc, names[Current.proc], Body, Current.pc, shape[Current.proc].at[Current.pc])
    BY <1>1 DEF KeepsAt
  <1>3. ~(names[Current.proc].passed[Current.pc] > 0) /\ ~OpensInvoke(CurrentProc, Body, Current.pc)
    BY <1>1, <1>2 DEF PassesAsSaid
  <1>4. names[Current.proc].passed[Current.pc] = 0
    <2>1. Current.proc \in Procs /\ Current.pc \in 1..(Len(code[Current.proc]) + 1)
      BY <1>1, LastFrame DEF Body
    <2> QED BY <1>3, <2>1, KeepsIs
  <1>5. pending' = << >>
    BY <1>1, <1>3, <1>4, PassesNone DEF NamesKept
  <1>6. /\ GoesWith(CurrentProc, names[Current.proc], shape[Current.proc].at, Inst, Current.pc, n)
        /\ names[Current.proc].passed[n] = 0
    <2>1. CASE n = Inst.n
      BY <1>1, <2>1 DEF KeepsAt
    <2>2. CASE n = Current.pc + 1 /\ Inst.op = "jcc"
      BY <1>1, <1>2, <1>3, <2>2 DEF KeepsAt, PassesAsSaid
    <2> QED BY <2>1, <2>2
  <1>7. OwnChanges(Home(Len(frames)), Promise(shape, Len(frames)).args, memory, memory')
    BY OwnNothing
  <1>8. FramesKeep(shape, names)'
    BY <1>6, <1>7, FramesGo DEF NamesKept
  <1> QED BY <1>5, <1>6, <1>8, PassingIdle DEF NamesKept

\* A return to the frame that waits, or from the last.
LEMMA NamesReturn ==
  ASSUME Typed, Follow, code' = code, NEW shape, Verified(source, shape), Shaped(shape),
         NEW names, KeepsNames(source, shape, names), NamesKept(shape, names),
         Leaves, memory' = memory, Fetched => Inst.op = "ret"
  PROVE  NamesKept(shape, names)'
  <1>0. PICK L, M : L = Len(frames) /\ M = Len(frames) - 1
    OBVIOUS
  <1>1. frames # << >> /\ L \in Nat /\ M \in Nat /\ M < L /\ L \in 1..L /\ Len(acts) = L
    BY <1>0, LastFrame DEF Leaves, Typed, TypeOK
  <1>2. Len(frames') = M /\ source' = source /\ \A f \in 1..M : frames'[f] = frames[f]
    BY <1>0, LeavesFrames DEF Follow
  <1>3. \A f \in 1..M : acts'[f] = acts[f]
    BY <1>0, <1>1, <1>2, ActsShrink
  <1>4. \A f \in 1..M : /\ Home(f)' = Home(f) /\ Promise(shape, f)' = Promise(shape, f)
                        /\ f \in 1..L /\ \A k : LocalAt(f, k)' = LocalAt(f, k)
    BY <1>1, <1>2, <1>3 DEF Home, Promise, LocalAt
  <1>5. \A f \in 1..M : NamesHeld(shape, names, f)' /\ Idle(names, f)'
    <2>1. OwnChanges(Home(Len(frames)), Promise(shape, Len(frames)).args, memory, memory')
      BY OwnNothing
    <2> QED BY <1>0, <1>2, <1>3, <2>1, WaiterKeeps DEF NamesKept
  <1>6. \A f, g \in 1..M : f < g => LocalsApart(shape, f, g)'
    <2> SUFFICES ASSUME NEW f \in 1..M, NEW g \in 1..M, f < g PROVE LocalsApart(shape, f, g)'
      OBVIOUS
    <2>1. LocalsApart(shape, f, g)
      BY <1>0, <1>4 DEF NamesKept, FramesKeep
    <2> QED BY <1>3, <1>4, <2>1 DEF LocalsApart
  <1>7. \A f \in 1..(M - 1) : f \in 1..M
    BY <1>1
  <1>8. FramesKeep(shape, names)'
    BY <1>2, <1>5, <1>6, <1>7 DEF FramesKeep
  <1>9. names[Current.proc].passed[Current.pc] = 0 /\ ~(LineStart /\ Line.st = "invoke")
    <2>1. Current.proc \in Procs /\ Current.pc \in 1..(Len(Body) + 1) /\ Body = code[Current.proc]
      BY <1>1, LastFrame DEF Body
    <2>2. CASE Fetched
      <3>1. /\ KeepsAt(names, shape, source, Current.proc, Body, Current.pc) /\ Inst = Body[Current.pc]
            /\ CurrentProc = source[Current.proc] /\ Line = LineOf(CurrentProc, Inst)
            /\ LineStart <=> StartsLine(Body, Current.pc)
        BY <2>2, TopKeeps
      <3>2. /\ ~(names[Current.proc].passed[Current.pc] > 0) /\ ~OpensInvoke(CurrentProc, Body, Current.pc)
        BY <2>2, <3>1 DEF KeepsAt, PassesAsSaid
      <3>3. names[Current.proc].passed[Current.pc] \in Nat
        BY <2>1, KeepsIs
      <3> QED BY <3>1, <3>2, <3>3 DEF OpensInvoke
    <2>3. CASE ~Fetched
      <3>1. Current.pc = Len(code[Current.proc]) + 1
        BY <1>1, <2>1, <2>3, LastFrame DEF Fetched
      <3> QED BY <2>1, <2>3, <3>1, KeepsIs DEF LineStart
    <2> QED BY <2>2, <2>3
  <1>10. pending' = << >>
    BY <1>1, <1>9 DEF Follow, NamesKept, Passing
  <1>11. ASSUME M > 0 PROVE Passing(names)'
    <2>1. M \in 1..M
      BY <1>1, <1>11
    <2>2. Current' = frames'[M]
      BY <1>2 DEF Current
    <2> QED BY <1>5, <1>10, <2>1, <2>2 DEF Passing, Idle
  <1>12. frames' # << >> => M > 0
    <2>1. frames' \in Seq(Frames)
      BY LeavesFrames
    <2> QED BY <1>1, <1>2, <2>1
  <1> QED BY <1>8, <1>11, <1>12 DEF NamesKept

\* A call: the words pushed for it become the arguments of what it enters, and the
\* caller's names are out of its reach.
LEMMA NamesCall ==
  ASSUME Typed, Follow, code' = code, NEW shape, Verified(source, shape), Shaped(shape),
         NEW names, KeepsNames(source, shape, names), NamesKept(shape, names),
         Inst.op = "call", Inst.target \in Procs, Enters(Inst.target),
         FitsAfterCall(shape[Inst.target], shape[Current.proc].at[Current.pc], shape[Current.proc].at[Current.pc + 1]),
         push32(Cpu, ReturnMark).ok,
         regs' = push32(Cpu, ReturnMark).regs, memory' = push32(Cpu, ReturnMark).memory
  PROVE  NamesKept(shape, names)'
  <1>0. PICK L, N, p, pc, s, t, home, top, proc, body, name, args :
          /\ L = Len(frames) /\ N = L + 1 /\ p = Inst.target /\ pc = Current.pc /\ name = names[Current.proc]
          /\ s = shape[Current.proc].at[Current.pc] /\ t = shape[Current.proc].at[Current.pc + 1]
          /\ home = Home(Len(frames)) /\ top = regs["esp"] - 1 /\ proc = CurrentProc /\ body = Body
          /\ args = shape[Inst.target].args
    OBVIOUS
  <1>1. /\ frames # << >> /\ L \in Nat /\ L \in 1..L /\ Len(acts) = L /\ p \in Procs /\ Fetched
        /\ L \in 1..N /\ N \in 1..N /\ At(shape, L) = s /\ home \in Int /\ Promise(shape, L) = shape[Current.proc]
        /\ Agrees(s, home, acts[L].entry, Cpu) /\ Cpu.regs = regs /\ Cpu.memory = memory
        /\ frames[L] = Current /\ source[Current.proc] = proc /\ code[Current.proc] = body
    <2>1. frames # << >> /\ Fetched /\ p \in Procs
      BY <1>0 DEF Enters, Fetched
    <2>2. L \in Nat /\ L \in 1..L /\ N \in Nat
      BY <1>0, <2>1, LastFrame DEF Typed, TypeOK
    <2>3. L \in 1..N /\ N \in 1..N
      BY <1>0, <2>2
    <2>4. frames[L] = Current /\ source[Current.proc] = proc /\ code[Current.proc] = body
      BY <1>0 DEF Current, CurrentProc, Body
    <2>5. Cpu.regs = regs /\ Cpu.memory = memory
      BY DEF Cpu
    <2>6. /\ Len(acts) = L /\ At(shape, L) = s /\ home \in Int /\ Promise(shape, L) = shape[Current.proc]
          /\ Agrees(s, home, acts[L].entry, Cpu)
      BY <1>0, <2>1, TopIs
    <2> QED BY <2>1, <2>2, <2>3, <2>4, <2>5, <2>6
  <1>2. /\ Len(frames') = N /\ source' = source /\ \A f \in 1..(L - 1) : frames'[f] = frames[f]
        /\ frames'[L] = [proc |-> Current.proc, pc |-> pc + 1] /\ frames'[N] = [proc |-> p, pc |-> 1]
    BY <1>0, EntersFrames DEF Follow
  <1>3. /\ frames'[L].proc = Current.proc /\ frames'[L].pc = pc + 1
        /\ frames'[N].proc = p /\ frames'[N].pc = 1
        /\ Current'.proc = p /\ Current'.pc = 1
    <2>1. Current' = frames'[N]
      BY <1>2 DEF Current
    <2> QED BY <1>2, <2>1
  <1>4. /\ \A f \in 1..L : acts'[f] = acts[f]
        /\ acts'[N].entry = regs /\ acts'[N].args = pending /\ DOMAIN acts'[N].locals = {}
    <2>1. acts'[N] = Activation(regs, pending) /\ \A f \in 1..L : acts'[f] = acts[f]
      BY <1>0, <1>1, <1>2, ActsGrow
    <2> QED BY <2>1 DEF Activation
  <1>5. /\ Inst = body[pc] /\ SparesNames(proc, body, s, Inst) /\ AssignsAsSaid(proc, name, body, pc, s)
        /\ PassesAsSaid(proc, name, body, pc, s) /\ CallsWith(names, shape, proc, body, name, pc, s)
        /\ GoesWith(proc, name, shape[Current.proc].at, Inst, pc, pc + 1)
        /\ Line = LineOf(proc, Inst)
    BY <1>0, <1>1, TopKeeps DEF KeepsAt
  <1>6. /\ LineStart <=> StartsLine(body, pc)
        /\ name.passed[pc] \in Nat
    <2>1. Current.proc \in Procs /\ pc \in 1..(Len(code[Current.proc]) + 1)
      BY <1>0, <1>1, LastFrame DEF Body
    <2> QED BY <1>0, <1>1, <2>1, KeepsIs, TopKeeps
  <1>7. /\ s.depth \in Nat /\ s.base \in Nat /\ regs["esp"] = home - s.depth /\ top = home - (s.depth + 1)
        /\ top \in Int /\ top < home /\ regs["esp"] = top + 1
    <2>1. s.depth \in Nat /\ s.base \in Nat /\ regs["esp"] = home - s.depth
      BY <1>1 DEF Agrees, IsShape, Told, RegsTold
    <2>2. \A h, d \in Int : h - d - 1 = h - (d + 1) /\ h - d - 1 \in Int /\ h - d = h - d - 1 + 1
                            /\ (d >= 0 => h - d - 1 < h)
      OBVIOUS
    <2>3. top = home - s.depth - 1 /\ s.depth \in Int /\ s.depth >= 0
      BY <1>0, <2>1
    <2> QED BY <1>1, <2>1, <2>2, <2>3
  <1>8. /\ top \in Slots /\ \A a \in Slots : a # top => memory'[a] = memory[a]
    <2>1. \A a \in Slots : /\ a # top => memory'[a] = memory[a]
                           /\ top \in Slots
      BY <1>1, <1>7, PushWrites
    <2>2. regs["esp"] - 1 \in Slots
      BY <1>1, FailedIs, CpuIs DEF push32
    <2> QED BY <1>0, <2>1, <2>2
  <1>9. /\ args \in Nat /\ args <= s.depth /\ Promise(shape, L).args \in Nat
        /\ top + args < home /\ top + args \in Int
    <2>1. args \in Nat /\ args <= s.depth /\ Promise(shape, L).args \in Nat
      BY <1>0, <1>1, VerifiedIs, PromiseIs DEF IsSummary, FitsAfterCall
    <2> QED BY <1>1, <1>7, <2>1
  <1>10. NamesHeld(shape, names, L) /\ Passing(names)
    BY <1>0, <1>1 DEF NamesKept, FramesKeep
  <1>11. ~Assigns(proc, Inst)
    BY <1>5 DEF AssignsAsSaid
  \* The words pushed.
  <1>12. /\ name.passed[pc + 1] = 0 /\ pending' = << >> /\ Len(pending) \in Nat /\ names[p].words <= Len(pending)
         /\ \A w \in 1..Len(pending) : top + w \in Slots /\ pending[w] = memory[top + w]
    <2> DEFINE j == name.passed[pc]
               n == Len(LineOf(proc, Inst).args)
    <2>0. names[p].words \in Nat /\ names[p].words <= (IF j > 0 THEN n ELSE 0)
      BY <1>0, <1>1, <1>5, KeepsIs DEF CallsWith
    <2>1. CASE j > 0
      <3>1. j = n /\ n > 0 /\ n \in Nat /\ name.passed[pc + 1] = 0 /\ ~StartsLine(body, pc)
        BY <1>5, <2>1 DEF PassesAsSaid
      <3>2. pending' = << >>
        BY <1>1, <1>6, <3>1 DEF Follow
      <3>3. /\ Len(pending) = n
            /\ \A w \in 1..n : IF w <= n - j THEN pending[w] = Meaning(Line.args[w])
                               ELSE /\ regs["esp"] + (w - (n - j)) - 1 \in Slots
                                    /\ pending[w] = memory[regs["esp"] + (w - (n - j)) - 1]
        <4>1. Passing(names) /\ names[Current.proc].passed[Current.pc] = j /\ Line.args = LineOf(proc, Inst).args
              /\ j # 0
          BY <1>0, <1>5, <1>10, <2>1
        <4>2. Len(Line.args) = n
          BY <4>1
        <4> HIDE DEF j, n
        <4> QED BY <4>1, <4>2 DEF Passing
      <3>4. ASSUME NEW w \in 1..n PROVE top + w \in Slots /\ pending[w] = memory[top + w]
        <4>1. ~(w <= n - j) /\ regs["esp"] + (w - (n - j)) - 1 = top + w
          BY <1>7, <3>1
        <4> QED BY <3>3, <4>1
      <3> QED BY <2>0, <2>1, <3>1, <3>2, <3>3, <3>4
    <2>2. CASE j = 0
      <3>1. ~OpensInvoke(proc, body, pc) /\ name.passed[pc + 1] = 0
        BY <1>5, <2>2 DEF PassesAsSaid
      <3>2. pending = << >> /\ pending' = << >>
        BY <1>0, <1>1, <1>10, <2>2, <3>1, PassesNone
      <3> QED BY <2>0, <2>2, <3>1, <3>2
    <2> QED BY <1>6, <2>1, <2>2
  <1>13. \A f \in 1..L : Home(f)' = Home(f) /\ Promise(shape, f)' = Promise(shape, f) /\ \A k : LocalAt(f, k)' = LocalAt(f, k)
    <2> SUFFICES ASSUME NEW f \in 1..L PROVE frames'[f].proc = frames[f].proc
      BY <1>2, <1>4 DEF Home, Promise, LocalAt
    <2>1. f = L \/ f \in 1..(L - 1)
      BY <1>1
    <2> QED BY <1>1, <1>2, <1>3, <2>1
  <1>14. Home(N)' = top /\ Promise(shape, N)' = shape[p]
    BY <1>0, <1>3, <1>4 DEF Home, Promise
  <1>15. \A f \in 1..(L - 1) : NamesHeld(shape, names, f)' /\ Idle(names, f)'
    <2>1. OwnChanges(home, Promise(shape, L).args, memory, memory')
      <3> DEFINE P == Promise(shape, L).args
      <3>1. \A a \in Slots : a = home \/ a > home + P => memory'[a] = memory[a]
        <4> SUFFICES ASSUME NEW a \in Slots, a = home \/ a > home + P PROVE a # top
          BY <1>8
        <4>1. P \in Nat /\ a \in Int
          BY <1>9 DEF Slots
        <4> HIDE DEF P
        <4> QED BY <1>1, <1>7, <4>1
      <3> QED BY <3>1 DEF OwnChanges
    <2>2. \A f \in 1..(L - 1) : f \in 1..L
      BY <1>1
    <2> QED BY <1>0, <1>2, <1>4, <2>1, <2>2, WaiterKeeps DEF NamesKept
  <1>16. ASSUME NEW k \in DOMAIN acts[L].locals
         PROVE  /\ k \in Named(proc, body) /\ s.base > 0
                /\ LocalAt(L, k) \in Slots /\ memory[LocalAt(L, k)] = acts[L].locals[k]
                /\ LocalAt(L, k) # top /\ top + args < LocalAt(L, k)
    <2>1. /\ k \in Named(proc, body) /\ s.base > 0
          /\ LocalAt(L, k) \in Slots /\ memory[LocalAt(L, k)] = acts[L].locals[k]
      BY <1>1, <1>10 DEF NamesHeld, LocalsHeld
    <2>2. LocalAt(L, k) = home - SlotOf(proc, s, k) /\ SlotOf(proc, s, k) \in Int
      BY <1>0, <1>1, <2>1, LocalPlace
    <2>3. SlotOf(proc, s, k) <= s.depth - args
      BY <1>0, <1>1, <1>5, <2>1 DEF CallsWith
    <2>4. PICK x, d : x = SlotOf(proc, s, k) /\ d = s.depth
      OBVIOUS
    <2>5. x \in Int /\ d \in Int /\ args \in Int /\ args >= 0 /\ x <= d - args /\ top = home - (d + 1)
          /\ LocalAt(L, k) = home - x
      BY <1>7, <1>9, <2>2, <2>3, <2>4
    <2>6. top + args < home - x /\ home - x # top
      BY <1>1, <2>5
    <2> QED BY <2>1, <2>5, <2>6
  <1>17. NamesHeld(shape, names, L)' /\ Idle(names, L)'
    <2>1. At(shape, L)' = t /\ (s.base > 0 => t.base = s.base)
      BY <1>0, <1>3, <1>5 DEF At, Promise, GoesWith
    <2>2. LocalsHeld(shape, L)'
      BY <1>1, <1>2, <1>3, <1>4, <1>8, <1>13, <1>16, <2>1 DEF LocalsHeld
    <2>3. ArgsHeld(names, L)'
      <3> SUFFICES ASSUME NEW w \in 1..Len(acts[L].args)
                   PROVE  home + w \in Slots /\ memory'[home + w] = acts[L].args[w]
        BY <1>0, <1>1, <1>3, <1>4, <1>10, <1>13 DEF ArgsHeld, NamesHeld
      <3>1. home + w \in Slots /\ memory[home + w] = acts[L].args[w] /\ w \in Int /\ w >= 1
        BY <1>0, <1>10 DEF NamesHeld, ArgsHeld
      <3>2. home + w # top
        BY <1>1, <1>7, <3>1
      <3> QED BY <1>8, <3>1, <3>2
    <2>4. name.set[pc + 1] \subseteq DOMAIN acts[L].locals
      BY <1>0, <1>1, <1>5, <1>10, <1>11 DEF GoesWith, NamesHeld
    <2> QED BY <1>0, <1>1, <1>3, <1>4, <1>12, <2>2, <2>3, <2>4 DEF NamesHeld, Idle
  <1>18. NamesHeld(shape, names, N)'
    <2>1. LocalsHeld(shape, N)'
      BY <1>4 DEF LocalsHeld
    <2>2. ArgsHeld(names, N)'
      <3> SUFFICES ASSUME NEW w \in 1..Len(pending)
                   PROVE  top + w \in Slots /\ memory'[top + w] = pending[w]
        BY <1>3, <1>4, <1>12, <1>14 DEF ArgsHeld
      <3>1. top + w \in Slots /\ pending[w] = memory[top + w] /\ w \in Int /\ w >= 1
        BY <1>12
      <3>2. top + w # top
        BY <1>7, <3>1
      <3> QED BY <1>8, <3>1, <3>2
    <2>3. names[p].set[1] = {}
      BY <1>1, KeepsIs
    <2> QED BY <1>3, <2>1, <2>2, <2>3 DEF NamesHeld
  <1>19. Passing(names)'
    <2>1. names[p].passed[1] = 0
      BY <1>1, KeepsIs
    <2> QED BY <1>3, <1>12, <2>1 DEF Passing
  <1>20. \A f \in 1..N : f = N \/ f = L \/ f \in 1..(L - 1)
    BY <1>0, <1>1
  <1>21. ASSUME NEW f \in 1..N, NEW g \in 1..N, f < g PROVE LocalsApart(shape, f, g)'
    <2>1. f \in 1..L
      BY <1>0, <1>1, <1>21
    <2>2. CASE g \in 1..L
      <3>1. LocalsApart(shape, f, g)
        BY <1>0, <1>21, <2>1, <2>2 DEF NamesKept, FramesKeep
      <3> QED BY <1>4, <1>13, <2>1, <2>2, <3>1 DEF LocalsApart
    <2>3. CASE g = N /\ f = L
      BY <1>0, <1>4, <1>13, <1>14, <1>16, <2>1, <2>3 DEF LocalsApart
    <2>4. CASE g = N /\ f # L
      <3>1. f < L /\ L \in 1..L
        BY <1>0, <1>1, <2>1, <2>4
      <3>2. LocalsApart(shape, f, L) /\ NamesHeld(shape, names, f)
        BY <1>0, <2>1, <3>1 DEF NamesKept, FramesKeep
      <3>3. ASSUME NEW k \in DOMAIN acts[f].locals PROVE top + args < LocalAt(f, k)
        <4>1. home + Promise(shape, L).args < LocalAt(f, k)
          BY <1>0, <3>2 DEF LocalsApart
        <4>2. LocalAt(f, k) \in Int
          BY <3>2 DEF NamesHeld, LocalsHeld, Slots
        <4> QED BY <1>1, <1>9, <4>1, <4>2
      <3> QED BY <1>0, <1>4, <1>13, <1>14, <2>1, <2>4, <3>3 DEF LocalsApart
    <2>5. g \in 1..L \/ g = N
      BY <1>0, <1>1
    <2> QED BY <2>2, <2>3, <2>4, <2>5
  <1>22. N - 1 = L /\ \A f \in 1..L : f = L \/ f \in 1..(L - 1)
    BY <1>0, <1>1
  <1>23. \A f \in 1..N : NamesHeld(shape, names, f)'
    BY <1>15, <1>17, <1>18, <1>20
  <1>24. \A f \in 1..(Len(frames') - 1) : Idle(names, f)'
    BY <1>2, <1>15, <1>17, <1>22
  <1>25. FramesKeep(shape, names)'
    BY <1>2, <1>21, <1>23, <1>24 DEF FramesKeep
  <1> QED BY <1>19, <1>25 DEF NamesKept

LEMMA NamesEnd == ASSUME frames' = << >>, NEW shape, NEW names PROVE NamesKept(shape, names)'
  <1>1. Len(frames') = 0 /\ 1..0 = {} /\ 1..(0 - 1) = {}
    OBVIOUS
  <1>2. FramesKeep(shape, names)'
    BY <1>1 DEF FramesKeep
  <1> QED BY <1>2 DEF NamesKept

\* Whatever an accepted program does next, short of an error, keeps its names.
LEMMA NamesStep ==
  ASSUME Typed, PNext, NEW shape, Verified(source, shape), Shaped(shape),
         NEW names, KeepsNames(source, shape, names), NamesKept(shape, names), status' = "running"
  PROVE  NamesKept(shape, names)'
  <1>0. Follow /\ Step /\ ~Error /\ code' = code /\ Shaped(shape)'
    BY ShapedStep DEF PNext, Step, Error
  <1>1. ASSUME NEW op, NEW st, Straight(op, st), op \in Staying, st = Exec(Cpu, Inst)
        PROVE  NamesKept(shape, names)'
    <2>1. Fetched /\ Inst.op = op /\ Commit(st, Advanced)
      BY <1>1 DEF Straight
    <2>2. st.ok /\ regs' = st.regs /\ memory' = st.memory /\ frames' = Advanced
      BY <1>0, <2>1 DEF Commit
    <2> QED BY <1>0, <1>1, <2>1, <2>2, NamesGoOn
  <1>2. CASE Mov
    BY <1>1, <1>2 DEF Mov, Straight, Exec, Staying
  <1>3. CASE Add
    BY <1>1, <1>3 DEF Add, Straight, Exec, Staying
  <1>4. CASE Sub
    BY <1>1, <1>4 DEF Sub, Straight, Exec, Staying
  <1>5. CASE Push
    BY <1>1, <1>5 DEF Push, Straight, Exec, Staying
  <1>6. CASE Pop
    BY <1>1, <1>6 DEF Pop, Straight, Exec, Staying
  <1>7. CASE Pushad
    BY <1>1, <1>7 DEF Pushad, Straight, Exec, Staying
  <1>8. CASE Popad
    BY <1>1, <1>8 DEF Popad, Straight, Exec, Staying
  <1>9. CASE Enter
    BY <1>1, <1>9 DEF Enter, Straight, Exec, Staying
  <1>10. CASE Leave
    BY <1>1, <1>10 DEF Leave, Straight, Exec, Staying
  <1>11. CASE Builtin
    <2>1. Straight("builtin", assign(Cpu, Reg("eax"), Inst.a.val))
      BY <1>11 DEF Builtin, Straight
    <2>2. Exec(Cpu, Inst) = assign(Cpu, Reg("eax"), Inst.a.val)
      BY <1>11 DEF Builtin, Exec
    <2> QED BY <1>1, <2>1, <2>2 DEF Staying
  <1>12. CASE Invoke
    <2>1. Straight("invoke", push32(Cpu, ReturnMark))
      BY <1>0, <1>12 DEF Invoke, Straight
    <2>2. Exec(Cpu, Inst) = push32(Cpu, ReturnMark)
      BY <1>12 DEF Invoke, Exec
    <2> QED BY <1>1, <2>1, <2>2 DEF Staying
  <1>13. CASE Call
    <2>1. Fetched /\ Inst.op = "call" /\ Inst.target \in Procs /\ enterProcedure(Cpu, Inst.target)
      BY <1>0, <1>13 DEF Call
    <2>2. /\ push32(Cpu, ReturnMark).ok
          /\ regs' = push32(Cpu, ReturnMark).regs /\ memory' = push32(Cpu, ReturnMark).memory
          /\ frames' = Append(Advanced, [proc |-> Inst.target, pc |-> 1])
      BY <1>0, <2>1 DEF enterProcedure, Commit
    <2>3. Enters(Inst.target)
      BY <2>1, <2>2 DEF Enters
    <2>4. FitsAfterCall(shape[Inst.target], shape[Current.proc].at[Current.pc],
                        shape[Current.proc].at[Current.pc + 1])
      BY <2>1, TopIs DEF Accepts, Fetched
    <2> QED BY <1>0, <2>1, <2>2, <2>3, <2>4, NamesCall
  <1>14. CASE CallIndirect
    <2>1. Fetched /\ Inst.op = "call_indirect"
      BY <1>14 DEF CallIndirect
    <2> QED BY <2>1, TopIs DEF Accepts, Allowed, Fetched
  <1>15. CASE Ret
    <2>1. Inst.op = "ret"
      BY <1>15 DEF Ret
    <2>2. Leaves /\ memory' = memory
      BY <1>15, RetGives
    <2> QED BY <1>0, <2>1, <2>2, NamesReturn
  <1>16. CASE Jmp \/ Jcc
    <2>1. Fetched /\ Inst.op \in {"jmp", "jcc"} /\ Cpu.regs = regs /\ Cpu.memory = memory
      BY <1>16 DEF Jmp, Jcc, Cpu
    <2>2. Current.proc \in Procs /\ Body = code[Current.proc] /\ DOMAIN shape[Current.proc].at = 1..(Len(Body) + 1)
      BY <2>1, LastFrame, VerifiedIs DEF Body, Fetched
    <2>3. CASE Jump
      <3>1. /\ Inst.n \in 1..(Len(Body) + 1) /\ memory' = memory
            /\ frames' = [frames EXCEPT ![Len(frames)].pc = Inst.n]
        BY <1>0, <2>1, <2>3 DEF Jump, Commit
      <3>2. Goes(Inst.n)
        BY <2>1, <3>1 DEF Goes, Fetched
      <3>3. Inst.n \in DOMAIN shape[Current.proc].at
        BY <2>2, <3>1
      <3> QED BY <1>0, <2>1, <3>1, <3>2, <3>3, NamesGoTo
    <2>4. CASE Inst.op = "jcc" /\ Commit(Cpu, Advanced)
      <3>1. memory' = memory /\ frames' = Advanced
        BY <1>0, <2>1, <2>4 DEF Commit
      <3>2. Goes(Current.pc + 1)
        BY <2>1, <3>1, AdvancedGoes
      <3>3. Current.pc + 1 \in DOMAIN shape[Current.proc].at
        BY <2>1, <2>2, TopKeeps
      <3> QED BY <1>0, <2>1, <2>4, <3>1, <3>2, <3>3, NamesGoTo
    <2> QED BY <1>16, <2>3, <2>4 DEF Jmp, Jcc
  <1>17. CASE Exit \/ ExitProcess
    BY <1>17, NamesEnd DEF Exit, ExitProcess
  <1>18. CASE FallOff
    <2>1. ~Fetched /\ Leaves /\ memory' = memory
      BY <1>18, FallGives DEF FallOff
    <2> QED BY <1>0, <2>1, NamesReturn
  <1>19. CASE Finish
    BY <1>19 DEF Finish
  <1> QED BY <1>0, <1>2, <1>3, <1>4, <1>5, <1>6, <1>7, <1>8, <1>9, <1>10, <1>11, <1>12, <1>13, <1>14,
             <1>15, <1>16, <1>17, <1>18, <1>19 DEF Step
-----------------------------------------------------------------------------
(***************************************************************************)
(* Runs                                                                     *)
(***************************************************************************)
\* The inductive invariant, beside InShape: until an error, whatever accepts the
\* program tells what the names of every frame stand for.
Remembered == status = "running" =>
                \A shape, names : Verified(source, shape) /\ KeepsNames(source, shape, names) => NamesKept(shape, names)

LEMMA RememberedInit == ASSUME PInit PROVE Remembered
  <1>1. InShape
    BY InShapeInit
  <1>2. SUFFICES ASSUME NEW shape, NEW names, Verified(source, shape), KeepsNames(source, shape, names)
                 PROVE  NamesKept(shape, names)
    BY DEF Remembered
  <1>3. /\ frames = <<[proc |-> Main, pc |-> 1]>> /\ pending = << >>
        /\ acts = <<Activation([regs EXCEPT !["esp"] = MemTop + 1], << >>)>>
    BY DEF PInit, Boot
  <1>4. /\ Len(frames) = 1 /\ frames[1].proc = Main /\ frames[1].pc = 1 /\ Current.proc = Main /\ Current.pc = 1
    BY <1>3 DEF Current
  <1>5. acts[1].args = << >> /\ DOMAIN acts[1].locals = {}
    BY <1>3 DEF Activation
  <1>6. /\ names[Main].words = 0 /\ names[Main].set[1] = {} /\ names[Main].passed[1] = 0
    <2>1. Main \in Procs /\ Typed
      BY <1>1, ProgramAssumption DEF InShape
    <2> QED BY <1>2, <2>1, KeepsIs DEF KeepsNames
  <1>7. LocalsHeld(shape, 1) /\ LocalsApart(shape, 1, 1)
    BY <1>5 DEF LocalsHeld, LocalsApart
  <1>8. ArgsHeld(names, 1)
    <2>1. Len(<< >>) = 0 /\ 1..0 = {}
      OBVIOUS
    <2> QED BY <1>4, <1>5, <1>6, <2>1 DEF ArgsHeld
  <1>9. NamesHeld(shape, names, 1)
    BY <1>4, <1>5, <1>6, <1>7, <1>8 DEF NamesHeld
  <1>10. \A f \in 1..1 : f = 1
    OBVIOUS
  <1>11. 1..(1 - 1) = {}
    OBVIOUS
  <1>12. FramesKeep(shape, names)
    BY <1>4, <1>7, <1>9, <1>10, <1>11 DEF FramesKeep
  <1>13. Passing(names)
    BY <1>3, <1>4, <1>6 DEF Passing
  <1> QED BY <1>12, <1>13 DEF NamesKept

LEMMA RememberedNext == ASSUME InShape, Remembered, [PNext]_vars PROVE Remembered'
  <1>1. CASE UNCHANGED vars
    <2>1. /\ source' = source /\ code' = code /\ frames' = frames /\ acts' = acts /\ pending' = pending
          /\ regs' = regs /\ memory' = memory /\ status' = status
      BY <1>1 DEF vars, mvars
    <2> SUFFICES ASSUME status' = "running", NEW shape, NEW names,
                        (Verified(source, shape) /\ KeepsNames(source, shape, names))'
                 PROVE  NamesKept(shape, names)'
      BY DEF Remembered
    <2>2. Verified(source, shape) /\ KeepsNames(source, shape, names)
      BY <2>1
    <2>3. NamesKept(shape, names)
      BY <2>1, <2>2 DEF Remembered
    <2>4. Current' = Current /\ Inst' = Inst /\ CurrentProc' = CurrentProc /\ Top' = Top
      BY <2>1 DEF Current, Inst, Body, CurrentProc, Top
    <2>5. Line' = Line /\ \A op : Meaning(op)' = Meaning(op)
      BY <2>1, <2>4 DEF Line, Meaning
    <2>6. Passing(names)' <=> Passing(names)
      BY <2>1, <2>4, <2>5 DEF Passing
    <2>7. \A f : /\ Home(f)' = Home(f) /\ At(shape, f)' = At(shape, f) /\ Promise(shape, f)' = Promise(shape, f)
                 /\ \A k : LocalAt(f, k)' = LocalAt(f, k)
      BY <2>1 DEF Home, At, Promise, LocalAt
    <2>8. FramesKeep(shape, names)' <=> FramesKeep(shape, names)
      BY <2>1, <2>7 DEF FramesKeep, NamesHeld, LocalsHeld, ArgsHeld, LocalsApart, Idle
    <2> QED BY <2>1, <2>3, <2>6, <2>8 DEF NamesKept
  <1>2. CASE PNext
    <2>1. source' = source /\ status = "running" /\ Typed
      BY <1>2 DEF InShape, PNext, Follow, Step
    <2> SUFFICES ASSUME status' = "running", NEW shape, NEW names,
                        (Verified(source, shape) /\ KeepsNames(source, shape, names))'
                 PROVE  NamesKept(shape, names)'
      BY DEF Remembered
    <2>2. Verified(source, shape) /\ KeepsNames(source, shape, names)
      BY <2>1
    <2>3. Shaped(shape) /\ NamesKept(shape, names)
      BY <2>1, <2>2 DEF InShape, Ordered, Remembered
    <2> QED BY <1>2, <2>1, <2>2, <2>3, NamesStep
  <1> QED BY <1>1, <1>2

LEMMA RememberedAlways == Spec => [](InShape /\ Remembered)
  <1>1. PInit => InShape /\ Remembered
    BY InShapeInit, RememberedInit
  <1>2. InShape /\ Remembered /\ [PNext]_vars => (InShape /\ Remembered)'
    BY InShapeNext, RememberedNext
  <1> QED BY <1>1, <1>2, PTL DEF Spec

\* In a program Names accepts, the locals of every frame, at any depth of calls and
\* of recursion, hold what the lines of their own procedure last gave them
\* (parseLocalLine).
THEOREM LocalsAreKept == Spec => [](Faithful(source) => LocalsKept)
  <1>1. InShape /\ Remembered => (Faithful(source) => LocalsKept)
    <2> SUFFICES ASSUME InShape, Remembered, Faithful(source), status = "running",
                        NEW f \in 1..Len(acts), NEW k \in DOMAIN acts[f].locals
                 PROVE  memory[acts[f].base + LocalDisp(source[frames[f].proc], k)] = acts[f].locals[k]
      BY DEF LocalsKept
    <2>1. PICK shape, names : Verified(source, shape) /\ KeepsNames(source, shape, names)
      BY DEF Faithful
    <2>2. NamesKept(shape, names) /\ Len(acts) = Len(frames)
      BY <2>1 DEF Remembered, InShape, Typed, TypeOK
    <2>3. LocalsHeld(shape, f)
      BY <2>2 DEF NamesKept, FramesKeep, NamesHeld
    <2> QED BY <2>3 DEF LocalsHeld, LocalAt
  <1> QED BY <1>1, RememberedAlways, PTL

\* In a program Names accepts, a parameter's name means on every line the words the
\* procedure was invoked with, as many of them as there are (installParamAliases,
\* parseInvoke).
THEOREM ParamsAreNamed == Spec => [](Faithful(source) => ParamsNamed)
  <1>1. InShape /\ Remembered => (Faithful(source) => ParamsNamed)
    <2> SUFFICES ASSUME InShape, Remembered, Faithful(source), status = "running", LineStart,
                        NEW i \in 1..Len(CurrentProc.params), NEW k \in 0..(CurrentProc.params[i] - 1),
                        FirstWord(CurrentProc, i) + k <= Len(Top.args)
                 PROVE  memory[regs["ebp"] + ParamDisp(CurrentProc, i) + k] = Top.args[FirstWord(CurrentProc, i) + k]
      BY DEF ParamsNamed
    <2>0. PICK L, home, w : L = Len(frames) /\ home = Home(Len(frames)) /\ w = FirstWord(CurrentProc, i)
      OBVIOUS
    <2>1. PICK shape, names : Verified(source, shape) /\ KeepsNames(source, shape, names)
      BY DEF Faithful
    <2>2. NamesKept(shape, names) /\ Shaped(shape) /\ Typed /\ Fetched /\ frames # << >>
      BY <2>1 DEF Remembered, InShape, Ordered, LineStart, Fetched
    <2>3. /\ KeepsAt(names, shape, source, Current.proc, Body, Current.pc) /\ StartsLine(Body, Current.pc)
          /\ CurrentProc = source[Current.proc] /\ Current.proc \in Procs
      BY <2>1, <2>2, TopKeeps
    <2>4. CurrentProc.params # << >>
      <3>1. Len(<< >>) = 0 /\ 1..0 = {}
        OBVIOUS
      <3> QED BY <3>1
    <2>5. shape[Current.proc].at[Current.pc].regs["ebp"] = Frame(1)
      BY <2>3, <2>4 DEF KeepsAt
    <2>6. /\ L \in 1..L /\ Len(acts) = L /\ home \in Int /\ Top = acts[L] /\ Cpu.regs = regs
          /\ Agrees(shape[Current.proc].at[Current.pc], home, acts[L].entry, Cpu)
      BY <2>0, <2>1, <2>2, TopIs DEF Top, Cpu
    <2>7. regs["ebp"] = home - 1
      <3>1. "ebp" \in Regs \ {"esp"}
        BY DEF Regs
      <3>2. PICK s : s = shape[Current.proc].at[Current.pc]
        OBVIOUS
      <3>3. Denotes(s.regs["ebp"], home, acts[L].entry, regs["ebp"])
        BY <2>6, <3>1, <3>2 DEF Agrees, Told, RegsTold
      <3>4. Frame(1).of = "frame" /\ Frame(1).at = 1
        <4>1. 1 \in Nat
          OBVIOUS
        <4> QED BY <4>1, FrameKnown
      <3>5. s.regs["ebp"] = Frame(1)
        BY <2>5, <3>2
      <3> QED BY <3>3, <3>4, <3>5 DEF Denotes
    <2>8. w \in Nat \ {0} /\ ParamDisp(CurrentProc, i) = w + 1
      BY <2>0, <2>1, <2>2, <2>3, KeepsIs
    <2>9. /\ Len(acts[L].args) \in Nat
          /\ \A x \in 1..Len(acts[L].args) : memory[home + x] = acts[L].args[x]
      BY <2>0, <2>2, <2>6 DEF NamesKept, FramesKeep, NamesHeld, ArgsHeld
    <2>10. w + k \in 1..Len(acts[L].args) /\ k \in Int
      <3>1. k \in Int /\ k >= 0 /\ w + k <= Len(acts[L].args)
        BY <2>0, <2>6
      <3> QED BY <2>8, <2>9, <3>1
    <2>11. regs["ebp"] + ParamDisp(CurrentProc, i) + k = home + (w + k)
      BY <2>6, <2>7, <2>8, <2>10
    <2> QED BY <2>0, <2>6, <2>9, <2>10, <2>11
  <1> QED BY <1>1, RememberedAlways, PTL
=============================================================================
