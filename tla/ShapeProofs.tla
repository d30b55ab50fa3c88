---------------------------- MODULE ShapeProofs ----------------------------
(***************************************************************************)
(* What a shape says of registers and memory, and that the shape Discipline *)
(* computes for after an instruction says it of what the instruction does:  *)
(* one instruction of one procedure.  DisciplineProofs does the runs.       *)
(***************************************************************************)
EXTENDS Discipline, ProcsProofs

\* A word is as it is known to be, in a frame whose return address is at home and
\* whose caller had the registers entry.
Denotes(known, home, entry, word) ==
  /\ known.of = "caller" => word = entry[known.reg]
  /\ known.of = "frame" => word = home - known.at

\* Registers and memory are as a shape tells.
SlotsTold(s, home, entry, m) ==
  \A i \in 1..s.depth :
    s.slots[i].of # "any" => home - i \in Slots /\ Denotes(s.slots[i], home, entry, m[home - i])

RegsTold(s, home, entry, r) ==
  /\ r["esp"] = home - s.depth
  /\ \A k \in Regs \ {"esp"} : Denotes(s.regs[k], home, entry, r[k])

Told(s, home, entry, st) ==
  SlotsTold(s, home, entry, st.memory) /\ RegsTold(s, home, entry, st.regs)

\* Of memory nothing changes but the frame's own slots and the words the procedure
\* may write: not the return address, nor anything beyond.
OwnChanges(home, args, m, n) ==
  \A a \in Slots : a = home \/ a > home + args => n[a] = m[a]

LEMMA UnknownIs ==
  /\ Unknown \in Knowledge /\ Unknown.of = "any"
  /\ \A home, entry, word : Denotes(Unknown, home, entry, word)
  BY DEF Unknown, Knowledge, Regs, Denotes

LEMMA FrameKnown ==
  ASSUME NEW k \in Nat
  PROVE  /\ Frame(k) \in Knowledge /\ Frame(k).of = "frame" /\ Frame(k).at = k
         /\ \A home, entry, word : word = home - k => Denotes(Frame(k), home, entry, word)
  BY DEF Frame, Knowledge, Regs, Denotes

LEMMA OfTold ==
  ASSUME NEW s, IsShape(s), NEW home \in Int, NEW entry, NEW r, RegsTold(s, home, entry, r), NEW k \in Regs
  PROVE  Of(s, k) \in Knowledge /\ Denotes(Of(s, k), home, entry, r[k])
  <1>1. CASE k = "esp"
    <2>1. s.depth \in Nat /\ r[k] = home - s.depth
      BY <1>1 DEF IsShape, RegsTold
    <2> QED BY <1>1, <2>1, FrameKnown DEF Of
  <1>2. CASE k # "esp"
    BY <1>2 DEF Of, IsShape, RegsTold
  <1> QED BY <1>1, <1>2

LEMMA ResizedIs ==
  ASSUME NEW s, IsShape(s), NEW n \in Nat
  PROVE  /\ IsShape(Resized(s, n)) /\ Resized(s, n).depth = n
         /\ Resized(s, n).regs = s.regs /\ Resized(s, n).base = s.base /\ Resized(s, n).live = s.live
         /\ \A i \in 1..n : Resized(s, n).slots[i] = IF i <= s.depth THEN s.slots[i] ELSE Unknown
  <1> DEFINE slots == [i \in 1..n |-> IF i <= s.depth THEN s.slots[i] ELSE Unknown]
  <1>1. slots \in [1..n -> Knowledge]
    BY UnknownIs DEF IsShape
  <1>2. \A i \in 1..n : slots[i] = IF i <= s.depth THEN s.slots[i] ELSE Unknown
    OBVIOUS
  <1>3. Resized(s, n) = [s EXCEPT !.depth = n, !.slots = slots]
    BY DEF Resized
  <1> HIDE DEF slots
  <1>4. /\ DOMAIN Resized(s, n) = ShapeFields /\ Resized(s, n).depth = n
        /\ Resized(s, n).regs = s.regs /\ Resized(s, n).base = s.base /\ Resized(s, n).live = s.live
        /\ Resized(s, n).slots = slots
    BY <1>3 DEF IsShape, ShapeFields
  <1> QED BY <1>1, <1>2, <1>4 DEF IsShape

LEMMA ResizedTold ==
  ASSUME NEW s, IsShape(s), NEW n \in Nat, NEW home \in Int, NEW entry, NEW m,
         SlotsTold(s, home, entry, m)
  PROVE  SlotsTold(Resized(s, n), home, entry, m)
  <1> SUFFICES ASSUME NEW i \in 1..n, Resized(s, n).slots[i].of # "any"
               PROVE  /\ home - i \in Slots
                      /\ Denotes(Resized(s, n).slots[i], home, entry, m[home - i])
    BY ResizedIs DEF SlotsTold
  <1>1. i <= s.depth /\ Resized(s, n).slots[i] = s.slots[i]
    BY ResizedIs, UnknownIs
  <1>2. i \in 1..s.depth
    BY <1>1 DEF IsShape
  <1> QED BY <1>1, <1>2 DEF SlotsTold

LEMMA WithTopIs ==
  ASSUME NEW s, IsShape(s), NEW known \in Knowledge
  PROVE  LET t == WithTop(s, known)
         IN  /\ IsShape(t) /\ t.depth = s.depth + 1
             /\ t.regs = s.regs /\ t.base = s.base /\ t.live = s.live
             /\ t.slots[s.depth + 1] = known
             /\ \A i \in 1..s.depth : t.slots[i] = s.slots[i]
  <1> DEFINE slots == [i \in 1..(s.depth + 1) |-> IF i <= s.depth THEN s.slots[i] ELSE known]
             t == WithTop(s, known)
  <1>0. s.depth \in Nat
    BY DEF IsShape
  <1>1. slots \in [1..(s.depth + 1) -> Knowledge]
    BY <1>0 DEF IsShape
  <1>2. slots[s.depth + 1] = known /\ \A i \in 1..s.depth : slots[i] = s.slots[i]
    BY <1>0
  <1>3. t = [s EXCEPT !.depth = s.depth + 1, !.slots = slots]
    BY DEF WithTop
  <1> HIDE DEF slots, t
  <1>4. /\ DOMAIN t = ShapeFields /\ t.depth = s.depth + 1
        /\ t.regs = s.regs /\ t.base = s.base /\ t.live = s.live
        /\ t.slots = slots
    BY <1>3 DEF IsShape, ShapeFields
  <1>5. IsShape(t)
    BY <1>0, <1>1, <1>4 DEF IsShape
  <1> QED BY <1>2, <1>4, <1>5 DEF t
-----------------------------------------------------------------------------
(***************************************************************************)
(* The parts of instructions                                                *)
(***************************************************************************)
\* st is a machine's registers and memory, told by the shape s.
Agrees(s, home, entry, st) == IsShape(s) /\ IsCpu(st) /\ Told(s, home, entry, st)

LEMMA OwnTransitive ==
  ASSUME NEW home, NEW args, NEW m, NEW n, NEW o, OwnChanges(home, args, m, n), OwnChanges(home, args, n, o)
  PROVE  OwnChanges(home, args, m, o)
  BY DEF OwnChanges

LEMMA OwnNothing == ASSUME NEW home, NEW args, NEW m PROVE OwnChanges(home, args, m, m)
  BY DEF OwnChanges

LEMMA RegSound ==
  ASSUME NEW s, NEW home \in Int, NEW entry, NEW st, Agrees(s, home, entry, st),
         NEW k \in Regs, NEW known \in Knowledge, NEW v, Denotes(known, home, entry, v),
         k = "esp" => known.of = "frame"
  PROVE  /\ Agrees(WithReg(s, k, known), home, entry, [st EXCEPT !.regs[k] = v])
         /\ [st EXCEPT !.regs[k] = v].memory = st.memory
  <1> DEFINE u == [st EXCEPT !.regs[k] = v]
             t == WithReg(s, k, known)
  <1>1. /\ IsCpu(u) /\ u.memory = st.memory /\ u.regs[k] = v
        /\ \A j \in Regs \ {k} : u.regs[j] = st.regs[j]
    BY DEF Agrees, IsCpu
  <1>2. /\ SlotsTold(s, home, entry, u.memory) /\ RegsTold(s, home, entry, st.regs) /\ IsShape(s)
    BY <1>1 DEF Agrees, Told
  <1>3. CASE k = "esp"
    <2>1. known.at \in Nat /\ v = home - known.at
      BY <1>3 DEF Knowledge, Denotes
    <2>2. t = Resized(s, known.at)
      BY <1>3 DEF WithReg
    <2>3. IsShape(t) /\ t.depth = known.at /\ t.regs = s.regs
      BY <1>2, <2>1, <2>2, ResizedIs
    <2>4. SlotsTold(t, home, entry, u.memory)
      BY <1>2, <2>1, <2>2, ResizedTold
    <2> HIDE DEF t, u
    <2>5. RegsTold(t, home, entry, u.regs)
      BY <1>1, <1>2, <1>3, <2>1, <2>3 DEF RegsTold
    <2> QED BY <1>1, <2>3, <2>4, <2>5 DEF Agrees, Told, t, u
  <1>4. CASE k # "esp"
    <2>1. t = [s EXCEPT !.regs[k] = known]
      BY <1>4 DEF WithReg
    <2>2. /\ DOMAIN t = ShapeFields /\ t.depth = s.depth /\ t.base = s.base /\ t.slots = s.slots
          /\ t.regs = [s.regs EXCEPT ![k] = known]
      BY <1>2, <2>1 DEF IsShape, ShapeFields
    <2>3. t.regs \in [Regs -> Knowledge] /\ t.regs[k] = known /\ \A j \in Regs \ {k} : t.regs[j] = s.regs[j]
      BY <1>2, <2>2 DEF IsShape
    <2> HIDE DEF t, u
    <2>4. IsShape(t)
      BY <1>2, <2>2, <2>3 DEF IsShape
    <2>5. SlotsTold(t, home, entry, u.memory)
      BY <1>2, <2>2 DEF SlotsTold
    <2>6. RegsTold(t, home, entry, u.regs)
      <3>1. u.regs["esp"] = home - t.depth
        BY <1>1, <1>2, <1>4, <2>2 DEF RegsTold, Regs
      <3>2. ASSUME NEW j \in Regs \ {"esp"} PROVE Denotes(t.regs[j], home, entry, u.regs[j])
        BY <1>1, <1>2, <2>3 DEF RegsTold
      <3> QED BY <3>1, <3>2 DEF RegsTold
    <2> QED BY <1>1, <2>4, <2>5, <2>6 DEF Agrees, Told, t, u
  <1> QED BY <1>3, <1>4, <1>1

LEMMA AssignSound ==
  ASSUME NEW s, NEW home \in Int, NEW entry, NEW st, Agrees(s, home, entry, st),
         NEW sum, IsSummary(sum), NEW op, NEW known \in Knowledge, NEW v, Denotes(known, home, entry, v),
         Assignable(sum, s, op, known), assign(st, op, v).ok
  PROVE  /\ Agrees(Assigned(s, op, known), home, entry, assign(st, op, v))
         /\ OwnChanges(home, sum.args, st.memory, assign(st, op, v).memory)
  <1>0. st.ok
    BY DEF assign, Failed
  <1>1. CASE op.kind = "reg"
    <2>1. assign(st, op, v) = [st EXCEPT !.regs[op.base] = v]
      BY <1>0, <1>1 DEF assign
    <2>2. Assigned(s, op, known) = WithReg(s, op.base, known)
      BY <1>1 DEF Assigned
    <2>3. op.base \in Regs /\ (op.base = "esp" => known.of = "frame")
      BY <1>1 DEF Assignable
    <2> QED BY <2>1, <2>2, <2>3, RegSound, OwnNothing
  <1>2. CASE op.kind = "mem"
    <2> DEFINE a == EffectiveAddress(st, op)
               i == Slot(s, op)
               u == assign(st, op, v)
    <2>1. op.base \in Regs /\ op.val \in Int /\ Of(s, op.base).of = "frame"
          /\ ((i \in 1..s.depth /\ s.slots[i] = Unknown) \/ -i \in 1..sum.args)
      BY <1>2 DEF Assignable
    <2>2. Of(s, op.base) \in Knowledge /\ Denotes(Of(s, op.base), home, entry, st.regs[op.base])
      BY <2>1, OfTold DEF Agrees, Told
    <2>3. st.regs[op.base] = home - Of(s, op.base).at /\ Of(s, op.base).at \in Nat
      BY <2>1, <2>2 DEF Denotes, Knowledge
    <2>4. a = home - i /\ i \in Int
      BY <2>1, <2>3 DEF EffectiveAddress, Slot
    <2>5. a \in Slots /\ u = [st EXCEPT !.memory[a] = v]
      <3>1. op.kind # "reg"
        BY <1>2
      <3>2. ~Failed(st).ok
        BY FailedIs DEF Agrees
      <3> QED BY <1>0, <1>2, <3>1, <3>2 DEF assign
    <2>6. /\ u.regs = st.regs /\ u.memory = [st.memory EXCEPT ![a] = v] /\ DOMAIN st.memory = Slots
      BY <2>5 DEF Agrees, IsCpu
    <2>7. IsCpu(u)
      BY AssignIs DEF Agrees
    <2>8. Assigned(s, op, known) = s
      BY <1>2 DEF Assigned
    <2> HIDE DEF a, i, u
    <2>9. \A b \in Slots : b # a => u.memory[b] = st.memory[b]
      BY <2>6
    <2>10. s.depth \in Nat /\ sum.args \in Nat
      BY DEF Agrees, IsShape, IsSummary
    <2>11. SlotsTold(s, home, entry, u.memory)
      <3> SUFFICES ASSUME NEW j \in 1..s.depth, s.slots[j].of # "any"
                   PROVE  home - j \in Slots /\ Denotes(s.slots[j], home, entry, u.memory[home - j])
        BY DEF SlotsTold
      <3>1. home - j \in Slots /\ Denotes(s.slots[j], home, entry, st.memory[home - j])
        BY DEF Agrees, Told, SlotsTold
      <3>2. j # i
        BY <2>1, <2>10, UnknownIs
      <3>3. home - j # a
        BY <2>4, <2>10, <3>2
      <3> QED BY <2>9, <3>1, <3>3
    <2>12. a # home /\ ~(a > home + sum.args)
      BY <2>1, <2>4, <2>10
    <2>13. OwnChanges(home, sum.args, st.memory, u.memory)
      BY <2>9, <2>12 DEF OwnChanges
    <2>14. Agrees(s, home, entry, u)
      BY <2>6, <2>7, <2>11 DEF Agrees, Told
    <2> QED BY <2>8, <2>13, <2>14 DEF u
  <1> QED BY <1>1, <1>2 DEF Assignable

LEMMA PushSound ==
  ASSUME NEW s, NEW home \in Int, NEW entry, NEW st, Agrees(s, home, entry, st), NEW args \in Nat,
         NEW known \in Knowledge, NEW v, Denotes(known, home, entry, v), push32(st, v).ok
  PROVE  /\ Agrees(WithTop(s, known), home, entry, push32(st, v))
         /\ OwnChanges(home, args, st.memory, push32(st, v).memory)
  <1> DEFINE u == push32(st, v)
             t == WithTop(s, known)
             top == st.regs["esp"] - 1
  <1>0. s.depth \in Nat /\ IsShape(s) /\ top = home - (s.depth + 1)
    <2>1. s.depth \in Nat /\ st.regs["esp"] = home - s.depth /\ IsShape(s)
      BY DEF Agrees, Told, RegsTold, IsShape
    <2> QED BY <2>1
  <1>1. top \in Slots /\ u = [st EXCEPT !.memory[top] = v, !.regs["esp"] = top]
    BY FailedIs DEF Agrees, push32
  <1>2. /\ DOMAIN st.memory = Slots /\ "esp" \in DOMAIN st.regs
        /\ u.memory = [st.memory EXCEPT ![top] = v] /\ u.regs = [st.regs EXCEPT !["esp"] = top]
    BY <1>1 DEF Agrees, IsCpu, Regs
  <1>3. IsCpu(u)
    BY PushIs DEF Agrees
  <1>4. /\ IsShape(t) /\ t.depth = s.depth + 1 /\ t.regs = s.regs
        /\ t.slots[s.depth + 1] = known /\ \A i \in 1..s.depth : t.slots[i] = s.slots[i]
    BY <1>0, WithTopIs
  <1> HIDE DEF u, t, top
  <1>5. u.memory[top] = v /\ \A a \in Slots : a # top => u.memory[a] = st.memory[a]
    BY <1>1, <1>2
  <1>6. SlotsTold(t, home, entry, u.memory)
    <2> SUFFICES ASSUME NEW i \in 1..(s.depth + 1), t.slots[i].of # "any"
                 PROVE  home - i \in Slots /\ Denotes(t.slots[i], home, entry, u.memory[home - i])
      BY <1>4 DEF SlotsTold
    <2>1. CASE i = s.depth + 1
      BY <1>0, <1>1, <1>4, <1>5, <2>1
    <2>2. CASE i # s.depth + 1
      <3>1. i \in 1..s.depth /\ home - i # top
        BY <1>0, <2>2
      <3>2. home - i \in Slots /\ Denotes(s.slots[i], home, entry, st.memory[home - i])
        BY <1>4, <3>1 DEF Agrees, Told, SlotsTold
      <3> QED BY <1>4, <1>5, <3>1, <3>2
    <2> QED BY <2>1, <2>2
  <1>7. u.regs["esp"] = top /\ \A k \in Regs \ {"esp"} : u.regs[k] = st.regs[k]
    BY <1>2 DEF Agrees, IsCpu
  <1>8. RegsTold(t, home, entry, u.regs)
    BY <1>0, <1>4, <1>7 DEF Agrees, Told, RegsTold
  <1>9. OwnChanges(home, args, st.memory, u.memory)
    BY <1>0, <1>5 DEF OwnChanges
  <1> QED BY <1>3, <1>4, <1>6, <1>8, <1>9 DEF Agrees, Told, t, u

LEMMA PopSound ==
  ASSUME NEW s, NEW home \in Int, NEW entry, NEW st, Agrees(s, home, entry, st), s.depth > 0, CanPop(st)
  PROVE  /\ Agrees(Resized(s, s.depth - 1), home, entry, pop32(st))
         /\ pop32(st).memory = st.memory /\ pop32(st).ok
         /\ s.slots[s.depth] \in Knowledge /\ Denotes(s.slots[s.depth], home, entry, Popped(st))
  <1>1. /\ s.depth \in Nat /\ s.depth - 1 \in Nat /\ st.regs["esp"] = home - s.depth
        /\ s.slots[s.depth] \in Knowledge
    <2>1. s.depth \in Nat /\ s.depth \in 1..s.depth
      BY DEF Agrees, IsShape
    <2> QED BY <2>1 DEF Agrees, IsShape, Told, RegsTold
  <1>2. pop32(st) = [st EXCEPT !.regs["esp"] = st.regs["esp"] + 1]
    BY DEF pop32
  <1>3. st.regs["esp"] + 1 = home - (s.depth - 1)
    BY <1>1
  <1>4. Denotes(Frame(s.depth - 1), home, entry, st.regs["esp"] + 1)
    BY <1>1, <1>3, FrameKnown
  <1>5. WithReg(s, "esp", Frame(s.depth - 1)) = Resized(s, s.depth - 1)
    BY <1>1, FrameKnown DEF WithReg
  <1>6. "esp" \in Regs /\ Frame(s.depth - 1) \in Knowledge /\ Frame(s.depth - 1).of = "frame"
    BY <1>1, FrameKnown DEF Regs
  <1>7. /\ Agrees(Resized(s, s.depth - 1), home, entry, pop32(st))
        /\ pop32(st).memory = st.memory
    BY <1>2, <1>4, <1>5, <1>6, RegSound
  <1>8. pop32(st).ok
    BY <1>2 DEF CanPop, Agrees, IsCpu
  <1>9. Denotes(s.slots[s.depth], home, entry, Popped(st))
    <2>1. s.depth \in 1..s.depth
      BY <1>1
    <2>2. s.slots[s.depth].of # "any" => Denotes(s.slots[s.depth], home, entry, st.memory[home - s.depth])
      BY <2>1 DEF Agrees, Told, SlotsTold
    <2> QED BY <1>1, <2>2 DEF Popped, Denotes
  <1> QED BY <1>1, <1>7, <1>8, <1>9

LEMMA PopToSound ==
  ASSUME NEW s, NEW home \in Int, NEW entry, NEW st, Agrees(s, home, entry, st), s.depth > 0,
         NEW op, op.kind = "reg", op.base \in Regs \ {"esp"}, PopTo(st, op).ok
  PROVE  /\ Agrees(PoppedTo(s, op.base), home, entry, PopTo(st, op))
         /\ PopTo(st, op).memory = st.memory
  <1>1. CanPop(st) /\ PopTo(st, op) = assign(pop32(st), op, Popped(st))
    BY FailedIs DEF PopTo, Agrees
  <1>2. assign(pop32(st), op, Popped(st)) = [pop32(st) EXCEPT !.regs[op.base] = Popped(st)]
    BY <1>1, PopSound DEF assign
  <1>3. /\ Agrees(Resized(s, s.depth - 1), home, entry, pop32(st)) /\ pop32(st).memory = st.memory
        /\ s.slots[s.depth] \in Knowledge /\ Denotes(s.slots[s.depth], home, entry, Popped(st))
    BY <1>1, PopSound
  <1> QED BY <1>1, <1>2, <1>3, RegSound DEF PoppedTo

LEMMA LeaveSound ==
  ASSUME NEW s, NEW home \in Int, NEW entry, NEW st, Agrees(s, home, entry, st),
         Of(s, "ebp").of = "frame", Of(s, "ebp").at \in 1..s.depth, execLeave(st).ok
  PROVE  /\ Agrees(PoppedTo(Resized(s, Of(s, "ebp").at), "ebp"), home, entry, execLeave(st))
         /\ execLeave(st).memory = st.memory
  <1> DEFINE known == Of(s, "ebp")
             u == [st EXCEPT !.regs["esp"] = st.regs["ebp"]]
             t == Resized(s, known.at)
  <1>1. "esp" \in Regs /\ "ebp" \in Regs \ {"esp"}
    BY DEF Regs
  <1>2. known \in Knowledge /\ Denotes(known, home, entry, st.regs["ebp"])
    BY <1>1, OfTold DEF Agrees, Told
  <1>3. WithReg(s, "esp", known) = t
    BY DEF WithReg
  <1>4. Agrees(t, home, entry, u) /\ u.memory = st.memory
    BY <1>1, <1>2, <1>3, RegSound
  <1>5. t.depth = known.at /\ t.depth > 0
    <2>1. s.depth \in Nat
      BY DEF Agrees, IsShape
    <2>2. known.at \in Nat /\ known.at > 0
      BY <2>1
    <2> QED BY <2>2, ResizedIs DEF Agrees
  <1>6. execLeave(st) = PopTo(u, Reg("ebp"))
    BY DEF execLeave
  <1>7. Reg("ebp").kind = "reg" /\ Reg("ebp").base = "ebp"
    BY DEF Reg
  <1> HIDE DEF u, t, known
  <1>8. Agrees(PoppedTo(t, "ebp"), home, entry, PopTo(u, Reg("ebp"))) /\ PopTo(u, Reg("ebp")).memory = u.memory
    BY <1>1, <1>4, <1>5, <1>6, <1>7, PopToSound
  <1> QED BY <1>4, <1>6, <1>8 DEF t, known

\* ENTER without enclosing frames pushes one word.
LEMMA PushOne ==
  ASSUME NEW st, IsCpu(st), NEW e \in Int, st.regs["esp"] = e, NEW v
  PROVE  pushAll(st, <<v>>) = push32(st, v)
  <1>1. (e - 1)..(e - 1) = {e - 1} /\ e - (e - 1) = 1 /\ Len(<<v>>) = 1 /\ <<v>>[1] = v
    OBVIOUS
  <1>2. CASE st.ok /\ e - 1 \in Slots
    <2>1. [a \in Slots |-> IF a \in (e - 1)..(e - 1) THEN <<v>>[e - a] ELSE st.memory[a]]
            = [st.memory EXCEPT ![e - 1] = v]
      BY <1>1 DEF IsCpu
    <2>2. (e - 1)..(e - 1) \subseteq Slots
      BY <1>1, <1>2
    <2>3. pushAll(st, <<v>>) = [st EXCEPT !.memory = [st.memory EXCEPT ![e - 1] = v], !.regs["esp"] = e - 1]
      BY <1>1, <1>2, <2>1, <2>2 DEF pushAll
    <2>4. push32(st, v) = [st EXCEPT !.memory[e - 1] = v, !.regs["esp"] = e - 1]
      BY <1>2 DEF push32
    <2> QED BY <2>3, <2>4
  <1>3. CASE ~(st.ok /\ e - 1 \in Slots)
    <2>1. ~(st.ok /\ (e - 1)..(e - 1) \subseteq Slots)
      BY <1>1, <1>3
    <2>2. pushAll(st, <<v>>) = Failed(st)
      BY <1>1, <2>1 DEF pushAll
    <2>3. push32(st, v) = Failed(st)
      BY <1>3 DEF push32
    <2> QED BY <2>2, <2>3
  <1> QED BY <1>2, <1>3

LEMMA EnterFlat ==
  ASSUME NEW st, IsCpu(st), NEW alloc, execEnter(st, alloc, 0).ok
  PROVE  /\ pushAll(st, <<st.regs["ebp"]>>).ok
         /\ execEnter(st, alloc, 0) =
              [pushAll(st, <<st.regs["ebp"]>>) EXCEPT !.regs["ebp"] = st.regs["esp"] - 1, !.regs["esp"] = @ - alloc]
  BY FailedIs DEF execEnter

LEMMA EnterSound ==
  ASSUME NEW s, NEW home \in Int, NEW entry, NEW st, Agrees(s, home, entry, st), NEW args \in Nat,
         NEW alloc \in Nat, execEnter(st, alloc, 0).ok
  PROVE  LET t == Resized(WithReg(WithTop(s, Of(s, "ebp")), "ebp", Frame(s.depth + 1)), s.depth + 1 + alloc)
         IN  /\ Agrees(t, home, entry, execEnter(st, alloc, 0))
             /\ OwnChanges(home, args, st.memory, execEnter(st, alloc, 0).memory)
  <1> DEFINE old == st.regs["ebp"]
             known == Of(s, "ebp")
             top == st.regs["esp"] - 1
             u == push32(st, old)
             v == [u EXCEPT !.regs["ebp"] = top]
             w == [v EXCEPT !.regs["esp"] = top - alloc]
             s1 == WithTop(s, known)
             s2 == WithReg(s1, "ebp", Frame(s.depth + 1))
             s3 == Resized(s2, s.depth + 1 + alloc)
  <1>1. "esp" \in Regs /\ "ebp" \in Regs /\ "ebp" # "esp"
    BY DEF Regs
  <1>2. s.depth \in Nat /\ st.regs["esp"] = home - s.depth /\ IsCpu(st)
    BY DEF Agrees, IsShape, Told, RegsTold
  <1>3. st.regs["esp"] \in Int /\ top = home - (s.depth + 1) /\ s.depth + 1 \in Nat
    BY <1>2
  <1>4. known \in Knowledge /\ Denotes(known, home, entry, old)
    BY <1>1, OfTold DEF Agrees, Told
  <1>5. pushAll(st, <<old>>) = u
    BY <1>2, <1>3, PushOne
  <1>6. u.ok /\ execEnter(st, alloc, 0) = [u EXCEPT !.regs["ebp"] = top, !.regs["esp"] = @ - alloc]
    <2>1. /\ pushAll(st, <<old>>).ok
          /\ execEnter(st, alloc, 0) = [pushAll(st, <<old>>) EXCEPT !.regs["ebp"] = top, !.regs["esp"] = @ - alloc]
      BY <1>2, EnterFlat
    <2> HIDE DEF u, top, old
    <2> QED BY <1>5, <2>1
  <1>7. Agrees(s1, home, entry, u) /\ OwnChanges(home, args, st.memory, u.memory)
    BY <1>4, <1>6, PushSound
  <1>8. u.regs["esp"] = top
    <2>1. s1.depth = s.depth + 1
      BY <1>4, WithTopIs DEF Agrees
    <2> QED BY <1>3, <1>7, <2>1 DEF Agrees, Told, RegsTold
  <1>9. /\ Frame(s.depth + 1) \in Knowledge /\ Denotes(Frame(s.depth + 1), home, entry, top)
    BY <1>3, FrameKnown
  <1>10. Agrees(s2, home, entry, v) /\ v.memory = u.memory
    <2> HIDE DEF s1, u, top
    <2> QED BY <1>1, <1>7, <1>9, RegSound
  <1>11. s.depth + 1 + alloc \in Nat /\ top - alloc = home - (s.depth + 1 + alloc)
    BY <1>2, <1>3
  <1>12. /\ Frame(s.depth + 1 + alloc) \in Knowledge /\ Frame(s.depth + 1 + alloc).of = "frame"
         /\ Frame(s.depth + 1 + alloc).at = s.depth + 1 + alloc
         /\ Denotes(Frame(s.depth + 1 + alloc), home, entry, top - alloc)
    BY <1>11, FrameKnown
  <1>13. s3 = WithReg(s2, "esp", Frame(s.depth + 1 + alloc))
    BY <1>12 DEF WithReg
  <1>14. Agrees(s3, home, entry, w) /\ w.memory = v.memory
    <2> HIDE DEF s2, s3, v, top
    <2> QED BY <1>1, <1>10, <1>12, <1>13, RegSound
  <1>15. execEnter(st, alloc, 0) = w
    <2>1. IsCpu(u)
      BY <1>7 DEF Agrees
    <2> HIDE DEF u, top
    <2> QED BY <1>1, <1>6, <1>8, <2>1 DEF IsCpu
  <1> HIDE DEF u, v, w, s3, top, old, known
  <1>16. Agrees(s3, home, entry, execEnter(st, alloc, 0)) /\ OwnChanges(home, args, st.memory, execEnter(st, alloc, 0).memory)
    BY <1>7, <1>10, <1>14, <1>15
  <1> QED BY <1>16 DEF s3, known

\* PUSHAD and POPAD: eight words in the order of PushadOrder.
LEMMA PushadSound ==
  ASSUME NEW s, NEW home \in Int, NEW entry, NEW st, Agrees(s, home, entry, st), NEW args \in Nat,
         NEW inst, inst.op = "pushad", execPushad(st).ok
  PROVE  /\ Agrees(After(s, inst), home, entry, execPushad(st))
         /\ OwnChanges(home, args, st.memory, execPushad(st).memory)
  <1> DEFINE values == [i \in 1..8 |-> st.regs[PushadOrder[i]]]
             d == s.depth
             e == st.regs["esp"]
             u == execPushad(st)
             m == [a \in Slots |-> IF a \in (e - 8)..(e - 1) THEN values[e - a] ELSE st.memory[a]]
             slots == [i \in 1..(d + 8) |-> IF i <= d THEN s.slots[i] ELSE Of(s, PushadOrder[i - d])]
             t == After(s, inst)
  <1>1. d \in Nat /\ e = home - d /\ IsCpu(st) /\ IsShape(s)
    BY DEF Agrees, IsShape, Told, RegsTold
  <1>2. \A i \in 1..8 : PushadOrder[i] \in Regs
    BY DEF PushadOrder, Regs
  <1>3. Len(values) = 8
    OBVIOUS
  <1>4. u = [st EXCEPT !.memory = m, !.regs["esp"] = e - 8] /\ (e - 8)..(e - 1) \subseteq Slots
    <2> HIDE DEF values
    <2>1. u = pushAll(st, values)
      BY DEF execPushad, values
    <2> QED BY <1>1, <1>3, <2>1, FailedIs DEF pushAll
  <1>5. t = [s EXCEPT !.depth = d + 8, !.slots = slots]
    BY DEF After
  <1>6. IsCpu(u)
    BY <1>1, PushadIs
  <1>7. \A i \in 1..8 : /\ Of(s, PushadOrder[i]) \in Knowledge
                        /\ Denotes(Of(s, PushadOrder[i]), home, entry, values[i])
    BY <1>2, OfTold DEF Agrees, Told
  <1>8. slots \in [1..(d + 8) -> Knowledge]
    <2> SUFFICES ASSUME NEW i \in 1..(d + 8) PROVE slots[i] \in Knowledge
      OBVIOUS
    <2>1. CASE i <= d
      BY <1>1, <2>1 DEF IsShape
    <2>2. CASE i > d
      <3>1. i - d \in 1..8
        BY <1>1, <2>2
      <3> QED BY <1>1, <1>7, <2>2, <3>1
    <2> QED BY <1>1, <2>1, <2>2
  <1>9. u.memory = m /\ u.regs = [st.regs EXCEPT !["esp"] = e - 8]
    <2> HIDE DEF m, e
    <2> QED BY <1>1, <1>4 DEF IsCpu
  <1>10. u.regs["esp"] = e - 8 /\ \A k \in Regs \ {"esp"} : u.regs[k] = st.regs[k]
    BY <1>1, <1>9 DEF IsCpu, Regs
  <1>11. /\ IsShape(t) /\ t.depth = d + 8 /\ t.regs = s.regs /\ t.slots = slots
    <2> HIDE DEF slots
    <2>1. DOMAIN t = ShapeFields /\ t.depth = d + 8 /\ t.regs = s.regs /\ t.slots = slots /\ t.base = s.base
      BY <1>1, <1>5 DEF IsShape, ShapeFields
    <2> HIDE DEF t
    <2> QED BY <1>1, <1>8, <2>1 DEF IsShape
  <1>12. SlotsTold(t, home, entry, u.memory)
    <2> SUFFICES ASSUME NEW i \in 1..(d + 8), slots[i].of # "any"
                 PROVE  home - i \in Slots /\ Denotes(slots[i], home, entry, m[home - i])
      BY <1>9, <1>11 DEF SlotsTold
    <2>1. CASE i <= d
      <3>1. home - i \in Slots /\ Denotes(s.slots[i], home, entry, st.memory[home - i])
        BY <1>1, <2>1 DEF Agrees, Told, SlotsTold
      <3>2. ~(home - i \in (e - 8)..(e - 1))
        BY <1>1, <2>1
      <3> QED BY <2>1, <3>1, <3>2
    <2>2. CASE i > d
      <3>1. i - d \in 1..8 /\ e - (home - i) = i - d /\ home - i \in (e - 8)..(e - 1)
        <4>1. \A x, y, z \in Int : x = home - y /\ z > y /\ z <= y + 8 =>
                z - y \in 1..8 /\ x - (home - z) = z - y /\ home - z \in (x - 8)..(x - 1)
          OBVIOUS
        <4>2. e \in Int /\ d \in Int /\ i \in Int /\ i <= d + 8
          BY <1>1
        <4> HIDE DEF e, d
        <4> QED BY <1>1, <2>2, <4>1, <4>2
      <3>2. home - i \in Slots
        BY <1>4, <3>1
      <3>3. m[home - i] = values[i - d]
        <4> HIDE DEF values
        <4> QED BY <3>1, <3>2
      <3>4. slots[i] = Of(s, PushadOrder[i - d])
        BY <1>1, <2>2
      <3> QED BY <1>7, <3>1, <3>2, <3>3, <3>4
    <2> QED BY <1>1, <2>1, <2>2
  <1>13. RegsTold(t, home, entry, u.regs)
    BY <1>1, <1>10, <1>11 DEF Agrees, Told, RegsTold
  <1>14. OwnChanges(home, args, st.memory, u.memory)
    BY <1>1, <1>9 DEF OwnChanges
  <1> QED BY <1>6, <1>11, <1>12, <1>13, <1>14 DEF Agrees, Told

LEMMA PopadSound ==
  ASSUME NEW s, NEW home \in Int, NEW entry, NEW st, Agrees(s, home, entry, st),
         NEW inst, inst.op = "popad", s.depth >= 8, execPopad(st).ok
  PROVE  /\ Agrees(After(s, inst), home, entry, execPopad(st))
         /\ execPopad(st).memory = st.memory
  <1> DEFINE order(r) == CHOOSE i \in 1..8 : PushadOrder[i] = r
             d == s.depth
             e == st.regs["esp"]
             u == execPopad(st)
             new == [r \in Regs |-> IF r = "esp" THEN e + 8 ELSE st.memory[e + (8 - order(r))]]
             told == [r \in Regs |-> IF r = "esp" THEN Unknown ELSE s.slots[d - 8 + order(r)]]
             t == After(s, inst)
             z == Resized(s, d - 8)
  <1>1. d \in Nat /\ e = home - d /\ IsCpu(st) /\ IsShape(s) /\ d - 8 \in Nat
    BY DEF Agrees, IsShape, Told, RegsTold
  <1>2. \A r \in Regs : order(r) \in 1..8
    <2>1. \A r \in Regs : \E i \in 1..8 : PushadOrder[i] = r
      <3>1. /\ PushadOrder[1] = "eax" /\ PushadOrder[2] = "ecx" /\ PushadOrder[3] = "edx" /\ PushadOrder[4] = "ebx"
            /\ PushadOrder[5] = "esp" /\ PushadOrder[6] = "ebp" /\ PushadOrder[7] = "esi" /\ PushadOrder[8] = "edi"
        BY DEF PushadOrder
      <3> QED BY <3>1 DEF Regs
    <2> QED BY <2>1
  <1> HIDE DEF order
  <1>3. u = [st EXCEPT !.regs = new]
    <2> DEFINE place == [r \in Regs |-> 8 - order(r)]
    <2>1. u = IF e..(e + 7) \subseteq Slots
              THEN [st EXCEPT !.regs = [r \in Regs |-> IF r = "esp" THEN e + 8 ELSE st.memory[e + place[r]]]]
              ELSE Failed(st)
      BY DEF execPopad, order
    <2>2. [r \in Regs |-> IF r = "esp" THEN e + 8 ELSE st.memory[e + place[r]]] = new
      OBVIOUS
    <2> HIDE DEF place, new
    <2> QED BY <1>1, <2>1, <2>2, FailedIs
  <1>4. t = [z EXCEPT !.regs = told]
    BY DEF After, order
  <1>5. IsShape(z) /\ z.depth = d - 8 /\ \A i \in 1..(d - 8) : z.slots[i] = s.slots[i]
    <2>1. \A i \in 1..(d - 8) : i <= d
      BY <1>1
    <2> HIDE DEF d
    <2> QED BY <1>1, <2>1, ResizedIs DEF d
  <1>6. \A r \in Regs : d - 8 + order(r) \in 1..d /\ e + (8 - order(r)) = home - (d - 8 + order(r))
    BY <1>1, <1>2
  <1>7. told \in [Regs -> Knowledge]
    BY <1>1, <1>6, UnknownIs DEF IsShape
  <1>8. u.regs = new /\ u.memory = st.memory /\ IsCpu(u)
    <2> HIDE DEF new, u
    <2> QED BY <1>1, <1>3, PopadIs DEF IsCpu, u
  <1>9. IsShape(t) /\ t.regs = told /\ t.slots = z.slots /\ t.depth = z.depth
    <2> HIDE DEF z, told
    <2>1. DOMAIN t = ShapeFields /\ t.regs = told /\ t.slots = z.slots /\ t.depth = z.depth /\ t.base = z.base
      BY <1>4, <1>5 DEF IsShape, ShapeFields
    <2> HIDE DEF t
    <2> QED BY <1>5, <1>7, <2>1 DEF IsShape
  <1>10. SlotsTold(t, home, entry, u.memory)
    <2>1. SlotsTold(z, home, entry, st.memory)
      BY <1>1, ResizedTold DEF Agrees, Told
    <2> QED BY <1>8, <1>9, <2>1 DEF SlotsTold
  <1>11. RegsTold(t, home, entry, u.regs)
    <2>1. new["esp"] = home - (d - 8)
      BY <1>1 DEF Regs
    <2>2. ASSUME NEW r \in Regs \ {"esp"} PROVE Denotes(told[r], home, entry, new[r])
      <3>1. told[r] = s.slots[d - 8 + order(r)] /\ new[r] = st.memory[home - (d - 8 + order(r))]
        BY <1>6
      <3>2. told[r].of # "any" => Denotes(told[r], home, entry, new[r])
        BY <1>6, <3>1 DEF Agrees, Told, SlotsTold
      <3> QED BY <3>2 DEF Denotes
    <2> HIDE DEF new, told
    <2> QED BY <1>5, <1>8, <1>9, <2>1, <2>2 DEF RegsTold
  <1> QED BY <1>8, <1>9, <1>10, <1>11 DEF Agrees, Told
-----------------------------------------------------------------------------
(***************************************************************************)
(* One instruction that stays in its procedure                              *)
(***************************************************************************)
Exec(st, inst) ==
  CASE inst.op = "mov" -> execMov(st, inst.a, inst.b)
    [] inst.op = "add" -> execAddSub(st, inst.a, inst.b, 1)
    [] inst.op = "sub" -> execAddSub(st, inst.a, inst.b, -1)
    [] inst.op = "push" -> execPush(st, inst.a)
    [] inst.op = "pop" -> PopTo(st, inst.a)
    [] inst.op = "pushad" -> execPushad(st)
    [] inst.op = "popad" -> execPopad(st)
    [] inst.op = "enter" -> execEnter(st, inst.a.val, inst.b.val)
    [] inst.op = "leave" -> execLeave(st)
    [] inst.op = "builtin" -> assign(st, Reg("eax"), inst.a.val)
    [] OTHER -> push32(st, ReturnMark)

LEMMA ValueKnown ==
  ASSUME NEW s, NEW home \in Int, NEW entry, NEW st, Agrees(s, home, entry, st), NEW op
  PROVE  KnownOf(s, op) \in Knowledge /\ Denotes(KnownOf(s, op), home, entry, resolveValue(st, op))
  <1>1. CASE op.kind = "reg" /\ op.base \in Regs
    <2>1. KnownOf(s, op) = Of(s, op.base)
      BY <1>1 DEF KnownOf
    <2>2. resolveValue(st, op) = st.regs[op.base]
      <3>1. op.kind = "reg" /\ op.kind # "imm"
        BY <1>1
      <3> QED BY <3>1 DEF resolveValue
    <2> QED BY <1>1, <2>1, <2>2, OfTold DEF Agrees, Told
  <1>2. CASE ~(op.kind = "reg" /\ op.base \in Regs)
    BY <1>2, UnknownIs DEF KnownOf
  <1> QED BY <1>1, <1>2

LEMMA SumKnown ==
  ASSUME NEW s, NEW home \in Int, NEW entry, NEW st, Agrees(s, home, entry, st), NEW inst, NEW sign \in {1, -1}
  PROVE  /\ Sum(s, inst, sign) \in Knowledge
         /\ Denotes(Sum(s, inst, sign), home, entry, resolveValue(st, inst.a) + sign * resolveValue(st, inst.b))
  <1> DEFINE known == KnownOf(s, inst.a)
  <1>1. CASE /\ known.of = "frame" /\ inst.b.kind = "imm" /\ inst.b.val \in Int
             /\ known.at >= sign * inst.b.val
    <2>1. Sum(s, inst, sign) = Frame(known.at - sign * inst.b.val)
      BY <1>1 DEF Sum
    <2>2. known \in Knowledge /\ Denotes(known, home, entry, resolveValue(st, inst.a))
      BY ValueKnown
    <2>3. known.at \in Nat /\ resolveValue(st, inst.a) = home - known.at
      BY <1>1, <2>2 DEF Denotes, Knowledge
    <2>4. resolveValue(st, inst.b) = inst.b.val
      BY <1>1 DEF resolveValue
    <2> HIDE DEF known
    <2>5. sign * inst.b.val \in Int
      BY <1>1
    <2>6. /\ known.at - sign * inst.b.val \in Nat
          /\ (home - known.at) + sign * inst.b.val = home - (known.at - sign * inst.b.val)
      BY <1>1, <2>3, <2>5
    <2> QED BY <2>1, <2>3, <2>4, <2>6, FrameKnown
  <1>2. CASE ~(/\ known.of = "frame" /\ inst.b.kind = "imm" /\ inst.b.val \in Int
               /\ known.at >= sign * inst.b.val)
    <2>1. Sum(s, inst, sign) = Unknown
      BY <1>2 DEF Sum
    <2> QED BY <2>1, UnknownIs
  <1> QED BY <1>1, <1>2

LEMMA BaseSound ==
  ASSUME NEW s, NEW home, NEW entry, NEW st, Agrees(s, home, entry, st), NEW n \in Nat
  PROVE  Agrees([s EXCEPT !.base = n], home, entry, st)
  <1> DEFINE t == [s EXCEPT !.base = n]
  <1>1. /\ DOMAIN t = ShapeFields /\ t.depth = s.depth /\ t.regs = s.regs /\ t.slots = s.slots /\ t.base = n
    BY DEF Agrees, IsShape, ShapeFields
  <1> HIDE DEF t
  <1>2. IsShape(t)
    BY <1>1 DEF Agrees, IsShape
  <1>3. SlotsTold(t, home, entry, st.memory) /\ RegsTold(t, home, entry, st.regs)
    BY <1>1 DEF Agrees, Told, SlotsTold, RegsTold
  <1> QED BY <1>2, <1>3 DEF Agrees, Told, t

LEMMA MovSound ==
  ASSUME NEW s, NEW home \in Int, NEW entry, NEW st, Agrees(s, home, entry, st),
         NEW sum, IsSummary(sum), NEW inst, inst.op = "mov", Allowed(sum, s, inst),
         execMov(st, inst.a, inst.b).ok
  PROVE  /\ Agrees(After(s, inst), home, entry, execMov(st, inst.a, inst.b))
         /\ OwnChanges(home, sum.args, st.memory, execMov(st, inst.a, inst.b).memory)
  <1> DEFINE v == resolveValue(st, inst.b)
             known == KnownOf(s, inst.b)
             u == assign(st, inst.a, v)
             t == Assigned(s, inst.a, known)
  <1>1. execMov(st, inst.a, inst.b) = u
    BY FailedIs DEF execMov, WithValue, Agrees
  <1>2. Assignable(sum, s, inst.a, known)
    BY DEF Allowed
  <1>3. known \in Knowledge /\ Denotes(known, home, entry, v)
    BY ValueKnown
  <1>4. Agrees(t, home, entry, u) /\ OwnChanges(home, sum.args, st.memory, u.memory)
    <2> HIDE DEF v, known
    <2> QED BY <1>1, <1>2, <1>3, AssignSound
  <1>5. After(s, inst) = t \/ After(s, inst) = [t EXCEPT !.base = s.depth]
    BY DEF After
  <1>6. s.depth \in Nat
    BY DEF Agrees, IsShape
  <1> HIDE DEF t, u
  <1> QED BY <1>1, <1>4, <1>5, <1>6, BaseSound

LEMMA AddSubSound ==
  ASSUME NEW s, NEW home \in Int, NEW entry, NEW st, Agrees(s, home, entry, st),
         NEW sum, IsSummary(sum), NEW inst, NEW sign \in {1, -1},
         Assignable(sum, s, inst.a, Sum(s, inst, sign)),
         execAddSub(st, inst.a, inst.b, sign).ok
  PROVE  /\ Agrees(Assigned(s, inst.a, Sum(s, inst, sign)), home, entry, execAddSub(st, inst.a, inst.b, sign))
         /\ OwnChanges(home, sum.args, st.memory, execAddSub(st, inst.a, inst.b, sign).memory)
  <1> DEFINE v == resolveValue(st, inst.a) + sign * resolveValue(st, inst.b)
             known == Sum(s, inst, sign)
             u == assign(st, inst.a, v)
  <1>1. execAddSub(st, inst.a, inst.b, sign) = u
    BY FailedIs DEF execAddSub, WithValue, Agrees
  <1>2. known \in Knowledge /\ Denotes(known, home, entry, v)
    BY SumKnown
  <1> HIDE DEF v, known
  <1>3. /\ Agrees(Assigned(s, inst.a, known), home, entry, u)
        /\ OwnChanges(home, sum.args, st.memory, u.memory)
    BY <1>1, <1>2, AssignSound DEF known
  <1> QED BY <1>1, <1>3 DEF known

Staying == {"mov", "add", "sub", "push", "pop", "pushad", "popad", "enter", "leave", "builtin", "invoke"}

\* An instruction the verifier allows leaves the machine as its shape says, and
\* changes no memory but what is its procedure's own.
LEMMA InstSound ==
  ASSUME NEW s, NEW home \in Int, NEW entry, NEW st, Agrees(s, home, entry, st),
         NEW sum, IsSummary(sum), NEW inst, inst.op \in Staying, Allowed(sum, s, inst), Exec(st, inst).ok
  PROVE  /\ Agrees(After(s, inst), home, entry, Exec(st, inst))
         /\ OwnChanges(home, sum.args, st.memory, Exec(st, inst).memory)
  <1>0. sum.args \in Nat
    BY DEF IsSummary
  <1>1. CASE inst.op = "mov"
    <2>1. Exec(st, inst) = execMov(st, inst.a, inst.b)
      BY <1>1 DEF Exec
    <2> QED BY <1>1, <2>1, MovSound
  <1>2. CASE inst.op = "add"
    <2>1. /\ Exec(st, inst) = execAddSub(st, inst.a, inst.b, 1)
          /\ After(s, inst) = Assigned(s, inst.a, Sum(s, inst, 1))
          /\ Assignable(sum, s, inst.a, Sum(s, inst, 1))
      BY <1>2 DEF Exec, After, Allowed
    <2> QED BY <2>1, AddSubSound
  <1>3. CASE inst.op = "sub"
    <2>1. /\ Exec(st, inst) = execAddSub(st, inst.a, inst.b, -1)
          /\ After(s, inst) = Assigned(s, inst.a, Sum(s, inst, -1))
          /\ Assignable(sum, s, inst.a, Sum(s, inst, -1))
      BY <1>3 DEF Exec, After, Allowed
    <2> QED BY <2>1, AddSubSound
  <1>4. CASE inst.op = "push"
    <2>1. Exec(st, inst) = execPush(st, inst.a) /\ After(s, inst) = WithTop(s, KnownOf(s, inst.a))
      BY <1>4 DEF Exec, After
    <2>2. execPush(st, inst.a) = push32(st, resolveValue(st, inst.a))
      BY <2>1, FailedIs DEF execPush, WithValue, Agrees
    <2> QED BY <1>0, <2>1, <2>2, ValueKnown, PushSound
  <1>5. CASE inst.op = "pop"
    <2>1. Exec(st, inst) = PopTo(st, inst.a) /\ After(s, inst) = PoppedTo(s, inst.a.base)
      BY <1>5 DEF Exec, After
    <2>2. s.depth > 0 /\ inst.a.kind = "reg" /\ inst.a.base \in Regs \ {"esp"}
      BY <1>5 DEF Allowed
    <2> QED BY <2>1, <2>2, PopToSound, OwnNothing
  <1>6. CASE inst.op = "pushad"
    <2>1. Exec(st, inst) = execPushad(st)
      BY <1>6 DEF Exec
    <2> QED BY <1>0, <1>6, <2>1, PushadSound
  <1>7. CASE inst.op = "popad"
    <2>1. Exec(st, inst) = execPopad(st) /\ s.depth >= 8
      BY <1>7 DEF Exec, Allowed
    <2> QED BY <1>7, <2>1, PopadSound, OwnNothing
  <1>8. CASE inst.op = "enter"
    <2>1. /\ inst.a.val \in Nat /\ inst.b.val = 0 /\ Exec(st, inst) = execEnter(st, inst.a.val, 0)
          /\ After(s, inst) = Resized(WithReg(WithTop(s, Of(s, "ebp")), "ebp", Frame(s.depth + 1)),
                                      s.depth + 1 + inst.a.val)
      BY <1>8 DEF Exec, Allowed, After
    <2> QED BY <1>0, <2>1, EnterSound
  <1>9. CASE inst.op = "leave"
    <2>1. /\ Exec(st, inst) = execLeave(st)
          /\ After(s, inst) = PoppedTo(Resized(s, Of(s, "ebp").at), "ebp")
          /\ Of(s, "ebp").of = "frame" /\ Of(s, "ebp").at \in 1..s.depth
      BY <1>9 DEF Exec, Allowed, After
    <2> QED BY <2>1, LeaveSound, OwnNothing
  <1>10. CASE inst.op = "builtin"
    <2>1. Exec(st, inst) = assign(st, Reg("eax"), inst.a.val) /\ After(s, inst) = WithReg(s, "eax", Unknown)
      BY <1>10 DEF Exec, After
    <2>2. assign(st, Reg("eax"), inst.a.val) = [st EXCEPT !.regs["eax"] = inst.a.val]
      <3>1. Reg("eax").kind = "reg" /\ Reg("eax").base = "eax"
        BY DEF Reg
      <3>2. assign(st, Reg("eax"), inst.a.val).ok
        BY <2>1
      <3> HIDE DEF Reg
      <3> QED BY <3>1, <3>2, FailedIs DEF assign, Agrees
    <2>3. "eax" \in Regs /\ "eax" # "esp"
      BY DEF Regs
    <2> DEFINE v == inst.a.val
               u == [st EXCEPT !.regs["eax"] = v]
    <2>4. Unknown \in Knowledge /\ Denotes(Unknown, home, entry, v)
      BY UnknownIs
    <2> HIDE DEF v
    <2>5. Agrees(WithReg(s, "eax", Unknown), home, entry, u) /\ u.memory = st.memory
      BY <2>3, <2>4, RegSound
    <2>6. Exec(st, inst) = u
      BY <2>1, <2>2 DEF v
    <2> HIDE DEF u
    <2> QED BY <2>1, <2>5, <2>6, OwnNothing
  <1>11. CASE inst.op = "invoke"
    <2>1. Exec(st, inst) = push32(st, ReturnMark) /\ After(s, inst) = WithTop(s, Unknown)
      BY <1>11 DEF Exec, After
    <2> QED BY <1>0, <2>1, UnknownIs, PushSound
  <1> QED BY <1>1, <1>2, <1>3, <1>4, <1>5, <1>6, <1>7, <1>8, <1>9, <1>10, <1>11 DEF Staying

\* What fits a shape is told by it too.
LEMMA FitsTold ==
  ASSUME NEW s, NEW t, IsShape(t), Fits(s, t), NEW home, NEW entry, NEW st, Agrees(s, home, entry, st)
  PROVE  Agrees(t, home, entry, st)
  <1>1. /\ t.depth = s.depth /\ \A i \in 1..t.depth : t.slots[i] = Unknown \/ t.slots[i] = s.slots[i]
        /\ \A r \in Regs \ {"esp"} : t.regs[r] = Unknown \/ t.regs[r] = s.regs[r]
    BY DEF Fits
  <1>2. SlotsTold(t, home, entry, st.memory)
    BY <1>1, UnknownIs DEF Agrees, Told, SlotsTold
  <1>3. RegsTold(t, home, entry, st.regs)
    BY <1>1, UnknownIs DEF Agrees, Told, RegsTold
  <1> QED BY <1>2, <1>3 DEF Agrees, Told

\* Only the prologue's mov sets the base.
SameBase(s, t) == DOMAIN t = ShapeFields /\ t.base = s.base

LEMMA BaseKept ==
  ASSUME NEW s, DOMAIN s = ShapeFields
  PROVE  /\ SameBase(s, s)
         /\ \A n : SameBase(s, Resized(s, n))
         /\ \A known : SameBase(s, WithTop(s, known))
         /\ \A r, known : SameBase(s, WithReg(s, r, known))
         /\ \A op, known : SameBase(s, Assigned(s, op, known))
         /\ \A r : SameBase(s, PoppedTo(s, r))
  <1>1. ASSUME NEW t, DOMAIN t = ShapeFields, NEW n PROVE SameBase(t, Resized(t, n))
    <2> DEFINE slots == [i \in 1..n |-> IF i <= t.depth THEN t.slots[i] ELSE Unknown]
    <2>1. Resized(t, n) = [t EXCEPT !.depth = n, !.slots = slots]
      BY DEF Resized
    <2> HIDE DEF slots
    <2> QED BY <1>1, <2>1 DEF SameBase, ShapeFields
  <1>2. ASSUME NEW t, DOMAIN t = ShapeFields, NEW known PROVE SameBase(t, WithTop(t, known))
    <2> DEFINE slots == [i \in 1..(t.depth + 1) |-> IF i <= t.depth THEN t.slots[i] ELSE known]
               n == t.depth + 1
    <2>1. WithTop(t, known) = [t EXCEPT !.depth = n, !.slots = slots]
      BY DEF WithTop
    <2> HIDE DEF slots, n
    <2> QED BY <1>2, <2>1 DEF SameBase, ShapeFields
  <1>3. ASSUME NEW t, DOMAIN t = ShapeFields, NEW r, NEW known PROVE SameBase(t, WithReg(t, r, known))
    <2>1. CASE r = "esp"
      BY <1>1, <1>3, <2>1 DEF WithReg
    <2>2. CASE r # "esp"
      <3> DEFINE new == [t.regs EXCEPT ![r] = known]
      <3>1. WithReg(t, r, known) = [t EXCEPT !.regs = new]
        BY <1>3, <2>2 DEF WithReg, ShapeFields
      <3> HIDE DEF new
      <3> QED BY <1>3, <3>1 DEF SameBase, ShapeFields
    <2> QED BY <2>1, <2>2
  <1>4. ASSUME NEW op, NEW known PROVE SameBase(s, Assigned(s, op, known))
    BY <1>3 DEF Assigned, SameBase
  <1>5. ASSUME NEW r PROVE SameBase(s, PoppedTo(s, r))
    <2>1. SameBase(s, Resized(s, s.depth - 1))
      BY <1>1
    <2>2. SameBase(Resized(s, s.depth - 1), PoppedTo(s, r))
      BY <1>3, <2>1 DEF PoppedTo, SameBase
    <2> QED BY <2>1, <2>2 DEF SameBase
  <1> QED BY <1>1, <1>2, <1>3, <1>4, <1>5 DEF SameBase

LEMMA AfterBase ==
  ASSUME NEW s, IsShape(s), NEW inst, inst.op \in Staying
  PROVE  After(s, inst).base = IF inst.op = "mov" /\ inst.a = Reg("ebp") /\ inst.b = Reg("esp")
                               THEN s.depth ELSE s.base
  <1>0. DOMAIN s = ShapeFields
    BY DEF IsShape
  <1>1. CASE inst.op = "mov"
    <2> DEFINE t == Assigned(s, inst.a, KnownOf(s, inst.b))
    <2>1. DOMAIN t = ShapeFields /\ t.base = s.base
      BY <1>0, BaseKept DEF SameBase
    <2>2. After(s, inst) = IF inst.a = Reg("ebp") /\ inst.b = Reg("esp") THEN [t EXCEPT !.base = s.depth] ELSE t
      BY <1>1 DEF After
    <2> HIDE DEF t
    <2>3. [t EXCEPT !.base = s.depth].base = s.depth
      BY <2>1 DEF ShapeFields
    <2> QED BY <1>1, <2>1, <2>2, <2>3
  <1>2. CASE inst.op = "add" \/ inst.op = "sub"
    BY <1>0, <1>2, BaseKept DEF After, SameBase
  <1>3. CASE inst.op = "push" \/ inst.op = "pop" \/ inst.op = "builtin" \/ inst.op = "invoke"
    BY <1>0, <1>3, BaseKept DEF After, SameBase
  <1>4. CASE inst.op = "pushad"
    <2> DEFINE slots == [i \in 1..(s.depth + 8) |-> IF i <= s.depth THEN s.slots[i]
                                                    ELSE Of(s, PushadOrder[i - s.depth])]
    <2>1. After(s, inst) = [s EXCEPT !.depth = s.depth + 8, !.slots = slots]
      BY <1>4 DEF After
    <2> HIDE DEF slots
    <2> QED BY <1>0, <1>4, <2>1 DEF ShapeFields
  <1>5. CASE inst.op = "popad"
    <2> DEFINE told == [r \in Regs |-> IF r = "esp" THEN Unknown
                                       ELSE s.slots[s.depth - 8 + (CHOOSE i \in 1..8 : PushadOrder[i] = r)]]
               t == Resized(s, s.depth - 8)
    <2>1. After(s, inst) = [t EXCEPT !.regs = told]
      BY <1>5 DEF After
    <2>2. DOMAIN t = ShapeFields /\ t.base = s.base
      BY <1>0, BaseKept DEF SameBase
    <2> HIDE DEF told, t
    <2> QED BY <1>5, <2>1, <2>2 DEF ShapeFields
  <1>6. CASE inst.op = "enter"
    <2> DEFINE t == WithTop(s, Of(s, "ebp"))
               u == WithReg(t, "ebp", Frame(s.depth + 1))
    <2>1. After(s, inst) = Resized(u, s.depth + 1 + inst.a.val)
      BY <1>6 DEF After
    <2>2. DOMAIN t = ShapeFields /\ t.base = s.base
      BY <1>0, BaseKept DEF SameBase
    <2>3. DOMAIN u = ShapeFields /\ u.base = s.base
      <3> HIDE DEF t
      <3> QED BY <2>2, BaseKept DEF SameBase
    <2> HIDE DEF u
    <2> QED BY <1>6, <2>1, <2>3, BaseKept DEF SameBase
  <1>7. CASE inst.op = "leave"
    <2> DEFINE t == Resized(s, Of(s, "ebp").at)
    <2>1. After(s, inst) = PoppedTo(t, "ebp")
      BY <1>7 DEF After
    <2>2. DOMAIN t = ShapeFields /\ t.base = s.base
      BY <1>0, BaseKept DEF SameBase
    <2> HIDE DEF t
    <2> QED BY <1>7, <2>1, <2>2, BaseKept DEF SameBase
  <1> QED BY <1>1, <1>2, <1>3, <1>4, <1>5, <1>6, <1>7 DEF Staying
=============================================================================
