-------------------------- MODULE DisciplineProofs --------------------------
(***************************************************************************)
(* What the verifier of Discipline is worth: in every run of a verified     *)
(* program the return addresses, the saved registers and the stack pointer  *)
(* are where the shapes say.                                                *)
(***************************************************************************)
EXTENDS ShapeProofs

\* The shape before the next instruction of frame f, the address of f's return
\* address, and what f's procedure promises.
Promise(shape, f) == shape[frames[f].proc]
At(shape, f) == Promise(shape, f).at[frames[f].pc]
Home(f) == acts[f].entry["esp"] - 1

\* A frame has its return address, the base its prologue set, and its slots.
Placed(shape, f) ==
  /\ acts[f].entry["esp"] \in Int /\ Home(f) \in Int
  /\ f = 1 <=> frames[f].proc = Main
  /\ f > 1 => Home(f) \in Slots /\ memory[Home(f)] = ReturnMark
  /\ At(shape, f).live
  /\ At(shape, f).base > 0 => acts[f].base = Home(f) - At(shape, f).base
  /\ SlotsTold(At(shape, f), Home(f), acts[f].entry, memory)

\* A frame that waits for a call expects of it the stack pointer and the registers
\* the called procedure promises.
Waiting(shape, f) ==
  /\ Home(f) - At(shape, f).depth = Home(f + 1) + 1 + Promise(shape, f + 1).pops
  /\ \A r \in Regs \ {"esp"} :
       At(shape, f).regs[r].of # "any" =>
         /\ r \in Promise(shape, f + 1).saves
         /\ Denotes(At(shape, f).regs[r], Home(f), acts[f].entry, acts[f + 1].entry[r])

\* What a frame may write lies below what the frames that wait for it hold.
Apart(shape, f, g) ==
  /\ Home(g) + Promise(shape, g).args < Home(f)
  /\ \A i \in 1..At(shape, f).depth :
       At(shape, f).slots[i].of # "any" => Home(g) + Promise(shape, g).args < Home(f) - i

Shaped(shape) ==
  /\ \A f \in 1..Len(frames) : Placed(shape, f)
  /\ \A f \in 1..(Len(frames) - 1) : Waiting(shape, f)
  /\ \A f, g \in 1..Len(frames) : f < g => Apart(shape, f, g)
  /\ \A f \in 1..Len(frames) :
       f = Len(frames) => RegsTold(At(shape, f), Home(f), acts[f].entry, regs)
-----------------------------------------------------------------------------
LEMMA VerifiedIs ==
  ASSUME Typed, NEW shape, Verified(source, shape), NEW p \in Procs
  PROVE  /\ IsSummary(shape[p]) /\ DOMAIN shape[p].at = 1..(Len(code[p]) + 1)
         /\ \A pc \in 1..(Len(code[p]) + 1) : IsShape(shape[p].at[pc])
         /\ Fits(Entered, shape[p].at[1])
         /\ \A pc \in 1..Len(code[p]) : shape[p].at[pc].live => Accepts(shape, p, pc, code[p][pc])
         /\ p # Main /\ shape[p].at[Len(code[p]) + 1].live =>
              GivesBack(shape[p], shape[p].at[Len(code[p]) + 1]) /\ shape[p].pops = 0
         /\ KeepsPromise(source, p, shape[p], code[p])
  <1>1. code[p] = Lower(source)[p]
    BY DEF Typed
  <1> QED BY <1>1 DEF Verified

LEMMA PromiseIs ==
  ASSUME Typed, NEW shape, Verified(source, shape), NEW f, f \in 1..Len(frames)
  PROVE  /\ frames[f].proc \in Procs /\ frames[f].pc \in 1..(Len(code[frames[f].proc]) + 1)
         /\ IsShape(At(shape, f)) /\ IsSummary(Promise(shape, f))
         /\ At(shape, f).depth \in Nat /\ At(shape, f).base \in Nat
         /\ Promise(shape, f).args \in Nat /\ Promise(shape, f).pops \in Nat
  <1>1. frames[f].proc \in Procs /\ frames[f].pc \in 1..(Len(code[frames[f].proc]) + 1)
    BY DEF Typed, TypeOK
  <1>2. IsShape(At(shape, f)) /\ IsSummary(Promise(shape, f))
    BY <1>1, VerifiedIs DEF At, Promise
  <1>3. At(shape, f).depth \in Nat /\ At(shape, f).base \in Nat
    BY <1>2 DEF IsShape
  <1>4. Promise(shape, f).args \in Nat /\ Promise(shape, f).pops \in Nat
    BY <1>2 DEF IsSummary
  <1> QED BY <1>1, <1>2, <1>3, <1>4

LEMMA TopIs ==
  ASSUME Typed, NEW shape, Verified(source, shape), Shaped(shape), frames # << >>
  PROVE  /\ Len(frames) \in 1..Len(frames) /\ Len(acts) = Len(frames)
         /\ At(shape, Len(frames)) = shape[Current.proc].at[Current.pc]
         /\ Promise(shape, Len(frames)) = shape[Current.proc]
         /\ At(shape, Len(frames)).live /\ Home(Len(frames)) \in Int
         /\ Agrees(At(shape, Len(frames)), Home(Len(frames)), acts[Len(frames)].entry, Cpu)
         /\ Fetched => Accepts(shape, Current.proc, Current.pc, Inst)
  <1>1. Len(frames) \in 1..Len(frames)
    BY LastFrame
  <1>2. /\ At(shape, Len(frames)) = shape[Current.proc].at[Current.pc]
        /\ Promise(shape, Len(frames)) = shape[Current.proc]
    BY DEF At, Promise, Current
  <1>3. Placed(shape, Len(frames))
    BY <1>1 DEF Shaped
  <1>4. Cpu.regs = regs /\ Cpu.memory = memory
    BY DEF Cpu
  <1>5. Agrees(At(shape, Len(frames)), Home(Len(frames)), acts[Len(frames)].entry, Cpu)
    <2>1. IsShape(At(shape, Len(frames))) /\ IsCpu(Cpu)
      BY <1>1, CpuIs, PromiseIs
    <2>2. SlotsTold(At(shape, Len(frames)), Home(Len(frames)), acts[Len(frames)].entry, Cpu.memory)
      BY <1>3, <1>4 DEF Placed
    <2>3. RegsTold(At(shape, Len(frames)), Home(Len(frames)), acts[Len(frames)].entry, Cpu.regs)
      BY <1>1, <1>4 DEF Shaped
    <2> QED BY <2>1, <2>2, <2>3 DEF Agrees, Told
  <1>6. Fetched => Accepts(shape, Current.proc, Current.pc, Inst)
    <2>1. Fetched => Current.pc \in 1..Len(code[Current.proc]) /\ Current.proc \in Procs
      BY LastFrame DEF Fetched, Body
    <2> QED BY <1>2, <1>3, <2>1, VerifiedIs DEF Placed, Inst, Body
  <1> QED BY <1>1, <1>2, <1>3, <1>5, <1>6 DEF Placed, Typed, TypeOK
-----------------------------------------------------------------------------
(***************************************************************************)
(* Steps of the stack of frames                                             *)
(***************************************************************************)
\* What holds of words above an address holds as long as those words stay.
LEMMA SlotsKept ==
  ASSUME NEW s, NEW home, NEW entry, NEW m, NEW n, NEW low, SlotsTold(s, home, entry, m),
         \A a \in Slots : a > low => n[a] = m[a],
         \A i \in 1..s.depth : s.slots[i].of # "any" => home - i > low
  PROVE  SlotsTold(s, home, entry, n)
  BY DEF SlotsTold

\* A frame that waits keeps its place whatever the running procedure may write.
LEMMA PlaceKept ==
  ASSUME Typed, NEW shape, Verified(source, shape), Shaped(shape), NEW f, f \in 1..(Len(frames) - 1),
         frames'[f] = frames[f], acts'[f] = acts[f],
         OwnChanges(Home(Len(frames)), Promise(shape, Len(frames)).args, memory, memory')
  PROVE  Placed(shape, f)'
  <1> DEFINE L == Len(frames)
             low == Home(L) + Promise(shape, L).args
  <1>1. L \in Nat /\ L \in 1..L /\ f \in 1..L /\ f < L
    BY DEF Typed, TypeOK
  <1>2. Placed(shape, f) /\ Apart(shape, f, L)
    BY <1>1 DEF Shaped
  <1>3. /\ At(shape, f)' = At(shape, f) /\ Home(f)' = Home(f)
    BY DEF At, Promise, Home
  <1>4. \A a \in Slots : a > low => memory'[a] = memory[a]
    BY DEF OwnChanges
  <1>5. low < Home(f) /\ \A i \in 1..At(shape, f).depth : At(shape, f).slots[i].of # "any" => low < Home(f) - i
    BY <1>2 DEF Apart
  <1>6. low \in Int /\ Home(f) \in Int
    <2>1. Home(L) \in Int /\ Home(f) \in Int
      BY <1>1 DEF Shaped, Placed
    <2>2. Promise(shape, L).args \in Nat
      BY <1>1, PromiseIs
    <2> QED BY <2>1, <2>2
  <1>7. \A i \in 1..At(shape, f).depth : At(shape, f).slots[i].of # "any" => Home(f) - i > low
    BY <1>5, <1>6
  <1>8. SlotsTold(At(shape, f), Home(f), acts[f].entry, memory)
    BY <1>2 DEF Placed
  <1> HIDE DEF low
  <1>9. SlotsTold(At(shape, f), Home(f), acts[f].entry, memory')
    BY <1>4, <1>7, <1>8, SlotsKept
  <1>10. f > 1 => Home(f) \in Slots /\ memory'[Home(f)] = ReturnMark
    BY <1>2, <1>4, <1>5, <1>6 DEF Placed
  <1> QED BY <1>2, <1>3, <1>9, <1>10 DEF Placed

\* An instruction that stays in its procedure.
LEMMA Stays ==
  ASSUME Typed, Follow, NEW shape, Verified(source, shape), Shaped(shape),
         NEW n, Goes(n), NEW st, regs' = st.regs, memory' = st.memory,
         shape[Current.proc].at[n].live,
         Agrees(shape[Current.proc].at[n], Home(Len(frames)), acts[Len(frames)].entry, st),
         OwnChanges(Home(Len(frames)), shape[Current.proc].args, memory, memory'),
         shape[Current.proc].at[n].base > 0 =>
           acts'[Len(frames)].base = Home(Len(frames)) - shape[Current.proc].at[n].base
  PROVE  Shaped(shape)'
  <1> DEFINE t == shape[Current.proc].at[n]
  <1>0. PICK L : L = Len(frames)
    OBVIOUS
  <1>1. frames # << >> /\ L \in Nat /\ L \in 1..L /\ Len(acts) = L
    BY <1>0, LastFrame DEF Goes, Typed, TypeOK
  <1>2. /\ Len(frames') = L /\ \A f \in 1..(L - 1) : frames'[f] = frames[f]
        /\ frames'[L] = [proc |-> Current.proc, pc |-> n]
    BY <1>0, GoesFrames
  <1>3. /\ \A f \in 1..L : acts'[f].entry = acts[f].entry
        /\ \A f \in 1..(L - 1) : acts'[f] = acts[f]
    BY <1>0, <1>1, <1>2, ActsStay
  <1>4. frames'[L].proc = frames[L].proc /\ Current = frames[L]
    BY <1>0, <1>2 DEF Current
  <1>5. \A f \in 1..L : Home(f)' = Home(f) /\ Promise(shape, f)' = Promise(shape, f)
    <2> SUFFICES ASSUME NEW f \in 1..L PROVE Home(f)' = Home(f) /\ frames'[f].proc = frames[f].proc
      BY DEF Promise
    <2>1. CASE f = L
      BY <1>1, <1>3, <1>4, <2>1 DEF Home
    <2>2. CASE f # L
      <3>1. f \in 1..(L - 1)
        BY <1>1, <2>2
      <3> QED BY <1>2, <1>3, <3>1 DEF Home
    <2> QED BY <2>1, <2>2
  <1>6. \A f \in 1..(L - 1) : At(shape, f)' = At(shape, f)
    BY <1>2 DEF At, Promise
  <1>7. At(shape, L)' = t
    BY <1>2 DEF At, Promise
  <1>8. Promise(shape, L) = shape[Current.proc]
    BY <1>0 DEF Promise, Current
  <1>9. \A f \in 1..(L - 1) : Placed(shape, f)'
    BY <1>0, <1>2, <1>3, <1>8, PlaceKept
  <1>10. Placed(shape, L)'
    <2>1. Placed(shape, L)
      BY <1>0, <1>1 DEF Shaped
    <2>2. L > 1 => Home(L) \in Slots /\ memory'[Home(L)] = ReturnMark
      BY <1>0, <2>1 DEF Placed, OwnChanges
    <2>3. SlotsTold(t, Home(L), acts[L].entry, memory')
      BY <1>0 DEF Agrees, Told
    <2>4. Home(L)' = Home(L) /\ acts'[L].entry = acts[L].entry
      BY <1>1, <1>3, <1>5
    <2> HIDE DEF t
    <2> QED BY <1>0, <1>4, <1>7, <2>1, <2>2, <2>3, <2>4 DEF Placed, t
  <1>11. \A f \in 1..(L - 1) : Waiting(shape, f)'
    <2> SUFFICES ASSUME NEW f \in 1..(L - 1) PROVE Waiting(shape, f)'
      OBVIOUS
    <2>1. Waiting(shape, f) /\ f \in 1..L /\ f + 1 \in 1..L
      BY <1>0, <1>1 DEF Shaped
    <2>2. /\ At(shape, f)' = At(shape, f) /\ Home(f)' = Home(f) /\ Home(f + 1)' = Home(f + 1)
          /\ Promise(shape, f + 1)' = Promise(shape, f + 1)
          /\ acts'[f].entry = acts[f].entry /\ acts'[f + 1].entry = acts[f + 1].entry
      BY <1>3, <1>5, <1>6, <2>1
    <2> QED BY <2>1, <2>2 DEF Waiting
  <1>12. \A f, g \in 1..L : f < g => Apart(shape, f, g)'
    <2> SUFFICES ASSUME NEW f \in 1..L, NEW g \in 1..L, f < g PROVE Apart(shape, f, g)'
      OBVIOUS
    <2>1. Apart(shape, f, g) /\ f \in 1..(L - 1)
      BY <1>0, <1>1 DEF Shaped
    <2> QED BY <1>5, <1>6, <2>1 DEF Apart
  <1>13. RegsTold(t, Home(L), acts[L].entry, regs')
    BY <1>0 DEF Agrees, Told
  <1> HIDE DEF t
  <1>14. RegsTold(At(shape, L)', Home(L)', acts'[L].entry, regs')
    BY <1>1, <1>3, <1>5, <1>7, <1>13
  <1>15. \A f \in 1..L : Placed(shape, f)'
    <2> SUFFICES ASSUME NEW f \in 1..L, f # L PROVE Placed(shape, f)'
      BY <1>10
    <2> QED BY <1>1, <1>9
  <1> QED BY <1>2, <1>11, <1>12, <1>14, <1>15 DEF Shaped

\* A return to the frame that waits, or from the last.
LEMMA Returns ==
  ASSUME Typed, Follow, NEW shape, Verified(source, shape), Shaped(shape), Leaves, memory' = memory,
         Len(frames) > 1 => /\ regs'["esp"] = Home(Len(frames)) + 1 + shape[Current.proc].pops
                            /\ \A r \in shape[Current.proc].saves : regs'[r] = acts[Len(frames)].entry[r]
  PROVE  Shaped(shape)'
  <1>0. PICK L, M : L = Len(frames) /\ M = Len(frames) - 1
    OBVIOUS
  <1>1. frames # << >> /\ L \in Nat /\ M \in Nat /\ M < L /\ L \in 1..L /\ Len(acts) = L
    BY <1>0, LastFrame DEF Leaves, Typed, TypeOK
  <1>2. Len(frames') = M /\ \A f \in 1..M : frames'[f] = frames[f]
    BY <1>0, LeavesFrames
  <1>3. \A f \in 1..M : acts'[f] = acts[f]
    BY <1>0, <1>1, <1>2, ActsShrink
  <1>4. \A f \in 1..M : /\ Home(f)' = Home(f) /\ Promise(shape, f)' = Promise(shape, f)
                        /\ At(shape, f)' = At(shape, f) /\ f \in 1..L
    BY <1>1, <1>2, <1>3 DEF Home, Promise, At
  <1>5. \A f \in 1..M : Placed(shape, f)'
    BY <1>0, <1>2, <1>3, PlaceKept, OwnNothing
  <1>6. \A f \in 1..(M - 1) : Waiting(shape, f)'
    <2> SUFFICES ASSUME NEW f \in 1..(M - 1) PROVE Waiting(shape, f)'
      OBVIOUS
    <2>1. f \in 1..M /\ f + 1 \in 1..M
      BY <1>1
    <2> QED BY <1>0, <1>1, <1>3, <1>4, <2>1 DEF Shaped, Waiting
  <1>7. \A f, g \in 1..M : f < g => Apart(shape, f, g)'
    BY <1>0, <1>4 DEF Shaped, Apart
  <1>8. ASSUME M > 0 PROVE RegsTold(At(shape, M)', Home(M)', acts'[M].entry, regs')
    <2>1. M \in 1..M /\ M \in 1..(L - 1) /\ M + 1 = L /\ L > 1
      BY <1>0, <1>1, <1>8
    <2>2. Waiting(shape, M) /\ Promise(shape, L) = shape[Current.proc]
      BY <1>0, <2>1 DEF Shaped, Promise, Current
    <2>3. regs'["esp"] = Home(M) - At(shape, M).depth
      BY <1>0, <2>1, <2>2 DEF Waiting
    <2>4. ASSUME NEW r \in Regs \ {"esp"} PROVE Denotes(At(shape, M).regs[r], Home(M), acts[M].entry, regs'[r])
      <3>1. CASE At(shape, M).regs[r].of # "any"
        BY <1>0, <2>1, <2>2, <3>1 DEF Waiting
      <3>2. CASE At(shape, M).regs[r].of = "any"
        BY <3>2 DEF Denotes
      <3> QED BY <3>1, <3>2
    <2>5. RegsTold(At(shape, M), Home(M), acts[M].entry, regs')
      BY <2>3, <2>4 DEF RegsTold
    <2> QED BY <1>3, <1>4, <2>1, <2>5
  <1> QED BY <1>1, <1>2, <1>5, <1>6, <1>7, <1>8 DEF Shaped

\* A call: the caller waits, and the callee is entered.
LEMMA Calls ==
  ASSUME Typed, Follow, NEW shape, Verified(source, shape), Shaped(shape),
         NEW p, Enters(p), p # Main,
         FitsAfterCall(shape[p], shape[Current.proc].at[Current.pc], shape[Current.proc].at[Current.pc + 1]),
         push32(Cpu, ReturnMark).ok,
         regs' = push32(Cpu, ReturnMark).regs, memory' = push32(Cpu, ReturnMark).memory
  PROVE  Shaped(shape)'
  <1>0. PICK L, N, top, s, t, e :
          /\ L = Len(frames) /\ N = L + 1 /\ top = regs["esp"] - 1
          /\ s = shape[Current.proc].at[Current.pc] /\ t = shape[Current.proc].at[Current.pc + 1]
          /\ e = shape[p].at[1]
    OBVIOUS
  <1>1. /\ frames # << >> /\ L \in Nat /\ L \in 1..L /\ Len(acts) = L /\ p \in Procs /\ Fetched
        /\ L \in 1..N /\ N \in 1..N
    BY <1>0, LastFrame DEF Enters, Fetched, Typed, TypeOK
  <1>2. /\ Len(frames') = N /\ \A f \in 1..(L - 1) : frames'[f] = frames[f]
        /\ frames'[L] = [proc |-> Current.proc, pc |-> Current.pc + 1]
        /\ frames'[N] = [proc |-> p, pc |-> 1] /\ Current = frames[L]
    BY <1>0, EntersFrames DEF Current
  <1>3. /\ \A f \in 1..L : acts'[f] = acts[f]
        /\ acts'[N] = Activation(regs, pending)
    BY <1>0, <1>1, <1>2, ActsGrow
  <1>4. /\ \A f \in 1..L : Home(f)' = Home(f) /\ Promise(shape, f)' = Promise(shape, f)
        /\ \A f \in 1..(L - 1) : At(shape, f)' = At(shape, f)
        /\ At(shape, L)' = t /\ At(shape, L) = s
    <2>1. \A f \in 1..L : frames'[f].proc = frames[f].proc
      <3> SUFFICES ASSUME NEW f \in 1..L, f # L PROVE frames'[f].proc = frames[f].proc
        BY <1>2
      <3>1. f \in 1..(L - 1)
        BY <1>1
      <3> QED BY <1>2, <3>1
    <2>2. \A f \in 1..L : Home(f)' = Home(f) /\ Promise(shape, f)' = Promise(shape, f)
      BY <1>3, <2>1 DEF Home, Promise
    <2>3. \A f \in 1..(L - 1) : At(shape, f)' = At(shape, f)
      BY <1>2 DEF Promise, At
    <2>4. At(shape, L)' = t /\ At(shape, L) = s
      BY <1>0, <1>2 DEF Promise, At
    <2> QED BY <2>2, <2>3, <2>4
  <1>5. /\ acts'[N].entry = regs /\ Home(N)' = top /\ Promise(shape, N)' = shape[p] /\ At(shape, N)' = e
    BY <1>0, <1>2, <1>3 DEF Activation, Home, Promise, At
  <1>6. /\ s.depth \in Nat /\ Home(L) \in Int /\ regs["esp"] = Home(L) - s.depth
        /\ SlotsTold(s, Home(L), acts[L].entry, memory)
        /\ \A r \in Regs \ {"esp"} : Denotes(s.regs[r], Home(L), acts[L].entry, regs[r])
        /\ Placed(shape, L) /\ s.base \in Nat
    <2>1. Placed(shape, L) /\ RegsTold(s, Home(L), acts[L].entry, regs)
      BY <1>0, <1>1, <1>4 DEF Shaped
    <2>2. s.depth \in Nat /\ s.base \in Nat
      BY <1>0, <1>1, <1>4, PromiseIs
    <2> QED BY <1>4, <2>1, <2>2 DEF Placed, RegsTold
  <1>7. /\ shape[p].args \in Nat /\ shape[p].pops \in Nat
        /\ Promise(shape, L).args \in Nat
    BY <1>0, <1>1, VerifiedIs, PromiseIs DEF IsSummary
  <1>8. /\ top \in Slots /\ memory' = [memory EXCEPT ![top] = ReturnMark]
        /\ regs' = [regs EXCEPT !["esp"] = top]
    <2>1. Cpu.regs = regs /\ Cpu.memory = memory /\ DOMAIN Cpu = {"regs", "memory", "ok"}
      BY DEF Cpu
    <2>2. top \in Slots /\ push32(Cpu, ReturnMark) = [Cpu EXCEPT !.memory[top] = ReturnMark, !.regs["esp"] = top]
      BY <1>0, <2>1, CpuIs, FailedIs DEF push32
    <2>3. /\ push32(Cpu, ReturnMark).memory = [memory EXCEPT ![top] = ReturnMark]
          /\ push32(Cpu, ReturnMark).regs = [regs EXCEPT !["esp"] = top]
      BY <2>1, <2>2
    <2> QED BY <2>2, <2>3
  <1>9. /\ memory'[top] = ReturnMark /\ \A a \in Slots : a # top => memory'[a] = memory[a]
        /\ regs'["esp"] = top /\ \A r \in Regs \ {"esp"} : regs'[r] = regs[r]
    <2>1. DOMAIN regs = Regs /\ DOMAIN memory = Slots /\ "esp" \in Regs
      BY DEF Typed, TypeOK, Regs
    <2> QED BY <1>8, <2>1
  <1>10. /\ t.live /\ shape[p].args <= s.depth /\ t.depth = s.depth - shape[p].pops
         /\ t.base \in {0, s.base}
         /\ \A i \in 1..t.depth : \/ t.slots[i] = Unknown
                                  \/ t.slots[i] = s.slots[i] /\ i <= s.depth - shape[p].args
         /\ \A r \in Regs \ {"esp"} : \/ t.regs[r] = Unknown
                                      \/ t.regs[r] = s.regs[r] /\ r \in shape[p].saves
    BY <1>0 DEF FitsAfterCall
  <1>11. /\ top = Home(L) - s.depth - 1 /\ top \in Int /\ top < Home(L)
         /\ top + shape[p].args < Home(L) /\ top + shape[p].args \in Int
    <2>1. top = regs["esp"] - 1 /\ shape[p].args <= s.depth
      BY <1>0, <1>10
    <2>2. \A h \in Int : \A d, a \in Nat :
            a <= d => /\ (h - d) - 1 \in Int /\ (h - d) - 1 < h
                      /\ ((h - d) - 1) + a < h /\ ((h - d) - 1) + a \in Int
      OBVIOUS
    <2> QED BY <1>6, <1>7, <2>1, <2>2
  <1>12. \A f \in 1..(L - 1) : Placed(shape, f)'
    <2>1. OwnChanges(Home(L), Promise(shape, L).args, memory, memory')
      BY <1>6, <1>7, <1>9, <1>11 DEF OwnChanges
    <2>2. \A f \in 1..(L - 1) : f \in 1..L
      BY <1>1
    <2> QED BY <1>0, <1>2, <1>3, <2>1, <2>2, PlaceKept
  <1>13. \A i \in 1..t.depth : t.slots[i].of # "any" =>
           t.slots[i] = s.slots[i] /\ i \in 1..s.depth /\ top + shape[p].args < Home(L) - i
    <2> SUFFICES ASSUME NEW i \in 1..t.depth, t.slots[i].of # "any"
                 PROVE  t.slots[i] = s.slots[i] /\ i \in 1..s.depth /\ top + shape[p].args < Home(L) - i
      OBVIOUS
    <2>1. t.slots[i] = s.slots[i] /\ i <= s.depth - shape[p].args
      BY <1>10, UnknownIs
    <2>2. \A d, h, x, a \in Int : x <= d - a /\ a >= 0 => x <= d /\ ((h - d) - 1) + a < h - x
      OBVIOUS
    <2>3. i \in Int /\ i >= 1
      BY <1>6, <1>7, <1>10
    <2> QED BY <1>6, <1>7, <1>11, <2>1, <2>2, <2>3
  <1>14. Placed(shape, L)'
    <2>1. L > 1 => Home(L) \in Slots /\ memory'[Home(L)] = ReturnMark
      BY <1>6, <1>9, <1>11 DEF Placed
    <2>2. SlotsTold(t, Home(L), acts[L].entry, memory')
      <3> SUFFICES ASSUME NEW i \in 1..t.depth, t.slots[i].of # "any"
                   PROVE  Home(L) - i \in Slots /\ Denotes(t.slots[i], Home(L), acts[L].entry, memory'[Home(L) - i])
        BY DEF SlotsTold
      <3>1. t.slots[i] = s.slots[i] /\ i \in 1..s.depth /\ Home(L) - i # top
        BY <1>7, <1>11, <1>13
      <3>2. Home(L) - i \in Slots /\ Denotes(s.slots[i], Home(L), acts[L].entry, memory[Home(L) - i])
        BY <1>6, <3>1 DEF SlotsTold
      <3> QED BY <1>9, <3>1, <3>2
    <2>3. t.base > 0 => acts[L].base = Home(L) - t.base
      BY <1>4, <1>6, <1>10 DEF Placed
    <2>4. Home(L)' = Home(L) /\ acts'[L] = acts[L] /\ frames'[L].proc = frames[L].proc
      BY <1>1, <1>2, <1>3, <1>4
    <2> QED BY <1>4, <1>6, <1>10, <2>1, <2>2, <2>3, <2>4 DEF Placed
  <1>15. /\ e.live /\ e.depth = 0 /\ e.base = 0
         /\ \A r \in Regs \ {"esp"} : e.regs[r] = Unknown \/ e.regs[r] = Caller(r)
    <2>1. Fits(Entered, e)
      BY <1>0, <1>1, VerifiedIs
    <2> QED BY <2>1 DEF Fits, Entered
  <1>16. Placed(shape, N)'
    <2>1. N # 1 /\ frames'[N].proc # Main
      BY <1>0, <1>1, <1>2
    <2>2. SlotsTold(e, top, regs, memory')
      BY <1>15 DEF SlotsTold
    <2>3. regs["esp"] \in Int
      BY <1>6
    <2> QED BY <1>5, <1>8, <1>9, <1>11, <1>15, <2>1, <2>2, <2>3 DEF Placed
  <1>17. RegsTold(e, top, regs, regs')
    <2>1. regs'["esp"] = top - e.depth
      BY <1>9, <1>11, <1>15
    <2>2. ASSUME NEW r \in Regs \ {"esp"} PROVE Denotes(e.regs[r], top, regs, regs'[r])
      <3>1. CASE e.regs[r] = Unknown
        BY <3>1, UnknownIs
      <3>2. CASE e.regs[r] = Caller(r)
        BY <1>9, <3>2 DEF Denotes, Caller
      <3> QED BY <1>15, <3>1, <3>2
    <2> QED BY <2>1, <2>2 DEF RegsTold
  <1>18. \A f \in 1..L : Waiting(shape, f)'
    <2>1. ASSUME NEW f \in 1..(L - 1) PROVE Waiting(shape, f)'
      <3>1. f \in 1..L /\ f + 1 \in 1..L
        BY <1>1
      <3> QED BY <1>0, <1>3, <1>4, <3>1 DEF Shaped, Waiting
    <2>2. Waiting(shape, L)'
      <3>1. /\ Home(L)' = Home(L) /\ acts'[L].entry = acts[L].entry
            /\ Home(L + 1)' = top /\ Promise(shape, L + 1)' = shape[p] /\ acts'[L + 1].entry = regs
        BY <1>0, <1>1, <1>3, <1>4, <1>5
      <3>2. Home(L) - t.depth = top + 1 + shape[p].pops
        BY <1>6, <1>7, <1>10, <1>11
      <3>3. ASSUME NEW r \in Regs \ {"esp"}, t.regs[r].of # "any"
            PROVE  r \in shape[p].saves /\ Denotes(t.regs[r], Home(L), acts[L].entry, regs[r])
        BY <1>6, <1>10, <3>3, UnknownIs
      <3> QED BY <1>4, <3>1, <3>2, <3>3 DEF Waiting
    <2>3. \A f \in 1..L : f = L \/ f \in 1..(L - 1)
      BY <1>1
    <2> QED BY <2>1, <2>2, <2>3
  <1>19. \A f, g \in 1..N : f < g => Apart(shape, f, g)'
    <2>1. ASSUME NEW f \in 1..L, NEW g \in 1..L, f < g PROVE Apart(shape, f, g)'
      <3>1. f \in 1..(L - 1)
        BY <1>1, <2>1
      <3> QED BY <1>0, <1>4, <2>1, <3>1 DEF Shaped, Apart
    <2>2. Apart(shape, L, N)'
      BY <1>1, <1>4, <1>5, <1>11, <1>13 DEF Apart
    <2>3. ASSUME NEW f \in 1..(L - 1) PROVE Apart(shape, f, N)'
      <3>1. f \in 1..L /\ f < L
        BY <1>1
      <3>2. Apart(shape, f, L) /\ Placed(shape, f)
        BY <1>0, <1>1, <3>1 DEF Shaped
      <3>3. Home(f) \in Int /\ Home(L) <= Home(L) + Promise(shape, L).args /\ Home(L) + Promise(shape, L).args \in Int
        BY <1>6, <1>7, <3>2 DEF Placed
      <3>4. top + shape[p].args < Home(f)
        BY <1>6, <1>11, <3>2, <3>3 DEF Apart
      <3>5. ASSUME NEW i \in 1..At(shape, f).depth, At(shape, f).slots[i].of # "any"
            PROVE  top + shape[p].args < Home(f) - i
        <4>1. i \in Int
          BY <1>0, <3>1, PromiseIs
        <4> QED BY <1>6, <1>11, <3>2, <3>3, <3>5, <4>1 DEF Apart
      <3> QED BY <1>4, <1>5, <3>1, <3>4, <3>5 DEF Apart
    <2>4. \A f \in 1..N : f = N \/ f = L \/ f \in 1..(L - 1)
      BY <1>0, <1>1
    <2>5. L \in Int /\ N \in Int /\ \A f \in 1..(L - 1) : f \in 1..L /\ f < N
      BY <1>0, <1>1
    <2>6. ~(N < L) /\ ~(N < N) /\ \A f \in 1..(L - 1) : ~(N < f)
      BY <1>0, <1>1
    <2> QED BY <1>1, <2>1, <2>2, <2>3, <2>4, <2>5, <2>6
  <1>20. \A f \in 1..N : Placed(shape, f)'
    <2>1. \A f \in 1..N : f = N \/ f = L \/ f \in 1..(L - 1)
      BY <1>0, <1>1
    <2> QED BY <1>12, <1>14, <1>16, <2>1
  <1>21. N - 1 = L
    BY <1>0, <1>1
  <1> QED BY <1>2, <1>5, <1>17, <1>18, <1>19, <1>20, <1>21 DEF Shaped
-----------------------------------------------------------------------------
(***************************************************************************)
(* Steps of the machine                                                     *)
(***************************************************************************)
\* An instruction that goes on to the next, or jumps.
LEMMA GoesOn ==
  ASSUME Typed, Follow, NEW shape, Verified(source, shape), Shaped(shape), Fetched,
         Inst.op \in Staying, Exec(Cpu, Inst).ok, frames' = Advanced,
         regs' = Exec(Cpu, Inst).regs, memory' = Exec(Cpu, Inst).memory
  PROVE  Shaped(shape)'
  <1> DEFINE L == Len(frames)
             sum == shape[Current.proc]
             s == sum.at[Current.pc]
             n == Current.pc + 1
             t == sum.at[n]
             st == Exec(Cpu, Inst)
  <1>1. frames # << >> /\ Goes(n)
    BY AdvancedGoes DEF Fetched
  <1>2. /\ L \in 1..L /\ L \in Nat /\ Len(acts) = L /\ Home(L) \in Int /\ acts # << >>
        /\ At(shape, L) = s /\ Agrees(s, Home(L), acts[L].entry, Cpu)
        /\ Accepts(shape, Current.proc, Current.pc, Inst)
    BY <1>1, LastFrame, TopIs
  <1>3. Allowed(sum, s, Inst) /\ Fits(After(s, Inst), t)
    BY <1>2 DEF Accepts, Staying
  <1>4. IsSummary(sum) /\ IsShape(t)
    BY <1>1, LastFrame, VerifiedIs DEF Goes, Body
  <1>5. Cpu.regs = regs /\ Cpu.memory = memory
    BY DEF Cpu
  <1> HIDE DEF st, s, sum
  <1>6. /\ Agrees(After(s, Inst), Home(L), acts[L].entry, st)
        /\ OwnChanges(Home(L), sum.args, memory, st.memory)
    BY <1>2, <1>3, <1>4, <1>5, InstSound DEF st
  <1>7. Agrees(t, Home(L), acts[L].entry, st)
    BY <1>3, <1>4, <1>6, FitsTold
  <1>8. t.base > 0 => acts'[L].base = Home(L) - t.base
    <2>1. t.base \in {0, After(s, Inst).base}
      BY <1>3 DEF Fits
    <2>2. Len(frames') = L
      BY <1>1, GoesFrames
    <2>3. IsShape(s)
      BY <1>2 DEF Agrees
    <2>4. CASE IsPrologueMov
      <3>1. After(s, Inst).base = s.depth
        BY <2>3, <2>4, AfterBase DEF IsPrologueMov
      <3>2. acts'[L].base = regs["esp"]
        BY <1>2, <2>2, <2>4, ActsStay
      <3>3. regs["esp"] = Home(L) - s.depth
        BY <1>2, <1>5 DEF Agrees, Told, RegsTold
      <3> QED BY <2>1, <3>1, <3>2, <3>3
    <2>5. CASE ~IsPrologueMov
      <3>1. After(s, Inst).base = s.base
        BY <2>3, <2>5, AfterBase DEF IsPrologueMov
      <3>2. acts'[L].base = acts[L].base
        BY <1>2, <2>2, <2>5, ActsStay
      <3>3. s.base > 0 => acts[L].base = Home(L) - s.base
        BY <1>2 DEF Shaped, Placed
      <3> QED BY <2>1, <3>1, <3>2, <3>3
    <2> QED BY <2>4, <2>5
  <1>9. t.live
    BY <1>3 DEF Fits
  <1> QED BY <1>1, <1>6, <1>7, <1>8, <1>9, Stays DEF st, sum

LEMMA GoesTo ==
  ASSUME Typed, Follow, NEW shape, Verified(source, shape), Shaped(shape), Fetched,
         NEW n, Goes(n), Inst.op \in {"jmp", "jcc"}, regs' = regs, memory' = memory,
         Fits(shape[Current.proc].at[Current.pc], shape[Current.proc].at[n])
  PROVE  Shaped(shape)'
  <1> DEFINE L == Len(frames)
             s == shape[Current.proc].at[Current.pc]
             t == shape[Current.proc].at[n]
  <1>1. frames # << >>
    BY DEF Fetched
  <1>2. /\ L \in 1..L /\ L \in Nat /\ Len(acts) = L /\ Home(L) \in Int
        /\ At(shape, L) = s /\ Agrees(s, Home(L), acts[L].entry, Cpu)
    BY <1>1, LastFrame, TopIs
  <1>3. IsShape(t)
    BY <1>1, LastFrame, VerifiedIs DEF Goes, Body
  <1>4. Cpu.regs = regs /\ Cpu.memory = memory
    BY DEF Cpu
  <1> HIDE DEF s, t
  <1>5. Agrees(t, Home(L), acts[L].entry, Cpu)
    BY <1>2, <1>3, FitsTold DEF s, t
  <1>6. t.base > 0 => acts'[L].base = Home(L) - t.base
    <2>1. t.base \in {0, s.base}
      BY DEF Fits, s, t
    <2>2. acts'[L].base = acts[L].base
      BY <1>2, GoesFrames, ActsStay DEF IsPrologueMov
    <2>3. s.base > 0 => acts[L].base = Home(L) - s.base
      BY <1>2 DEF Shaped, Placed
    <2> QED BY <2>1, <2>2, <2>3
  <1>7. t.live
    BY DEF Fits, t
  <1> QED BY <1>4, <1>5, <1>6, <1>7, OwnNothing, Stays DEF t

\* What ret does to the registers.
LEMMA RetEffect ==
  ASSUME NEW st, IsCpu(st), NEW n, execAddSub(pop32(st), Reg("esp"), Imm(n), 1).ok
  PROVE  /\ execAddSub(pop32(st), Reg("esp"), Imm(n), 1).memory = st.memory
         /\ execAddSub(pop32(st), Reg("esp"), Imm(n), 1).regs =
              [st.regs EXCEPT !["esp"] = (st.regs["esp"] + 1) + 1 * n]
  <1> DEFINE u == pop32(st)
             v == (st.regs["esp"] + 1) + 1 * n
  <1>1. /\ Reg("esp").kind = "reg" /\ Reg("esp").base = "esp" /\ Imm(n).kind = "imm" /\ Imm(n).val = n
        /\ "esp" \in Regs
    BY DEF Reg, Imm, Regs
  <1>2. IsCpu(u)
    BY Pop32Is
  <1>3. execAddSub(u, Reg("esp"), Imm(n), 1) = assign(u, Reg("esp"), u.regs["esp"] + 1 * n)
    <2> HIDE DEF u
    <2> QED BY <1>1, <1>2, FailedIs DEF execAddSub, WithValue, Readable, resolveValue
  <1>4. assign(u, Reg("esp"), u.regs["esp"] + 1 * n).ok
    BY <1>3
  <1>5. u.ok /\ assign(u, Reg("esp"), u.regs["esp"] + 1 * n) = [u EXCEPT !.regs["esp"] = u.regs["esp"] + 1 * n]
    <2> HIDE DEF u
    <2> QED BY <1>1, <1>2, <1>4, FailedIs DEF assign
  <1>6. u = [st EXCEPT !.regs["esp"] = @ + 1]
    BY <1>5, FailedIs DEF pop32
  <1>7. u.memory = st.memory /\ u.regs = [st.regs EXCEPT !["esp"] = st.regs["esp"] + 1]
    BY <1>6 DEF IsCpu
  <1>8. u.regs["esp"] = st.regs["esp"] + 1
    BY <1>1, <1>7 DEF IsCpu
  <1>9. assign(u, Reg("esp"), u.regs["esp"] + 1 * n).regs = [u.regs EXCEPT !["esp"] = u.regs["esp"] + 1 * n]
        /\ assign(u, Reg("esp"), u.regs["esp"] + 1 * n).memory = u.memory
    <2> HIDE DEF u
    <2> QED BY <1>2, <1>5 DEF IsCpu
  <1>10. [u.regs EXCEPT !["esp"] = v] = [st.regs EXCEPT !["esp"] = v]
    BY <1>1, <1>7 DEF IsCpu
  <1>11. u.regs["esp"] + 1 * n = v
    BY <1>8
  <1> HIDE DEF u, v
  <1>12. /\ execAddSub(u, Reg("esp"), Imm(n), 1).memory = st.memory
         /\ execAddSub(u, Reg("esp"), Imm(n), 1).regs = [st.regs EXCEPT !["esp"] = v]
    BY <1>3, <1>7, <1>9, <1>10, <1>11
  <1> QED BY <1>12 DEF u, v

\* Where a shape gives back, the registers are the caller's.
LEMMA GivenBack ==
  ASSUME NEW s, NEW home \in Int, NEW entry, NEW st, Agrees(s, home, entry, st),
         NEW sum, IsSummary(sum), GivesBack(sum, s)
  PROVE  st.regs["esp"] = home /\ \A r \in sum.saves : r \in Regs \ {"esp"} /\ st.regs[r] = entry[r]
  <1>1. st.regs["esp"] = home - 0
    BY DEF GivesBack, Agrees, Told, RegsTold
  <1>2. ASSUME NEW r \in sum.saves PROVE r \in Regs \ {"esp"} /\ st.regs[r] = entry[r]
    <2>1. r \in Regs \ {"esp"} /\ s.regs[r] = Caller(r)
      BY DEF IsSummary, GivesBack
    <2> QED BY <2>1 DEF Agrees, Told, RegsTold, Denotes, Caller
  <1> QED BY <1>1, <1>2

LEMMA Gives ==
  ASSUME Typed, NEW shape, Verified(source, shape), Shaped(shape), frames # << >>,
         GivesBack(shape[Current.proc], shape[Current.proc].at[Current.pc])
  PROVE  /\ regs["esp"] = Home(Len(frames)) /\ Home(Len(frames)) \in Int
         /\ \A r \in shape[Current.proc].saves :
              r \in Regs \ {"esp"} /\ regs[r] = acts[Len(frames)].entry[r]
  <1> DEFINE h == Home(Len(frames))
             s == shape[Current.proc].at[Current.pc]
             entry == acts[Len(frames)].entry
  <1>1. h \in Int /\ Agrees(s, h, entry, Cpu) /\ IsSummary(shape[Current.proc])
    BY LastFrame, VerifiedIs, TopIs
  <1>2. Cpu.regs = regs
    BY DEF Cpu
  <1> HIDE DEF h, s, entry
  <1>3. Cpu.regs["esp"] = h /\ \A r \in shape[Current.proc].saves : r \in Regs \ {"esp"} /\ Cpu.regs[r] = entry[r]
    BY <1>1, GivenBack DEF s
  <1> QED BY <1>1, <1>2, <1>3 DEF h, entry

\* A ret of a verified procedure, that does not fault, gives back what is promised.
LEMMA RetGives ==
  ASSUME Typed, NEW shape, Verified(source, shape), Shaped(shape), Ret, status' = "running"
  PROVE  /\ Leaves /\ memory' = memory /\ Inst.n = shape[Current.proc].pops
         /\ Home(Len(frames)) \in Int
         /\ regs'["esp"] = Home(Len(frames)) + 1 + shape[Current.proc].pops
         /\ \A r \in shape[Current.proc].saves :
              r \in Regs \ {"esp"} /\ regs'[r] = acts[Len(frames)].entry[r]
  <1> DEFINE st == execAddSub(pop32(Cpu), Reg("esp"), Imm(Inst.n), 1)
  <1>1. Fetched /\ Inst.op = "ret" /\ frames # << >>
    BY DEF Ret, Fetched
  <1>2. GivesBack(shape[Current.proc], shape[Current.proc].at[Current.pc]) /\ Inst.n = shape[Current.proc].pops
    BY <1>1, TopIs DEF Accepts
  <1>3. st.ok /\ regs' = st.regs /\ memory' = st.memory /\ frames' = Returned
    BY DEF Ret, Commit, Error
  <1>4. Cpu.regs = regs /\ Cpu.memory = memory
    BY DEF Cpu
  <1>5. memory' = memory /\ regs' = [regs EXCEPT !["esp"] = (regs["esp"] + 1) + 1 * Inst.n]
    <2>1. st.memory = Cpu.memory /\ st.regs = [Cpu.regs EXCEPT !["esp"] = (Cpu.regs["esp"] + 1) + 1 * Inst.n]
      BY <1>3, CpuIs, RetEffect
    <2> HIDE DEF st
    <2> QED BY <1>3, <1>4, <2>1
  <1>6. /\ DOMAIN regs = Regs /\ "esp" \in Regs
        /\ shape[Current.proc].pops \in Nat
    BY <1>1, LastFrame, VerifiedIs DEF Typed, TypeOK, Regs, IsSummary
  <1>7. /\ regs'["esp"] = (regs["esp"] + 1) + 1 * Inst.n
        /\ \A r \in Regs \ {"esp"} : regs'[r] = regs[r]
    BY <1>5, <1>6
  <1>8. /\ regs["esp"] = Home(Len(frames)) /\ Home(Len(frames)) \in Int
        /\ \A r \in shape[Current.proc].saves :
             r \in Regs \ {"esp"} /\ regs[r] = acts[Len(frames)].entry[r]
    BY <1>1, <1>2, Gives
  <1>9. regs'["esp"] = Home(Len(frames)) + 1 + shape[Current.proc].pops
    BY <1>2, <1>6, <1>7, <1>8
  <1> QED BY <1>1, <1>2, <1>3, <1>5, <1>7, <1>8, <1>9 DEF Leaves

\* The end of a verified procedure's instructions does too.
LEMMA FallGives ==
  ASSUME Typed, NEW shape, Verified(source, shape), Shaped(shape), FallOff
  PROVE  /\ Leaves /\ memory' = memory
         /\ Len(frames) > 1 =>
              /\ regs'["esp"] = Home(Len(frames)) + 1 + shape[Current.proc].pops
              /\ \A r \in shape[Current.proc].saves : regs'[r] = acts[Len(frames)].entry[r]
  <1>1. frames # << >> /\ ~Fetched /\ Leaves /\ memory' = memory
    BY DEF FallOff, Leaves
  <1>2. SUFFICES ASSUME Len(frames) > 1
                 PROVE  /\ regs'["esp"] = Home(Len(frames)) + 1 + shape[Current.proc].pops
                        /\ \A r \in shape[Current.proc].saves : regs'[r] = acts[Len(frames)].entry[r]
    BY <1>1
  <1>3. Current.pc = Len(Body) + 1 /\ Current.proc \in Procs /\ Len(frames) \in 1..Len(frames)
    BY <1>1, LastFrame DEF Fetched
  <1>4. Current.proc # Main /\ Home(Len(frames)) \in Slots /\ shape[Current.proc].at[Current.pc].live
    BY <1>2, <1>3 DEF Shaped, Placed, Current, At, Promise
  <1>5. GivesBack(shape[Current.proc], shape[Current.proc].at[Current.pc]) /\ shape[Current.proc].pops = 0
    BY <1>3, <1>4, VerifiedIs DEF Body
  <1>6. /\ regs["esp"] = Home(Len(frames)) /\ Home(Len(frames)) \in Int
        /\ \A r \in shape[Current.proc].saves :
             r \in Regs \ {"esp"} /\ regs[r] = acts[Len(frames)].entry[r]
    BY <1>1, <1>5, Gives
  <1>7. Cpu.regs = regs /\ Cpu.memory = memory /\ Cpu.ok /\ DOMAIN Cpu = {"regs", "memory", "ok"}
    BY DEF Cpu
  <1>8. CanPop(Cpu)
    BY <1>4, <1>6, <1>7 DEF CanPop
  <1>9. pop32(Cpu).regs = [regs EXCEPT !["esp"] = regs["esp"] + 1]
    BY <1>7, <1>8 DEF pop32
  <1>10. regs' = [regs EXCEPT !["esp"] = regs["esp"] + 1]
    BY <1>4, <1>8, <1>9 DEF FallOff
  <1>11. DOMAIN regs = Regs /\ "esp" \in Regs
    BY DEF Typed, TypeOK, Regs
  <1>12. regs'["esp"] = regs["esp"] + 1 /\ \A r \in Regs \ {"esp"} : regs'[r] = regs[r]
    BY <1>10, <1>11
  <1> QED BY <1>5, <1>6, <1>12

LEMMA Ended == ASSUME frames' = << >>, NEW shape PROVE Shaped(shape)'
  BY DEF Shaped

\* Whatever a verified program does next, short of an error, keeps it in shape.
LEMMA ShapedStep ==
  ASSUME Typed, PNext, NEW shape, Verified(source, shape), Shaped(shape), status' = "running"
  PROVE  Shaped(shape)'
  <1>0. Follow /\ Step /\ ~Error
    BY DEF PNext, Error
  <1>1. ASSUME NEW op, NEW st, Straight(op, st), op \in Staying, st = Exec(Cpu, Inst)
        PROVE  Shaped(shape)'
    <2>1. Fetched /\ Inst.op = op /\ Commit(st, Advanced)
      BY <1>1 DEF Straight
    <2>2. st.ok /\ regs' = st.regs /\ memory' = st.memory /\ frames' = Advanced
      BY <1>0, <2>1 DEF Commit
    <2> QED BY <1>0, <1>1, <2>1, <2>2, GoesOn
  <1>2. CASE Mov
    BY <1>1, <1>2 DEF Mov, Straight, Exec, Staying
  <1>3. CASE Add
    BY <1>1, <1>3 DEF Add, Straight, Exec, Staying
  <1>4. CASE Sub
    BY <1>1, <1>4 DEF Sub, Straight, Exec, Staying
  <1>5. CASE Push
    BY <1>1, <1>5 DEF Push, Straight, Exec, Staying
  <1>6. CASE Pop
    BY <1>1, <1>6 DEF Pop, Straight, Exec, Staying
  <1>7. CASE Pushad
    BY <1>1, <1>7 DEF Pushad, Straight, Exec, Staying
  <1>8. CASE Popad
    BY <1>1, <1>8 DEF Popad, Straight, Exec, Staying
  <1>9. CASE Enter
    BY <1>1, <1>9 DEF Enter, Straight, Exec, Staying
  <1>10. CASE Leave
    BY <1>1, <1>10 DEF Leave, Straight, Exec, Staying
  <1>11. CASE Builtin
    <2>1. Straight("builtin", assign(Cpu, Reg("eax"), Inst.a.val))
      BY <1>11 DEF Builtin, Straight
    <2>2. Exec(Cpu, Inst) = assign(Cpu, Reg("eax"), Inst.a.val)
      BY <1>11 DEF Builtin, Exec
    <2> QED BY <1>1, <2>1, <2>2 DEF Staying
  <1>12. CASE Invoke
    <2>1. Straight("invoke", push32(Cpu, ReturnMark))
      BY <1>0, <1>12 DEF Invoke, Straight
    <2>2. Exec(Cpu, Inst) = push32(Cpu, ReturnMark)
      BY <1>12 DEF Invoke, Exec
    <2> QED BY <1>1, <2>1, <2>2 DEF Staying
  <1>13. CASE Call
    <2>1. Fetched /\ Inst.op = "call" /\ Inst.target \in Procs /\ enterProcedure(Cpu, Inst.target)
      BY <1>0, <1>13 DEF Call
    <2>2. /\ push32(Cpu, ReturnMark).ok
          /\ regs' = push32(Cpu, ReturnMark).regs /\ memory' = push32(Cpu, ReturnMark).memory
          /\ frames' = Append(Advanced, [proc |-> Inst.target, pc |-> 1])
      BY <1>0, <2>1 DEF enterProcedure, Commit
    <2>3. Enters(Inst.target)
      BY <2>1, <2>2 DEF Enters
    <2>4. /\ Inst.target # Main
          /\ FitsAfterCall(shape[Inst.target], shape[Current.proc].at[Current.pc],
                           shape[Current.proc].at[Current.pc + 1])
      BY <2>1, TopIs DEF Accepts, Fetched
    <2> QED BY <1>0, <2>2, <2>3, <2>4, Calls
  <1>14. CASE CallIndirect
    <2>1. Fetched /\ Inst.op = "call_indirect"
      BY <1>14 DEF CallIndirect
    <2> QED BY <2>1, TopIs DEF Accepts, Allowed, Fetched
  <1>15. CASE Ret
    BY <1>0, <1>15, RetGives, Returns
  <1>16. CASE Jmp \/ Jcc
    <2>1. Fetched /\ Inst.op \in {"jmp", "jcc"} /\ Cpu.regs = regs /\ Cpu.memory = memory
      BY <1>16 DEF Jmp, Jcc, Cpu
    <2>2. Accepts(shape, Current.proc, Current.pc, Inst)
      BY <2>1, TopIs DEF Fetched
    <2>3. CASE Jump
      <3>1. /\ Inst.n \in 1..(Len(Body) + 1) /\ regs' = regs /\ memory' = memory
            /\ frames' = [frames EXCEPT ![Len(frames)].pc = Inst.n]
        BY <1>0, <2>1, <2>3 DEF Jump, Commit
      <3>2. Goes(Inst.n)
        BY <2>1, <3>1 DEF Goes, Fetched
      <3>3. Inst.n \in DOMAIN shape[Current.proc].at
        BY <2>1, <3>1, LastFrame, VerifiedIs DEF Body, Fetched
      <3>4. Fits(shape[Current.proc].at[Current.pc], shape[Current.proc].at[Inst.n])
        BY <2>1, <2>2, <3>3 DEF Accepts
      <3> QED BY <1>0, <2>1, <3>1, <3>2, <3>4, GoesTo
    <2>4. CASE Inst.op = "jcc" /\ Commit(Cpu, Advanced)
      <3>1. regs' = regs /\ memory' = memory /\ frames' = Advanced
        BY <1>0, <2>1, <2>4 DEF Commit
      <3>2. Goes(Current.pc + 1)
        BY <2>1, <3>1, AdvancedGoes
      <3>3. Fits(shape[Current.proc].at[Current.pc], shape[Current.proc].at[Current.pc + 1])
        BY <2>2, <2>4 DEF Accepts
      <3> QED BY <1>0, <2>1, <3>1, <3>2, <3>3, GoesTo
    <2> QED BY <1>16, <2>3, <2>4 DEF Jmp, Jcc
  <1>17. CASE Exit \/ ExitProcess
    BY <1>17, Ended DEF Exit, ExitProcess
  <1>18. CASE FallOff
    BY <1>0, <1>18, FallGives, Returns
  <1>19. CASE Finish
    BY <1>19 DEF Finish
  <1> QED BY <1>0, <1>2, <1>3, <1>4, <1>5, <1>6, <1>7, <1>8, <1>9, <1>10, <1>11, <1>12, <1>13, <1>14,
             <1>15, <1>16, <1>17, <1>18, <1>19 DEF Step
-----------------------------------------------------------------------------
(***************************************************************************)
(* Runs                                                                     *)
(***************************************************************************)
\* The inductive invariant: until an error, whatever verifies the program tells
\* where every frame has its return address, its saved registers and its slots.
Ordered == status = "running" => \A shape : Verified(source, shape) => Shaped(shape)

InShape == Typed /\ Ordered

LEMMA InShapeInit == ASSUME PInit PROVE InShape
  <1>1. Typed
    BY TypedInit
  <1>2. SUFFICES ASSUME NEW shape, Verified(source, shape) PROVE Shaped(shape)
    BY <1>1 DEF InShape, Ordered
  <1> DEFINE entry == [regs EXCEPT !["esp"] = MemTop + 1]
             e == shape[Main].at[1]
  <1>3. /\ frames = <<[proc |-> Main, pc |-> 1]>> /\ acts = <<Activation(entry, << >>)>>
        /\ regs = [r \in Regs |-> IF r = "esp" THEN MemTop ELSE 0]
    BY DEF PInit, Boot
  <1>4. Len(frames) = 1 /\ frames[1].proc = Main /\ frames[1].pc = 1
    BY <1>3
  <1>5. acts[1].entry = entry
    BY <1>3 DEF Activation
  <1>6. /\ "esp" \in Regs /\ regs["esp"] = MemTop /\ entry["esp"] = MemTop + 1
        /\ \A r \in Regs \ {"esp"} : entry[r] = regs[r]
    BY <1>3 DEF Regs
  <1>7. MemTop \in Int /\ Main \in Procs
    BY ProgramAssumption
  <1>8. Fits(Entered, e)
    BY <1>1, <1>2, <1>7, VerifiedIs
  <1>9. /\ e.live /\ e.depth = 0 /\ e.base = 0
        /\ \A r \in Regs \ {"esp"} : e.regs[r] = Unknown \/ e.regs[r] = Caller(r)
    BY <1>8 DEF Fits, Entered
  <1> HIDE DEF entry, e
  <1>10. At(shape, 1) = e /\ Home(1) = MemTop /\ Home(1) \in Int /\ acts[1].entry["esp"] \in Int
    BY <1>4, <1>5, <1>6, <1>7 DEF At, Promise, Home, e
  <1>11. Placed(shape, 1)
    BY <1>4, <1>9, <1>10 DEF Placed, SlotsTold
  <1>12. RegsTold(e, MemTop, entry, regs)
    <2>1. ASSUME NEW r \in Regs \ {"esp"} PROVE Denotes(e.regs[r], MemTop, entry, regs[r])
      <3>1. CASE e.regs[r] = Unknown
        BY <3>1, UnknownIs
      <3>2. CASE e.regs[r] = Caller(r)
        BY <1>6, <3>2 DEF Denotes, Caller
      <3> QED BY <1>9, <3>1, <3>2
    <2> QED BY <1>6, <1>7, <1>9, <2>1 DEF RegsTold
  <1> QED BY <1>4, <1>5, <1>10, <1>11, <1>12 DEF Shaped

LEMMA InShapeNext == ASSUME InShape, [PNext]_vars PROVE InShape'
  <1>1. CASE UNCHANGED vars
    <2>1. /\ source' = source /\ code' = code /\ frames' = frames /\ acts' = acts
          /\ regs' = regs /\ memory' = memory /\ status' = status
      BY <1>1 DEF vars, mvars
    <2>2. Typed'
      BY <2>1 DEF InShape, Typed, TypeOK
    <2>3. Ordered'
      <3> SUFFICES ASSUME status' = "running", NEW shape, Verified(source, shape)' PROVE Shaped(shape)'
        BY DEF Ordered
      <3>1. Verified(source, shape)
        BY <2>1
      <3>2. Shaped(shape)
        BY <2>1, <3>1 DEF InShape, Ordered
      <3> QED BY <2>1, <3>2 DEF Shaped, Placed, Waiting, Apart, At, Promise, Home
    <2> QED BY <2>2, <2>3 DEF InShape
  <1>2. CASE PNext
    <2>1. Typed' /\ source' = source /\ status = "running"
      BY <1>2, TypedNext DEF InShape, PNext, Follow, Step
    <2>2. ASSUME status' = "running", NEW shape, Verified(source, shape) PROVE Shaped(shape)'
      BY <1>2, <2>1, <2>2, ShapedStep DEF InShape, Ordered
    <2>3. \A shape : Verified(source, shape)' <=> Verified(source, shape)
      BY <2>1
    <2>4. Ordered'
      <3> SUFFICES ASSUME status' = "running", NEW shape, Verified(source, shape)' PROVE Shaped(shape)'
        BY DEF Ordered
      <3> QED BY <2>2, <2>3
    <2> QED BY <2>1, <2>4 DEF InShape
  <1> QED BY <1>1, <1>2

LEMMA InShapeAlways == Spec => []InShape
  BY InShapeInit, InShapeNext, PTL DEF Spec

\* Translated code that some shapes verify never overwrites a return address:
\* every active call finds the mark its call put on the stack, at every depth of
\* calls (enterProcedure, execRet).
THEOREM ReturnsIntact == Spec => [](Disciplined(source) => ReturnSlotsIntact)
  <1>1. InShape => (Disciplined(source) => ReturnSlotsIntact)
    <2> SUFFICES ASSUME InShape, Disciplined(source), status = "running", NEW f \in 2..Len(acts)
                 PROVE  memory[acts[f].entry["esp"] - 1] = ReturnMark
      BY DEF ReturnSlotsIntact
    <2>1. PICK shape : Verified(source, shape)
      BY DEF Disciplined
    <2>2. Shaped(shape) /\ Len(acts) = Len(frames) /\ Len(frames) \in Nat
      BY <2>1 DEF InShape, Ordered, Typed, TypeOK
    <2>3. f \in 1..Len(frames) /\ f > 1
      BY <2>2
    <2> QED BY <2>2, <2>3 DEF Shaped, Placed, Home
  <1> QED BY <1>1, InShapeAlways, PTL

\* A procedure of verified code gives its caller back EBP, the registers of its
\* USES list, and the stack pointer less its arguments, whatever it called
\* meanwhile (rewriteRet, execRet).
THEOREM CalleesRestore ==
  ASSUME \A src \in Sources : Disciplined(src)
  PROVE  Spec => CalleeRestores
  <1>1. ASSUME InShape, PNext, status = "running", Fetched, Inst.op = "ret", Len(frames') = Len(frames) - 1
        PROVE  /\ regs'["ebp"] = Top.entry["ebp"]
               /\ \A i \in 1..Len(CurrentProc.uses) :
                    regs'[CurrentProc.uses[i]] = Top.entry[CurrentProc.uses[i]]
               /\ regs'["esp"] = Top.entry["esp"] + Removed(CurrentProc, Inst.n)
    <2>1. Typed /\ source \in Sources /\ frames # << >> /\ Len(acts) = Len(frames)
      BY <1>1 DEF InShape, Typed, TypeOK, Fetched
    <2>2. PICK shape : Verified(source, shape) /\ Shaped(shape)
      BY <1>1, <2>1 DEF InShape, Ordered, Disciplined
    <2>3. Ret
      BY <1>1 DEF PNext, Step, Mov, Add, Sub, Push, Pop, Pushad, Popad, Enter, Leave, Straight, Builtin, Call,
                  CallIndirect, Invoke, Jmp, Jcc, Exit, ExitProcess, FallOff, Finish, Fetched
    <2>4. status' = "running"
      <3>1. Len(frames) \in Nat
        BY <2>1, LastFrame
      <3>2. frames' # frames
        BY <1>1, <3>1
      <3> QED BY <1>1, <2>3, <3>2 DEF Ret, Commit, Error
    <2>5. /\ Inst.n = shape[Current.proc].pops
          /\ Home(Len(frames)) \in Int
          /\ regs'["esp"] = Home(Len(frames)) + 1 + shape[Current.proc].pops
          /\ \A r \in shape[Current.proc].saves : regs'[r] = acts[Len(frames)].entry[r]
      BY <2>1, <2>2, <2>3, <2>4, RetGives
    <2>6. /\ KeepsPromise(source, Current.proc, shape[Current.proc], Body)
          /\ Current.pc \in 1..Len(Body) /\ shape[Current.proc].pops \in Nat
      BY <1>1, <2>1, <2>2, LastFrame, VerifiedIs DEF Body, Fetched, IsSummary
    <2>7. /\ "ebp" \in shape[Current.proc].saves
          /\ \A i \in 1..Len(CurrentProc.uses) : CurrentProc.uses[i] \in shape[Current.proc].saves
          /\ Inst.n = Removed(CurrentProc, Inst.n)
      BY <1>1, <2>6 DEF KeepsPromise, CurrentProc, Inst
    <2>8. acts[Len(frames)].entry["esp"] \in Int
      BY <2>1, <2>2, LastFrame DEF Shaped, Placed
    <2>9. Top = acts[Len(frames)]
      BY <2>1 DEF Top
    <2>10. regs'["esp"] = Top.entry["esp"] + Inst.n
      BY <2>5, <2>6, <2>8, <2>9 DEF Home
    <2> QED BY <2>5, <2>7, <2>9, <2>10
  <1>2. InShape /\ [PNext]_vars =>
          [(status = "running" /\ Fetched /\ Inst.op = "ret" /\ Len(frames') = Len(frames) - 1) =>
             /\ regs'["ebp"] = Top.entry["ebp"]
             /\ \A i \in 1..Len(CurrentProc.uses) :
                  regs'[CurrentProc.uses[i]] = Top.entry[CurrentProc.uses[i]]
             /\ regs'["esp"] = Top.entry["esp"] + Removed(CurrentProc, Inst.n)]_vars
    BY <1>1
  <1> QED BY <1>2, InShapeAlways, PTL DEF Spec, CalleeRestores

\* Between the lines of verified code whose lines start at the depth their text
\* says, the stack pointer is there, whatever the calls in between did
\* (parseInvoke, rewriteRet, execCall, execRet).
THEOREM StackInStep == Spec => [](DisciplinedLines(source) => StackBalanced)
  <1>1. InShape => (DisciplinedLines(source) => StackBalanced)
    <2> SUFFICES ASSUME InShape, DisciplinedLines(source), status = "running", LineStart,
                        InBody(CurrentProc, Inst.line)
                 PROVE  regs["esp"] = (IF HasFrame(CurrentProc)
                                       THEN Top.base - Len(CurrentProc.uses) - LocalSlots(CurrentProc)
                                       ELSE Top.entry["esp"] - 1)
                                      - Pushed(CurrentProc, Inst.line) - Left(source, CurrentProc, Inst.line)
      BY DEF StackBalanced
    <2>1. PICK shape : Verified(source, shape) /\ Balanced(source, shape)
      BY DEF DisciplinedLines
    <2>2. Typed /\ Shaped(shape) /\ Fetched /\ frames # << >>
      BY <2>1 DEF InShape, Ordered, LineStart, Fetched
    <2> DEFINE L == Len(frames)
               s == shape[Current.proc].at[Current.pc]
               proc == CurrentProc
               line == Inst.line
    <2>3. Current.proc \in Procs /\ Current.pc \in 1..Len(Body) /\ Body = Lower(source)[Current.proc]
      BY <2>2, LastFrame DEF Fetched, Body, Typed
    <2>4. L \in 1..L /\ Len(acts) = L /\ At(shape, L) = s /\ s.live /\ Agrees(s, Home(L), acts[L].entry, Cpu)
      BY <2>1, <2>2, TopIs
    <2>5. StartsLine(Body, Current.pc) /\ InBody(source[Current.proc], Body[Current.pc].line)
      BY DEF StartsLine, LineStart, Inst, CurrentProc
    <2>6. /\ HasFrame(proc) => s.base > 0
          /\ DepthOfLine(source, proc, line, s)
      BY <2>1, <2>3, <2>4, <2>5 DEF Balanced, CurrentProc, Inst
    <2>7. /\ regs["esp"] = Home(L) - s.depth /\ Home(L) \in Int
          /\ s.base > 0 => Top.base = Home(L) - s.base
          /\ s.base \in Nat /\ Top.entry["esp"] - 1 = Home(L)
      <3>1. Cpu.regs = regs /\ Top = acts[L]
        BY <2>4 DEF Cpu, Top
      <3>2. Placed(shape, L) /\ s.base \in Nat
        BY <2>1, <2>2, <2>4, PromiseIs DEF Shaped
      <3> QED BY <2>4, <3>1, <3>2 DEF Agrees, Told, RegsTold, Placed, Home
    <2>8. Len(proc.uses) \in Nat
      BY <2>2, <2>3, SourceAssumption DEF Typed, CurrentProc, IsProcedure, IsSequence
    <2> DEFINE a == LocalSlots(proc)
               b == Pushed(proc, line)
               c == Left(source, proc, line)
               u == Len(proc.uses)
    <2>9. /\ a \in Int /\ b \in Int /\ c \in Int
          /\ s.depth = (IF HasFrame(proc) THEN s.base + u + a ELSE 0) + b + c
      BY <2>6 DEF DepthOfLine
    <2> HIDE DEF a, b, c, u, s, proc, line, L
    <2>10. regs["esp"] = (IF HasFrame(proc) THEN Top.base - u - a ELSE Top.entry["esp"] - 1) - b - c
      BY <2>6, <2>7, <2>8, <2>9 DEF u
    <2> QED BY <2>10 DEF a, b, c, u, proc, line
  <1> QED BY <1>1, InShapeAlways, PTL
=============================================================================
