---------------------------- MODULE ProcsProofs ----------------------------
(***************************************************************************)
(* Theorems about Procs: types, for every program.                          *)
(***************************************************************************)
EXTENDS Procs, TLAPS, SequenceTheorems, WellFoundedInduction

LEMMA OfElements ==
  ASSUME NEW s, IsSequence(s), NEW S, \A i \in 1..Len(s) : s[i] \in S
  PROVE  s \in Seq(S)
  <1> DEFINE n == Len(s)
  <1>1. n \in Nat /\ s \in [1..n -> S]
    BY DEF IsSequence
  <1> QED BY <1>1

LEMMA SeqIs ==
  ASSUME NEW S, NEW s \in Seq(S)
  PROVE  IsSequence(s)
  BY LenProperties DEF IsSequence

LEMMA FunctionIs ==
  ASSUME NEW n \in Nat, NEW s, s = [i \in 1..n |-> s[i]]
  PROVE  IsSequence(s) /\ Len(s) = n
  <1> DEFINE S == {s[i] : i \in 1..n}
  <1>1. s \in [1..n -> S]
    OBVIOUS
  <1>2. s \in Seq(S) /\ Len(s) = n
    BY <1>1
  <1> QED BY <1>2, SeqIs

LEMMA AppendIs ==
  ASSUME NEW s, IsSequence(s), NEW x
  PROVE  /\ IsSequence(Append(s, x)) /\ Len(Append(s, x)) = Len(s) + 1
         /\ Append(s, x)[Len(s) + 1] = x
         /\ \A i \in 1..Len(s) : Append(s, x)[i] = s[i]
  <1> DEFINE S == {s[i] : i \in 1..Len(s)} \union {x}
  <1>1. s \in Seq(S) /\ x \in S
    BY OfElements
  <1>2. Append(s, x) \in Seq(S)
    BY <1>1
  <1>3. IsSequence(Append(s, x))
    BY <1>2, SeqIs
  <1>4. Len(s) \in Nat
    BY DEF IsSequence
  <1> QED BY <1>1, <1>3, <1>4, AppendProperties

LEMMA ConcatIs ==
  ASSUME NEW s, NEW t, IsSequence(s), IsSequence(t)
  PROVE  IsSequence(s \o t) /\ Len(s \o t) = Len(s) + Len(t)
  <1> DEFINE S == {s[i] : i \in 1..Len(s)} \union {t[i] : i \in 1..Len(t)}
  <1>1. s \in Seq(S) /\ t \in Seq(S)
    BY OfElements
  <1>2. s \o t \in Seq(S)
    BY <1>1
  <1> QED BY <1>1, <1>2, SeqIs, ConcatProperties

LEMMA FrontIs ==
  ASSUME NEW s, IsSequence(s), NEW n \in 0..Len(s)
  PROVE  /\ IsSequence(SubSeq(s, 1, n)) /\ Len(SubSeq(s, 1, n)) = n
         /\ \A i \in 1..n : SubSeq(s, 1, n)[i] = s[i]
  <1> DEFINE S == {s[i] : i \in 1..Len(s)}
  <1>1. s \in Seq(S) /\ Len(s) \in Nat
    BY OfElements DEF IsSequence
  <1>2. /\ SubSeq(s, 1, n) = [i \in 1..n |-> s[i]]
    BY <1>1, SubSeqProperties
  <1> DEFINE t == SubSeq(s, 1, n)
  <1>3. t = [i \in 1..n |-> t[i]] /\ n \in Nat
    BY <1>1, <1>2
  <1>4. IsSequence(t) /\ Len(t) = n
    BY <1>3, FunctionIs
  <1> QED BY <1>2, <1>4
-----------------------------------------------------------------------------
LEMMA LessIs == \A x, y \in Nat : <<y, x>> \in OpToRel(<, Nat) <=> y < x
  BY DEF OpToRel

LEMMA Least == ASSUME NEW T, T \subseteq Nat, T # {} PROVE \E x \in T : \A y \in T : ~(y < x)
  <1>1. PICK x \in T : \A y \in T : ~(<<y, x>> \in OpToRel(<, Nat))
    BY WFMin, NatLessThanWellFounded
  <1>2. ASSUME NEW y \in T PROVE ~(y < x)
    <2>1. x \in Nat /\ y \in Nat
      OBVIOUS
    <2> QED BY <1>1, <1>2, <2>1, LessIs, Zenon
  <1> QED BY <1>2

LEMMA SetInduction ==
  ASSUME NEW S, 0 \in S, \A n \in Nat : n \in S => n + 1 \in S
  PROVE  Nat \subseteq S
  <1> SUFFICES ASSUME Nat \ S # {} PROVE FALSE
    OBVIOUS
  <1>1. PICK x \in Nat \ S : \A y \in Nat \ S : ~(y < x)
    BY Least
  <1>2. x # 0 /\ x - 1 \in Nat /\ x - 1 < x
    OBVIOUS
  <1>3. x - 1 \in S
    BY <1>1, <1>2
  <1> QED BY <1>2, <1>3

\* The first n of some sequences put one after the other: f[i] are the first i.
Joined(s, f, n) == f = [i \in 1..n |-> IF i = 1 THEN s[i] ELSE f[i - 1] \o s[i]]

LEMMA JoinedMore ==
  ASSUME NEW s, NEW f, NEW n \in Nat, Joined(s, f, n)
  PROVE  \E g : Joined(s, g, n + 1)
  <1> DEFINE g == [i \in 1..(n + 1) |-> IF i = n + 1 THEN IF i = 1 THEN s[i] ELSE f[i - 1] \o s[i]
                                        ELSE f[i]]
  <1>1. \A i \in 1..n : f[i] = IF i = 1 THEN s[i] ELSE f[i - 1] \o s[i]
    BY DEF Joined
  <1>2. \A i \in 1..n : g[i] = f[i]
    OBVIOUS
  <1>3. ASSUME NEW i \in 1..(n + 1)
        PROVE  g[i] = IF i = 1 THEN s[i] ELSE g[i - 1] \o s[i]
    <2>1. i # 1 => i - 1 \in 1..n
      OBVIOUS
    <2>2. i # 1 => g[i - 1] = f[i - 1]
      BY <2>1, <1>2
    <2>3. g[i] = IF i = 1 THEN s[i] ELSE f[i - 1] \o s[i]
      BY <1>1
    <2> QED BY <2>2, <2>3
  <1>4. g = [i \in 1..(n + 1) |-> g[i]]
    OBVIOUS
  <1> HIDE DEF g
  <1>5. g = [i \in 1..(n + 1) |-> IF i = 1 THEN s[i] ELSE g[i - 1] \o s[i]]
    BY <1>3, <1>4
  <1> QED BY <1>5 DEF Joined

LEMMA JoinedAll ==
  ASSUME NEW s, NEW n \in Nat
  PROVE  \E f : Joined(s, f, n)
  <1> DEFINE E == {k \in Nat : \E f : Joined(s, f, k)}
  <1>1. 0 \in E
    <2>1. Joined(s, [i \in 1..0 |-> 0], 0)
      BY DEF Joined
    <2> QED BY <2>1
  <1>2. ASSUME NEW k \in Nat, k \in E PROVE k + 1 \in E
    <2>1. PICK f : Joined(s, f, k)
      BY <1>2, Zenon
    <2>2. \E g : Joined(s, g, k + 1)
      BY <2>1, JoinedMore
    <2>3. k + 1 \in Nat
      OBVIOUS
    <2> QED BY <2>2, <2>3, Zenon
  <1>3. \A k \in Nat : k \in E => k + 1 \in E
    BY <1>2
  <1> HIDE DEF E
  <1>4. Nat \subseteq E
    BY <1>1, <1>3, SetInduction
  <1> QED BY <1>4, Zenon DEF E

LEMMA FlattenIs ==
  ASSUME NEW s, IsSequence(s), \A i \in 1..Len(s) : IsSequence(s[i])
  PROVE  IsSequence(FlattenSeq(s))
  <1> DEFINE flatten[i \in 1..Len(s)] == IF i = 1 THEN s[i] ELSE flatten[i - 1] \o s[i]
             n == Len(s)
             Q == {k \in Nat : k + 1 <= n => IsSequence(flatten[k + 1])}
  <1>0. n \in Nat
    BY DEF IsSequence
  <1>1. Joined(s, flatten, n)
    <2>1. \E f : Joined(s, f, n)
      BY <1>0, JoinedAll
    <2> QED BY <2>1, Zenon DEF Joined
  <1>2. FlattenSeq(s) = IF n = 0 THEN s ELSE flatten[n]
    BY DEF FlattenSeq
  <1> HIDE DEF flatten
  <1>3. \A i \in 1..n : flatten[i] = IF i = 1 THEN s[i] ELSE flatten[i - 1] \o s[i]
    BY <1>1 DEF Joined
  <1>4. 0 \in Q
    BY <1>0, <1>3
  <1>5. ASSUME NEW k \in Nat, k \in Q PROVE k + 1 \in Q
    <2> SUFFICES ASSUME (k + 1) + 1 <= n PROVE IsSequence(flatten[(k + 1) + 1])
      OBVIOUS
    <2>0. (k + 1) + 1 \in 1..n /\ (k + 1) + 1 # 1 /\ ((k + 1) + 1) - 1 = k + 1
      BY <1>0
    <2>1. flatten[(k + 1) + 1] = flatten[k + 1] \o s[(k + 1) + 1]
      BY <1>3, <2>0
    <2>2. IsSequence(flatten[k + 1]) /\ IsSequence(s[(k + 1) + 1])
      BY <1>5, <1>0
    <2> QED BY <2>1, <2>2, ConcatIs
  <1>6. Nat \subseteq Q
    <2>1. \A k \in Nat : k \in Q => k + 1 \in Q
      BY <1>5
    <2> HIDE DEF Q
    <2> QED BY <1>4, <2>1, SetInduction
  <1>7. n # 0 => IsSequence(flatten[n])
    <2>1. n # 0 => n - 1 \in Nat /\ (n - 1) + 1 = n
      BY <1>0
    <2>2. \A k \in Nat : k + 1 <= n => IsSequence(flatten[k + 1])
      BY <1>6
    <2>3. n # 0 => (n - 1) + 1 <= n
      BY <1>0
    <2> HIDE DEF n
    <2>4. n # 0 => IsSequence(flatten[(n - 1) + 1])
      BY <2>1, <2>2, <2>3
    <2> QED BY <2>1, <2>4
  <1> QED BY <1>2, <1>7
-----------------------------------------------------------------------------
(***************************************************************************)
(* The translation of a procedure is a sequence of instructions             *)
(***************************************************************************)
LEMMA OneIs == ASSUME NEW x PROVE IsSequence(<<x>>)
  BY DEF IsSequence

LEMMA NoneIs == IsSequence(<< >>)
  BY DEF IsSequence

LEMMA OpIs == ASSUME NEW line, NEW op, NEW args PROVE IsSequence(Op(line, op, args))
  BY OneIs DEF Op

LEMMA ControlIs ==
  ASSUME NEW line, NEW op, NEW n, NEW target
  PROVE  IsSequence(Control(line, op, n, target))
  BY OneIs DEF Control

LEMMA PushesIs ==
  ASSUME NEW s, Len(s) \in Nat, NEW line, NEW op
  PROVE  IsSequence([i \in 1..Len(s) |-> Instr(line, op, <<Reg(s[i])>>, 0, "")])
  BY FunctionIs

LEMMA FrameIs ==
  ASSUME NEW proc, IsProcedure(proc), NEW line
  PROVE  IsSequence(ensureFrameStarted(proc, line))
  <1>1. Len(proc.uses) \in Nat
    BY DEF IsProcedure, IsSequence
  <1>2. IsSequence([i \in 1..Len(proc.uses) |-> Instr(line, "push", <<Reg(proc.uses[i])>>, 0, "")])
    BY <1>1, PushesIs
  <1>3. IsSequence(Op(line, "push", <<Reg("ebp")>>) \o Op(line, "mov", <<Reg("ebp"), Reg("esp")>>))
    BY OpIs, ConcatIs
  <1> QED BY <1>2, <1>3, ConcatIs DEF ensureFrameStarted

LEMMA LocalLineIs ==
  ASSUME NEW proc, IsProcedure(proc), NEW line
  PROVE  IsSequence(parseLocalLine(proc, line))
  BY FrameIs, OpIs, NoneIs, ConcatIs DEF parseLocalLine

LEMMA RetIs ==
  ASSUME NEW proc, IsProcedure(proc), NEW line, NEW args
  PROVE  IsSequence(rewriteRet(proc, line, args))
  <1> DEFINE uses == RestoreOrder(proc.uses)
             pops == [i \in 1..Len(uses) |-> Instr(line, "pop", <<Reg(uses[i])>>, 0, "")]
             locals == LocalsUpTo(proc, line)
             frees == IF locals = << >> THEN << >> ELSE Op(line, "add", <<Reg("esp"), Imm(Total(locals))>>)
             ret(default) == Control(line, "ret", IF args = << >> THEN default ELSE args[1], "")
  <1>1. Len(proc.uses) \in Nat
    BY DEF IsProcedure, IsSequence
  <1>2. Len(uses) \in Nat
    BY <1>1 DEF RestoreOrder, Reverse
  <1>3. IsSequence(pops)
    BY <1>2, PushesIs
  <1>4. IsSequence(frees)
    BY OpIs, NoneIs
  <1>5. \A n : IsSequence(ret(n))
    BY ControlIs
  <1>6. IsSequence(Op(line, "pop", <<Reg("ebp")>>))
    BY OpIs
  <1>7. IsSequence(frees \o pops \o Op(line, "pop", <<Reg("ebp")>>) \o ret(autoCleanup(proc.convention, proc.params)))
    <2> HIDE DEF frees, pops, ret
    <2> QED BY <1>3, <1>4, <1>5, <1>6, ConcatIs
  <1> QED BY <1>5, <1>7 DEF rewriteRet

LEMMA InvokeIs ==
  ASSUME NEW src, NEW proc, NEW line, NEW target, NEW args, IsSequence(args)
  PROVE  IsSequence(parseInvoke(src, proc, line, target, args))
  <1> DEFINE last == PushOrder(args)
             pushes == [i \in 1..Len(last) |-> Instr(line, "push", <<Resolved(proc, last[i])>>, 0, "")]
             clean == Op(line, "add", <<Reg("esp"), Imm(autoCleanup("c", src[target].params))>>)
  <1>1. Len(args) \in Nat
    BY DEF IsSequence
  <1>2. Len(last) \in Nat
    BY <1>1 DEF PushOrder, Reverse
  <1>3. IsSequence(pushes)
    BY <1>2, FunctionIs
  <1>4. IsSequence(Control(line, "call", 0, target)) /\ IsSequence(Control(line, "invoke", Len(args), target))
    BY ControlIs
  <1>5. IsSequence(clean)
    BY OpIs
  <1>6. IsSequence(pushes \o Control(line, "call", 0, target) \o clean)
    <2> HIDE DEF pushes, clean
    <2> QED BY <1>3, <1>4, <1>5, ConcatIs
  <1>7. IsSequence(pushes \o Control(line, "call", 0, target) \o << >>)
    <2> HIDE DEF pushes, clean
    <2> QED BY <1>3, <1>4, NoneIs, ConcatIs
  <1> QED BY <1>4, <1>6, <1>7 DEF parseInvoke

LEMMA CodeLineIs ==
  ASSUME NEW src, NEW proc, IsProcedure(proc), NEW line \in 1..Len(proc.lines)
  PROVE  IsSequence(parseCodeLine(src, proc, line))
  <1> DEFINE text == proc.lines[line]
  <1>1. text.st # "local" => IsSequence(text.args)
    BY DEF IsProcedure
  <1>2. IsSequence(parseLocalLine(proc, line)) /\ IsSequence(rewriteRet(proc, line, text.args))
    BY LocalLineIs, RetIs
  <1>3. text.st = "invoke" => IsSequence(parseInvoke(src, proc, line, text.target, text.args))
    BY <1>1, InvokeIs
  <1> QED BY <1>2, <1>3, OneIs DEF parseCodeLine

\* What LowerProc puts out for a procedure is a sequence, whatever its lines.
LEMMA BodyIs ==
  ASSUME NEW src, NEW proc, IsProcedure(proc)
  PROVE  IsSequence(LowerProc(src, proc))
  <1> DEFINE lines == [line \in 1..Len(proc.lines) |-> parseCodeLine(src, proc, line)]
             start == IF FramedAtProc(proc) THEN ensureFrameStarted(proc, 0) ELSE << >>
             body == start \o FlattenSeq(lines)
  <1>1. Len(proc.lines) \in Nat
    BY DEF IsProcedure, IsSequence
  <1>2. IsSequence(lines) /\ Len(lines) = Len(proc.lines)
    BY <1>1, FunctionIs
  <1>3. \A i \in 1..Len(lines) : IsSequence(lines[i])
    BY <1>2, CodeLineIs
  <1>4. IsSequence(FlattenSeq(lines))
    BY <1>2, <1>3, FlattenIs
  <1>5. IsSequence(start)
    BY FrameIs, NoneIs
  <1>6. Len(body) \in Nat
    <2> HIDE DEF start, lines
    <2>1. IsSequence(body)
      BY <1>4, <1>5, ConcatIs
    <2> QED BY <2>1 DEF IsSequence
  <1>7. LowerProc(src, proc) = WithLabels(body)
    BY DEF LowerProc
  <1> HIDE DEF body
  <1>8. IsSequence(WithLabels(body))
    BY <1>6, FunctionIs DEF WithLabels
  <1> QED BY <1>7, <1>8
-----------------------------------------------------------------------------
(***************************************************************************)
(* What instructions leave of the machine                                   *)
(***************************************************************************)
IsCpu(st) == /\ DOMAIN st = {"regs", "memory", "ok"}
             /\ DOMAIN st.regs = Regs /\ DOMAIN st.memory = Slots

LEMMA FailedIs == ASSUME NEW st, IsCpu(st) PROVE IsCpu(Failed(st)) /\ ~Failed(st).ok
  BY DEF IsCpu, Failed

LEMMA AssignIs == ASSUME NEW st, NEW op, NEW v, IsCpu(st) PROVE IsCpu(assign(st, op, v))
  <1>1. IsCpu([st EXCEPT !.regs[op.base] = v]) /\ IsCpu([st EXCEPT !.memory[EffectiveAddress(st, op)] = v])
    BY DEF IsCpu
  <1> QED BY <1>1, FailedIs DEF assign

LEMMA PushIs == ASSUME NEW st, NEW v, IsCpu(st) PROVE IsCpu(push32(st, v))
  <1>1. ASSUME NEW a PROVE IsCpu([st EXCEPT !.memory[a] = v, !.regs["esp"] = a])
    BY DEF IsCpu
  <1> QED BY <1>1, FailedIs DEF push32

LEMMA Pop32Is == ASSUME NEW st, IsCpu(st) PROVE IsCpu(pop32(st))
  <1>1. IsCpu([st EXCEPT !.regs["esp"] = @ + 1])
    BY DEF IsCpu
  <1> QED BY <1>1, FailedIs DEF pop32

LEMMA PopIs == ASSUME NEW st, NEW op, IsCpu(st) PROVE IsCpu(PopTo(st, op))
  BY Pop32Is, AssignIs, FailedIs DEF PopTo

LEMMA MovIs == ASSUME NEW st, NEW a, NEW b, IsCpu(st) PROVE IsCpu(execMov(st, a, b))
  BY AssignIs, FailedIs DEF execMov, WithValue

LEMMA AddSubIs ==
  ASSUME NEW st, NEW a, NEW b, NEW sign, IsCpu(st)
  PROVE  IsCpu(execAddSub(st, a, b, sign))
  BY AssignIs, FailedIs DEF execAddSub, WithValue

LEMMA ExecPushIs == ASSUME NEW st, NEW op, IsCpu(st) PROVE IsCpu(execPush(st, op))
  BY PushIs, FailedIs DEF execPush, WithValue

LEMMA PushAllIs == ASSUME NEW st, NEW values, IsCpu(st) PROVE IsCpu(pushAll(st, values))
  <1>1. ASSUME NEW m, DOMAIN m = Slots, NEW e PROVE IsCpu([st EXCEPT !.memory = m, !.regs["esp"] = e])
    <2> DEFINE t == [st EXCEPT !.memory = m, !.regs["esp"] = e]
    <2>1. t.memory = m /\ t.regs = [st.regs EXCEPT !["esp"] = e] /\ DOMAIN t = {"regs", "memory", "ok"}
      BY DEF IsCpu
    <2>2. DOMAIN [st.regs EXCEPT !["esp"] = e] = Regs
      BY DEF IsCpu
    <2> HIDE DEF t
    <2> QED BY <1>1, <2>1, <2>2 DEF IsCpu
  <1> QED BY <1>1, FailedIs DEF pushAll

LEMMA PushadIs == ASSUME NEW st, IsCpu(st) PROVE IsCpu(execPushad(st))
  BY PushAllIs DEF execPushad

LEMMA PopadIs == ASSUME NEW st, IsCpu(st) PROVE IsCpu(execPopad(st))
  <1>1. ASSUME NEW r, DOMAIN r = Regs PROVE IsCpu([st EXCEPT !.regs = r])
    <2> DEFINE t == [st EXCEPT !.regs = r]
    <2>1. t.regs = r /\ t.memory = st.memory /\ DOMAIN t = {"regs", "memory", "ok"}
      BY DEF IsCpu
    <2> HIDE DEF t
    <2> QED BY <1>1, <2>1 DEF IsCpu
  <1> QED BY <1>1, FailedIs DEF execPopad

LEMMA LeaveIs == ASSUME NEW st, IsCpu(st) PROVE IsCpu(execLeave(st))
  <1>1. IsCpu([st EXCEPT !.regs["esp"] = st.regs["ebp"]])
    BY DEF IsCpu
  <1> QED BY <1>1, PopIs DEF execLeave

LEMMA EnterIs == ASSUME NEW st, NEW alloc, NEW level, IsCpu(st) PROVE IsCpu(execEnter(st, alloc, level))
  <1>1. ASSUME NEW t, IsCpu(t), NEW e PROVE IsCpu([t EXCEPT !.regs["ebp"] = e, !.regs["esp"] = @ - alloc])
    <2> DEFINE u == [t EXCEPT !.regs["ebp"] = e, !.regs["esp"] = @ - alloc]
    <2>1. /\ u.regs = [t.regs EXCEPT !["ebp"] = e, !["esp"] = @ - alloc]
          /\ u.memory = t.memory /\ DOMAIN u = {"regs", "memory", "ok"}
      BY <1>1 DEF IsCpu
    <2>2. DOMAIN [t.regs EXCEPT !["ebp"] = e, !["esp"] = @ - alloc] = Regs
      BY <1>1 DEF IsCpu
    <2> HIDE DEF u
    <2> QED BY <1>1, <2>1, <2>2 DEF IsCpu
  <1> QED BY <1>1, PushAllIs, FailedIs DEF execEnter
-----------------------------------------------------------------------------
(***************************************************************************)
(* Types                                                                    *)
(***************************************************************************)
Frames == [proc : Procs, pc : Nat]
ActFields == {"entry", "base", "args", "locals"}

\* The inductive invariant: the program is the translation of the source, and
\* there is one activation for each frame.
Typed == /\ TypeOK
         /\ source \in Sources /\ code = Lower(source)
         /\ frames \in Seq(Frames) /\ IsSequence(acts)
         /\ \A f \in 1..Len(acts) : DOMAIN acts[f] = ActFields

LEMMA CodeIs == ASSUME Typed, NEW p \in Procs PROVE IsSequence(code[p]) /\ Len(code[p]) \in Nat
  <1>1. DOMAIN source = Procs /\ IsProcedure(source[p])
    BY SourceAssumption DEF Typed
  <1>2. code[p] = LowerProc(source, source[p])
    BY <1>1 DEF Typed, Lower
  <1>3. IsSequence(code[p])
    BY <1>1, <1>2, BodyIs
  <1> QED BY <1>3 DEF IsSequence

\* How one step may change the frames.
Goes(n) == frames # << >> /\ n \in 1..(Len(Body) + 1) /\ frames' = [frames EXCEPT ![Len(frames)].pc = n]
Enters(p) == Fetched /\ p \in Procs /\ frames' = Append(Advanced, [proc |-> p, pc |-> 1])
Leaves == frames # << >> /\ frames' = Returned
Ends == frames' = << >>

LEMMA LastFrame ==
  ASSUME Typed, frames # << >>
  PROVE  /\ Len(frames) \in Nat \ {0} /\ Current \in Frames /\ Current.proc \in Procs
         /\ Len(Body) \in Nat /\ Current.pc \in 1..(Len(Body) + 1)
  <1>1. frames \in Seq(Frames)
    BY DEF Typed
  <1>2. Len(frames) \in Nat \ {0}
    BY <1>1
  <1>3. Len(frames) \in 1..Len(frames)
    BY <1>2
  <1>4. Current \in Frames
    BY <1>1, <1>3 DEF Current
  <1>5. Current.proc \in Procs
    BY <1>4 DEF Frames
  <1>6. Current.pc \in 1..(Len(Body) + 1)
    BY <1>3 DEF Typed, TypeOK, Current, Body
  <1> QED BY <1>2, <1>4, <1>5, <1>6, CodeIs DEF Body

LEMMA AdvancedGoes ==
  ASSUME Typed, Fetched, frames' = Advanced
  PROVE  Goes(Current.pc + 1)
  <1>1. Current.pc + 1 \in 1..(Len(Body) + 1)
    BY LastFrame DEF Fetched
  <1> QED BY <1>1 DEF Goes, Advanced, Current, Fetched

LEMMA GoesFrames ==
  ASSUME Typed, NEW n, Goes(n)
  PROVE  /\ frames' \in Seq(Frames) /\ Len(frames') = Len(frames)
         /\ \A f \in 1..(Len(frames) - 1) : frames'[f] = frames[f]
         /\ frames'[Len(frames)] = [proc |-> Current.proc, pc |-> n]
  <1>1. /\ Len(frames) \in Nat \ {0} /\ Current \in Frames /\ n \in Nat
    BY LastFrame DEF Goes
  <1>2. frames \in Seq(Frames) /\ Current = frames[Len(frames)]
    BY DEF Typed, Current
  <1>3. frames' = [frames EXCEPT ![Len(frames)] = [Current EXCEPT !.pc = n]]
    BY <1>2 DEF Goes
  <1>4. [Current EXCEPT !.pc = n] = [proc |-> Current.proc, pc |-> n]
    BY <1>1 DEF Frames
  <1>5. [proc |-> Current.proc, pc |-> n] \in Frames
    BY <1>1 DEF Frames
  <1> QED BY <1>1, <1>2, <1>3, <1>4, <1>5

LEMMA EntersFrames ==
  ASSUME Typed, NEW p, Enters(p)
  PROVE  /\ frames' \in Seq(Frames) /\ Len(frames') = Len(frames) + 1
         /\ \A f \in 1..(Len(frames) - 1) : frames'[f] = frames[f]
         /\ frames'[Len(frames)] = [proc |-> Current.proc, pc |-> Current.pc + 1]
         /\ frames'[Len(frames) + 1] = [proc |-> p, pc |-> 1]
  <1>1. /\ Len(frames) \in Nat \ {0} /\ Current \in Frames /\ Current.pc \in Nat
    BY LastFrame DEF Enters, Fetched
  <1>2. frames \in Seq(Frames) /\ Current = frames[Len(frames)]
    BY DEF Typed, Current
  <1>3. Advanced = [frames EXCEPT ![Len(frames)] = [Current EXCEPT !.pc = Current.pc + 1]]
    BY <1>2 DEF Advanced
  <1>4. [Current EXCEPT !.pc = Current.pc + 1] = [proc |-> Current.proc, pc |-> Current.pc + 1]
    BY <1>1 DEF Frames
  <1>5. [proc |-> Current.proc, pc |-> Current.pc + 1] \in Frames /\ [proc |-> p, pc |-> 1] \in Frames
    BY <1>1 DEF Frames, Enters
  <1>6. /\ Advanced \in Seq(Frames) /\ Len(Advanced) = Len(frames)
        /\ \A f \in 1..(Len(frames) - 1) : Advanced[f] = frames[f]
        /\ Advanced[Len(frames)] = [proc |-> Current.proc, pc |-> Current.pc + 1]
    BY <1>1, <1>2, <1>3, <1>4, <1>5
  <1>7. frames' = Append(Advanced, [proc |-> p, pc |-> 1])
    BY DEF Enters
  <1> HIDE DEF Advanced
  <1> QED BY <1>1, <1>5, <1>6, <1>7, AppendProperties

LEMMA LeavesFrames ==
  ASSUME Typed, Leaves
  PROVE  /\ frames' \in Seq(Frames) /\ Len(frames') = Len(frames) - 1
         /\ \A f \in 1..(Len(frames) - 1) : frames'[f] = frames[f]
  <1>1. Len(frames) \in Nat \ {0} /\ frames \in Seq(Frames)
    BY LastFrame DEF Leaves, Typed
  <1>2. frames' = SubSeq(frames, 1, Len(frames) - 1)
    BY DEF Leaves, Returned
  <1>3. IsSequence(frames) /\ Len(frames) - 1 \in 0..Len(frames)
    BY <1>1, SeqIs
  <1>4. /\ IsSequence(frames') /\ Len(frames') = Len(frames) - 1
        /\ \A f \in 1..(Len(frames) - 1) : frames'[f] = frames[f]
    BY <1>2, <1>3, FrontIs
  <1>5. \A f \in 1..Len(frames') : frames'[f] \in Frames
    BY <1>1, <1>4
  <1> QED BY <1>4, <1>5, OfElements

\* Every step leaves the frames as they are or does one of these, and keeps what
\* registers and addresses there are.
StepShape ==
  /\ \/ frames' = frames
     \/ \E n \in Int : Goes(n)
     \/ \E p \in Procs : Enters(p)
     \/ Leaves
     \/ Ends
  /\ DOMAIN regs' = Regs /\ DOMAIN memory' = Slots
  /\ status' \in {"running", "done", "error"}

LEMMA CpuIs == ASSUME Typed PROVE IsCpu(Cpu)
  BY DEF Typed, TypeOK, IsCpu, Cpu

LEMMA CommitShape ==
  ASSUME Typed, NEW st, IsCpu(st), NEW new, Commit(st, new)
  PROVE  \/ StepShape /\ frames' = frames
         \/ /\ DOMAIN regs' = Regs /\ DOMAIN memory' = Slots
            /\ status' \in {"running", "done", "error"} /\ frames' = new
  BY DEF Commit, Error, StepShape, IsCpu, Typed, TypeOK

LEMMA StraightShape ==
  ASSUME Typed, NEW op, NEW st, IsCpu(st), Straight(op, st)
  PROVE  StepShape
  <1>1. CASE StepShape
    BY <1>1
  <1>2. CASE frames' = Advanced /\ DOMAIN regs' = Regs /\ DOMAIN memory' = Slots /\ status' \in {"running", "done", "error"}
    <2>1. Goes(Current.pc + 1)
      BY <1>2, AdvancedGoes DEF Straight
    <2>2. Current.pc + 1 \in Int
      BY LastFrame DEF Straight, Fetched
    <2> QED BY <1>2, <2>1, <2>2 DEF StepShape
  <1> QED BY <1>1, <1>2, CommitShape DEF Straight

LEMMA EntersShape ==
  ASSUME Typed, Fetched, NEW p \in Procs, enterProcedure(Cpu, p)
  PROVE  StepShape
  <1>1. IsCpu(push32(Cpu, ReturnMark))
    BY CpuIs, PushIs
  <1>2. CASE frames' = Append(Advanced, [proc |-> p, pc |-> 1]) /\ DOMAIN regs' = Regs /\ DOMAIN memory' = Slots
             /\ status' \in {"running", "done", "error"}
    BY <1>2 DEF Enters, StepShape
  <1> QED BY <1>1, <1>2, CommitShape DEF enterProcedure

LEMMA ErrorShape == ASSUME Typed, Error PROVE StepShape
  BY DEF Error, StepShape, Typed, TypeOK

LEMMA JumpShape == ASSUME Typed, Fetched, Jump PROVE StepShape
  <1>1. CASE Inst.n \in 1..(Len(Body) + 1)
    <2>1. Inst.n \in Int
      BY <1>1, LastFrame DEF Fetched
    <2>2. CASE frames' = [frames EXCEPT ![Len(frames)].pc = Inst.n] /\ DOMAIN regs' = Regs /\ DOMAIN memory' = Slots
               /\ status' \in {"running", "done", "error"}
      BY <1>1, <2>1, <2>2 DEF Goes, StepShape, Fetched
    <2> QED BY <1>1, <2>2, CpuIs, CommitShape DEF Jump
  <1> QED BY <1>1, ErrorShape DEF Jump

LEMMA StepHasShape == ASSUME Typed, Step PROVE StepShape
  <1>1. CASE Mov \/ Add \/ Sub \/ Push \/ Pop
    BY <1>1, CpuIs, MovIs, AddSubIs, ExecPushIs, PopIs, StraightShape DEF Mov, Add, Sub, Push, Pop
  <1>2. CASE Pushad \/ Popad \/ Enter \/ Leave
    BY <1>2, CpuIs, PushadIs, PopadIs, EnterIs, LeaveIs, StraightShape DEF Pushad, Popad, Enter, Leave
  <1>3. CASE Builtin
    <2>1. Straight("builtin", assign(Cpu, Reg("eax"), Inst.a.val))
      BY <1>3 DEF Builtin, Straight
    <2> QED BY <2>1, CpuIs, AssignIs, StraightShape
  <1>4. CASE Call
    BY <1>4, EntersShape, ErrorShape DEF Call
  <1>5. CASE CallIndirect
    BY <1>5, EntersShape, ErrorShape DEF CallIndirect
  <1>6. CASE Invoke
    <2>1. CASE Inst.n = 0 /\ Inst.target \in Procs
      <3>1. Straight("invoke", push32(Cpu, ReturnMark))
        BY <1>6, <2>1 DEF Invoke, Straight
      <3> QED BY <3>1, CpuIs, PushIs, StraightShape
    <2> QED BY <1>6, <2>1, ErrorShape DEF Invoke
  <1>7. CASE Ret
    <2>1. IsCpu(execAddSub(pop32(Cpu), Reg("esp"), Imm(Inst.n), 1))
      BY CpuIs, Pop32Is, AddSubIs
    <2>2. CASE frames' = Returned /\ DOMAIN regs' = Regs /\ DOMAIN memory' = Slots
               /\ status' \in {"running", "done", "error"}
      BY <1>7, <2>2 DEF Ret, Leaves, StepShape, Fetched
    <2> QED BY <1>7, <2>1, <2>2, CommitShape DEF Ret
  <1>8. CASE Jmp
    BY <1>8, JumpShape DEF Jmp
  <1>9. CASE Jcc
    <2>1. CASE Commit(Cpu, Advanced)
      <3>1. Straight("jcc", Cpu)
        BY <1>9, <2>1 DEF Jcc, Straight
      <3> QED BY <3>1, CpuIs, StraightShape
    <2> QED BY <1>9, <2>1, JumpShape DEF Jcc
  <1>10. CASE Exit \/ ExitProcess
    BY <1>10 DEF Exit, ExitProcess, StepShape, Ends, Typed, TypeOK
  <1>11. CASE FallOff
    <2>1. DOMAIN regs' = Regs
      BY <1>11, CpuIs, Pop32Is DEF FallOff, IsCpu, Typed, TypeOK
    <2> QED BY <1>11, <2>1 DEF FallOff, Leaves, StepShape, Typed, TypeOK
  <1>12. CASE Finish
    BY <1>12 DEF Finish, StepShape, Typed, TypeOK
  <1> QED BY <1>1, <1>2, <1>3, <1>4, <1>5, <1>6, <1>7, <1>8, <1>9, <1>10, <1>11, <1>12 DEF Step

\* What Follow makes of the activations.
LEMMA ActsGrow ==
  ASSUME Typed, Follow, Len(frames') = Len(frames) + 1, Len(frames) \in Nat
  PROVE  /\ IsSequence(acts') /\ Len(acts') = Len(frames')
         /\ \A f \in 1..Len(frames) : acts'[f] = acts[f]
         /\ acts'[Len(frames) + 1] = Activation(regs, pending)
  <1>1. Len(acts) = Len(frames) /\ IsSequence(acts)
    BY DEF Typed, TypeOK
  <1>2. acts' = Append(acts, Activation(regs, pending))
    BY DEF Follow
  <1> QED BY <1>1, <1>2, AppendIs

LEMMA ActsShrink ==
  ASSUME Typed, Follow, Len(frames) \in Nat, Len(frames') \in Nat, Len(frames') < Len(frames)
  PROVE  /\ IsSequence(acts') /\ Len(acts') = Len(frames')
         /\ \A f \in 1..Len(frames') : acts'[f] = acts[f]
  <1>1. Len(acts) = Len(frames) /\ IsSequence(acts)
    BY DEF Typed, TypeOK
  <1>2. acts' = SubSeq(acts, 1, Len(frames'))
    BY DEF Follow
  <1> QED BY <1>1, <1>2, FrontIs

LEMMA ActsStay ==
  ASSUME Typed, Follow, Len(frames') = Len(frames), Len(frames) \in Nat
  PROVE  /\ IsSequence(acts') /\ Len(acts') = Len(frames')
         /\ \A f \in 1..Len(acts) : /\ DOMAIN acts'[f] = ActFields
                                    /\ acts'[f].entry = acts[f].entry
                                    /\ f # Len(acts) => acts'[f] = acts[f]
         /\ ~(Fetched /\ IsPrologueMov) => \A f \in 1..Len(acts) : acts'[f].base = acts[f].base
         /\ Fetched /\ IsPrologueMov /\ acts # << >> => acts'[Len(acts)].base = regs["esp"]
  <1>1. Len(acts) = Len(frames) /\ IsSequence(acts) /\ \A f \in 1..Len(acts) : DOMAIN acts[f] = ActFields
    BY DEF Typed, TypeOK
  <1>2. Len(acts) \in Nat /\ acts = [f \in 1..Len(acts) |-> acts[f]]
    BY <1>1 DEF IsSequence
  <1>3. CASE acts' = acts /\ ~(Fetched /\ IsPrologueMov)
    BY <1>1, <1>3
  <1>4. CASE Fetched /\ IsPrologueMov /\ acts' = [acts EXCEPT ![Len(acts)].base = regs["esp"]]
    <2> DEFINE new == [acts[Len(acts)] EXCEPT !.base = regs["esp"]]
    <2>1. acts' = [acts EXCEPT ![Len(acts)] = new]
      BY <1>4
    <2>2. Len(acts) # 0 => DOMAIN new = ActFields /\ new.entry = acts[Len(acts)].entry /\ new.base = regs["esp"]
      BY <1>1, <1>2 DEF ActFields
    <2> HIDE DEF new
    <2>3. acts' = [f \in 1..Len(acts) |-> acts'[f]]
      BY <2>1, <1>2
    <2>4. \A f \in 1..Len(acts) : acts'[f] = IF f = Len(acts) THEN new ELSE acts[f]
      BY <2>1, <1>2
    <2>5. IsSequence(acts') /\ Len(acts') = Len(acts)
      BY <2>3, <1>2, FunctionIs
    <2>6. acts # << >> => Len(acts) # 0
      BY <1>2
    <2> QED BY <1>1, <1>2, <1>4, <2>2, <2>4, <2>5, <2>6
  <1>5. ASSUME NEW k, NEW v, acts' = [acts EXCEPT ![Len(acts)] = WithLocal(@, k, v)], ~(Fetched /\ IsPrologueMov)
        PROVE  /\ IsSequence(acts') /\ Len(acts') = Len(acts)
               /\ \A f \in 1..Len(acts) : /\ DOMAIN acts'[f] = ActFields
                                          /\ acts'[f].entry = acts[f].entry /\ acts'[f].base = acts[f].base
                                          /\ f # Len(acts) => acts'[f] = acts[f]
    <2> DEFINE new == WithLocal(acts[Len(acts)], k, v)
    <2>1. acts' = [acts EXCEPT ![Len(acts)] = new]
      BY <1>5
    <2>2. Len(acts) # 0 => /\ DOMAIN new = ActFields /\ new.entry = acts[Len(acts)].entry
                           /\ new.base = acts[Len(acts)].base
      BY <1>1, <1>2 DEF ActFields, WithLocal
    <2> HIDE DEF new
    <2>3. acts' = [f \in 1..Len(acts) |-> acts'[f]]
      BY <2>1, <1>2
    <2>4. \A f \in 1..Len(acts) : acts'[f] = IF f = Len(acts) THEN new ELSE acts[f]
      BY <2>1, <1>2
    <2>5. IsSequence(acts') /\ Len(acts') = Len(acts)
      BY <2>3, <1>2, FunctionIs
    <2> QED BY <1>1, <1>2, <2>2, <2>4, <2>5
  <1>6. \/ acts' = acts /\ ~(Fetched /\ IsPrologueMov)
        \/ Fetched /\ IsPrologueMov /\ acts' = [acts EXCEPT ![Len(acts)].base = regs["esp"]]
        \/ /\ acts' = [acts EXCEPT ![Len(acts)] = WithLocal(@, Line.args[1].val, Meaning(Line.args[2]))]
           /\ ~(Fetched /\ IsPrologueMov)
    BY DEF Follow
  <1>7. CASE /\ acts' = [acts EXCEPT ![Len(acts)] = WithLocal(@, Line.args[1].val, Meaning(Line.args[2]))]
             /\ ~(Fetched /\ IsPrologueMov)
    BY <1>1, <1>5, <1>7
  <1> QED BY <1>3, <1>4, <1>6, <1>7

LEMMA TypedNext == ASSUME Typed, PNext PROVE Typed'
  <1>1. StepShape /\ source' = source /\ code' = code /\ Follow
    BY StepHasShape DEF PNext, Step, Follow
  <1>2. Len(frames) \in Nat /\ frames \in Seq(Frames) /\ Len(acts) = Len(frames)
    BY DEF Typed, TypeOK
  <1>3. /\ source' \in Sources /\ code' = Lower(source)' /\ DOMAIN regs' = Regs /\ DOMAIN memory' = Slots
        /\ status' \in {"running", "done", "error"}
    BY <1>1 DEF Typed, StepShape
  <1>4. ASSUME frames' \in Seq(Frames),
               \A f \in 1..Len(frames') : frames'[f].pc \in 1..(Len(code[frames'[f].proc]) + 1),
               IsSequence(acts'), Len(acts') = Len(frames'), \A f \in 1..Len(acts') : DOMAIN acts'[f] = ActFields
        PROVE  Typed'
    <2>1. \A f \in 1..Len(frames') : frames'[f].proc \in Procs
      <3>1. \A f \in 1..Len(frames') : frames'[f] \in Frames
        BY <1>4
      <3>2. \A x \in Frames : x.proc \in Procs
        BY DEF Frames
      <3> QED BY <3>1, <3>2
    <2> QED BY <1>1, <1>3, <1>4, <2>1 DEF Typed, TypeOK
  <1>5. \A f \in 1..Len(frames) : frames[f].pc \in 1..(Len(code[frames[f].proc]) + 1) /\ DOMAIN acts[f] = ActFields
    BY <1>2 DEF Typed, TypeOK
  <1>6. CASE frames' = frames
    BY <1>1, <1>2, <1>4, <1>5, <1>6, ActsStay
  <1>7. ASSUME NEW n, Goes(n) PROVE Typed'
    <2>0. /\ Len(frames') = Len(frames) /\ Len(frames) \in Nat
          /\ \A f \in 1..(Len(frames) - 1) : frames'[f] = frames[f]
          /\ frames'[Len(frames)] = [proc |-> Current.proc, pc |-> n]
          /\ n \in 1..(Len(code[Current.proc]) + 1)
      BY <1>2, <1>7, GoesFrames DEF Goes, Body
    <2>1. \A f \in 1..Len(frames') : frames'[f].pc \in 1..(Len(code[frames'[f].proc]) + 1)
      <3> TAKE f \in 1..Len(frames')
      <3>1. CASE f = Len(frames)
        BY <2>0, <3>1
      <3>2. CASE f # Len(frames)
        <4>1. f \in 1..(Len(frames) - 1) /\ f \in 1..Len(frames)
          BY <2>0, <3>2
        <4> QED BY <1>5, <2>0, <4>1
      <3> QED BY <3>1, <3>2
    <2> QED BY <1>1, <1>2, <1>4, <1>7, <2>1, GoesFrames, ActsStay
  <1>8. ASSUME NEW p \in Procs, Enters(p) PROVE Typed'
    <2>1. Current.pc + 1 \in 1..(Len(Body) + 1) /\ 1 \in 1..(Len(code[p]) + 1)
      BY <1>8, LastFrame, CodeIs DEF Enters, Fetched
    <2>0. /\ Len(frames') = Len(frames) + 1
          /\ \A f \in 1..(Len(frames) - 1) : frames'[f] = frames[f]
          /\ frames'[Len(frames)] = [proc |-> Current.proc, pc |-> Current.pc + 1]
          /\ frames'[Len(frames) + 1] = [proc |-> p, pc |-> 1]
      BY <1>8, EntersFrames
    <2>2. \A f \in 1..Len(frames') : frames'[f].pc \in 1..(Len(code[frames'[f].proc]) + 1)
      <3> TAKE f \in 1..Len(frames')
      <3>1. CASE f = Len(frames)
        BY <2>0, <2>1, <3>1 DEF Body
      <3>2. CASE f = Len(frames) + 1
        BY <2>0, <2>1, <3>2
      <3>3. CASE f # Len(frames) /\ f # Len(frames) + 1
        <4>1. f \in 1..(Len(frames) - 1) /\ f \in 1..Len(frames)
          BY <1>2, <2>0, <3>3
        <4> QED BY <1>5, <2>0, <4>1
      <3> QED BY <3>1, <3>2, <3>3
    <2>3. /\ IsSequence(acts') /\ Len(acts') = Len(frames')
          /\ \A f \in 1..Len(frames) : acts'[f] = acts[f]
          /\ acts'[Len(frames) + 1] = Activation(regs, pending)
      BY <1>1, <1>2, <1>8, EntersFrames, ActsGrow
    <2>4. DOMAIN Activation(regs, pending) = ActFields
      BY DEF Activation, ActFields
    <2>5. \A f \in 1..Len(acts') : DOMAIN acts'[f] = ActFields
      <3> TAKE f \in 1..Len(acts')
      <3>1. CASE f = Len(frames) + 1
        BY <2>3, <2>4, <3>1
      <3>2. CASE f # Len(frames) + 1
        <4>1. f \in 1..Len(frames)
          BY <1>2, <2>0, <2>3, <3>2
        <4> QED BY <1>5, <2>3, <4>1
      <3> QED BY <3>1, <3>2
    <2> QED BY <1>4, <1>8, <2>2, <2>3, <2>5, EntersFrames
  <1>9. ASSUME frames' \in Seq(Frames), Len(frames') < Len(frames), \A f \in 1..Len(frames') : frames'[f] = frames[f]
        PROVE  Typed'
    <2>1. Len(frames') \in Nat
      BY <1>9
    <2>2. /\ IsSequence(acts') /\ Len(acts') = Len(frames')
          /\ \A f \in 1..Len(frames') : acts'[f] = acts[f]
      BY <1>1, <1>2, <1>9, <2>1, ActsShrink
    <2>3. \A f \in 1..Len(frames') : f \in 1..Len(frames)
      BY <1>2, <1>9, <2>1
    <2>4. \A f \in 1..Len(frames') : frames'[f].pc \in 1..(Len(code[frames'[f].proc]) + 1)
      BY <1>5, <1>9, <2>3
    <2>5. \A f \in 1..Len(acts') : DOMAIN acts'[f] = ActFields
      BY <1>5, <2>2, <2>3
    <2> QED BY <1>4, <1>9, <2>2, <2>4, <2>5
  <1>10. CASE Leaves
    <2>1. Len(frames) - 1 < Len(frames)
      BY <1>2
    <2> QED BY <1>9, <1>10, <2>1, LeavesFrames
  <1>11. CASE Ends
    <2>1. frames' \in Seq(Frames) /\ Len(frames') = 0
      BY <1>11 DEF Ends
    <2>2. CASE frames = << >>
      BY <1>6, <1>11, <2>2 DEF Ends
    <2>3. CASE frames # << >>
      <3>1. Len(frames') < Len(frames)
        BY <1>2, <2>1, <2>3
      <3> QED BY <1>9, <2>1, <3>1
    <2> QED BY <2>2, <2>3
  <1> QED BY <1>1, <1>6, <1>7, <1>8, <1>10, <1>11 DEF StepShape

LEMMA TypedInit == ASSUME PInit PROVE Typed
  <1>1. frames = <<[proc |-> Main, pc |-> 1]>> /\ source \in Sources /\ code = Lower(source)
    BY DEF PInit, Boot
  <1>2. [proc |-> Main, pc |-> 1] \in Frames
    BY ProgramAssumption DEF Frames
  <1>3. Len(frames) = 1 /\ frames \in Seq(Frames) /\ frames[1] = [proc |-> Main, pc |-> 1]
    BY <1>1, <1>2
  <1>4. PICK a : acts = <<Activation(a, << >>)>>
    BY DEF PInit
  <1>5. IsSequence(acts) /\ Len(acts) = 1 /\ acts[1] = Activation(a, << >>)
    BY <1>4, OneIs
  <1>6. DOMAIN acts[1] = ActFields
    BY <1>5 DEF Activation, ActFields
  <1>7. Len(code[Main]) \in Nat
    <2>1. DOMAIN source = Procs /\ IsProcedure(source[Main])
      BY <1>1, SourceAssumption, ProgramAssumption
    <2>2. code[Main] = LowerProc(source, source[Main])
      BY <1>1, <2>1, ProgramAssumption DEF Lower
    <2> QED BY <2>1, <2>2, BodyIs DEF IsSequence
  <1>8. DOMAIN regs = Regs /\ DOMAIN memory = Slots /\ status = "running"
    BY DEF PInit, Boot
  <1>9. \A f \in 1..Len(frames) : frames[f].proc \in Procs /\ frames[f].pc \in 1..(Len(code[frames[f].proc]) + 1)
    BY <1>3, <1>7, ProgramAssumption
  <1> QED BY <1>1, <1>3, <1>5, <1>6, <1>8, <1>9 DEF Typed, TypeOK

\* Every state of every translated program is typed: the frames are procedures of
\* the program, each at one of its instructions or just past the last, whatever
\* the instructions do to registers and memory, faults included (Run).
THEOREM ProcsTyped == Spec => []TypeOK
  <1>1. Typed /\ [PNext]_vars => Typed'
    <2>1. CASE UNCHANGED vars
      BY <2>1 DEF vars, mvars, Typed, TypeOK
    <2> QED BY <2>1, TypedNext
  <1>2. Typed => TypeOK
    BY DEF Typed
  <1> QED BY <1>1, <1>2, TypedInit, PTL DEF Spec
=============================================================================
