------------------------------- MODULE Blocks -------------------------------
(***************************************************************************)
(* .IF, .WHILE and .REPEAT, from text to execution.  The translator         *)
(* (internal/masm/condition.go) reads the lines of one procedure and keeps, *)
(* for each kind of block, a stack of its own of the blocks that are open;  *)
(* each line adds instructions and labels.  At ENDP the machine runs what   *)
(* it made.  The lines are any the program's author may write, in any       *)
(* order; between them stand "mark" lines, the rest of the program, which   *)
(* may leave anything in registers and flags.                               *)
(***************************************************************************)
EXTENDS Conditions, FiniteSets

CONSTANTS Menus,       \* the choices a program's author may be given; for each:
          Shapes,      \* the procedures that may be written, as sequences of
                       \* line kinds; if there is none, every sequence may
          Conds,       \* the conditions that may be written
          RegValues,   \* what registers and flags may hold after a mark line
          FlagValues,
          MaxLines     \* bound: lines of a procedure of any shape

VARIABLES menu,
          lines,       \* the lines read so far: [kind, cond]
          t,           \* their translation
          ifStack, whileStack, repeatStack,
          phase,       \* "reading", "rejected", "running", "done", "fault"
          pc, regs, flags,
          goal         \* where the lines say control goes after this one

stacks == <<ifStack, whileStack, repeatStack>>
vars == <<menu, lines, t, stacks, phase, pc, regs, flags, goal>>

NoCond == CondFlag("ZERO?")

NoLabel == 0   \* the empty name
-----------------------------------------------------------------------------
(***************************************************************************)
(* What the lines mean                                                      *)
(***************************************************************************)
Opens == {".if", ".while", ".repeat"}
Clauses == {".elseif", ".else"}
Closes == {".endif", ".endw", ".until"}
CloserOf(kind) == CASE kind = ".if" -> ".endif" [] kind = ".while" -> ".endw" [] OTHER -> ".until"

Kind(i) == lines[i].kind

\* The nesting of a block, the same for its opener, its clauses and its closer.
Level(i) == Cardinality({j \in 1..(i - 1) : Kind(j) \in Opens})
            - Cardinality({j \in 1..i : Kind(j) \in Closes})
            - (IF Kind(i) \in Clauses THEN 1 ELSE 0)

SameBlock(i, kinds) == {j \in 1..Len(lines) : Kind(j) \in kinds /\ Level(j) = Level(i)}

Following(i, kinds) ==
  LET js == {j \in SameBlock(i, kinds) : j > i} IN CHOOSE j \in js : \A k \in js : j <= k

Preceding(i, kinds) ==
  LET js == {j \in SameBlock(i, kinds) : j < i} IN CHOOSE j \in js : \A k \in js : j >= k

\* Every block is closed.
Closed == \A kind \in Opens :
            Cardinality({i \in 1..Len(lines) : Kind(i) = kind})
              = Cardinality({i \in 1..Len(lines) : Kind(i) = CloserOf(kind)})

\* Every block is closed by its own kind, before the blocks around it; a clause
\* belongs to an .IF, and nothing but .ENDIF follows .ELSE.
WellNested ==
  /\ Closed
  /\ \A i \in 1..Len(lines) :
       /\ Kind(i) \in Closes =>
            \E o \in SameBlock(i, Opens) :
              /\ o < i /\ CloserOf(Kind(o)) = Kind(i)
              /\ \A c \in SameBlock(i, Closes) : ~(o < c /\ c < i)
       /\ Kind(i) \in Clauses =>
            \E o \in SameBlock(i, {".if"}) :
              o < i /\ \A c \in SameBlock(i, Opens \union Closes) : ~(o < c /\ c < i)
       /\ Kind(i) = ".else" =>
            LET next == SameBlock(i, Clauses \union {".endif"}) \intersect ((i + 1)..Len(lines))
            IN  \E e \in next : Kind(e) = ".endif" /\ \A k \in next : e <= k

\* Where control is: at a line, or come to the end of the body before a clause.
At(i) == <<"at", i>>
Below(i) == <<"below", i>>

\* The first line from i on that does anything, or the end.
Enter(i) ==
  LET busy == {j \in i..Len(lines) : Kind(j) \notin {".endif", ".repeat"}} \union {Len(lines) + 1}
      j == CHOOSE k \in busy : \A m \in busy : k <= m
  IN  IF j <= Len(lines) /\ Kind(j) \in Clauses THEN Below(j) ELSE At(j)

\* The clause that is tried when the condition of line i is false.
OtherClause(i) ==
  LET next == Following(i, Clauses \union {".endif"})
  IN  IF Kind(next) = ".elseif" THEN At(next) ELSE Enter(next + 1)

\* Where control goes from a place, registers and flags being r and f.
Meaning(place, r, f) ==
  LET i == place[2]
      true == Evaluate(lines[i].cond, r, f).value
  IN  CASE i > Len(lines) -> place
        [] place[1] = "below" -> Enter(Following(i, {".endif"}) + 1)
        [] place[1] = "at" /\ i <= Len(lines) ->
             CASE Kind(i) = "mark" -> Enter(i + 1)
               [] Kind(i) \in {".if", ".elseif"} -> IF true THEN Enter(i + 1) ELSE OtherClause(i)
               [] Kind(i) = ".while" -> Enter(IF true THEN i + 1 ELSE Following(i, {".endw"}) + 1)
               [] Kind(i) = ".endw" -> At(Preceding(i, {".while"}))
               [] Kind(i) = ".until" -> Enter(IF true THEN i + 1 ELSE Preceding(i, {".repeat"}) + 1)

\* The place the machine is at; the instructions of a place are in a row.
Place(c) == IF c > Len(t.code) THEN At(Len(lines) + 1)
            ELSE IF t.code[c].op = "jmp" /\ Kind(t.code[c].line) \in Clauses
                 THEN Below(t.code[c].line) ELSE At(t.code[c].line)

Starts(c) == c = 1 \/ Place(c) # Place(c - 1)
-----------------------------------------------------------------------------
(***************************************************************************)
(* The translator: one action per kind of line                              *)
(***************************************************************************)
Init == /\ menu \in Menus
        /\ lines = << >> /\ t = EmptyTranslation
        /\ ifStack = << >> /\ whileStack = << >> /\ repeatStack = << >>
        /\ phase = "reading" /\ pc = 0 /\ goal = At(0)
        /\ regs = CHOOSE r \in RegValues[menu] : TRUE
        /\ flags = CHOOSE f \in FlagValues[menu] : TRUE

Here == Len(lines) + 1

Read(kind, cond) ==
  /\ phase = "reading"
  /\ LET kinds == Append([i \in 1..Len(lines) |-> Kind(i)], kind)
     IN  \/ Shapes[menu] = {} /\ Len(lines) < MaxLines
         \/ \E shape \in Shapes[menu] : IsPrefix(kinds, shape)
  /\ lines' = Append(lines, [kind |-> kind, cond |-> cond])
  /\ UNCHANGED <<menu, pc, regs, flags, goal>>

Reject == phase' = "rejected" /\ UNCHANGED <<t, stacks>>

mark == /\ Read("mark", NoCond)
        /\ t' = addJump(t, Here, "mark", NoLabel)
        /\ UNCHANGED <<stacks, phase>>

openIf(cond) ==
  /\ Read(".if", cond)
  /\ ifStack' = Append(ifStack, [next |-> t.counter + 1, end |-> t.counter + 2])
  /\ t' = compileCondFalse(newLabels(t, 2), Here, cond, t.counter + 1)
  /\ UNCHANGED <<whileStack, repeatStack, phase>>

\* Mutant of NextClause: the old label is not placed.
NextClauseUnplaced(frame) == addJump(t, Here, "jmp", frame.end)

\* Mutant of NextClause: the body above runs into this clause.
NextClauseRunInto(frame) == addLabel(t, frame.next)

\* The body above is left by a jump to the end; the last condition, when false,
\* comes here.
NextClause(frame) == addLabel(addJump(t, Here, "jmp", frame.end), frame.next)

elseIf(cond) ==
  /\ Read(".elseif", cond)
  /\ \/ /\ ifStack = << >>
        /\ Reject
     \/ /\ ifStack # << >>
        /\ LET next == t.counter + 1
           IN  /\ ifStack' = Front(ifStack) \o <<[Last(ifStack) EXCEPT !.next = next]>>
               /\ t' = compileCondFalse(newLabels(NextClause(Last(ifStack)), 1), Here, cond, next)
        /\ UNCHANGED <<whileStack, repeatStack, phase>>

elseBlock ==
  /\ Read(".else", NoCond)
  /\ \/ /\ ifStack = << >>
        /\ Reject
     \/ /\ ifStack # << >>
        /\ LET frame == Last(ifStack)
           IN  /\ t' = IF frame.next # NoLabel THEN NextClause(frame)
                       ELSE addJump(t, Here, "jmp", frame.end)
               /\ ifStack' = Front(ifStack) \o <<[frame EXCEPT !.next = NoLabel]>>
        /\ UNCHANGED <<whileStack, repeatStack, phase>>

endIf ==
  /\ Read(".endif", NoCond)
  /\ \/ /\ ifStack = << >>
        /\ Reject
     \/ /\ ifStack # << >>
        /\ LET frame == Last(ifStack)
           IN  t' = addLabel(IF frame.next # NoLabel THEN addLabel(t, frame.next) ELSE t, frame.end)
        /\ ifStack' = Front(ifStack)
        /\ UNCHANGED <<whileStack, repeatStack, phase>>

openWhile(cond) ==
  /\ Read(".while", cond)
  /\ whileStack' = Append(whileStack, [start |-> t.counter + 1, end |-> t.counter + 2])
  /\ t' = compileCondFalse(addLabel(newLabels(t, 2), t.counter + 1), Here, cond, t.counter + 2)
  /\ UNCHANGED <<ifStack, repeatStack, phase>>

endWhile ==
  /\ Read(".endw", NoCond)
  /\ \/ /\ whileStack = << >>
        /\ Reject
     \/ /\ whileStack # << >>
        /\ LET frame == Last(whileStack)
           IN  t' = addLabel(addJump(t, Here, "jmp", frame.start), frame.end)
        /\ whileStack' = Front(whileStack)
        /\ UNCHANGED <<ifStack, repeatStack, phase>>

openRepeat ==
  /\ Read(".repeat", NoCond)
  /\ repeatStack' = Append(repeatStack, t.counter + 1)
  /\ t' = addLabel(newLabels(t, 1), t.counter + 1)
  /\ UNCHANGED <<ifStack, whileStack, phase>>

untilRepeat(cond) ==
  /\ Read(".until", cond)
  /\ \/ /\ repeatStack = << >>
        /\ Reject
     \/ /\ repeatStack # << >>
        /\ t' = compileCondFalse(t, Here, cond, Last(repeatStack))
        /\ repeatStack' = Front(repeatStack)
        /\ UNCHANGED <<ifStack, whileStack, phase>>

\* ENDP forgets the blocks still open.  The procedure is called, with anything
\* in registers and flags.
endProc ==
  /\ phase = "reading"
  /\ regs' \in RegValues[menu] /\ flags' \in FlagValues[menu]
  /\ ifStack' = << >> /\ whileStack' = << >> /\ repeatStack' = << >>
  /\ phase' = "running" /\ pc' = 1
  /\ goal' = IF WellNested THEN Meaning(Enter(1), regs', flags') ELSE goal
  /\ UNCHANGED <<menu, lines, t>>
-----------------------------------------------------------------------------
(***************************************************************************)
(* The machine                                                              *)
(***************************************************************************)
Inst == t.code[pc]

\* goal is looked up again whenever the machine comes to a place.
Goto(c, r, f) ==
  /\ pc' = c /\ regs' = r /\ flags' = f
  /\ goal' = IF WellNested /\ Starts(c) THEN Meaning(Place(c), r, f) ELSE goal
  /\ phase' = IF c > Len(t.code) THEN "done" ELSE "running"

Running(ops) == /\ phase = "running" /\ pc <= Len(t.code) /\ Inst.op \in ops
                /\ UNCHANGED <<menu, lines, t, stacks>>

Mark == /\ Running({"mark"})
        /\ \E r \in RegValues[menu], f \in FlagValues[menu] : Goto(pc + 1, r, f)

Compare ==
  LET l == ValueOf(Inst.a, regs)
      r == ValueOf(Inst.b, regs)
  IN  \/ Running({"cmp"}) /\ Goto(pc + 1, regs, sub(l, r).flags)
      \/ Running({"test"}) /\ Goto(pc + 1, regs, logic(l & r, flags).flags)

Jump == /\ Running({"jmp", "je", "jz", "jne", "jnz", "jl", "jle", "jg", "jge", "jc", "jnc"})
        /\ \/ /\ ~JumpTaken(Inst.op, flags)
              /\ Goto(pc + 1, regs, flags)
           \/ /\ JumpTaken(Inst.op, flags) /\ Inst.to \in DOMAIN t.labels
              /\ Goto(t.labels[Inst.to], regs, flags)
           \/ /\ JumpTaken(Inst.op, flags) /\ Inst.to \notin DOMAIN t.labels
              /\ phase' = "fault"
              /\ UNCHANGED <<pc, regs, flags, goal>>

\* A procedure of lines that make no instruction.
Empty == /\ phase = "running" /\ t.code = << >>
         /\ phase' = "done"
         /\ UNCHANGED <<menu, lines, t, stacks, pc, regs, flags, goal>>

Next == \/ mark \/ elseBlock \/ endIf \/ endWhile \/ openRepeat \/ endProc
        \/ \E c \in Conds[menu] : openIf(c) \/ elseIf(c) \/ openWhile(c) \/ untilRepeat(c)
        \/ Mark \/ Compare \/ Jump \/ Empty

Spec == Init /\ [][Next]_vars
-----------------------------------------------------------------------------
(***************************************************************************)
(* Properties                                                               *)
(***************************************************************************)
TypeOK ==
  /\ phase \in {"reading", "rejected", "running", "done", "fault"}
  /\ pc \in 0..(Len(t.code) + 1)
  /\ \A l \in DOMAIN t.labels : l \in 0..t.counter /\ t.labels[l] \in 1..(Len(t.code) + 1)
  /\ regs \in [DOMAIN regs -> Words]

\* The machine goes from line to line as the blocks say: whatever the nesting,
\* the conditions and the values, it leaves the instructions of a line only for
\* the line whose turn it is (openIf ... untilRepeat, compileCondFalse, jumpIf).
FollowsBlocks ==
  [][(phase = "running" /\ pc' # pc /\ WellNested) =>
       IF Starts(pc') THEN Place(pc') = goal ELSE Place(pc') = Place(pc)]_vars

\* In a procedure whose blocks are all closed no jump is ever without its label,
\* even if blocks of different kinds overlap (addLabel, jump).
JumpsResolve == Closed => phase # "fault"

\* "unterminated .IF block", and the same of .WHILE and .REPEAT: a procedure
\* with a block still open is not run (parse, endProc).
UnclosedRefused == phase \in {"running", "done", "fault"} => Closed
=============================================================================
