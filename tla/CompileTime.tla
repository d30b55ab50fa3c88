----------------------------- MODULE CompileTime -----------------------------
(***************************************************************************)
(* The second pass (internal/masm/compiletime.go): IF, REPT, WHILE and FOR  *)
(* are carried out and leave only lines for the parser.  The recursion of   *)
(* expandCompileTimeBlock is a stack of frames, one for each block being    *)
(* expanded.  At the top level, and in the bodies of IF there, assignments  *)
(* are carried out and also put out again, for the parser to carry out a    *)
(* second time; in the bodies of loops they are carried out only, and the   *)
(* lines put out have the values of that moment in them.                    *)
(***************************************************************************)
EXTENDS Macros

CONSTANT WhileLimit    \* 100000: rounds of one WHILE

VARIABLES calls,    \* the frames, the innermost last
          ints,     \* state.ints: name -> value
          out       \* what the pass has put out

blockVars == <<calls, ints, out>>

(***************************************************************************)
(* lines: the block.  at: the line that is next.  preserve: whether         *)
(* assignments are put out.  repl: the iterators of FOR.  again: what to do *)
(* at the end of the block.                                                 *)
(***************************************************************************)
Frame(body, preserve, repl) ==
  [lines |-> body, at |-> 1, preserve |-> preserve, repl |-> repl,
   again |-> [of |-> "once"]]

\* A loop begins at the end of its body, where it decides whether to go round.
LoopFrame(body, repl, again) ==
  [lines |-> body, at |-> Len(body) + 1, preserve |-> FALSE, repl |-> repl, again |-> again]

frame == Last(calls)
source == frame.lines[frame.at]
control == Put(source, frame.repl)

TermKnown(t, env) == t.name \in {"", "$"} \union DOMAIN env

\* The evaluator of this pass has no data: $ is 0.
TermValue(t, env) == t.plus + IF t.name \in {"", "$"} THEN 0 ELSE env[t.name]

CondKnown(line) == \A k \in {1, 2} : TermKnown(line.inits[k].term, ints)

CondHolds(line) ==
  LET left == TermValue(line.inits[1].term, ints)
      right == TermValue(line.inits[2].term, ints)
  IN CASE line.decl = "EQ" -> left = right
       [] line.decl = "LT" -> left < right
-----------------------------------------------------------------------------
(***************************************************************************)
(* Finding the end of a block in the lines as they are written              *)
(***************************************************************************)
CountOf(block, from, to, ops) == Cardinality({k \in from..to : block[k].op \in ops})

\* The first of closers after from that closes none of the openers between, 0 if none
CloserOf(block, from, openers, closers) ==
  LET ends == {k \in from..Len(block) :
                 /\ block[k].op \in closers
                 /\ CountOf(block, from, k - 1, openers) = CountOf(block, from, k - 1, closers)}
  IN IF ends = {} THEN 0 ELSE CHOOSE k \in ends : \A j \in ends : k <= j

\* Mutant of collectCompileTimeBlock: a FOR inside is not counted.
CollectWithoutFor(block, from) == CloserOf(block, from, {"rept", "while"}, {"endm"})

collectCompileTimeBlock(block, from) == CloserOf(block, from, LoopWords, {"endm"})

collectConditionalBlock(block, from) == CloserOf(block, from, IfWords, {"endif"})

\* The ELSEs of the conditional block that runs from from to to
ElsesOf(block, from, to) ==
  {k \in from..(to - 1) : /\ block[k].op = "else"
                          /\ CountOf(block, from, k - 1, IfWords) = CountOf(block, from, k - 1, {"endif"})}

Between(block, from, to) == SubSeq(block, from, to - 1)

\* Every ELSE of the block but the first is dropped.
BodyOf(block, from, to, chosen) ==
  LET elses == ElsesOf(block, from, to)
      middle == CHOOSE k \in elses \union {to} : \A j \in elses \union {to} : k <= j
      rest == {k \in (middle + 1)..(to - 1) : k \notin elses}
  IN IF chosen THEN Between(block, from, middle)
     ELSE [k \in 1..Cardinality(rest) |->
             block[CHOOSE j \in rest : Cardinality({i \in rest : i <= j}) = k]]
-----------------------------------------------------------------------------
(***************************************************************************)
(* One line of expandCompileTimeBlock                                       *)
(***************************************************************************)
\* The frames once the innermost one goes on at line k
At(k) == [calls EXCEPT ![Len(calls)].at = k]

Skip == calls' = At(frame.at + 1)

Emit(line) == out' = Append(out, line)

Stops(error) == Fails(error) /\ UNCHANGED blockVars

IfTaken ==
  CASE control.op = "if" -> CondHolds(control)
    [] control.op = "ifb" -> control.inits[1].term = Blank
    [] control.op = "ifdef" -> control.name \in DOMAIN ints
    [] control.op = "ifndef" -> control.name \notin DOMAIN ints

\* Mutant of BodyFrame: the body of an IF puts assignments out even in a loop.
PreservingFrame(body) == Frame(body, TRUE, frame.repl)

BodyFrame(body) == Frame(body, frame.preserve, frame.repl)

\* A condition that cannot be judged at the top level is left to the parser,
\* and the bodies are dropped.
Conditional ==
  LET end == collectConditionalBlock(frame.lines, frame.at + 1)
  IN /\ control.op \in IfWords
     /\ IF end = 0 THEN Stops("unterminated IF/ENDIF block")
        ELSE IF control.op = "if" /\ ~CondKnown(control)
        THEN IF frame.preserve
             THEN Emit(control) /\ calls' = At(end + 1) /\ Proceeds /\ UNCHANGED ints
             ELSE Stops("IF condition")
        ELSE /\ calls' = Append(At(end + 1), BodyFrame(BodyOf(frame.lines, frame.at + 1, end, IfTaken)))
             /\ Proceeds
             /\ UNCHANGED <<ints, out>>

\* The loop that a REPT, WHILE or FOR line starts
\* Nothing between two commas is no item of FOR; every character is one of FORC.
ForItems == IF control.op = "forc" THEN control.inits
            ELSE SelectSeq(control.inits, LAMBDA i : i.term # Blank)

LoopOf(body) ==
  CASE control.op = "rept" ->
         LoopFrame(body, frame.repl, [of |-> "rept", left |-> TermValue(control.inits[1].term, ints)])
    [] control.op = "while" -> LoopFrame(body, frame.repl, [of |-> "while", cond |-> control, rounds |-> 0])
    [] control.op \in ForWords -> LoopFrame(body, frame.repl,
         [of |-> "for", name |-> control.name, outer |-> frame.repl, rest |-> ForItems])

Loop ==
  LET end == collectCompileTimeBlock(frame.lines, frame.at + 1)
  IN /\ control.op \in LoopWords
     /\ IF end = 0 THEN Stops("unterminated compile-time block")
        ELSE IF control.op = "rept" /\ ~TermKnown(control.inits[1].term, ints)
        THEN Stops("repeat count")
        ELSE IF control.op = "rept" /\ TermValue(control.inits[1].term, ints) < 0
        THEN Stops("repeat count cannot be negative")
        ELSE IF control.op \in ForWords /\ control.name = "" THEN Stops("invalid iterator")
        ELSE /\ calls' = Append(At(end + 1), LoopOf(Between(frame.lines, frame.at + 1, end)))
             /\ Proceeds
             /\ UNCHANGED <<ints, out>>

Assign ==
  LET t == control.inits[1].term
  IN /\ control.op = "set"
     /\ IF TermKnown(t, ints)
        THEN ints' = (control.name :> TermValue(t, ints)) @@ ints /\ Skip /\ Proceeds
        ELSE IF frame.preserve THEN Skip /\ Proceeds /\ UNCHANGED ints
        ELSE Fails("unknown identifier") /\ UNCHANGED <<calls, ints>>
     /\ IF frame.preserve THEN Emit(control) ELSE UNCHANGED out

Misplaced == control.op \in {"endm", "else", "endif"} /\ Stops("unexpected end of block")

\* EXITM, and LOCAL in a loop, are dropped.
Dropped == /\ control.op = "exitm" \/ (control.op = "local" /\ ~frame.preserve)
           /\ Skip /\ Proceeds
           /\ UNCHANGED <<ints, out>>

\* Mutant of Moment: constants stay names, for the parser to look up.
AsWritten(line) == line

\* A line put out by a loop has the constants' values of the moment in it.
Moment(line) == IF frame.preserve THEN line ELSE Put(line, [n \in DOMAIN ints |-> Num(ints[n])])

Ordinary ==
  /\ control.op \notin IfWords \union LoopWords \union {"set", "endm", "else", "endif", "exitm"}
  /\ ~(control.op = "local" /\ ~frame.preserve)
  /\ Emit(Moment(control)) /\ Skip /\ Proceeds
  /\ UNCHANGED ints
-----------------------------------------------------------------------------
(***************************************************************************)
(* The end of a block: its caller goes on, or a loop goes round             *)
(***************************************************************************)
Return == calls' = Front(calls) /\ Proceeds

Round(repl, again) ==
  /\ calls' = [calls EXCEPT ![Len(calls)].at = 1, ![Len(calls)].repl = repl,
                            ![Len(calls)].again = again]
  /\ Proceeds

\* Mutant of Counted: the guard does not move.
Uncounted(again) == again

Counted(again) == [again EXCEPT !.rounds = @ + 1]

EndOfBlock ==
  /\ UNCHANGED <<ints, out>>
  /\ CASE frame.again.of = "once" -> Return
       [] frame.again.of = "rept" ->
            IF frame.again.left = 0 THEN Return
            ELSE Round(frame.repl, [frame.again EXCEPT !.left = @ - 1])
       [] frame.again.of = "while" ->
            IF frame.again.rounds > WhileLimit
            THEN Fails("WHILE expansion limit exceeded") /\ UNCHANGED calls
            ELSE IF ~CondKnown(frame.again.cond) THEN Fails("WHILE condition") /\ UNCHANGED calls
            ELSE IF ~CondHolds(frame.again.cond) THEN Return
            ELSE Round(frame.repl, Counted(frame.again))
       [] frame.again.of = "for" ->
            IF frame.again.rest = << >> THEN Return
            ELSE Round((frame.again.name :> Head(frame.again.rest).term) @@ frame.again.outer,
                       [frame.again EXCEPT !.rest = Tail(@)])

BlockStep ==
  /\ calls # << >>
  /\ \/ frame.at > Len(frame.lines) /\ EndOfBlock
     \/ /\ frame.at <= Len(frame.lines)
        /\ Conditional \/ Loop \/ Assign \/ Misplaced \/ Dropped \/ Ordinary
=============================================================================
