------------------------------- MODULE Macros -------------------------------
(***************************************************************************)
(* The first pass of the translator (parser.go, expandMacros): a definition *)
(* is taken out of the source, a line whose first word names a macro is     *)
(* replaced by its body, again and again, before any compile-time block is  *)
(* looked at.  todo holds what is left, the lines of bodies in front with   *)
(* the depth of their expansion.                                            *)
(***************************************************************************)
EXTENDS Source

CONSTANT MaxDepth    \* 32: bodies in bodies

VARIABLES todo,      \* Seq([line, depth])
          macros,    \* name -> [name, params, body]
          lines,     \* what the pass has put out
          fault      \* the error that ended the translation, "" while there is none

macroVars == <<todo, macros, lines>>

Fails(error) == fault' = error
Proceeds == fault' = ""

Work(line, depth) == [line |-> line, depth |-> depth]
first == Head(todo).line
-----------------------------------------------------------------------------
\* The body ends at the next ENDM, whatever opened it.
endOfBody == SelectInSeq(Tail(todo), LAMBDA w : w.line.op = "endm")

DefineMacro ==
  /\ Head(todo).depth = 0 /\ first.op = "macro"
  /\ UNCHANGED lines
  /\ \/ /\ endOfBody # 0
        /\ LET body == [k \in 1..(endOfBody - 1) |-> todo[k + 1].line]
           IN macros' = (first.name :> [name |-> first.name, params |-> first.params, body |-> body])
                        @@ macros
        /\ todo' = SubSeq(todo, endOfBody + 2, Len(todo))
        /\ Proceeds
     \/ /\ endOfBody = 0
        /\ Fails("unterminated MACRO")
        /\ UNCHANGED <<todo, macros>>

collectMacroLocals(body) == {body[k].name : k \in {j \in DOMAIN body : body[j].op = "local"}}

\* Mutant of LocalName: without the line of the call.
LocalOfMacro(def, call, name) == "__macro_" \o def.name \o "_" \o ToString(call.depth) \o "_" \o name

LocalName(def, call, name) ==
  "__macro_" \o def.name \o "_" \o ToString(call.line.no) \o "_" \o ToString(call.depth) \o "_" \o name

\* Whether parameter k is given by the call's arguments
Given(args, k) == k <= Len(args) /\ args[k].term # Blank

BindFails(params, args) ==
  \/ Len(args) > Len(params)
  \/ \E k \in DOMAIN params : /\ ~Given(args, k)
                              /\ params[k].default = Blank /\ params[k].required

bindMacroArgs(params, args) ==
  [n \in {params[k].name : k \in DOMAIN params} |->
     LET k == CHOOSE j \in DOMAIN params : params[j].name = n
     IN IF Given(args, k) THEN args[k].term ELSE params[k].default]

\* Locals are replaced before parameters.
ExpandedBody(def, call) ==
  LET locals == [n \in collectMacroLocals(def.body) |-> Name(LocalName(def, call, n))]
      values == bindMacroArgs(def.params, call.line.inits)
      body == SelectSeq(def.body, LAMBDA l : l.op # "local")
  IN [k \in DOMAIN body |->
        Work([Put(Put(body[k], locals), values) EXCEPT !.no = call.line.no], call.depth + 1)]

ExpandMacroLine ==
  /\ ~(Head(todo).depth = 0 /\ first.op = "macro")
  /\ UNCHANGED macros
  /\ IF Head(todo).depth > MaxDepth
     THEN Fails("macro expansion limit exceeded") /\ UNCHANGED <<todo, lines>>
     ELSE IF first.op = "call" /\ first.name \in DOMAIN macros
     THEN LET def == macros[first.name]
          IN IF BindFails(def.params, first.inits)
             THEN Fails("macro arguments") /\ UNCHANGED <<todo, lines>>
             ELSE /\ todo' = ExpandedBody(def, Head(todo)) \o Tail(todo)
                  /\ Proceeds
                  /\ UNCHANGED lines
     ELSE /\ lines' = Append(lines, first)
          /\ todo' = Tail(todo)
          /\ Proceeds

MacroStep == todo # << >> /\ (DefineMacro \/ ExpandMacroLine)
=============================================================================
