------------------------------ MODULE FrontEnd ------------------------------
(***************************************************************************)
(* The translator's passes one after the other, on one source each: macros, *)
(* compile-time blocks, data, procedure addresses (parser.go, preprocess    *)
(* and Parse).                                                              *)
(***************************************************************************)
EXTENDS DataLines, Programs

CONSTANTS Sources,  \* the programs translated, as Programs has them
          Scraps    \* and texts, as sequences of lines, that are no programs

VARIABLES program,  \* what is translated, << >> if it is a scrap
          phase     \* "macros", "blocks", "data", "done"

vars == <<program, phase, macroVars, blockVars, dataVars, fault>>

Numbered(text) == [k \in DOMAIN text |-> Work([text[k] EXCEPT !.no = k], 0)]

Init == /\ \/ program \in Sources /\ todo = Numbered(Written(program))
           \/ program = << >> /\ \E text \in Scraps : todo = Numbered(text)
        /\ phase = "macros"
        /\ macros = << >> /\ lines = << >>
        /\ calls = << >> /\ ints = << >> /\ out = << >>
        /\ DataInit
        /\ fault = ""

Macros == /\ phase = "macros"
          /\ \/ MacroStep /\ UNCHANGED <<phase, calls>>
             \/ /\ todo = << >>
                /\ phase' = "blocks"
                /\ calls' = <<Frame(lines, TRUE, NoReplacements)>>
                /\ UNCHANGED <<macroVars, fault>>
          /\ UNCHANGED <<program, ints, out, dataVars>>

Blocks == /\ phase = "blocks"
          /\ \/ BlockStep /\ UNCHANGED phase
             \/ calls = << >> /\ phase' = "data" /\ UNCHANGED <<blockVars, fault>>
          /\ UNCHANGED <<program, macroVars, dataVars>>

Data == /\ phase = "data"
        /\ \/ pos < Len(out) /\ ParseStep /\ UNCHANGED phase
           \/ pos = Len(out) /\ Finish /\ phase' = "done"
        /\ UNCHANGED <<program, macroVars, blockVars>>

Next == fault = "" /\ (Macros \/ Blocks \/ Data)

\* The translator runs until it is done: nothing else is waited for.
Spec == Init /\ [][Next]_vars /\ WF_vars(Next)
-----------------------------------------------------------------------------
\* Every translation comes to an end, refused or done, whatever the source: the
\* limits of macros in macros and of the rounds of WHILE (expandMacroLine,
\* expandCompileTimeBlock) stop the ones that would go on for ever.
TranslationEnds == <>(phase = "done" \/ fault # "")

Translated == phase = "done" /\ fault = ""

Limits == {"macro expansion limit exceeded", "WHILE expansion limit exceeded"}

\* The three passes together do what the program says: a constant has the value
\* it has where a line stands, each time a loop comes by; the bytes of every
\* declaration are the initializers' in place, and names are where their bytes
\* are; only a program that would not end is refused, and what is no program is
\* (expandMacroLine, expandCompileTimeBlock, parseDataLine,
\* parseAggregateInstance, finalizeProcedureRefs).
DataAsWritten ==
  /\ program # << >> => fault \in {""} \union Limits
  /\ Translated => program # << >>
  /\ Translated => \A whole \in {Whole(program)} :
       /\ data = Image(whole)
       /\ \A p \in PlacesOf(whole) : p.name \notin whole.locals => known[p.name] = p.address

\* Members of an aggregate share no byte, unless a union holds them, and none
\* reaches beyond it (beginAggregate, parseAggregateField, closeAggregate),
\* arrays of aggregates as members apart: of those only one element has room.
MembersApart ==
  \A n \in DOMAIN aggregates :
    LET def == aggregates[n]
        end(f) == f.offset + f.length * f.elem
        arrays == \E k \in DOMAIN def.fields : def.fields[k].type # "" /\ def.fields[k].length # 1
    IN ~arrays =>
         /\ \A k \in DOMAIN def.fields : end(def.fields[k]) <= def.size
         /\ def.kind = "struct" => \A j, k \in DOMAIN def.fields :
                                     j < k => end(def.fields[j]) <= def.fields[k].offset

\* A constant has the value in the parser that it has in the pass before, which
\* has carried out all of the assignments and not only those put out again.
ConstantsAgree ==
  Translated => \A n \in DOMAIN ints \intersect DOMAIN constants : ints[n] = constants[n]
=============================================================================
