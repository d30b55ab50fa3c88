------------------------------- MODULE Source -------------------------------
(***************************************************************************)
(* Source lines after comments are stripped and lines are joined            *)
(* (internal/masm/parser.go, preprocess), read into what they say.  The     *)
(* passes over them work on text; here a text is a term, name + number, and *)
(* replacing an identifier in a line is replacing it in the line's name and *)
(* in its terms.                                                            *)
(***************************************************************************)
EXTENDS Integers, SequencesExt

\* F of a value, which is evaluated once
With(value, F(_)) == CHOOSE r \in {F(v) : v \in {value}} : TRUE

Term(name, plus) == [name |-> name, plus |-> plus]
Num(n) == Term("", n)
Name(n) == Term(n, 0)
Here == Name("$")
Blank == Name(" ")

\* What stands on the right of a declaration: a term, ?, n DUP(...), <...>, or
\* nothing between two commas.
Value(t) == [is |-> "value", term |-> t, of |-> << >>]
Open == [is |-> "?", term |-> Num(0), of |-> << >>]
Dup(t, inits) == [is |-> "dup", term |-> t, of |-> inits]
Group(inits) == [is |-> "group", term |-> Num(0), of |-> inits]
Default == [is |-> "default", term |-> Num(0), of |-> << >>]

Values(terms) == [k \in DOMAIN terms |-> Value(terms[k])]

\* no is the line's number in the source, decl its type or comparison.
Line(op, name, decl, inits) == [no |-> 0, op |-> op, name |-> name, decl |-> decl, inits |-> inits]
Plain(op) == Line(op, "", "", << >>)

\* A parameter without default text has the default Blank.
Param(name, required, default) == [name |-> name, required |-> required, default |-> default]
MacroLine(name, params) == [no |-> 0, op |-> "macro", name |-> name, decl |-> "",
                            inits |-> << >>, params |-> params]

\* What lines say of procedures is their addresses (finalizeProcedureRefs).
CONSTANT Procedures    \* the procedures of .code, in order: Seq(names)

procAddress(name) == 1879048192 + 4 * (SelectInSeq(Procedures, LAMBDA p : p = name) - 1)

\* FORC is a FOR whose items are the characters of a text.
ForWords == {"for", "forc"}
LoopWords == {"rept", "while"} \union ForWords
IfWords == {"if", "ifb", "ifdef", "ifndef"}
-----------------------------------------------------------------------------
(***************************************************************************)
(* substituteMacroText: repl maps identifiers to terms.                     *)
(***************************************************************************)
PutTerm(t, repl) ==
  IF t.name \in DOMAIN repl THEN [repl[t.name] EXCEPT !.plus = @ + t.plus] ELSE t

RECURSIVE PutInits(_, _)
PutInits(inits, repl) ==
  [k \in DOMAIN inits |-> [inits[k] EXCEPT !.term = PutTerm(@, repl), !.of = PutInits(@, repl)]]

Put(line, repl) ==
  [line EXCEPT !.name = IF @ \in DOMAIN repl THEN repl[@].name ELSE @,
               !.inits = PutInits(@, repl)]

NoReplacements == << >>
=============================================================================
