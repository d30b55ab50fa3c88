------------------------------ MODULE Programs ------------------------------
(***************************************************************************)
(* What a source means, told from its structure and not from its lines:     *)
(* a program is a sequence of nodes, some with programs inside.  Written    *)
(* gives its lines, Elaborated carries it out with one set of constants,    *)
(* Image lays its data out.                                                 *)
(***************************************************************************)
EXTENDS Source

\* A line by itself, or one with a body and, for IF, a body for ELSE
Leaf(line) == [line |-> line, body |-> << >>, other |-> << >>]
Block(line, body) == [line |-> line, body |-> body, other |-> << >>]
Choice(line, body, other) == [line |-> line, body |-> body, other |-> other]

Set(name, t) == Leaf(Line("set", name, "", Values(<<t>>)))
Item(name, decl, inits) == Leaf(Line("data", name, decl, inits))
Emits(decl, t) == Item("", decl, Values(<<t>>))
Label(name, decl) == Leaf(Line("label", name, decl, << >>))
Align(t) == Leaf(Line("align", "", "", Values(<<t>>)))
Call(name, args) == Leaf(Line("call", name, "", Values(args)))
Local(name) == Leaf(Line("local", name, "", << >>))
Exitm == Leaf(Plain("exitm"))
Rept(t, body) == Block(Line("rept", "", "", Values(<<t>>)), body)
While(left, op, right, body) == Block(Line("while", "", op, Values(<<left, right>>)), body)
ForC(name, chars, body) == Block(Line("forc", name, "", Values(chars)), body)
For(name, items, body) == Block(Line("for", name, "", Values(items)), body)
If(left, op, right, body, other) == Choice(Line("if", "", op, Values(<<left, right>>)), body, other)
Ifb(t, body, other) == Choice(Line("ifb", "", "", Values(<<t>>)), body, other)
Ifdef(name, body, other) == Choice(Line("ifdef", name, "", << >>), body, other)
Ifndef(name, body, other) == Choice(Line("ifndef", name, "", << >>), body, other)
Macro(name, params, body) == Block(MacroLine(name, params), body)
Aggregate(kind, name, members) == Block(Line(kind, name, "", << >>), members)
-----------------------------------------------------------------------------
RECURSIVE Written(_)
Written(nodes) ==
  FlattenSeq([k \in DOMAIN nodes |->
    LET n == nodes[k] IN
    CASE n.line.op \in IfWords ->
           <<n.line>> \o Written(n.body)
           \o (IF n.other = << >> THEN << >> ELSE <<Plain("else")>> \o Written(n.other))
           \o <<Plain("endif")>>
      [] n.line.op \in LoopWords \union {"macro"} ->
           <<n.line>> \o Written(n.body) \o <<Plain("endm")>>
      [] n.line.op \in {"struct", "union"} ->
           <<n.line>> \o Written(n.body) \o <<Plain("ends")>>
      [] OTHER -> <<n.line>>])
-----------------------------------------------------------------------------
(***************************************************************************)
(* Carrying a program out.  env: constants, macros, the aggregates' members *)
(* by name, and decls, the declarations met, with the constants' values of  *)
(* the moment in them; locals, the names macros made up.                    *)
(***************************************************************************)
Empty == [constants |-> << >>, macros |-> << >>, types |-> << >>, decls |-> << >>,
          locals |-> {}]

Now(env, t) == t.plus + IF t.name = "" THEN 0 ELSE env.constants[t.name]
Holds(env, line) ==
  CASE line.op \in {"if", "while"} /\ line.decl = "EQ" -> Now(env, line.inits[1].term) = Now(env, line.inits[2].term)
    [] line.op \in {"if", "while"} /\ line.decl = "LT" -> Now(env, line.inits[1].term) < Now(env, line.inits[2].term)
    [] line.op = "ifb" -> line.inits[1].term = Blank
    [] line.op = "ifdef" -> line.name \in DOMAIN env.constants
    [] line.op = "ifndef" -> line.name \notin DOMAIN env.constants

RECURSIVE PutNodes(_, _)
PutNodes(nodes, repl) ==
  [k \in DOMAIN nodes |-> [line |-> Put(nodes[k].line, repl), body |-> PutNodes(nodes[k].body, repl),
                           other |-> PutNodes(nodes[k].other, repl)]]

\* A local is unique by the number of declarations before it.
LocalsOf(macro) == {macro.body[k].line.name : k \in {j \in DOMAIN macro.body : macro.body[j].line.op = "local"}}
Unique(env, name) == name \o "@" \o ToString(Len(env.decls))

\* The body of a macro, its parameters and locals replaced
Opened(env, macro, args) ==
  LET params == macro.line.params
      given(k) == IF k <= Len(args) /\ args[k].term # Blank THEN args[k].term ELSE params[k].default
      names == LocalsOf(macro) \union {params[k].name : k \in DOMAIN params}
  IN PutNodes(SelectSeq(macro.body, LAMBDA n : n.line.op # "local"),
       [n \in names |-> IF n \in LocalsOf(macro) THEN Name(Unique(env, n))
                        ELSE given(CHOOSE k \in DOMAIN params : params[k].name = n)])

RECURSIVE Elaborated(_, _), Times(_, _, _), EachOf(_, _, _, _)

\* One node, then the rest
Elaborated(nodes, env) ==
  IF nodes = << >> THEN env
  ELSE LET n == Head(nodes)
           op == n.line.op
           one == CASE op = "set" ->
                         [env EXCEPT !.constants = (n.line.name :> Now(env, n.line.inits[1].term)) @@ @]
                    [] op \in {"data", "label", "align"} ->
                         [env EXCEPT !.decls = Append(@, Put(n.line, [c \in DOMAIN env.constants |-> Num(env.constants[c])]))]
                    [] op \in IfWords -> Elaborated(IF Holds(env, n.line) THEN n.body ELSE n.other, env)
                    [] op = "rept" -> Times(Now(env, n.line.inits[1].term), n.body, env)
                    [] op = "while" -> IF Holds(env, n.line)
                                       THEN With(Elaborated(n.body, env), LAMBDA e : Elaborated(<<n>>, e))
                                       ELSE env
                    [] op \in ForWords -> EachOf(n.line.inits, n.line.name, n.body, env)
                    [] op = "macro" -> [env EXCEPT !.macros = (n.line.name :> n) @@ @]
                    [] op = "call" -> 
                         LET macro == env.macros[n.line.name]
                         IN Elaborated(Opened(env, macro, n.line.inits),
                                       [env EXCEPT !.locals = @ \union {Unique(env, l) : l \in LocalsOf(macro)}])
                    [] op \in {"struct", "union"} -> [env EXCEPT !.types = (n.line.name :> n) @@ @]
                    [] OTHER -> env
       IN With(one, LAMBDA e : Elaborated(Tail(nodes), e))

Times(n, body, env) ==
  IF n = 0 THEN env ELSE With(Elaborated(body, env), LAMBDA e : Times(n - 1, body, e))

EachOf(items, name, body, env) ==
  IF items = << >> THEN env
  ELSE With(Elaborated(PutNodes(body, name :> Head(items).term), env),
            LAMBDA e : EachOf(Tail(items), name, body, e))
-----------------------------------------------------------------------------
(***************************************************************************)
(* Layout: a declaration is a sequence of items of one type, an aggregate a *)
(* sequence of members, which are declarations again; every byte is found   *)
(* by its place.                                                            *)
(***************************************************************************)
Widths == [BYTE |-> 1, WORD |-> 2, DWORD |-> 4, QWORD |-> 8]

RECURSIVE ItemsOf(_)
ItemsOf(inits) ==
  FlattenSeq([k \in DOMAIN inits |->
    IF inits[k].is = "dup" THEN FlattenSeq([j \in 1..inits[k].term.plus |-> ItemsOf(inits[k].of)])
    ELSE <<inits[k]>>])

RoundUp(n, unit) == ((n + unit - 1) \div unit) * unit

\* The node of a declaration's type: an aggregate declared in place is its own.
TypeOf(member, types) ==
  IF member.line.op \in {"struct", "union"} THEN member
  ELSE IF member.line.op = "label" THEN Leaf(Line("scalar", "BYTE", "", << >>))
  ELSE IF member.line.decl \in DOMAIN Widths THEN Leaf(Line("scalar", member.line.decl, "", << >>))
  ELSE types[member.line.decl]

Items(member) == IF member.line.op \in {"struct", "union"} THEN <<Group(<< >>)>> ELSE ItemsOf(member.line.inits)

RECURSIVE Width(_, _), StartOf(_, _, _)
Room(member, types) ==
  IF member.line.op \in {"align", "label"} THEN 0 ELSE Len(Items(member)) * Width(TypeOf(member, types), types)

Width(type, types) ==
  CASE type.line.op = "scalar" -> Widths[type.line.name]
    [] type.line.op = "struct" -> StartOf(type.body, Len(type.body) + 1, types)
    [] type.line.op = "union" -> Max({Room(type.body[k], types) : k \in DOMAIN type.body})

\* Where the k-th of members starts
StartOf(members, k, types) ==
  IF k = 1 THEN 0
  ELSE LET before == members[k - 1]
           start == StartOf(members, k - 1, types)
           unit == before.line.inits[1].term
       IN IF before.line.op = "align"
          THEN RoundUp(start, IF unit.name \in DOMAIN Widths THEN Widths[unit.name] ELSE unit.plus)
          ELSE start + Room(before, types)

\* The names in members and where they are
RECURSIVE Places(_, _, _, _)
Places(prefix, base, type, types) ==
  UNION {LET start == base + IF type.line.op = "union" THEN 0 ELSE StartOf(type.body, k, types)
             name == prefix \o type.body[k].line.name
         IN With([name |-> name, address |-> start], LAMBDA p :
              {p} \union With(TypeOf(type.body[k], types), LAMBDA inner :
                             Places(p.name \o ".", p.address, inner, types)))
         : k \in {j \in DOMAIN type.body : type.body[j].line.op # "align" /\ type.body[j].line.name # ""}}

(***************************************************************************)
(* The scalar that byte o of an item of a type belongs to, the item being   *)
(* initialized by init: its initializer, and which of its bytes it is.  A   *)
(* union's value is that of its first member.                               *)
(***************************************************************************)
Scalar(init, o) == [init |-> init, byte |-> o]

\* The items of member k of an instance: those the literal gives, then the defaults
ItemsGiven(type, k, init) ==
  LET defaults == Items(type.body[k])
      rank == Cardinality({j \in 1..k : type.body[j].line.op # "align"})
      given == CASE init.is = "group" /\ rank <= Len(init.of) ->
                      ItemsOf(SelectSeq(<<init.of[rank]>>, LAMBDA i : i.is # "default"))
                 [] init.is = "value" /\ rank = 1 -> <<init>>
                 [] OTHER -> << >>
  IN given \o SubSeq(defaults, Len(given) + 1, Len(defaults))

\* The member of an aggregate that byte o is in, 0 if it is padding
MemberAt(type, o, types) ==
  LET start == [k \in DOMAIN type.body |-> IF type.line.op = "union" THEN 0 ELSE StartOf(type.body, k, types)]
      among == IF type.line.op = "union" THEN {1} ELSE DOMAIN type.body
      holders == {k \in among : start[k] <= o /\ o < start[k] + Room(type.body[k], types)}
  IN IF holders = {} THEN [at |-> 0, start |-> 0]
     ELSE With(CHOOSE h \in holders : TRUE, LAMBDA k : [at |-> k, start |-> start[k]])

RECURSIVE ScalarAt(_, _, _, _)
ScalarAt(type, init, o, types) ==
  IF type.line.op = "scalar" \/ init.is = "?" THEN Scalar(init, o)
  ELSE With(MemberAt(type, o, types), LAMBDA member :
         IF member.at = 0 THEN Scalar(Open, 0)
         ELSE With(TypeOf(type.body[member.at], types), LAMBDA inner :
              With(Width(inner, types), LAMBDA width :
              With(ItemsGiven(type, member.at, init)[((o - member.start) \div width) + 1], LAMBDA item :
              With((o - member.start) % width, LAMBDA rest : ScalarAt(inner, item, rest, types))))))
-----------------------------------------------------------------------------
\* The program's data as one aggregate of its declarations; a dword is reserved
\* before them.
Whole(nodes) ==
  LET env == Elaborated(nodes, Empty)
  IN [types |-> env.types, locals |-> env.locals,
      type |-> Aggregate("struct", "", <<Emits("DWORD", Num(0))>> \o [k \in DOMAIN env.decls |-> Leaf(env.decls[k])])]

PlacesOf(whole) == Places("", 0, whole.type, whole.types)

\* The bytes of data.  $ is where the item starts.
ImageWith(whole, places) ==
  LET decls == whole.type.body
      value(t, here) ==
        t.plus + CASE t.name = "" -> 0
                   [] t.name = "$" -> here
                   [] t.name \in ToSet(Procedures) -> procAddress(t.name)
                   [] OTHER -> (CHOOSE p \in places : p.name = t.name).address
      byte(member, o, width, type) ==
        With(ScalarAt(type, Items(decls[member.at])[(o \div width) + 1], o % width, whole.types), LAMBDA scalar :
          IF scalar.init.is = "?" THEN 0
          ELSE (value(scalar.init.term, member.start + (o - (o % width))) \div 256^scalar.byte) % 256)
  IN [a \in 1..Width(whole.type, whole.types) |->
        With(MemberAt(whole.type, a - 1, whole.types), LAMBDA member :
          IF member.at = 0 THEN 0
          ELSE With(TypeOf(decls[member.at], whole.types), LAMBDA type :
                 byte(member, a - 1 - member.start, Width(type, whole.types), type)))]

Image(whole) == With(PlacesOf(whole), LAMBDA places : ImageWith(whole, places))
=============================================================================
