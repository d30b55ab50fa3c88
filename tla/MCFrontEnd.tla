----------------------------- MODULE MCFrontEnd -----------------------------
(***************************************************************************)
(* Small programs for FrontEnd: compile-time blocks in each other, macros,  *)
(* aggregates of every shape, tables of procedures, and programs that would *)
(* never end.                                                               *)
(***************************************************************************)
EXTENDS FrontEnd

MCProcedures == <<"main", "other">>
X == Name("x")
Y == Name("y")
XPlus1 == Term("x", 1)
-----------------------------------------------------------------------------
(***************************************************************************)
(* Blocks: a constant x counts, y is set beside it, i is an iterator.       *)
(***************************************************************************)
Steps == {Set("x", XPlus1), Emits("BYTE", X), Set("y", X)}

Conditionals(bodies) ==
  {If(X, "LT", Num(2), b, << >>) : b \in bodies}
  \union {If(X, "EQ", Num(1), b, <<Emits("BYTE", Num(9))>>) : b \in bodies}
  \union {Ifdef("y", b, <<Emits("BYTE", Num(8)), Set("y", Num(7))>>) : b \in bodies}
  \union {Ifndef("y", b, << >>) : b \in bodies}

Loops(bodies) ==
  {Rept(Num(2), b) : b \in bodies} \union {Rept(X, b) : b \in bodies}
  \union {For("i", <<Num(5), X>>, b) : b \in bodies} \union {ForC("c", <<Num(2), X, Num(2)>>, b) : b \in bodies}

\* Bodies that move x and end
Rounds(bodies) == {While(X, "LT", Num(3), <<Set("x", XPlus1)>> \o b) : b \in bodies}

Ones == {<<s>> : s \in Steps}
Twos == {<<s, t>> : s \in Steps, t \in Steps \union {Emits("BYTE", Name("i"))}}
Iterated == {For("i", <<Num(5), X>>, <<s, Emits("BYTE", Name("i"))>>) : s \in Steps}
            \union {For("i", <<Num(5)>>, <<For("j", <<Term("i", 1), Num(3)>>, <<Emits("BYTE", Term("j", 1)), s>>),
                                          Emits("BYTE", Name("i"))>>) : s \in Steps}
            \union {ForC("c", <<Num(7), X>>, <<Emits("BYTE", Name("c")), s>>) : s \in Steps}

Inner == Conditionals(Ones) \union Loops(Ones) \union Rounds(Ones) \union Iterated
Outer == {Rept(Num(2), <<n, s>>) : n \in Inner, s \in Steps}
         \union Rounds({<<n>> : n \in Inner})
         \union {If(X, "LT", Num(2), <<n>>, <<s>>) : n \in Inner, s \in Steps}
         \union {For("k", <<Num(5), X>>, <<s, n>>) : n \in Inner, s \in Steps}

\* x and y are given their values again before the top level looks at them.
Framed(n) == <<Set("x", Num(0)), Set("z", XPlus1), n, Set("x", Num(4)), Set("y", Term("x", 2)),
               Emits("BYTE", X), Emits("BYTE", Y), Emits("BYTE", Name("z"))>>

BlockPrograms == {Framed(n) : n \in Inner \union Outer}

\* The same without that: what the two passes hold may differ.
LoopPrograms == {<<Set("x", Num(0)), n, Emits("BYTE", X)>> : n \in Inner}
-----------------------------------------------------------------------------
(***************************************************************************)
(* Macros: with a default and a condition on whether a parameter is given,  *)
(* with a local name, with others inside, with an assignment.               *)
(***************************************************************************)
V == Name("v")
Two == Macro("two", <<Param("v", FALSE, Blank), Param("w", FALSE, Num(3))>>,
             <<Ifb(V, <<Emits("BYTE", Num(9))>>, <<Emits("BYTE", V)>>), Emits("BYTE", Term("w", 1))>>)
Self == Macro("self", <<Param("v", TRUE, Blank)>>,
              <<Local("here"), Item("here", "BYTE", Values(<<V>>)), Emits("DWORD", Name("here"))>>)
Pair == Macro("pair", <<Param("v", TRUE, Blank), Param("w", TRUE, Blank)>>,
              <<Call("two", <<V>>), Call("next", << >>), Call("two", <<Blank, Name("w")>>)>>)
Next1 == Macro("next", << >>, <<Set("x", XPlus1), Exitm, Emits("BYTE", X)>>)
Again == Macro("again", <<Param("v", FALSE, Blank)>>, <<Emits("BYTE", Num(1)), Call("again", <<V>>)>>)

Calls == {Call("two", <<Num(5)>>), Call("two", <<Blank, X>>), Call("two", <<X, XPlus1>>),
          Call("pair", <<X, Num(7)>>), Call("next", << >>), Call("self", <<X>>)}

Defined == <<Two, Next1, Pair, Self, Set("x", Num(1))>>

\* A local name is not for a loop: its calls in one are one call.
MacroPrograms ==
  {Defined \o <<c, d, Set("x", Num(2))>> : c \in Calls, d \in Calls}
  \union {Defined \o <<n, Set("x", Num(0)), c>> :
            n \in Loops({<<c, Call("next", << >>)>> : c \in Calls \ {Call("self", <<X>>)}}), c \in Calls}
  \union {Defined \o <<If(X, "LT", Num(2), <<c>>, <<d>>), Emits("BYTE", X)>> : c \in Calls, d \in Calls}

EndlessPrograms == {<<Again, Call("again", <<Num(1)>>)>>,
                    <<Set("x", Num(0)), Set("y", Num(0)), While(Y, "LT", Num(3), <<Set("x", Num(1))>>)>>}
-----------------------------------------------------------------------------
(***************************************************************************)
(* Aggregates: up to three members and an ALIGN, and instances of them.     *)
(* The members of a union agree on the bytes they begin with.               *)
(***************************************************************************)
N(n) == Value(Num(n))
Scalars == {Item("a", "BYTE", <<N(1)>>), Item("a", "WORD", <<Open>>), Item("a", "BYTE", <<N(1), N(2)>>),
            Item("a", "WORD", <<Dup(Num(2), <<N(7)>>), N(258)>>)}
Aligns == {Align(Num(2)), Align(Name("DWORD"))}
Nested == {Aggregate("struct", "n", <<Item("p", "BYTE", <<N(3)>>), Item("q", "WORD", <<N(4)>>)>>),
           Aggregate("union", "n", <<Item("p", "WORD", <<Open>>), Item("q", "DWORD", <<Open>>)>>),
           Aggregate("union", "n", <<Aggregate("struct", "p", <<Item("s", "BYTE", <<N(3)>>), Item("t", "BYTE", <<N(5)>>)>>),
                                     Item("q", "BYTE", <<N(3)>>)>>),
           Item("n", "Small", <<Group(<<N(5)>>)>>), Item("n", "DWORD", <<N(70000)>>)}
Last1 == Item("z", "BYTE", <<N(15)>>)

Small == Aggregate("struct", "Small", <<Item("c", "BYTE", <<N(1)>>), Align(Num(2)), Item("d", "WORD", <<N(2)>>)>>)

Records == {Aggregate("struct", "Rec", <<s, n, Last1>>) : s \in Scalars, n \in Nested}
           \union {Aggregate("struct", "Rec", <<s, g, n>>) : s \in Scalars, g \in Aligns, n \in Nested}
           \union {Aggregate("union", "Rec", <<Item("a", "BYTE", <<N(1), N(2)>>), Item("w", "BYTE", <<N(1)>>)>>),
                   Aggregate("union", "Rec", <<Item("a", "WORD", <<Open>>), Item("w", "QWORD", <<Open>>)>>),
                   Aggregate("union", "Rec", <<Item("a", "WORD", <<Open>>), Item("w", "Small", <<Open>>)>>)}

\* The second member may be an aggregate itself, or a scalar.
Literals(rec) ==
  LET n == rec.body[2]
      inner == IF n.line.op \in {"struct", "union"} \/ n.line.decl = "Small" THEN Group(<<N(10)>>) ELSE N(11)
  IN {<<Open>>, <<Group(<< >>)>>, <<Group(<<N(9)>>)>>, <<N(9), Group(<<Default>>)>>,
      <<Dup(Num(2), <<Group(<<N(8)>>)>>), Open>>}
     \union IF rec.line.op = "union" THEN {} ELSE {<<Group(<<Default, inner>>)>>}

RecordPrograms ==
  UNION {{<<Small, r, Emits("BYTE", Num(1)), Item("v", "Rec", l), Emits("BYTE", Num(2)), Align(Num(4)),
            Item("p", "DWORD", Values(<<Name("v"), Here, Here>>)), Emits("DWORD", Name("p"))>>
          : l \in Literals(r)} : r \in {s \in Records : Len(s.body) = 2 \/ s.body[2].line.op # "align"}}
  \union {<<Small, r, Emits("WORD", Num(1)), Item("v", "Rec", <<Group(<<N(9)>>)>>),
             Item("", "Rec", <<Group(<< >>)>>), Align(Num(8)), Emits("WORD", Name("v"))>> : r \in Records}
-----------------------------------------------------------------------------
\* Tables with addresses of procedures and of data, the lists as many kinds of lines
TableItems == {Value(Name("main")), Value(Name("other")), N(7), Open, Value(Name("first")), Value(Here)}
TablePrograms ==
  {<<Label("first", "DWORD"), Item("t", "DWORD", <<i, j>>), Emits("DWORD", Name("t")), Item("u", "BYTE", <<N(65)>>),
     Item("", "DWORD", <<k>>), Item("", "BYTE", <<N(66)>>), Emits("DWORD", Name("other"))>>
   : i \in TableItems, j \in TableItems, k \in TableItems}

-----------------------------------------------------------------------------
(***************************************************************************)
(* What is refused: blocks without an end or a beginning, names nothing is  *)
(* known of, counts below 0, arguments and initializers that do not fit.    *)
(***************************************************************************)
U == Name("unknown")
Of(node) == <<node.line>>
Pieces(nodes) == {Written(<<n>>) : n \in nodes}

MCScraps ==
  {<<Plain(op)>> : op \in {"endm", "else", "endif", "ends"}}
  \union {Of(Macro("m", << >>, << >>)), Of(Rept(X, << >>)), Of(While(X, "LT", X, << >>)), Of(If(X, "LT", X, << >>, << >>)),
          Of(Aggregate("struct", "S", << >>)),
          <<Line("struct", "S", "", << >>), Line("ends", "T", "", << >>)>>}
  \union Pieces({Rept(Num(-1), << >>), Rept(U, << >>), For("", <<X>>, << >>), While(U, "LT", X, << >>),
                 If(U, "LT", X, << >>, << >>), Rept(Num(1), <<If(U, "LT", X, << >>, << >>)>>),
                 Set("y", U), Rept(Num(1), <<Set("y", U)>>),
                 Emits("BYTE", U), Emits("DWORD", U), Emits("NOTYPE", X), Label("l", "NOTYPE"),
                 Align(U), Align(Term("DWORD", 1)), Aggregate("struct", "S", <<Align(U)>>), Aggregate("union", "S", <<Align(U)>>),
                 Item("b", "BYTE", <<Dup(Num(-1), <<Open>>)>>), Call("m", << >>), Local("l")})
  \union Pieces({Aggregate("struct", "S", <<n>>) : n \in {Emits("NOTYPE", X), Set("y", X), Label("l", "BYTE")}})
  \union {Written(<<Self, c>>) : c \in {Call("self", << >>), Call("self", <<Blank>>), Call("self", <<X, X>>)}}
  \union {Written(<<Item("a", "BYTE", <<Open>>), Item("a", "WORD", <<Open>>)>>),
          Written(<<Small, Item("a", "Small", <<Group(<<Dup(Num(2), <<N(1)>>)>>)>>)>>)}

MCSources == BlockPrograms \union MacroPrograms \union EndlessPrograms
             \union RecordPrograms \union TablePrograms
=============================================================================
