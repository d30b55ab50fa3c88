------------------------------ MODULE MCArith ------------------------------
(***************************************************************************)
(* The idioms on bytes: operands around every boundary of signed and        *)
(* unsigned bytes, a spread of others where there are only two of them, and *)
(* numbers of decimal digits.                                               *)
(***************************************************************************)
EXTENDS ConsoleRoutines

Task(kind, detail, codes, starts) ==
  {[name |-> <<kind, detail>>, code |-> c, starts |-> starts] : c \in codes}

CarryFlag(c) == [Zeros EXCEPT !.cf = c]
Start(r, m, c) == [regs |-> r, mem |-> m, flags |-> CarryFlag(c), reals |-> << >>,
                   stdin |-> << >>, peekable |-> TRUE]

\* Bytes next to where a sum, a difference or a sign changes; and others.
Boundary == {0, 1, 2, 127, 128, 129, 254, 255}
Corners == Boundary \ {2, 129}
Spread == Boundary \union {3, 7, 85, 100, 126, 171, 200, 253}

\* Counts of shifts and rotations: below, at and above the bits of a byte, with or
\* without the carry, and of what counts are cut to.
Counts == 0..10 \union {16, 17, 18, 27, 31, 32, 33, 255}
MaskedCounts == {n \in Counts : n < 32}

\* The named registers any of values, the others 0
AnyRegs(names, values) ==
  {[r \in Registers |-> IF r \in names THEN f[r] ELSE 0] : f \in [names -> values]}
ZeroMem == [j \in Cells |-> 0]

\* Memory with X and Y any numbers of words in digits
Numbers(digits) ==
  {[j \in Cells |-> IF j < 2 * Limbs THEN f[j] ELSE 0] : f \in [0..(2 * Limbs - 1) -> digits]}

Count(n) == [r \in Registers |-> IF r = "c" THEN n ELSE 0]
OnNumbers(counts, digits) == {Start(Count(n), m, TRUE) : n \in counts, m \in Numbers(digits)}
OnRegs(names) == {Start(r, ZeroMem, FALSE) : r \in AnyRegs(names, Boundary)}
OnCorners == {Start(r, ZeroMem, FALSE) : r \in AnyRegs({"a", "d", "b", "c"}, Corners)}
OnPairs(names) == {Start(r, ZeroMem, FALSE) : r \in AnyRegs(names, Spread)}
OnCounts(names, counts) ==
  {Start([s.regs EXCEPT !["c"] = n], ZeroMem, c) : s \in OnRegs(names), n \in counts, c \in BOOLEAN}

\* A loop entered with a count of 0 runs out of memory.
NoWords == {Start(Count(0), ZeroMem, FALSE)}
-----------------------------------------------------------------------------
SumTasks ==
  UNION {Task("add", "", {ExtendedAdd, ExtendedAddAH}, OnNumbers({Limbs}, Corners) \union NoWords),
         Task("sub", "", {ExtendedSub}, OnNumbers({Limbs}, Corners) \union NoWords),
         Task("compare", "", {ExtendedCompare}, OnNumbers({Limbs}, Corners)),
         Task("search", "", {Search},
              {Start([s.regs EXCEPT !["a"] = v], s.mem, FALSE) :
                 s \in OnNumbers(1..Limbs, {0, 1, Half}), v \in {0, Half}}),
         Task("neg", "", {WideNeg, WideNot}, OnPairs({"a", "d"}))}

ShiftTasks ==
  UNION {Task(op, "", ShiftCodes[op], OnCounts({"a", "d"}, 0..Bits)) : op \in {"shl", "shr", "sar"}}
  \union Task("rotate", "", RotateCodes(Undo), OnCounts({"a"}, Counts))
  \union Task("rotate", "", RotateCodes(UndoBitByBit), OnCounts({"a"}, MaskedCounts))
  \union Task("carry rotate", "", CarryRotateCodes(Undo), OnCounts({"a"}, Counts))
  \union Task("carry rotate", "", CarryRotateCodes(UndoBitByBit), OnCounts({"a"}, MaskedCounts))

DivisionTasks ==
  UNION {Task("divide", "", {DivideAndBack}, OnRegs({"a", "d", "b"})),
         Task("signed divide", "", {SignedDivideAndBack}, OnPairs({"a", "b"})),
         Task("multiply", "", {MultiplyAndBack}, OnPairs({"a", "b"}))}

ComparisonTasks ==
  UNION (
    {Task("relation", cond, {Decide(Op(op, <<A, B>>), cond) : op \in {"cmp", "sub"}}, OnRegs({"a", "b"})) :
       cond \in Relations}
    \union {Task("overflow", op, {Decide(Op(op, <<A, B>>), "jo")}, OnPairs({"a", "b"})) :
              op \in {"add", "sub"}}
    \union {Task("carry", op, {Decide(Op(op, <<A, B>>), "jc")}, OnPairs({"a", "b"})) :
              op \in {"add", "sub"}}
    \union {Task("overflow", "imul", {Decide(Op("imul", <<B>>), "jo")}, OnPairs({"a", "b"})),
            Task("overflow", "imul by 3", {Decide(Op("imul", <<A, B, Imm(3)>>), "jo")}, OnPairs({"b"})),
            Task("carry", "mul", {Decide(Op("mul", <<B>>), "jc")}, OnPairs({"a", "b"}))}
    \union {Task("greater", cond, {GreaterCode(cond)}, OnRegs({"a", "b"})) : cond \in {"jl", "jb"}}
    \union {Task("magnitude", "", {MagnitudeCode}, OnPairs({"a"})),
            Task("even", "", {EvenCode}, OnPairs({"a"})),
            Task("negative", "", {NegativeCode}, OnPairs({"a"})),
            Task("wide below", "", {WideRelation("jb")}, OnCorners),
            Task("wide less", "", {WideRelation("jl")}, OnCorners)})

ProductTasks == Task("product", "", {<<Op("imul", <<A, B>>)>>}, OnPairs({"a", "b"}))
-----------------------------------------------------------------------------
\* Bytes whose digits carry, do not, or only just
Packed == {0, 1, 9, 73, 144, 153}

AsciiStarts ==
  {Start([r \in Registers |-> CASE r = "a" -> Character(l) [] r = "b" -> Character(n) [] OTHER -> 0],
         ZeroMem, c) : l \in 0..9, n \in 0..9, c \in BOOLEAN}

DigitStarts(names) == {Start(r, ZeroMem, FALSE) : r \in AnyRegs(names, {0, 1, 5, 7, 9})}

DecimalTasks ==
  UNION {Task("packed add", "", {PackedAdd}, OnNumbers({Limbs}, Packed)),
         Task("packed sub", "", {PackedSub}, OnNumbers({Limbs}, Packed)),
         Task("digit product", "", {DigitProduct}, DigitStarts({"a", "b"})),
         Task("digit product back", "", {DigitProductBack}, DigitStarts({"a", "b"})),
         Task("digit quotient", "", {DigitQuotient}, {s \in DigitStarts({"d", "a", "b"}) : s.regs["b"] # 0}),
         Task("split", "", {<<Op("aam", <<Imm(base)>>)>> : base \in {0, 16}}, DigitStarts({"a"})),
         Task("ascii add", "", {AsciiAdd}, AsciiStarts),
         Task("ascii sub", "", {AsciiSub}, AsciiStarts)}

-----------------------------------------------------------------------------
\* The registers of r over others of 0
Given2(r) == [p \in Registers |-> IF p \in DOMAIN r THEN r[p] ELSE 0]

\* Three bytes, of which two are alike or all differ, at cells 0 to 2 or 2 to 4, or to the top
Triples == {<<1, 2, 3>>, <<7, 7, 255>>, <<0, 128, 0>>}
MemWith(t, at) == [j \in Cells |-> IF j \in at..(at + 2) THEN t[j - at + 1] ELSE 9]
Starts(rs, ms) == {Start(Given2(r), m, FALSE) : r \in rs, m \in ms}

\* Source and destination anywhere inside memory, for up to 3 cells; or anywhere
Moves(n) == [c : {n}, s : 0..(MemTop + 1 - n), i : 0..(MemTop + 1 - n)]
Within == UNION {Moves(n) : n \in 0..3}
Anywhere == [c : 0..3, s : {0, MemTop, MemTop + 1}, i : {0, MemTop - 1, MemTop, MemTop + 1}, a : {5}]
Varied == {[j \in Cells |-> 10 * j]}
Pairs == {[j \in Cells |-> CASE j < 3 -> l[j + 1] [] j < 6 -> r[j - 2] [] OTHER -> 9] :
            l \in Triples, r \in Triples \union {<<1, 2, 2>>, <<1, 3, 0>>, <<7, 0, 255>>}}

StringTasks ==
  UNION {Task("move", "", {MoveCode}, Starts(Within, Varied)),
         Task("move", "", {MoveDownCode}, Starts({r \in Within : r.c > 0 /\ r.i >= r.s}, Varied)),
         Task("copy up", "", {CopyUpCode}, Starts(Within \union Anywhere, Varied)),
         Task("fill", "", {FillCode}, Starts(Anywhere, Varied)),
         Task("search cells", "", {SearchCode}, Starts([a : {0, 7, 9}, c : 0..3, i : {2}], {MemWith(t, 2) : t \in Triples})),
         Task("skip cells", "", {SkipCode}, Starts([a : {0, 7, 9}, c : 0..3, i : {2}], {MemWith(t, 2) : t \in Triples})),
         Task("differ", "", {DifferCode}, Starts([c : 0..3, s : {0}, i : {3}], Pairs)),
         Task("last", "cell", {LastCellCode}, Starts([a : {0, 7, 9}, c : 0..3, i : {2}], {MemWith(t, 2) : t \in Triples})),
         Task("last", "pair", {LastPairCode}, Starts([c : 0..3, s : {0}, i : {3}], Pairs)),
         Task("increase", "", {IncreaseCode}, Starts([c : 0..3, s : {0}, i : {0, 3}], Pairs)),
         Task("translate", "", {TranslateCode},
              Starts([c : 0..2, s : {0}, i : {0, 2}, b : {4}],
                     {[j \in Cells |-> IF j < 2 THEN v[j] ELSE 20 + j] : v \in [0..1 -> 0..2]}))}
  \union UNION {Task("compare cells", cond, {CompareCode(cond)}, Starts([c : 0..3, s : {0}, i : {3}], Pairs)) :
                  cond \in {"jb", "je"}}
  \* A table that leaves memory
  \union Task("translate out", "", {TranslateCode}, Starts([c : {1}, b : {MemTop}], {[j \in Cells |-> 1]}))

BitTasks ==
  UNION {Task("count bits", "", {CountBitsCode("bsf"), CountBitsCode("bsr")}, OnPairs({"a"})),
         Task("reverse bits", "", {ReverseCode}, {Start([s.regs EXCEPT !["c"] = Bits], ZeroMem, FALSE) : s \in OnPairs({"a"})}),
         Task("set", "", {SetCode("bts")}, Starts([c : {3}], {MemWith(t, 0) : t \in {1, 7, 9, 255} \X {0, 7, 8} \X {1, 15, 31}})),
         Task("toggle", "", {SetCode("btc")}, Starts([c : {3}], {MemWith(t, 0) : t \in {1, 7, 9, 255} \X {0, 7, 8} \X {1, 15, 31}}))}

\* Cells that address themselves, another cell, or none
Own == {MemWith(t, 2) : t \in Triples \union {<<2, 4, 3>>, <<6, 255, 7>>}}
OwnStarts == Starts([i : {2, 3, 4}], Own)

ExchangeTasks ==
  UNION {Task("insert", "", {InsertCode}, Starts([c : 1..3, a : {5}], {MemWith(t, 0) : t \in Triples})),
         Task("series", "", {SeriesCode}, Starts([c : 1..13, a : {1, 200}, b : {0, 1}], {ZeroMem})),
         Task("running", "", {RunningCode}, Starts([c : 1..5, b : {0, 1}], {MemWith(t, 0) : t \in Triples})),
         Task("update", "", {UpdateCode}, Starts([a : {0, 1, 7, 255}], {MemWith(t, 0) : t \in Triples \union {<<255, 0, 0>>}})),
         \* Operands addressed by what they exchange; the first to be stored
         Task("exchange own", "xchg register", {ExchangeOwnCode("xchg", I, At("i"))}, OwnStarts),
         Task("exchange own", "xchg cell", {ExchangeOwnCode("xchg", At("i"), I)}, OwnStarts),
         Task("exchange own", "xadd register", {ExchangeOwnCode("xadd", At("i"), I)}, OwnStarts),
         Task("exchange own", "xadd cell", {ExchangeOwnCode("xadd", I, At("i"))}, OwnStarts),
         Task("update own", "", {UpdateOwnCode}, Starts([a : Cells, b : {200}], Own))}
-----------------------------------------------------------------------------
Reals(t) == [j \in Cells |-> IF j < 3 THEN t[j + 1] ELSE Whole(0)]
FloatStart(m, t) == [Start(Count(0), m, FALSE) EXCEPT !.reals = Reals(t)]

\* Numbers of which no two sums, differences, products or quotients are alike
Operands == {<<Whole(3), Real(-1, 2), Real(5, 4)>>, <<Real(-7, 3), Whole(2), Whole(-5)>>}
OnReals(ts) == {FloatStart(ZeroMem, t) : t \in ts}
On2(xs, ys) == {FloatStart(ZeroMem, <<x, y, Whole(0)>>) : x \in xs, y \in ys}
Comparable == {Whole(0), Whole(1), Real(1, 2), Whole(-1), NaN}

\* Cells: two words, a control word that rounds in one of the modes, a divisor
OnWords(words, divisors) ==
  {FloatStart([j \in Cells |-> CASE j = 0 -> w[1] [] j = 1 -> w[2] [] j = 2 -> 127
                                   [] j = 3 -> 3 + 4 * mode [] j = 4 -> d [] OTHER -> 0],
              <<Whole(0), Whole(0), Whole(0)>>) : w \in words \X words, mode \in 0..3, d \in divisors}

FloatTasks ==
  UNION {Task("left deep", <<op1, op2>>, {LeftDeep(f1, f2, op1, op2) : f1 \in Forms, f2 \in Forms}, OnReals(Operands)) :
           op1 \in Operations, op2 \in Operations}
  \union UNION {Task("right deep", <<op1, op2>>, {RightDeep(f1, f2, op1, op2) : f1 \in Forms, f2 \in Forms}, OnReals(Operands)) :
           op1 \in Operations, op2 \in Operations}
  \union UNION {Task("pile", n, {PileCode(n)}, OnReals({CHOOSE t \in Operands : TRUE})) : n \in 1..9}
  \union UNION {Task("drain", "", {DrainCode}, OnReals(Operands)),
                Task("turn", "", {TurnCode, NameCode}, OnReals(Operands)),
                Task("mean", "", {MeanCode}, OnWords({0, 1, 2, 5, 127, 128, 251, 255}, {2, 3})),
                Task("truncate", "", {TruncateCode}, {s \in OnWords(Boundary, {2, 3}) : s.mem[1] = 0 /\ s.mem[3] = 3}),
                Task("scale", "", {ScaleCode}, On2({Whole(3), Real(-5, 4)}, {Whole(-2), Whole(0), Whole(3)})),
                Task("rebuild", "", {RebuildCode}, On2({Whole(3), Real(-5, 4), Whole(1), Real(1, 8)}, {Whole(0)}))}
  \union UNION {Task("remainder", op, {RemainderCode(op)},
                     On2({Whole(7), Whole(-7), Real(5, 2), Whole(3)}, {Whole(2), Whole(-3), Real(1, 2)})) :
                  op \in {"fprem", "fprem1"}}

FloatCompareTasks ==
  UNION {Task("compare floats", cond, {CompareFloatsCode(c, cond) : c \in ComparingCodes}, On2(Comparable, Comparable)) :
           cond \in FloatRelations}
  \union Task("greatest", "", {GreatestCode}, OnReals({<<x, y, z>> : x \in Comparable \ {NaN}, y \in Comparable \ {NaN}, z \in Comparable \ {NaN}}))

-----------------------------------------------------------------------------
\* Lines typed: none, a number, one below 0, one only unsigned bytes hold, one
\* only hexadecimal digits write, two in a line, words, one with a Return
TypedLines == {<< >>, <<55>>, <<45, 51>>, <<50, 48, 48>>, <<49, 102>>, <<49, 32, 50>>, <<120>>, <<120, 121, 32, 122>>, <<49, 13>>}
NL == <<Newline>>

\* Up to two lines, the last with its newline or without
Texts == {<< >>} \union TypedLines \union {l \o NL : l \in TypedLines}
         \union {l \o NL \o m : l \in TypedLines, m \in TypedLines \ {<< >>}}
         \union {l \o NL \o m \o NL : l \in TypedLines, m \in {<< >>, <<55>>, <<120>>}}

\* Only the calls that look at the input without waiting care whether they can.
OnTexts(rs, ways) ==
  {[Start(Given2(r), [j \in Cells |-> 9], FALSE) EXCEPT !.stdin = t, !.peekable = p] :
     r \in rs, t \in Texts, p \in ways}
Plainly == [c : {0}]

ConsoleTasks ==
  UNION {Task("ask", "", {AskCode}, OnTexts(Plainly, {TRUE})),
         Task("strings", "", {StringsCode}, OnTexts([c : {0, 1, 3}, d : {0}], {TRUE}) \union OnTexts([c : {3}, d : {4}], {TRUE})),
         Task("choice", "", {ChoiceCode}, OnTexts([c : {4}, d : {0}], {TRUE})),
         Task("length", "", {LengthCode}, OnTexts(Plainly, {TRUE})),
         Task("keys", "", {KeysCode}, OnTexts(Plainly, BOOLEAN)),
         Task("records", "", {RecordsCode}, OnTexts(Plainly, BOOLEAN)),
         Task("flush", "", {FlushCode("readkeyflush"), FlushCode("flushconsoleinputbuffer")},
              OnTexts([c : {4}, d : {0}], BOOLEAN)),
         Task("pause", "", {PauseCode}, OnTexts(Plainly, {TRUE})),
         Task("records out", "", {<<Op("readconsoleinput", <<Mem(MemTop + 1), Mem(0)>>)>>}, OnTexts(Plainly, {TRUE}))}
  \union UNION {Task("numbers", op, {NumbersCode(op)}, OnTexts([c : {1, 3}], {TRUE})) :
                  op \in {"readint", "readdec", "readhex"}}
  \union UNION {Task("console", n, {ConsoleCode(n)}, OnTexts(Plainly, {TRUE})) : n \in {0, 2, 4, 6}}
  \union UNION {Task("scan", verb, {ScanCode(verb)}, OnTexts(Plainly, {TRUE})) : verb \in {"%d", "%u", "%x"}}
  \union UNION {Task("scan words", verb, {ScanCode(verb)}, OnTexts(Plainly, {TRUE})) : verb \in {"%c", "%s"}}

AllTasks == UNION {SumTasks, ShiftTasks, DivisionTasks, ComparisonTasks, DecimalTasks,
                   StringTasks, BitTasks, ExchangeTasks, FloatTasks, FloatCompareTasks, ConsoleTasks}
=============================================================================
