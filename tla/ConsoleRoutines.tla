-------------------------- MODULE ConsoleRoutines --------------------------
(***************************************************************************)
(* Programs that read what was typed, mixing the calls that read it: what   *)
(* each takes of the input, and what it leaves for the next.  The text is   *)
(* split into lines here by its newlines alone, all of it at once.          *)
(***************************************************************************)
EXTENDS FloatRoutines

Ask(op) == Op(op, << >>)
ReadString == Ask("readstring")
ReadInt == Ask("readint")
Cell(n) == Mem(n)

\* Ask until a number is typed.
AskCode == <<ReadInt, Jcc("jo", 1)>>
\* c numbers into the cells from i
NumbersCode(op) == <<Ask(op), Op("mov", <<X, A>>), Op("inc", <<I>>), Loop("loop", 1)>>
\* Two strings of c cells, the second after the first; b is the length of the first.
StringsCode == <<ReadString, Op("mov", <<B, A>>), Op("add", <<D, C>>), ReadString>>
\* A choice by a character, then a string
ChoiceCode == <<Ask("readchar"), Op("mov", <<B, A>>), ReadString>>
\* b := the characters of a line, with its newline
LengthCode == <<Ask("readchar"), Op("inc", <<B>>), Op("cmp", <<A, Imm(Newline)>>), Jcc("jne", 1)>>
\* Keys into the cells from i, until there is none
KeysCode == <<Ask("readkey"), Jcc("je", 6), Op("mov", <<X, A>>), Op("inc", <<I>>), Jcc("jmp", 1)>>
\* How many records there are; the next one; the next one again, taken
RecordsCode == <<Op("getnumberofconsoleinputevents", <<Cell(0)>>),
                 Op("peekconsoleinput", <<Cell(1), Cell(2)>>), Op("readconsoleinput", <<Cell(3), Cell(4)>>)>>
FlushCode(op) == <<Ask(op), ReadString>>
ConsoleCode(n) == <<Op("readconsole", <<Cell(0), Imm(n), Cell(6)>>), ReadInt>>
ScanCode(verb) == <<Scanf(verb, <<Cell(0), Cell(3)>>), Op("mov", <<B, A>>), ReadInt>>
PauseCode == <<Ask("waitmsg"), ReadInt>>
-----------------------------------------------------------------------------
typed == start.stdin
newlines == {k \in DOMAIN typed : typed[k] = Newline}
\* The line a byte belongs to, its newline the last of it
LineAt(k) == 1 + Cardinality({j \in newlines : j < k})
After(n) == SubSeq(typed, 1 + Cardinality({k \in DOMAIN typed : LineAt(k) <= n}), Len(typed))
\* Line n from byte k on, without what ends it; a Return is nowhere else.
LineFrom(n, k) == SelectSeq(SubSeq(typed, k, Cardinality({j \in DOMAIN typed : LineAt(j) <= n})),
                            LAMBDA ch : ch \notin {Newline, Return})
LineOf(n) == LineFrom(n, 1 + Cardinality({k \in DOMAIN typed : LineAt(k) < n}))
\* One line more than can have bytes
lineNumbers == 1..(Cardinality(newlines) + 2)

\* What a call makes of a text, alone
Number1(op, text) == CASE op \in {"readint", "%d"} -> parseSignedInput(text)
                       [] op \in {"readdec", "%u"} -> parseUnsignedInput(text, 10)
                       [] op \in {"readhex", "%x"} -> parseUnsignedInput(text, 16)
IsNumber(op, text) == Number1(op, text).ok
Told(op, text) == Number1(op, text).value

\* At cell x the text, cut to n cells with the 0 after it
Holds0(x, text, n) == LET bytes == Append(Cut(text, IF n > 0 THEN n - 1 ELSE 0), 0)
                      IN  Block(mem, x, Len(bytes)) = bytes

\* The keys of a console that waits for lines: their first bytes, to an empty one
FirstBytes ==
  LET empty == CHOOSE j \in lineNumbers :
                 LineOf(j) = << >> /\ \A k \in 1..(j - 1) : LineOf(k) # << >>
  IN  [j \in 1..(empty - 1) |-> LineOf(j)[1]]

\* Whatever call reads first, the next goes on exactly where it stopped: one that
\* reads lines takes one line with its end and loses what it has no room or no
\* directive for; one that reads characters leaves the end of the line, so that a
\* string read next is the rest of it, and may be empty; a record looked at is
\* still there.  A line that is no number is told as such, so that asking again
\* ends with the first number, an empty line being 0, the end of the input too.
\* Strings stay in the cells they were given, but for the 0 of one of no cells
\* (readLine, builtinReadString, builtinReadKey, scanfWithReader,
\* invokeConsoleInputRecord).
ConsoleReads ==
  LET x == start.regs["d"]
      n == count
      \* the lines up to the j-th are read, and no more
      LeftAfter(j) == stdin = After(j)
      Rest == SubSeq(typed, 2, Len(typed))
  IN  /\ Ended("ask") =>
           \E j \in lineNumbers :
             /\ IsNumber("readint", LineOf(j)) /\ \A k \in 1..(j - 1) : ~IsNumber("readint", LineOf(k))
             /\ regs["a"] = Told("readint", LineOf(j)) /\ LeftAfter(j)
      /\ Ended("numbers") =>
           /\ \A j \in 1..n : mem[j - 1] = Told(name[2], LineOf(j))
           /\ flags.cf = ~IsNumber(name[2], LineOf(n)) /\ LeftAfter(n)
      /\ Ended("strings") =>
           /\ Holds0(x + n, LineOf(2), n)
           /\ n > 0 => Holds0(x, LineOf(1), n)
           /\ regs["b"] = Len(Cut(LineOf(1), IF n > 0 THEN n - 1 ELSE 0))
           /\ Elsewhere(x, IF n = 0 THEN 1 ELSE 2 * n) /\ LeftAfter(2)
      /\ Ended("choice") =>
           /\ regs["b"] = typed[1]
           /\ LET j == LineAt(2) IN Holds0(x, LineFrom(j, 2), n) /\ LeftAfter(j)
      /\ name[1] = "length" /\ status # "running" =>
           /\ (status = "ended") = (newlines # {})
           /\ status = "ended" => regs["b"] = Min(newlines) /\ LeftAfter(1)
      /\ Ended("keys") => Block(mem, 0, regs["i"]) = (IF peekable THEN typed ELSE FirstBytes)
      /\ Ended("records") =>
           IF typed = << >> THEN mem[0] = 0 /\ mem[2] = 0 /\ mem[4] = 0
           ELSE mem[0] = 1 /\ mem[2] = 1 /\ mem[4] = 1 /\ mem[1] = typed[1] /\ mem[3] = typed[1] /\ stdin = Rest
      /\ Ended("flush") => IF peekable THEN Holds0(x, << >>, n) ELSE Holds0(x, LineOf(1), n) /\ LeftAfter(1)
      /\ Ended("console") =>
           LET data == Cut(LineOf(1) \o <<Return, Newline>>, name[2])
           IN  /\ Block(mem, 0, mem[6]) = data /\ \A j \in Len(data)..5 : mem[j] = start.mem[j]
               /\ regs["a"] = Told("readint", LineOf(2)) /\ LeftAfter(2)
      /\ Ended("scan") =>
           LET tokens == Fields(LineOf(1))
               good(k) == k <= Len(tokens) /\ IsNumber(name[2], tokens[k])
           IN  /\ regs["b"] = (IF good(1) THEN IF good(2) THEN 2 ELSE 1 ELSE 0)
               /\ good(1) => mem[0] = Told(name[2], tokens[1])
               /\ good(1) /\ good(2) => mem[3] = Told(name[2], tokens[2])
               /\ regs["a"] = Told("readint", LineOf(2)) /\ LeftAfter(2)
      /\ Ended("scan words") =>
           LET tokens == Fields(LineOf(1))
           IN  /\ \A k \in 1..2 : k <= Len(tokens) => mem[3 * (k - 1)] = tokens[k][1]
               /\ name[2] = "%s" => \A k \in 1..2 : k <= Len(tokens) => Holds0(3 * (k - 1), tokens[k], Len(tokens[k]) + 1)
               /\ LeftAfter(2)
      /\ Ended("pause") => regs["a"] = Told("readint", LineOf(2)) /\ LeftAfter(2)
=============================================================================
