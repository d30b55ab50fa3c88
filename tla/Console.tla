------------------------------ MODULE Console ------------------------------
(***************************************************************************)
(* The calls of vm/machine.go that read the console: Irvine's by the line,  *)
(* by the character and by the key, C's scanf, and the Win32 ones, all on   *)
(* one buffered reader.  Where the input is peekable all of it is there at  *)
(* once; else nobody can tell whether there is more without waiting.        *)
(*                                                                          *)
(* A byte has a cell of memory and so has a count; of an input record only  *)
(* the character is modelled.  "a" is EAX and "d" is EDX, and EAX is a byte *)
(* before a character is read into AL.                                      *)
(***************************************************************************)
EXTENDS Arith

Newline == 10
Return == 13
Spaces == 9..13 \union {32}

Called(ops) == Running /\ Inst.op \in ops

\* cond names the directive all the arguments of a scanf have.
Scanf(verb, args) == Instruction("scanf", args, verb, 0)
-----------------------------------------------------------------------------
(***************************************************************************)
(* Text                                                                     *)
(***************************************************************************)
\* strings.TrimRight and strings.TrimSpace
TrimRight(text, cut) == SubSeq(text, 1, Max({0} \union {k \in DOMAIN text : text[k] \notin cut}))

TrimSpace(text) == LET solid == {k \in DOMAIN text : text[k] \notin Spaces}
                   IN  IF solid = {} THEN << >> ELSE SubSeq(text, Min(solid), Max(solid))

\* The number of bytes up to a newline, that one included, or of all there are
UpToNewline(text) == Min({Len(text)} \union {k \in DOMAIN text : text[k] = Newline})

\* Mutant of readLine: the newline is left for the next call.
readLineLeaving(text) ==
  LET n == UpToNewline(text)
      kept == IF n > 0 /\ text[n] = Newline THEN n - 1 ELSE n
  IN  [line |-> TrimRight(SubSeq(text, 1, n), {Newline, Return}), rest |-> SubSeq(text, kept + 1, Len(text))]

\* At the end of the input a line is empty, and no error.
readLine(text) ==
  LET n == UpToNewline(text)
  IN  [line |-> TrimRight(SubSeq(text, 1, n), {Newline, Return}), rest |-> SubSeq(text, n + 1, Len(text))]

CharDigit(ch) == CASE ch \in 48..57  -> ch - 48
                 [] ch \in 65..70  -> ch - 55
                 [] ch \in 97..102 -> ch - 87
                 [] OTHER          -> 99

IsDigits(text, base) == text # << >> /\ \A k \in DOMAIN text : CharDigit(text[k]) < base
DigitsValue(text, base) ==
  LET value[k \in 0..Len(text)] == IF k = 0 THEN 0 ELSE value[k - 1] * base + CharDigit(text[k]) IN value[Len(text)]

Parsed(v) == [ok |-> TRUE, value |-> v]
NotParsed == [ok |-> FALSE, value |-> 0]

\* No text at all is 0.
parseUnsignedInput(text, base) ==
  LET t == TrimSpace(text)
  IN  IF t = << >> THEN Parsed(0)
      ELSE IF IsDigits(t, base) /\ DigitsValue(t, base) < Modulus THEN Parsed(DigitsValue(t, base))
      ELSE NotParsed

parseSignedInput(text) ==
  LET t == TrimSpace(text)
      sign == IF t # << >> /\ t[1] = 45 THEN -1 ELSE 1
      digits == IF t # << >> /\ t[1] \in {43, 45} THEN Tail(t) ELSE t
      v == sign * DigitsValue(digits, 10)
  IN  IF t = << >> THEN Parsed(0)
      ELSE IF IsDigits(digits, 10) /\ -Half <= v /\ v < Half THEN Parsed(truncate(v))
      ELSE NotParsed

\* strings.Fields
Fields(text) ==
  LET first == {k \in DOMAIN text : text[k] \notin Spaces /\ (k = 1 \/ text[k - 1] \in Spaces)}
      last(k) == Min({j \in k..Len(text) : j = Len(text) \/ text[j + 1] \in Spaces})
      starts == SetToSortSeq(first, <)
  IN  [n \in DOMAIN starts |-> SubSeq(text, starts[n], last(starts[n]))]
-----------------------------------------------------------------------------
(***************************************************************************)
(* Memory and the ways a call ends                                          *)
(***************************************************************************)
\* Bytes from cell at on, or an error when they do not fit
Fit(at, bytes) == bytes = << >> \/ (at \in Cells /\ at + Len(bytes) - 1 \in Cells)
Written(m, at, bytes) ==
  [j \in Cells |-> IF j \in at..(at + Len(bytes) - 1) THEN bytes[j - at + 1] ELSE m[j]]

WithRegs(new) == [r \in Registers |-> IF r \in DOMAIN new THEN new[r] ELSE regs[r]]

Leave(m, r, f, rest) ==
  /\ mem' = m /\ regs' = r /\ flags' = f /\ stdin' = rest
  /\ Advance /\ UNCHANGED <<df, stack, float, peekable>>
-----------------------------------------------------------------------------
(***************************************************************************)
(* Lines                                                                    *)
(***************************************************************************)
\* Mutant of Answer: a number is told as one that is none.
AnswerStale(parsed, rest) == Leave(mem, WithRegs([a |-> parsed.value]), flags, rest)

\* OF and CF tell that a line was no number.
Answer(parsed, rest) ==
  Leave(mem, WithRegs([a |-> parsed.value]), [flags EXCEPT !.of = ~parsed.ok, !.cf = ~parsed.ok], rest)

\* The line that is read next, and what is left
LineRead == {readLine(stdin)}

\* The first n of the bytes of a text
Cut(text, n) == SubSeq(text, 1, IF Len(text) < n THEN Len(text) ELSE n)

builtinReadInt ==
  /\ Called({"readint", "readdec", "readhex"})
  /\ \E read \in LineRead :
       Answer(CASE Inst.op = "readint" -> parseSignedInput(read.line)
                [] Inst.op = "readdec" -> parseUnsignedInput(read.line, 10)
                [] Inst.op = "readhex" -> parseUnsignedInput(read.line, 16), read.rest)

\* Into ECX bytes at EDX, a 0 after the line; what does not fit is lost.
builtinReadString ==
  /\ Called({"readstring"})
  /\ \E read \in LineRead :
       \E line \in {Cut(read.line, IF regs["c"] > 0 THEN regs["c"] - 1 ELSE 0)} :
         IF Fit(regs["d"], Append(line, 0))
         THEN Leave(Written(mem, regs["d"], Append(line, 0)), WithRegs([a |-> Len(line)]), flags, read.rest)
         ELSE Fails

builtinWaitMsg == Called({"waitmsg"}) /\ Leave(mem, regs, flags, readLine(stdin).rest)

\* A line with its end written out, cut to the capacity; no 0 after it
invokeReadConsole ==
  /\ Called({"readconsole"})
  /\ \E read \in LineRead :
       \E data \in {Cut(read.line \o <<Return, Newline>>, Inst.args[2].n)} :
         LET buffer == resolveAddress(Inst.args[1])
             count == resolveAddress(Inst.args[3])
         IN  IF Fit(buffer, data) /\ count \in Cells
             THEN Leave(Written(Written(mem, buffer, data), count, <<Len(data)>>), WithRegs([a |-> 1]), flags, read.rest)
             ELSE Fails

Scanned(verb, token) ==
  CASE verb = "%d" -> parseSignedInput(token)
    [] verb = "%u" -> parseUnsignedInput(token, 10)
    [] verb = "%x" -> parseUnsignedInput(token, 16)
    [] verb = "%c" -> Parsed(token[1])
    [] verb = "%s" -> Parsed(0)

\* What the directives take of the tokens, one each, until there is none or one
\* that is no number.
StoredBy(verb, tokens, directives) ==
  LET usable == Cut(tokens, directives)
      n == Min({Len(usable)} \union {k - 1 : k \in {j \in DOMAIN usable : ~Scanned(verb, usable[j]).ok}})
  IN  [k \in 1..n |-> IF verb = "%s" THEN Append(tokens[k], 0) ELSE <<Scanned(verb, tokens[k]).value>>]

\* One line for one call; EAX counts the directives stored.
scanfWithReader ==
  /\ Called({"scanf"})
  /\ \E read \in LineRead :
       \E values \in {StoredBy(Inst.cond, Fields(read.line), Len(Inst.args))} :
         LET at(k) == resolveAddress(Inst.args[k])
             after[n \in 0..Len(values)] == IF n = 0 THEN mem ELSE Written(after[n - 1], at(n), values[n])
         IN  IF \A k \in DOMAIN values : Fit(at(k), values[k])
             THEN Leave(after[Len(values)], WithRegs([a |-> Len(values)]), flags, read.rest)
             ELSE Fails
-----------------------------------------------------------------------------
(***************************************************************************)
(* Characters and keys                                                      *)
(***************************************************************************)
\* The one call that ends the program at the end of the input
builtinReadChar ==
  /\ Called({"readchar"})
  /\ IF stdin = << >> THEN Fails
     ELSE Leave(mem, WithRegs([a |-> Head(stdin)]), flags, Tail(stdin))

Key(ch, rest) ==
  Leave(mem, WithRegs([a |-> ch, d |-> ch, b |-> 0]), [flags EXCEPT !.zf = FALSE], rest)
NoKey(rest) == Leave(mem, WithRegs([a |-> 0, d |-> 0, b |-> 0]), [flags EXCEPT !.zf = TRUE], rest)

\* Where nobody can tell whether a key was pressed, a line is awaited and its first
\* byte is the key.
builtinReadKey ==
  /\ Called({"readkey"})
  /\ \E read \in LineRead :
         IF peekable THEN IF stdin = << >> THEN NoKey(stdin) ELSE Key(Head(stdin), Tail(stdin))
         ELSE IF read.line = << >> THEN NoKey(read.rest) ELSE Key(read.line[1], read.rest)

\* ReadKeyFlush and FlushConsoleInputBuffer
flush == /\ Called({"readkeyflush", "flushconsoleinputbuffer"})
         /\ Leave(mem, IF Inst.op = "readkeyflush" THEN regs ELSE WithRegs([a |-> 1]), flags,
                  IF peekable THEN << >> ELSE stdin)

\* Mutant of invokeConsoleInputRecord: looking takes the character too.
recordTaken ==
  /\ Called({"peekconsoleinput", "readconsoleinput"})
  /\ LET n == IF stdin = << >> THEN 0 ELSE 1      \* records
     IN  Leave(Written(Written(mem, resolveAddress(Inst.args[1]), SubSeq(stdin, 1, n)), resolveAddress(Inst.args[2]), <<n>>),
               WithRegs([a |-> 1]), flags, SubSeq(stdin, n + 1, Len(stdin)))

\* PeekConsoleInput and ReadConsoleInput: one record, or none
invokeConsoleInputRecord ==
  /\ Called({"peekconsoleinput", "readconsoleinput"})
  /\ LET n == IF stdin = << >> THEN 0 ELSE 1      \* records
         record == resolveAddress(Inst.args[1])
         count == resolveAddress(Inst.args[2])
     IN  IF count \in Cells /\ Fit(record, SubSeq(stdin, 1, n))
         THEN Leave(Written(Written(mem, record, SubSeq(stdin, 1, n)), count, <<n>>), WithRegs([a |-> 1]), flags,
                    IF Inst.op = "readconsoleinput" THEN SubSeq(stdin, n + 1, Len(stdin)) ELSE stdin)
         ELSE Fails

invokeGetNumberOfConsoleInputEvents ==
  /\ Called({"getnumberofconsoleinputevents"})
  /\ LET count == resolveAddress(Inst.args[1])
     IN  IF count \in Cells
         THEN Leave(Written(mem, count, <<IF stdin = << >> THEN 0 ELSE 1>>), WithRegs([a |-> 1]), flags, stdin)
         ELSE Fails

ConsoleStep == \/ builtinReadInt \/ builtinReadString \/ builtinWaitMsg \/ invokeReadConsole \/ scanfWithReader
               \/ builtinReadChar \/ builtinReadKey \/ flush
               \/ invokeConsoleInputRecord \/ invokeGetNumberOfConsoleInputEvents
=============================================================================
