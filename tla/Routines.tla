------------------------------ MODULE Routines ------------------------------
(***************************************************************************)
(* Idioms of strings, bits, exchanges and floating point: blocks moved,     *)
(* searched and compared; bits found and counted; a cell updated or a row   *)
(* shifted by exchanging; expressions on the floating point stack, and the  *)
(* way their comparisons take to the jumps.                                 *)
(***************************************************************************)
EXTENDS Idioms

\* The cells of m from cell x on
Block(m, x, n) == [j \in 1..n |-> m[x + j - 1]]
from == start.regs["s"]
to == start.regs["i"]
-----------------------------------------------------------------------------
(***************************************************************************)
(* Blocks of c cells, at s and at i                                         *)
(***************************************************************************)
\* Downwards when the destination lies above the source, as memmove does; the
\* direction is put back.
MoveCode == <<Op("cmp", <<S, I>>), Jcc("jae", 8),
              Op("add", <<S, C>>), Op("dec", <<S>>), Op("add", <<I, C>>), Op("dec", <<I>>), Op("std", << >>),
              String("rep", "movs"), Op("cld", << >>)>>

\* Always downwards, the direction saved and put back with the flags
MoveDownCode == <<Op("pushfd", << >>), Op("add", <<S, C>>), Op("dec", <<S>>), Op("add", <<I, C>>),
                  Op("dec", <<I>>), Op("std", << >>), String("rep", "movs"), Op("popfd", << >>)>>

CopyUpCode == <<String("rep", "movs")>>
FillCode == <<String("rep", "stos")>>
\* d := whether a cell is a, or is not; what comes before makes 0 cells tell no.
SearchCode == <<Op("or", <<D, One>>), String("repne", "scas"), Set("je", D)>>
SkipCode == <<Op("cmp", <<A, A>>), String("repe", "scas"), Set("jne", D)>>
\* The comparison before makes two blocks of no cells alike.
CompareCode(cond) == <<Op("cmp", <<A, A>>), String("repe", "cmps"), Op("mov", <<D, One>>),
                       Jcc(cond, 6), Op("mov", <<D, Imm(0)>>)>>
DifferCode == <<Op("or", <<A, One>>), String("repne", "cmps"), Set("je", D)>>
MapCode(change) == <<Loop("jecxz", 6), String("jmp", "lods"), change, String("jmp", "stos"), Loop("loop", 2)>>
\* With rep alone every cell is compared, and d tells of the last comparison only.
LastCellCode == <<Op("or", <<D, One>>), String("rep", "scas"), Set("je", D)>>
LastPairCode == <<Op("or", <<A, One>>), String("rep", "cmps"), Set("je", D)>>
\* Add one to each cell; look each cell up in the table at b
IncreaseCode == MapCode(Op("add", <<A, One>>))
TranslateCode == MapCode(Op("xlat", << >>))

InMemory(x, n) == n = 0 \/ (x \in Cells /\ x + n - 1 \in Cells)
Elsewhere(x, n) == \A j \in Cells \ (x..(x + n - 1)) : mem[j] = start.mem[j]

\* The first n at which block l and block r of n cells differ, or n + 1
FirstOther(l, r) == CHOOSE k \in 1..(Len(l) + 1) :
                      /\ k <= Len(l) => l[k] # r[k]
                      /\ \A j \in 1..(k - 1) : l[j] = r[j]

LessBlock(l, r) == LET k == FirstOther(l, r) IN k <= Len(l) /\ l[k] < r[k]

\* A block comes out whole wherever it is moved to, its source overlapped or not,
\* and direction and count are left as they were promised; copied upwards over
\* itself it repeats its first cells; searches stop one past the first match, with
\* the cells not looked at in ECX, and say whether they found it; comparisons
\* order blocks by their first difference, blocks of no cells included; with rep
\* alone no comparison ends the repetition and the last one is told
\* (execRepeatString, advanceStringRegs).  A program ends with an error only when
\* a block leaves memory, and then what lay before the end has been moved.
StringsMove ==
  LET n == count
      source == Block(start.mem, from, n)
      target == Block(start.mem, to, n)
      value == start.regs["a"]
      \* where the search stops: the first cell that is value, or is not
      Stop(wanted) == CHOOSE k \in 1..(n + 1) :
                        /\ k <= n => (target[k] = value) = wanted
                        /\ \A j \in 1..(k - 1) : (target[j] = value) # wanted
      Searched(wanted) ==
        LET k == Stop(wanted)
        IN  IF k > n THEN regs["d"] = 0 /\ regs["c"] = 0
            ELSE regs["d"] = 1 /\ regs["c"] = n - k /\ regs["i"] = to + k
  IN  /\ Ended("move") => Block(mem, to, n) = source /\ Elsewhere(to, n) /\ ~df /\ regs["c"] = 0
      /\ Ended("copy up") =>
           /\ \A j \in 1..n : LET back == to - from
                              IN  mem[to + j - 1] = IF back > 0 /\ j > back THEN mem[to + j - 1 - back] ELSE source[j]
           /\ Elsewhere(to, n)
      /\ Ended("fill") => (\A j \in 1..n : mem[to + j - 1] = value) /\ Elsewhere(to, n)
      /\ Ended("search cells") => Searched(TRUE) /\ mem = start.mem
      /\ Ended("skip cells") => Searched(FALSE) /\ mem = start.mem
      /\ Ended("compare cells") => (regs["d"] = 1) = (IF name[2] = "jb" THEN LessBlock(source, target) ELSE source = target)
      /\ Ended("differ") => (regs["d"] = 1) = (\E j \in 1..n : source[j] = target[j])
      /\ Ended("last") =>
           /\ regs["c"] = 0 /\ regs["i"] = to + n
           /\ (regs["d"] = 1) = (n > 0 /\ target[n] = IF name[2] = "cell" THEN value ELSE source[n])
      /\ Ended("increase") => \A j \in 1..n : mem[to + j - 1] = truncate(source[j] + 1)
      /\ Ended("translate") => \A j \in 1..n : mem[to + j - 1] = start.mem[start.regs["b"] + source[j]]
      /\ name[1] \in {"copy up", "fill"} /\ status # "running" =>
           (status = "fault") = ~(InMemory(to, n) /\ (name[1] = "fill" \/ InMemory(from, n)))
      /\ name[1] = "fill" /\ status = "fault" => \A j \in to..MemTop : mem[j] = value
-----------------------------------------------------------------------------
(***************************************************************************)
(* Bits                                                                     *)
(***************************************************************************)
\* d := the number of bits of a, which it clears from one end
CountBitsCode(scan) == <<Op(scan, <<C, A>>), Jcc("je", 6), Op("btr", <<A, C>>), Op("inc", <<D>>), Jcc("jmp", 1)>>
\* b := a read from its other end
ReverseCode == <<Op("bt", <<A, I>>), Op("rcl", <<B, One>>), Op("inc", <<I>>), Loop("loop", 1)>>
\* d := the set of the numbers in the c cells from i, and how many are there twice
SetCode(op) == <<Op("mov", <<A, X>>), Op(op, <<D, A>>), Op("adc", <<B, Imm(0)>>), Op("inc", <<I>>), Loop("loop", 1)>>

Reversed(v) == MapThenSumSet(LAMBDA k : 2^(Bits - 1 - k), BitsOf(v))
Members(m, n) == {m[j] % Bits : j \in 0..(n - 1)}

\* Bits are found from either end, each one once, until there are none; a word
\* read bit by bit into the carry comes out reversed; sets kept in a word hold
\* what was put in, at indexes past the word too, and tell what was in before
\* (execBitTest, execBSF, execBSR).
BitsFound ==
  LET a == start.regs["a"]
  IN  /\ Ended("count bits") => regs["d"] = Cardinality(BitsOf(a)) /\ regs["a"] = 0
      /\ Ended("reverse bits") => regs["b"] = Reversed(a) /\ regs["a"] = a
      /\ Ended("set") => /\ BitsOf(regs["d"]) = Members(mem, count)
                         /\ regs["b"] = count - Cardinality(Members(mem, count))
      /\ Ended("toggle") =>
           BitsOf(regs["d"]) = {k \in Members(mem, count) :
                                  Cardinality({j \in 0..(count - 1) : mem[j] % Bits = k}) % 2 = 1}
-----------------------------------------------------------------------------
(***************************************************************************)
(* Exchanges                                                                *)
(***************************************************************************)
\* One exchange of i with the cell it addresses, or of a with the one a addresses
ExchangeOwnCode(op, x, y) == <<Op(op, <<x, y>>)>>
UpdateOwnCode == <<Op("cmpxchg", <<At("a"), B>>)>>

\* The cells from i moved up by one, a put in front; a := the last of them
InsertCode == <<Op("xchg", <<A, X>>), Op("inc", <<I>>), Loop("loop", 1)>>
\* (a, b) := (a + b, a), c times, and in a cell
SeriesCode == <<Op("xadd", <<A, B>>), Loop("loop", 1)>>
RunningCode == <<Op("xadd", <<X, B>>), Loop("loop", 1)>>
\* The cell grows by one whatever a guessed.
UpdateCode == <<Op("mov", <<B, A>>), Op("inc", <<B>>), Op("cmpxchg", <<X, B>>), Jcc("jne", 1)>>

SeriesOf(x, y) ==
  LET term[n \in Nat] == IF n = 0 THEN y ELSE IF n = 1 THEN x ELSE term[n - 1] + term[n - 2] IN term

\* Exchanging through a register moves a row up by a cell and loses none; xadd
\* leaves the sum and what was added to, so that repeated it makes the sums of
\* the two before; cmpxchg that was refused has told the value to try next, so
\* an update is made once whatever was guessed.  A cell addressed by the register
\* it is exchanged with is the one addressed before, if the cell is stored first;
\* where the register is, it is the one the register then addresses: an error, the
\* register changed, if that is not in memory (execXchg, execXADD, execCMPXCHG).
ExchangesKeep ==
  LET s == start.regs
      at == s["i"]
      v == start.mem[at]
      Left(r, f) == regs = [s EXCEPT !["i"] = truncate(r)] /\ mem = f
  IN  /\ Ended("insert") => Append(Block(mem, 0, count), regs["a"]) = <<s["a"]>> \o Block(start.mem, 0, count)
      /\ Ended("series") => /\ regs["a"] = truncate(SeriesOf(s["a"], s["b"])[count + 1])
                            /\ regs["b"] = truncate(SeriesOf(s["a"], s["b"])[count])
      /\ Ended("running") => /\ mem[0] = truncate(SeriesOf(start.mem[0], s["b"])[count + 1])
                             /\ regs["b"] = truncate(SeriesOf(start.mem[0], s["b"])[count])
      /\ Ended("update") => /\ mem[0] = truncate(start.mem[0] + 1) /\ regs["a"] = start.mem[0]
                            /\ \A j \in Cells \ {0} : mem[j] = start.mem[j]
      /\ Ended("exchange own") =>
           CASE name[2] = "xchg cell" -> Left(v, [start.mem EXCEPT ![at] = at])
             [] name[2] = "xadd cell" -> Left(at + v, [start.mem EXCEPT ![at] = at])
             [] name[2] = "xchg register" -> Left(v, [start.mem EXCEPT ![v] = at])
             [] name[2] = "xadd register" -> Left(v, [start.mem EXCEPT ![v] = truncate(at + v)])
      /\ name[1] = "exchange own" /\ status # "running" =>
           (status = "fault") = (name[2] \in {"xchg register", "xadd register"} /\ v \notin Cells)
      /\ name[1] = "exchange own" /\ status = "fault" => Left(v, start.mem)
      /\ Ended("update own") =>
           LET w == start.mem[s["a"]]
           IN  IF w = s["a"] THEN regs = s /\ mem = [start.mem EXCEPT ![w] = s["b"]]
               ELSE regs = [s EXCEPT !["a"] = w] /\ mem = start.mem
=============================================================================
