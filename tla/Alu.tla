-------------------------------- MODULE Alu --------------------------------
(***************************************************************************)
(* The arithmetic of the machine (vm/machine.go): what an instruction       *)
(* computes from its operands and the flags, and what the conditional jumps *)
(* read.  Words are Bits wide; the code has one branch per width of 8, 16   *)
(* and 32 bits, which do the same.                                          *)
(*                                                                          *)
(* The parity flag is left out: no jump and no arithmetic reads it.         *)
(***************************************************************************)
EXTENDS Integers

CONSTANTS Bits,     \* bits of a word
          Half,     \* the weight of its sign bit
          Nibble    \* the weight of the bit AF looks at: 16

ASSUME WordAssumption ==
  /\ Bits \in Nat \ {0} /\ Half \in Nat \ {0} /\ Nibble \in Nat \ {0}
  /\ Half = 2^(Bits - 1)

Modulus == 2 * Half
Words == 0..(Modulus - 1)

truncate(n) == n % Modulus
signBit(v) == v >= Half
signExtend(v) == IF signBit(v) THEN v - Modulus ELSE v

Bit(v, weight) == (v \div weight) % 2

FlagSet == [zf : BOOLEAN, sf : BOOLEAN, cf : BOOLEAN, of : BOOLEAN, af : BOOLEAN]

\* What an instruction leaves in its destination and in the flags.
Outcome(value, flags) == [value |-> value, flags |-> flags]

b2i(b) == IF b THEN 1 ELSE 0
-----------------------------------------------------------------------------
(***************************************************************************)
(* Addition and subtraction                                                 *)
(***************************************************************************)
HalfCarry(l, r, result) == (Bit(l, Nibble) + Bit(r, Nibble) + Bit(result, Nibble)) % 2 = 1

updateAddFlags(l, r, result) ==
  [zf |-> result = 0,
   sf |-> signBit(result),
   cf |-> l + r >= Modulus,
   of |-> signBit(l) = signBit(r) /\ signBit(l) # signBit(result),
   af |-> HalfCarry(l, r, result)]

updateSubFlags(l, r, result) ==
  [zf |-> result = 0,
   sf |-> signBit(result),
   cf |-> l < r,
   of |-> signBit(l) # signBit(r) /\ signBit(l) # signBit(result),
   af |-> HalfCarry(l, r, result)]

add(l, r) == Outcome(truncate(l + r), updateAddFlags(l, r, truncate(l + r)))
sub(l, r) == Outcome(truncate(l - r), updateSubFlags(l, r, truncate(l - r)))

\* The carry is added to r first, and the flags but CF are those of l and that sum.
adc(l, r, f) ==
  LET addend == truncate(r + b2i(f.cf))
      result == truncate(l + r + b2i(f.cf))
  IN  Outcome(result, [updateAddFlags(l, addend, result) EXCEPT !.cf = l + r + b2i(f.cf) >= Modulus])

\* Mutant of sbb: the carry out is that of l less the sum of the others.
sbbCarryOfSum(l, r, f) == sub(l, truncate(r + b2i(f.cf)))

sbb(l, r, f) ==
  LET subtrahend == truncate(r + b2i(f.cf))
      result == truncate(l - subtrahend)
  IN  Outcome(result, [updateSubFlags(l, subtrahend, result) EXCEPT !.cf = l < r + b2i(f.cf)])

\* Mutant of KeepingCarry: inc and dec set CF as add and sub do.
TakingCarry(outcome, f) == outcome

\* inc and dec leave CF as it was.
KeepingCarry(outcome, f) == [outcome EXCEPT !.flags.cf = f.cf]

inc(v, f) == KeepingCarry(add(v, 1), f)
dec(v, f) == KeepingCarry(sub(v, 1), f)

neg(v) == sub(0, v)
-----------------------------------------------------------------------------
(***************************************************************************)
(* Flags of logic, and the bits that move                                   *)
(***************************************************************************)
assignLogicFlags(result, f) == [f EXCEPT !.zf = result = 0, !.sf = signBit(result), !.af = FALSE]

\* and, or, xor and test clear both of CF and OF.
logic(result, f) ==
  Outcome(result, [assignLogicFlags(result, f) EXCEPT !.cf = FALSE, !.of = FALSE])

Shifted(op, v, n) ==
  CASE op = "shl" -> truncate(v * 2^n)
    [] op = "shr" -> v \div 2^n
    [] op = "sar" -> truncate(signExtend(v) \div 2^n)

\* The last bit that left.
ShiftedOut(op, v, n) ==
  IF op = "shl" THEN Bit(v * 2^(n - 1), Half) = 1 ELSE Bit(v, 2^(n - 1)) = 1

ShiftOverflow(op, v, result, cf) ==
  CASE op = "shl" -> signBit(result) # cf
    [] op = "shr" -> signBit(v)
    [] op = "sar" -> FALSE

shift(op, v, count, f) ==
  LET n == count % 32
      result == Shifted(op, v, n)
      cf == ShiftedOut(op, v, n)
      of == IF n = 1 THEN ShiftOverflow(op, v, result, cf) ELSE f.of
  IN  IF n = 0 THEN Outcome(v, f)
      ELSE Outcome(result, [assignLogicFlags(result, f) EXCEPT !.cf = cf, !.of = of])

\* shld and shrd: src moves in where dest moves out.
doubleShift(op, dest, src, count, f) ==
  LET n == IF count % 32 > Bits THEN Bits ELSE count % 32
      result == IF op = "shld" THEN truncate(((dest * Modulus + src) * 2^n) \div Modulus)
                ELSE truncate((dest + src * Modulus) \div 2^n)
      cf == Bit(dest, IF op = "shld" THEN 2^(Bits - n) ELSE 2^(n - 1)) = 1
      of == IF n = 1 THEN signBit(dest) # signBit(result) ELSE f.of
  IN  IF n = 0 THEN Outcome(dest, f)
      ELSE Outcome(result, [assignLogicFlags(result, f) EXCEPT !.cf = cf, !.of = of])

\* One step of a rotation of value v and carry cf.
RotatedOnce(op, v, cf) ==
  LET high == signBit(v)
      low == v % 2 = 1
  IN  CASE op = "rol" -> [value |-> truncate(2 * v) + b2i(high), cf |-> high]
        [] op = "ror" -> [value |-> (v \div 2) + Half * b2i(low), cf |-> low]
        [] op = "rcl" -> [value |-> truncate(2 * v) + b2i(cf), cf |-> high]
        [] op = "rcr" -> [value |-> (v \div 2) + Half * b2i(cf), cf |-> low]

Rotated(op, v, cf, count) ==
  LET turned[n \in Nat, y \in [value : Words, cf : BOOLEAN]] ==
        IF n = 0 THEN y ELSE turned[n - 1, RotatedOnce(op, y.value, y.cf)]
  IN  turned[count, [value |-> v, cf |-> cf]]

\* Mutant of effectiveRotateCount: the carry is not counted as a bit.
effectiveRotateCountPlain(op, count) == (count % 32) % Bits

effectiveRotateCount(op, count) ==
  (count % 32) % (IF op \in {"rcl", "rcr"} THEN Bits + 1 ELSE Bits)

rotate(op, v, count, f) ==
  LET n == effectiveRotateCount(op, count)
      end == Rotated(op, v, f.cf, n)
      next == Bit(2 * end.value, Half) = 1
      of == IF n # 1 THEN f.of
            ELSE signBit(end.value) # (IF op \in {"rol", "rcl"} THEN end.cf ELSE next)
  IN  IF n = 0 THEN Outcome(v, f)
      ELSE Outcome(end.value, [f EXCEPT !.cf = end.cf, !.of = of])
-----------------------------------------------------------------------------
(***************************************************************************)
(* Multiplication and division, of the pair high:low                        *)
(***************************************************************************)
Pair(high, low, flags) == [high |-> high, low |-> low, flags |-> flags]

MulFlags(low, significant, f) ==
  [assignLogicFlags(low, f) EXCEPT !.cf = significant, !.of = significant]

mul(l, r, f) ==
  LET product == l * r
  IN  Pair(product \div Modulus, truncate(product), MulFlags(truncate(product), product >= Modulus, f))

\* imul of one operand
imul(l, r, f) ==
  LET product == signExtend(l) * signExtend(r)
      low == truncate(product)
  IN  Pair(truncate(product \div Modulus), low, MulFlags(low, signExtend(low) # product, f))

\* imul of two or three operands: the low half only
imulLow(l, r, f) == LET pair == imul(l, r, f) IN Outcome(pair.low, pair.flags)

\* Go's division: toward zero, the remainder with the sign of the dividend.
Magnitude(n) == IF n < 0 THEN -n ELSE n

\* Mutant of Quotient: rounded down.
QuotientDown(n, d) == (IF d < 0 THEN -n ELSE n) \div Magnitude(d)

Quotient(n, d) == LET q == Magnitude(n) \div Magnitude(d) IN IF (n < 0) # (d < 0) THEN -q ELSE q
Remainder(n, d) == n - d * Quotient(n, d)

signExtendPair(high, low) == signExtend(high) * Modulus + low

\* A quotient that is too large is cut to the word.  The divisor is not 0.
div(high, low, d, f) ==
  LET n == high * Modulus + low IN Pair(n % d, truncate(n \div d), f)

idiv(high, low, d, f) ==
  LET n == signExtendPair(high, low)
  IN  Pair(truncate(Remainder(n, signExtend(d))), truncate(Quotient(n, signExtend(d))), f)

\* cwd, cdq: the high half that extends the sign of the low one
SignWord(low) == IF signBit(low) THEN Modulus - 1 ELSE 0
-----------------------------------------------------------------------------
(***************************************************************************)
(* Single bits, and exchanges                                               *)
(***************************************************************************)
\* Mutant of BitIndex: an index past the word names no bit of it.
BitIndexCut(index) == IF index < Bits THEN index ELSE Bits - 1

BitIndex(index) == index % Bits

bitTest(op, v, index, f) ==
  LET weight == 2^BitIndex(index)
      set == Bit(v, weight) = 1
      value == CASE op = "bt"  -> v
                 [] op = "bts" -> IF set THEN v ELSE v + weight
                 [] op = "btr" -> IF set THEN v - weight ELSE v
                 [] op = "btc" -> IF set THEN v - weight ELSE v + weight
  IN  Outcome(value, [f EXCEPT !.cf = set])

BitsOf(v) == {k \in 0..(Bits - 1) : Bit(v, 2^k) = 1}

\* bsf finds the lowest bit of v and bsr the highest; dest stays when there is none.
bitScan(op, dest, v, f) ==
  LET found == CHOOSE k \in BitsOf(v) :
                 \A j \in BitsOf(v) : IF op = "bsf" THEN k <= j ELSE k >= j
  IN  Outcome(IF v = 0 THEN dest ELSE found, [f EXCEPT !.zf = v = 0])
-----------------------------------------------------------------------------
(***************************************************************************)
(* Decimal adjustment of AL (and AH); words are bytes                       *)
(***************************************************************************)
\* by: +1 after an addition, -1 after a subtraction
DigitOff(al, f) == al % 16 > 9 \/ f.af

\* Mutant of PackedOff: the high digit alone is looked at.
PackedOffHigh(al, f) == al \div 16 > 9 \/ f.cf

PackedOff(al, f) == al > 153 \/ f.cf

\* Mutant of HighDigit: AH is not kept a byte.
HighDigitUncut(ah, by) == ah + by

HighDigit(ah, by) == truncate(ah + by)

\* aaa, aas
adjustAscii(by, al, ah, f) ==
  IF DigitOff(al, f)
  THEN Pair(HighDigit(ah, by), truncate(al + 6 * by) % 16, [f EXCEPT !.af = TRUE, !.cf = TRUE])
  ELSE Pair(ah, al % 16, [f EXCEPT !.af = FALSE, !.cf = FALSE])

\* daa, das
adjustPacked(by, al, f) ==
  LET result == truncate(al + by * ((IF DigitOff(al, f) THEN 6 ELSE 0)
                                    + (IF PackedOff(al, f) THEN 96 ELSE 0)))
  IN  Outcome(result, [f EXCEPT !.af = DigitOff(al, f), !.cf = PackedOff(al, f),
                                !.zf = result = 0, !.sf = signBit(result)])

DigitFlags(result, f) == [f EXCEPT !.zf = result = 0, !.sf = signBit(result)]

\* aad; and aam, whose base is not 0
packDigits(al, ah, base, f) ==
  LET result == truncate(ah * base + al) IN Pair(0, result, DigitFlags(result, f))

splitDigits(al, base, f) == Pair(al \div base, al % base, DigitFlags(al % base, f))

\* lahf and sahf: what AH holds of the flags.  The bit of PF is left at 0.
FlagByte(f) == b2i(f.cf) + 16 * b2i(f.af) + 64 * b2i(f.zf) + 128 * b2i(f.sf)

WithFlagByte(v, f) == [cf |-> Bit(v, 1) = 1, af |-> Bit(v, 16) = 1, zf |-> Bit(v, 64) = 1,
                       sf |-> Bit(v, 128) = 1, of |-> f.of]
-----------------------------------------------------------------------------
(***************************************************************************)
(* The conditional jumps; set and cmov read the flags in the same way       *)
(***************************************************************************)
\* Mutant of JumpTaken: jl and jge look at the sign alone.
JumpTakenBySign(op, f) ==
  CASE op = "jmp" -> TRUE
    [] op \in {"je", "jz"}   -> f.zf
    [] op \in {"jne", "jnz"} -> ~f.zf
    [] op = "jl"  -> f.sf
    [] op = "jle" -> f.zf \/ f.sf # f.of
    [] op = "jg"  -> ~f.zf /\ f.sf = f.of
    [] op = "jge" -> ~f.sf
    [] op \in {"jb", "jc"}   -> f.cf
    [] op \in {"jae", "jnc"} -> ~f.cf
    [] op = "jbe" -> f.cf \/ f.zf
    [] op = "ja"  -> ~f.cf /\ ~f.zf
    [] op = "js"  -> f.sf
    [] op = "jns" -> ~f.sf
    [] op = "jo"  -> f.of
    [] op = "jno" -> ~f.of

JumpTaken(op, f) ==
  CASE op = "jmp" -> TRUE
    [] op \in {"je", "jz"}   -> f.zf
    [] op \in {"jne", "jnz"} -> ~f.zf
    [] op = "jl"  -> f.sf # f.of
    [] op = "jle" -> f.zf \/ f.sf # f.of
    [] op = "jg"  -> ~f.zf /\ f.sf = f.of
    [] op = "jge" -> f.sf = f.of
    [] op \in {"jb", "jc"}   -> f.cf
    [] op \in {"jae", "jnc"} -> ~f.cf
    [] op = "jbe" -> f.cf \/ f.zf
    [] op = "ja"  -> ~f.cf /\ ~f.zf
    [] op = "js"  -> f.sf
    [] op = "jns" -> ~f.sf
    [] op = "jo"  -> f.of
    [] op = "jno" -> ~f.of
-----------------------------------------------------------------------------
(***************************************************************************)
(* The relations the jumps after a comparison of l and r are named for      *)
(***************************************************************************)
Relations == {"je", "jne", "jl", "jle", "jg", "jge", "jb", "jbe", "ja", "jae"}

Related(cond, l, r) ==
  LET sl == signExtend(l)
      sr == signExtend(r)
  IN  CASE cond = "je" -> l = r  [] cond = "jne" -> l # r
        [] cond = "jl" -> sl < sr [] cond = "jle" -> sl <= sr
        [] cond = "jg" -> sl > sr [] cond = "jge" -> sl >= sr
        [] cond = "jb" -> l < r  [] cond = "jbe" -> l <= r
        [] cond = "ja" -> l > r  [] cond = "jae" -> l >= r
=============================================================================
