----------------------------- MODULE AluProofs -----------------------------
(***************************************************************************)
(* What Alu computes, for every width of words: sums and differences exact, *)
(* the carry included; the jumps after a comparison true to their relation. *)
(***************************************************************************)
EXTENDS Alu, TLAPS

LEMMA HalfNat == Half \in Nat /\ Half >= 1 /\ Modulus \in Nat /\ Modulus = Half + Half /\ Modulus >= 2
BY WordAssumption DEF Modulus

LEMMA RemainderIs ==
  ASSUME NEW m \in Int, m > 0, NEW n \in Int, NEW q \in Int, NEW r \in Int,
         n = m * q + r, r >= 0, r < m
  PROVE  n % m = r
OBVIOUS

\* A number less than a word's range outside it is brought back by one of them.
LEMMA Truncated ==
  ASSUME NEW n \in Int
  PROVE  /\ n \in Words => truncate(n) = n
         /\ n >= Modulus /\ n < Modulus + Modulus => truncate(n) = n - Modulus
         /\ n < 0 /\ n >= -Modulus => truncate(n) = n + Modulus
         /\ truncate(n) \in Words
<1> DEFINE M == Modulus
<1>m. M \in Int /\ M > 0 BY HalfNat
<1> HIDE DEF M
<1>1. ASSUME n \in Words PROVE truncate(n) = n
  <2>1. n = M * 0 + n /\ n >= 0 /\ n < M BY <1>1, <1>m DEF Words, M
  <2>2. n % M = n BY <2>1, <1>m, RemainderIs
  <2>3. QED BY <2>2 DEF truncate, M
<1>2. ASSUME n >= Modulus, n < Modulus + Modulus PROVE truncate(n) = n - Modulus
  <2>1. n - M \in Int /\ n = M * 1 + (n - M) /\ n - M >= 0 /\ n - M < M BY <1>2, <1>m DEF M
  <2>2. n % M = n - M BY <2>1, <1>m, RemainderIs
  <2>3. QED BY <2>2 DEF truncate, M
<1>3. ASSUME n < 0, n >= -Modulus PROVE truncate(n) = n + Modulus
  <2>1. n + M \in Int /\ n = M * (-1) + (n + M) /\ n + M >= 0 /\ n + M < M BY <1>3, <1>m DEF M
  <2>2. n % M = n + M BY <2>1, <1>m, RemainderIs
  <2>3. QED BY <2>2 DEF truncate, M
<1>4. truncate(n) \in Words
  <2>1. n % M \in 0..(M - 1) BY <1>m
  <2>2. QED BY <2>1 DEF truncate, Words, M
<1>5. QED BY <1>1, <1>2, <1>3, <1>4
-----------------------------------------------------------------------------
(***************************************************************************)
(* Sums and differences                                                     *)
(***************************************************************************)
\* The carry of flags f as a number
CarryIn(f) == b2i(f.cf)

LEMMA CarryIsBit ==
  ASSUME NEW f \in FlagSet
  PROVE  /\ f.cf \in BOOLEAN /\ CarryIn(f) \in {0, 1} /\ (f.cf <=> CarryIn(f) = 1)
BY DEF FlagSet, CarryIn, b2i

\* What add and adc store, and the carry they leave, make up the exact sum.
THEOREM SumsExact ==
  ASSUME NEW l \in Words, NEW r \in Words, NEW f \in FlagSet
  PROVE  /\ add(l, r).value \in Words /\ adc(l, r, f).value \in Words
         /\ add(l, r).value + Modulus * CarryIn(add(l, r).flags) = l + r
         /\ adc(l, r, f).value + Modulus * CarryIn(adc(l, r, f).flags) = l + r + CarryIn(f)
<1>1. l \in Int /\ r \in Int /\ l >= 0 /\ r >= 0 /\ l < Modulus /\ r < Modulus
  BY HalfNat DEF Words
<1>2. CarryIn(f) \in {0, 1}
  BY CarryIsBit
<1>3. ASSUME NEW n \in Int, n >= 0, n < Modulus + Modulus
      PROVE  /\ truncate(n) \in Words
             /\ truncate(n) + Modulus * b2i(n >= Modulus) = n
  <2>1. CASE n >= Modulus
    <3>1. truncate(n) = n - Modulus BY <1>3, <2>1, Truncated
    <3>2. b2i(n >= Modulus) = 1 BY <2>1 DEF b2i
    <3>3. QED BY <3>1, <3>2, HalfNat, Truncated
  <2>2. CASE n < Modulus
    <3>1. truncate(n) = n BY <1>3, <2>2, Truncated, HalfNat DEF Words
    <3>2. b2i(n >= Modulus) = 0 BY <2>2, HalfNat DEF b2i
    <3>3. QED BY <3>1, <3>2, HalfNat, Truncated
  <2>3. QED BY <2>1, <2>2, HalfNat
<1>4. /\ add(l, r).value = truncate(l + r)
      /\ CarryIn(add(l, r).flags) = b2i(l + r >= Modulus)
  BY DEF add, Outcome, updateAddFlags, CarryIn
<1>5. /\ adc(l, r, f).value = truncate(l + r + CarryIn(f))
      /\ CarryIn(adc(l, r, f).flags) = b2i(l + r + CarryIn(f) >= Modulus)
  BY DEF adc, Outcome, updateAddFlags, CarryIn
<1>6. l + r \in Int /\ l + r >= 0 /\ l + r < Modulus + Modulus
  BY <1>1, HalfNat
<1>7. l + r + CarryIn(f) \in Int /\ l + r + CarryIn(f) >= 0 /\ l + r + CarryIn(f) < Modulus + Modulus
  BY <1>1, <1>2, HalfNat
<1>8. QED
  BY <1>3, <1>4, <1>5, <1>6, <1>7

\* What sub and sbb store, and the borrow they leave, make up the exact difference.
THEOREM DifferencesExact ==
  ASSUME NEW l \in Words, NEW r \in Words, NEW f \in FlagSet
  PROVE  /\ sub(l, r).value \in Words /\ sbb(l, r, f).value \in Words
         /\ sub(l, r).value - Modulus * CarryIn(sub(l, r).flags) = l - r
         /\ sbb(l, r, f).value - Modulus * CarryIn(sbb(l, r, f).flags) = l - r - CarryIn(f)
<1> DEFINE s == r + CarryIn(f)
<1>1. l \in Int /\ r \in Int /\ l >= 0 /\ r >= 0 /\ l < Modulus /\ r < Modulus
  BY HalfNat DEF Words
<1>2. s \in Int /\ s >= r /\ s <= Modulus /\ s <= r + 1
  BY <1>1, CarryIsBit, HalfNat
<1>3. ASSUME NEW n \in Int, n <= Modulus - 1, n >= -Modulus
      PROVE  /\ truncate(n) \in Words
             /\ truncate(n) - Modulus * b2i(n < 0) = n
  <2>1. CASE n < 0
    <3>1. truncate(n) = n + Modulus BY <1>3, <2>1, Truncated
    <3>2. b2i(n < 0) = 1 BY <2>1 DEF b2i
    <3>3. QED BY <3>1, <3>2, HalfNat, Truncated
  <2>2. CASE n >= 0
    <3>1. truncate(n) = n BY <1>3, <2>2, Truncated, HalfNat DEF Words
    <3>2. b2i(n < 0) = 0 BY <2>2, HalfNat DEF b2i
    <3>3. QED BY <3>1, <3>2, HalfNat, Truncated
  <2>3. QED BY <2>1, <2>2
<1>4. /\ sub(l, r).value = truncate(l - r)
      /\ CarryIn(sub(l, r).flags) = b2i(l - r < 0)
  <2>1. (l < r) = (l - r < 0) BY <1>1
  <2>2. QED BY <2>1 DEF sub, Outcome, updateSubFlags, CarryIn
<1>5. /\ sbb(l, r, f).value = truncate(l - truncate(s))
      /\ CarryIn(sbb(l, r, f).flags) = b2i(l - s < 0)
  <2>1. (l < s) = (l - s < 0) BY <1>1, <1>2
  <2>2. QED BY <2>1 DEF sbb, Outcome, updateSubFlags, CarryIn
<1>6. truncate(l - truncate(s)) = truncate(l - s)
  <2>1. CASE s < Modulus
    BY <2>1, <1>1, <1>2, HalfNat, Truncated DEF Words
  <2>2. CASE s = Modulus
    <3>1. truncate(s) = 0 BY <2>2, <1>2, HalfNat, Truncated
    <3>2. truncate(l) = l BY <1>1, Truncated
    <3>3. truncate(l - s) = l
      <4>1. l - s \in Int /\ l - s < 0 /\ l - s >= -Modulus BY <2>2, <1>1, HalfNat
      <4>2. truncate(l - s) = (l - s) + Modulus BY <4>1, Truncated
      <4>3. QED BY <4>2, <2>2, <1>1, HalfNat
    <3>4. l - 0 = l BY <1>1
    <3>5. QED BY <3>1, <3>2, <3>3, <3>4
  <2>3. QED BY <2>1, <2>2, <1>2, HalfNat
<1>7. l - r \in Int /\ l - r <= Modulus - 1 /\ l - r >= -Modulus
  BY <1>1, HalfNat
<1>8. l - s \in Int /\ l - s <= Modulus - 1 /\ l - s >= -Modulus /\ l - s = l - r - CarryIn(f)
  BY <1>1, <1>2, CarryIsBit, HalfNat
<1>9. QED
  BY <1>3, <1>4, <1>5, <1>6, <1>7, <1>8

\* add then adc, on the low and the high words of two pairs, make their exact sum:
\* the chain WideSums runs in a loop, for words of every width.
THEOREM TwoWordSum ==
  ASSUME NEW l0 \in Words, NEW l1 \in Words, NEW r0 \in Words, NEW r1 \in Words
  PROVE  LET low == add(l0, r0)
             high == adc(l1, r1, low.flags)
         IN  (Modulus * Modulus) * CarryIn(high.flags) + Modulus * high.value + low.value
               = (Modulus * l1 + l0) + (Modulus * r1 + r0)
<1> DEFINE low == add(l0, r0)
           high == adc(l1, r1, low.flags)
           c0 == CarryIn(low.flags)
           c1 == CarryIn(high.flags)
<1>1. low.flags \in FlagSet
  BY DEF add, Outcome, updateAddFlags, FlagSet, signBit, HalfCarry
<1>2. low.value \in Words /\ low.value + Modulus * c0 = l0 + r0
  BY SumsExact, <1>1
<1>3. high.value \in Words /\ high.value + Modulus * c1 = l1 + r1 + c0
  BY SumsExact, <1>1
<1>4. c0 \in Int /\ c1 \in Int
  BY <1>1 DEF CarryIn, b2i
<1> DEFINE m == Modulus
           v0 == low.value
           v1 == high.value
<1>5. m \in Int /\ l0 \in Int /\ l1 \in Int /\ r0 \in Int /\ r1 \in Int /\ v0 \in Int /\ v1 \in Int
  BY HalfNat, <1>2, <1>3 DEF Words
<1>6. v0 + m * c0 = l0 + r0 /\ v1 + m * c1 = l1 + r1 + c0
  BY <1>2, <1>3
<1> HIDE DEF low, high, c0, c1, m, v0, v1
<1>7. m * v1 + m * (m * c1) = m * l1 + m * r1 + m * c0
  <2>1. m * (v1 + m * c1) = m * (l1 + r1 + c0) BY <1>6
  <2>2. QED BY <2>1, <1>4, <1>5
<1>8. (m * m) * c1 = m * (m * c1)
  BY <1>4, <1>5
<1>9. (m * m) * c1 + m * v1 + v0 = (m * l1 + l0) + (m * r1 + r0)
  BY <1>4, <1>5, <1>6, <1>7, <1>8
<1>10. QED
  BY <1>9 DEF low, high, c1, m, v0, v1
-----------------------------------------------------------------------------
(***************************************************************************)
(* Order                                                                    *)
(***************************************************************************)
\* The overflow of a difference: SF and OF differ exactly when the operands are
\* in signed order.
LEMMA SignedOrder ==
  ASSUME NEW l \in Words, NEW r \in Words
  PROVE  LET f == updateSubFlags(l, r, truncate(l - r))
         IN  /\ (f.sf # f.of) = (signExtend(l) < signExtend(r))
             /\ f.zf = (l = r) /\ f.cf = (l < r)
<1>1. l \in Int /\ r \in Int /\ l >= 0 /\ r >= 0 /\ l < Modulus /\ r < Modulus
  BY HalfNat DEF Words
<1>2. CASE l < r
  <2>1. truncate(l - r) = (l - r) + Modulus BY <1>1, <1>2, HalfNat, Truncated
  <2>2. QED BY <1>1, <1>2, <2>1, HalfNat DEF updateSubFlags, signBit, signExtend
<1>3. CASE l >= r
  <2>1. l - r \in Words BY <1>1, <1>3, HalfNat DEF Words
  <2>2. truncate(l - r) = l - r BY <1>1, <2>1, Truncated
  <2>3. QED BY <1>1, <1>3, <2>2, HalfNat DEF updateSubFlags, signBit, signExtend
<1>4. QED BY <1>1, <1>2, <1>3

\* After cmp or sub every conditional jump is taken exactly when the relation it is
\* named for holds, for words of every width (ComparisonsDecide runs it on one).
THEOREM JumpsDecide ==
  ASSUME NEW l \in Words, NEW r \in Words, NEW cond \in Relations
  PROVE  JumpTaken(cond, sub(l, r).flags) = Related(cond, l, r)
<1> DEFINE f == sub(l, r).flags
<1>1. f = updateSubFlags(l, r, truncate(l - r))
  BY DEF sub, Outcome
<1>2. /\ (f.sf # f.of) = (signExtend(l) < signExtend(r))
      /\ f.zf = (l = r) /\ f.cf = (l < r)
  BY <1>1, SignedOrder
<1>3. f.sf \in BOOLEAN /\ f.of \in BOOLEAN
  BY <1>1 DEF updateSubFlags, signBit
<1>4. /\ l \in Int /\ r \in Int /\ signExtend(l) \in Int /\ signExtend(r) \in Int
      /\ (l = r) = (signExtend(l) = signExtend(r))
  BY HalfNat DEF Words, signExtend, signBit
<1> SUFFICES JumpTaken(cond, f) = Related(cond, l, r)
  OBVIOUS
<1> HIDE DEF f
<1> DEFINE less == signExtend(l) < signExtend(r)
           below == l < r
           same == l = r
<1>5. /\ f.sf # f.of <=> less
      /\ f.sf = f.of <=> ~less
      /\ f.zf <=> same
      /\ f.cf <=> below
  BY <1>2, <1>3
<1>6. CASE cond = "je"
  BY <1>2, <1>6 DEF JumpTaken, Related
<1>7. CASE cond = "jne"
  BY <1>2, <1>7 DEF JumpTaken, Related
<1>8. CASE cond = "jl"
  BY <1>2, <1>8 DEF JumpTaken, Related
<1>9. CASE cond = "jge"
  <2>1. JumpTaken(cond, f) = (f.sf = f.of) /\ Related(cond, l, r) = (signExtend(l) >= signExtend(r))
    BY <1>9 DEF JumpTaken, Related
  <2>2. (signExtend(l) >= signExtend(r)) = ~less BY <1>4
  <2>3. QED BY <2>1, <2>2, <1>5
<1>10. CASE cond = "jle"
  <2>1. /\ JumpTaken(cond, f) = (f.zf \/ f.sf # f.of)
        /\ Related(cond, l, r) = (signExtend(l) <= signExtend(r))
    BY <1>10 DEF JumpTaken, Related
  <2>2. (signExtend(l) <= signExtend(r)) = (same \/ less) BY <1>4
  <2>3. QED BY <2>1, <2>2, <1>5
<1>11. CASE cond = "jg"
  <2>1. /\ JumpTaken(cond, f) = (~f.zf /\ f.sf = f.of)
        /\ Related(cond, l, r) = (signExtend(l) > signExtend(r))
    BY <1>11 DEF JumpTaken, Related
  <2>2. (signExtend(l) > signExtend(r)) = (~same /\ ~less) BY <1>4
  <2>3. QED BY <2>1, <2>2, <1>5
<1>12. CASE cond = "jb"
  BY <1>2, <1>12 DEF JumpTaken, Related
<1>13. CASE cond = "jae"
  <2>1. JumpTaken(cond, f) = ~f.cf /\ Related(cond, l, r) = (l >= r)
    BY <1>13 DEF JumpTaken, Related
  <2>2. (l >= r) = ~below BY <1>4
  <2>3. QED BY <2>1, <2>2, <1>5
<1>14. CASE cond = "jbe"
  <2>1. JumpTaken(cond, f) = (f.cf \/ f.zf) /\ Related(cond, l, r) = (l <= r)
    BY <1>14 DEF JumpTaken, Related
  <2>2. (l <= r) = (below \/ same) BY <1>4
  <2>3. QED BY <2>1, <2>2, <1>5
<1>15. CASE cond = "ja"
  <2>1. JumpTaken(cond, f) = (~f.cf /\ ~f.zf) /\ Related(cond, l, r) = (l > r)
    BY <1>15 DEF JumpTaken, Related
  <2>2. (l > r) = (~below /\ ~same) BY <1>4
  <2>3. QED BY <2>1, <2>2, <1>5
<1>16. QED
  BY <1>6, <1>7, <1>8, <1>9, <1>10, <1>11, <1>12, <1>13, <1>14, <1>15 DEF Relations

\* After sbb, SF and OF differ exactly when the difference, the borrow taken, is
\* below 0, except for one operand: the greatest signed word, which with the
\* borrow wraps to the least (execAdcSbb; what WideSignedOrder meets).
THEOREM BorrowedOrder ==
  ASSUME NEW l \in Words, NEW r \in Words, NEW f \in FlagSet, ~(f.cf /\ r = Half - 1)
  PROVE  LET g == sbb(l, r, f).flags
         IN  (g.sf # g.of) = (signExtend(l) < signExtend(r) + CarryIn(f))
<1> DEFINE s == truncate(r + CarryIn(f))
<1>1. r \in Int /\ r >= 0 /\ r < Modulus
  BY HalfNat DEF Words
<1>2. s \in Words /\ signExtend(s) = signExtend(r) + CarryIn(f)
  <2>1. CASE ~f.cf
    <3>1. CarryIn(f) = 0 BY <2>1, CarryIsBit
    <3>2. r + CarryIn(f) = r BY <3>1, <1>1
    <3>3. s = r BY <3>2, <1>1, Truncated
    <3>4. signExtend(r) \in Int BY <1>1, HalfNat DEF signExtend, signBit
    <3>5. QED BY <3>1, <3>3, <3>4
  <2>2. CASE f.cf
    <3>1. CarryIn(f) = 1 /\ r # Half - 1 BY <2>2, CarryIsBit
    <3>2. CASE r = Modulus - 1
      <4>1. r + CarryIn(f) \in Int /\ r + CarryIn(f) >= Modulus
            /\ r + CarryIn(f) < Modulus + Modulus /\ r + CarryIn(f) = Modulus
        BY <3>1, <3>2, HalfNat
      <4>2. s = 0 BY <4>1, Truncated, HalfNat
      <4>3. QED BY <4>2, <3>1, <3>2, HalfNat DEF signExtend, signBit, Words
    <3>3. CASE r # Modulus - 1
      <4>1. r + CarryIn(f) \in Words BY <3>1, <3>3, <1>1, HalfNat DEF Words
      <4>2. s = r + 1 BY <4>1, <3>1, Truncated, <1>1
      <4>3. QED BY <4>1, <4>2, <3>1, <3>3, <1>1, HalfNat DEF signExtend, signBit
    <3>4. QED BY <3>2, <3>3
  <2>3. QED BY <2>1, <2>2, CarryIsBit
<1>3. /\ sbb(l, r, f).flags.sf = updateSubFlags(l, s, truncate(l - s)).sf
      /\ sbb(l, r, f).flags.of = updateSubFlags(l, s, truncate(l - s)).of
  BY DEF sbb, Outcome, updateSubFlags, CarryIn
<1> HIDE DEF s
<1>4. QED
  BY <1>2, <1>3, SignedOrder
=============================================================================
