----------------------------- MODULE SolverTerms -----------------------------
(* What the three solver back ends share: the terms of a bit-vector solver,   *)
(* each the value it denotes together with its sort, and the constants        *)
(* (lib/Solver/ConstantDivision.cpp) by which a multiplication or a division  *)
(* by a constant becomes shifts and additions.  The code's words have 32      *)
(* bits, its double words 64; here WordBits and twice that.                   *)
EXTENDS Expr, FiniteSets

CONSTANTS
  WordBits,         \* 32 in the code
  OptimizeDivides   \* --solver-optimize-divides

ASSUME WordAssumption == WordBits \in Nat \ {0, 1, 2} /\ OptimizeDivides \in BOOLEAN

(***************************************************************************)
(* Terms: sort 0 is the Boolean sort, sort w > 0 the bit-vectors of w bits *)
(***************************************************************************)

Bv(w, v) == [s |-> w, v |-> v]
Truth(b) == [s |-> 0, v |-> Bit(b)]
IllSorted == [s |-> -1, v |-> 0]          \* the solver rejects the term, or an assertion fails

IsBv(t) == t.s > 0
IsBool(t) == t.s = 0

bvOp(op, a, b) ==
  IF IsBv(a) /\ a.s = b.s
  THEN IF op \in Comparison THEN Truth(Apply(op, a.s, a.v, b.v) = 1)
       ELSE Bv(a.s, Apply(op, a.s, a.v, b.v))
  ELSE IllSorted
bvNot(a) == IF IsBv(a) THEN Bv(a.s, Ones(a.s) - a.v) ELSE IllSorted
bvConcat(a, b) == IF IsBv(a) /\ IsBv(b) THEN Bv(a.s + b.s, a.v * Pow2(b.s) + b.v) ELSE IllSorted
bvExtract(a, top, bottom) ==
  IF IsBv(a) /\ bottom <= top /\ top < a.s
  THEN Bv(top - bottom + 1, Bits(a.v, bottom, top - bottom + 1)) ELSE IllSorted
bvSignExtend(a, w) == IF IsBv(a) /\ a.s <= w THEN Bv(w, SExtend(a.v, a.s, w)) ELSE IllSorted
boolOp(op, a, b) ==
  IF IsBool(a) /\ IsBool(b) THEN Truth(Apply(op, 1, a.v, b.v) = 1) ELSE IllSorted
boolNot(a) == IF IsBool(a) THEN Truth(a.v = 0) ELSE IllSorted
ite(c, t, f) == IF IsBool(c) /\ t.s = f.s THEN (IF c.v = 1 THEN t ELSE f) ELSE IllSorted
bvZero(w) == Bv(w, 0)
bvOne(w) == Bv(w, 1)
bvMinusOne(w) == Bv(w, Ones(w))
bvBoolExtract(a, bit) == bvOp("Eq", bvExtract(a, bit, bit), bvOne(1))

\* (unsigned) CE->getLimitedValue(): the constant amount of a shift
Amount(c) == Trunc(c, WordBits)

(***************************************************************************)
(* ConstantDivision.cpp                                                    *)
(***************************************************************************)

isPowerOfTwo(x) == \E n \in 0..2 * WordBits : x = Pow2(n)
indexOfSingleBit(x) == CHOOSE n \in 0..2 * WordBits : x = Pow2(n)

\* number of bits of x - 1, which is what 32 less its leading zeroes counts
Log2Ceil(x) == CHOOSE n \in 0..WordBits : x <= Pow2(n) /\ \A m \in 0..n - 1 : x > Pow2(m)

\* ComputeMultConstants64: x = add - sub, one region of ones after another
MultConstants(x) ==
  LET RECURSIVE Regions(_, _, _)
      Regions(y, add, sub) ==
        IF y = 0 THEN <<add, sub>>
        ELSE LET low == CHOOSE n \in 0..2 * WordBits : Bits(y, n, 1) = 1 /\ Trunc(y, n) = 0
                 high == CHOOSE n \in low..2 * WordBits :
                           Bits(y, n, 1) = 0 /\ \A m \in low..n - 1 : Bits(y, m, 1) = 1
                 rest == y - (Pow2(high) - Pow2(low))
                 top == IF high = 2 * WordBits THEN 0 ELSE Pow2(high)
             IN  IF high = low + 1 THEN Regions(rest, add + Pow2(low), sub)
                 ELSE IF low > 0 /\ Bits(add, low - 1, 1) = 1
                 THEN Regions(rest, add - Pow2(low - 1) + top, sub + Pow2(low - 1))
                 ELSE Regions(rest, add + top, sub + Pow2(low))
  IN  Regions(x, 0, 0)

\* Mutant of UDivConstants: the multiplier is not rounded up.
UDivRoundsDown(d) ==
  LET l == Log2Ceil(d)
  IN  [m |-> (Pow2(WordBits) * (Pow2(l) - d)) \div d,
       sh1 |-> IF l < 1 THEN l ELSE 1, sh2 |-> IF l - 1 > 0 THEN l - 1 ELSE 0]

\* ComputeUDivConstants32; 2^l does not fit a word when l = WordBits and is 0 there
UDivConstants(d) ==
  LET l == Log2Ceil(d)
      mid == Trunc((IF l = WordBits THEN 0 ELSE Pow2(l)) - d, WordBits)
  IN  [m |-> Trunc((Pow2(WordBits) * mid) \div d + 1, WordBits),
       sh1 |-> IF l < 1 THEN l ELSE 1, sh2 |-> IF l - 1 > 0 THEN l - 1 ELSE 0]

\* ComputeSDivConstants32
SDivConstants(d) ==
  LET sd == Signed(d, WordBits)
      abs == IF sd > 0 THEN sd ELSE -sd
      l == IF abs = Pow2(WordBits - 1) THEN WordBits - 1
           ELSE IF Log2Ceil(abs) > 1 THEN Log2Ceil(abs) ELSE 1
      m == (Pow2(WordBits) * Pow2(l - 1)) \div abs + 1
  IN  [m |-> Signed(Trunc(m - Pow2(WordBits), WordBits), WordBits),
       dsign |-> IF sd < 0 THEN -1 ELSE 0, shpost |-> l - 1]

(***************************************************************************)
(* Shared by the builders of STP and metaSMT                               *)
(***************************************************************************)

\* logical shifts by a constant, by concatenation with zeroes
bvLeftShift(a, n) ==
  IF n = 0 THEN a ELSE IF n >= a.s THEN bvZero(a.s)
  ELSE bvConcat(bvExtract(a, a.s - n - 1, 0), bvZero(n))
bvRightShift(a, n) ==
  IF n = 0 THEN a ELSE IF n >= a.s THEN bvZero(a.s)
  ELSE bvConcat(bvZero(n), bvExtract(a, a.s - 1, n))
constructAShrByConstant(a, n, isSigned) ==
  IF n = 0 THEN a ELSE IF n >= a.s THEN bvZero(a.s)
  ELSE ite(isSigned, bvConcat(bvMinusOne(n), bvExtract(a, a.s - 1, n)), bvRightShift(a, n))

\* a * x, from the highest bit of the two constants down
constructMulByConstant(a, w, x) ==
  LET add == Trunc(MultConstants(x)[1], w)
      sub == Trunc(MultConstants(x)[2], w)
      RECURSIVE From(_, _)
      From(j, res) ==
        IF j < 0 THEN res
        ELSE IF Bits(add, j, 1) = 1 THEN From(j - 1, bvOp("Add", res, bvLeftShift(a, j)))
        ELSE IF Bits(sub, j, 1) = 1 THEN From(j - 1, bvOp("Sub", res, bvLeftShift(a, j)))
        ELSE From(j - 1, res)
  IN  IF \E j \in 0..w - 1 : Bits(add, j, 1) = 1 /\ Bits(sub, j, 1) = 1 THEN IllSorted
      ELSE From(w - 1, bvZero(w))

\* n / d and n rem d for the constant d, when words are divided
NeedsFastPath(w) == OptimizeDivides /\ w = WordBits
Upper(a) == bvExtract(a, 2 * WordBits - 1, WordBits)
=============================================================================
