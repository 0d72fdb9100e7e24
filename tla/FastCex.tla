------------------------------- MODULE FastCex -------------------------------
(* FastCexSolver: a guess at a query's answer from ranges of values.  The     *)
(* constraints push the cells of the array into ranges: possible ones, from   *)
(* which an assignment is guessed, and exact ones, which the cells cannot     *)
(* leave.  The array has the cells Cell.                                      *)
EXTENDS Constraints, FiniteSetsExt

CONSTANTS
  LongBits,     \* bits of uint64_t (64 in the code)
  Cell          \* the cells of the symbolic array
ASSUME LongAssumption == LongBits \in Nat \ {0}

Word(v) == v % Pow2(LongBits)
At(v, n) == Bits(v, n, 1)

(***************************************************************************)
(* The bounds of | and & over ranges a..b and c..d: the highest bit where  *)
(* an operand can be moved decides                                         *)
(***************************************************************************)

Raise(v, n) == ((v \div Pow2(n)) | 1) * Pow2(n)         \* bit n set, those below cleared
Lower(v, n) == (v \div Pow2(n)) * Pow2(n) - 1           \* a set bit n cleared, those below set
Top(Fits(_)) == LET S == {n \in 0..LongBits - 1 : Fits(n)} IN IF S = {} THEN -1 ELSE Max(S)

minOR(a, b, c, d) ==
  LET n == Top(LAMBDA i : \/ At(a, i) = 0 /\ At(c, i) = 1 /\ Raise(a, i) <= b
                          \/ At(a, i) = 1 /\ At(c, i) = 0 /\ Raise(c, i) <= d)
  IN  IF n = -1 THEN a | c ELSE IF At(a, n) = 0 THEN Raise(a, n) | c ELSE a | Raise(c, n)

maxOR(a, b, c, d) ==
  LET n == Top(LAMBDA i : /\ At(b, i) = 1 /\ At(d, i) = 1
                          /\ Lower(b, i) >= a \/ Lower(d, i) >= c)
  IN  IF n = -1 THEN b | d ELSE IF Lower(b, n) >= a THEN Lower(b, n) | d ELSE b | Lower(d, n)

minAND(a, b, c, d) ==
  LET n == Top(LAMBDA i : /\ At(a, i) = 0 /\ At(c, i) = 0
                          /\ Raise(a, i) <= b \/ Raise(c, i) <= d)
  IN  IF n = -1 THEN a & c ELSE IF Raise(a, n) <= b THEN Raise(a, n) & c ELSE a & Raise(c, n)

maxAND(a, b, c, d) ==
  LET n == Top(LAMBDA i : \/ At(b, i) = 1 /\ At(d, i) = 0 /\ Lower(b, i) >= a
                          \/ At(b, i) = 0 /\ At(d, i) = 1 /\ Lower(d, i) >= c)
  IN  IF n = -1 THEN b & d ELSE IF At(b, n) = 1 THEN Lower(b, n) & d ELSE b & Lower(d, n)

(***************************************************************************)
(* ValueRange                                                              *)
(***************************************************************************)

Span(lo, hi) == [lo |-> lo, hi |-> hi]
Fixed(v) == Span(v, v)
Full(w) == Span(0, Ones(w))
Empty == Span(1, 0)
IsEmpty(r) == r.lo > r.hi
IsFixed(r) == r.lo = r.hi
MinOf(a, b) == IF a < b THEN a ELSE b
MaxOf(a, b) == IF a < b THEN b ELSE a

Meet(r, q) == Span(MaxOf(r.lo, q.lo), MinOf(r.hi, q.hi))
Join(r, q) == Span(MinOf(r.lo, q.lo), MaxOf(r.hi, q.hi))
Minus(r, q) ==
  IF IsEmpty(q) \/ q.lo > r.hi \/ q.hi < r.lo THEN r
  ELSE IF q.lo <= r.lo /\ q.hi >= r.hi THEN Empty
  ELSE IF q.lo <= r.lo THEN Span(q.hi + 1, r.hi)
  ELSE Span(r.lo, q.lo - 1)

binaryAnd(r, q) ==
  IF IsFixed(r) /\ IsFixed(q) THEN Fixed(r.lo & q.lo)
  ELSE Span(minAND(r.lo, r.hi, q.lo, q.hi), maxAND(r.lo, r.hi, q.lo, q.hi))
binaryOr(r, q) ==
  IF IsFixed(r) /\ IsFixed(q) THEN Fixed(r.lo | q.lo)
  ELSE Span(minOR(r.lo, r.hi, q.lo, q.hi), maxOR(r.lo, r.hi, q.lo, q.hi))
binaryXor(r, q) ==
  IF IsFixed(r) /\ IsFixed(q) THEN Fixed(r.lo ^^ q.lo)
  ELSE Span(0, Ones(Top(LAMBDA n : At(r.hi | q.hi, n) = 1) + 1))
concat(r, q, w) == binaryOr(Span(Word(r.lo * Pow2(w)), Word(r.hi * Pow2(w))), q)
extract(r, low, w) ==
  binaryAnd(Span(r.lo \div Pow2(low), r.hi \div Pow2(low)), Fixed(Ones(w)))

mustEqual(r, q) == IsFixed(r) /\ r = q
mayEqual(r, q) == ~IsEmpty(Meet(r, q))
minSigned(r, w) == IF r.hi >= Pow2(w - 1) THEN -Pow2(w - 1) ELSE r.lo
maxSigned(r, w) == IF r.lo < Pow2(w - 1) /\ r.hi >= Pow2(w - 1) THEN Pow2(w - 1) - 1
                   ELSE Signed(r.hi, w)

(***************************************************************************)
(* ExprRangeEvaluator                                                      *)
(***************************************************************************)

RECURSIVE evalRange(_)

\* a read that may see several writes, each with the range it adds
ReadRange(root, ul, index) ==
  LET initial == IF IsConstantArray(root) /\ IsFixed(index) /\ index.lo < root.size
                 THEN Fixed(root.values[index.lo + 1].c) ELSE Full(Int8)
      RECURSIVE Writes(_, _)
      Writes(us, res) ==
        IF us = << >> THEN Join(res, initial)
        ELSE LET ui == evalRange(Head(us).i)
                 more == Join(res, evalRange(Head(us).v))
             IN  IF mustEqual(ui, index) THEN more
                 ELSE IF mayEqual(ui, index)
                 THEN IF more = Full(Int8) THEN more ELSE Writes(Tail(us), more)
                 ELSE Writes(Tail(us), res)
  IN  Writes(ul, Empty)

\* 1, 0 or unknown
Decide(yes, no) == IF yes THEN Fixed(1) ELSE IF no THEN Fixed(0) ELSE Full(Bool)

evalRange(a) ==
  CASE IsConst(a) -> Fixed(a.c)
    [] a.k = "Read" -> ReadRange(a.root, a.updates, evalRange(a.index))
    [] a.k = "Select" ->
         LET c == evalRange(a.cond)
         IN  IF c = Fixed(1) THEN evalRange(a.l)
             ELSE IF c = Fixed(0) THEN evalRange(a.r)
             ELSE Join(evalRange(a.l), evalRange(a.r))
    [] a.k = "Concat" -> concat(concat(Fixed(0), evalRange(a.l), Int8), evalRange(a.r), Int8)
    [] a.k = "And" -> binaryAnd(evalRange(a.l), evalRange(a.r))
    [] a.k = "Or"  -> binaryOr(evalRange(a.l), evalRange(a.r))
    [] a.k = "Xor" -> binaryXor(evalRange(a.l), evalRange(a.r))
    [] a.k \in {"Eq", "Ult", "Ule", "Slt", "Sle"} ->
         LET l == evalRange(a.l)  r == evalRange(a.r)  w == a.l.w
         IN (CASE a.k = "Eq"  -> Decide(mustEqual(l, r), ~mayEqual(l, r))
               [] a.k = "Ult" -> Decide(l.hi < r.lo, l.lo >= r.hi)
               [] a.k = "Ule" -> Decide(l.hi <= r.lo, l.lo > r.hi)
               [] a.k = "Slt" -> Decide(maxSigned(l, w) < minSigned(r, w),
                                        minSigned(l, w) >= maxSigned(r, w))
               [] a.k = "Sle" -> Decide(maxSigned(l, w) <= minSigned(r, w),
                                        minSigned(l, w) > maxSigned(r, w)))
    [] OTHER -> Full(a.w)

(***************************************************************************)
(* CexData: the possible and the exact ranges of the cells.  An assertion  *)
(* that fails leaves Aborted.                                              *)
(***************************************************************************)

CexData == [possible |-> [i \in Cell |-> Full(Int8)], exact |-> [i \in Cell |-> Full(Int8)]]
Aborted == [possible |-> << >>, exact |-> << >>]

RECURSIVE propogatePossible(_, _, _)

PossibleRead(cd, a, range) ==
  IF ~IsConst(a.index) \/ a.index.c >= a.root.size THEN cd
  ELSE LET i == a.index.c
           both == Meet(cd.possible[i], range)
       IN  IF IsFixed(range) THEN [cd EXCEPT !.possible[i] = Fixed(range.lo % Pow2(Int8))]
           ELSE IF IsEmpty(both) THEN cd
           ELSE [cd EXCEPT !.possible[i] = both]

\* both kids are cut out at the width of the right one
PossibleConcat(cd, a, range) ==
  IF IsEmpty(range) THEN Aborted
  ELSE propogatePossible(propogatePossible(cd, a.l, extract(range, a.r.w, a.r.w)),
                         a.r, extract(range, 0, a.r.w))

PossibleSExt(cd, a, range) ==
  LET output == Minus(range, Span(Pow2(a.e.w - 1), Ones(a.w) - Ones(a.e.w - 1) - 1))
  IN  IF IsEmpty(output) THEN Aborted
      ELSE propogatePossible(cd, a.e, binaryAnd(output, Fixed(Ones(a.e.w))))

PossibleAdd(cd, a, range) ==
  LET nrange == Span(Apply("Sub", a.w, Trunc(range.lo, a.w), a.l.c),
                      Apply("Sub", a.w, Trunc(range.hi, a.w), a.l.c))
  IN  IF IsEmpty(range) \/ IsEmpty(nrange) THEN cd ELSE propogatePossible(cd, a.r, nrange)

\* An And that is to be 0 (an Or that is to be 1) needs one side, and tries the
\* left one first; the other value needs both.
PossibleLogic(cd, a, v, one) ==
  LET l == evalRange(a.l)  r == evalRange(a.r)
      left == propogatePossible(cd, a.l, Fixed(v))
  IN  IF v = one
      THEN IF l = Fixed(v) \/ r = Fixed(v) THEN cd
           ELSE IF evalRange(a.l) # Fixed(1) THEN propogatePossible(left, a.r, Fixed(v)) ELSE left
      ELSE LET l2 == IF l # Fixed(v) THEN left ELSE cd
           IN  IF r # Fixed(v) THEN propogatePossible(l2, a.r, Fixed(v)) ELSE l2

PossibleEq(cd, a, v) ==
  LET c == a.l.c
  IN  propogatePossible(cd, a.r, IF v = 1 THEN Fixed(c)
                                 ELSE IF c = 0 THEN Span(1, Ones(a.l.w))
                                 ELSE Span(0, c - 1))

\* l < r (strict = 1) or l <= r (strict = 0) is to be v; a side that is known
\* bounds the other one, in machine arithmetic
PossibleLess(cd, a, v, strict) ==
  LET l == evalRange(a.l)  r == evalRange(a.r)  max == Ones(a.r.w)
  IN  IF IsFixed(l)
      THEN propogatePossible(cd, a.r, IF v = 1 THEN Span(Word(l.lo + strict), max)
                                      ELSE Span(0, Word(l.lo - (1 - strict))))
      ELSE IF IsFixed(r)
      THEN propogatePossible(cd, a.l, IF v = 1 THEN Span(0, Word(r.lo - strict))
                                      ELSE Span(Word(r.lo + (1 - strict)), max))
      ELSE cd

propogatePossible(cd, a, range) ==
  CASE cd = Aborted -> cd
    [] a.k = "Read" -> PossibleRead(cd, a, range)
    [] a.k = "Select" ->
         LET c == evalRange(a.cond)
         IN  IF IsFixed(c) THEN propogatePossible(cd, IF c.lo # 0 THEN a.l ELSE a.r, range)
             ELSE propogatePossible(propogatePossible(cd, a.l, range), a.r, range)
    [] a.k = "Concat" -> PossibleConcat(cd, a, range)
    [] a.k = "ZExt" -> propogatePossible(cd, a.e, Meet(range, Full(a.e.w)))
    [] a.k = "SExt" -> PossibleSExt(cd, a, range)
    [] HasConst("Add", a) -> PossibleAdd(cd, a, range)
    [] a.k = "And" /\ a.w = Bool /\ IsFixed(range) -> PossibleLogic(cd, a, range.lo, 0)
    [] a.k = "Or" /\ a.w = Bool /\ IsFixed(range) -> PossibleLogic(cd, a, range.lo, 1)
    [] HasConst("Eq", a) /\ IsFixed(range) -> PossibleEq(cd, a, range.lo)
    [] a.k = "Not" /\ a.w = Bool /\ IsFixed(range) ->
         propogatePossible(cd, a.e, Fixed(Bit(range.lo = 0)))
    [] a.k = "Ult" /\ IsFixed(range) -> PossibleLess(cd, a, range.lo, 1)
    [] a.k = "Ule" /\ IsFixed(range) -> PossibleLess(cd, a, range.lo, 0)
    [] OTHER -> cd

RECURSIVE propogateExact(_, _, _)

\* the first write that may alias takes the value, if it must; the assertions
\* say that the cell can still have it
ExactRead(cd, a, v) ==
  LET index == evalRange(a.index)
      alias == {n \in DOMAIN a.updates : mayEqual(evalRange(a.updates[n].i), index)}
      un == a.updates[Min(alias)]
      cell == cd.exact[index.lo]
  IN  IF alias # {}
      THEN IF mustEqual(evalRange(un.i), index) \/ a.index = un.i
           THEN propogateExact(cd, un.v, v) ELSE cd
      ELSE IF ~IsFixed(index) \/ IsConstantArray(a.root) THEN cd
      ELSE IF v < cell.lo \/ v > cell.hi THEN Aborted
      ELSE [cd EXCEPT !.exact[index.lo] = Fixed(v)]

propogateExact(cd, a, v) ==
  CASE cd = Aborted -> cd
    [] a.k = "Read" -> ExactRead(cd, a, v)
    [] HasConst("Eq", a) /\ v = 1 -> propogateExact(cd, a.r, a.l.c)
    [] HasConst("Eq", a) /\ v = 0 /\ a.r.w = Bool -> propogateExact(cd, a.r, 1 - a.l.c)
    [] a.k = "Not" /\ a.w = Bool -> propogateExact(cd, a.e, 1 - v)
    [] OTHER -> cd

(***************************************************************************)
(* FastCexSolver                                                           *)
(***************************************************************************)

\* getPossibleValue: the middle of the range
Guess(cd) == [i \in Cell |-> cd.possible[i].lo + (cd.possible[i].hi - cd.possible[i].lo) \div 2]
Known(cd) == [i \in Cell |-> IF IsFixed(cd.exact[i]) THEN cd.exact[i].lo ELSE NoValue]

Propogated(cs, a, checkExpr) ==
  LET to(cd, c, v) == propogateExact(propogatePossible(cd, c, Fixed(v)), c, v)
      all == FoldLeft(LAMBDA cd, c : to(cd, c, 1), CexData, cs)
  IN  IF checkExpr THEN to(all, a, 0) ELSE all

\* propogateValues: "valid", "invalid", or "none" if it cannot tell; "aborted"
propogateValues(cs, a, checkExpr, cd) ==
  IF cd = Aborted THEN "aborted"
  ELSE IF \/ checkExpr /\ IsTrue(Evaluate(a, Known(cd)))
          \/ \E n \in DOMAIN cs : IsFalse(Evaluate(cs[n], Known(cd))) THEN "valid"
  ELSE IF /\ checkExpr => IsFalse(Evaluate(a, Guess(cd)))
          /\ \A n \in DOMAIN cs : IsTrue(Evaluate(cs[n], Guess(cd))) THEN "invalid"
  ELSE "none"
=============================================================================
