-------------------------------- MODULE Expr --------------------------------
(* Expressions and their construction (lib/Expr/Expr.cpp): every create       *)
(* function folds constants and rewrites towards a canonical form, which the  *)
(* solvers and the caches behind them rely on.  An expression is a record;    *)
(* its meaning, Eval, is the bit-vector it denotes under an assignment of     *)
(* values to the cells of the symbolic arrays.                                *)
EXTENDS Integers, Sequences, SequencesExt, Bitwise

CONSTANTS
  Int8,           \* bits of a byte, the range of every array (8 in the code)
  MaxMatches,     \* bound of TryConstArrayOpt (100 in the code)
  ConstArrayOpt   \* --const-array-opt

ASSUME ExprAssumption ==
  Int8 \in Nat \ {0, 1} /\ MaxMatches \in Nat /\ ConstArrayOpt \in BOOLEAN

Bool == 1
Pow2(n) == 2^n
Ones(w) == 2^w - 1                    \* all bits set
Signed(v, w) == IF v >= 2^(w - 1) THEN v - 2^w ELSE v
Trunc(v, w) == v % 2^w
Bit(b) == IF b THEN 1 ELSE 0
Quot(a, b) == IF (a < 0) = (b < 0)    \* rounds towards zero
              THEN (IF a < 0 THEN -a ELSE a) \div (IF b < 0 THEN -b ELSE b)
              ELSE -((IF a < 0 THEN -a ELSE a) \div (IF b < 0 THEN -b ELSE b))

Arithmetic == {"Add", "Sub", "Mul", "UDiv", "SDiv", "URem", "SRem", "And", "Or", "Xor",
               "Shl", "LShr", "AShr"}
Comparison == {"Eq", "Ne", "Ult", "Ule", "Ugt", "Uge", "Slt", "Sle", "Sgt", "Sge"}
Division == {"UDiv", "SDiv", "URem", "SRem"}
Shift == {"Shl", "LShr", "AShr"}
Binary == Arithmetic \cup Comparison

(***************************************************************************)
(* The operations of ConstantExpr, on values of w bits                     *)
(***************************************************************************)

Apply(op, w, a, b) ==
  LET s == Signed(a, w)  t == Signed(b, w)
  IN  CASE op = "Add"  -> Trunc(a + b, w)
        [] op = "Sub"  -> Trunc(a - b, w)
        [] op = "Mul"  -> Trunc(a * b, w)
        [] op = "UDiv" -> a \div b
        [] op = "URem" -> a % b
        [] op = "SDiv" -> Trunc(Quot(s, t), w)
        [] op = "SRem" -> Trunc(s - t * Quot(s, t), w)
        [] op = "And"  -> a & b
        [] op = "Or"   -> a | b
        [] op = "Xor"  -> a ^^ b
        [] op = "Shl"  -> IF b >= w THEN 0 ELSE Trunc(a * Pow2(b), w)
        [] op = "LShr" -> IF b >= w THEN 0 ELSE a \div Pow2(b)
        [] op = "AShr" -> Trunc(IF b >= w THEN (IF s < 0 THEN -1 ELSE 0)
                                ELSE s \div Pow2(b), w)
        [] op = "Eq"   -> Bit(a = b)
        [] op = "Ne"   -> Bit(a # b)
        [] op = "Ult"  -> Bit(a < b)
        [] op = "Ule"  -> Bit(a <= b)
        [] op = "Ugt"  -> Bit(a > b)
        [] op = "Uge"  -> Bit(a >= b)
        [] op = "Slt"  -> Bit(s < t)
        [] op = "Sle"  -> Bit(s <= t)
        [] op = "Sgt"  -> Bit(s > t)
        [] op = "Sge"  -> Bit(s >= t)

\* ConstantExpr::Extract and SExt
Bits(v, off, w) == Trunc(v \div Pow2(off), w)
SExtend(v, from, w) == Trunc(Signed(v, from), w)

(***************************************************************************)
(* Expressions                                                             *)
(***************************************************************************)

Const(w, v) == [k |-> "Constant", w |-> w, c |-> v]
True == Const(Bool, 1)
False == Const(Bool, 0)
Zero(w) == Const(w, 0)
Alloc(op, a, b) ==
  [k |-> op, w |-> IF op \in Comparison THEN Bool ELSE a.w, l |-> a, r |-> b]
AllocNot(a) == [k |-> "Not", w |-> a.w, e |-> a]
AllocCast(op, a, width) == [k |-> op, w |-> width, e |-> a]
AllocExtract(a, o, width) == [k |-> "Extract", w |-> width, e |-> a, off |-> o]
AllocConcat(a, b) == [k |-> "Concat", w |-> a.w + b.w, l |-> a, r |-> b]
AllocSelect(c, t, f) == [k |-> "Select", w |-> t.w, cond |-> c, l |-> t, r |-> f]
\* an UpdateList is its root and its updates, the latest first; a root with
\* values is a constant array
AllocRead(a, ul, index) == [k |-> "Read", w |-> Int8, root |-> a, updates |-> ul, index |-> index]

IsConst(a) == a.k = "Constant"
IsTrue(a) == IsConst(a) /\ a.w = Bool /\ a.c = 1
IsFalse(a) == IsConst(a) /\ a.w = Bool /\ a.c = 0
IsZero(a) == IsConst(a) /\ a.c = 0
IsConstantArray(a) == a.values # << >>

\* The value of a under the assignment env of the symbolic arrays' cells.
RECURSIVE Eval(_, _)
Eval(a, env) ==
  CASE a.k = "Constant" -> a.c
    [] a.k = "NotOptimized" -> Eval(a.e, env)
    [] a.k = "Read" ->
         LET i == Eval(a.index, env)
             Hits == {n \in DOMAIN a.updates : Eval(a.updates[n].i, env) = i}
         IN  IF Hits # {} THEN Eval(a.updates[CHOOSE n \in Hits : \A m \in Hits : n <= m].v, env)
             ELSE IF IsConstantArray(a.root) THEN a.root.values[i + 1].c
             ELSE env[i]
    [] a.k = "Select" -> IF Eval(a.cond, env) = 1 THEN Eval(a.l, env) ELSE Eval(a.r, env)
    [] a.k = "Concat" -> Eval(a.l, env) * Pow2(a.r.w) + Eval(a.r, env)
    [] a.k = "Extract" -> Bits(Eval(a.e, env), a.off, a.w)
    [] a.k = "ZExt" -> Eval(a.e, env)
    [] a.k = "SExt" -> SExtend(Eval(a.e, env), a.e.w, a.w)
    [] a.k = "Not" -> Ones(a.w) - Eval(a.e, env)
    [] OTHER -> Apply(a.k, a.l.w, Eval(a.l, env), Eval(a.r, env))

(***************************************************************************)
(* The create functions                                                    *)
(***************************************************************************)

RECURSIVE Create(_, _, _)
RECURSIVE EqPartialR(_, _)
RECURSIVE ExtractCreate(_, _, _)

createIsZero(a) == Create("Eq", a, Zero(a.w))

ConcatCreate(a, b) ==
  IF IsConst(a) /\ IsConst(b) THEN Const(a.w + b.w, a.c * Pow2(b.w) + b.c)
  ELSE IF a.k = "Extract" /\ b.k = "Extract" /\ a.e = b.e /\ b.off + b.w = a.off
  THEN ExtractCreate(a.e, b.off, a.w + b.w)
  ELSE AllocConcat(a, b)

ExtractCreate(a, off, w) ==
  IF w = a.w THEN a
  ELSE IF IsConst(a) THEN Const(w, Bits(a.c, off, w))
  ELSE IF a.k = "Concat" /\ off >= a.r.w THEN ExtractCreate(a.l, off - a.r.w, w)
  ELSE IF a.k = "Concat" /\ off + w <= a.r.w THEN ExtractCreate(a.r, off, w)
  ELSE IF a.k = "Concat"
  THEN ConcatCreate(ExtractCreate(a.l, 0, w - a.r.w + off), ExtractCreate(a.r, off, a.r.w - off))
  ELSE AllocExtract(a, off, w)

NotCreate(a) == IF IsConst(a) THEN Const(a.w, Ones(a.w) - a.c) ELSE AllocNot(a)

CastCreate(op, a, w) ==
  IF w = a.w THEN a
  ELSE IF w < a.w THEN ExtractCreate(a, 0, w)
  ELSE IF IsConst(a) THEN Const(w, IF op = "ZExt" THEN a.c ELSE SExtend(a.c, a.w, w))
  ELSE AllocCast(op, a, w)

\* the condition c, or its negation
Either(c, yes) == IF yes THEN c ELSE createIsZero(c)

\* c or a = (c ? true : a), ~c or a = (c ? a : true); with a false arm, and
SelectCreate(c, t, f) ==
  IF IsConst(c) THEN (IF IsTrue(c) THEN t ELSE f)
  ELSE IF t = f THEN t
  ELSE IF t.w = Bool /\ IsConst(t)
  THEN Create(IF IsTrue(t) THEN "Or" ELSE "And", Either(c, IsTrue(t)), f)
  ELSE IF t.w = Bool /\ IsConst(f)
  THEN Create(IF IsTrue(f) THEN "Or" ELSE "And", Either(c, ~IsTrue(f)), t)
  ELSE AllocSelect(c, t, f)

\* k + a or k - a, for a constant k
HasConst(op, a) == a.k = op /\ IsConst(a.l)

EqCreate(a, b) == IF a = b THEN True ELSE Alloc("Eq", a, b)

XorPartialR(c, a) ==
  IF IsZero(c) THEN a
  ELSE IF c.w = Bool THEN EqPartialR(False, a)
  ELSE Alloc("Xor", c, a)

AddPartialR(c, a) ==
  IF c.w = Bool THEN XorPartialR(c, a)
  ELSE IF IsZero(c) THEN a
  ELSE IF HasConst("Add", a) THEN Create("Add", Create("Add", c, a.l), a.r)
  ELSE IF HasConst("Sub", a) THEN Create("Sub", Create("Add", c, a.l), a.r)
  ELSE Alloc("Add", c, a)

SubPartialR(c, a) ==
  IF c.w = Bool THEN XorPartialR(c, a)
  ELSE IF HasConst("Add", a) THEN Create("Sub", Create("Sub", c, a.l), a.r)
  ELSE IF HasConst("Sub", a) THEN Create("Add", Create("Sub", c, a.l), a.r)
  ELSE Alloc("Sub", c, a)

AndPartial(a, c) ==
  IF c.c = Ones(c.w) THEN a ELSE IF IsZero(c) THEN c ELSE Alloc("And", a, c)

OrPartial(a, c) ==
  IF c.c = Ones(c.w) THEN c ELSE IF IsZero(c) THEN a ELSE Alloc("Or", a, c)

MulPartialR(c, a) ==
  IF c.w = Bool THEN AndPartial(a, c)
  ELSE IF c.c = 1 THEN a
  ELSE IF IsZero(c) THEN c
  ELSE Alloc("Mul", c, a)

\* c == a read of a constant array: a disjunction over the matching indices
TryConstArrayOpt(c, a) ==
  LET vals == a.root.values
      Hits == SelectSeq([i \in DOMAIN vals |-> i], LAMBDA i : vals[i] = c)
  IN  IF ~IsConstantArray(a.root) \/ a.updates # << >> \/ Len(Hits) > MaxMatches
      THEN EqCreate(c, a)
      ELSE FoldLeft(LAMBDA res, i :
                      Create("Or", res, Create("Eq", a.index, Const(a.index.w, i - 1))),
                    False, Hits)

\* Mutant of EqPartialR: a constant that the extension cannot produce is not
\* recognised.
EqAnyTrunc(c, a) ==
  IF a.k \in {"SExt", "ZExt"} THEN Create("Eq", a.e, Const(a.e.w, Trunc(c.c, a.e.w)))
  ELSE EqCreate(c, a)

EqPartialR(c, a) ==
  IF c.w = Bool
  THEN IF IsTrue(c) THEN a
       ELSE IF a.k = "Eq" /\ IsFalse(a.l) THEN a.r
       ELSE IF a.k = "Or" THEN Create("And", createIsZero(a.l), createIsZero(a.r))
       ELSE EqCreate(c, a)
  ELSE CASE a.k = "SExt" ->
              LET trunc == Const(a.e.w, Trunc(c.c, a.e.w))
              IN  IF c.c = SExtend(trunc.c, a.e.w, c.w) THEN Create("Eq", a.e, trunc) ELSE False
         [] a.k = "ZExt" ->
              LET trunc == Const(a.e.w, Trunc(c.c, a.e.w))
              IN  IF c.c = trunc.c THEN Create("Eq", a.e, trunc) ELSE False
         [] HasConst("Add", a) -> EqPartialR(Create("Sub", c, a.l), a.r)
         [] HasConst("Sub", a) -> EqPartialR(Create("Sub", a.l, c), a.r)
         [] a.k = "Read" /\ ConstArrayOpt -> TryConstArrayOpt(c, a)
         [] OTHER -> EqCreate(c, a)

AddCreate(a, b) ==
  IF HasConst("Add", a) THEN Create("Add", a.l, Create("Add", a.r, b))
  ELSE IF HasConst("Sub", a) THEN Create("Add", a.l, Create("Sub", b, a.r))
  ELSE IF HasConst("Add", b) THEN Create("Add", b.l, Create("Add", a, b.r))
  ELSE IF HasConst("Sub", b) THEN Create("Add", b.l, Create("Sub", a, b.r))
  ELSE Alloc("Add", a, b)

SubCreate(a, b) ==
  IF a = b THEN Zero(a.w)
  ELSE IF HasConst("Add", a) THEN Create("Add", a.l, Create("Sub", a.r, b))
  ELSE IF HasConst("Sub", a) THEN Create("Sub", a.l, Create("Add", a.r, b))
  ELSE IF HasConst("Add", b) THEN Create("Sub", Create("Sub", a, b.r), b.l)
  ELSE IF HasConst("Sub", b) THEN Create("Sub", Create("Add", a, b.r), b.l)
  ELSE Alloc("Sub", a, b)

\* one operand is the constant c, on the left or on the right
Partial(op, c, a, left) ==
  CASE op = "Add" -> AddPartialR(c, a)
    [] op = "Sub" /\ left -> SubPartialR(c, a)
    [] op = "Sub" /\ ~left -> AddPartialR(Const(c.w, Trunc(-c.c, c.w)), a)
    [] op = "Mul" -> MulPartialR(c, a)
    [] op = "And" -> AndPartial(a, c)
    [] op = "Or"  -> OrPartial(a, c)
    [] op = "Xor" -> XorPartialR(c, a)
    [] op = "Eq"  -> EqPartialR(c, a)

\* The operations of booleans: a divisor is 1, a shift is by 0 or to nothing
BoolCreate(op, a, b) ==
  CASE op \in {"Add", "Sub", "Xor"} -> Alloc("Xor", a, b)
    [] op \in {"Mul", "And"} -> Alloc("And", a, b)
    [] op = "Or" -> Alloc("Or", a, b)
    [] op \in {"UDiv", "SDiv", "AShr"} -> a
    [] op \in {"URem", "SRem"} -> False
    [] op \in {"Shl", "LShr"} -> Create("And", a, createIsZero(b))
    [] op = "Eq"  -> EqCreate(a, b)
    [] op = "Ult" -> Create("And", createIsZero(a), b)
    [] op = "Ule" -> Create("Or", createIsZero(a), b)
    [] op = "Slt" -> Create("And", a, createIsZero(b))
    [] op = "Sle" -> Create("Or", a, createIsZero(b))

Create(op, a, b) ==
  CASE op = "Ne"  -> Create("Eq", False, Create("Eq", a, b))
    [] op = "Ugt" -> Create("Ult", b, a)
    [] op = "Uge" -> Create("Ule", b, a)
    [] op = "Sgt" -> Create("Slt", b, a)
    [] op = "Sge" -> Create("Sle", b, a)
    [] OTHER ->
         IF IsConst(a) /\ IsConst(b)
         THEN Const(IF op \in Comparison THEN Bool ELSE a.w, Apply(op, a.w, a.c, b.c))
         ELSE IF op \in {"Add", "Sub", "Mul", "And", "Or", "Xor", "Eq"} /\ IsConst(a)
         THEN Partial(op, a, b, TRUE)
         ELSE IF op \in {"Add", "Sub", "Mul", "And", "Or", "Xor", "Eq"} /\ IsConst(b)
         THEN Partial(op, b, a, FALSE)
         ELSE IF a.w = Bool THEN BoolCreate(op, a, b)
         ELSE CASE op = "Add" -> AddCreate(a, b)
                [] op = "Sub" -> SubCreate(a, b)
                [] op = "Eq"  -> EqCreate(a, b)
                [] OTHER -> Alloc(op, a, b)

\* ReadExpr::create: writes that are known to go elsewhere are looked through;
\* Eqs is whether the index is that of each write, un the first write that may be it
ReadPast(root, ul, index, Eqs, un) ==
  IF un <= Len(ul) /\ IsTrue(Eqs[un]) THEN ul[un].v
  ELSE IF ~IsConst(index) \/ index.c >= root.size THEN AllocRead(root, ul, index)
  ELSE IF IsConstantArray(root) /\ un > Len(ul) THEN root.values[index.c + 1]
  ELSE AllocRead(root, SubSeq(ul, un, Len(ul)), index)

ReadAmong(root, ul, index, Eqs) ==
  ReadPast(root, ul, index, Eqs,
           CHOOSE n \in 1..Len(ul) + 1 : /\ n <= Len(ul) => ~IsFalse(Eqs[n])
                                          /\ \A m \in 1..n - 1 : IsFalse(Eqs[m]))

ReadCreate(root, ul, index) ==
  ReadAmong(root, ul, index, [n \in DOMAIN ul |-> Create("Eq", index, ul[n].i)])
=============================================================================
