----------------------------- MODULE ExprBuilder -----------------------------
(* The expression builders of kleaver (lib/Expr/ExprBuilder.cpp): the default *)
(* builder allocates what it is asked for, the folding builder is chained     *)
(* before it and the simplifying builder before that.  A chained builder      *)
(* folds constants first and hands the rest to its helper, which rewrites     *)
(* with the outermost builder or goes on to its base.                         *)
EXTENDS Expr

(***************************************************************************)
(* ConstantFoldingExprBuilder over the default builder                     *)
(***************************************************************************)

RECURSIVE Fold(_, _, _)

Neg(c) == Const(c.w, Trunc(-c.c, c.w))
AddC(c, d) == Const(c.w, Apply("Add", c.w, c.c, d.c))
SubC(c, d) == Const(c.w, Apply("Sub", c.w, c.c, d.c))

\* Builder.Add(constant, other)
FoldAddC(c, a) ==
  IF IsZero(c) THEN a ELSE
  CASE a.k = "Add" /\ IsConst(a.l) -> Fold("Add", AddC(c, a.l), a.r)
    [] a.k = "Add" /\ ~IsConst(a.l) /\ IsConst(a.r) -> Fold("Add", AddC(c, a.r), a.l)
    [] a.k = "Sub" /\ IsConst(a.l) -> Fold("Sub", AddC(c, a.l), a.r)
    [] a.k = "Sub" /\ ~IsConst(a.l) /\ IsConst(a.r) -> Fold("Add", SubC(c, a.r), a.l)
    [] OTHER -> Alloc("Add", c, a)

FoldSubC(c, a) ==
  CASE a.k = "Add" /\ IsConst(a.l) -> Fold("Sub", SubC(c, a.l), a.r)
    [] a.k = "Add" /\ ~IsConst(a.l) /\ IsConst(a.r) -> Fold("Sub", SubC(c, a.r), a.l)
    [] a.k = "Sub" /\ IsConst(a.l) -> Fold("Add", SubC(c, a.l), a.r)
    [] a.k = "Sub" /\ ~IsConst(a.l) /\ IsConst(a.r) -> Fold("Sub", AddC(c, a.r), a.l)
    [] OTHER -> Alloc("Sub", c, a)

FoldAdd(a, b) ==
  CASE a.k = "Add" -> Fold("Add", a.l, Fold("Add", a.r, b))
    [] a.k = "Sub" -> Fold("Add", a.l, Fold("Sub", b, a.r))
    [] a.k \notin {"Add", "Sub"} /\ b.k = "Add" /\ IsConst(b.l) -> Fold("Add", b.l, Fold("Add", a, b.r))
    [] a.k \notin {"Add", "Sub"} /\ b.k = "Add" /\ ~IsConst(b.l) /\ IsConst(b.r) ->
         Fold("Add", b.r, Fold("Add", a, b.l))
    [] a.k \notin {"Add", "Sub"} /\ b.k = "Sub" /\ IsConst(b.l) -> Fold("Add", b.l, Fold("Sub", a, b.r))
    [] a.k \notin {"Add", "Sub"} /\ b.k = "Sub" /\ ~IsConst(b.l) /\ IsConst(b.r) ->
         Fold("Add", Neg(b.r), Fold("Add", a, b.l))
    [] OTHER -> Alloc("Add", a, b)

FoldSub(a, b) ==
  CASE a.k = "Add" -> Fold("Add", a.l, Fold("Sub", a.r, b))
    [] a.k = "Sub" -> Fold("Sub", a.l, Fold("Add", a.r, b))
    [] a.k \notin {"Add", "Sub"} /\ b.k = "Add" /\ IsConst(b.l) ->
         Fold("Add", Neg(b.l), Fold("Sub", a, b.r))
    [] a.k \notin {"Add", "Sub"} /\ b.k = "Add" /\ ~IsConst(b.l) /\ IsConst(b.r) ->
         Fold("Add", Neg(b.r), Fold("Sub", a, b.l))
    [] a.k \notin {"Add", "Sub"} /\ b.k = "Sub" /\ IsConst(b.l) ->
         Fold("Add", Neg(b.l), Fold("Add", a, b.r))
    [] a.k \notin {"Add", "Sub"} /\ b.k = "Sub" /\ ~IsConst(b.l) /\ IsConst(b.r) ->
         Fold("Add", b.r, Fold("Sub", a, b.l))
    [] OTHER -> Alloc("Sub", a, b)

\* one operand is the constant c: Mul, And, Or, Xor and Eq are symmetric
FoldC(op, c, a) ==
  CASE op \in {"Mul", "And"} /\ IsZero(c) -> c
    [] op = "Mul" /\ c.c = 1 -> a
    [] op = "And" /\ c.c = Ones(c.w) /\ ~IsZero(c) -> a
    [] op \in {"Or", "Xor"} /\ IsZero(c) -> a
    [] op = "Or" /\ c.c = Ones(c.w) /\ ~IsZero(c) -> c
    [] op = "Eq" /\ IsTrue(c) -> a
    [] op = "Eq" /\ IsFalse(c) -> AllocNot(a)
    [] OTHER -> Alloc(op, c, a)

Symmetric == {"Mul", "And", "Or", "Xor", "Eq"}

\* ConstantSpecializedExprBuilder: two constants are folded, and a helper sees
\* which of the operands is one
Folded(op, a, b) == Const(IF op \in Comparison THEN Bool ELSE a.w, Apply(op, a.w, a.c, b.c))

FoldLinear(op, a, b) ==
  CASE IsConst(a) -> IF op = "Add" THEN FoldAddC(a, b) ELSE FoldSubC(a, b)
    [] ~IsConst(a) /\ IsConst(b) -> FoldAddC(IF op = "Add" THEN b ELSE Neg(b), a)
    [] OTHER -> IF op = "Add" THEN FoldAdd(a, b) ELSE FoldSub(a, b)

FoldSymmetric(op, a, b) ==
  IF IsConst(a) THEN FoldC(op, a, b) ELSE IF IsConst(b) THEN FoldC(op, b, a) ELSE Alloc(op, a, b)

Fold(op, a, b) ==
  IF IsConst(a) /\ IsConst(b) THEN Folded(op, a, b)
  ELSE CASE op \in {"Add", "Sub"} -> FoldLinear(op, a, b)
         [] op \in Symmetric -> FoldSymmetric(op, a, b)
         [] OTHER -> Alloc(op, a, b)    \* divisions, shifts and comparisons go to the base

FoldNot(a) ==
  IF a.k = "Not" THEN a.e ELSE IF IsConst(a) THEN Const(a.w, Ones(a.w) - a.c) ELSE AllocNot(a)

(***************************************************************************)
(* SimplifyingExprBuilder over the folding one                             *)
(***************************************************************************)

RECURSIVE SimplifyNot(_)
RECURSIVE Simplify(_, _, _)

SimplifyNot(a) ==
  IF a.k = "Not" THEN a.e
  ELSE IF a.k = "Or" THEN Simplify("And", SimplifyNot(a.l), SimplifyNot(a.r))
  ELSE FoldNot(a)

Simplify(op, a, b) ==
  CASE IsConst(a) /\ IsConst(b) -> Folded(op, a, b)
    [] op = "Eq" /\ IsConst(a) /\ ~IsConst(b) /\ a.w = Bool ->
         IF IsTrue(a) THEN b ELSE FoldNot(b)
    [] op = "Eq" /\ ~IsConst(a) /\ IsConst(b) /\ a.w = Bool ->
         IF IsTrue(b) THEN a ELSE FoldNot(a)
    [] op = "Eq" /\ ~IsConst(a) /\ ~IsConst(b) /\ a = b -> True
    [] op = "Ne" /\ ~(IsConst(a) /\ IsConst(b)) -> SimplifyNot(Simplify("Eq", a, b))
    [] op = "Ugt" /\ ~(IsConst(a) /\ IsConst(b)) -> Simplify("Ult", b, a)
    [] op = "Uge" /\ ~(IsConst(a) /\ IsConst(b)) -> Simplify("Ule", b, a)
    [] op = "Sgt" /\ ~(IsConst(a) /\ IsConst(b)) -> Simplify("Slt", b, a)
    [] op = "Sge" /\ ~(IsConst(a) /\ IsConst(b)) -> Simplify("Sle", b, a)
    [] OTHER -> Fold(op, a, b)

\* The rest of the operations; only the folding of constants is shared by the
\* folding builder and the simplifying one, which passes them on.
FoldSelect(c, t, f) == IF IsConst(c) THEN (IF IsTrue(c) THEN t ELSE f) ELSE AllocSelect(c, t, f)
FoldConcat(a, b) ==
  IF IsConst(a) /\ IsConst(b) THEN Const(a.w + b.w, a.c * Pow2(b.w) + b.c) ELSE AllocConcat(a, b)
FoldExtract(a, off, w) == IF IsConst(a) THEN Const(w, Bits(a.c, off, w)) ELSE AllocExtract(a, off, w)
FoldCast(op, a, w) ==
  IF IsConst(a) THEN Const(w, IF op = "ZExt" THEN a.c ELSE SExtend(a.c, a.w, w))
  ELSE AllocCast(op, a, w)

\* writes to other places are looked through, whatever the index
FoldRead(root, ul, index, Equal(_, _)) ==
  LET stop == {n \in DOMAIN ul : ~IsFalse(Equal(index, ul[n].i))}
      un == IF stop = {} THEN Len(ul) + 1 ELSE CHOOSE n \in stop : \A m \in stop : n <= m
  IN  AllocRead(root, SubSeq(ul, un, Len(ul)), index)

(***************************************************************************)
(* What the builder of the given kind makes of an operation                *)
(***************************************************************************)

Build(kind, op, a, b) ==
  CASE kind = "default" -> Alloc(op, a, b)
    [] kind = "folding" -> Fold(op, a, b)
    [] kind = "simplifying" -> Simplify(op, a, b)
BuildNot(kind, a) ==
  CASE kind = "default" -> AllocNot(a)
    [] kind = "folding" -> FoldNot(a)
    [] kind = "simplifying" -> SimplifyNot(a)
BuildSelect(kind, c, t, f) ==
  IF kind = "default" THEN AllocSelect(c, t, f) ELSE FoldSelect(c, t, f)
BuildConcat(kind, a, b) == IF kind = "default" THEN AllocConcat(a, b) ELSE FoldConcat(a, b)
BuildExtract(kind, a, off, w) ==
  IF kind = "default" THEN AllocExtract(a, off, w) ELSE FoldExtract(a, off, w)
BuildCast(kind, op, a, w) ==
  IF kind = "default" THEN AllocCast(op, a, w) ELSE FoldCast(op, a, w)
BuildRead(kind, root, ul, index) ==
  LET Equal(a, b) == Build(kind, "Eq", a, b)
  IN  IF kind = "default" THEN AllocRead(root, ul, index) ELSE FoldRead(root, ul, index, Equal)
=============================================================================
