----------------------------- MODULE STPBuilder -----------------------------
(* The terms that STPBuilder (lib/Solver/STPBuilder.cpp) builds.              *)
EXTENDS SolverTerms

\* the bits that a shift amount below the width needs
extractPartialShiftValue(shift, w) ==
  bvExtract(shift, (CHOOSE n \in 1..w : Pow2(n) > w /\ Pow2(n - 1) <= w) - 1, 0)

\* one case per shift amount below the width; beyond it, zero
Cases(a, shift, ByConstant(_, _), first, last) ==
  LET part == extractPartialShiftValue(shift, a.s)
      RECURSIVE From(_, _)
      From(i, res) ==
        IF i < 0 THEN res
        ELSE From(i - 1, ite(bvOp("Eq", part, Bv(part.s, i)), ByConstant(a, i), res))
  IN  ite(bvOp("Ult", shift, Bv(shift.s, Trunc(a.s, shift.s))), From(first, last), bvZero(a.s))

bvVarLeftShift(a, shift) == Cases(a, shift, bvLeftShift, a.s - 1, bvZero(a.s))
bvVarRightShift(a, shift) == Cases(a, shift, bvRightShift, a.s - 1, bvZero(a.s))
bvVarArithRightShift(a, shift) ==
  LET ByConstant(x, i) == constructAShrByConstant(x, i, bvBoolExtract(x, x.s - 1))
  IN  Cases(a, shift, ByConstant, a.s - 2, ByConstant(a, a.s - 1))

constructUDivByConstant(n, d) ==
  LET k == UDivConstants(d)
      t1 == Upper(constructMulByConstant(bvConcat(bvZero(WordBits), n), 2 * WordBits, k.m))
      half == bvVarRightShift(bvOp("Sub", n, t1), Bv(WordBits, k.sh1))
  IN  bvVarRightShift(bvOp("Add", half, t1), Bv(WordBits, k.sh2))

constructSDivByConstant(n, d) ==
  LET k == SDivConstants(d)
      wide == constructMulByConstant(bvSignExtend(n, 2 * WordBits), 2 * WordBits,
                                     Trunc(k.m, 2 * WordBits))
      npm == bvOp("Add", n, Upper(wide))
      shifted == bvExtract(bvVarRightShift(bvSignExtend(npm, 2 * WordBits), Bv(WordBits, k.shpost)),
                           WordBits - 1, 0)
      xsign == ite(bvBoolExtract(n, WordBits - 1), bvMinusOne(WordBits), bvZero(WordBits))
      dsign == Bv(WordBits, Trunc(k.dsign, WordBits))
  IN  bvOp("Sub", bvOp("Xor", bvOp("Sub", shifted, xsign), dsign), dsign)

constructURem(l, d) ==
  IF isPowerOfTwo(d)
  THEN IF d = 1 THEN bvZero(l.s)
       ELSE bvConcat(bvZero(l.s - indexOfSingleBit(d)), bvExtract(l, indexOfSingleBit(d) - 1, 0))
  ELSE bvOp("Sub", l, constructMulByConstant(constructUDivByConstant(l, d), l.s, d))

Divide(op, l, r, e) ==
  LET c == e.r.c
      fast == IsConst(e.r) /\ NeedsFastPath(l.s)
  IN  CASE op = "UDiv" /\ IsConst(e.r) /\ isPowerOfTwo(c) -> bvRightShift(l, indexOfSingleBit(c))
        [] op = "UDiv" /\ fast /\ ~isPowerOfTwo(c) -> constructUDivByConstant(l, c)
        [] op = "SDiv" /\ fast /\ c # 1 /\ c # Ones(l.s) -> constructSDivByConstant(l, c)
        [] op = "URem" /\ IsConst(e.r) /\ (fast \/ isPowerOfTwo(c)) -> constructURem(l, c)
        [] OTHER -> bvOp(op, l, r)

ShiftBy(op, l, r, e) ==
  CASE op = "Shl" /\ IsConst(e.r) -> bvLeftShift(l, Amount(e.r.c))
    [] op = "LShr" /\ IsConst(e.r) -> bvRightShift(l, Amount(e.r.c))
    [] op = "AShr" /\ IsConst(e.r) -> constructAShrByConstant(l, Amount(e.r.c), bvBoolExtract(l, l.s - 1))
    [] op = "Shl" /\ ~IsConst(e.r) -> bvVarLeftShift(l, r)
    [] op = "LShr" /\ ~IsConst(e.r) -> bvVarRightShift(l, r)
    [] op = "AShr" /\ ~IsConst(e.r) -> bvVarArithRightShift(l, r)

Cast(op, a, w) ==
  IF IsBool(a) THEN ite(a, IF op = "ZExt" THEN bvOne(w) ELSE bvMinusOne(w), bvZero(w))
  ELSE IF op = "ZExt" THEN bvConcat(bvZero(w - a.s), a) ELSE bvSignExtend(a, w)

Bitwise2(op, l, r) ==
  IF IsBool(l)
  THEN IF op = "Xor" THEN ite(l, boolNot(r), r) ELSE boolOp(op, l, r)
  ELSE bvOp(op, l, r)

Equal(l, r, e) ==
  IF IsBool(l) /\ IsConst(e.l) THEN (IF IsTrue(e.l) THEN r ELSE boolNot(r))
  ELSE IF IsBool(l) THEN boolOp("Eq", l, r) ELSE bvOp("Eq", l, r)

\* STPBuilder::constructActual; constants and arrays of one bit are Booleans
RECURSIVE constructActual(_, _)
constructActual(e, env) ==
  LET T(a) == constructActual(a, env)
  IN  CASE e.k = "Constant" -> IF e.w = Bool THEN Truth(e.c = 1) ELSE Bv(e.w, e.c)
        [] e.k = "NotOptimized" -> T(e.e)
        [] e.k = "Read" ->    \* getArrayForUpdate: the writes, the latest outermost
             LET i == T(e.index)
                 RECURSIVE From(_)
                 From(n) == IF n > Len(e.updates)
                            THEN IF IsConstantArray(e.root) THEN T(e.root.values[i.v + 1])
                                 ELSE Bv(Int8, env[i.v])
                            ELSE ite(bvOp("Eq", i, T(e.updates[n].i)), T(e.updates[n].v), From(n + 1))
             IN  From(1)
        [] e.k = "Select" -> ite(T(e.cond), T(e.l), T(e.r))
        [] e.k = "Concat" -> bvConcat(T(e.l), T(e.r))
        [] e.k = "Extract" -> IF e.w = 1 THEN bvBoolExtract(T(e.e), e.off)
                              ELSE bvExtract(T(e.e), e.off + e.w - 1, e.off)
        [] e.k \in {"ZExt", "SExt"} -> Cast(e.k, T(e.e), e.w)
        [] e.k = "Mul" /\ IsConst(e.l) /\ e.w # 1 -> constructMulByConstant(T(e.r), e.w, e.l.c)
        [] e.k \in {"Add", "Sub"} \/ (e.k = "Mul" /\ ~(IsConst(e.l) /\ e.w # 1)) ->
             bvOp(e.k, T(e.l), T(e.r))
        [] e.k \in Division -> Divide(e.k, T(e.l), T(e.r), e)
        [] e.k = "Not" -> IF e.w = 1 THEN boolNot(T(e.e)) ELSE bvNot(T(e.e))
        [] e.k \in {"And", "Or", "Xor"} -> Bitwise2(e.k, T(e.l), T(e.r))
        [] e.k \in Shift -> IF e.w = 1 THEN IllSorted ELSE ShiftBy(e.k, T(e.l), T(e.r), e)
        [] e.k = "Eq" -> Equal(T(e.l), T(e.r), e)
        [] e.k \in {"Ult", "Ule", "Slt", "Sle"} -> bvOp(e.k, T(e.l), T(e.r))
        [] OTHER -> IllSorted          \* unhandled Expr type

\* the entry of a query's expressions
construct(e, env) == constructActual(e, env)
=============================================================================
