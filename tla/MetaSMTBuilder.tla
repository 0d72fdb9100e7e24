--------------------------- MODULE MetaSMTBuilder ---------------------------
(* The terms that MetaSMTBuilder (lib/Solver/MetaSMTBuilder.h) builds: its    *)
(* variable shifts are the solver's, guarded against overshift, and widths    *)
(* are passed along instead of being asked of the term.                       *)
EXTENDS SolverTerms

\* the solver's shift, when both operands have the width and the amount is below it
VarShift(op, a, shift, w) ==
  IF a.s # w \/ shift.s # w THEN IllSorted
  ELSE ite(bvOp("Ult", shift, Bv(w, Trunc(w, w))), bvOp(op, a, shift), bvZero(w))

constructUDivByConstant(n, d) ==
  LET k == UDivConstants(d)
      t1 == Upper(constructMulByConstant(bvConcat(bvZero(WordBits), n), 2 * WordBits, k.m))
      half == VarShift("LShr", bvOp("Sub", n, t1), Bv(WordBits, k.sh1), WordBits)
  IN  VarShift("LShr", bvOp("Add", half, t1), Bv(WordBits, k.sh2), WordBits)

constructSDivByConstant(n, d) ==
  LET k == SDivConstants(d)
      dword == 2 * WordBits
      wide == constructMulByConstant(bvSignExtend(n, dword), dword, Trunc(k.m, dword))
      npm == bvSignExtend(bvOp("Add", n, Upper(wide)), dword)
      q == bvExtract(VarShift("LShr", npm, Bv(dword, k.shpost), dword), WordBits - 1, 0)
      q0 == bvOp("Sub", q, ite(bvBoolExtract(n, WordBits - 1), bvMinusOne(WordBits), bvZero(WordBits)))
      dsign == Bv(WordBits, Trunc(k.dsign, WordBits))
  IN  bvOp("Sub", bvOp("Xor", q0, dsign), dsign)

UnsignedDivide(l, r, e) ==
  IF IsConst(e.r) /\ isPowerOfTwo(e.r.c) THEN bvRightShift(l, indexOfSingleBit(e.r.c))
  ELSE IF IsConst(e.r) /\ NeedsFastPath(l.s) THEN constructUDivByConstant(l, e.r.c)
  ELSE bvOp("UDiv", l, r)

SignedDivide(l, r, e) ==
  IF IsConst(e.r) /\ NeedsFastPath(l.s) /\ e.r.c # 1 /\ e.r.c # Ones(l.s)
  THEN constructSDivByConstant(l, e.r.c) ELSE bvOp("SDiv", l, r)

\* a power of two goes on to the fast path of words, which replaces the result
UnsignedRemainder(l, r, e) ==
  IF IsConst(e.r) /\ NeedsFastPath(l.s)
  THEN bvOp("Sub", l, constructMulByConstant(constructUDivByConstant(l, e.r.c), l.s, e.r.c))
  ELSE IF IsConst(e.r) /\ isPowerOfTwo(e.r.c)
  THEN LET bits == indexOfSingleBit(e.r.c)
       IN  IF bits = 0 THEN bvZero(l.s)
           ELSE bvConcat(bvZero(l.s - bits), bvExtract(l, bits - 1, 0))
  ELSE bvOp("URem", l, r)

ShiftBy(op, l, r, e) ==
  IF ~IsConst(e.r) THEN VarShift(op, l, r, e.w)
  ELSE CASE op = "Shl" -> bvLeftShift(l, Amount(e.r.c))
         [] op = "LShr" -> bvRightShift(l, Amount(e.r.c))
         [] op = "AShr" -> constructAShrByConstant(l, Amount(e.r.c), bvBoolExtract(l, e.w - 1))

Cast(op, a, w) ==
  IF IsBool(a) THEN ite(a, IF op = "ZExt" THEN bvOne(w) ELSE bvMinusOne(w), bvZero(w))
  ELSE IF op = "ZExt" THEN bvConcat(bvZero(w - a.s), a) ELSE bvSignExtend(a, a.s + (w - a.s))

\* And, Or and Xor are the solver's on both sorts; an equality with a constant
\* Boolean is the other side or its negation
Relate(op, l, r, e) ==
  CASE ~IsBool(l) -> bvOp(op, l, r)
    [] op = "Eq" /\ IsBool(l) /\ IsConst(e.l) -> IF IsTrue(e.l) THEN r ELSE boolNot(r)
    [] OTHER -> boolOp(op, l, r)

\* getArrayForUpdate and getInitialArray: stores over a fresh array
RECURSIVE constructActual(_, _)
RECURSIVE Stored(_, _, _, _)
Stored(e, n, i, env) ==
  IF n <= Len(e.updates)
  THEN ite(bvOp("Eq", i, constructActual(e.updates[n].i, env)), constructActual(e.updates[n].v, env),
           Stored(e, n + 1, i, env))
  ELSE IF IsConstantArray(e.root) THEN constructActual(e.root.values[i.v + 1], env)
  ELSE Bv(Int8, env[i.v])

\* MetaSMTBuilder::constructActual
constructActual(e, env) ==
  LET T(a) == constructActual(a, env)
  IN  CASE e.k = "Constant" -> IF e.w = Bool THEN Truth(e.c = 1) ELSE Bv(e.w, e.c)
        [] e.k = "NotOptimized" -> T(e.e)
        [] e.k = "Select" -> ite(T(e.cond), T(e.l), T(e.r))
        [] e.k = "Read" -> Stored(e, 1, T(e.index), env)
        [] e.k = "Concat" -> bvConcat(T(e.l), T(e.r))
        [] e.k = "Extract" -> IF e.w = 1 THEN bvBoolExtract(T(e.e), e.off)
                              ELSE bvExtract(T(e.e), e.off + e.w - 1, e.off)
        [] e.k \in {"ZExt", "SExt"} -> Cast(e.k, T(e.e), e.w)
        [] e.k = "Mul" /\ IsConst(e.l) /\ e.w # 1 -> constructMulByConstant(T(e.r), e.w, e.l.c)
        [] e.k \in {"Add", "Sub"} \/ (e.k = "Mul" /\ (~IsConst(e.l) \/ e.w = 1)) ->
             bvOp(e.k, T(e.l), T(e.r))
        [] e.k = "UDiv" -> UnsignedDivide(T(e.l), T(e.r), e)
        [] e.k = "SDiv" -> SignedDivide(T(e.l), T(e.r), e)
        [] e.k = "URem" -> UnsignedRemainder(T(e.l), T(e.r), e)
        [] e.k = "SRem" -> bvOp("SRem", T(e.l), T(e.r))
        [] e.k = "Not" -> IF e.w = 1 THEN boolNot(T(e.e)) ELSE bvNot(T(e.e))
        [] e.k \in {"And", "Or", "Xor", "Eq"} -> Relate(e.k, T(e.l), T(e.r), e)
        [] e.k \in Shift -> IF e.w = 1 THEN IllSorted ELSE ShiftBy(e.k, T(e.l), T(e.r), e)
        [] e.k \in {"Ult", "Ule", "Slt", "Sle"} -> bvOp(e.k, T(e.l), T(e.r))
        [] OTHER -> IllSorted

\* the entry of a query's expressions
construct(e, env) == constructActual(e, env)
=============================================================================
