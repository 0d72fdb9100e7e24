------------------------------ MODULE Z3Builder ------------------------------
(* The terms that Z3Builder (lib/Solver/Z3Builder.cpp) builds: its shifts are *)
(* case distinctions on the whole amount, multiplication and signed division  *)
(* are the solver's.                                                          *)
EXTENDS SolverTerms

VarShift(a, shift, ByConstant(_, _), first, last) ==
  LET RECURSIVE From(_, _)
      From(i, res) ==
        IF i < 0 THEN res
        ELSE From(i - 1, ite(bvOp("Eq", shift, Bv(a.s, i)), ByConstant(a, i), res))
  IN  ite(bvOp("Ult", shift, Bv(shift.s, Trunc(a.s, shift.s))), From(first, last), bvZero(a.s))

bvVarLeftShift(a, shift) == VarShift(a, shift, bvLeftShift, a.s - 1, bvZero(a.s))
bvVarRightShift(a, shift) == VarShift(a, shift, bvRightShift, a.s - 1, bvZero(a.s))
bvVarArithRightShift(a, shift) ==
  LET ByConstant(x, i) == constructAShrByConstant(x, i, bvBoolExtract(x, x.s - 1))
  IN  VarShift(a, shift, ByConstant, a.s - 2, ByConstant(a, a.s - 1))

\* only unsigned division by a power of two is not left to the solver
Divide(op, l, r, e) ==
  LET pow == IsConst(e.r) /\ isPowerOfTwo(e.r.c)
      bits == indexOfSingleBit(e.r.c)
  IN  CASE op = "UDiv" /\ pow -> bvRightShift(l, bits)
        [] op = "URem" /\ pow -> IF bits = 0 THEN bvZero(l.s)
                                 ELSE bvConcat(bvZero(l.s - bits), bvExtract(l, bits - 1, 0))
        [] OTHER -> bvOp(op, l, r)

ShiftBy(op, l, r, e) ==
  CASE op = "Shl" -> IF IsConst(e.r) THEN bvLeftShift(l, Amount(e.r.c)) ELSE bvVarLeftShift(l, r)
    [] op = "LShr" -> IF IsConst(e.r) THEN bvRightShift(l, Amount(e.r.c)) ELSE bvVarRightShift(l, r)
    [] op = "AShr" ->
         IF IsConst(e.r) THEN constructAShrByConstant(l, Amount(e.r.c), bvBoolExtract(l, l.s - 1))
         ELSE bvVarArithRightShift(l, r)

Cast(op, a, w) ==
  CASE IsBool(a) -> ite(a, IF op = "ZExt" THEN bvOne(w) ELSE bvMinusOne(w), bvZero(w))
    [] IsBv(a) /\ op = "ZExt" -> bvConcat(bvZero(w - a.s), a)
    [] OTHER -> bvSignExtend(a, w)

\* And, Or, Xor and Eq on Booleans
Logic(op, l, r, e) ==
  CASE op = "Xor" -> ite(l, boolNot(r), r)
    [] op = "Eq" /\ IsConst(e.l) -> IF IsTrue(e.l) THEN r ELSE boolNot(r)
    [] OTHER -> boolOp(op, l, r)

\* the array with its writes; a constant array is a variable that assertions
\* of Z3Solver give its values
RECURSIVE constructActual(_, _)
ReadFrom(e, env) ==
  LET i == constructActual(e.index, env)
      Hits == {n \in DOMAIN e.updates : constructActual(e.updates[n].i, env) = i}
  IN  IF \E n \in DOMAIN e.updates : constructActual(e.updates[n].i, env).s # i.s THEN IllSorted
      ELSE IF Hits # {} THEN constructActual(e.updates[CHOOSE n \in Hits : \A m \in Hits : n <= m].v, env)
      ELSE IF IsConstantArray(e.root) THEN constructActual(e.root.values[i.v + 1], env)
      ELSE Bv(Int8, env[i.v])

\* Z3Builder::constructActual
constructActual(e, env) ==
  LET T(a) == constructActual(a, env)
  IN  CASE e.k = "Constant" -> IF e.w = Bool THEN Truth(e.c = 1) ELSE Bv(e.w, e.c)
        [] e.k = "NotOptimized" -> T(e.e)
        [] e.k = "Read" -> ReadFrom(e, env)
        [] e.k = "Select" -> ite(T(e.cond), T(e.l), T(e.r))
        [] e.k = "Concat" -> bvConcat(T(e.l), T(e.r))
        [] e.k = "Extract" -> IF e.w = 1 THEN bvBoolExtract(T(e.e), e.off)
                              ELSE bvExtract(T(e.e), e.off + e.w - 1, e.off)
        [] e.k \in {"ZExt", "SExt"} -> Cast(e.k, T(e.e), e.w)
        [] e.k \in {"Add", "Sub", "Mul"} -> bvOp(e.k, T(e.l), T(e.r))
        [] e.k \in Division -> Divide(e.k, T(e.l), T(e.r), e)
        [] e.k = "Not" -> IF e.w = 1 THEN boolNot(T(e.e)) ELSE bvNot(T(e.e))
        [] e.k \in {"And", "Or", "Xor", "Eq"} ->
             IF e.l.w = 1 THEN Logic(e.k, T(e.l), T(e.r), e) ELSE bvOp(e.k, T(e.l), T(e.r))
        [] e.k \in Shift -> IF e.w = 1 THEN IllSorted ELSE ShiftBy(e.k, T(e.l), T(e.r), e)
        [] e.k \in {"Ult", "Ule", "Slt", "Sle"} -> bvOp(e.k, T(e.l), T(e.r))
        [] OTHER -> IllSorted

\* the entry of a query's expressions
construct(e, env) == constructActual(e, env)
=============================================================================
