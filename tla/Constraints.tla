----------------------------- MODULE Constraints -----------------------------
(* Expressions taken apart and put together again: ExprVisitor with the       *)
(* evaluator and the replacing visitors that use it, and the constraint list  *)
(* of an execution state (ConstraintManager, lib/Expr/Constraints.cpp).       *)
EXTENDS Expr, FiniteSets

CONSTANT RewriteEqualities      \* --rewrite-equalities
ASSUME RewriteAssumption == RewriteEqualities \in BOOLEAN

NotOptimized(a) == [k |-> "NotOptimized", w |-> a.w, e |-> a]

Kids(a) ==
  CASE a.k = "Constant" -> << >>
    [] a.k = "Read" -> <<a.index>>
    [] a.k = "Select" -> <<a.cond, a.l, a.r>>
    [] a.k \in {"Extract", "ZExt", "SExt", "Not", "NotOptimized"} -> <<a.e>>
    [] OTHER -> <<a.l, a.r>>

Rebuild(a, kids) ==
  CASE a.k = "Read" -> ReadCreate(a.root, a.updates, kids[1])
    [] a.k = "Select" -> SelectCreate(kids[1], kids[2], kids[3])
    [] a.k = "Concat" -> ConcatCreate(kids[1], kids[2])
    [] a.k = "Extract" -> ExtractCreate(kids[1], a.off, a.w)
    [] a.k \in {"ZExt", "SExt"} -> CastCreate(a.k, kids[1], a.w)
    [] a.k = "Not" -> NotCreate(kids[1])
    [] a.k = "NotOptimized" -> NotOptimized(kids[1])
    [] OTHER -> Create(a.k, kids[1], kids[2])

(***************************************************************************)
(* ExprEvaluator: what is known of the arrays' cells, val, is put in; val  *)
(* maps a cell to its value, or to NoValue                                 *)
(***************************************************************************)

NoValue == -1

RECURSIVE Evaluate(_, _)
RECURSIVE EvalRead(_, _, _, _)

\* the read's version of the array, at a known index i; ui is the latest write's
EvalPast(root, ul, i, ui, val) ==
  IF IsConst(ui) /\ ui.c = i THEN Evaluate(Head(ul).v, val)
  ELSE IF IsConst(ui) THEN EvalRead(root, Tail(ul), i, val)
  ELSE ReadCreate(root, ul, Const(Int8, i))

EvalRead(root, ul, i, val) ==
  IF ul # << >> THEN EvalPast(root, ul, i, Evaluate(Head(ul).i, val), val)
  ELSE IF IsConstantArray(root) /\ i < root.size THEN root.values[i + 1]
  ELSE IF i < root.size /\ val[i] # NoValue THEN Const(Int8, val[i])
  ELSE AllocRead(root, << >>, Const(Int8, i))

\* a divisor that became zero is left as it was
Kept(a, kids) == IF a.k \in Division /\ IsZero(kids[2]) THEN <<kids[1], a.r>> ELSE kids

EvalKids(a, kids, val) ==
  CASE a.k = "Read" /\ IsConst(kids[1]) -> EvalRead(a.root, a.updates, kids[1].c, val)
    [] a.k = "NotOptimized" -> kids[1]
    [] OTHER ->
         IF Kept(a, kids) = Kids(a) /\ (a.k \in Division \/ \E n \in DOMAIN kids : ~IsConst(kids[n]))
         THEN a ELSE Rebuild(a, Kept(a, kids))

Evaluate(a, val) ==
  IF IsConst(a) THEN a
  ELSE EvalKids(a, [n \in DOMAIN Kids(a) |-> Evaluate(Kids(a)[n], val)], val)

(***************************************************************************)
(* ConstraintManager                                                       *)
(***************************************************************************)

Rebuilt(a, kids) == IF kids = Kids(a) THEN a ELSE Rebuild(a, kids)

\* ExprReplaceVisitor: src becomes dst wherever it occurs
RECURSIVE ReplaceExpr(_, _, _)
Replaced(a, src, dst) == IF a = src THEN dst ELSE a
ReplaceExpr(a, src, dst) ==
  IF IsConst(a) THEN a
  ELSE IF a = src THEN dst
  ELSE Replaced(Rebuilt(a, [n \in DOMAIN Kids(a) |-> ReplaceExpr(Kids(a)[n], src, dst)]), src, dst)

\* ExprReplaceVisitor2: bottom up, and once more over what was rebuilt
RECURSIVE ReplaceEqualities(_, _)
ByEquality(a, equalities) ==
  IF ~IsConst(a) /\ a \in DOMAIN equalities THEN equalities[a] ELSE a
OnceMore(a, kids, equalities) ==
  IF kids = Kids(a) THEN a ELSE ReplaceEqualities(Rebuild(a, kids), equalities)
ReplaceEqualities(a, equalities) ==
  IF IsConst(a) THEN a
  ELSE ByEquality(OnceMore(a, [n \in DOMAIN Kids(a) |-> ReplaceEqualities(Kids(a)[n], equalities)],
                           equalities), equalities)

\* a constraint c == e stands for e being c, any other for itself being true;
\* the first one for an expression counts
Equalities(cs) ==
  LET known(c) == IF c.k = "Eq" /\ IsConst(c.l) THEN <<c.r, c.l>> ELSE <<c, True>>
      pairs == [n \in DOMAIN cs |-> known(cs[n])]
  IN  [a \in {pairs[n][1] : n \in DOMAIN cs} |->
         pairs[CHOOSE n \in DOMAIN cs :
                 pairs[n][1] = a /\ \A m \in 1..n - 1 : pairs[m][1] # a][2]]

simplifyExpr(cs, a) == IF IsConst(a) THEN a ELSE ReplaceEqualities(a, Equalities(cs))

RECURSIVE addConstraintInternal(_, _)

\* rewriteConstraints with the replacement of src by dst
Rewritten(done, c, new) == IF new = c THEN Append(done, c) ELSE addConstraintInternal(done, new)
rewriteConstraints(cs, src, dst) ==
  FoldLeft(LAMBDA done, c : Rewritten(done, c, ReplaceExpr(c, src, dst)), << >>, cs)

\* Mutant of addConstraintInternal: after the rewriting the equality itself is lost.
AddRewritesOnly(cs, a) ==
  IF IsTrue(a) THEN cs
  ELSE IF a.k = "Eq" /\ IsConst(a.l) THEN rewriteConstraints(cs, a.r, a.l)
  ELSE Append(cs, a)

\* a false constraint trips an assertion: it is left in the list to be seen
addConstraintInternal(cs, a) ==
  CASE IsTrue(a) -> cs
    [] a.k = "And" -> addConstraintInternal(addConstraintInternal(cs, a.l), a.r)
    [] a.k = "Eq" /\ IsConst(a.l) /\ RewriteEqualities ->
         Append(rewriteConstraints(cs, a.r, a.l), a)
    [] OTHER -> Append(cs, a)

addConstraint(cs, a) == addConstraintInternal(cs, simplifyExpr(cs, a))
=============================================================================
