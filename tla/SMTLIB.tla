------------------------------- MODULE SMTLIB -------------------------------
(* The SMT-LIB form of a query (lib/Expr/ExprSMTLIBPrinter.cpp): every        *)
(* expression as a term of the Boolean or of a bit-vector sort, with casts    *)
(* between the two, and what occurs more than once abbreviated by nested      *)
(* lets or by :named terms.  A script is its declarations and its assertions; *)
(* TermValue is what the SMT-LIB standard says a term denotes.                *)
EXTENDS KQuery, SolverTerms

Lit(v) == [t |-> "lit", v |-> v]
Ref(n) == [t |-> "ref", n |-> n]
Named(n, a) == [t |-> "named", n |-> n, e |-> a]
App(op, args) == [t |-> "app", op |-> op, args |-> args]
Indexed(op, i, j, a) == [t |-> "indexed", op |-> op, i |-> i, j |-> j, e |-> a]
ArrayName(id) == [t |-> "array", id |-> id]
StoreTerm(a, i, v) == [t |-> "store", a |-> a, i |-> i, v |-> v]
SelectTerm(a, i) == [t |-> "select", a |-> a, i |-> i]
Let(levels, body) == [t |-> "let", levels |-> levels, body |-> body]

(***************************************************************************)
(* Scanning: what occurs twice gets a binding                              *)
(***************************************************************************)

RECURSIVE scan(_, _)
\* the updates of an array are scanned with the first read of it only
scan(a, s) ==
  IF IsConst(a) THEN s
  ELSE IF a \in s.seenExprs
  THEN [s EXCEPT !.bindings = IF a \in Range(@) THEN @ ELSE Append(@, a)]
  ELSE LET seen == [s EXCEPT !.seenExprs = @ \cup {a},
                             !.usedArrays = IF a.k = "Read" THEN @ \cup {a.root} ELSE @]
           ups == IF a.k = "Read" /\ a.root \notin s.usedArrays
                  THEN FoldLeft(LAMBDA acc, u : scan(u.v, scan(u.i, acc)), seen, a.updates)
                  ELSE seen
       IN  FoldLeft(LAMBDA acc, kid : scan(kid, acc), ups, Kids(a))

\* the bindings that an expression reaches without crossing another
RECURSIVE uses(_, _)
uses(a, bound) ==
  UNION {IF kid \in bound THEN {kid} ELSE uses(kid, bound) : kid \in {e \in Range(Kids(a)) : ~IsConst(e)}}

\* the bindings by levels: one uses only bindings of earlier levels
RECURSIVE Levels(_, _)
Levels(bound, done) ==
  LET free == {a \in bound \ done : uses(a, bound) \subseteq done}
  IN  IF free = {} THEN << >> ELSE <<SetToSeq(free)>> \o Levels(bound, done \cup free)
scanBindingExprDeps(bound) == Levels(bound, {})

(***************************************************************************)
(* Printing                                                                *)
(***************************************************************************)

getSort(a) ==
  IF a.k \in Comparison THEN "bool"
  ELSE IF a.k \in {"Constant", "And", "Not", "Or", "Xor"} /\ a.w = Bool THEN "bool"
  ELSE "bv"

printConstant(a) == Lit(IF a.w = Bool THEN Truth(a.c = 1) ELSE Bv(a.w, a.c))

Out(term, m) == [term |-> term, m |-> m]
BindingOf(m, a) == CHOOSE n \in DOMAIN m.bindings : m.bindings[n] = a

RECURSIVE printExpression(_, _, _)
RECURSIVE printUpdatesAndArray(_, _, _)

\* arguments one after another, each an expression and the sort expected of it
Args(kids, m) ==
  FoldLeft(LAMBDA acc, kid : LET r == printExpression(kid[1], kid[2], acc.m)
                             IN  Out(Append(acc.term, r.term), r.m),
           Out(<< >>, m), kids)
Sorted(kids, sort) == [n \in DOMAIN kids |-> <<kids[n], sort>>]

printCastToSort(a, sort, m) ==
  LET r == printExpression(a, getSort(a), m)
  IN  IF sort = "bv"
      THEN Out(App("ite", <<r.term, Lit(Bv(1, 1)), Lit(Bv(1, 0))>>), r.m)
      ELSE Out(App("Ugt", <<r.term, Lit(bvZero(a.w))>>), r.m)

printUpdatesAndArray(root, un, m) ==
  IF un = << >> THEN Out(ArrayName(root.name), m)
  ELSE LET next == printUpdatesAndArray(root, Tail(un), m)
           w == Args(<<<<un[1].i, "bv">>, <<un[1].v, "bv">>>>, next.m)
       IN  Out(StoreTerm(next.term, w.term[1], w.term[2]), w.m)

printReadExpr(a, m) ==
  LET arr == printUpdatesAndArray(a.root, a.updates, m)
      i == printExpression(a.index, "bv", arr.m)
  IN  Out(SelectTerm(arr.term, i.term), i.m)

\* bvashr fills with the sign, AShr is 0 when all bits are shifted out
printAShrExpr(a, m) ==
  LET r == Args(Sorted(<<a.r, Const(a.w, Trunc(a.w, a.w)), Zero(a.w), a.l, a.r>>, "bv"), m)
  IN  Out(App("ite", <<App("Uge", SubSeq(r.term, 1, 2)), r.term[3], App("AShr", SubSeq(r.term, 4, 5))>>),
          r.m)

printFullExpression(a, sort, m) ==
  LET Sub(kids) == LET r == Args(kids, m) IN Out(App(a.k, r.term), r.m)
  IN  CASE a.k = "Constant" -> Out(printConstant(a), m)
        [] a.k = "Read" -> printReadExpr(a, m)
        [] a.k = "Extract" ->
             LET r == printExpression(a.e, "bv", m)
             IN  Out(Indexed("extract", a.off + a.w - 1, a.off, r.term), r.m)
        [] a.k \in {"SExt", "ZExt"} ->
             LET r == printExpression(a.e, "bv", m)
             IN  Out(Indexed(a.k, a.w - a.e.w, 0, r.term), r.m)
        [] a.k = "Select" ->
             LET r == Args(<<<<a.cond, "bool">>, <<a.l, sort>>, <<a.r, sort>>>>, m)
             IN  Out(App("ite", r.term), r.m)
        [] a.k \in {"Eq", "Ne"} -> Sub(Sorted(<<a.l, a.r>>, getSort(a.l)))
        [] a.k \in {"And", "Or", "Xor"} -> Sub(Sorted(<<a.l, a.r>>, sort))
        [] a.k = "Not" -> Sub(<<<<a.e, sort>>>>)
        [] a.k = "AShr" -> printAShrExpr(a, m)
        [] OTHER -> Sub(Sorted(<<a.l, a.r>>, "bv"))

printExpression(a, sort, m) ==
  IF getSort(a) # sort THEN printCastToSort(a, sort, m)
  ELSE IF m.mode = "none" \/ a \notin Range(m.bindings) THEN printFullExpression(a, sort, m)
  ELSE LET n == BindingOf(m, a)
       IN  IF m.mode = "let" \/ n \in m.named THEN Out(Ref(n), m)
           ELSE LET r == printFullExpression(a, sort, m)
                IN  Out(Named(n, r.term), [r.m EXCEPT !.named = @ \cup {n}])

\* Mutant of printLevels: the bindings of a level are visible in it.
LevelsSeeThemselves(levels, m) ==
  FoldLeft(LAMBDA acc, level :
             LET from == Len(acc.m.bindings)
                 now == [acc.m EXCEPT !.bindings = @ \o level]
                 terms == [n \in DOMAIN level |->
                             <<from + n, printExpression(level[n], getSort(level[n]), now).term>>]
             IN  Out(Append(acc.term, terms), now),
           Out(<< >>, m), levels)

\* the levels, each printed with the bindings of the earlier ones
printLevels(levels, m) ==
  FoldLeft(LAMBDA acc, level :
             LET from == Len(acc.m.bindings)
                 terms == [n \in DOMAIN level |->
                             <<from + n, printExpression(level[n], getSort(level[n]), acc.m).term>>]
             IN  Out(Append(acc.term, terms), [acc.m EXCEPT !.bindings = @ \o level]),
           Out(<< >>, m), levels)

printAssert(a, m, levels) ==
  IF m.mode = "let" /\ levels # << >>
  THEN LET ls == printLevels(levels, [m EXCEPT !.bindings = << >>])
           body == printExpression(a, "bool", ls.m)
       IN  Out(Let(ls.term, body.term), body.m)
  ELSE printExpression(a, "bool", m)

\* the assertions that give a constant array its values
ConstantArray(root) ==
  [n \in DOMAIN root.values |->
     App("Eq", <<SelectTerm(ArrayName(root.name), Lit(Bv(Int32, n - 1))),
                 printConstant(root.values[n])>>)]

\* the query is negated: it is valid when its negation is not satisfiable
generateOutput(q, mode, humanReadable) ==
  LET s == FoldLeft(LAMBDA acc, a : scan(a, acc),
                    [seenExprs |-> {}, usedArrays |-> {}, bindings |-> << >>],
                    Append(q.constraints, q.expr))
      levels == IF mode = "let" THEN scanBindingExprDeps(Range(s.bindings)) ELSE << >>
      m == [mode |-> mode, bindings |-> s.bindings, named |-> {}]
      negated == createIsZero(q.expr)
      asserts == IF humanReadable /\ mode # "let" THEN Append(q.constraints, negated)
                 ELSE <<FoldLeft(LAMBDA acc, c : Create("And", acc, c), negated, q.constraints)>>
      body == FoldLeft(LAMBDA acc, a : LET r == printAssert(a, acc.m, levels)
                                       IN  Out(Append(acc.term, r.term), r.m),
                       Out(<< >>, m), asserts)
      arrays == s.usedArrays \cup Range(q.objects)
  IN  [declared |-> {root.name : root \in arrays},
       asserts |-> FlattenSeq(SetToSeq({ConstantArray(root) : root \in arrays})) \o body.term]

(***************************************************************************)
(* What a script means, external                                           *)
(***************************************************************************)

RECURSIVE TermValue(_, _, _)
RECURSIVE ArrayValue(_, _, _)
Val(v, bound) == [v |-> v, bound |-> bound]

\* arrays is a function from the declared names to their contents
ArrayValue(t, arrays, bound) ==
  IF t.t = "array"
  THEN Val(IF t.id \in DOMAIN arrays THEN arrays[t.id] ELSE << >>, bound)
  ELSE LET a == ArrayValue(t.a, arrays, bound)
           i == TermValue(t.i, arrays, a.bound)
           v == TermValue(t.v, arrays, i.bound)
       IN  Val([n \in DOMAIN a.v |-> IF n = i.v.v THEN v.v.v ELSE a.v[n]], v.bound)

Values(args, arrays, bound) ==
  FoldLeft(LAMBDA acc, t : LET r == TermValue(t, arrays, acc.bound)
                           IN  Val(Append(acc.v, r.v), r.bound),
           Val(<< >>, bound), args)

Applied(op, vs) ==
  CASE op = "ite" -> ite(vs[1], vs[2], vs[3])
    [] op = "Concat" -> bvConcat(vs[1], vs[2])
    [] op = "Not" -> IF IsBool(vs[1]) THEN boolNot(vs[1]) ELSE bvNot(vs[1])
    [] op \in {"And", "Or", "Xor", "Eq", "Ne"} /\ IsBool(vs[1]) -> boolOp(op, vs[1], vs[2])
    [] OTHER -> bvOp(op, vs[1], vs[2])

TermValue(t, arrays, bound) ==
  CASE t.t = "lit" -> Val(t.v, bound)
    [] t.t = "ref" -> Val(IF t.n \in DOMAIN bound THEN bound[t.n] ELSE IllSorted, bound)
    [] t.t = "named" -> LET r == TermValue(t.e, arrays, bound)
                        IN  Val(r.v, (t.n :> r.v) @@ r.bound)
    [] t.t = "app" -> LET r == Values(t.args, arrays, bound) IN Val(Applied(t.op, r.v), r.bound)
    [] t.t = "indexed" ->
         LET r == TermValue(t.e, arrays, bound)
         IN  Val(CASE t.op = "extract" -> bvExtract(r.v, t.i, t.j)
                   [] t.op = "SExt" -> bvSignExtend(r.v, r.v.s + t.i)
                   [] t.op = "ZExt" -> IF IsBv(r.v) THEN Bv(r.v.s + t.i, r.v.v) ELSE IllSorted,
                 r.bound)
    [] t.t = "select" ->
         LET a == ArrayValue(t.a, arrays, bound)
             i == TermValue(t.i, arrays, a.bound)
         IN  Val(IF IsBv(i.v) /\ i.v.v \in DOMAIN a.v THEN Bv(Int8, a.v[i.v.v]) ELSE IllSorted, i.bound)
    [] t.t = "let" ->
         LET inner == FoldLeft(LAMBDA b, level :
                                 [n \in {l[1] : l \in Range(level)} |->
                                    TermValue((CHOOSE l \in Range(level) : l[1] = n)[2], arrays, b).v] @@ b,
                               bound, t.levels)
         IN  Val(TermValue(t.body, arrays, inner).v, bound)

\* the assertions, in their order: named terms stay defined
Satisfied(script, contents) ==
  LET arrays == [id \in script.declared |-> contents[id]]
      all == Values(script.asserts, arrays, << >>).v
  IN  IF \A n \in DOMAIN all : IsBool(all[n]) THEN Truth(\A n \in DOMAIN all : all[n].v = 1)
      ELSE IllSorted
=============================================================================
