----------------------------- MODULE Expressions -----------------------------
(* Expressions as a program makes them: one operation after another over the  *)
(* bytes of a symbolic array, by Expr's create functions, by the three        *)
(* builders of kleaver, and from there to the terms of the solvers.  The      *)
(* default builder rewrites nothing: what it builds is the reference for      *)
(* what the others mean.                                                      *)
EXTENDS ExprBuilder, SolverTerms

CONSTANTS
  MaxOps,       \* bound: operations applied
  Late          \* bound: binary operations applied after the first

STP == INSTANCE STPBuilder
Z3 == INSTANCE Z3Builder
MetaSMT == INSTANCE MetaSMTBuilder

VARIABLES d, e, f, s, ops   \* the expression by the four, and how many operations made it

vars == <<d, e, f, s, ops>>

Arr == [size |-> 2, values |-> << >>]
Table == [size |-> 2, values |-> <<Const(Int8, 1), Const(Int8, 3)>>]
Envs == [0..1 -> 0..Ones(Int8)]

x == AllocRead(Arr, << >>, Zero(Int8))
y == AllocRead(Arr, << >>, Const(Int8, 1))
b == Alloc("Eq", Const(Int8, 1), x)

\* what an operation is combined with, by width
Operands(w) ==
  CASE w = Bool -> {True, b}
    [] w = Int8 -> {Const(w, 1), x} \cup IF ops = 0 THEN {Zero(w), Const(w, 2), Const(w, 3), y} ELSE {}
    [] w = 2 * Int8 -> {Const(w, 6), AllocConcat(y, x)}
                       \cup IF ops = 0 THEN {Const(w, 3), Const(w, 4), Const(w, 13), Const(w, 1)} ELSE {}
    [] OTHER -> {}

Init ==
  /\ d \in {x, b, AllocConcat(y, x), Alloc("Add", Const(Int8, 1), x),
            Alloc("Sub", Const(Int8, 1), y), AllocCast("SExt", x, 2 * Int8)}
  /\ e = d /\ f = d /\ s = d /\ ops = 0

Enough == ops < MaxOps
Binaries == IF ops = 0 THEN Binary ELSE Late

\* a binary operation, with the expression so far on either side
ApplyBinary ==
  /\ Enough
  /\ \E op \in Binaries, a \in Operands(d.w) :
       \/ /\ d' = Alloc(op, d, a)        /\ e' = Create(op, e, a)
          /\ f' = Build("folding", op, f, a) /\ s' = Build("simplifying", op, s, a)
       \/ /\ d' = Alloc(op, a, d)        /\ e' = Create(op, a, e)
          /\ f' = Build("folding", op, a, f) /\ s' = Build("simplifying", op, a, s)
  /\ ops' = ops + 1

ApplyNot ==
  /\ Enough
  /\ d' = AllocNot(d) /\ e' = NotCreate(e)
  /\ f' = BuildNot("folding", f) /\ s' = BuildNot("simplifying", s)
  /\ ops' = ops + 1

ApplyCast ==
  /\ Enough
  /\ \E op \in {"ZExt", "SExt"}, w \in {Int8, 2 * Int8} :
       /\ w > d.w
       /\ d' = AllocCast(op, d, w) /\ e' = CastCreate(op, e, w)
       /\ f' = BuildCast("folding", op, f, w) /\ s' = BuildCast("simplifying", op, s, w)
  /\ ops' = ops + 1

\* whole bytes, or one bit of a byte
ApplyExtract ==
  /\ Enough
  /\ \E off \in 0..d.w - 1, w \in {1, Int8} :
       /\ w < d.w /\ off + w <= d.w
       /\ w = 1 \/ off % Int8 = 0
       /\ d' = AllocExtract(d, off, w) /\ e' = ExtractCreate(e, off, w)
       /\ f' = BuildExtract("folding", f, off, w) /\ s' = BuildExtract("simplifying", s, off, w)
  /\ ops' = ops + 1

ApplyConcat ==
  /\ Enough /\ d.w = Int8
  /\ \E a \in Operands(Int8) :
       /\ d' = AllocConcat(d, a) /\ e' = ConcatCreate(e, a)
       /\ f' = BuildConcat("folding", f, a) /\ s' = BuildConcat("simplifying", s, a)
  /\ ops' = ops + 1

ApplySelect ==
  /\ Enough
  /\ \E a \in Operands(d.w) :
       /\ d' = AllocSelect(b, d, a) /\ e' = SelectCreate(b, e, a)
       /\ f' = BuildSelect("folding", b, f, a) /\ s' = BuildSelect("simplifying", b, s, a)
  /\ ops' = ops + 1

\* the expression is the condition
ApplyCondition ==
  /\ Enough /\ d.w = Bool
  /\ d' = AllocSelect(d, x, y) /\ e' = SelectCreate(e, x, y)
  /\ f' = BuildSelect("folding", f, x, y) /\ s' = BuildSelect("simplifying", s, x, y)
  /\ ops' = ops + 1

\* the expression is the index of a read, behind a write
ApplyRead ==
  /\ Enough /\ d.w = Int8
  /\ \E root \in {Arr, Table}, ul \in {<< >>, <<[i |-> Const(Int8, 1), v |-> x]>>,
                                        <<[i |-> x, v |-> Zero(Int8)], [i |-> Zero(Int8), v |-> y]>>} :
       /\ d' = AllocRead(root, ul, d) /\ e' = ReadCreate(root, ul, e)
       /\ f' = BuildRead("folding", root, ul, f) /\ s' = BuildRead("simplifying", root, ul, s)
  /\ ops' = ops + 1

Next ==
  \/ ApplyBinary \/ ApplyNot \/ ApplyCast \/ ApplyExtract \/ ApplyConcat
  \/ ApplySelect \/ ApplyCondition \/ ApplyRead

Spec == Init /\ [][Next]_vars

(***************************************************************************)
(* Properties                                                              *)
(***************************************************************************)

\* The executor forks away a division by zero, an overshift and an access out
\* of bounds before the value is used.
RECURSIVE Defined(_, _)
Defined(a, env) ==
  CASE a.k = "Constant" -> TRUE
    [] a.k = "Read" -> /\ Defined(a.index, env)
                       /\ Eval(a.index, env) < a.root.size
                       /\ \A n \in DOMAIN a.updates : Eval(a.updates[n].i, env) < a.root.size
    [] a.k = "Select" -> Defined(a.cond, env) /\ Defined(a.l, env) /\ Defined(a.r, env)
    [] a.k \in {"Extract", "ZExt", "SExt", "Not", "NotOptimized"} -> Defined(a.e, env)
    [] a.k \in Division -> Defined(a.l, env) /\ Defined(a.r, env) /\ Eval(a.r, env) # 0
    [] a.k = "AShr" -> Defined(a.l, env) /\ Defined(a.r, env) /\ Eval(a.r, env) < a.w
    [] OTHER -> Defined(a.l, env) /\ Defined(a.r, env)

Meaningful == {env \in Envs : Defined(d, env)}

TypeOK == d.w \in 1..2 * Int8 /\ e.w = d.w /\ f.w = d.w /\ s.w = d.w /\ ops \in 0..MaxOps

\* Whatever the create functions fold, reorder or cancel (Expr.cpp), and
\* whatever kleaver's folding and simplifying builders do on top of them
\* (ExprBuilder.cpp), the expression keeps the value that the operations have on
\* every input.
CreateKeepsMeaning ==
  \A env \in Meaningful : LET v == Eval(d, env) IN Eval(e, env) = v /\ Eval(f, env) = v /\ Eval(s, env) = v

\* A canonical expression gets a well-sorted term from each of the three solver
\* builders, no assertion about its form fails, and the term has its value:
\* shifts by cases, products and quotients by magic constants included
\* (STPBuilder.cpp, Z3Builder.cpp, MetaSMTBuilder.h).
TermOf(a, env) ==
  LET v == Eval(a, env) IN IF a.w = Bool THEN Truth(v = 1) ELSE Bv(a.w, v)
TermsKeepMeaning ==
  \A env \in Meaningful :
    LET t == TermOf(e, env)
    IN  STP!construct(e, env) = t /\ Z3!construct(e, env) = t /\ MetaSMT!construct(e, env) = t

\* Comparisons that canonicalization removes never reach a solver, whichever
\* builder kleaver was started with ("unused due to canonicalization").
OnlyCanonical == \A a \in {d, e, f, s} : a.k \notin {"Ne", "Ugt", "Uge", "Sgt", "Sge"}
=============================================================================
