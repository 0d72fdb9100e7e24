----------------------------- MODULE MCSolving ------------------------------
(* The expressions the chain of solvers works on: what they read, how the     *)
(* layers put queries together, what FastCexSolver finds out alone, and the   *)
(* programs whose questions are asked.                                        *)
EXTENDS Solving, FastCex

ByteValues == 0..Pow2(Int8) - 1
Symbolic == [values |-> << >>, size |-> Cardinality(Cell)]   \* the array

\* Assignment::evaluate gives a constant
EvaluatedTo(a, env) == Evaluate(a, env).c
ValueOf(a) == a.c
WidthOf(a) == a.w

(***************************************************************************)
(* What an expression reads                                                *)
(***************************************************************************)

RECURSIVE findReads(_)
findReads(a) ==
  IF IsConst(a) THEN {}
  ELSE UNION {findReads(Kids(a)[n]) : n \in DOMAIN Kids(a)}
       \cup (IF a.k = "Read"
             THEN {a} \cup UNION {findReads(a.updates[n].i) \cup findReads(a.updates[n].v)
                                  : n \in DOMAIN a.updates}
             ELSE {})

\* the cells read at known indices and the arrays read at others
IndependentElementSet(a) ==
  LET reads == {re \in findReads(a) : ~(IsConstantArray(re.root) /\ re.updates = << >>)}
      whole == {re.root : re \in {r \in reads : ~IsConst(r.index)}}
  IN  [whole |-> whole,
       elements |-> {<<re.root, re.index.c>> :
                       re \in {r \in reads : IsConst(r.index) /\ r.root \notin whole}},
       exprs |-> <<a>>]

(***************************************************************************)
(* The queries of the layers                                               *)
(***************************************************************************)

CreateEqualTo(a, n) == Create("Eq", a, Const(a.w, n))
CreateUpTo(a, n) == Create("Ule", a, Const(a.w, n))
CreateFitsIn(a, n) == Create("Eq", Create("LShr", a, Const(a.w, n)), Const(a.w, 0))

\* AssignmentValidatingSolver: cells without a value stay what they are
AssignmentWrong(q, env, objects) ==
  LET seen == IF objects THEN env ELSE [i \in Cell |-> NoValue]
  IN  \/ \E n \in DOMAIN q.cs : ~IsTrue(Evaluate(q.cs[n], seen))
      \/ ~IsFalse(Evaluate(q.e, seen))

\* ValidatingSolver
CreateOtherThan(a, v) == Create("Ne", a, Const(a.w, v))

RECURSIVE Conjunction(_)
Conjunction(es) == IF Len(es) = 1 THEN es[1] ELSE Create("And", Conjunction(Front(es)), Last(es))

\* the array's cells, as constraints
Bindings(env) ==
  [n \in 1..Cardinality(Cell) |->
     Create("Eq", ReadCreate(Symbolic, << >>, Const(Int8, n - 1)), Const(Int8, env[n - 1]))]

InstanceQuery(q, env, objects) ==
  Query(IF objects THEN Bindings(env) ELSE << >>, Conjunction(<<createIsZero(q.e)>> \o q.cs))

(***************************************************************************)
(* FastCexSolver: what it finds out about a query                          *)
(***************************************************************************)

fastTruth(q) ==
  LET cd == Propogated(q.cs, q.e, TRUE)
  IN  [valid |-> "MustBeTrue", invalid |-> "MayBeFalse", none |-> "None", aborted |-> "Aborted"]
        [propogateValues(q.cs, q.e, TRUE, cd)]

Found(res, answer) == [res |-> res, answer |-> answer]

fastValue(q) ==
  LET cd == Propogated(q.cs, q.e, FALSE)
      res == propogateValues(q.cs, q.e, FALSE, cd)
      value == Evaluate(q.e, Guess(cd))
  IN  IF res = "aborted" THEN Found("Aborted", 0)
      ELSE IF res = "invalid" /\ IsConst(value) THEN Found("Found", value.c)
      ELSE Found("None", 0)

fastInitial(q) ==
  LET cd == Propogated(q.cs, q.e, TRUE)
      res == propogateValues(q.cs, q.e, TRUE, cd)
  IN  CASE res = "aborted" -> Found("Aborted", 0)
        [] res = "valid" -> Found("Found", NoSolution)
        [] res = "invalid" -> Found("Found", Guess(cd))
        [] res = "none" -> Found("None", 0)

Propagated(kind, q) ==
  CASE kind = "truth" -> Found(fastTruth(q), 0)
    [] kind = "value" -> fastValue(q)
    [] kind = "initial" -> fastInitial(q)

(***************************************************************************)
(* Programs and chains                                                     *)
(***************************************************************************)

Byte(i) == ReadCreate(Symbolic, << >>, Const(Int8, i))
x == Byte(0)
y == Byte(1)
\* a table and a written array, read at a symbolic index within bounds
Table == [values |-> <<Const(Int8, 2), Const(Int8, 1)>>, size |-> 2]
Index == CastCreate("ZExt", Create("Ult", Const(Int8, 1), x), Int8)
TableRead == ReadCreate(Table, << >>, Index)
Written == ReadCreate(Symbolic, <<[i |-> Index, v |-> x]>>, Const(Int8, 1))

\* what a program branches on and what it asks the value of
SomePrograms == {
  [conds |-> {Create("Eq", Const(Int8, 2), x), Create("Eq", y, TableRead)},
   value |-> Create("Add", Const(Int8, 1), x)],
  [conds |-> {Create("Ult", x, y), Create("Ule", x, y)},
   value |-> Written]}

SomeChains == {
  <<"independent", "assignment", "core">>,
  <<"branch", "cexTryAll", "core">>, <<"cexSuperset", "fast", "core">>,
  <<"independent", "branch", "cex", "core">>,
  <<"validating", "cex", "fast", "core">>}

RECURSIVE AskLayers(_, _, _, _, _)
AskLayers(ls, kind, q, objects, c) ==
  LET outcomes == Layer(ls, kind, q, objects, c) IN outcomes

(***************************************************************************)
(* What the proofs suppose of expressions (module SolvingProofs), for the  *)
(* expressions of the programs and constraints made of them                *)
(***************************************************************************)

Both(p) == p.conds \cup {Negation(a) : a \in p.conds}
Asked == UNION {Both(p) \cup {p.value, Falsehood} : p \in SomePrograms}
AskedConditions == {a \in Asked : Width(a) = 1}
UpToTwo(S) == {<< >>} \cup {<<a>> : a \in S} \cup {<<a, b>> : a, b \in S}
\* constraints, and what is asked about them
AskedQueries ==
  UNION {{Query(cs, a) : cs \in UpToTwo(Both(p)), a \in Both(p) \cup {p.value, Falsehood}}
         : p \in SomePrograms}

ASSUME ExpressionsAssumption ==
  /\ \A a \in Asked, env \in Envs :
       /\ Meaning(a, env) \in 0..Highest(Width(a)) /\ ValueUnder(a, env) = Meaning(a, env)
       /\ Constant(a) => Meaning(a, env) = ConstantValue(a)
  /\ \A a \in AskedConditions, env \in Envs : Meaning(Negation(a), env) = 1 - Meaning(a, env)

ASSUME ReadsAssumption ==
  \A a \in Asked, env, other \in Envs :
    LET s == ReadSet(a)
    IN  (\A i \in Cells : TheArray \in s.whole \/ <<TheArray, i>> \in s.elements => env[i] = other[i])
          => Meaning(a, env) = Meaning(a, other)

ASSUME ComparesAssumption ==
  \A a \in Asked, env \in Envs :
    /\ \A n \in 0..Highest(Width(a)) : /\ (Meaning(EqualTo(a, n), env) = 1) = (Meaning(a, env) = n)
                                       /\ (Meaning(UpTo(a, n), env) = 1) = (Meaning(a, env) <= n)
    /\ \A n \in 0..Width(a) - 1 : (Meaning(FitsIn(a, n), env) = 1) = (Meaning(a, env) <= Highest(n))

\* Also for constraints that no input meets
ASSUME PropagatesAssumption ==
  \A q \in AskedQueries :
    /\ Width(q.e) = 1 =>
         LET truth == Propagate("truth", q)  initial == Propagate("initial", q)
         IN  /\ truth.res = "MustBeTrue" => Models(q) = {}
             /\ truth.res = "MayBeFalse" => Models(q) # {}
             /\ initial.res = "Found" => IF Models(q) = {} THEN initial.answer = NoSolution
                                        ELSE initial.answer \in Models(q)
    /\ LET value == Propagate("value", q)
       IN  value.res = "Found" => \E env \in Holding(q.cs) : value.answer = Meaning(q.e, env)

ASSUME SimplifiesAssumption ==
  \A q \in AskedQueries :
    \A env \in Holding(q.cs) : Meaning(Simplified(q.cs, q.e), env) = Meaning(q.e, env)
=============================================================================
