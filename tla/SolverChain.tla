----------------------------- MODULE SolverChain -----------------------------
(* The chain of solvers between the executor and the core solver             *)
(* (ConstructSolverChain.cpp): independence, the two caches, the range-based  *)
(* guesses, the validators, and at the end the core solver, which answers or  *)
(* fails.  A call of a layer is the set of its outcomes: whether it           *)
(* succeeded, what it answered and what the caches hold after it.  The layers *)
(* know of an expression what the constants say.                              *)
EXTENDS Integers, Sequences

CONSTANTS
  Cells, CellValue,          \* the cells of the symbolic array and what they can hold
  Meaning(_, _),            \* what an expression is under an assignment
  ValueUnder(_, _),         \* what Assignment::evaluate makes of it
  Constant(_),              \* isa<ConstantExpr>
  ConstantValue(_),         \* ConstantExpr::getZExtValue
  Width(_),                 \* Expr::getWidth
  Falsehood,                \* ConstantExpr::alloc(0, Expr::Bool)
  Negation(_),              \* Expr::createIsZero
  Simplified(_, _),         \* ConstraintManager::simplifyExpr
  ReadSet(_), TheArray,     \* the cells and arrays an expression reads, the symbolic array
  EqualTo(_, _),            \* the questions of getRange: e = n,
  UpTo(_, _),               \* e <= n, and
  FitsIn(_, _), Highest(_), \* e has n bits, and the most that n bits can be
  Propagate(_, _),          \* what FastCexSolver finds out alone
  Refutes(_, _, _),         \* an assignment is seen to be no answer
  OtherThan(_, _),          \* the queries of the ValidatingSolver: not that value,
  Instance(_, _, _),        \* the constraints hold of that assignment
  Ask(_, _, _, _, _)        \* a chain is asked: the first layer is, see Layer

ASSUME CellAssumption == Cells # {} /\ 0 \in CellValue

Envs == [Cells -> CellValue]             \* what the array can hold
NoSolution == << >>                     \* hasSolution is false; a null Assignment
Zeros == [i \in Cells |-> 0]

Query(cs, a) == [cs |-> cs, e |-> a]
negateExpr(q) == Query(q.cs, Negation(q.e))
withFalse(q) == Query(q.cs, Falsehood)
withExpr(q, a) == Query(q.cs, a)

Holding(cs) == {env \in Envs : \A n \in DOMAIN cs : Meaning(cs[n], env) = 1}
Models(q) == {env \in Holding(q.cs) : Meaning(q.e, env) = 0}

\* The caches, whether the core solver ever failed, whether an assertion did.
NoCaches == [branch |-> << >>, cex |-> << >>, table |-> {}, failed |-> FALSE, abort |-> FALSE]

Ok(v, ch) == {[ok |-> TRUE, val |-> v, ch |-> ch]}
Fails(ch) == {[ok |-> FALSE, val |-> NoSolution, ch |-> ch]}
Aborts(ch) == Fails([ch EXCEPT !.abort = TRUE])
Bind(outs, F(_)) == UNION {IF o.ok THEN F(o) ELSE {o} : o \in outs}
\* insert into a map: an entry that is there stays
Inserted(map, k, v) == [x \in DOMAIN map \cup {k} |-> IF x \in DOMAIN map THEN map[x] ELSE v]

Arrays(s) == s.whole \cup {x[1] : x \in s.elements}

\* findSymbolicObjects: is the symbolic array among them?
HasSymbolic(es) == \E a \in es : TheArray \in Arrays(ReadSet(a))

(***************************************************************************)
(* The core solver: any model of the query, or a failure.  Two models are  *)
(* enough to tell answers apart.                                           *)
(***************************************************************************)

SomeModels(q) ==
  LET all == Models(q)
      one == CHOOSE env \in all : TRUE
      other == CHOOSE env \in all \ {one} : \E i \in Cells : env[i] # one[i]
  IN  IF all = {} THEN {} ELSE IF all = {one} THEN {one} ELSE {one, other}

coreInitialValues(q, objects, ch) ==
  LET envs == SomeModels(q)
  IN  (IF envs = {} THEN Ok(NoSolution, ch)
       ELSE IF objects THEN UNION {Ok(env, ch) : env \in envs}
       ELSE Ok(Zeros, ch))
      \cup Fails([ch EXCEPT !.failed = TRUE])

coreTruth(q, ch) ==
  Bind(coreInitialValues(q, FALSE, ch), LAMBDA o : Ok(o.val = NoSolution, o.ch))

Validity(isTrue, isFalse) == IF isTrue THEN "True" ELSE IF isFalse THEN "False" ELSE "Unknown"

\* SolverImpl::computeValidity
coreValidity(q, ch) ==
  Bind(coreTruth(q, ch), LAMBDA o :
    IF o.val THEN Ok("True", o.ch)
    ELSE Bind(coreTruth(negateExpr(q), o.ch), LAMBDA p :
           Ok(Validity(FALSE, p.val), p.ch)))

coreValue(q, ch) ==
  Bind(coreInitialValues(withFalse(q), HasSymbolic({q.e}), ch),
       LAMBDA o : IF o.val = NoSolution THEN Aborts(o.ch)
                  ELSE Ok(ValueUnder(q.e, o.val), o.ch))

askCore(kind, q, objects, ch) ==
  CASE kind = "truth" -> coreTruth(q, ch)
    [] kind = "validity" -> coreValidity(q, ch)
    [] kind = "value" -> coreValue(q, ch)
    [] kind = "initial" -> coreInitialValues(q, objects, ch)

(***************************************************************************)
(* AssignmentValidatingSolver: hasSolution is read even after a failure    *)
(***************************************************************************)

askAssignmentValidating(rest, kind, q, objects, ch) ==
  LET outs == Ask(rest, kind, q, objects, ch)
  IN  IF kind # "initial" THEN outs
      ELSE UNION {IF ~o.ok THEN {o} \cup Aborts(o.ch)
                  ELSE IF o.val # NoSolution /\ Refutes(q, o.val, objects) THEN Aborts(o.ch)
                  ELSE {o} : o \in outs}

(***************************************************************************)
(* FastCexSolver in front of the rest (StagedSolverImpl)                   *)
(***************************************************************************)

\* IncompleteSolver::computeValidity
fastValidity(q) ==
  LET t == Propagate("truth", q).res  f == Propagate("truth", negateExpr(q)).res
  IN  IF t \in {"MustBeTrue", "Aborted"} THEN t
      ELSE IF f = "Aborted" THEN f
      ELSE IF f = "MustBeTrue" THEN "MustBeFalse"
      ELSE IF t # "None" /\ f # "None" THEN "TrueOrFalse"
      ELSE IF t # "None" THEN "MayBeFalse"
      ELSE IF f # "None" THEN "MayBeTrue"
      ELSE "None"

askFastTruth(rest, q, ch) ==
  LET t == Propagate("truth", q).res
  IN  IF t = "Aborted" THEN Aborts(ch)
      ELSE IF t = "None" THEN Ask(rest, "truth", q, FALSE, ch)
      ELSE Ok(t = "MustBeTrue", ch)

askFastValidity(rest, q, ch) ==
  LET v == fastValidity(q)
  IN  CASE v = "Aborted"     -> Aborts(ch)
        [] v = "MustBeTrue"  -> Ok("True", ch)
        [] v = "MustBeFalse" -> Ok("False", ch)
        [] v = "TrueOrFalse" -> Ok("Unknown", ch)
        [] v = "MayBeTrue"   ->
             Bind(Ask(rest, "truth", q, FALSE, ch), LAMBDA o :
               Ok(Validity(o.val, FALSE), o.ch))
        [] v = "MayBeFalse"  ->
             Bind(Ask(rest, "truth", negateExpr(q), FALSE, ch), LAMBDA o :
               Ok(Validity(FALSE, o.val), o.ch))
        [] v = "None"        -> Ask(rest, "validity", q, FALSE, ch)

\* a value or an assignment, if FastCexSolver has one
askFastAnswer(rest, kind, q, objects, ch) ==
  LET found == Propagate(kind, q)
  IN  CASE found.res = "Aborted" -> Aborts(ch)
        [] found.res = "None" -> Ask(rest, kind, q, objects, ch)
        [] found.res = "Found" ->
             Ok(IF kind = "initial" /\ found.answer # NoSolution /\ ~objects THEN Zeros
                ELSE found.answer, ch)

askFast(rest, kind, q, objects, ch) ==
  CASE kind = "truth" -> askFastTruth(rest, q, ch)
    [] kind = "validity" -> askFastValidity(rest, q, ch)
    [] kind \in {"value", "initial"} -> askFastAnswer(rest, kind, q, objects, ch)

(***************************************************************************)
(* CexCachingSolver                                                        *)
(***************************************************************************)

satisfies(env, key) == \A a \in key : ValueUnder(a, env) = 1

\* Mutant of searchForAssignment: the assignment of a subset of the constraints
\* is taken without trying it.
SearchUnchecked(opt, key, ch) == {ch.cex[k] : k \in {l \in DOMAIN ch.cex : l \subseteq key}}

\* searchForAssignment: what may be found, {} if nothing
searchForAssignment(opt, key, ch) ==
  LET super == IF opt.superset
               THEN {ch.cex[k] : k \in {l \in DOMAIN ch.cex : key \subseteq l}} \ {NoSolution}
               ELSE {}
      sub == {ch.cex[k] : k \in {l \in DOMAIN ch.cex : l \subseteq key}}
      tried == IF opt.tryAll
               THEN IF NoSolution \in sub THEN {NoSolution}
                    ELSE {env \in ch.table : satisfies(env, key)}
               ELSE {env \in sub : env = NoSolution \/ satisfies(env, key)}
  IN  IF key \in DOMAIN ch.cex THEN {ch.cex[key]}
      ELSE IF super # {} THEN super
      ELSE tried

CexKey(q) == {q.cs[n] : n \in DOMAIN q.cs}
             \cup (IF Constant(Negation(q.e)) THEN {} ELSE {Negation(q.e)})

lookupAssignment(opt, q, ch) ==
  IF Negation(q.e) = Falsehood THEN {NoSolution} ELSE searchForAssignment(opt, CexKey(q), ch)

Memoized(key, env, ch) ==
  [ch EXCEPT !.cex = Inserted(@, key, env),
             !.table = IF env = NoSolution THEN @ ELSE @ \cup {env}]

getAssignment(opt, rest, q, ch) ==
  LET found == lookupAssignment(opt, q, ch)
      key == CexKey(q)
  IN  IF found # {} THEN UNION {Ok(env, ch) : env \in found}
      ELSE Bind(Ask(rest, "initial", q, HasSymbolic(key), ch), LAMBDA o :
             Ok(o.val, Memoized(key, o.val, o.ch)))

cexValidity(opt, rest, q, ch) ==
  Bind(getAssignment(opt, rest, withFalse(q), ch), LAMBDA o :
    IF o.val = NoSolution THEN Aborts(o.ch)
    ELSE IF ValueUnder(q.e, o.val) = 1
    THEN Bind(getAssignment(opt, rest, q, o.ch), LAMBDA p :
           Ok(Validity(p.val = NoSolution, FALSE), p.ch))
    ELSE Bind(getAssignment(opt, rest, negateExpr(q), o.ch), LAMBDA p :
           Ok(Validity(FALSE, p.val = NoSolution), p.ch)))

\* Mutant of cexTruth: the experimental shortcut is always on.
CexTruthExperimental(opt, rest, q, ch) ==
  LET known == lookupAssignment(opt, negateExpr(q), ch)
  IN  IF NoSolution \in known THEN Fails(ch)
      ELSE Bind(getAssignment(opt, rest, q, ch), LAMBDA o : Ok(o.val = NoSolution, o.ch))

\* cex-cache-exp: a cached proof that the query is false is reported as a failure
cexTruth(opt, rest, q, ch) ==
  LET known == IF opt.exp THEN lookupAssignment(opt, negateExpr(q), ch)
               ELSE {}
  IN  (IF NoSolution \in known THEN Fails(ch) ELSE {})
      \cup (IF known = {NoSolution} THEN {}
            ELSE Bind(getAssignment(opt, rest, q, ch), LAMBDA o : Ok(o.val = NoSolution, o.ch)))

cexValue(opt, rest, q, ch) ==
  Bind(getAssignment(opt, rest, withFalse(q), ch), LAMBDA o :
    IF o.val = NoSolution THEN Aborts(o.ch) ELSE Ok(ValueUnder(q.e, o.val), o.ch))

cexInitial(opt, rest, q, objects, ch) ==
  Bind(getAssignment(opt, rest, q, ch), LAMBDA o :
    Ok(IF objects \/ o.val = NoSolution THEN o.val ELSE Zeros, o.ch))

askCexCaching(opt, rest, kind, q, objects, ch) ==
  CASE kind = "truth" -> cexTruth(opt, rest, q, ch)
    [] kind = "validity" -> cexValidity(opt, rest, q, ch)
    [] kind = "value" -> cexValue(opt, rest, q, ch)
    [] kind = "initial" -> cexInitial(opt, rest, q, objects, ch)

(***************************************************************************)
(* CachingSolver: the branch cache                                         *)
(***************************************************************************)

negatePartialValidity(pv) ==
  [MustBeTrue |-> "MustBeFalse", MustBeFalse |-> "MustBeTrue", MayBeTrue |-> "MayBeFalse",
   MayBeFalse |-> "MayBeTrue", TrueOrFalse |-> "TrueOrFalse"][pv]

\* An expression and its negation share an entry, kept for one of them.
canonicalizeQuery(q) == CHOOSE a \in {q.e, Negation(q.e)} : TRUE
Slot(q) == <<q.cs, canonicalizeQuery(q)>>
Seen(q, pv) == IF canonicalizeQuery(q) = q.e THEN pv ELSE negatePartialValidity(pv)

cacheHit(q, ch) == Slot(q) \in DOMAIN ch.branch
cacheLookup(q, ch) == Seen(q, ch.branch[Slot(q)])
\* Mutant of cacheInsert: the answer is stored for the expression asked about,
\* not for its canonical form.
InsertUnnegated(q, pv, ch) == [ch EXCEPT !.branch = Inserted(@, Slot(q), pv)]
cacheInsert(q, pv, ch) == [ch EXCEPT !.branch = Inserted(@, Slot(q), Seen(q, pv))]

cachingValidity(rest, q, ch) ==
  LET pv == IF cacheHit(q, ch) THEN cacheLookup(q, ch) ELSE "None"
      Partly(o, must, res) == IF o.val THEN Ok(res, cacheInsert(q, must, o.ch))
                              ELSE Ok("Unknown", cacheInsert(q, "TrueOrFalse", o.ch))
  IN  CASE pv = "MustBeTrue"  -> Ok("True", ch)
        [] pv = "MustBeFalse" -> Ok("False", ch)
        [] pv = "TrueOrFalse" -> Ok("Unknown", ch)
        [] pv = "MayBeTrue" -> Bind(Ask(rest, "truth", q, FALSE, ch), LAMBDA o :
                                 Partly(o, "MustBeTrue", "True"))
        [] pv = "MayBeFalse" ->
             Bind(Ask(rest, "truth", negateExpr(q), FALSE, ch), LAMBDA o :
               Partly(o, "MustBeFalse", "False"))
        [] pv = "None" ->
             Bind(Ask(rest, "validity", q, FALSE, ch), LAMBDA o :
               Ok(o.val, cacheInsert(q, [True |-> "MustBeTrue", False |-> "MustBeFalse",
                                         Unknown |-> "TrueOrFalse"][o.val], o.ch)))

cachingTruth(rest, q, ch) ==
  LET hit == cacheHit(q, ch)
  IN  IF hit /\ cacheLookup(q, ch) # "MayBeTrue"
      THEN Ok(cacheLookup(q, ch) = "MustBeTrue", ch)
      ELSE Bind(Ask(rest, "truth", q, FALSE, ch), LAMBDA o :
             Ok(o.val, cacheInsert(q, IF o.val THEN "MustBeTrue"
                                      ELSE IF hit THEN "TrueOrFalse" ELSE "MayBeFalse", o.ch)))

askCaching(rest, kind, q, objects, ch) ==
  CASE kind = "truth" -> cachingTruth(rest, q, ch)
    [] kind = "validity" -> cachingValidity(rest, q, ch)
    [] kind \in {"value", "initial"} -> Ask(rest, kind, q, objects, ch)

(***************************************************************************)
(* IndependentSolver: what the constraints have to do with the query       *)
(***************************************************************************)

intersects(s, t) == \/ s.whole \cap Arrays(t) # {}
                    \/ t.whole \cap Arrays(s) # {}
                    \/ s.elements \cap t.elements # {}
AddSet(s, t) == LET whole == s.whole \cup t.whole
                IN  [whole |-> whole,
                     elements |-> {x \in s.elements \cup t.elements : x[1] \notin whole},
                     exprs |-> s.exprs \o t.exprs]

\* getIndependentConstraints: one constraint of a pass over the work list
Consider(p, a) ==
  IF intersects(ReadSet(a), p.elts)
  THEN [p EXCEPT !.elts = AddSet(@, ReadSet(a)), !.result = Append(@, a)]
  ELSE [p EXCEPT !.work = Append(@, a)]
Pass(p) ==
  LET at[n \in 0..Len(p.work)] ==
        IF n = 0 THEN [p EXCEPT !.work = << >>] ELSE Consider(at[n - 1], p.work[n])
  IN  at[Len(p.work)]

\* The code stops when a pass adds nothing to elts.  Every other pass takes a
\* constraint from the work list, and one after the last would change nothing.
Closure(q) ==
  LET after[n \in 0..Len(q.cs)] ==
        IF n = 0 THEN [elts |-> ReadSet(q.e), work |-> q.cs, result |-> << >>]
        ELSE Pass(after[n - 1])
  IN  after[Len(q.cs)]
getIndependentConstraints(q) == Closure(q).result

\* getAllIndependentConstraintsSets: the first factor takes in those behind it
\* that it meets
Absorb(p, s) == IF intersects(p.current, s) THEN [p EXCEPT !.current = AddSet(@, s)]
                ELSE [p EXCEPT !.keep = Append(@, s)]
Gather(p) ==
  LET at[n \in 1..Len(p.left)] ==
        IF n = 1 THEN [current |-> p.left[1], keep |-> << >>] ELSE Absorb(at[n - 1], p.left[n])
      last == at[Len(p.left)]
  IN  IF p.left = << >> THEN p ELSE [left |-> last.keep, done |-> Append(p.done, last.current)]

\* One pass: every factor that is left does
Collect(factors) ==
  LET at[n \in 0..Len(factors)] ==
        IF n = 0 THEN [left |-> factors, done |-> << >>] ELSE Gather(at[n - 1])
  IN  at[Len(factors)].done

\* The code stops when a pass changes nothing; every other pass leaves fewer factors.
Factorise(factors) ==
  LET after[n \in 0..Len(factors)] == IF n = 0 THEN factors ELSE Collect(after[n - 1])
  IN  after[Len(factors)]
getAllIndependentConstraintsSets(q) ==
  Factorise((IF Constant(q.e) THEN << >> ELSE <<ReadSet(Negation(q.e))>>)
            \o [n \in DOMAIN q.cs |-> ReadSet(q.cs[n])])

Merged(ret, val, mine) ==
  IF ret = NoSolution THEN val ELSE [i \in Cells |-> IF i \in mine THEN val[i] ELSE ret[i]]

\* the answer for one more factor, put together with the others cell by cell
AskFactor(rest, s, has, ret, ch) ==
  LET mine == {i \in Cells : <<TheArray, i>> \in s.elements}
      symbolic == TheArray \in Arrays(s)
  IN  IF ~has \/ Arrays(s) = {} THEN Ok([has |-> has, ret |-> ret], ch)
      ELSE Bind(Ask(rest, "initial", Query(s.exprs, Falsehood), symbolic, ch), LAMBDA o :
             IF o.val = NoSolution THEN Ok([has |-> FALSE, ret |-> ret], o.ch)
             ELSE Ok([has |-> TRUE, ret |-> IF symbolic THEN Merged(ret, o.val, mine) ELSE ret],
                     o.ch))
AskFactors(rest, factors, ch) ==
  LET at[n \in 0..Len(factors)] ==
        IF n = 0 THEN Ok([has |-> TRUE, ret |-> NoSolution], ch)
        ELSE Bind(at[n - 1], LAMBDA o : AskFactor(rest, factors[n], o.val.has, o.val.ret, o.ch))
  IN  at[Len(factors)]

\* a query that is constant must be false, and with
\* assertCreatedPointEvaluatesToTrue
independentInitial(rest, q, objects, ch) ==
  IF Constant(q.e) /\ ConstantValue(q.e) # 0 THEN Aborts(ch)
  ELSE Bind(AskFactors(rest, getAllIndependentConstraintsSets(q), ch), LAMBDA o :
         LET values == IF o.val.ret = NoSolution THEN Zeros ELSE o.val.ret
         IN  IF ~o.val.has THEN Ok(NoSolution, o.ch)
             ELSE IF ~satisfies(values, {q.cs[n] : n \in DOMAIN q.cs} \cup {Negation(q.e)})
             THEN Aborts(o.ch)
             ELSE Ok(IF objects THEN values ELSE Zeros, o.ch))

askIndependent(rest, kind, q, objects, ch) ==
  IF kind = "initial" THEN independentInitial(rest, q, objects, ch)
  ELSE Ask(rest, kind, Query(getIndependentConstraints(q), q.e), objects, ch)

(***************************************************************************)
(* ValidatingSolver: the core solver is the oracle                         *)
(***************************************************************************)

\* the oracle finds that p is valid, or is not, as it should be
Confirmed(p, expected, v, ch) ==
  Bind(coreTruth(p, ch), LAMBDA x : IF x.val # expected THEN Aborts(x.ch) ELSE Ok(v, x.ch))

validated(kind, q, objects, v, ch) ==
  CASE kind = "truth" -> Confirmed(q, v, v, ch)
    [] kind = "validity" ->
         Bind(coreValidity(q, ch), LAMBDA x : IF x.val # v THEN Aborts(x.ch) ELSE Ok(v, x.ch))
    [] kind = "value" -> Confirmed(withExpr(q, OtherThan(q.e, v)), FALSE, v, ch)
    [] kind = "initial" -> IF v = NoSolution THEN Confirmed(q, TRUE, v, ch)
                           ELSE Confirmed(Instance(q, v, objects), TRUE, v, ch)

askValidating(rest, kind, q, objects, ch) ==
  Bind(Ask(rest, kind, q, objects, ch), LAMBDA o : validated(kind, q, objects, o.val, o.ch))

(***************************************************************************)
(* constructSolverChain: the layers that may be on, outermost first        *)
(***************************************************************************)

\* --cex-cache-try-all, --cex-cache-superset, --cex-cache-exp
CexOptions(layer) ==
  [tryAll |-> layer = "cexTryAll", superset |-> layer = "cexSuperset", exp |-> layer = "cexExp"]
CexLayers == {"cex", "cexTryAll", "cexSuperset", "cexExp"}

\* What the first of the layers ls answers; kind is truth, validity, value or
\* initial.  It asks the layers behind it, which Ask stands for.
Layer(ls, kind, q, objects, ch) ==
  LET layer == Head(ls)  rest == Tail(ls)
  IN  CASE layer = "core" -> askCore(kind, q, objects, ch)
        [] layer = "assignment" -> askAssignmentValidating(rest, kind, q, objects, ch)
        [] layer = "fast" -> askFast(rest, kind, q, objects, ch)
        [] layer \in CexLayers -> askCexCaching(CexOptions(layer), rest, kind, q, objects, ch)
        [] layer = "branch" -> askCaching(rest, kind, q, objects, ch)
        [] layer = "independent" -> askIndependent(rest, kind, q, objects, ch)
        [] layer = "validating" -> askValidating(rest, kind, q, objects, ch)

(***************************************************************************)
(* Solver and TimingSolver: what the executor calls                        *)
(***************************************************************************)

evaluate(ls, q, ch) ==
  IF Constant(q.e) THEN Ok(Validity(ConstantValue(q.e) = 1, TRUE), ch)
  ELSE Ask(ls, "validity", q, FALSE, ch)
mustBeTrue(ls, q, ch) ==
  IF Constant(q.e) THEN Ok(ConstantValue(q.e) = 1, ch) ELSE Ask(ls, "truth", q, FALSE, ch)
mayBeTrue(ls, q, ch) ==
  Bind(mustBeTrue(ls, negateExpr(q), ch), LAMBDA o : Ok(~o.val, o.ch))
getValue(ls, q, ch) ==
  IF Constant(q.e) THEN Ok(ConstantValue(q.e), ch) ELSE Ask(ls, "value", q, FALSE, ch)
getInitialValues(ls, q, ch) ==
  Bind(Ask(ls, "initial", q, TRUE, ch), LAMBDA o :
    IF o.val = NoSolution THEN Fails(o.ch) ELSE {o})

\* The questions of getRange: the value has n bits, it may be or must be at most n
useful(ls, q, n, ch) == mustBeTrue(ls, withExpr(q, FitsIn(q.e, n)), ch)
mayBeUpTo(ls, q, n, ch) == mayBeTrue(ls, withExpr(q, UpTo(q.e, n)), ch)
mustBeUpTo(ls, q, n, ch) == mustBeTrue(ls, withExpr(q, UpTo(q.e, n)), ch)
Try(ls, q, test, n, ch) ==
  CASE test = "useful" -> useful(ls, q, n, ch)
    [] test = "mayBeUpTo" -> mayBeUpTo(ls, q, n, ch)
    [] test = "mustBeUpTo" -> mustBeUpTo(ls, q, n, ch)

\* One step of a binary search for the least n that passes the test; a failure
\* fails an assertion.
Halve(ls, q, test, s, ch) ==
  LET mid == s.lo + (s.hi - s.lo) \div 2
  IN  IF s.lo >= s.hi THEN Ok(s, ch)
      ELSE UNION {IF ~o.ok THEN Aborts(o.ch)
                  ELSE Ok(IF o.val THEN [s EXCEPT !.hi = mid] ELSE [s EXCEPT !.lo = mid + 1], o.ch)
                  : o \in Try(ls, q, test, mid, ch)}
\* Every step shortens the range.
Halved(ls, q, test, lo, hi, ch) ==
  LET after[n \in 0..IF lo < hi THEN hi - lo ELSE 0] ==
        IF n = 0 THEN Ok([lo |-> lo, hi |-> hi], ch)
        ELSE Bind(after[n - 1], LAMBDA o : Halve(ls, q, test, o.val, o.ch))
  IN  after
Search(ls, q, test, lo, hi, ch) ==
  Bind(Halved(ls, q, test, lo, hi, ch)[IF lo < hi THEN hi - lo ELSE 0], LAMBDA o :
    Ok(o.val.lo, o.ch))

highest(ls, q, least, bits, ch) ==
  Bind(Search(ls, q, "mustBeUpTo", least, Highest(bits), ch), LAMBDA o :
    Ok(<<least, o.val>>, o.ch))

getRange(ls, q, ch) ==
  IF Width(q.e) = 1
  THEN UNION {IF ~o.ok THEN Aborts(o.ch)
              ELSE Ok([True |-> <<1, 1>>, False |-> <<0, 0>>, Unknown |-> <<0, 1>>][o.val], o.ch)
              : o \in evaluate(ls, q, ch)}
  ELSE IF Constant(q.e) THEN Ok(<<ConstantValue(q.e), ConstantValue(q.e)>>, ch)
  ELSE Bind(Search(ls, q, "useful", 0, Width(q.e), ch), LAMBDA b :
         UNION {IF ~z.ok THEN Aborts(z.ch)
                ELSE IF z.val THEN highest(ls, q, 0, b.val, z.ch)
                ELSE Bind(Search(ls, q, "mayBeUpTo", 0, Highest(b.val), z.ch), LAMBDA m :
                       highest(ls, q, m.val, b.val, m.ch))
                : z \in mayBeTrue(ls, withExpr(q, EqualTo(q.e, 0)), b.ch)})

\* TimingSolver simplifies with the state's constraints, but not for getRange
TimingSolver(ls, kind, cs, a, ch) ==
  LET q == Query(cs, Simplified(cs, a))
  IN  CASE kind = "evaluate" -> evaluate(ls, q, ch)
        [] kind = "mustBeTrue" -> mustBeTrue(ls, q, ch)
        [] kind = "mayBeTrue" ->
             Bind(mustBeTrue(ls, Query(cs, Simplified(cs, Negation(a))), ch), LAMBDA o :
               Ok(~o.val, o.ch))
        [] kind = "getValue" -> getValue(ls, q, ch)
        [] kind = "getInitialValues" -> getInitialValues(ls, Query(cs, Falsehood), ch)
        [] kind = "getRange" -> getRange(ls, Query(cs, a), ch)
=============================================================================
