---------------------------- MODULE SolvingProofs ----------------------------
(* Every chain of solvers answers right, for any array, any expressions whose *)
(* creation, evaluation and reads keep their meaning, any order of layers in  *)
(* front of the core solver and any history of paths and questions.  Each     *)
(* layer is shown to answer right if those behind it do; a chain does by      *)
(* induction over its length; the caches are right because only right answers *)
(* get into them, and they stay right because they do not speak of a path.    *)
EXTENDS Solving, SequenceTheorems, WellFoundedInduction, TLAPS

CONSTANT Expression         \* the expressions that queries are made of

Condition == {a \in Expression : Width(a) = 1}

(***************************************************************************)
(* What is known of expressions (modules Expressions, FastCex and          *)
(* Constraints check it by evaluating them)                                *)
(***************************************************************************)

\* Assignment::evaluate gives what the expression means.
Evaluates ==
  /\ \A a \in Expression, env \in Envs :
       Meaning(a, env) \in Nat /\ ValueUnder(a, env) = Meaning(a, env)
  /\ \A a \in Condition, env \in Envs : Meaning(a, env) \in {0, 1}

\* createIsZero is the negation, and a ConstantExpr of width 1 that is not the
\* false one is true.
Negates ==
  /\ Falsehood \in Condition /\ \A env \in Envs : Meaning(Falsehood, env) = 0
  /\ \A a \in Condition : /\ Negation(a) \in Condition
                          /\ \A env \in Envs : Meaning(Negation(a), env) = 1 - Meaning(a, env)
  /\ \A a \in Expression : Constant(a) => \A env \in Envs : Meaning(a, env) = ConstantValue(a)
  /\ \A a \in Condition : Constant(a) /\ a # Falsehood => ConstantValue(a) = 1

\* the cells of the symbolic array that a set of elements stands for
ReadCells(s) ==
  {i \in Cells : TheArray \in s.whole \/ <<TheArray, i>> \in s.elements}

\* findReads and IndependentElementSet find all that the value depends on.
Reads ==
  \A a \in Expression :
    /\ ReadSet(a) = [whole |-> ReadSet(a).whole, elements |-> ReadSet(a).elements,
                     exprs |-> <<a>>]
    /\ \A env, other \in Envs :
         (\A i \in ReadCells(ReadSet(a)) : env[i] = other[i]) => Meaning(a, env) = Meaning(a, other)

\* FastCexSolver says only what is so.
Propagates ==
  /\ \A q \in [cs : Seq(Condition), e : Condition] :
       /\ Propagate("truth", q).res \in {"MustBeTrue", "MayBeFalse", "None", "Aborted"}
       /\ Propagate("truth", q).res = "MustBeTrue" => Models(q) = {}
       /\ Propagate("truth", q).res = "MayBeFalse" => Models(q) # {}
       /\ Propagate("initial", q).res \in {"Found", "None", "Aborted"}
       /\ Propagate("initial", q).res = "Found" =>
            IF Models(q) = {} THEN Propagate("initial", q).answer = NoSolution
            ELSE Propagate("initial", q).answer \in Models(q)
  /\ \A q \in [cs : Seq(Condition), e : Expression] :
       /\ Propagate("value", q).res \in {"Found", "None", "Aborted"}
       /\ Propagate("value", q).res = "Found" =>
            \E env \in Holding(q.cs) : Propagate("value", q).answer = Meaning(q.e, env)

(***************************************************************************)
(* What a layer promises                                                   *)
(***************************************************************************)

Kinds == {"truth", "validity", "value", "initial"}

\* Only the assignments are asked for under constraints that may have none.
Queries(kind) ==
  {q \in [cs : Seq(Condition), e : Expression] :
     /\ kind # "value" => q.e \in Condition
     /\ kind # "initial" => Holding(q.cs) # {}}

Answers(kind, q, objects, v) ==
  CASE kind = "truth" -> v = (Models(q) = {})
    [] kind = "validity" -> v = Validity(Models(q) = {}, Models(negateExpr(q)) = {})
    [] kind = "value" -> \E env \in Holding(q.cs) : v = Meaning(q.e, env)
    [] kind = "initial" ->
         IF Models(q) = {} THEN v = NoSolution
         ELSE IF objects THEN v \in Models(q) ELSE v \in Envs

Slots == Seq(Condition) \X Condition

CachesFine(c) ==
  /\ {"branch", "cex", "table", "failed", "abort"} \subseteq DOMAIN c
  /\ DOMAIN c.branch \subseteq Slots
  /\ \A slot \in DOMAIN c.branch :
       c.branch[slot] \in PartialValidity /\ BranchRight(slot, c.branch[slot])
  /\ DOMAIN c.cex \subseteq SUBSET Condition
  /\ \A key \in DOMAIN c.cex :
       c.cex[key] \in Envs \cup {NoSolution} /\ CexRight(key, c.cex[key])
  /\ c.table \subseteq Envs

Right(kind, q, objects, o) ==
  CachesFine(o.ch) /\ o.ok \in BOOLEAN /\ (o.ok => Answers(kind, q, objects, o.val))

\* the chain ls answers right
Promise(ls) ==
  \A kind \in Kinds, objects \in BOOLEAN : \A q \in Queries(kind) : \A c :
    CachesFine(c) => \A o \in Ask(ls, kind, q, objects, c) : Right(kind, q, objects, o)

(***************************************************************************)
(* Expressions and their values                                            *)
(***************************************************************************)

LEMMA EnvsFacts ==
  NoSolution \notin Envs /\ Zeros \in Envs
PROOF
  <1>1. \A env \in Envs : DOMAIN env = Cells
    BY DEF Envs
  <1>2. DOMAIN NoSolution = {}
    BY DEF NoSolution
  <1> QED BY <1>1, <1>2, CellAssumption DEF Envs, Zeros

\* A condition and its negation exclude each other and leave nothing out.
LEMMA ModelsOfNegation ==
  ASSUME Evaluates, Negates, NEW cs, NEW a \in Condition
  PROVE  /\ Holding(cs) \subseteq Envs
         /\ Models(Query(cs, a)) = {env \in Holding(cs) : Meaning(a, env) = 0}
         /\ Models(Query(cs, Negation(a))) = {env \in Holding(cs) : Meaning(a, env) = 1}
         /\ Models(Query(cs, Falsehood)) = Holding(cs)
         /\ Values(cs, a) \subseteq {0, 1}
         /\ Models(Query(cs, a)) = {} <=> 0 \notin Values(cs, a)
         /\ Models(Query(cs, Negation(a))) = {} <=> 1 \notin Values(cs, a)
         /\ Holding(cs) # {} => Values(cs, a) # {}
PROOF
  <1>1. Holding(cs) \subseteq Envs
    BY DEF Holding
  <1>2. \A env \in Holding(cs) : /\ Meaning(a, env) \in {0, 1}
                                 /\ Meaning(Negation(a), env) = 1 - Meaning(a, env)
                                 /\ Meaning(Falsehood, env) = 0
    BY <1>1 DEF Evaluates, Negates
  <1>3. Models(Query(cs, a)) = {env \in Holding(cs) : Meaning(a, env) = 0}
    BY DEF Models, Query
  <1>4. Models(Query(cs, Negation(a))) = {env \in Holding(cs) : Meaning(a, env) = 1}
    BY <1>2 DEF Models, Query
  <1>5. Models(Query(cs, Falsehood)) = Holding(cs)
    BY <1>2 DEF Models, Query
  <1> QED BY <1>1, <1>2, <1>3, <1>4, <1>5 DEF Values

(***************************************************************************)
(* The core solver                                                         *)
(***************************************************************************)

LEMMA ModelsInEnvs ==
  ASSUME NEW q PROVE Models(q) \subseteq Envs /\ Models(q) \subseteq Holding(q.cs)
BY DEF Models, Holding

LEMMA SomeModelsRight ==
  ASSUME NEW q
  PROVE  SomeModels(q) \subseteq Models(q) /\ (SomeModels(q) = {} <=> Models(q) = {})
PROOF
  <1> DEFINE all == Models(q)
             one == CHOOSE env \in all : TRUE
             other == CHOOSE env \in all \ {one} : \E i \in Cells : env[i] # one[i]
  <1>1. SomeModels(q) = IF all = {} THEN {} ELSE IF all = {one} THEN {one} ELSE {one, other}
    BY DEF SomeModels
  <1>2. CASE all = {}
    BY <1>1, <1>2
  <1>3. CASE all # {}
    <2>1. one \in all
      BY <1>3
    <2>2. ASSUME all # {one} PROVE other \in all
      <3>1. PICK env \in all : env # one
        BY <2>1, <2>2
      <3>2. \E i \in Cells : env[i] # one[i]
        BY <2>1, <3>1, ModelsInEnvs DEF Envs
      <3> HIDE DEF one, all
      <3> QED BY <3>1, <3>2
    <2> HIDE DEF one, other, all
    <2> QED BY <1>1, <1>3, <2>1, <2>2 DEF all
  <1> QED BY <1>2, <1>3

\* A failure is only recorded.
LEMMA FailedFine ==
  ASSUME NEW c, CachesFine(c)
  PROVE  CachesFine([c EXCEPT !.failed = TRUE]) /\ CachesFine([c EXCEPT !.abort = TRUE])
PROOF
  <1> DEFINE d == [c EXCEPT !.failed = TRUE]
             e == [c EXCEPT !.abort = TRUE]
  <1>1. {"branch", "cex", "table", "failed", "abort"} \subseteq DOMAIN c
    BY DEF CachesFine
  <1>2. DOMAIN d = DOMAIN c /\ d.branch = c.branch /\ d.cex = c.cex /\ d.table = c.table
    BY <1>1
  <1>3. DOMAIN e = DOMAIN c /\ e.branch = c.branch /\ e.cex = c.cex /\ e.table = c.table
    BY <1>1
  <1> HIDE DEF d, e
  <1>4. CachesFine(d) /\ CachesFine(e)
    BY <1>1, <1>2, <1>3 DEF CachesFine
  <1> QED BY <1>4 DEF d, e

\* The outcomes of a call, one by one
LEMMA OkRight ==
  ASSUME NEW kind, NEW q, NEW objects, NEW c, CachesFine(c), NEW v,
         Answers(kind, q, objects, v), NEW o \in Ok(v, c)
  PROVE  Right(kind, q, objects, o)
PROOF
  <1>1. o.ok = TRUE /\ o.val = v /\ o.ch = c
    BY DEF Ok
  <1> QED BY <1>1 DEF Right

LEMMA FailsRight ==
  ASSUME NEW kind, NEW q, NEW objects, NEW c, CachesFine(c), NEW o \in Fails(c)
  PROVE  Right(kind, q, objects, o)
PROOF
  <1>1. o.ok = FALSE /\ o.ch = c
    BY DEF Fails
  <1> QED BY <1>1 DEF Right

LEMMA AbortsRight ==
  ASSUME NEW kind, NEW q, NEW objects, NEW c, CachesFine(c), NEW o \in Aborts(c)
  PROVE  Right(kind, q, objects, o)
BY FailedFine, FailsRight DEF Aborts

LEMMA FailurePassed ==
  ASSUME NEW kind, NEW q, NEW objects, NEW other, NEW p, NEW them, NEW o,
         Right(other, p, them, o), ~o.ok
  PROVE  Right(kind, q, objects, o)
BY DEF Right

\* One answer after another: a truth, and a truth about the negation
LEMMA ValidityOfTruths ==
  ASSUME NEW q, NEW objects
  PROVE  /\ Models(q) = {} => Answers("validity", q, objects, "True")
         /\ Models(q) # {} => \A v : Answers("truth", negateExpr(q), FALSE, v) =>
              Answers("validity", q, objects, Validity(FALSE, v))
         /\ Models(q) = {} \/ Models(negateExpr(q)) # {} => \A v : Answers("truth", q, FALSE, v) =>
              Answers("validity", q, objects, Validity(v, FALSE))
         /\ Models(q) # {} /\ Models(negateExpr(q)) # {} => Answers("validity", q, objects, "Unknown")
         /\ Models(q) # {} /\ Models(negateExpr(q)) = {} => Answers("validity", q, objects, "False")
BY DEF Answers, Validity

LEMMA CoreInitial ==
  ASSUME NEW q, NEW objects \in BOOLEAN, NEW c, CachesFine(c),
         NEW o \in coreInitialValues(q, objects, c)
  PROVE  Right("initial", q, objects, o)
PROOF
  <1> DEFINE envs == SomeModels(q)
  <1>1. CASE o \in Fails([c EXCEPT !.failed = TRUE])
    BY <1>1, FailedFine, FailsRight
  <1>2. CASE o \notin Fails([c EXCEPT !.failed = TRUE])
    <2>1. o \in IF envs = {} THEN Ok(NoSolution, c)
                ELSE IF objects THEN UNION {Ok(env, c) : env \in envs} ELSE Ok(Zeros, c)
      BY <1>2 DEF coreInitialValues
    <2>2. CASE envs = {}
      <3>1. Answers("initial", q, objects, NoSolution)
        BY <2>2, SomeModelsRight DEF Answers
      <3> QED BY <2>1, <2>2, <3>1, OkRight
    <2>3. CASE envs # {} /\ objects
      <3>1. PICK env \in envs : o \in Ok(env, c)
        BY <2>1, <2>3
      <3>2. Answers("initial", q, objects, env)
        BY <2>3, SomeModelsRight DEF Answers
      <3> QED BY <3>1, <3>2, OkRight
    <2>4. CASE envs # {} /\ ~objects
      <3>1. Answers("initial", q, objects, Zeros)
        BY <2>4, SomeModelsRight, EnvsFacts DEF Answers
      <3> QED BY <2>1, <2>4, <3>1, OkRight
    <2> QED BY <2>2, <2>3, <2>4
  <1> QED BY <1>1, <1>2

LEMMA CoreTruth ==
  ASSUME NEW q, NEW c, CachesFine(c), NEW o \in coreTruth(q, c)
  PROVE  Right("truth", q, FALSE, o)
PROOF
  <1>1. PICK x \in coreInitialValues(q, FALSE, c) :
          o \in IF x.ok THEN Ok(x.val = NoSolution, x.ch) ELSE {x}
    BY DEF coreTruth, Bind
  <1>2. Right("initial", q, FALSE, x)
    BY CoreInitial
  <1>3. CASE ~x.ok
    <2>1. o = x
      BY <1>1, <1>3
    <2> QED BY <1>2, <1>3, <2>1, FailurePassed
  <1>4. CASE x.ok
    <2>1. Answers("truth", q, FALSE, x.val = NoSolution)
      BY <1>2, <1>4, EnvsFacts DEF Right, Answers
    <2>2. CachesFine(x.ch) /\ o \in Ok(x.val = NoSolution, x.ch)
      BY <1>1, <1>2, <1>4 DEF Right
    <2> HIDE DEF Right
    <2> QED BY <2>1, <2>2, OkRight
  <1> QED BY <1>3, <1>4

LEMMA CoreValidity ==
  ASSUME NEW q, NEW c, CachesFine(c), NEW o \in coreValidity(q, c)
  PROVE  Right("validity", q, FALSE, o)
PROOF
  <1>1. PICK x \in coreTruth(q, c) :
          o \in IF x.ok
                THEN IF x.val THEN Ok("True", x.ch)
                     ELSE Bind(coreTruth(negateExpr(q), x.ch), LAMBDA p :
                            Ok(Validity(FALSE, p.val), p.ch))
                ELSE {x}
    BY DEF coreValidity, Bind
  <1>2. Right("truth", q, FALSE, x)
    BY CoreTruth
  <1>3. CASE ~x.ok
    <2>1. o = x
      BY <1>1, <1>3
    <2> QED BY <1>2, <1>3, <2>1, FailurePassed
  <1>4. CASE x.ok
    <2>1. CachesFine(x.ch) /\ x.val = (Models(q) = {})
      BY <1>2, <1>4 DEF Right, Answers
    <2>2. CASE Models(q) = {}
      <3>1. o \in Ok("True", x.ch)
        BY <1>1, <1>4, <2>1, <2>2
      <3> QED BY <2>1, <2>2, <3>1, ValidityOfTruths, OkRight
    <2>3. CASE Models(q) # {}
      <3>1. o \in Bind(coreTruth(negateExpr(q), x.ch), LAMBDA p : Ok(Validity(FALSE, p.val), p.ch))
        BY <1>1, <1>4, <2>1, <2>3
      <3>2. PICK p \in coreTruth(negateExpr(q), x.ch) :
              o \in IF p.ok THEN Ok(Validity(FALSE, p.val), p.ch) ELSE {p}
        BY <3>1 DEF Bind
      <3>3. Right("truth", negateExpr(q), FALSE, p)
        BY <2>1, CoreTruth
      <3>4. CASE ~p.ok
        <4>1. o = p
          BY <3>2, <3>4
        <4> QED BY <3>3, <3>4, <4>1, FailurePassed
      <3>5. CASE p.ok
        <4>1. CachesFine(p.ch) /\ Answers("truth", negateExpr(q), FALSE, p.val)
          BY <3>3, <3>5 DEF Right
        <4>2. o \in Ok(Validity(FALSE, p.val), p.ch)
          BY <3>2, <3>5
        <4> QED BY <2>3, <4>1, <4>2, ValidityOfTruths, OkRight
      <3> QED BY <3>4, <3>5
    <2> QED BY <2>2, <2>3
  <1> QED BY <1>3, <1>4

LEMMA CoreValue ==
  ASSUME Evaluates, Negates, Reads,
         NEW q \in Queries("value"), NEW c, CachesFine(c), NEW o \in coreValue(q, c)
  PROVE  Right("value", q, FALSE, o)
PROOF
  <1> DEFINE objects == HasSymbolic({q.e})
  <1>0. objects \in BOOLEAN /\ q.e \in Expression
    BY DEF HasSymbolic, Queries
  <1>1. PICK x \in coreInitialValues(withFalse(q), objects, c) :
          o \in IF x.ok THEN IF x.val = NoSolution THEN Aborts(x.ch)
                             ELSE Ok(ValueUnder(q.e, x.val), x.ch)
                ELSE {x}
    BY DEF coreValue, Bind
  <1>2. Right("initial", withFalse(q), objects, x)
    BY <1>0, CoreInitial
  <1>3. CASE ~x.ok
    <2>1. o = x
      BY <1>1, <1>3
    <2> QED BY <1>2, <1>3, <2>1, FailurePassed
  <1>4. CASE x.ok /\ x.val = NoSolution
    <2>1. o \in Aborts(x.ch) /\ CachesFine(x.ch)
      BY <1>1, <1>2, <1>4 DEF Right
    <2> QED BY <2>1, AbortsRight
  <1>5. CASE x.ok /\ x.val # NoSolution
    <2>1. Models(withFalse(q)) \subseteq Holding(q.cs) /\ Holding(q.cs) \subseteq Envs
      BY DEF Models, Holding, withFalse, Query
    <2>2. o \in Ok(ValueUnder(q.e, x.val), x.ch) /\ CachesFine(x.ch)
      BY <1>1, <1>2, <1>5 DEF Right
    <2>3. Models(withFalse(q)) # {}
      BY <1>2, <1>5 DEF Right, Answers
    <2>4. \E env \in Holding(q.cs) : ValueUnder(q.e, x.val) = Meaning(q.e, env)
      <3>1. CASE objects
        <4>1. x.val \in Models(withFalse(q))
          BY <1>2, <1>5, <2>3, <3>1 DEF Right, Answers
        <4> QED BY <2>1, <4>1, <1>0 DEF Evaluates
      <3>2. CASE ~objects
        <4>1. PICK env \in Models(withFalse(q)) : TRUE
          BY <2>3
        <4>2. x.val \in Envs
          BY <1>2, <1>5, <2>3, <3>2 DEF Right, Answers
        <4>3. ReadCells(ReadSet(q.e)) = {}
          BY <3>2, <1>0 DEF HasSymbolic, Arrays, ReadCells
        <4>4. Meaning(q.e, x.val) = Meaning(q.e, env)
          BY <2>1, <4>1, <4>2, <4>3, <1>0 DEF Reads
        <4> QED BY <1>0, <2>1, <4>1, <4>2, <4>4 DEF Evaluates
      <3> QED BY <3>1, <3>2
    <2>5. Answers("value", q, FALSE, ValueUnder(q.e, x.val))
      BY <2>4 DEF Answers
    <2> QED BY <2>2, <2>5, OkRight
  <1> QED BY <1>3, <1>4, <1>5

LEMMA CoreRight ==
  ASSUME Evaluates, Negates, Reads,
         NEW kind \in Kinds, NEW objects \in BOOLEAN, NEW q \in Queries(kind),
         NEW c, CachesFine(c), NEW o \in askCore(kind, q, objects, c)
  PROVE  Right(kind, q, objects, o)
PROOF
  <1>1. CASE kind = "truth"
    <2>1. Right("truth", q, FALSE, o)
      BY <1>1, CoreTruth DEF askCore
    <2> QED BY <1>1, <2>1 DEF Right, Answers
  <1>2. CASE kind = "validity"
    <2>1. Right("validity", q, FALSE, o)
      BY <1>2, CoreValidity DEF askCore
    <2> QED BY <1>2, <2>1 DEF Right, Answers
  <1>3. CASE kind = "value"
    <2>1. Right("value", q, FALSE, o)
      BY <1>3, CoreValue DEF askCore
    <2> QED BY <1>3, <2>1 DEF Right, Answers
  <1>4. CASE kind = "initial"
    BY <1>4, CoreInitial DEF askCore
  <1> QED BY <1>1, <1>2, <1>3, <1>4 DEF Kinds

(***************************************************************************)
(* The layers in front                                                     *)
(***************************************************************************)

LEMMA QueryFacts ==
  ASSUME Negates, NEW kind, NEW q \in Queries(kind)
  PROVE  /\ q.cs \in Seq(Condition) /\ q.e \in Expression /\ q = [cs |-> q.cs, e |-> q.e]
         /\ negateExpr(q).cs = q.cs /\ negateExpr(q).e = Negation(q.e)
         /\ withFalse(q).cs = q.cs /\ withFalse(q).e = Falsehood
         /\ withFalse(q) \in Queries("initial")
         /\ kind # "value" => /\ q.e \in Condition /\ q \in [cs : Seq(Condition), e : Condition]
                              /\ negateExpr(q) \in [cs : Seq(Condition), e : Condition]
                              /\ q \in Queries("initial") /\ negateExpr(q) \in Queries("initial")
         /\ kind \in {"truth", "validity"} =>
              {q, negateExpr(q)} \subseteq Queries("truth") \cap Queries("validity")
BY DEF Queries, negateExpr, withFalse, Query, Negates, Condition

\* Of a condition and its negation one has a model.
LEMMA OneHasModels ==
  ASSUME Evaluates, Negates, NEW q \in Queries("truth")
  PROVE  Models(q) # {} \/ Models(negateExpr(q)) # {}
PROOF
  <1>1. q.e \in Condition /\ Holding(q.cs) # {} /\ q = Query(q.cs, q.e)
    BY QueryFacts DEF Queries, Query
  <1>2. negateExpr(q) = Query(q.cs, Negation(q.e))
    BY DEF negateExpr
  <1> QED BY <1>1, <1>2, ModelsOfNegation

\* AssignmentValidatingSolver hands on what it is told, or aborts.
LEMMA AssignmentValidatingRight ==
  ASSUME NEW rest, Promise(rest),
         NEW kind \in Kinds, NEW objects \in BOOLEAN, NEW q \in Queries(kind),
         NEW c, CachesFine(c), NEW o \in askAssignmentValidating(rest, kind, q, objects, c)
  PROVE  Right(kind, q, objects, o)
PROOF
  <1> DEFINE outs == Ask(rest, kind, q, objects, c)
  <1>1. \A x \in outs : Right(kind, q, objects, x)
    BY DEF Promise
  <1>2. CASE o \in outs
    BY <1>1, <1>2
  <1>3. CASE o \notin outs
    <2>1. PICK x \in outs : o \in Aborts(x.ch)
      BY <1>3 DEF askAssignmentValidating
    <2>2. CachesFine(x.ch)
      BY <1>1 DEF Right
    <2> QED BY <2>1, <2>2, AbortsRight
  <1> QED BY <1>2, <1>3

(***************************************************************************)
(* FastCexSolver                                                           *)
(***************************************************************************)

LEMMA FastTruthRight ==
  ASSUME Negates, Propagates, NEW rest, Promise(rest),
         NEW objects \in BOOLEAN, NEW q \in Queries("truth"),
         NEW c, CachesFine(c), NEW o \in askFastTruth(rest, q, c)
  PROVE  Right("truth", q, objects, o)
PROOF
  <1> DEFINE t == Propagate("truth", q).res
  <1>1. /\ t \in {"MustBeTrue", "MayBeFalse", "None", "Aborted"}
        /\ t = "MustBeTrue" => Models(q) = {}
        /\ t = "MayBeFalse" => Models(q) # {}
    BY QueryFacts DEF Propagates
  <1>2. o \in IF t = "Aborted" THEN Aborts(c)
             ELSE IF t = "None" THEN Ask(rest, "truth", q, FALSE, c)
             ELSE Ok(t = "MustBeTrue", c)
    BY DEF askFastTruth
  <1> HIDE DEF t
  <1>3. CASE t = "Aborted"
    BY <1>2, <1>3, AbortsRight
  <1>4. CASE t = "None"
    <2>1. Right("truth", q, FALSE, o)
      BY <1>2, <1>4 DEF Promise, Kinds
    <2> QED BY <2>1 DEF Right, Answers
  <1>5. CASE t \in {"MustBeTrue", "MayBeFalse"}
    <2>1. Answers("truth", q, objects, t = "MustBeTrue")
      BY <1>1, <1>5 DEF Answers
    <2>2. o \in Ok(t = "MustBeTrue", c)
      BY <1>2, <1>5
    <2> QED BY <2>1, <2>2, OkRight
  <1> QED BY <1>1, <1>3, <1>4, <1>5

\* What the propagation of an expression and of its negation say together
LEMMA FastValiditySound ==
  ASSUME Evaluates, Negates, Propagates, NEW q \in Queries("truth")
  PROVE  /\ fastValidity(q) \in {"MustBeTrue", "MustBeFalse", "TrueOrFalse", "MayBeTrue",
                                 "MayBeFalse", "None", "Aborted"}
         /\ fastValidity(q) = "MustBeTrue" => Models(q) = {}
         /\ fastValidity(q) = "MustBeFalse" => Models(negateExpr(q)) = {}
         /\ fastValidity(q) = "TrueOrFalse" => Models(q) # {} /\ Models(negateExpr(q)) # {}
         /\ fastValidity(q) = "MayBeTrue" => Models(negateExpr(q)) # {}
         /\ fastValidity(q) = "MayBeFalse" => Models(q) # {}
PROOF
  <1> DEFINE t == Propagate("truth", q).res
             f == Propagate("truth", negateExpr(q)).res
  <1>1. /\ t \in {"MustBeTrue", "MayBeFalse", "None", "Aborted"}
        /\ t = "MustBeTrue" => Models(q) = {}
        /\ t = "MayBeFalse" => Models(q) # {}
    BY QueryFacts DEF Propagates
  <1>2. /\ f \in {"MustBeTrue", "MayBeFalse", "None", "Aborted"}
        /\ f = "MustBeTrue" => Models(negateExpr(q)) = {}
        /\ f = "MayBeFalse" => Models(negateExpr(q)) # {}
    BY QueryFacts DEF Propagates
  <1>3. fastValidity(q) =
          IF t \in {"MustBeTrue", "Aborted"} THEN t
          ELSE IF f = "Aborted" THEN f
          ELSE IF f = "MustBeTrue" THEN "MustBeFalse"
          ELSE IF t # "None" /\ f # "None" THEN "TrueOrFalse"
          ELSE IF t # "None" THEN "MayBeFalse"
          ELSE IF f # "None" THEN "MayBeTrue"
          ELSE "None"
    BY DEF fastValidity
  <1> HIDE DEF t, f
  <1> QED BY <1>1, <1>2, <1>3

LEMMA FastValidityRight ==
  ASSUME Evaluates, Negates, Propagates, NEW rest, Promise(rest),
         NEW objects \in BOOLEAN, NEW q \in Queries("validity"),
         NEW c, CachesFine(c), NEW o \in askFastValidity(rest, q, c)
  PROVE  Right("validity", q, objects, o)
PROOF
  <1> DEFINE v == fastValidity(q)
  <1>1. q \in Queries("truth") /\ negateExpr(q) \in Queries("truth")
    BY QueryFacts
  <1>2. Models(q) # {} \/ Models(negateExpr(q)) # {}
    BY <1>1, OneHasModels
  <1>3. /\ v \in {"MustBeTrue", "MustBeFalse", "TrueOrFalse", "MayBeTrue", "MayBeFalse", "None",
                  "Aborted"}
        /\ v = "MustBeTrue" => Models(q) = {}
        /\ v = "MustBeFalse" => Models(negateExpr(q)) = {}
        /\ v = "TrueOrFalse" => Models(q) # {} /\ Models(negateExpr(q)) # {}
        /\ v = "MayBeTrue" => Models(negateExpr(q)) # {}
        /\ v = "MayBeFalse" => Models(q) # {}
    BY <1>1, FastValiditySound
  <1>4. o \in askFastValidity(rest, q, c)
    OBVIOUS
  <1>5. \A p \in {q, negateExpr(q)} : \A x \in Ask(rest, "truth", p, FALSE, c) : Right("truth", p, FALSE, x)
    BY <1>1 DEF Promise, Kinds
  <1>6. CASE v = "Aborted"
    <2>1. o \in Aborts(c)
      BY <1>4, <1>6 DEF askFastValidity
    <2> QED BY <2>1, AbortsRight
  <1>7. CASE v = "MustBeTrue"
    <2>1. o \in Ok("True", c)
      BY <1>4, <1>7 DEF askFastValidity
    <2> QED BY <1>3, <1>7, <2>1, ValidityOfTruths, OkRight
  <1>8. CASE v = "MustBeFalse"
    <2>1. o \in Ok("False", c)
      BY <1>4, <1>8 DEF askFastValidity
    <2> QED BY <1>2, <1>3, <1>8, <2>1, ValidityOfTruths, OkRight
  <1>9. CASE v = "TrueOrFalse"
    <2>1. o \in Ok("Unknown", c)
      BY <1>4, <1>9 DEF askFastValidity
    <2> QED BY <1>3, <1>9, <2>1, ValidityOfTruths, OkRight
  <1>10. CASE v = "MayBeTrue"
    <2>1. o \in Bind(Ask(rest, "truth", q, FALSE, c), LAMBDA x : Ok(Validity(x.val, FALSE), x.ch))
      BY <1>4, <1>10 DEF askFastValidity
    <2>2. PICK x \in Ask(rest, "truth", q, FALSE, c) :
            o \in IF x.ok THEN Ok(Validity(x.val, FALSE), x.ch) ELSE {x}
      BY <2>1 DEF Bind
    <2>3. Right("truth", q, FALSE, x)
      BY <1>5
    <2>4. CASE ~x.ok
      BY <2>2, <2>3, <2>4, FailurePassed
    <2>5. CASE x.ok
      <3>1. CachesFine(x.ch) /\ Answers("truth", q, FALSE, x.val)
        BY <2>3, <2>5 DEF Right
      <3> QED BY <1>3, <1>10, <2>2, <2>5, <3>1, ValidityOfTruths, OkRight
    <2> QED BY <2>4, <2>5
  <1>11. CASE v = "MayBeFalse"
    <2>1. o \in Bind(Ask(rest, "truth", negateExpr(q), FALSE, c), LAMBDA x :
                  Ok(Validity(FALSE, x.val), x.ch))
      BY <1>4, <1>11 DEF askFastValidity
    <2>2. PICK x \in Ask(rest, "truth", negateExpr(q), FALSE, c) :
            o \in IF x.ok THEN Ok(Validity(FALSE, x.val), x.ch) ELSE {x}
      BY <2>1 DEF Bind
    <2>3. Right("truth", negateExpr(q), FALSE, x)
      BY <1>5
    <2>4. CASE ~x.ok
      BY <2>2, <2>3, <2>4, FailurePassed
    <2>5. CASE x.ok
      <3>1. CachesFine(x.ch) /\ Answers("truth", negateExpr(q), FALSE, x.val)
        BY <2>3, <2>5 DEF Right
      <3> QED BY <1>3, <1>11, <2>2, <2>5, <3>1, ValidityOfTruths, OkRight
    <2> QED BY <2>4, <2>5
  <1>12. CASE v = "None"
    <2>1. o \in Ask(rest, "validity", q, FALSE, c)
      BY <1>4, <1>12 DEF askFastValidity
    <2>2. Right("validity", q, FALSE, o)
      BY <2>1 DEF Promise, Kinds
    <2> QED BY <2>2 DEF Right, Answers
  <1> HIDE DEF v
  <1> QED BY <1>3, <1>6, <1>7, <1>8, <1>9, <1>10, <1>11, <1>12

LEMMA FastAnswerRight ==
  ASSUME Negates, Propagates, NEW rest, Promise(rest), NEW kind \in {"value", "initial"},
         NEW objects \in BOOLEAN, NEW q \in Queries(kind),
         NEW c, CachesFine(c), NEW o \in askFastAnswer(rest, kind, q, objects, c)
  PROVE  Right(kind, q, objects, o)
PROOF
  <1> DEFINE found == Propagate(kind, q)
             v == IF kind = "initial" /\ found.answer # NoSolution /\ ~objects THEN Zeros
                  ELSE found.answer
  <1>1. found.res \in {"Found", "None", "Aborted"}
    <2>1. CASE kind = "value"
      BY <2>1, QueryFacts DEF Propagates, Queries
    <2>2. CASE kind = "initial"
      BY <2>2, QueryFacts DEF Propagates
    <2> QED BY <2>1, <2>2
  <1>2. CASE found.res = "Aborted"
    <2>1. o \in Aborts(c)
      BY <1>2 DEF askFastAnswer
    <2> QED BY <2>1, AbortsRight
  <1>3. CASE found.res = "None"
    <2>1. o \in Ask(rest, kind, q, objects, c)
      BY <1>3 DEF askFastAnswer
    <2> QED BY <2>1 DEF Promise, Kinds
  <1>4. CASE found.res = "Found"
    <2>1. o \in Ok(v, c)
      BY <1>4 DEF askFastAnswer
    <2>2. Answers(kind, q, objects, v)
      <3>1. CASE kind = "value"
        BY <1>4, <3>1 DEF Propagates, Queries, Answers
      <3>2. CASE kind = "initial"
        <4>1. IF Models(q) = {} THEN found.answer = NoSolution ELSE found.answer \in Models(q)
          BY <1>4, <3>2, QueryFacts DEF Propagates
        <4>2. Models(q) \subseteq Envs
          BY ModelsInEnvs
        <4> HIDE DEF found
        <4> QED BY <3>2, <4>1, <4>2, EnvsFacts DEF Answers
      <3> QED BY <3>1, <3>2
    <2> QED BY <2>1, <2>2, OkRight
  <1> QED BY <1>1, <1>2, <1>3, <1>4

LEMMA FastRight ==
  ASSUME Evaluates, Negates, Propagates, NEW rest, Promise(rest),
         NEW kind \in Kinds, NEW objects \in BOOLEAN, NEW q \in Queries(kind),
         NEW c, CachesFine(c), NEW o \in askFast(rest, kind, q, objects, c)
  PROVE  Right(kind, q, objects, o)
PROOF
  <1>1. CASE kind = "truth"
    BY <1>1, FastTruthRight DEF askFast
  <1>2. CASE kind = "validity"
    BY <1>2, FastValidityRight DEF askFast
  <1>3. CASE kind \in {"value", "initial"}
    <2>1. o \in askFastAnswer(rest, kind, q, objects, c)
      BY <1>3 DEF askFast
    <2> QED BY <1>3, <2>1, FastAnswerRight
  <1> QED BY <1>1, <1>2, <1>3 DEF Kinds

(***************************************************************************)
(* CexCachingSolver                                                        *)
(***************************************************************************)

\* An assignment answers a query just as it answers the query's key.
LEMMA KeyOfQuery ==
  ASSUME Evaluates, Negates, NEW q \in Queries("initial")
  PROVE  /\ CexKey(q) \subseteq Condition
         /\ Negation(q.e) = Falsehood => Models(q) = {}
         /\ Negation(q.e) # Falsehood =>
              Models(q) = {env \in Envs : \A a \in CexKey(q) : Meaning(a, env) = 1}
PROOF
  <1> DEFINE neg == Negation(q.e)
  <1>1. q.cs \in Seq(Condition) /\ q.e \in Condition /\ neg \in Condition
    BY QueryFacts DEF Negates
  <1>2. \A n \in DOMAIN q.cs : q.cs[n] \in Condition
    BY <1>1
  <1>3. \A env \in Envs : Meaning(q.e, env) = 0 <=> Meaning(neg, env) = 1
    BY <1>1 DEF Evaluates, Negates
  <1>4. CexKey(q) = {q.cs[n] : n \in DOMAIN q.cs} \cup (IF Constant(neg) THEN {} ELSE {neg})
    BY DEF CexKey
  <1>5. CexKey(q) \subseteq Condition
    BY <1>1, <1>2, <1>4
  <1>6. ASSUME neg = Falsehood PROVE Models(q) = {}
    BY <1>3, <1>6 DEF Negates, Models, Holding
  <1>7. ASSUME neg # Falsehood
        PROVE  Models(q) = {env \in Envs : \A a \in CexKey(q) : Meaning(a, env) = 1}
    <2>1. ASSUME NEW env \in Envs
          PROVE  env \in Models(q) <=> \A a \in CexKey(q) : Meaning(a, env) = 1
      <3>1. env \in Models(q) <=> (\A n \in DOMAIN q.cs : Meaning(q.cs[n], env) = 1)
                                  /\ Meaning(neg, env) = 1
        BY <1>3 DEF Models, Holding
      <3>2. CASE Constant(neg)
        <4>1. Meaning(neg, env) = 1
          BY <1>1, <1>7, <3>2 DEF Negates, Condition
        <4> QED BY <1>4, <3>1, <3>2, <4>1
      <3>3. CASE ~Constant(neg)
        BY <1>4, <3>1, <3>3
      <3> QED BY <3>2, <3>3
    <2> QED BY <2>1, ModelsInEnvs
  <1> QED BY <1>5, <1>6, <1>7

\* Whatever the search of the cache comes up with answers the key.
LEMMA SearchRight ==
  ASSUME Evaluates, NEW c, CachesFine(c), NEW opt, NEW key \in SUBSET Condition,
         NEW found \in searchForAssignment(opt, key, c)
  PROVE  found \in Envs \cup {NoSolution} /\ CexRight(key, found)
PROOF
  <1> DEFINE super == IF opt.superset
                      THEN {c.cex[k] : k \in {l \in DOMAIN c.cex : key \subseteq l}} \ {NoSolution}
                      ELSE {}
             sub == {c.cex[k] : k \in {l \in DOMAIN c.cex : l \subseteq key}}
             tried == IF opt.tryAll
                      THEN IF NoSolution \in sub THEN {NoSolution}
                           ELSE {env \in c.table : satisfies(env, key)}
                      ELSE {env \in sub : env = NoSolution \/ satisfies(env, key)}
  <1>1. found \in IF key \in DOMAIN c.cex THEN {c.cex[key]} ELSE IF super # {} THEN super ELSE tried
    BY DEF searchForAssignment
  <1>2. \A k \in DOMAIN c.cex : c.cex[k] \in Envs \cup {NoSolution} /\ CexRight(k, c.cex[k])
    BY DEF CachesFine
  <1>3. CASE key \in DOMAIN c.cex
    BY <1>1, <1>2, <1>3
  <1>4. CASE key \notin DOMAIN c.cex /\ super # {}
    <2>1. PICK k \in DOMAIN c.cex : key \subseteq k /\ found = c.cex[k] /\ found # NoSolution
      BY <1>1, <1>4
    <2> HIDE DEF super, tried
    <2> QED BY <1>2, <2>1 DEF CexRight
  <1>5. CASE found \in tried
    <2>1. ASSUME found = NoSolution, NoSolution \in sub PROVE CexRight(key, found)
      <3>1. PICK k \in DOMAIN c.cex : k \subseteq key /\ c.cex[k] = NoSolution
        BY <2>1
      <3> QED BY <1>2, <2>1, <3>1 DEF CexRight
    <2>2. ASSUME found \in Envs, satisfies(found, key) PROVE CexRight(key, found)
      BY <2>2, EnvsFacts DEF satisfies, Evaluates, Condition, CexRight
    <2>3. \/ found = NoSolution /\ NoSolution \in sub
          \/ found \in Envs /\ satisfies(found, key)
      <3>1. c.table \subseteq Envs
        BY DEF CachesFine
      <3>2. sub \subseteq Envs \cup {NoSolution}
        BY <1>2
      <3>3. tried \subseteq {e \in Envs : satisfies(e, key)}
                            \cup (IF NoSolution \in sub THEN {NoSolution} ELSE {})
        <4> HIDE DEF sub
        <4> QED BY <3>1, <3>2
      <3> HIDE DEF sub, tried
      <3> QED BY <1>5, <3>3
    <2> HIDE DEF sub, tried
    <2> QED BY <2>1, <2>2, <2>3
  <1> HIDE DEF super, tried
  <1> QED BY <1>1, <1>3, <1>4, <1>5

LEMMA LookupRight ==
  ASSUME Evaluates, Negates, NEW c, CachesFine(c), NEW opt, NEW q \in Queries("initial"),
         NEW found \in lookupAssignment(opt, q, c)
  PROVE  Answers("initial", q, TRUE, found)
PROOF
  <1>1. CASE Negation(q.e) = Falsehood
    BY <1>1, KeyOfQuery DEF lookupAssignment, Answers
  <1>2. CASE Negation(q.e) # Falsehood
    <2>1. CexKey(q) \in SUBSET Condition
          /\ Models(q) = {env \in Envs : \A a \in CexKey(q) : Meaning(a, env) = 1}
      BY <1>2, KeyOfQuery
    <2>2. found \in Envs \cup {NoSolution} /\ CexRight(CexKey(q), found)
      BY <1>2, <2>1, SearchRight DEF lookupAssignment
    <2>3. IF Models(q) = {} THEN found = NoSolution ELSE found \in Models(q)
      BY <2>1, <2>2, EnvsFacts DEF CexRight
    <2> QED BY <2>3 DEF Answers
  <1> QED BY <1>1, <1>2

\* The cache takes a right answer in and stays right.
LEMMA MemoizedFine ==
  ASSUME NEW c, CachesFine(c), NEW key \in SUBSET Condition, NEW found \in Envs \cup {NoSolution},
         CexRight(key, found)
  PROVE  CachesFine(Memoized(key, found, c))
PROOF
  <1> DEFINE d == Memoized(key, found, c)
  <1>1. {"branch", "cex", "table", "failed", "abort"} \subseteq DOMAIN c
    BY DEF CachesFine
  <1>2. /\ DOMAIN d = DOMAIN c /\ d.branch = c.branch
        /\ d.cex = Inserted(c.cex, key, found)
        /\ d.table = IF found = NoSolution THEN c.table ELSE c.table \cup {found}
    BY <1>1 DEF Memoized
  <1> HIDE DEF d
  <1>3. /\ DOMAIN d.cex = {key} \cup DOMAIN c.cex
        /\ \A k \in DOMAIN d.cex : d.cex[k] = IF k \in DOMAIN c.cex THEN c.cex[k] ELSE found
    BY <1>2 DEF Inserted
  <1>4. DOMAIN d.cex \subseteq SUBSET Condition /\ d.table \subseteq Envs
    BY <1>2, <1>3 DEF CachesFine
  <1>5. \A k \in DOMAIN d.cex : d.cex[k] \in Envs \cup {NoSolution} /\ CexRight(k, d.cex[k])
    <2> TAKE k \in DOMAIN d.cex
    <2>1. CASE k \in DOMAIN c.cex
      BY <1>3, <2>1 DEF CachesFine
    <2>2. CASE k \notin DOMAIN c.cex
      <3>1. k = key /\ d.cex[k] = found
        BY <1>3, <2>2
      <3> QED BY <3>1
    <2> QED BY <2>1, <2>2
  <1>6. /\ {"branch", "cex", "table", "failed", "abort"} \subseteq DOMAIN d
        /\ DOMAIN d.branch \subseteq Slots
    BY <1>1, <1>2 DEF CachesFine
  <1>7. \A slot \in DOMAIN d.branch :
          d.branch[slot] \in PartialValidity /\ BranchRight(slot, d.branch[slot])
    BY <1>2 DEF CachesFine
  <1>8. CachesFine(d)
    BY <1>4, <1>5, <1>6, <1>7, Zenon DEF CachesFine
  <1> QED BY <1>8 DEF d

LEMMA GetAssignmentRight ==
  ASSUME Evaluates, Negates, Reads, NEW rest, Promise(rest), NEW opt,
         NEW q \in Queries("initial"), NEW c, CachesFine(c),
         NEW o \in getAssignment(opt, rest, q, c)
  PROVE  Right("initial", q, TRUE, o)
PROOF
  <1> DEFINE found == lookupAssignment(opt, q, c)
             key == CexKey(q)
             objects == HasSymbolic(key)
  <1>1. CASE found # {}
    <2>1. PICK env \in found : o \in Ok(env, c)
      BY <1>1 DEF getAssignment
    <2> QED BY <2>1, LookupRight, OkRight
  <1>2. CASE found = {}
    <2>1. o \in Bind(Ask(rest, "initial", q, objects, c), LAMBDA x :
                  Ok(x.val, Memoized(key, x.val, x.ch)))
      BY <1>2 DEF getAssignment
    <2>2. PICK x \in Ask(rest, "initial", q, objects, c) :
            o \in IF x.ok THEN Ok(x.val, Memoized(key, x.val, x.ch)) ELSE {x}
      BY <2>1 DEF Bind
    <2>3. Right("initial", q, objects, x) /\ objects \in BOOLEAN
      BY DEF Promise, Kinds, HasSymbolic
    <2>4. CASE ~x.ok
      BY <2>2, <2>3, <2>4, FailurePassed
    <2>5. CASE x.ok
      <3>1. CachesFine(x.ch) /\ Answers("initial", q, objects, x.val)
        BY <2>3, <2>5 DEF Right
      <3>2. Negation(q.e) # Falsehood
        BY <1>2 DEF lookupAssignment
      <3>3. key \in SUBSET Condition
            /\ Models(q) = {env \in Envs : \A a \in key : Meaning(a, env) = 1}
        BY <3>2, KeyOfQuery
      <3>4. Answers("initial", q, TRUE, x.val)
        <4>1. CASE objects \/ Models(q) = {}
          BY <3>1, <4>1 DEF Answers
        <4>2. CASE ~objects /\ Models(q) # {}
          <5>1. x.val \in Envs
            BY <3>1, <4>2 DEF Answers
          <5>2. PICK env \in Models(q) : env \in Envs
            BY <4>2, ModelsInEnvs
          <5>3. \A a \in key : ReadCells(ReadSet(a)) = {}
            BY <4>2 DEF HasSymbolic, Arrays, ReadCells
          <5>4. \A a \in key : Meaning(a, env) = Meaning(a, x.val)
            BY <3>3, <5>1, <5>2, <5>3 DEF Reads, Condition
          <5>5. x.val \in Models(q)
            BY <3>3, <5>1, <5>2, <5>4
          <5> QED BY <5>5 DEF Answers
        <4> QED BY <2>3, <4>1, <4>2
      <3>5. x.val \in Envs \cup {NoSolution} /\ CexRight(key, x.val)
        <4> HIDE DEF key
        <4>1. CASE Models(q) = {}
          <5>1. x.val = NoSolution
            BY <3>4, <4>1 DEF Answers
          <5> QED BY <3>3, <4>1, <5>1 DEF CexRight
        <4>2. CASE Models(q) # {}
          <5>1. x.val \in Models(q)
            BY <3>4, <4>2 DEF Answers
          <5> QED BY <3>3, <5>1, EnvsFacts DEF CexRight
        <4> QED BY <4>1, <4>2
      <3>6. CachesFine(Memoized(key, x.val, x.ch))
        BY <3>1, <3>3, <3>5, MemoizedFine
      <3>7. o \in Ok(x.val, Memoized(key, x.val, x.ch))
        BY <2>2, <2>5
      <3> QED BY <3>4, <3>6, <3>7, OkRight
    <2> QED BY <2>3, <2>4, <2>5 DEF Right
  <1> QED BY <1>1, <1>2

LEMMA CexTruthRight ==
  ASSUME Evaluates, Negates, Reads, NEW rest, Promise(rest), NEW opt, NEW objects \in BOOLEAN,
         NEW q \in Queries("truth"), NEW c, CachesFine(c), NEW o \in cexTruth(opt, rest, q, c)
  PROVE  Right("truth", q, objects, o)
PROOF
  <1>1. CASE o \in Fails(c)
    BY <1>1, FailsRight
  <1>2. CASE o \notin Fails(c)
    <2>1. o \in Bind(getAssignment(opt, rest, q, c), LAMBDA x : Ok(x.val = NoSolution, x.ch))
      BY <1>2 DEF cexTruth
    <2>2. PICK x \in getAssignment(opt, rest, q, c) :
            o \in IF x.ok THEN Ok(x.val = NoSolution, x.ch) ELSE {x}
      BY <2>1 DEF Bind
    <2>a. q \in Queries("initial")
      BY QueryFacts
    <2>3. Right("initial", q, TRUE, x)
      BY <2>a, GetAssignmentRight
    <2>4. CASE ~x.ok
      BY <2>2, <2>3, <2>4, FailurePassed
    <2>5. CASE x.ok
      <3>1. CachesFine(x.ch) /\ Answers("initial", q, TRUE, x.val)
        BY <2>3, <2>5 DEF Right
      <3>2. Answers("truth", q, objects, x.val = NoSolution)
        BY <3>1, EnvsFacts, ModelsInEnvs DEF Answers
      <3> QED BY <2>2, <2>5, <3>1, <3>2, OkRight
    <2> QED BY <2>4, <2>5
  <1> QED BY <1>1, <1>2

\* The assignment for the path tells which of the two questions is left.
LEMMA CexValidityRight ==
  ASSUME Evaluates, Negates, Reads, NEW rest, Promise(rest), NEW opt, NEW objects \in BOOLEAN,
         NEW q \in Queries("validity"), NEW c, CachesFine(c),
         NEW o \in cexValidity(opt, rest, q, c)
  PROVE  Right("validity", q, objects, o)
PROOF
  <1>0. /\ q.e \in Condition /\ q = Query(q.cs, q.e)
        /\ negateExpr(q) = Query(q.cs, Negation(q.e))
        /\ q \in Queries("initial") /\ negateExpr(q) \in Queries("initial")
        /\ withFalse(q) \in Queries("initial")
    BY QueryFacts DEF Query, negateExpr
  <1>1. PICK x \in getAssignment(opt, rest, withFalse(q), c) :
          o \in IF x.ok
               THEN IF x.val = NoSolution THEN Aborts(x.ch)
                    ELSE IF ValueUnder(q.e, x.val) = 1
                    THEN Bind(getAssignment(opt, rest, q, x.ch), LAMBDA p :
                           Ok(Validity(p.val = NoSolution, FALSE), p.ch))
                    ELSE Bind(getAssignment(opt, rest, negateExpr(q), x.ch), LAMBDA p :
                           Ok(Validity(FALSE, p.val = NoSolution), p.ch))
               ELSE {x}
    BY DEF cexValidity, Bind
  <1>2. Right("initial", withFalse(q), TRUE, x)
    BY <1>0, GetAssignmentRight
  <1>3. CASE ~x.ok
    BY <1>1, <1>2, <1>3, FailurePassed
  <1>4. CASE x.ok /\ x.val = NoSolution
    <2>1. CachesFine(x.ch) /\ o \in Aborts(x.ch)
      BY <1>1, <1>2, <1>4 DEF Right
    <2> QED BY <2>1, AbortsRight
  <1>5. CASE x.ok /\ x.val # NoSolution
    <2>1. CachesFine(x.ch) /\ x.val \in Models(withFalse(q))
      BY <1>2, <1>5 DEF Right, Answers
    <2>2. x.val \in Holding(q.cs) /\ x.val \in Envs
      BY <2>1 DEF Models, Holding, withFalse, Query
    <2>3. ValueUnder(q.e, x.val) = Meaning(q.e, x.val) /\ Meaning(q.e, x.val) \in {0, 1}
      BY <1>0, <2>2 DEF Evaluates, Condition
    <2>4. CASE ValueUnder(q.e, x.val) = 1
      <3>1. Models(negateExpr(q)) # {}
        BY <1>0, <2>2, <2>3, <2>4, ModelsOfNegation
      <3>2. PICK p \in getAssignment(opt, rest, q, x.ch) :
              o \in IF p.ok THEN Ok(Validity(p.val = NoSolution, FALSE), p.ch) ELSE {p}
        BY <1>1, <1>5, <2>4 DEF Bind
      <3>3. Right("initial", q, TRUE, p)
        BY <1>0, <2>1, GetAssignmentRight
      <3>4. CASE ~p.ok
        BY <3>2, <3>3, <3>4, FailurePassed
      <3>5. CASE p.ok
        <4>1. CachesFine(p.ch) /\ Answers("initial", q, TRUE, p.val)
          BY <3>3, <3>5 DEF Right
        <4>2. Answers("truth", q, FALSE, p.val = NoSolution)
          BY <4>1, EnvsFacts, ModelsInEnvs DEF Answers
        <4> QED BY <3>1, <3>2, <3>5, <4>1, <4>2, ValidityOfTruths, OkRight
      <3> QED BY <3>4, <3>5
    <2>5. CASE ValueUnder(q.e, x.val) # 1
      <3>1. Models(q) # {}
        BY <1>0, <2>2, <2>3, <2>5, ModelsOfNegation
      <3>2. PICK p \in getAssignment(opt, rest, negateExpr(q), x.ch) :
              o \in IF p.ok THEN Ok(Validity(FALSE, p.val = NoSolution), p.ch) ELSE {p}
        BY <1>1, <1>5, <2>5 DEF Bind
      <3>3. Right("initial", negateExpr(q), TRUE, p)
        BY <1>0, <2>1, GetAssignmentRight
      <3>4. CASE ~p.ok
        BY <3>2, <3>3, <3>4, FailurePassed
      <3>5. CASE p.ok
        <4>1. CachesFine(p.ch) /\ Answers("initial", negateExpr(q), TRUE, p.val)
          BY <3>3, <3>5 DEF Right
        <4>2. Answers("truth", negateExpr(q), FALSE, p.val = NoSolution)
          BY <4>1, EnvsFacts, ModelsInEnvs DEF Answers
        <4> QED BY <3>1, <3>2, <3>5, <4>1, <4>2, ValidityOfTruths, OkRight
      <3> QED BY <3>4, <3>5
    <2> QED BY <2>4, <2>5
  <1> QED BY <1>3, <1>4, <1>5

LEMMA CexValueRight ==
  ASSUME Evaluates, Negates, Reads, NEW rest, Promise(rest), NEW opt, NEW objects \in BOOLEAN,
         NEW q \in Queries("value"), NEW c, CachesFine(c), NEW o \in cexValue(opt, rest, q, c)
  PROVE  Right("value", q, objects, o)
PROOF
  <1>1. PICK x \in getAssignment(opt, rest, withFalse(q), c) :
          o \in IF x.ok THEN IF x.val = NoSolution THEN Aborts(x.ch)
                             ELSE Ok(ValueUnder(q.e, x.val), x.ch)
               ELSE {x}
    BY DEF cexValue, Bind
  <1>2. Right("initial", withFalse(q), TRUE, x) /\ q.e \in Expression
    BY QueryFacts, GetAssignmentRight
  <1>3. CASE ~x.ok
    BY <1>1, <1>2, <1>3, FailurePassed
  <1>4. CASE x.ok /\ x.val = NoSolution
    <2>1. CachesFine(x.ch) /\ o \in Aborts(x.ch)
      BY <1>1, <1>2, <1>4 DEF Right
    <2> QED BY <2>1, AbortsRight
  <1>5. CASE x.ok /\ x.val # NoSolution
    <2>1. CachesFine(x.ch) /\ x.val \in Models(withFalse(q))
      BY <1>2, <1>5 DEF Right, Answers
    <2>2. x.val \in Holding(q.cs) /\ x.val \in Envs
      BY <2>1 DEF Models, Holding, withFalse, Query
    <2>3. Answers("value", q, objects, ValueUnder(q.e, x.val))
      BY <1>2, <2>2 DEF Evaluates, Answers
    <2> QED BY <1>1, <1>5, <2>1, <2>3, OkRight
  <1> QED BY <1>3, <1>4, <1>5

LEMMA CexInitialRight ==
  ASSUME Evaluates, Negates, Reads, NEW rest, Promise(rest), NEW opt, NEW objects \in BOOLEAN,
         NEW q \in Queries("initial"), NEW c, CachesFine(c),
         NEW o \in cexInitial(opt, rest, q, objects, c)
  PROVE  Right("initial", q, objects, o)
PROOF
  <1>1. PICK x \in getAssignment(opt, rest, q, c) :
          o \in IF x.ok THEN Ok(IF objects \/ x.val = NoSolution THEN x.val ELSE Zeros, x.ch)
               ELSE {x}
    BY DEF cexInitial, Bind
  <1>2. Right("initial", q, TRUE, x)
    BY GetAssignmentRight
  <1>3. CASE ~x.ok
    BY <1>1, <1>2, <1>3, FailurePassed
  <1>4. CASE x.ok
    <2>1. CachesFine(x.ch) /\ Answers("initial", q, TRUE, x.val)
      BY <1>2, <1>4 DEF Right
    <2>2. Answers("initial", q, objects, IF objects \/ x.val = NoSolution THEN x.val ELSE Zeros)
      BY <2>1, EnvsFacts, ModelsInEnvs DEF Answers
    <2> QED BY <1>1, <1>4, <2>1, <2>2, OkRight
  <1> QED BY <1>3, <1>4

LEMMA CexCachingRight ==
  ASSUME Evaluates, Negates, Reads, NEW rest, Promise(rest), NEW opt,
         NEW kind \in Kinds, NEW objects \in BOOLEAN, NEW q \in Queries(kind),
         NEW c, CachesFine(c), NEW o \in askCexCaching(opt, rest, kind, q, objects, c)
  PROVE  Right(kind, q, objects, o)
PROOF
  <1>1. CASE kind = "truth"
    BY <1>1, CexTruthRight DEF askCexCaching
  <1>2. CASE kind = "validity"
    BY <1>2, CexValidityRight DEF askCexCaching
  <1>3. CASE kind = "value"
    BY <1>3, CexValueRight DEF askCexCaching
  <1>4. CASE kind = "initial"
    BY <1>4, CexInitialRight DEF askCexCaching
  <1> QED BY <1>1, <1>2, <1>3, <1>4 DEF Kinds

(***************************************************************************)
(* CachingSolver                                                           *)
(***************************************************************************)

\* Answers and cached validities, in terms of the values of the condition
LEMMA AnswersInValues ==
  ASSUME Evaluates, Negates, NEW q \in Queries("truth"), NEW objects
  PROVE  /\ Values(q.cs, q.e) \in {{0}, {1}, {0, 1}}
         /\ Values(q.cs, Negation(q.e)) = {1 - v : v \in Values(q.cs, q.e)}
         /\ \A v : Answers("truth", q, objects, v) <=> v = (Values(q.cs, q.e) = {1})
         /\ \A v : Answers("truth", negateExpr(q), objects, v) <=> v = (Values(q.cs, q.e) = {0})
         /\ \A v : Answers("validity", q, objects, v) <=>
              v = Validity(Values(q.cs, q.e) = {1}, Values(q.cs, q.e) = {0})
PROOF
  <1> DEFINE vals == Values(q.cs, q.e)
  <1>1. q.e \in Condition /\ Holding(q.cs) # {} /\ q = Query(q.cs, q.e)
    BY QueryFacts DEF Queries, Query
  <1>2. negateExpr(q) = Query(q.cs, Negation(q.e))
    BY DEF negateExpr
  <1>3. /\ vals \subseteq {0, 1} /\ vals # {}
        /\ Models(q) = {} <=> 0 \notin vals
        /\ Models(negateExpr(q)) = {} <=> 1 \notin vals
        /\ Holding(q.cs) \subseteq Envs
    BY <1>1, <1>2, ModelsOfNegation
  <1>4. Values(q.cs, Negation(q.e)) = {1 - v : v \in vals}
    BY <1>1, <1>3 DEF Values, Negates
  <1> HIDE DEF vals
  <1>5. vals \in {{0}, {1}, {0, 1}}
    BY <1>3
  <1>6. (Models(q) = {} <=> vals = {1}) /\ (Models(negateExpr(q)) = {} <=> vals = {0})
    BY <1>3, <1>5
  <1>7. /\ \A v : Answers("truth", q, objects, v) <=> v = (vals = {1})
        /\ \A v : Answers("truth", negateExpr(q), objects, v) <=> v = (vals = {0})
        /\ \A v : Answers("validity", q, objects, v) <=> v = Validity(vals = {1}, vals = {0})
    BY <1>6 DEF Answers
  <1> QED BY <1>4, <1>5, <1>7 DEF vals

LEMMA BranchRightCases ==
  ASSUME NEW cs, NEW a, NEW pv
  PROVE  LET vals == Values(cs, a)
         IN  /\ pv = "MustBeTrue" => (BranchRight(<<cs, a>>, pv) <=> vals = {1})
             /\ pv = "MustBeFalse" => (BranchRight(<<cs, a>>, pv) <=> vals = {0})
             /\ pv = "MayBeTrue" => (BranchRight(<<cs, a>>, pv) <=> 1 \in vals)
             /\ pv = "MayBeFalse" => (BranchRight(<<cs, a>>, pv) <=> 0 \in vals)
             /\ pv = "TrueOrFalse" => (BranchRight(<<cs, a>>, pv) <=> vals = {0, 1})
BY DEF BranchRight

LEMMA NegatedValidity ==
  /\ negatePartialValidity("MustBeTrue") = "MustBeFalse"
  /\ negatePartialValidity("MustBeFalse") = "MustBeTrue"
  /\ negatePartialValidity("MayBeTrue") = "MayBeFalse"
  /\ negatePartialValidity("MayBeFalse") = "MayBeTrue"
  /\ negatePartialValidity("TrueOrFalse") = "TrueOrFalse"
BY DEF negatePartialValidity

\* A validity of the negation is the negated validity.
LEMMA NegationSeen ==
  ASSUME Evaluates, Negates, NEW q \in Queries("truth"), NEW pv \in PartialValidity
  PROVE  /\ negatePartialValidity(pv) \in PartialValidity
         /\ BranchRight(<<q.cs, Negation(q.e)>>, pv)
              <=> BranchRight(<<q.cs, q.e>>, negatePartialValidity(pv))
         /\ BranchRight(<<q.cs, Negation(q.e)>>, negatePartialValidity(pv))
              <=> BranchRight(<<q.cs, q.e>>, pv)
PROOF
  <1> DEFINE vals == Values(q.cs, q.e)
             neg == Values(q.cs, Negation(q.e))
  <1>1. vals \in {{0}, {1}, {0, 1}} /\ neg = {1 - v : v \in vals}
    BY AnswersInValues
  <1> HIDE DEF vals, neg
  <1>2. /\ neg = {1} <=> vals = {0}
        /\ neg = {0} <=> vals = {1}
        /\ neg = {0, 1} <=> vals = {0, 1}
        /\ 1 \in neg <=> 0 \in vals
        /\ 0 \in neg <=> 1 \in vals
    <2>1. CASE vals = {0}
      <3>1. neg = {1}
        BY <1>1, <2>1
      <3> QED BY <2>1, <3>1
    <2>2. CASE vals = {1}
      <3>1. neg = {0}
        BY <1>1, <2>2
      <3> QED BY <2>2, <3>1
    <2>3. CASE vals = {0, 1}
      <3>1. neg = {0, 1}
        BY <1>1, <2>3
      <3> QED BY <2>3, <3>1
    <2> QED BY <1>1, <2>1, <2>2, <2>3
  <1>3. CASE pv = "MustBeTrue"
    BY <1>2, <1>3, BranchRightCases, NegatedValidity DEF vals, neg, PartialValidity
  <1>4. CASE pv = "MustBeFalse"
    BY <1>2, <1>4, BranchRightCases, NegatedValidity DEF vals, neg, PartialValidity
  <1>5. CASE pv = "MayBeTrue"
    BY <1>2, <1>5, BranchRightCases, NegatedValidity DEF vals, neg, PartialValidity
  <1>6. CASE pv = "MayBeFalse"
    BY <1>2, <1>6, BranchRightCases, NegatedValidity DEF vals, neg, PartialValidity
  <1>7. CASE pv = "TrueOrFalse"
    BY <1>2, <1>7, BranchRightCases, NegatedValidity DEF vals, neg, PartialValidity
  <1> QED BY <1>3, <1>4, <1>5, <1>6, <1>7 DEF PartialValidity

LEMMA CanonicalQuery ==
  ASSUME NEW q PROVE canonicalizeQuery(q) \in {q.e, Negation(q.e)}
PROOF
  <1>1. \E a : a \in {q.e, Negation(q.e)}
    OBVIOUS
  <1> QED BY <1>1 DEF canonicalizeQuery

\* What the cache is found to hold of a query is so.
LEMMA CacheLookupRight ==
  ASSUME Evaluates, Negates, NEW q \in Queries("truth"), NEW c, CachesFine(c), cacheHit(q, c)
  PROVE  cacheLookup(q, c) \in PartialValidity /\ BranchRight(<<q.cs, q.e>>, cacheLookup(q, c))
PROOF
  <1> DEFINE pv == c.branch[Slot(q)]
  <1>1. pv \in PartialValidity /\ BranchRight(Slot(q), pv)
    BY DEF CachesFine, cacheHit
  <1>2. cacheLookup(q, c) = Seen(q, pv)
    BY DEF cacheLookup
  <1> HIDE DEF pv
  <1>3. CASE canonicalizeQuery(q) = q.e
    BY <1>1, <1>2, <1>3 DEF Seen, Slot
  <1>4. CASE canonicalizeQuery(q) # q.e
    <2>1. canonicalizeQuery(q) = Negation(q.e)
      BY <1>4, CanonicalQuery
    <2> QED BY <1>1, <1>2, <1>4, <2>1, NegationSeen DEF Seen, Slot
  <1> QED BY <1>3, <1>4

\* The cache takes a right validity in and stays right.
LEMMA CacheInsertFine ==
  ASSUME Evaluates, Negates, NEW q \in Queries("truth"), NEW c, CachesFine(c),
         NEW pv \in PartialValidity, BranchRight(<<q.cs, q.e>>, pv)
  PROVE  CachesFine(cacheInsert(q, pv, c))
PROOF
  <1> DEFINE d == cacheInsert(q, pv, c)
             new == Seen(q, pv)
  <1>1. {"branch", "cex", "table", "failed", "abort"} \subseteq DOMAIN c
    BY DEF CachesFine
  <1>2. /\ DOMAIN d = DOMAIN c /\ d.cex = c.cex /\ d.table = c.table
        /\ d.branch = Inserted(c.branch, Slot(q), new)
    BY <1>1 DEF cacheInsert
  <1>3. new \in PartialValidity /\ BranchRight(Slot(q), new)
    <2>1. CASE canonicalizeQuery(q) = q.e
      BY <2>1 DEF Seen, Slot
    <2>2. CASE canonicalizeQuery(q) # q.e
      <3>1. canonicalizeQuery(q) = Negation(q.e)
        BY <2>2, CanonicalQuery
      <3> QED BY <2>2, <3>1, NegationSeen DEF Seen, Slot
    <2> QED BY <2>1, <2>2
  <1>4. Slot(q) \in Slots
    <2>1. q.cs \in Seq(Condition) /\ q.e \in Condition
      BY QueryFacts
    <2>2. Negation(q.e) \in Condition
      BY <2>1 DEF Negates
    <2>3. canonicalizeQuery(q) \in Condition
      BY <2>1, <2>2, CanonicalQuery
    <2> QED BY <2>1, <2>3 DEF Slot, Slots
  <1> HIDE DEF d, new
  <1>5. /\ DOMAIN d.branch = {Slot(q)} \cup DOMAIN c.branch
        /\ \A s \in DOMAIN d.branch : d.branch[s] = IF s \in DOMAIN c.branch THEN c.branch[s] ELSE new
    BY <1>2 DEF Inserted
  <1>6. \A s \in DOMAIN d.branch : d.branch[s] \in PartialValidity /\ BranchRight(s, d.branch[s])
    <2> TAKE s \in DOMAIN d.branch
    <2>1. CASE s \in DOMAIN c.branch
      BY <1>5, <2>1 DEF CachesFine
    <2>2. CASE s \notin DOMAIN c.branch
      <3>1. s = Slot(q) /\ d.branch[s] = new
        BY <1>5, <2>2
      <3> QED BY <1>3, <3>1
    <2> QED BY <2>1, <2>2
  <1>7. /\ {"branch", "cex", "table", "failed", "abort"} \subseteq DOMAIN d
        /\ DOMAIN d.branch \subseteq Slots
    BY <1>1, <1>2, <1>4, <1>5 DEF CachesFine
  <1>8. /\ DOMAIN d.cex \subseteq SUBSET Condition
        /\ d.table \subseteq Envs
        /\ \A key \in DOMAIN d.cex :
             d.cex[key] \in Envs \cup {NoSolution} /\ CexRight(key, d.cex[key])
    BY <1>2 DEF CachesFine
  <1>9. CachesFine(d)
    BY <1>6, <1>7, <1>8, Zenon DEF CachesFine
  <1> QED BY <1>9 DEF d

LEMMA CachingTruthRight ==
  ASSUME Evaluates, Negates, NEW rest, Promise(rest), NEW objects \in BOOLEAN,
         NEW q \in Queries("truth"), NEW c, CachesFine(c), NEW o \in cachingTruth(rest, q, c)
  PROVE  Right("truth", q, objects, o)
PROOF
  <1> DEFINE vals == Values(q.cs, q.e)
             hit == cacheHit(q, c)
             seen == cacheLookup(q, c)
  <1>1. /\ vals \in {{0}, {1}, {0, 1}}
        /\ \A v, w : Answers("truth", q, w, v) <=> v = (vals = {1})
    BY AnswersInValues
  <1>2. ASSUME hit
        PROVE  /\ seen \in PartialValidity
               /\ seen = "MustBeTrue" => vals = {1}
               /\ seen = "MustBeFalse" => vals = {0}
               /\ seen = "MayBeTrue" => 1 \in vals
               /\ seen = "MayBeFalse" => 0 \in vals
               /\ seen = "TrueOrFalse" => vals = {0, 1}
    BY <1>2, CacheLookupRight, BranchRightCases
  <1>3. CASE hit /\ seen # "MayBeTrue"
    <2>1. o \in Ok(seen = "MustBeTrue", c)
      BY <1>3 DEF cachingTruth
    <2>2. Answers("truth", q, objects, seen = "MustBeTrue")
      <3> HIDE DEF vals, seen
      <3>1. (seen = "MustBeTrue") = (vals = {1})
        BY <1>1, <1>2, <1>3 DEF PartialValidity
      <3> QED BY <1>1, <3>1
    <2> QED BY <2>1, <2>2, OkRight
  <1>4. CASE ~(hit /\ seen # "MayBeTrue")
    <2> DEFINE pv(v) == IF v THEN "MustBeTrue" ELSE IF hit THEN "TrueOrFalse" ELSE "MayBeFalse"
    <2>1. PICK x \in Ask(rest, "truth", q, FALSE, c) :
            o \in IF x.ok THEN Ok(x.val, cacheInsert(q, pv(x.val), x.ch)) ELSE {x}
      <3>1. o \in Bind(Ask(rest, "truth", q, FALSE, c), LAMBDA x :
                    Ok(x.val, cacheInsert(q, pv(x.val), x.ch)))
        BY <1>4 DEF cachingTruth
      <3> QED BY <3>1 DEF Bind
    <2>2. Right("truth", q, FALSE, x)
      BY DEF Promise, Kinds
    <2>3. CASE ~x.ok
      BY <2>1, <2>2, <2>3, FailurePassed
    <2>4. CASE x.ok
      <3>1. CachesFine(x.ch) /\ x.val = (vals = {1})
        BY <1>1, <2>2, <2>4 DEF Right
      <3>2. pv(x.val) \in PartialValidity /\ BranchRight(<<q.cs, q.e>>, pv(x.val))
        <4>1. CASE vals = {1}
          <5>1. pv(x.val) = "MustBeTrue"
            BY <3>1, <4>1
          <5> QED BY <4>1, <5>1, BranchRightCases DEF PartialValidity
        <4>2. CASE vals # {1} /\ hit
          <5>1. pv(x.val) = "TrueOrFalse" /\ seen = "MayBeTrue"
            BY <1>4, <3>1, <4>2
          <5>2. vals = {0, 1}
            <6> HIDE DEF vals, seen
            <6> QED BY <1>1, <1>2, <4>2, <5>1
          <5> QED BY <5>1, <5>2, BranchRightCases DEF PartialValidity
        <4>3. CASE vals # {1} /\ ~hit
          <5>1. pv(x.val) = "MayBeFalse"
            BY <3>1, <4>3
          <5>2. 0 \in vals
            <6> HIDE DEF vals
            <6> QED BY <1>1, <4>3
          <5> QED BY <5>1, <5>2, BranchRightCases DEF PartialValidity
        <4> QED BY <4>1, <4>2, <4>3
      <3>3. CachesFine(cacheInsert(q, pv(x.val), x.ch))
        BY <3>1, <3>2, CacheInsertFine
      <3>4. o \in Ok(x.val, cacheInsert(q, pv(x.val), x.ch))
        BY <2>1, <2>4
      <3>5. Answers("truth", q, objects, x.val)
        BY <1>1, <3>1
      <3> QED BY <3>3, <3>4, <3>5, OkRight
    <2> QED BY <2>3, <2>4
  <1> QED BY <1>3, <1>4

LEMMA CachingValidityRight ==
  ASSUME Evaluates, Negates, NEW rest, Promise(rest), NEW objects \in BOOLEAN,
         NEW q \in Queries("validity"), NEW c, CachesFine(c), NEW o \in cachingValidity(rest, q, c)
  PROVE  Right("validity", q, objects, o)
PROOF
  <1> DEFINE vals == Values(q.cs, q.e)
             pv == IF cacheHit(q, c) THEN cacheLookup(q, c) ELSE "None"
             Partly(x, must, res) == IF x.val THEN Ok(res, cacheInsert(q, must, x.ch))
                                     ELSE Ok("Unknown", cacheInsert(q, "TrueOrFalse", x.ch))
             whole(v) == [True |-> "MustBeTrue", False |-> "MustBeFalse",
                          Unknown |-> "TrueOrFalse"][v]
  <1>0. q \in Queries("truth") /\ negateExpr(q) \in Queries("truth")
    BY QueryFacts
  <1>1. /\ vals \in {{0}, {1}, {0, 1}}
        /\ \A v, w : /\ Answers("truth", q, w, v) <=> v = (vals = {1})
                     /\ Answers("truth", negateExpr(q), w, v) <=> v = (vals = {0})
                     /\ Answers("validity", q, w, v) <=> v = Validity(vals = {1}, vals = {0})
    BY <1>0, AnswersInValues
  <1>2. /\ pv \in PartialValidity \cup {"None"}
        /\ pv = "MustBeTrue" => vals = {1}
        /\ pv = "MustBeFalse" => vals = {0}
        /\ pv = "MayBeTrue" => 1 \in vals
        /\ pv = "MayBeFalse" => 0 \in vals
        /\ pv = "TrueOrFalse" => vals = {0, 1}
    <2>1. CASE cacheHit(q, c)
      <3>1. pv = cacheLookup(q, c)
        BY <2>1
      <3>2. pv \in PartialValidity /\ BranchRight(<<q.cs, q.e>>, pv)
        BY <1>0, <2>1, <3>1, CacheLookupRight
      <3> QED BY <3>2, BranchRightCases
    <2>2. CASE ~cacheHit(q, c)
      BY <2>2 DEF PartialValidity
    <2> QED BY <2>1, <2>2
  <1>3. /\ vals = {1} => Validity(vals = {1}, vals = {0}) = "True"
        /\ vals = {0} => Validity(vals = {1}, vals = {0}) = "False"
        /\ vals = {0, 1} => Validity(vals = {1}, vals = {0}) = "Unknown"
    <2> HIDE DEF vals
    <2> QED BY DEF Validity
  <1>4. ASSUME NEW new \in PartialValidity, BranchRight(<<q.cs, q.e>>, new),
               NEW v, Answers("validity", q, objects, v), NEW d, CachesFine(d),
               o \in Ok(v, cacheInsert(q, new, d))
        PROVE  Right("validity", q, objects, o)
    <2>1. CachesFine(cacheInsert(q, new, d))
      BY <1>0, <1>4, CacheInsertFine
    <2> QED BY <1>4, <2>1, OkRight
  <1>5. \A v : (v = "MustBeTrue" /\ vals = {1}) \/ (v = "MustBeFalse" /\ vals = {0})
                 \/ (v = "TrueOrFalse" /\ vals = {0, 1})
          => v \in PartialValidity /\ BranchRight(<<q.cs, q.e>>, v)
    BY BranchRightCases DEF PartialValidity
  <1>6. o \in cachingValidity(rest, q, c)
    OBVIOUS
  <1>7. CASE pv \in {"MustBeTrue", "MustBeFalse", "TrueOrFalse"}
    <2> DEFINE v == IF pv = "MustBeTrue" THEN "True" ELSE IF pv = "MustBeFalse" THEN "False"
                    ELSE "Unknown"
    <2>1. o \in Ok(v, c)
      <3>1. CASE pv = "MustBeTrue"
        BY <1>6, <3>1 DEF cachingValidity
      <3>2. CASE pv = "MustBeFalse"
        BY <1>6, <3>2 DEF cachingValidity
      <3>3. CASE pv = "TrueOrFalse"
        BY <1>6, <3>3 DEF cachingValidity
      <3> QED BY <1>7, <3>1, <3>2, <3>3
    <2>2. v = Validity(vals = {1}, vals = {0})
      <3> HIDE DEF pv, vals
      <3> QED BY <1>2, <1>3, <1>7
    <2>3. Answers("validity", q, objects, v)
      <3> HIDE DEF v, pv, vals
      <3> QED BY <1>1, <2>2
    <2> HIDE DEF v
    <2> QED BY <2>1, <2>3, OkRight
  <1>8. CASE pv = "MayBeTrue"
    <2>1. PICK x \in Ask(rest, "truth", q, FALSE, c) :
            o \in IF x.ok THEN Partly(x, "MustBeTrue", "True") ELSE {x}
      <3>1. o \in Bind(Ask(rest, "truth", q, FALSE, c), LAMBDA x : Partly(x, "MustBeTrue", "True"))
        BY <1>6, <1>8 DEF cachingValidity
      <3> QED BY <3>1 DEF Bind
    <2>2. Right("truth", q, FALSE, x)
      BY <1>0 DEF Promise, Kinds
    <2>3. CASE ~x.ok
      BY <2>1, <2>2, <2>3, FailurePassed
    <2>4. CASE x.ok
      <3>1. CachesFine(x.ch) /\ x.val = (vals = {1})
        BY <1>1, <2>2, <2>4 DEF Right
      <3>2. o \in Partly(x, "MustBeTrue", "True")
        BY <2>1, <2>4
      <3>3. CASE vals = {1}
        BY <1>1, <1>3, <1>4, <1>5, <3>1, <3>2, <3>3
      <3>4. CASE vals = {0, 1}
        BY <1>1, <1>3, <1>4, <1>5, <3>1, <3>2, <3>4
      <3>5. vals = {1} \/ vals = {0, 1}
        <4> HIDE DEF vals, pv
        <4> QED BY <1>1, <1>2, <1>8
      <3> QED BY <3>3, <3>4, <3>5
    <2> QED BY <2>3, <2>4
  <1>9. CASE pv = "MayBeFalse"
    <2>1. PICK x \in Ask(rest, "truth", negateExpr(q), FALSE, c) :
            o \in IF x.ok THEN Partly(x, "MustBeFalse", "False") ELSE {x}
      <3>1. o \in Bind(Ask(rest, "truth", negateExpr(q), FALSE, c), LAMBDA x :
                    Partly(x, "MustBeFalse", "False"))
        BY <1>6, <1>9 DEF cachingValidity
      <3> QED BY <3>1 DEF Bind
    <2>2. Right("truth", negateExpr(q), FALSE, x)
      BY <1>0 DEF Promise, Kinds
    <2>3. CASE ~x.ok
      BY <2>1, <2>2, <2>3, FailurePassed
    <2>4. CASE x.ok
      <3>1. CachesFine(x.ch) /\ x.val = (vals = {0})
        BY <1>1, <2>2, <2>4 DEF Right
      <3>2. o \in Partly(x, "MustBeFalse", "False")
        BY <2>1, <2>4
      <3>3. CASE vals = {0}
        BY <1>1, <1>3, <1>4, <1>5, <3>1, <3>2, <3>3
      <3>4. CASE vals = {0, 1}
        BY <1>1, <1>3, <1>4, <1>5, <3>1, <3>2, <3>4
      <3>5. vals = {0} \/ vals = {0, 1}
        <4> HIDE DEF vals, pv
        <4> QED BY <1>1, <1>2, <1>9
      <3> QED BY <3>3, <3>4, <3>5
    <2> QED BY <2>3, <2>4
  <1>10. CASE pv = "None"
    <2>1. PICK x \in Ask(rest, "validity", q, FALSE, c) :
            o \in IF x.ok THEN Ok(x.val, cacheInsert(q, whole(x.val), x.ch)) ELSE {x}
      <3>1. o \in Bind(Ask(rest, "validity", q, FALSE, c), LAMBDA x :
                    Ok(x.val, cacheInsert(q, whole(x.val), x.ch)))
        BY <1>6, <1>10 DEF cachingValidity
      <3> QED BY <3>1 DEF Bind
    <2>2. Right("validity", q, FALSE, x)
      BY DEF Promise, Kinds
    <2>3. CASE ~x.ok
      BY <2>1, <2>2, <2>3, FailurePassed
    <2>4. CASE x.ok
      <3>1. CachesFine(x.ch) /\ x.val = Validity(vals = {1}, vals = {0})
        BY <1>1, <2>2, <2>4 DEF Right
      <3>2. o \in Ok(x.val, cacheInsert(q, whole(x.val), x.ch)) /\ Answers("validity", q, objects, x.val)
        BY <1>1, <2>1, <2>4, <3>1
      <3>3. CASE vals = {1}
        <4>1. whole(x.val) = "MustBeTrue"
          BY <1>3, <3>1, <3>3
        <4> QED BY <1>4, <1>5, <3>1, <3>2, <3>3, <4>1
      <3>4. CASE vals = {0}
        <4>1. whole(x.val) = "MustBeFalse"
          BY <1>3, <3>1, <3>4
        <4> QED BY <1>4, <1>5, <3>1, <3>2, <3>4, <4>1
      <3>5. CASE vals = {0, 1}
        <4>1. whole(x.val) = "TrueOrFalse"
          BY <1>3, <3>1, <3>5
        <4> QED BY <1>4, <1>5, <3>1, <3>2, <3>5, <4>1
      <3>6. vals \in {{0}, {1}, {0, 1}}
        BY <1>1
      <3> HIDE DEF vals
      <3> QED BY <3>3, <3>4, <3>5, <3>6
    <2> QED BY <2>3, <2>4
  <1> HIDE DEF pv
  <1> QED BY <1>2, <1>7, <1>8, <1>9, <1>10 DEF PartialValidity

LEMMA CachingRight ==
  ASSUME Evaluates, Negates, NEW rest, Promise(rest),
         NEW kind \in Kinds, NEW objects \in BOOLEAN, NEW q \in Queries(kind),
         NEW c, CachesFine(c), NEW o \in askCaching(rest, kind, q, objects, c)
  PROVE  Right(kind, q, objects, o)
PROOF
  <1>1. CASE kind = "truth"
    BY <1>1, CachingTruthRight DEF askCaching
  <1>2. CASE kind = "validity"
    BY <1>2, CachingValidityRight DEF askCaching
  <1>3. CASE kind \in {"value", "initial"}
    <2>1. o \in Ask(rest, kind, q, objects, c)
      BY <1>3 DEF askCaching
    <2> QED BY <2>1 DEF Promise
  <1> QED BY <1>1, <1>2, <1>3 DEF Kinds

(***************************************************************************)
(* ValidatingSolver hands on what it is told, or the oracle contradicts    *)
(***************************************************************************)

LEMMA ConfirmedRight ==
  ASSUME NEW kind, NEW q, NEW objects, NEW p, NEW expected, NEW v, Answers(kind, q, objects, v),
         NEW c, CachesFine(c), NEW o \in Confirmed(p, expected, v, c)
  PROVE  Right(kind, q, objects, o)
PROOF
  <1>1. PICK x \in coreTruth(p, c) :
          o \in IF x.ok THEN IF x.val # expected THEN Aborts(x.ch) ELSE Ok(v, x.ch) ELSE {x}
    BY DEF Confirmed, Bind
  <1>2. Right("truth", p, FALSE, x)
    BY CoreTruth
  <1>3. CachesFine(x.ch)
    BY <1>2 DEF Right
  <1>4. CASE ~x.ok
    BY <1>1, <1>2, <1>4, FailurePassed
  <1>5. CASE x.ok /\ o \in Aborts(x.ch)
    BY <1>3, <1>5, AbortsRight
  <1>6. CASE x.ok /\ o \in Ok(v, x.ch)
    BY <1>3, <1>6, OkRight
  <1> QED BY <1>1, <1>4, <1>5, <1>6

LEMMA ValidatingRight ==
  ASSUME NEW rest, Promise(rest),
         NEW kind \in Kinds, NEW objects \in BOOLEAN, NEW q \in Queries(kind),
         NEW c, CachesFine(c), NEW o \in askValidating(rest, kind, q, objects, c)
  PROVE  Right(kind, q, objects, o)
PROOF
  <1>1. PICK x \in Ask(rest, kind, q, objects, c) :
          o \in IF x.ok THEN validated(kind, q, objects, x.val, x.ch) ELSE {x}
    BY DEF askValidating, Bind
  <1>2. Right(kind, q, objects, x)
    BY DEF Promise
  <1>3. CASE ~x.ok
    BY <1>1, <1>2, <1>3
  <1>4. CASE x.ok
    <2>1. CachesFine(x.ch) /\ Answers(kind, q, objects, x.val)
      BY <1>2, <1>4 DEF Right
    <2>2. o \in validated(kind, q, objects, x.val, x.ch)
      BY <1>1, <1>4
    <2>3. CASE kind = "truth"
      <3>1. o \in Confirmed(q, x.val, x.val, x.ch)
        BY <2>2, <2>3 DEF validated
      <3> QED BY <2>1, <3>1, ConfirmedRight
    <2>4. CASE kind = "validity"
      <3>1. PICK y \in coreValidity(q, x.ch) :
              o \in IF y.ok THEN IF y.val # x.val THEN Aborts(y.ch) ELSE Ok(x.val, y.ch) ELSE {y}
        BY <2>2, <2>4 DEF validated, Bind
      <3>2. Right("validity", q, FALSE, y)
        BY <2>1, CoreValidity
      <3>3. CachesFine(y.ch)
        BY <3>2 DEF Right
      <3>4. CASE ~y.ok
        BY <3>1, <3>2, <3>4, FailurePassed
      <3>5. CASE y.ok /\ o \in Aborts(y.ch)
        BY <3>3, <3>5, AbortsRight
      <3>6. CASE y.ok /\ o \in Ok(x.val, y.ch)
        BY <2>1, <3>3, <3>6, OkRight
      <3> QED BY <3>1, <3>4, <3>5, <3>6
    <2>5. CASE kind = "value"
      <3>1. o \in Confirmed(withExpr(q, OtherThan(q.e, x.val)), FALSE, x.val, x.ch)
        BY <2>2, <2>5 DEF validated
      <3> QED BY <2>1, <3>1, ConfirmedRight
    <2>6. CASE kind = "initial"
      <3>1. \/ o \in Confirmed(q, TRUE, x.val, x.ch)
            \/ o \in Confirmed(Instance(q, x.val, objects), TRUE, x.val, x.ch)
        BY <2>2, <2>6 DEF validated
      <3> QED BY <2>1, <3>1, ConfirmedRight
    <2> QED BY <2>3, <2>4, <2>5, <2>6 DEF Kinds
  <1> QED BY <1>2, <1>3, <1>4 DEF Right

(***************************************************************************)
(* Sets of naturals                                                        *)
(***************************************************************************)

\* Every nonempty set of naturals has a least element.
LEMMA LeastNatural ==
  ASSUME NEW T, T \subseteq Nat, T # {}
  PROVE  \E x \in T : \A y \in T : x <= y
PROOF
  <1>1. IsWellFoundedOn({ss \in Nat \X Nat : ss[1] < ss[2]}, Nat)
    BY NatLessThanWellFounded DEF OpToRel
  <1>2. PICK x \in T : \A y \in T : ~(<<y, x>> \in {ss \in Nat \X Nat : ss[1] < ss[2]})
    BY <1>1, WFMin, Zenon
  <1>3. \A y \in T : ~(y < x)
    BY <1>2
  <1> QED BY <1>3

\* Induction, for a set instead of a predicate.
LEMMA NatSetInduction ==
  ASSUME NEW S, 0 \in S, \A k \in Nat : k \in S => k + 1 \in S
  PROVE  Nat \subseteq S
PROOF
  <1> DEFINE T == {k \in Nat : k \notin S}
  <1>1. SUFFICES ASSUME T # {} PROVE FALSE
    OBVIOUS
  <1>2. T \subseteq Nat
    OBVIOUS
  <1> HIDE DEF T
  <1>3. PICK x \in T : \A y \in T : x <= y
    BY <1>1, <1>2, LeastNatural
  <1>4. x \in Nat /\ x \notin S /\ x # 0
    BY <1>3 DEF T
  <1>5. x - 1 \in Nat /\ x - 1 \notin T
    BY <1>3, <1>4, <1>2
  <1>6. x - 1 \in S
    BY <1>5 DEF T
  <1> QED BY <1>4, <1>5, <1>6

(***************************************************************************)
(* IndependentSolver: cells that are read                                  *)
(***************************************************************************)

Elems(s) == {s[n] : n \in DOMAIN s}

LEMMA AppendElems ==
  ASSUME NEW S, NEW s \in Seq(S), NEW a \in S
  PROVE  /\ Append(s, a) \in Seq(S) /\ Elems(Append(s, a)) = Elems(s) \cup {a}
         /\ Len(s) \in Nat /\ Len(Append(s, a)) = Len(s) + 1
         /\ \A j \in 1..Len(s) : Append(s, a)[j] = s[j]
         /\ Append(s, a)[Len(s) + 1] = a
PROOF
  <1>1. /\ Append(s, a) \in Seq(S) /\ Len(s) \in Nat /\ Len(Append(s, a)) = Len(s) + 1
        /\ DOMAIN s = 1..Len(s) /\ DOMAIN Append(s, a) = 1..Len(s) + 1
        /\ \A j \in 1..Len(s) : Append(s, a)[j] = s[j]
        /\ Append(s, a)[Len(s) + 1] = a
    OBVIOUS
  <1>2. Elems(Append(s, a)) = Elems(s) \cup {a}
    <2>1. 1..Len(s) + 1 = (1..Len(s)) \cup {Len(s) + 1}
      BY <1>1
    <2> QED BY <1>1, <2>1 DEF Elems
  <1> QED BY <1>1, <1>2

LEMMA AddedCells ==
  ASSUME NEW s, NEW t
  PROVE  ReadCells(AddSet(s, t)) = ReadCells(s) \cup ReadCells(t)
PROOF
  <1> DEFINE whole == s.whole \cup t.whole
  <1>1. /\ AddSet(s, t).whole = whole
        /\ AddSet(s, t).elements = {x \in s.elements \cup t.elements : x[1] \notin whole}
    BY DEF AddSet
  <1>2. \A i : <<TheArray, i>>[1] = TheArray
    OBVIOUS
  <1>3. \A i : <<TheArray, i>> \in AddSet(s, t).elements
               <=> <<TheArray, i>> \in s.elements \cup t.elements /\ TheArray \notin whole
    BY <1>1, <1>2
  <1> QED BY <1>1, <1>3 DEF ReadCells

\* Two expressions that do not intersect read no cell in common.
LEMMA ApartCells ==
  ASSUME NEW s, NEW t, ~intersects(s, t)
  PROVE  ReadCells(s) \cap ReadCells(t) = {}
PROOF
  <1>1. \A i, r : <<TheArray, i>> \in r.elements => TheArray \in Arrays(r)
    <2> TAKE i, r
    <2>1. <<TheArray, i>>[1] = TheArray
      OBVIOUS
    <2> QED BY <2>1 DEF Arrays
  <1>2. /\ s.whole \cap Arrays(t) = {} /\ t.whole \cap Arrays(s) = {}
        /\ s.elements \cap t.elements = {}
    BY DEF intersects
  <1>3. t.whole \subseteq Arrays(t) /\ s.whole \subseteq Arrays(s)
    BY DEF Arrays
  <1> QED BY <1>1, <1>2, <1>3 DEF ReadCells

(***************************************************************************)
(* getIndependentConstraints                                               *)
(***************************************************************************)

\* The constraints of q are on the work list, still to be considered, or taken,
\* and the elements cover what the query and those taken read.
Sorted(p, todo, q) ==
  /\ {"elts", "work", "result"} \subseteq DOMAIN p
  /\ p.work \in Seq(Condition) /\ p.result \in Seq(Condition)
  /\ Elems(p.work) \cup Elems(p.result) \cup todo = Elems(q.cs)
  /\ ReadCells(ReadSet(q.e)) \subseteq ReadCells(p.elts)
  /\ \A a \in Elems(p.result) : ReadCells(ReadSet(a)) \subseteq ReadCells(p.elts)

Closed(p) == \A a \in Elems(p.work) : ~intersects(ReadSet(a), p.elts)

LEMMA Considered ==
  ASSUME NEW p, NEW a, {"elts", "work", "result"} \subseteq DOMAIN p
  PROVE  /\ DOMAIN Consider(p, a) = DOMAIN p
         /\ intersects(ReadSet(a), p.elts) =>
              /\ Consider(p, a).elts = AddSet(p.elts, ReadSet(a))
              /\ Consider(p, a).work = p.work
              /\ Consider(p, a).result = Append(p.result, a)
         /\ ~intersects(ReadSet(a), p.elts) =>
              /\ Consider(p, a).elts = p.elts
              /\ Consider(p, a).work = Append(p.work, a)
              /\ Consider(p, a).result = p.result
BY DEF Consider

LEMMA ConsiderKeeps ==
  ASSUME NEW q, NEW p, NEW a \in Condition, NEW todo, Sorted(p, todo \cup {a}, q)
  PROVE  Sorted(Consider(p, a), todo, q)
PROOF
  <1> DEFINE d == Consider(p, a)
  <1>1. /\ {"elts", "work", "result"} \subseteq DOMAIN p
        /\ p.work \in Seq(Condition) /\ p.result \in Seq(Condition)
        /\ Elems(p.work) \cup Elems(p.result) \cup (todo \cup {a}) = Elems(q.cs)
        /\ ReadCells(ReadSet(q.e)) \subseteq ReadCells(p.elts)
        /\ \A b \in Elems(p.result) : ReadCells(ReadSet(b)) \subseteq ReadCells(p.elts)
    BY DEF Sorted
  <1>2. CASE intersects(ReadSet(a), p.elts)
    <2>1. /\ DOMAIN d = DOMAIN p /\ d.elts = AddSet(p.elts, ReadSet(a))
          /\ d.work = p.work /\ d.result = Append(p.result, a)
      BY <1>1, <1>2, Considered
    <2>2. d.result \in Seq(Condition) /\ Elems(d.result) = Elems(p.result) \cup {a}
      BY <1>1, <2>1, AppendElems
    <2>3. ReadCells(d.elts) = ReadCells(p.elts) \cup ReadCells(ReadSet(a))
      BY <2>1, AddedCells
    <2> HIDE DEF d
    <2>4. Elems(d.work) \cup Elems(d.result) \cup todo = Elems(q.cs)
      BY <1>1, <2>1, <2>2
    <2>5. Sorted(d, todo, q)
      BY <1>1, <2>1, <2>2, <2>3, <2>4 DEF Sorted
    <2> QED BY <2>5 DEF d
  <1>3. CASE ~intersects(ReadSet(a), p.elts)
    <2>1. /\ DOMAIN d = DOMAIN p /\ d.elts = p.elts
          /\ d.work = Append(p.work, a) /\ d.result = p.result
      BY <1>1, <1>3, Considered
    <2>2. d.work \in Seq(Condition) /\ Elems(d.work) = Elems(p.work) \cup {a}
      BY <1>1, <2>1, AppendElems
    <2> HIDE DEF d
    <2>3. Elems(d.work) \cup Elems(d.result) \cup todo = Elems(q.cs)
      BY <1>1, <2>1, <2>2
    <2>4. Sorted(d, todo, q)
      BY <1>1, <2>1, <2>2, <2>3 DEF Sorted
    <2> QED BY <2>4 DEF d
  <1> QED BY <1>2, <1>3

LEMMA SameFunction ==
  ASSUME NEW D, NEW f, NEW g, f = [x \in D |-> f[x]], g = [x \in D |-> g[x]],
         \A x \in D : f[x] = g[x]
  PROVE  f = g
OBVIOUS

\* The recursion of a pass has a solution.
LEMMA PassSteps ==
  ASSUME NEW p, Len(p.work) \in Nat
  PROVE  \E at : /\ Pass(p) = at[Len(p.work)]
                 /\ at[0] = [p EXCEPT !.work = << >>]
                 /\ \A n \in 1..Len(p.work) :
                      at[n] = Consider(at[n - 1], p.work[n])
PROOF
  <1> DEFINE N == Len(p.work)
             first == [p EXCEPT !.work = << >>]
             Step(x, n) == Consider(x, p.work[n])
             Solved(f, k) == [n \in 0..k |-> IF n = 0 THEN first ELSE Step(f[n - 1], n)]
             S == {k \in Nat : \E f : f = Solved(f, k)}
             at == CHOOSE f : f = Solved(f, N)
  <1>1. Pass(p) = at[N]
    BY DEF Pass
  <1> HIDE DEF first, Step, at
  <1>2. \A f, k : /\ Solved(f, k) = [n \in 0..k |-> Solved(f, k)[n]]
                  /\ \A n \in 0..k : Solved(f, k)[n] = IF n = 0 THEN first ELSE Step(f[n - 1], n)
    OBVIOUS
  <1> HIDE DEF Solved
  <1>3. 0 \in S
    <2> DEFINE f == [n \in 0..0 |-> first]
    <2>1. f = [n \in 0..0 |-> f[n]] /\ \A n \in 0..0 : f[n] = Solved(f, 0)[n]
      BY <1>2
    <2> HIDE DEF f
    <2>2. f = Solved(f, 0)
      BY <1>2, <2>1, SameFunction
    <2> QED BY <2>2
  <1>4. ASSUME NEW k \in Nat, k \in S PROVE k + 1 \in S
    <2>1. PICK f : f = Solved(f, k)
      BY <1>4
    <2> DEFINE g == [n \in 0..k + 1 |-> IF n = k + 1 THEN Step(f[k], n) ELSE f[n]]
    <2>2. ASSUME NEW n \in 0..k + 1 PROVE g[n] = Solved(g, k + 1)[n]
      <3>1. CASE n = k + 1 /\ n # 0
        <4>1. g[n] = Step(f[k], n) /\ g[n - 1] = f[k]
          BY <3>1
        <4> HIDE DEF g
        <4> QED BY <1>2, <3>1, <4>1
      <3>2. CASE n \in 1..k
        <4>1. g[n] = f[n] /\ g[n - 1] = f[n - 1] /\ n # 0
          BY <3>2
        <4> HIDE DEF g
        <4> QED BY <1>2, <2>1, <3>2, <4>1
      <3>3. CASE n = 0
        <4>1. g[n] = f[n]
          BY <3>3
        <4> HIDE DEF g
        <4> QED BY <1>2, <2>1, <3>3, <4>1
      <3> QED BY <3>1, <3>2, <3>3
    <2>3. g = [n \in 0..k + 1 |-> g[n]]
      OBVIOUS
    <2> HIDE DEF g
    <2>4. g = Solved(g, k + 1)
      BY <1>2, <2>2, <2>3, SameFunction
    <2> QED BY <2>4
  <1>5. N \in S
    <2>1. Nat \subseteq S
      <3> HIDE DEF S
      <3> QED BY <1>3, <1>4, NatSetInduction
    <2> QED BY <2>1
  <1>6. at = Solved(at, N)
    BY <1>5 DEF at
  <1>7. at[0] = first /\ \A n \in 1..N : at[n] = Step(at[n - 1], n)
    BY <1>2, <1>6
  <1> QED BY <1>1, <1>7 DEF first, Step

\* A pass keeps every constraint, and leaves fewer of them on the work list or
\* only constraints that have nothing to do with the query.
LEMMA PassKeeps ==
  ASSUME NEW q, NEW p, Sorted(p, {}, q)
  PROVE  /\ Sorted(Pass(p), {}, q)
         /\ Closed(Pass(p)) \/ Len(Pass(p).work) <= Len(p.work) - 1
         /\ Closed(p) => Closed(Pass(p))
PROOF
  <1> DEFINE N == Len(p.work)
             w == p.work
             rest(k) == {w[j] : j \in k + 1..N}
  <1>1. /\ {"elts", "work", "result"} \subseteq DOMAIN p
        /\ w \in Seq(Condition) /\ p.result \in Seq(Condition)
        /\ Elems(w) \cup Elems(p.result) = Elems(q.cs)
        /\ ReadCells(ReadSet(q.e)) \subseteq ReadCells(p.elts)
        /\ \A a \in Elems(p.result) : ReadCells(ReadSet(a)) \subseteq ReadCells(p.elts)
    BY DEF Sorted
  <1>2. N \in Nat /\ \A j \in 1..N : w[j] \in Condition
    BY <1>1
  <1>3. PICK at : /\ Pass(p) = at[N]
                  /\ at[0] = [p EXCEPT !.work = << >>]
                  /\ \A n \in 1..N : at[n] = Consider(at[n - 1], w[n])
    BY <1>2, PassSteps
  <1> DEFINE apart(j) == ~intersects(ReadSet(w[j]), p.elts)
             Same(k) == /\ at[k].elts = p.elts /\ Len(at[k].work) = k
                        /\ \A j \in 1..k : at[k].work[j] = w[j] /\ apart(j)
             S == {k \in Nat : k <= N => /\ Sorted(at[k], rest(k), q)
                                         /\ \/ Same(k)
                                            \/ Len(at[k].work) <= k - 1 /\ ~Closed(p)}
  <1> HIDE DEF N, w
  <1>4. 0 \in S
    <2> DEFINE d == [p EXCEPT !.work = << >>]
    <2>1. /\ DOMAIN d = DOMAIN p /\ d.work = << >> /\ d.elts = p.elts /\ d.result = p.result
      BY <1>1
    <2>2. Elems(d.work) = {} /\ Len(d.work) = 0 /\ d.work \in Seq(Condition)
      BY <2>1 DEF Elems
    <2>3. rest(0) = Elems(w)
      BY <1>1 DEF Elems, N, w
    <2>4. at[0] = d
      BY <1>3
    <2> HIDE DEF d
    <2>5. Sorted(d, rest(0), q)
      <3> HIDE DEF rest
      <3> QED BY <1>1, <2>1, <2>2, <2>3 DEF Sorted
    <2>6. Same(0)
      BY <2>1, <2>2, <2>4
    <2> HIDE DEF rest, Same
    <2> QED BY <2>4, <2>5, <2>6
  <1>5. ASSUME NEW k \in Nat, k \in S PROVE k + 1 \in S
    <2> SUFFICES ASSUME k + 1 <= N
                 PROVE  /\ Sorted(at[k + 1], rest(k + 1), q)
                        /\ \/ Same(k + 1)
                           \/ Len(at[k + 1].work) <= k /\ ~Closed(p)
      <3> HIDE DEF rest, Same
      <3> QED OBVIOUS
    <2> DEFINE c == at[k]
               a == w[k + 1]
    <2>1. /\ Sorted(c, rest(k), q)
          /\ Same(k) \/ (Len(c.work) <= k - 1 /\ ~Closed(p))
      <3> HIDE DEF rest, Same
      <3> QED BY <1>2, <1>5
    <2>2. a \in Condition /\ a \in Elems(w) /\ k + 1 \in 1..N
      BY <1>1, <1>2 DEF Elems, N, w
    <2>3. at[k + 1] = Consider(c, a)
      BY <1>3, <2>2
    <2>4. rest(k) = rest(k + 1) \cup {a}
      <3>1. k + 1..N = (k + 2..N) \cup {k + 1}
        BY <1>2
      <3> QED BY <3>1
    <2>5. Sorted(at[k + 1], rest(k + 1), q)
      <3> HIDE DEF rest, c, a
      <3> QED BY <2>1, <2>2, <2>3, <2>4, ConsiderKeeps
    <2>6. {"elts", "work", "result"} \subseteq DOMAIN c /\ c.work \in Seq(Condition)
      <3> HIDE DEF rest, c, a
      <3> QED BY <2>1 DEF Sorted
    <2>7. CASE intersects(ReadSet(a), c.elts)
      <3>1. at[k + 1].work = c.work
        BY <2>3, <2>6, <2>7, Considered
      <3>2. CASE Same(k)
        <4>1. ~Closed(p)
          BY <2>2, <2>7, <3>2 DEF Closed, w
        <4> QED BY <2>5, <3>1, <3>2, <4>1
      <3>3. CASE ~Same(k)
        <4>1. Len(c.work) <= k - 1 /\ ~Closed(p) /\ Len(c.work) \in Nat
          BY <2>1, <2>6, <3>3
        <4> HIDE DEF Same, rest
        <4> QED BY <2>5, <3>1, <4>1
      <3> QED BY <3>2, <3>3
    <2>8. CASE ~intersects(ReadSet(a), c.elts)
      <3>1. at[k + 1].work = Append(c.work, a) /\ at[k + 1].elts = c.elts
        BY <2>3, <2>6, <2>8, Considered
      <3>2. /\ Len(c.work) \in Nat /\ Len(at[k + 1].work) = Len(c.work) + 1
            /\ \A j \in 1..Len(c.work) : at[k + 1].work[j] = c.work[j]
            /\ at[k + 1].work[Len(c.work) + 1] = a
        BY <2>2, <2>6, <3>1, AppendElems
      <3>3. CASE Same(k)
        <4>1. Same(k + 1)
          <5>1. at[k + 1].elts = p.elts /\ Len(at[k + 1].work) = k + 1
            BY <3>1, <3>2, <3>3
          <5>2. ASSUME NEW j \in 1..k + 1 PROVE at[k + 1].work[j] = w[j] /\ apart(j)
            <6>1. CASE j = k + 1
              BY <2>8, <3>2, <3>3, <6>1
            <6>2. CASE j # k + 1
              <7>1. j \in 1..k
                BY <6>2
              <7> QED BY <3>2, <3>3, <7>1
            <6> QED BY <6>1, <6>2
          <5> QED BY <5>1, <5>2
        <4> HIDE DEF Same, rest
        <4> QED BY <2>5, <4>1
      <3>4. CASE ~Same(k)
        <4>1. Len(c.work) <= k - 1 /\ ~Closed(p)
          BY <2>1, <3>4
        <4> HIDE DEF Same, rest
        <4> QED BY <2>5, <3>2, <4>1
      <3> QED BY <3>3, <3>4
    <2> QED BY <2>7, <2>8
  <1>6. Sorted(at[N], rest(N), q) /\ (Same(N) \/ (Len(at[N].work) <= N - 1 /\ ~Closed(p)))
    <2>1. N \in S
      <3> HIDE DEF S
      <3> QED BY <1>2, <1>4, <1>5, NatSetInduction
    <2> HIDE DEF rest, Same
    <2> QED BY <1>2, <2>1
  <1>7. rest(N) = {}
    BY <1>2
  <1>8. Same(N) => Closed(at[N])
    <2> SUFFICES ASSUME Same(N), NEW j \in DOMAIN at[N].work
                 PROVE  ~intersects(ReadSet(at[N].work[j]), at[N].elts)
      BY DEF Closed, Elems
    <2>1. at[N].work \in Seq(Condition)
      <3> HIDE DEF rest
      <3> QED BY <1>6 DEF Sorted
    <2>2. j \in 1..N
      BY <2>1
    <2> QED BY <2>2
  <1> HIDE DEF Same, rest
  <1> QED BY <1>3, <1>6, <1>7, <1>8 DEF N, w

\* So has the recursion over the passes.
LEMMA ClosureSteps ==
  ASSUME NEW q, Len(q.cs) \in Nat
  PROVE  \E at : /\ Closure(q) = at[Len(q.cs)]
                 /\ at[0] = [elts |-> ReadSet(q.e), work |-> q.cs, result |-> << >>]
                 /\ \A n \in 1..Len(q.cs) :
                      at[n] = Pass(at[n - 1])
PROOF
  <1> DEFINE N == Len(q.cs)
             first == [elts |-> ReadSet(q.e), work |-> q.cs, result |-> << >>]
             Step(x, n) == Pass(x)
             Solved(f, k) == [n \in 0..k |-> IF n = 0 THEN first ELSE Step(f[n - 1], n)]
             S == {k \in Nat : \E f : f = Solved(f, k)}
             at == CHOOSE f : f = Solved(f, N)
  <1>1. Closure(q) = at[N]
    BY DEF Closure
  <1> HIDE DEF first, Step, at
  <1>2. \A f, k : /\ Solved(f, k) = [n \in 0..k |-> Solved(f, k)[n]]
                  /\ \A n \in 0..k : Solved(f, k)[n] = IF n = 0 THEN first ELSE Step(f[n - 1], n)
    OBVIOUS
  <1> HIDE DEF Solved
  <1>3. 0 \in S
    <2> DEFINE f == [n \in 0..0 |-> first]
    <2>1. f = [n \in 0..0 |-> f[n]] /\ \A n \in 0..0 : f[n] = Solved(f, 0)[n]
      BY <1>2
    <2> HIDE DEF f
    <2>2. f = Solved(f, 0)
      BY <1>2, <2>1, SameFunction
    <2> QED BY <2>2
  <1>4. ASSUME NEW k \in Nat, k \in S PROVE k + 1 \in S
    <2>1. PICK f : f = Solved(f, k)
      BY <1>4
    <2> DEFINE g == [n \in 0..k + 1 |-> IF n = k + 1 THEN Step(f[k], n) ELSE f[n]]
    <2>2. ASSUME NEW n \in 0..k + 1 PROVE g[n] = Solved(g, k + 1)[n]
      <3>1. CASE n = k + 1 /\ n # 0
        <4>1. g[n] = Step(f[k], n) /\ g[n - 1] = f[k]
          BY <3>1
        <4> HIDE DEF g
        <4> QED BY <1>2, <3>1, <4>1
      <3>2. CASE n \in 1..k
        <4>1. g[n] = f[n] /\ g[n - 1] = f[n - 1] /\ n # 0
          BY <3>2
        <4> HIDE DEF g
        <4> QED BY <1>2, <2>1, <3>2, <4>1
      <3>3. CASE n = 0
        <4>1. g[n] = f[n]
          BY <3>3
        <4> HIDE DEF g
        <4> QED BY <1>2, <2>1, <3>3, <4>1
      <3> QED BY <3>1, <3>2, <3>3
    <2>3. g = [n \in 0..k + 1 |-> g[n]]
      OBVIOUS
    <2> HIDE DEF g
    <2>4. g = Solved(g, k + 1)
      BY <1>2, <2>2, <2>3, SameFunction
    <2> QED BY <2>4
  <1>5. N \in S
    <2>1. Nat \subseteq S
      <3> HIDE DEF S
      <3> QED BY <1>3, <1>4, NatSetInduction
    <2> QED BY <2>1
  <1>6. at = Solved(at, N)
    BY <1>5 DEF at
  <1>7. at[0] = first /\ \A n \in 1..N : at[n] = Step(at[n - 1], n)
    BY <1>2, <1>6
  <1> QED BY <1>1, <1>7 DEF first, Step

\* Of the constraints of a query, those that the independent ones leave behind
\* have nothing to do with the query or with them.
LEMMA ClosureKeeps ==
  ASSUME NEW q, q.cs \in Seq(Condition)
  PROVE  Sorted(Closure(q), {}, q) /\ Closed(Closure(q))
PROOF
  <1> DEFINE N == Len(q.cs)
  <1>1. N \in Nat
    OBVIOUS
  <1>2. PICK at : /\ Closure(q) = at[N]
                  /\ at[0] = [elts |-> ReadSet(q.e), work |-> q.cs, result |-> << >>]
                  /\ \A n \in 1..N : at[n] = Pass(at[n - 1])
    BY <1>1, ClosureSteps
  <1> DEFINE S == {k \in Nat : k <= N => /\ Sorted(at[k], {}, q)
                                         /\ Closed(at[k]) \/ Len(at[k].work) <= N - k}
  <1>3. 0 \in S
    <2>1. at[0].elts = ReadSet(q.e) /\ at[0].work = q.cs /\ at[0].result = << >>
          /\ DOMAIN at[0] = {"elts", "work", "result"}
      BY <1>2
    <2>2. Elems(at[0].result) = {} /\ at[0].result \in Seq(Condition)
      BY <2>1 DEF Elems
    <2>3. Sorted(at[0], {}, q)
      BY <2>1, <2>2 DEF Sorted
    <2> QED BY <1>1, <2>1, <2>3
  <1> HIDE DEF N
  <1>4. ASSUME NEW k \in Nat, k \in S PROVE k + 1 \in S
    <2> SUFFICES ASSUME k + 1 <= N
                 PROVE  /\ Sorted(at[k + 1], {}, q)
                        /\ Closed(at[k + 1]) \/ Len(at[k + 1].work) <= N - (k + 1)
      OBVIOUS
    <2>1. Sorted(at[k], {}, q) /\ (Closed(at[k]) \/ Len(at[k].work) <= N - k)
      BY <1>1, <1>4
    <2>2. at[k + 1] = Pass(at[k])
      BY <1>1, <1>2
    <2>3. /\ Sorted(at[k + 1], {}, q)
          /\ Closed(at[k + 1]) \/ Len(at[k + 1].work) <= Len(at[k].work) - 1
          /\ Closed(at[k]) => Closed(at[k + 1])
      BY <2>1, <2>2, PassKeeps
    <2>4. Len(at[k].work) \in Nat /\ Len(at[k + 1].work) \in Nat
      BY <2>1, <2>3 DEF Sorted
    <2>5. CASE Closed(at[k])
      BY <2>3, <2>5
    <2>6. CASE Len(at[k].work) <= N - k
      <3> DEFINE a == Len(at[k].work)
                 b == Len(at[k + 1].work)
      <3>1. a \in Nat /\ b \in Nat /\ a <= N - k /\ (Closed(at[k + 1]) \/ b <= a - 1)
        BY <2>3, <2>4, <2>6
      <3> HIDE DEF a, b
      <3>2. a - 1 <= N - (k + 1)
        BY <1>1, <3>1
      <3>3. b <= a - 1 => b <= N - (k + 1)
        BY <1>1, <3>1, <3>2
      <3> QED BY <2>3, <3>1, <3>3 DEF b
    <2> QED BY <2>1, <2>5, <2>6
  <1>5. N \in S
    <2> HIDE DEF S
    <2> QED BY <1>1, <1>3, <1>4, NatSetInduction
  <1>6. Sorted(at[N], {}, q) /\ (Closed(at[N]) \/ Len(at[N].work) <= 0)
    BY <1>1, <1>5
  <1>7. Len(at[N].work) <= 0 => Closed(at[N])
    <2>1. at[N].work \in Seq(Condition)
      BY <1>6 DEF Sorted
    <2>2. Len(at[N].work) <= 0 => Elems(at[N].work) = {}
      BY <2>1 DEF Elems
    <2> QED BY <2>2 DEF Closed
  <1> QED BY <1>2, <1>6, <1>7

\* The independent constraints let the query have the values that all of them do.
LEMMA IndependentValues ==
  ASSUME Evaluates, Reads, NEW q, q.cs \in Seq(Condition), q.e \in Expression, Holding(q.cs) # {}
  PROVE  LET cs == getIndependentConstraints(q)
         IN  /\ cs \in Seq(Condition) /\ Holding(cs) # {}
             /\ Values(cs, q.e) = Values(q.cs, q.e)
PROOF
  <1> DEFINE p == Closure(q)
             cs == p.result
             covered == ReadCells(p.elts)
  <1>1. getIndependentConstraints(q) = cs
    BY DEF getIndependentConstraints
  <1>2. Sorted(p, {}, q) /\ Closed(p)
    BY ClosureKeeps
  <1>3. /\ p.work \in Seq(Condition) /\ cs \in Seq(Condition)
        /\ Elems(p.work) \cup Elems(cs) = Elems(q.cs)
        /\ ReadCells(ReadSet(q.e)) \subseteq covered
        /\ \A a \in Elems(cs) : ReadCells(ReadSet(a)) \subseteq covered
    BY <1>2 DEF Sorted
  <1>4. \A a \in Elems(p.work) : ReadCells(ReadSet(a)) \cap covered = {}
    BY <1>2, ApartCells DEF Closed
  <1>5. \A s : Holding(s) = {env \in Envs : \A a \in Elems(s) : Meaning(a, env) = 1}
    BY DEF Holding, Elems
  <1>6. \A s \in Seq(Condition) : Elems(s) \subseteq Expression
    BY DEF Elems, Condition
  <1> HIDE DEF p
  <1>7. Holding(q.cs) \subseteq Holding(cs)
    <2> HIDE DEF cs
    <2> QED BY <1>3, <1>5
  <1>8. ASSUME NEW env \in Holding(cs)
        PROVE  \E all \in Holding(q.cs) : Meaning(q.e, all) = Meaning(q.e, env)
    <2>1. PICK known \in Holding(q.cs) : TRUE
      OBVIOUS
    <2>2. known \in Envs /\ env \in Envs
      BY <1>5
    <2> DEFINE all == [i \in Cells |-> IF i \in covered THEN env[i] ELSE known[i]]
    <2>3. all \in Envs /\ \A i \in Cells : all[i] = IF i \in covered THEN env[i] ELSE known[i]
      BY <2>2 DEF Envs
    <2> HIDE DEF all
    <2>4. \A s : ReadCells(s) \subseteq Cells
      BY DEF ReadCells
    <2>5. Meaning(q.e, all) = Meaning(q.e, env)
      <3>1. \A i \in ReadCells(ReadSet(q.e)) : all[i] = env[i]
        BY <1>3, <2>3, <2>4
      <3> QED BY <2>2, <2>3, <3>1 DEF Reads
    <2>6. ASSUME NEW a \in Elems(cs) PROVE Meaning(a, all) = 1
      <3>1. a \in Expression /\ Meaning(a, env) = 1
        BY <1>3, <1>5, <1>6
      <3>2. \A i \in ReadCells(ReadSet(a)) : all[i] = env[i]
        BY <1>3, <2>3, <2>4
      <3>3. Meaning(a, all) = Meaning(a, env)
        BY <2>2, <2>3, <3>1, <3>2 DEF Reads
      <3> QED BY <3>1, <3>3
    <2>7. ASSUME NEW a \in Elems(p.work) PROVE Meaning(a, all) = 1
      <3>1. a \in Expression /\ a \in Elems(q.cs)
        BY <1>3, <1>6
      <3>2. Meaning(a, known) = 1
        BY <1>5, <3>1
      <3>3. \A i \in ReadCells(ReadSet(a)) : all[i] = known[i]
        BY <1>4, <2>3, <2>4
      <3>4. Meaning(a, all) = Meaning(a, known)
        BY <2>2, <2>3, <3>1, <3>3 DEF Reads
      <3> QED BY <3>2, <3>4
    <2>8. all \in Holding(q.cs)
      BY <1>3, <1>5, <2>3, <2>6, <2>7
    <2> QED BY <2>5, <2>8
  <1>9. Values(cs, q.e) = Values(q.cs, q.e)
    BY <1>7, <1>8 DEF Values
  <1> QED BY <1>1, <1>3, <1>7, <1>9

\* A query has the answers that its values give it.
LEMMA AnswersOfValues ==
  ASSUME Evaluates, Negates, NEW kind \in {"truth", "validity", "value"}, NEW q \in Queries(kind),
         NEW cs \in Seq(Condition), Holding(cs) # {}, Values(cs, q.e) = Values(q.cs, q.e),
         NEW objects
  PROVE  /\ Query(cs, q.e) \in Queries(kind)
         /\ \A v : Answers(kind, Query(cs, q.e), objects, v) => Answers(kind, q, objects, v)
PROOF
  <1> DEFINE r == Query(cs, q.e)
  <1>1. r.cs = cs /\ r.e = q.e /\ r \in Queries(kind)
    BY DEF Query, Queries
  <1>2. CASE kind = "value"
    <2>1. \A v : Answers("value", r, objects, v) <=> v \in Values(cs, q.e)
      BY <1>1 DEF Answers, Values
    <2>2. \A v : Answers("value", q, objects, v) <=> v \in Values(q.cs, q.e)
      BY DEF Answers, Values
    <2> QED BY <1>1, <1>2, <2>1, <2>2
  <1>3. CASE kind \in {"truth", "validity"}
    <2>1. q \in Queries("truth") /\ r \in Queries("truth")
      BY <1>1, <1>3, QueryFacts
    <2>2. \A v : /\ Answers("truth", q, objects, v) <=> Answers("truth", r, objects, v)
                 /\ Answers("validity", q, objects, v) <=> Answers("validity", r, objects, v)
      <3> HIDE DEF r
      <3>1. \A v : /\ Answers("truth", q, objects, v) <=> v = (Values(q.cs, q.e) = {1})
                   /\ Answers("validity", q, objects, v) <=>
                        v = Validity(Values(q.cs, q.e) = {1}, Values(q.cs, q.e) = {0})
        BY <2>1, AnswersInValues
      <3>2. \A v : /\ Answers("truth", r, objects, v) <=> v = (Values(r.cs, r.e) = {1})
                   /\ Answers("validity", r, objects, v) <=>
                        v = Validity(Values(r.cs, r.e) = {1}, Values(r.cs, r.e) = {0})
        BY <2>1, AnswersInValues
      <3>3. Values(r.cs, r.e) = Values(q.cs, q.e)
        BY <1>1
      <3> QED BY <3>1, <3>2, <3>3
    <2> QED BY <1>1, <1>3, <2>2
  <1> QED BY <1>2, <1>3

(***************************************************************************)
(* getAllIndependentConstraintsSets                                        *)
(***************************************************************************)

LEMMA GatherSteps ==
  ASSUME NEW p, Len(p.left) \in Nat, p.left # << >>, Len(p.left) # 0
  PROVE  \E at : /\ Gather(p) = [left |-> at[Len(p.left)].keep, done |-> Append(p.done, at[Len(p.left)].current)]
                 /\ at[1] = [current |-> p.left[1], keep |-> << >>]
                 /\ \A n \in 2..Len(p.left) :
                      at[n] = Absorb(at[n - 1], p.left[n])
PROOF
  <1> DEFINE N == Len(p.left)
             first == [current |-> p.left[1], keep |-> << >>]
             Step(x, n) == Absorb(x, p.left[n])
             Solved(f, k) == [n \in 1..k |-> IF n = 1 THEN first ELSE Step(f[n - 1], n)]
             S == {k \in Nat : \E f : f = Solved(f, k)}
             at == CHOOSE f : f = Solved(f, N)
  <1>1. Gather(p) = [left |-> at[Len(p.left)].keep, done |-> Append(p.done, at[Len(p.left)].current)]
    BY DEF Gather
  <1> HIDE DEF first, Step, at
  <1>2. \A f, k : /\ Solved(f, k) = [n \in 1..k |-> Solved(f, k)[n]]
                  /\ \A n \in 1..k : Solved(f, k)[n] = IF n = 1 THEN first ELSE Step(f[n - 1], n)
    OBVIOUS
  <1> HIDE DEF Solved
  <1>3. 0 \in S
    <2> DEFINE f == [n \in 1..0 |-> first]
    <2>1. f = [n \in 1..0 |-> f[n]] /\ \A n \in 1..0 : f[n] = Solved(f, 0)[n]
      BY <1>2
    <2> HIDE DEF f
    <2>2. f = Solved(f, 0)
      BY <1>2, <2>1, SameFunction
    <2> QED BY <2>2
  <1>4. ASSUME NEW k \in Nat, k \in S PROVE k + 1 \in S
    <2>1. PICK f : f = Solved(f, k)
      BY <1>4
    <2> DEFINE g == [n \in 1..k + 1 |-> IF n = k + 1 THEN IF n = 1 THEN first ELSE Step(f[k], n) ELSE f[n]]
    <2>2. ASSUME NEW n \in 1..k + 1 PROVE g[n] = Solved(g, k + 1)[n]
      <3>1. CASE n = k + 1 /\ n # 1
        <4>1. g[n] = Step(f[k], n) /\ g[n - 1] = f[k]
          BY <3>1
        <4> HIDE DEF g
        <4> QED BY <1>2, <3>1, <4>1
      <3>2. CASE n \in 2..k
        <4>1. g[n] = f[n] /\ g[n - 1] = f[n - 1] /\ n # 1
          BY <3>2
        <4> HIDE DEF g
        <4> QED BY <1>2, <2>1, <3>2, <4>1
      <3>3. CASE n = 1
        <4>1. g[n] = IF k = 0 THEN first ELSE f[n]
          BY <3>3
        <4>2. k # 0 => f[n] = first
          BY <1>2, <2>1, <3>3
        <4> HIDE DEF g
        <4> QED BY <1>2, <3>3, <4>1, <4>2
      <3> QED BY <3>1, <3>2, <3>3
    <2>3. g = [n \in 1..k + 1 |-> g[n]]
      OBVIOUS
    <2> HIDE DEF g
    <2>4. g = Solved(g, k + 1)
      BY <1>2, <2>2, <2>3, SameFunction
    <2> QED BY <2>4
  <1>5. N \in S
    <2>1. Nat \subseteq S
      <3> HIDE DEF S
      <3> QED BY <1>3, <1>4, NatSetInduction
    <2> QED BY <2>1
  <1>6. at = Solved(at, N)
    BY <1>5 DEF at
  <1>7. at[1] = first /\ \A n \in 2..N : at[n] = Step(at[n - 1], n)
    BY <1>2, <1>6
  <1> QED BY <1>1, <1>7 DEF first, Step

LEMMA CollectSteps ==
  ASSUME NEW factors, Len(factors) \in Nat
  PROVE  \E at : /\ Collect(factors) = at[Len(factors)].done
                 /\ at[0] = [left |-> factors, done |-> << >>]
                 /\ \A n \in 1..Len(factors) :
                      at[n] = Gather(at[n - 1])
PROOF
  <1> DEFINE N == Len(factors)
             first == [left |-> factors, done |-> << >>]
             Step(x, n) == Gather(x)
             Solved(f, k) == [n \in 0..k |-> IF n = 0 THEN first ELSE Step(f[n - 1], n)]
             S == {k \in Nat : \E f : f = Solved(f, k)}
             at == CHOOSE f : f = Solved(f, N)
  <1>1. Collect(factors) = at[Len(factors)].done
    BY DEF Collect
  <1> HIDE DEF first, Step, at
  <1>2. \A f, k : /\ Solved(f, k) = [n \in 0..k |-> Solved(f, k)[n]]
                  /\ \A n \in 0..k : Solved(f, k)[n] = IF n = 0 THEN first ELSE Step(f[n - 1], n)
    OBVIOUS
  <1> HIDE DEF Solved
  <1>3. 0 \in S
    <2> DEFINE f == [n \in 0..0 |-> first]
    <2>1. f = [n \in 0..0 |-> f[n]] /\ \A n \in 0..0 : f[n] = Solved(f, 0)[n]
      BY <1>2
    <2> HIDE DEF f
    <2>2. f = Solved(f, 0)
      BY <1>2, <2>1, SameFunction
    <2> QED BY <2>2
  <1>4. ASSUME NEW k \in Nat, k \in S PROVE k + 1 \in S
    <2>1. PICK f : f = Solved(f, k)
      BY <1>4
    <2> DEFINE g == [n \in 0..k + 1 |-> IF n = k + 1 THEN Step(f[k], n) ELSE f[n]]
    <2>2. ASSUME NEW n \in 0..k + 1 PROVE g[n] = Solved(g, k + 1)[n]
      <3>1. CASE n = k + 1 /\ n # 0
        <4>1. g[n] = Step(f[k], n) /\ g[n - 1] = f[k]
          BY <3>1
        <4> HIDE DEF g
        <4> QED BY <1>2, <3>1, <4>1
      <3>2. CASE n \in 1..k
        <4>1. g[n] = f[n] /\ g[n - 1] = f[n - 1] /\ n # 0
          BY <3>2
        <4> HIDE DEF g
        <4> QED BY <1>2, <2>1, <3>2, <4>1
      <3>3. CASE n = 0
        <4>1. g[n] = f[n]
          BY <3>3
        <4> HIDE DEF g
        <4> QED BY <1>2, <2>1, <3>3, <4>1
      <3> QED BY <3>1, <3>2, <3>3
    <2>3. g = [n \in 0..k + 1 |-> g[n]]
      OBVIOUS
    <2> HIDE DEF g
    <2>4. g = Solved(g, k + 1)
      BY <1>2, <2>2, <2>3, SameFunction
    <2> QED BY <2>4
  <1>5. N \in S
    <2>1. Nat \subseteq S
      <3> HIDE DEF S
      <3> QED BY <1>3, <1>4, NatSetInduction
    <2> QED BY <2>1
  <1>6. at = Solved(at, N)
    BY <1>5 DEF at
  <1>7. at[0] = first /\ \A n \in 1..N : at[n] = Step(at[n - 1], n)
    BY <1>2, <1>6
  <1> QED BY <1>1, <1>7 DEF first, Step

LEMMA FactoriseSteps ==
  ASSUME NEW factors, Len(factors) \in Nat
  PROVE  \E at : /\ Factorise(factors) = at[Len(factors)]
                 /\ at[0] = factors
                 /\ \A n \in 1..Len(factors) :
                      at[n] = Collect(at[n - 1])
PROOF
  <1> DEFINE N == Len(factors)
             first == factors
             Step(x, n) == Collect(x)
             Solved(f, k) == [n \in 0..k |-> IF n = 0 THEN first ELSE Step(f[n - 1], n)]
             S == {k \in Nat : \E f : f = Solved(f, k)}
             at == CHOOSE f : f = Solved(f, N)
  <1>1. Factorise(factors) = at[N]
    BY DEF Factorise
  <1> HIDE DEF first, Step, at
  <1>2. \A f, k : /\ Solved(f, k) = [n \in 0..k |-> Solved(f, k)[n]]
                  /\ \A n \in 0..k : Solved(f, k)[n] = IF n = 0 THEN first ELSE Step(f[n - 1], n)
    OBVIOUS
  <1> HIDE DEF Solved
  <1>3. 0 \in S
    <2> DEFINE f == [n \in 0..0 |-> first]
    <2>1. f = [n \in 0..0 |-> f[n]] /\ \A n \in 0..0 : f[n] = Solved(f, 0)[n]
      BY <1>2
    <2> HIDE DEF f
    <2>2. f = Solved(f, 0)
      BY <1>2, <2>1, SameFunction
    <2> QED BY <2>2
  <1>4. ASSUME NEW k \in Nat, k \in S PROVE k + 1 \in S
    <2>1. PICK f : f = Solved(f, k)
      BY <1>4
    <2> DEFINE g == [n \in 0..k + 1 |-> IF n = k + 1 THEN Step(f[k], n) ELSE f[n]]
    <2>2. ASSUME NEW n \in 0..k + 1 PROVE g[n] = Solved(g, k + 1)[n]
      <3>1. CASE n = k + 1 /\ n # 0
        <4>1. g[n] = Step(f[k], n) /\ g[n - 1] = f[k]
          BY <3>1
        <4> HIDE DEF g
        <4> QED BY <1>2, <3>1, <4>1
      <3>2. CASE n \in 1..k
        <4>1. g[n] = f[n] /\ g[n - 1] = f[n - 1] /\ n # 0
          BY <3>2
        <4> HIDE DEF g
        <4> QED BY <1>2, <2>1, <3>2, <4>1
      <3>3. CASE n = 0
        <4>1. g[n] = f[n]
          BY <3>3
        <4> HIDE DEF g
        <4> QED BY <1>2, <2>1, <3>3, <4>1
      <3> QED BY <3>1, <3>2, <3>3
    <2>3. g = [n \in 0..k + 1 |-> g[n]]
      OBVIOUS
    <2> HIDE DEF g
    <2>4. g = Solved(g, k + 1)
      BY <1>2, <2>2, <2>3, SameFunction
    <2> QED BY <2>4
  <1>5. N \in S
    <2>1. Nat \subseteq S
      <3> HIDE DEF S
      <3> QED BY <1>3, <1>4, NatSetInduction
    <2> QED BY <2>1
  <1>6. at = Solved(at, N)
    BY <1>5 DEF at
  <1>7. at[0] = first /\ \A n \in 1..N : at[n] = Step(at[n - 1], n)
    BY <1>2, <1>6
  <1> QED BY <1>1, <1>7 DEF first, Step

\* nothing put together yet
NothingGathered(c) == Ok([has |-> TRUE, ret |-> NoSolution], c)

\* every outcome so far, and what one more factor makes of it
Further(rest, s, outs) ==
  UNION {IF o.ok THEN AskFactor(rest, s, o.val.has, o.val.ret, o.ch) ELSE {o} : o \in outs}

LEMMA AskFactorsSteps ==
  ASSUME NEW rest, NEW factors, Len(factors) \in Nat, NEW c
  PROVE  \E at : /\ AskFactors(rest, factors, c) = at[Len(factors)]
                 /\ at[0] = NothingGathered(c)
                 /\ \A n \in 1..Len(factors) :
                      at[n] = Further(rest, factors[n], at[n - 1])
PROOF
  <1> DEFINE N == Len(factors)
             first == NothingGathered(c)
             Step(x, n) == Further(rest, factors[n], x)
             Solved(f, k) == [n \in 0..k |-> IF n = 0 THEN first ELSE Step(f[n - 1], n)]
             S == {k \in Nat : \E f : f = Solved(f, k)}
             at == CHOOSE f : f = Solved(f, N)
  <1>1. AskFactors(rest, factors, c) = at[N]
    BY DEF AskFactors, Bind, Further, NothingGathered
  <1> HIDE DEF first, Step, at
  <1>2. \A f, k : /\ Solved(f, k) = [n \in 0..k |-> Solved(f, k)[n]]
                  /\ \A n \in 0..k : Solved(f, k)[n] = IF n = 0 THEN first ELSE Step(f[n - 1], n)
    OBVIOUS
  <1> HIDE DEF Solved
  <1>3. 0 \in S
    <2> DEFINE f == [n \in 0..0 |-> first]
    <2>1. f = [n \in 0..0 |-> f[n]] /\ \A n \in 0..0 : f[n] = Solved(f, 0)[n]
      BY <1>2
    <2> HIDE DEF f
    <2>2. f = Solved(f, 0)
      BY <1>2, <2>1, SameFunction
    <2> QED BY <2>2
  <1>4. ASSUME NEW k \in Nat, k \in S PROVE k + 1 \in S
    <2>1. PICK f : f = Solved(f, k)
      BY <1>4
    <2> DEFINE g == [n \in 0..k + 1 |-> IF n = k + 1 THEN Step(f[k], n) ELSE f[n]]
    <2>2. ASSUME NEW n \in 0..k + 1 PROVE g[n] = Solved(g, k + 1)[n]
      <3>1. CASE n = k + 1 /\ n # 0
        <4>1. g[n] = Step(f[k], n) /\ g[n - 1] = f[k]
          BY <3>1
        <4> HIDE DEF g
        <4> QED BY <1>2, <3>1, <4>1
      <3>2. CASE n \in 1..k
        <4>1. g[n] = f[n] /\ g[n - 1] = f[n - 1] /\ n # 0
          BY <3>2
        <4> HIDE DEF g
        <4> QED BY <1>2, <2>1, <3>2, <4>1
      <3>3. CASE n = 0
        <4>1. g[n] = f[n]
          BY <3>3
        <4> HIDE DEF g
        <4> QED BY <1>2, <2>1, <3>3, <4>1
      <3> QED BY <3>1, <3>2, <3>3
    <2>3. g = [n \in 0..k + 1 |-> g[n]]
      OBVIOUS
    <2> HIDE DEF g
    <2>4. g = Solved(g, k + 1)
      BY <1>2, <2>2, <2>3, SameFunction
    <2> QED BY <2>4
  <1>5. N \in S
    <2>1. Nat \subseteq S
      <3> HIDE DEF S
      <3> QED BY <1>3, <1>4, NatSetInduction
    <2> QED BY <2>1
  <1>6. at = Solved(at, N)
    BY <1>5 DEF at
  <1>7. at[0] = first /\ \A n \in 1..N : at[n] = Step(at[n - 1], n)
    BY <1>2, <1>6
  <1> QED BY <1>1, <1>7 DEF first, Step

\* What the constraints are put together into: sets of elements with some of C
Factors(C) ==
  [whole : SUBSET UNION {ReadSet(a).whole : a \in Condition},
   elements : SUBSET UNION {ReadSet(a).elements : a \in Condition},
   exprs : Seq(C)]

LEMMA ReadSetFactor ==
  ASSUME Reads, NEW C \in SUBSET Condition, NEW a \in C
  PROVE  ReadSet(a) \in Factors(C)
PROOF
  <1>1. a \in Condition /\ a \in Expression
    BY DEF Condition
  <1>2. ReadSet(a) = [whole |-> ReadSet(a).whole, elements |-> ReadSet(a).elements, exprs |-> <<a>>]
    BY <1>1 DEF Reads
  <1>3. /\ ReadSet(a).whole \in SUBSET UNION {ReadSet(b).whole : b \in Condition}
        /\ ReadSet(a).elements \in SUBSET UNION {ReadSet(b).elements : b \in Condition}
    BY <1>1
  <1>4. <<a>> \in Seq(C)
    OBVIOUS
  <1> DEFINE w == ReadSet(a).whole
             r == ReadSet(a).elements
  <1>5. ReadSet(a) = [whole |-> w, elements |-> r, exprs |-> <<a>>]
    BY <1>2
  <1>6. /\ w \in SUBSET UNION {ReadSet(b).whole : b \in Condition}
        /\ r \in SUBSET UNION {ReadSet(b).elements : b \in Condition}
    BY <1>3
  <1> HIDE DEF w, r
  <1>7. [whole |-> w, elements |-> r, exprs |-> <<a>>] \in Factors(C)
    BY <1>4, <1>6 DEF Factors
  <1> QED BY <1>5, <1>7

LEMMA AddSetFactor ==
  ASSUME NEW C, NEW s \in Factors(C), NEW t \in Factors(C)
  PROVE  AddSet(s, t) \in Factors(C)
PROOF
  <1>1. s.exprs \o t.exprs \in Seq(C)
    BY DEF Factors
  <1>2. /\ s.whole \cup t.whole \in SUBSET UNION {ReadSet(b).whole : b \in Condition}
        /\ {x \in s.elements \cup t.elements : x[1] \notin s.whole \cup t.whole}
             \in SUBSET UNION {ReadSet(b).elements : b \in Condition}
    BY DEF Factors
  <1> QED BY <1>1, <1>2 DEF AddSet, Factors

LEMMA AbsorbFactor ==
  ASSUME NEW C, NEW p \in [current : Factors(C), keep : Seq(Factors(C))], NEW s \in Factors(C)
  PROVE  Absorb(p, s) \in [current : Factors(C), keep : Seq(Factors(C))]
PROOF
  <1>1. CASE intersects(p.current, s)
    <2>1. AddSet(p.current, s) \in Factors(C)
      BY AddSetFactor
    <2> QED BY <1>1, <2>1 DEF Absorb
  <1>2. CASE ~intersects(p.current, s)
    <2>1. Append(p.keep, s) \in Seq(Factors(C))
      OBVIOUS
    <2> QED BY <1>2, <2>1 DEF Absorb
  <1> QED BY <1>1, <1>2

LEMMA GatherFactors ==
  ASSUME NEW C, NEW p \in [left : Seq(Factors(C)), done : Seq(Factors(C))]
  PROVE  Gather(p) \in [left : Seq(Factors(C)), done : Seq(Factors(C))]
PROOF
  <1> DEFINE F == Factors(C)
             N == Len(p.left)
             P == [current : F, keep : Seq(F)]
  <1>1. CASE p.left = << >>
    BY <1>1 DEF Gather
  <1>2. CASE p.left # << >>
    <2>1. N \in Nat /\ N # 0 /\ \A n \in 1..N : p.left[n] \in F
      BY <1>2
    <2>2. PICK at : /\ Gather(p) = [left |-> at[N].keep, done |-> Append(p.done, at[N].current)]
                    /\ at[1] = [current |-> p.left[1], keep |-> << >>]
                    /\ \A n \in 2..N : at[n] = Absorb(at[n - 1], p.left[n])
      BY <1>2, <2>1, GatherSteps
    <2> DEFINE S == {k \in Nat : k + 1 <= N => at[k + 1] \in P}
    <2> HIDE DEF N
    <2>3. 0 \in S
      <3>1. 1 <= N => p.left[1] \in F
        BY <2>1
      <3>2. << >> \in Seq(F)
        OBVIOUS
      <3> HIDE DEF F
      <3>3. 1 <= N => [current |-> p.left[1], keep |-> << >>] \in P
        BY <3>1, <3>2
      <3> HIDE DEF P
      <3>4. 0 + 1 = 1
        OBVIOUS
      <3> QED BY <2>2, <3>3, <3>4
    <2>4. ASSUME NEW k \in Nat, k \in S PROVE k + 1 \in S
      <3> SUFFICES ASSUME k + 2 <= N PROVE at[k + 2] \in P
        OBVIOUS
      <3>1. at[k + 1] \in P /\ k + 2 \in 2..N /\ p.left[k + 2] \in F
        BY <2>1, <2>4
      <3>2. at[k + 2] = Absorb(at[k + 1], p.left[k + 2])
        <4>1. at[k + 2] = Absorb(at[(k + 2) - 1], p.left[k + 2])
          BY <2>2, <3>1
        <4>2. (k + 2) - 1 = k + 1
          OBVIOUS
        <4> QED BY <4>1, <4>2
      <3> QED BY <3>1, <3>2, AbsorbFactor
    <2>5. at[N] \in P
      <3>1. N - 1 \in S
        <4>1. N - 1 \in Nat
          BY <2>1
        <4> HIDE DEF S
        <4> QED BY <2>3, <2>4, <4>1, NatSetInduction
      <3>2. N - 1 + 1 = N
        BY <2>1
      <3> QED BY <2>1, <3>1, <3>2
    <2> HIDE DEF F
    <2>6. at[N].keep \in Seq(F) /\ Append(p.done, at[N].current) \in Seq(F)
      BY <2>5 DEF F
    <2> QED BY <2>2, <2>6 DEF F
  <1> QED BY <1>1, <1>2

LEMMA CollectFactors ==
  ASSUME NEW C, NEW factors \in Seq(Factors(C))
  PROVE  Collect(factors) \in Seq(Factors(C))
PROOF
  <1> DEFINE F == Factors(C)
             N == Len(factors)
             P == [left : Seq(F), done : Seq(F)]
  <1>1. N \in Nat
    OBVIOUS
  <1>2. PICK at : /\ Collect(factors) = at[N].done
                  /\ at[0] = [left |-> factors, done |-> << >>]
                  /\ \A n \in 1..N : at[n] = Gather(at[n - 1])
    BY <1>1, CollectSteps
  <1> DEFINE S == {k \in Nat : k <= N => at[k] \in P}
  <1>3. 0 \in S
    <2>1. << >> \in Seq(F)
      OBVIOUS
    <2> HIDE DEF F
    <2>2. [left |-> factors, done |-> << >>] \in P
      BY <2>1 DEF F
    <2> HIDE DEF P
    <2> QED BY <1>2, <2>2
  <1> HIDE DEF N
  <1>4. ASSUME NEW k \in Nat, k \in S PROVE k + 1 \in S
    BY <1>1, <1>2, <1>4, GatherFactors
  <1>5. at[N] \in P
    <2>1. N \in S
      <3> HIDE DEF S
      <3> QED BY <1>1, <1>3, <1>4, NatSetInduction
    <2> QED BY <1>1, <2>1
  <1> QED BY <1>2, <1>5

LEMMA FactoriseFactors ==
  ASSUME NEW C, NEW factors \in Seq(Factors(C))
  PROVE  Factorise(factors) \in Seq(Factors(C))
PROOF
  <1> DEFINE F == Factors(C)
             N == Len(factors)
  <1>1. N \in Nat
    OBVIOUS
  <1>2. PICK at : /\ Factorise(factors) = at[N]
                  /\ at[0] = factors
                  /\ \A n \in 1..N : at[n] = Collect(at[n - 1])
    BY <1>1, FactoriseSteps
  <1> DEFINE S == {k \in Nat : k <= N => at[k] \in Seq(F)}
  <1>3. 0 \in S
    BY <1>2
  <1> HIDE DEF N
  <1>4. ASSUME NEW k \in Nat, k \in S PROVE k + 1 \in S
    BY <1>1, <1>2, <1>4, CollectFactors
  <1>5. at[N] \in Seq(F)
    <2>1. N \in S
      <3> HIDE DEF S
      <3> QED BY <1>1, <1>3, <1>4, NatSetInduction
    <2> QED BY <1>1, <2>1
  <1> QED BY <1>2, <1>5

\* Every factor is made of constraints of the query and of its negated expression.
LEMMA FactorsOfQuery ==
  ASSUME Negates, Reads, NEW q \in Queries("initial")
  PROVE  getAllIndependentConstraintsSets(q) \in Seq(Factors(Elems(q.cs) \cup {Negation(q.e)}))
PROOF
  <1> DEFINE C == Elems(q.cs) \cup {Negation(q.e)}
             some == IF Constant(q.e) THEN << >> ELSE <<ReadSet(Negation(q.e))>>
             others == [n \in DOMAIN q.cs |-> ReadSet(q.cs[n])]
  <1>1. q.cs \in Seq(Condition) /\ q.e \in Condition
    BY QueryFacts
  <1>2. C \in SUBSET Condition
    BY <1>1 DEF Elems, Negates
  <1>3. \A n \in DOMAIN q.cs : q.cs[n] \in C
    BY DEF Elems
  <1>4. Negation(q.e) \in C
    OBVIOUS
  <1> HIDE DEF C
  <1>5. \A n \in DOMAIN q.cs : ReadSet(q.cs[n]) \in Factors(C)
    BY <1>2, <1>3, ReadSetFactor
  <1>6. others \in Seq(Factors(C))
    <2>1. DOMAIN q.cs = 1..Len(q.cs) /\ Len(q.cs) \in Nat
      BY <1>1
    <2>2. others \in [1..Len(q.cs) -> Factors(C)]
      BY <1>5, <2>1
    <2> HIDE DEF others
    <2> QED BY <2>1, <2>2
  <1>7. some \in Seq(Factors(C))
    <2>1. ReadSet(Negation(q.e)) \in Factors(C)
      BY <1>2, <1>4, ReadSetFactor
    <2> QED BY <2>1
  <1>8. getAllIndependentConstraintsSets(q) = Factorise(some \o others)
    BY DEF getAllIndependentConstraintsSets
  <1> HIDE DEF some, others
  <1>9. some \o others \in Seq(Factors(C))
    BY <1>6, <1>7
  <1> QED BY <1>8, <1>9, FactoriseFactors DEF C

(***************************************************************************)
(* The factors' answers                                                    *)
(***************************************************************************)

\* what has been put together so far, or a proof that there is no solution
Gathered(q, o) ==
  /\ CachesFine(o.ch) /\ o.ok \in BOOLEAN
  /\ o.ok => /\ o.val.ret \in Envs \cup {NoSolution}
             /\ o.val.has = FALSE => Models(q) = {}
             /\ o.val.has \in BOOLEAN

LEMMA MergedInEnvs ==
  ASSUME NEW ret \in Envs \cup {NoSolution}, NEW val \in Envs, NEW mine
  PROVE  Merged(ret, val, mine) \in Envs
PROOF
  <1>1. CASE ret = NoSolution
    BY <1>1 DEF Merged
  <1>2. CASE ret # NoSolution
    <2>1. ret \in [Cells -> CellValue] /\ val \in [Cells -> CellValue]
      BY <1>2 DEF Envs
    <2>2. [i \in Cells |-> IF i \in mine THEN val[i] ELSE ret[i]] \in [Cells -> CellValue]
      BY <2>1
    <2> QED BY <1>2, <2>2 DEF Merged, Envs
  <1> QED BY <1>1, <1>2

LEMMA OkGathered ==
  ASSUME NEW q, NEW c, CachesFine(c), NEW has \in BOOLEAN, NEW ret \in Envs \cup {NoSolution},
         ~has => Models(q) = {}, NEW o \in Ok([has |-> has, ret |-> ret], c)
  PROVE  Gathered(q, o)
PROOF
  <1>1. /\ o.ok = TRUE /\ o.ch = c /\ o.val.has = has /\ o.val.ret = ret
    BY DEF Ok
  <1> QED BY <1>1 DEF Gathered

LEMMA AskFactorRight ==
  ASSUME Evaluates, Negates, NEW rest, Promise(rest), NEW q \in Queries("initial"),
         NEW s \in Factors(Elems(q.cs) \cup {Negation(q.e)}),
         NEW c, CachesFine(c), NEW has \in BOOLEAN, NEW ret \in Envs \cup {NoSolution},
         ~has => Models(q) = {}, NEW o \in AskFactor(rest, s, has, ret, c)
  PROVE  Gathered(q, o)
PROOF
  <1> DEFINE C == Elems(q.cs) \cup {Negation(q.e)}
             mine == {i \in Cells : <<TheArray, i>> \in s.elements}
             symbolic == TheArray \in Arrays(s)
             r == Query(s.exprs, Falsehood)
             new(val) == IF symbolic THEN Merged(ret, val, mine) ELSE ret
  <1>1. CASE ~has \/ Arrays(s) = {}
    <2>1. o \in Ok([has |-> has, ret |-> ret], c)
      BY <1>1 DEF AskFactor
    <2> QED BY <2>1, OkGathered
  <1>2. CASE ~(~has \/ Arrays(s) = {})
    <2>1. PICK x \in Ask(rest, "initial", r, symbolic, c) :
            o \in IF x.ok THEN IF x.val = NoSolution THEN Ok([has |-> FALSE, ret |-> ret], x.ch)
                               ELSE Ok([has |-> TRUE, ret |-> new(x.val)], x.ch)
                  ELSE {x}
      <3>1. o \in Bind(Ask(rest, "initial", r, symbolic, c), LAMBDA x :
                    IF x.val = NoSolution THEN Ok([has |-> FALSE, ret |-> ret], x.ch)
                    ELSE Ok([has |-> TRUE, ret |-> new(x.val)], x.ch))
        BY <1>2 DEF AskFactor
      <3> QED BY <3>1 DEF Bind
    <2>2. q.cs \in Seq(Condition) /\ q.e \in Condition
      BY QueryFacts
    <2>3. C \in SUBSET Condition /\ s.exprs \in Seq(C)
      BY <2>2 DEF Elems, Negates, Factors
    <2>4. r.cs = s.exprs /\ r.e = Falsehood
      BY DEF Query
    <2>5. r \in Queries("initial")
      <3>1. s.exprs \in Seq(Condition)
        BY <2>3
      <3>2. Falsehood \in Condition /\ Falsehood \in Expression
        BY DEF Negates, Condition
      <3> QED BY <3>1, <3>2 DEF Query, Queries
    <2>6. Models(r) = Holding(s.exprs)
      BY <2>2, ModelsOfNegation
    <2>7. Models(q) \subseteq Holding(s.exprs)
      <3> SUFFICES ASSUME NEW env \in Models(q) PROVE env \in Holding(s.exprs)
        OBVIOUS
      <3>1. env \in Envs /\ \A n \in DOMAIN q.cs : Meaning(q.cs[n], env) = 1
        BY DEF Models, Holding
      <3>2. Meaning(Negation(q.e), env) = 1
        BY <2>2, <3>1 DEF Models, Negates
      <3>3. \A a \in C : Meaning(a, env) = 1
        BY <3>1, <3>2 DEF Elems
      <3>4. \A n \in DOMAIN s.exprs : s.exprs[n] \in C
        BY <2>3
      <3> QED BY <3>1, <3>3, <3>4 DEF Holding
    <2>8. Right("initial", r, symbolic, x)
      <3>1. symbolic \in BOOLEAN /\ "initial" \in Kinds
        BY DEF Kinds
      <3> HIDE DEF r, symbolic
      <3> QED BY <2>1, <2>5, <3>1 DEF Promise
    <2>9. CASE ~x.ok
      <3>1. o = x
        BY <2>1, <2>9
      <3> QED BY <2>8, <2>9, <3>1 DEF Right, Gathered
    <2>10. CASE x.ok
      <3> HIDE DEF r, new, symbolic, mine
      <3>1. CachesFine(x.ch) /\ Answers("initial", r, symbolic, x.val)
        BY <2>8, <2>10 DEF Right
      <3>2. CASE x.val = NoSolution
        <4>1. Models(r) = {}
          BY <3>1, <3>2, ModelsInEnvs, EnvsFacts DEF Answers
        <4>2. Models(q) = {}
          BY <2>6, <2>7, <4>1
        <4>3. o \in Ok([has |-> FALSE, ret |-> ret], x.ch)
          BY <2>1, <2>10, <3>2
        <4> QED BY <3>1, <4>2, <4>3, OkGathered
      <3>3. CASE x.val # NoSolution
        <4>1. o \in Ok([has |-> TRUE, ret |-> new(x.val)], x.ch)
          BY <2>1, <2>10, <3>3
        <4>2. x.val \in Envs
          BY <3>1, <3>3, ModelsInEnvs DEF Answers
        <4>3. new(x.val) \in Envs \cup {NoSolution}
          BY <4>2, MergedInEnvs DEF new
        <4> QED BY <3>1, <4>1, <4>3, OkGathered
      <3> QED BY <3>2, <3>3
    <2> QED BY <2>8, <2>9, <2>10 DEF Right
  <1> QED BY <1>1, <1>2

LEMMA AskFactorsRight ==
  ASSUME Evaluates, Negates, NEW rest, Promise(rest), NEW q \in Queries("initial"),
         NEW factors \in Seq(Factors(Elems(q.cs) \cup {Negation(q.e)})),
         NEW c, CachesFine(c), NEW o \in AskFactors(rest, factors, c)
  PROVE  Gathered(q, o)
PROOF
  <1> DEFINE N == Len(factors)
             F == Factors(Elems(q.cs) \cup {Negation(q.e)})
  <1>1. N \in Nat /\ \A n \in 1..N : factors[n] \in F
    OBVIOUS
  <1>a. Len(factors) \in Nat
    OBVIOUS
  <1>2. PICK at : /\ AskFactors(rest, factors, c) = at[Len(factors)]
                  /\ at[0] = NothingGathered(c)
                  /\ \A n \in 1..Len(factors) : at[n] = Further(rest, factors[n], at[n - 1])
    BY <1>a, AskFactorsSteps
  <1> DEFINE S == {k \in Nat : k <= N => \A y \in at[k] : Gathered(q, y)}
  <1> HIDE DEF N
  <1>3. 0 \in S
    <2> SUFFICES ASSUME NEW y \in at[0] PROVE Gathered(q, y)
      OBVIOUS
    <2>1. y \in Ok([has |-> TRUE, ret |-> NoSolution], c)
      BY <1>2 DEF NothingGathered
    <2> QED BY <2>1, OkGathered
  <1>4. ASSUME NEW k \in Nat, k \in S PROVE k + 1 \in S
    <2> SUFFICES ASSUME k + 1 <= N, NEW y \in at[k + 1] PROVE Gathered(q, y)
      OBVIOUS
    <2>1. k + 1 \in 1..N /\ (k + 1) - 1 = k /\ \A x \in at[k] : Gathered(q, x)
      BY <1>1, <1>4
    <2>2. PICK x \in at[k] :
            y \in IF x.ok THEN AskFactor(rest, factors[k + 1], x.val.has, x.val.ret, x.ch) ELSE {x}
      <3>1. at[k + 1] = Further(rest, factors[k + 1], at[k])
        BY <1>2, <2>1 DEF N
      <3> QED BY <3>1 DEF Further
    <2>3. Gathered(q, x) /\ factors[k + 1] \in F
      BY <1>1, <2>1
    <2>4. CASE ~x.ok
      BY <2>2, <2>3, <2>4
    <2>5. CASE x.ok
      <3>1. /\ CachesFine(x.ch) /\ x.val.has \in BOOLEAN /\ x.val.ret \in Envs \cup {NoSolution}
            /\ ~x.val.has => Models(q) = {}
        BY <2>3, <2>5 DEF Gathered
      <3>2. y \in AskFactor(rest, factors[k + 1], x.val.has, x.val.ret, x.ch)
        BY <2>2, <2>5
      <3> QED BY <2>3, <3>1, <3>2, AskFactorRight
    <2> QED BY <2>3, <2>4, <2>5 DEF Gathered
  <1>5. N \in S
    <2> HIDE DEF S
    <2> QED BY <1>1, <1>3, <1>4, NatSetInduction
  <1> QED BY <1>1, <1>2, <1>5 DEF N

\* What the factors' answers give is an answer: it is tried before it is returned.
LEMMA IndependentInitialRight ==
  ASSUME Evaluates, Negates, Reads, NEW rest, Promise(rest), NEW q \in Queries("initial"),
         NEW objects \in BOOLEAN, NEW c, CachesFine(c),
         NEW o \in independentInitial(rest, q, objects, c)
  PROVE  Right("initial", q, objects, o)
PROOF
  <1> DEFINE factors == getAllIndependentConstraintsSets(q)
             values(x) == IF x.val.ret = NoSolution THEN Zeros ELSE x.val.ret
             key == {q.cs[n] : n \in DOMAIN q.cs} \cup {Negation(q.e)}
  <1>0. CASE Constant(q.e) /\ ConstantValue(q.e) # 0
    <2>1. o \in Aborts(c)
      BY <1>0 DEF independentInitial
    <2> QED BY <2>1, AbortsRight
  <1> SUFFICES ASSUME ~(Constant(q.e) /\ ConstantValue(q.e) # 0)
               PROVE  Right("initial", q, objects, o)
    BY <1>0
  <1>1. PICK x \in AskFactors(rest, factors, c) :
          o \in IF x.ok
                THEN IF ~x.val.has THEN Ok(NoSolution, x.ch)
                     ELSE IF ~satisfies(values(x), key) THEN Aborts(x.ch)
                     ELSE Ok(IF objects THEN values(x) ELSE Zeros, x.ch)
                ELSE {x}
    BY DEF independentInitial, Bind
  <1>2. Gathered(q, x)
    BY FactorsOfQuery, AskFactorsRight
  <1>3. CASE ~x.ok
    <2>1. o = x
      BY <1>1, <1>3
    <2> QED BY <1>2, <1>3, <2>1 DEF Right, Gathered
  <1>4. CASE x.ok
    <2>1. CachesFine(x.ch) /\ (~x.val.has => Models(q) = {})
      BY <1>2, <1>4 DEF Gathered
    <2>2. CASE ~x.val.has
      <3>1. o \in Ok(NoSolution, x.ch)
        BY <1>1, <1>4, <2>2
      <3>2. Answers("initial", q, objects, NoSolution)
        BY <2>1, <2>2 DEF Answers
      <3> QED BY <2>1, <3>1, <3>2, OkRight
    <2>3. CASE x.val.has /\ ~satisfies(values(x), key)
      <3>1. o \in Aborts(x.ch)
        BY <1>1, <1>4, <2>3
      <3> QED BY <2>1, <3>1, AbortsRight
    <2>4. CASE x.val.has /\ satisfies(values(x), key)
      <3> DEFINE v == values(x)
      <3>1. o \in Ok(IF objects THEN v ELSE Zeros, x.ch)
        BY <1>1, <1>4, <2>4
      <3>2. v \in Envs
        BY <1>2, <1>4, EnvsFacts DEF Gathered
      <3> HIDE DEF v
      <3>3. q.cs \in Seq(Condition) /\ q.e \in Condition /\ Negation(q.e) \in Condition
        BY QueryFacts DEF Negates
      <3>4. key \subseteq Condition /\ satisfies(v, key)
        BY <2>4, <3>3 DEF v
      <3>5. \A a \in key : Meaning(a, v) = 1
        BY <3>2, <3>4 DEF satisfies, Evaluates, Condition
      <3>6. Meaning(q.e, v) = 0
        <4>1. Meaning(q.e, v) \in {0, 1} /\ Meaning(Negation(q.e), v) = 1 - Meaning(q.e, v)
          BY <3>2, <3>3 DEF Evaluates, Negates
        <4> QED BY <3>5, <4>1
      <3>7. v \in Models(q)
        BY <3>2, <3>5, <3>6 DEF Models, Holding
      <3>8. Answers("initial", q, objects, IF objects THEN v ELSE Zeros)
        BY <3>7, EnvsFacts DEF Answers
      <3> QED BY <2>1, <3>1, <3>8, OkRight
    <2> QED BY <2>2, <2>3, <2>4
  <1> QED BY <1>2, <1>3, <1>4 DEF Gathered

LEMMA IndependentRight ==
  ASSUME Evaluates, Negates, Reads, NEW rest, Promise(rest),
         NEW kind \in Kinds, NEW objects \in BOOLEAN, NEW q \in Queries(kind),
         NEW c, CachesFine(c), NEW o \in askIndependent(rest, kind, q, objects, c)
  PROVE  Right(kind, q, objects, o)
PROOF
  <1>1. CASE kind = "initial"
    BY <1>1, IndependentInitialRight DEF askIndependent
  <1>2. CASE kind # "initial"
    <2> DEFINE r == Query(getIndependentConstraints(q), q.e)
    <2>1. o \in Ask(rest, kind, r, objects, c)
      BY <1>2 DEF askIndependent
    <2>2. q.cs \in Seq(Condition) /\ q.e \in Expression /\ Holding(q.cs) # {}
      BY <1>2 DEF Queries
    <2>3. /\ getIndependentConstraints(q) \in Seq(Condition)
          /\ Holding(getIndependentConstraints(q)) # {}
          /\ Values(getIndependentConstraints(q), q.e) = Values(q.cs, q.e)
      BY <2>2, IndependentValues
    <2>4. kind \in {"truth", "validity", "value"}
      BY <1>2 DEF Kinds
    <2>5. /\ r \in Queries(kind)
          /\ \A v : Answers(kind, r, objects, v) => Answers(kind, q, objects, v)
      BY <2>3, <2>4, AnswersOfValues
    <2>6. Right(kind, r, objects, o)
      <3> HIDE DEF r
      <3> QED BY <2>1, <2>5 DEF Promise
    <2> QED BY <2>5, <2>6 DEF Right
  <1> QED BY <1>1, <1>2

(***************************************************************************)
(* Chains                                                                  *)
(***************************************************************************)

LayerNames == {"core", "assignment", "fast", "branch", "independent", "validating"} \cup CexLayers

\* Layers in front of the core solver, which has none behind it
WellFormed == {ls \in Seq(LayerNames) : ls # << >> /\ ls[Len(ls)] = "core"}

\* The first layer of a chain is the one that is asked (constructSolverChain).
Chained ==
  \A ls \in WellFormed : \A kind, q, objects, c :
    Ask(ls, kind, q, objects, c) = Layer(ls, kind, q, objects, c)

\* A layer answers right, if it is the core solver or those behind it do.
LEMMA LayerRight ==
  ASSUME Evaluates, Negates, Reads, Propagates, NEW ls, Head(ls) \in LayerNames,
         Head(ls) # "core" => Promise(Tail(ls)),
         NEW kind \in Kinds, NEW objects \in BOOLEAN, NEW q \in Queries(kind),
         NEW c, CachesFine(c), NEW o \in Layer(ls, kind, q, objects, c)
  PROVE  Right(kind, q, objects, o)
PROOF
  <1> DEFINE layer == Head(ls)
             rest == Tail(ls)
  <1>1. CASE layer = "core"
    <2>1. layer \notin CexLayers
      BY <1>1 DEF CexLayers
    <2>2. o \in askCore(kind, q, objects, c)
      BY <1>1, <2>1 DEF Layer
    <2> QED BY <2>2, CoreRight
  <1>2. CASE layer = "assignment"
    <2>1. layer \notin CexLayers
      BY <1>2 DEF CexLayers
    <2>2. o \in askAssignmentValidating(rest, kind, q, objects, c) /\ Promise(rest)
      BY <1>2, <2>1 DEF Layer
    <2> QED BY <2>2, AssignmentValidatingRight
  <1>3. CASE layer = "fast"
    <2>1. layer \notin CexLayers
      BY <1>3 DEF CexLayers
    <2>2. o \in askFast(rest, kind, q, objects, c) /\ Promise(rest)
      BY <1>3, <2>1 DEF Layer
    <2> QED BY <2>2, FastRight
  <1>4. CASE layer \in CexLayers
    <2>1. layer \notin {"core", "assignment", "fast", "branch", "independent", "validating"}
      BY <1>4 DEF CexLayers
    <2>2. o \in askCexCaching(CexOptions(layer), rest, kind, q, objects, c) /\ Promise(rest)
      BY <1>4, <2>1 DEF Layer
    <2> QED BY <2>2, CexCachingRight
  <1>5. CASE layer = "branch"
    <2>1. layer \notin CexLayers
      BY <1>5 DEF CexLayers
    <2>2. o \in askCaching(rest, kind, q, objects, c) /\ Promise(rest)
      BY <1>5, <2>1 DEF Layer
    <2> QED BY <2>2, CachingRight
  <1>6. CASE layer = "independent"
    <2>1. layer \notin CexLayers
      BY <1>6 DEF CexLayers
    <2>2. o \in askIndependent(rest, kind, q, objects, c) /\ Promise(rest)
      BY <1>6, <2>1 DEF Layer
    <2> QED BY <2>2, IndependentRight
  <1>7. CASE layer = "validating"
    <2>1. layer \notin CexLayers
      BY <1>7 DEF CexLayers
    <2>2. o \in askValidating(rest, kind, q, objects, c) /\ Promise(rest)
      BY <1>7, <2>1 DEF Layer
    <2> QED BY <2>2, ValidatingRight
  <1> QED BY <1>1, <1>2, <1>3, <1>4, <1>5, <1>6, <1>7 DEF LayerNames

\* Every chain of layers answers right.
LEMMA ChainRight ==
  ASSUME Evaluates, Negates, Reads, Propagates, Chained, NEW ls \in WellFormed
  PROVE  Promise(ls)
PROOF
  <1> DEFINE S == {k \in Nat : \A chain \in WellFormed : Len(chain) = k + 1 => Promise(chain)}
  <1>1. ASSUME NEW chain \in WellFormed, Head(chain) # "core" => Promise(Tail(chain))
        PROVE  Promise(chain)
    <2> SUFFICES ASSUME NEW kind \in Kinds, NEW objects \in BOOLEAN, NEW q \in Queries(kind),
                        NEW c, CachesFine(c), NEW o \in Ask(chain, kind, q, objects, c)
                 PROVE  Right(kind, q, objects, o)
      BY DEF Promise
    <2>1. o \in Layer(chain, kind, q, objects, c)
      BY DEF Chained
    <2>2. Head(chain) \in LayerNames
      BY DEF WellFormed
    <2> QED BY <1>1, <2>1, <2>2, LayerRight
  <1>2. 0 \in S
    <2> SUFFICES ASSUME NEW chain \in WellFormed, Len(chain) = 0 + 1 PROVE Promise(chain)
      OBVIOUS
    <2>1. chain \in Seq(LayerNames) /\ chain[Len(chain)] = "core"
      BY DEF WellFormed
    <2>a. Len(chain) = 1
      OBVIOUS
    <2>2. Head(chain) = "core"
      BY <2>1, <2>a
    <2> QED BY <1>1, <2>2
  <1>3. ASSUME NEW k \in Nat, k \in S PROVE k + 1 \in S
    <2> SUFFICES ASSUME NEW chain \in WellFormed, Len(chain) = k + 1 + 1 PROVE Promise(chain)
      OBVIOUS
    <2>1. Tail(chain) \in WellFormed /\ Len(Tail(chain)) = k + 1
      <3>1. chain \in Seq(LayerNames) /\ chain # << >> /\ chain[Len(chain)] = "core"
        BY DEF WellFormed
      <3>2. /\ Tail(chain) \in Seq(LayerNames) /\ Len(Tail(chain)) = k + 1
            /\ Tail(chain)[Len(Tail(chain))] = chain[Len(chain)]
        BY <3>1
      <3>3. Tail(chain) # << >>
        BY <3>2
      <3> DEFINE t == Tail(chain)
      <3> HIDE DEF t
      <3>4. t \in WellFormed
        BY <3>1, <3>2, <3>3 DEF WellFormed, t
      <3> QED BY <3>2, <3>4 DEF t
    <2>2. Promise(Tail(chain))
      BY <1>3, <2>1
    <2> QED BY <1>1, <2>2
  <1>4. Len(ls) - 1 \in Nat
    BY DEF WellFormed
  <1>5. Nat \subseteq S
    <2> HIDE DEF S
    <2> QED BY <1>2, <1>3, NatSetInduction
  <1>6. Len(ls) - 1 + 1 = Len(ls)
    BY <1>4
  <1> QED BY <1>4, <1>5, <1>6

(***************************************************************************)
(* Solver and TimingSolver                                                 *)
(***************************************************************************)

\* Simplification keeps what an expression is on the path.
Simplifies ==
  \A cs \in Seq(Condition), a \in Expression :
    /\ Simplified(cs, a) \in Expression /\ Width(Simplified(cs, a)) = Width(a)
    /\ \A env \in Holding(cs) : Meaning(Simplified(cs, a), env) = Meaning(a, env)

\* The questions of getRange mean what they say, for numbers that are
\* representable, and an expression fits its width.
Compares ==
  /\ \A a \in Expression :
       /\ Width(a) \in Nat
       /\ \A env \in Envs : Meaning(a, env) <= Highest(Width(a))
       /\ \A n \in 0..Highest(Width(a)) :
            /\ EqualTo(a, n) \in Condition /\ UpTo(a, n) \in Condition
            /\ \A env \in Envs : /\ Meaning(EqualTo(a, n), env) = 1 <=> Meaning(a, env) = n
                                 /\ Meaning(UpTo(a, n), env) = 1 <=> Meaning(a, env) <= n
       /\ \A n \in Nat : n < Width(a) =>
            /\ FitsIn(a, n) \in Condition
            /\ \A env \in Envs : Meaning(FitsIn(a, n), env) = 1 <=> Meaning(a, env) <= Highest(n)
  /\ \A n \in Nat : Highest(n) \in Nat
  /\ \A m, n \in Nat : m <= n => Highest(m) <= Highest(n)

\* An outcome leaves the caches right, and what it answers is in S.
Within(o, S) == CachesFine(o.ch) /\ o.ok \in BOOLEAN /\ (o.ok => o.val \in S)

LEMMA OkWithin ==
  ASSUME NEW c, CachesFine(c), NEW S, NEW v \in S, NEW o \in Ok(v, c)
  PROVE  Within(o, S)
PROOF
  <1>1. o.ok = TRUE /\ o.val = v /\ o.ch = c
    BY DEF Ok
  <1> QED BY <1>1 DEF Within

LEMMA FailsWithin ==
  ASSUME NEW c, CachesFine(c), NEW S, NEW o \in Fails(c)
  PROVE  Within(o, S)
PROOF
  <1>1. o.ok = FALSE /\ o.ch = c
    BY DEF Fails
  <1> QED BY <1>1 DEF Within

LEMMA AbortsWithin ==
  ASSUME NEW c, CachesFine(c), NEW S, NEW o \in Aborts(c)
  PROVE  Within(o, S)
BY FailedFine, FailsWithin DEF Aborts

LEMMA WithinPassed ==
  ASSUME NEW S, NEW R, NEW o, Within(o, S), ~o.ok
  PROVE  Within(o, R)
BY DEF Within

LEMMA RightWithin ==
  ASSUME NEW kind, NEW q, NEW objects, NEW o, Right(kind, q, objects, o),
         NEW S, \A v : Answers(kind, q, objects, v) => v \in S
  PROVE  Within(o, S)
BY DEF Right, Within

\* whether n passes a test that the numbers in T pass
Passes(n, T) == IF n \in T THEN TRUE ELSE FALSE

LEMMA PassesWithin ==
  ASSUME NEW o, NEW A \in BOOLEAN, NEW n, NEW T, A <=> n \in T, Within(o, {A})
  PROVE  Within(o, {Passes(n, T)})
PROOF
  <1>1. CASE A = TRUE
    <2>1. Passes(n, T) = A
      BY <1>1 DEF Passes
    <2> QED BY <2>1
  <1>2. CASE A = FALSE
    <2>1. Passes(n, T) = A
      BY <1>2 DEF Passes
    <2> QED BY <2>1
  <1> QED BY <1>1, <1>2

\* A condition that is a constant has its value.
LEMMA ConstantCondition ==
  ASSUME Evaluates, Negates, NEW q \in Queries("truth"), Constant(q.e)
  PROVE  Values(q.cs, q.e) = {ConstantValue(q.e)} /\ ConstantValue(q.e) \in {0, 1}
PROOF
  <1>1. Values(q.cs, q.e) \in {{0}, {1}, {0, 1}}
    BY AnswersInValues
  <1>2. \A env \in Envs : Meaning(q.e, env) = ConstantValue(q.e)
    BY QueryFacts DEF Negates
  <1>3. Values(q.cs, q.e) \subseteq {ConstantValue(q.e)}
    BY <1>2 DEF Values, Holding
  <1> QED BY <1>1, <1>3

LEMMA EvaluateRight ==
  ASSUME Evaluates, Negates, NEW ls, Promise(ls), NEW q \in Queries("validity"),
         NEW c, CachesFine(c), NEW o \in evaluate(ls, q, c)
  PROVE  Within(o, {Validity(Values(q.cs, q.e) = {1}, Values(q.cs, q.e) = {0})})
PROOF
  <1> DEFINE vals == Values(q.cs, q.e)
             v == Validity(vals = {1}, vals = {0})
  <1>1. q \in Queries("truth")
    BY QueryFacts
  <1>2. CASE Constant(q.e)
    <2>1. o \in Ok(Validity(ConstantValue(q.e) = 1, TRUE), c)
      BY <1>2 DEF evaluate
    <2>2. vals = {ConstantValue(q.e)} /\ ConstantValue(q.e) \in {0, 1}
      BY <1>1, <1>2, ConstantCondition
    <2> HIDE DEF vals
    <2>3. Validity(ConstantValue(q.e) = 1, TRUE) = v
      BY <2>2 DEF Validity
    <2> QED BY <2>1, <2>3, OkWithin DEF vals
  <1>3. CASE ~Constant(q.e)
    <2>1. o \in Ask(ls, "validity", q, FALSE, c)
      BY <1>3 DEF evaluate
    <2>2. Right("validity", q, FALSE, o)
      BY <2>1 DEF Promise, Kinds
    <2>3. \A w : Answers("validity", q, FALSE, w) => w \in {v}
      BY <1>1, AnswersInValues
    <2> HIDE DEF v
    <2>4. Within(o, {v})
      BY <2>2, <2>3, RightWithin
    <2> QED BY <2>4 DEF v
  <1> QED BY <1>2, <1>3

LEMMA MustBeTrueRight ==
  ASSUME Evaluates, Negates, NEW ls, Promise(ls), NEW q \in Queries("truth"),
         NEW c, CachesFine(c), NEW o \in mustBeTrue(ls, q, c)
  PROVE  Within(o, {Values(q.cs, q.e) = {1}})
PROOF
  <1> DEFINE vals == Values(q.cs, q.e)
  <1>1. CASE Constant(q.e)
    <2>1. o \in Ok(ConstantValue(q.e) = 1, c)
      BY <1>1 DEF mustBeTrue
    <2>2. vals = {ConstantValue(q.e)} /\ ConstantValue(q.e) \in {0, 1}
      BY <1>1, ConstantCondition
    <2> HIDE DEF vals
    <2>3. (ConstantValue(q.e) = 1) = (vals = {1})
      BY <2>2
    <2> QED BY <2>1, <2>3, OkWithin DEF vals
  <1>2. CASE ~Constant(q.e)
    <2>1. o \in Ask(ls, "truth", q, FALSE, c)
      BY <1>2 DEF mustBeTrue
    <2>2. Right("truth", q, FALSE, o)
      BY <2>1 DEF Promise, Kinds
    <2>3. \A w : Answers("truth", q, FALSE, w) => w \in {vals = {1}}
      BY AnswersInValues
    <2>4. Within(o, {vals = {1}})
      <3> HIDE DEF vals
      <3> QED BY <2>2, <2>3, RightWithin
    <2> QED BY <2>4
  <1> QED BY <1>1, <1>2

\* A condition that is surely false has no other value.
LEMMA SurelyFalse ==
  ASSUME Evaluates, Negates, NEW q \in Queries("truth")
  PROVE  Values(q.cs, Negation(q.e)) = {1} <=> 1 \notin Values(q.cs, q.e)
PROOF
  <1> DEFINE vals == Values(q.cs, q.e)
             neg == Values(q.cs, Negation(q.e))
  <1>1. vals \in {{0}, {1}, {0, 1}} /\ neg = {1 - v : v \in vals}
    BY AnswersInValues
  <1> HIDE DEF vals, neg
  <1>2. neg = {1} <=> 1 \notin vals
    <2>1. CASE vals = {0}
      <3>1. neg = {1}
        BY <1>1, <2>1
      <3> QED BY <2>1, <3>1
    <2>2. CASE 1 \in vals
      <3>1. 0 \in neg
        BY <1>1, <2>2
      <3> QED BY <2>2, <3>1
    <2> QED BY <1>1, <2>1, <2>2
  <1> QED BY <1>2 DEF vals, neg

\* What is not surely false may be true.
LEMMA NotFalseRight ==
  ASSUME NEW vals, NEW neg, neg = {1} <=> 1 \notin vals,
         NEW x, Within(x, {neg = {1}}), NEW o \in IF x.ok THEN Ok(~x.val, x.ch) ELSE {x}
  PROVE  Within(o, {1 \in vals})
PROOF
  <1>1. CASE ~x.ok
    BY <1>1, WithinPassed
  <1>2. CASE x.ok
    <2>1. CachesFine(x.ch) /\ x.val = (neg = {1})
      BY <1>2 DEF Within
    <2>2. o \in Ok(~x.val, x.ch)
      BY <1>2
    <2>3. x.val = TRUE \/ x.val = FALSE
      BY <2>1
    <2>4. CASE x.val = TRUE
      <3>1. (1 \in vals) = FALSE
        <4>1. neg = {1}
          BY <2>1, <2>4
        <4>2. ~(1 \in vals)
          BY <4>1
        <4> QED BY <4>2
      <3>2. (~x.val) = FALSE
        BY <2>4
      <3>3. o \in Ok(FALSE, x.ch)
        BY <2>2, <3>2
      <3> QED BY <2>1, <3>1, <3>3, OkWithin
    <2>5. CASE x.val = FALSE
      <3>1. (1 \in vals) = TRUE
        BY <2>1, <2>5
      <3>2. (~x.val) = TRUE
        BY <2>5
      <3>3. o \in Ok(TRUE, x.ch)
        BY <2>2, <3>2
      <3> QED BY <2>1, <3>1, <3>3, OkWithin
    <2> QED BY <2>3, <2>4, <2>5
  <1> QED BY <1>1, <1>2

LEMMA MayBeTrueRight ==
  ASSUME Evaluates, Negates, NEW ls, Promise(ls), NEW q \in Queries("truth"),
         NEW c, CachesFine(c), NEW o \in mayBeTrue(ls, q, c)
  PROVE  Within(o, {1 \in Values(q.cs, q.e)})
PROOF
  <1> DEFINE vals == Values(q.cs, q.e)
             neg == Values(q.cs, Negation(q.e))
  <1>1. negateExpr(q) \in Queries("truth") /\ negateExpr(q).cs = q.cs
        /\ negateExpr(q).e = Negation(q.e)
    BY QueryFacts
  <1>2. PICK x \in mustBeTrue(ls, negateExpr(q), c) : o \in IF x.ok THEN Ok(~x.val, x.ch) ELSE {x}
    BY DEF mayBeTrue, Bind
  <1>3. Within(x, {neg = {1}})
    BY <1>1, MustBeTrueRight
  <1>4. neg = {1} <=> 1 \notin vals
    BY SurelyFalse
  <1> HIDE DEF vals, neg
  <1>5. Within(o, {1 \in vals})
    BY <1>2, <1>3, <1>4, NotFalseRight
  <1> QED BY <1>5 DEF vals

LEMMA GetValueRight ==
  ASSUME Evaluates, Negates, NEW ls, Promise(ls), NEW q \in Queries("value"),
         NEW c, CachesFine(c), NEW o \in getValue(ls, q, c)
  PROVE  Within(o, Values(q.cs, q.e))
PROOF
  <1>1. CASE Constant(q.e)
    <2>1. o \in Ok(ConstantValue(q.e), c)
      BY <1>1 DEF getValue
    <2>2. PICK env \in Holding(q.cs) : env \in Envs
      BY DEF Queries, Holding
    <2>3. Meaning(q.e, env) = ConstantValue(q.e)
      BY <1>1, <2>2, QueryFacts DEF Negates
    <2>4. ConstantValue(q.e) \in Values(q.cs, q.e)
      BY <2>2, <2>3 DEF Values
    <2> QED BY <2>1, <2>4, OkWithin
  <1>2. CASE ~Constant(q.e)
    <2>1. o \in Ask(ls, "value", q, FALSE, c)
      BY <1>2 DEF getValue
    <2>2. Right("value", q, FALSE, o)
      BY <2>1 DEF Promise, Kinds
    <2>3. \A v : Answers("value", q, FALSE, v) => v \in Values(q.cs, q.e)
      BY DEF Answers, Values
    <2> QED BY <2>2, <2>3, RightWithin
  <1> QED BY <1>1, <1>2

LEMMA GetInitialValuesRight ==
  ASSUME NEW ls, Promise(ls), NEW q \in Queries("initial"),
         NEW c, CachesFine(c), NEW o \in getInitialValues(ls, q, c)
  PROVE  Within(o, Models(q))
PROOF
  <1>1. PICK x \in Ask(ls, "initial", q, TRUE, c) :
          o \in IF x.ok THEN IF x.val = NoSolution THEN Fails(x.ch) ELSE {x} ELSE {x}
    BY DEF getInitialValues, Bind
  <1>2. Right("initial", q, TRUE, x)
    BY DEF Promise, Kinds
  <1>3. CachesFine(x.ch)
    BY <1>2 DEF Right
  <1>4. CASE o \in Fails(x.ch)
    BY <1>3, <1>4, FailsWithin
  <1>5. CASE o = x /\ (x.ok => x.val # NoSolution)
    BY <1>2, <1>5 DEF Right, Within, Answers
  <1> QED BY <1>1, <1>4, <1>5

(***************************************************************************)
(* The binary searches of getRange                                         *)
(***************************************************************************)

distance(lo, hi) == IF lo < hi THEN hi - lo ELSE 0

\* every outcome so far, and what one more step makes of it
Onward(ls, q, test, outs) == UNION {IF o.ok THEN Halve(ls, q, test, o.val, o.ch) ELSE {o} : o \in outs}
\* what the last range has come down to
Found(outs) == UNION {IF o.ok THEN Ok(o.val.lo, o.ch) ELSE {o} : o \in outs}

\* The recursion of a search has a solution.
LEMMA SearchSteps ==
  ASSUME NEW ls, NEW q, NEW test, NEW lo \in Int, NEW hi \in Int, NEW c
  PROVE  \E at : /\ Search(ls, q, test, lo, hi, c) = Found(at[distance(lo, hi)])
                 /\ at[0] = Ok([lo |-> lo, hi |-> hi], c)
                 /\ \A n \in 1..distance(lo, hi) :
                      at[n] = Onward(ls, q, test, at[n - 1])
PROOF
  <1> DEFINE N == distance(lo, hi)
             first == Ok([lo |-> lo, hi |-> hi], c)
             Step(x, n) == Onward(ls, q, test, x)
             Solved(f, k) == [n \in 0..k |-> IF n = 0 THEN first ELSE Step(f[n - 1], n)]
             S == {k \in Nat : \E f : f = Solved(f, k)}
             at == CHOOSE f : f = Solved(f, N)
  <1>1. Search(ls, q, test, lo, hi, c) = Found(at[N])
    BY DEF Search, Halved, Bind, Onward, Found, distance
  <1> HIDE DEF first, Step, at
  <1>2. \A f, k : /\ Solved(f, k) = [n \in 0..k |-> Solved(f, k)[n]]
                  /\ \A n \in 0..k : Solved(f, k)[n] = IF n = 0 THEN first ELSE Step(f[n - 1], n)
    OBVIOUS
  <1> HIDE DEF Solved
  <1>3. 0 \in S
    <2> DEFINE f == [n \in 0..0 |-> first]
    <2>1. f = [n \in 0..0 |-> f[n]] /\ \A n \in 0..0 : f[n] = Solved(f, 0)[n]
      BY <1>2
    <2> HIDE DEF f
    <2>2. f = Solved(f, 0)
      BY <1>2, <2>1, SameFunction
    <2> QED BY <2>2
  <1>4. ASSUME NEW k \in Nat, k \in S PROVE k + 1 \in S
    <2>1. PICK f : f = Solved(f, k)
      BY <1>4
    <2> DEFINE g == [n \in 0..k + 1 |-> IF n = k + 1 THEN Step(f[k], n) ELSE f[n]]
    <2>2. ASSUME NEW n \in 0..k + 1 PROVE g[n] = Solved(g, k + 1)[n]
      <3>1. CASE n = k + 1 /\ n # 0
        <4>1. g[n] = Step(f[k], n) /\ g[n - 1] = f[k]
          BY <3>1
        <4> HIDE DEF g
        <4> QED BY <1>2, <3>1, <4>1
      <3>2. CASE n \in 1..k
        <4>1. g[n] = f[n] /\ g[n - 1] = f[n - 1] /\ n # 0
          BY <3>2
        <4> HIDE DEF g
        <4> QED BY <1>2, <2>1, <3>2, <4>1
      <3>3. CASE n = 0
        <4>1. g[n] = f[n]
          BY <3>3
        <4> HIDE DEF g
        <4> QED BY <1>2, <2>1, <3>3, <4>1
      <3> QED BY <3>1, <3>2, <3>3
    <2>3. g = [n \in 0..k + 1 |-> g[n]]
      OBVIOUS
    <2> HIDE DEF g
    <2>4. g = Solved(g, k + 1)
      BY <1>2, <2>2, <2>3, SameFunction
    <2> QED BY <2>4
  <1>0. N \in Nat
    BY DEF distance
  <1> HIDE DEF N
  <1>5. N \in S
    <2>1. Nat \subseteq S
      <3> HIDE DEF S
      <3> QED BY <1>3, <1>4, NatSetInduction
    <2> QED BY <1>0, <2>1
  <1>6. at = Solved(at, N)
    BY <1>5 DEF at
  <1>7. at[0] = first /\ \A n \in 1..N : at[n] = Step(at[n - 1], n)
    BY <1>0, <1>2, <1>6
  <1> QED BY <1>1, <1>7 DEF first, Step, N

\* A test of a search tells of the numbers in its range whether they are in T.
Tests(ls, q, test, T, lo, hi) ==
  \A n \in lo..hi - 1 : \A c : CachesFine(c) => \A o \in Try(ls, q, test, n, c) : Within(o, {Passes(n, T)})

\* The range of a search that has left at most so much of it: its upper end
\* passes, what is below does not.
Narrowed(T, lo, hi, most) ==
  {s \in [lo : Int, hi : Int] :
     /\ lo <= s.lo /\ s.lo <= s.hi /\ s.hi <= hi /\ s.hi \in T
     /\ s.lo = lo \/ (s.lo - 1) \notin T
     /\ s.hi - s.lo <= most}

LEMMA HalveRight ==
  ASSUME NEW ls, NEW q, NEW test, NEW T, NEW lo \in Int, NEW hi \in Int,
         Tests(ls, q, test, T, lo, hi), NEW most \in Nat, NEW s \in Narrowed(T, lo, hi, most + 1),
         NEW c, CachesFine(c), NEW o \in Halve(ls, q, test, s, c)
  PROVE  Within(o, Narrowed(T, lo, hi, most))
PROOF
  <1> DEFINE mid == s.lo + (s.hi - s.lo) \div 2
             half(x) == IF x.val THEN [s EXCEPT !.hi = mid] ELSE [s EXCEPT !.lo = mid + 1]
  <1>1. /\ s \in [lo : Int, hi : Int] /\ s.lo \in Int /\ s.hi \in Int
        /\ lo <= s.lo /\ s.lo <= s.hi /\ s.hi <= hi /\ s.hi \in T
        /\ s.lo = lo \/ (s.lo - 1) \notin T
        /\ s.hi - s.lo <= most + 1
    BY DEF Narrowed
  <1>2. CASE s.lo >= s.hi
    <2>1. o \in Ok(s, c)
      BY <1>2 DEF Halve
    <2>2. s \in Narrowed(T, lo, hi, most)
      BY <1>1, <1>2 DEF Narrowed
    <2> QED BY <2>1, <2>2, OkWithin
  <1>3. CASE ~(s.lo >= s.hi)
    <2>1. PICK x \in Try(ls, q, test, mid, c) :
            o \in IF ~x.ok THEN Aborts(x.ch) ELSE Ok(half(x), x.ch)
      BY <1>3 DEF Halve
    <2>2. mid \in Int /\ s.lo <= mid /\ mid < s.hi
      <3> DEFINE w == s.hi - s.lo
      <3>1. w \in Int /\ w >= 1
        BY <1>1, <1>3
      <3> HIDE DEF w
      <3>2. w \div 2 \in Int /\ 0 <= w \div 2 /\ w \div 2 < w
        BY <3>1
      <3> QED BY <1>1, <3>2 DEF w
    <2>3. Within(x, {Passes(mid, T)})
      BY <1>1, <2>1, <2>2 DEF Tests
    <2> HIDE DEF mid
    <2>4. CASE ~x.ok
      BY <2>1, <2>3, <2>4, AbortsWithin DEF Within
    <2>5. CASE x.ok
      <3>1. CachesFine(x.ch) /\ x.val = Passes(mid, T) /\ o \in Ok(half(x), x.ch)
        BY <2>1, <2>3, <2>5 DEF Within
      <3>2. CASE mid \in T
        <4>1. half(x) = [s EXCEPT !.hi = mid]
          BY <3>1, <3>2 DEF Passes
        <4>2. half(x) \in [lo : Int, hi : Int] /\ half(x).lo = s.lo /\ half(x).hi = mid
          BY <1>1, <2>2, <4>1
        <4> HIDE DEF half
        <4>3. half(x) \in Narrowed(T, lo, hi, most)
          BY <1>1, <2>2, <3>2, <4>2 DEF Narrowed
        <4> QED BY <3>1, <4>3, OkWithin
      <3>3. CASE mid \notin T
        <4>1. half(x) = [s EXCEPT !.lo = mid + 1]
          BY <3>1, <3>3 DEF Passes
        <4>2. half(x) \in [lo : Int, hi : Int] /\ half(x).lo = mid + 1 /\ half(x).hi = s.hi
          BY <1>1, <2>2, <4>1
        <4> HIDE DEF half
        <4>3. half(x) \in Narrowed(T, lo, hi, most)
          <5>1. (mid + 1) - 1 = mid /\ lo <= mid + 1 /\ mid + 1 <= s.hi /\ s.hi - (mid + 1) <= most
            BY <1>1, <2>2
          <5> QED BY <1>1, <3>3, <4>2, <5>1 DEF Narrowed
        <4> QED BY <3>1, <4>3, OkWithin
      <3> QED BY <3>2, <3>3
    <2> QED BY <2>3, <2>4, <2>5 DEF Within
  <1> QED BY <1>2, <1>3

\* A search finds the least number of its range that passes.
LEMMA SearchRangeRight ==
  ASSUME NEW ls, NEW q, NEW test, NEW T, NEW lo \in Int, NEW hi \in Int, lo <= hi, hi \in T,
         Tests(ls, q, test, T, lo, hi),
         NEW c, CachesFine(c), NEW o \in Search(ls, q, test, lo, hi, c)
  PROVE  Within(o, {n \in lo..hi : n \in T /\ (n = lo \/ (n - 1) \notin T)})
PROOF
  <1> DEFINE N == distance(lo, hi)
  <1>1. PICK at : /\ Search(ls, q, test, lo, hi, c) = Found(at[N])
                  /\ at[0] = Ok([lo |-> lo, hi |-> hi], c)
                  /\ \A n \in 1..N : at[n] = Onward(ls, q, test, at[n - 1])
    BY SearchSteps
  <1>2. N \in Nat /\ N = hi - lo
    BY DEF distance
  <1> HIDE DEF N
  <1> DEFINE S == {k \in Nat : k <= N => \A y \in at[k] : Within(y, Narrowed(T, lo, hi, N - k))}
  <1>3. 0 \in S
    <2> SUFFICES ASSUME NEW y \in at[0] PROVE Within(y, Narrowed(T, lo, hi, N - 0))
      OBVIOUS
    <2>1. [lo |-> lo, hi |-> hi] \in Narrowed(T, lo, hi, N - 0)
      BY <1>2 DEF Narrowed
    <2> QED BY <1>1, <2>1, OkWithin
  <1>4. ASSUME NEW k \in Nat, k \in S PROVE k + 1 \in S
    <2> SUFFICES ASSUME k + 1 <= N, NEW y \in at[k + 1]
                 PROVE  Within(y, Narrowed(T, lo, hi, N - (k + 1)))
      OBVIOUS
    <2> DEFINE most == N - (k + 1)
    <2>1. most \in Nat /\ N - k = most + 1 /\ k + 1 \in 1..N /\ (k + 1) - 1 = k
      BY <1>2
    <2> HIDE DEF most
    <2>2. \A x \in at[k] : Within(x, Narrowed(T, lo, hi, most + 1))
      BY <1>2, <1>4, <2>1
    <2>3. at[k + 1] = Onward(ls, q, test, at[k])
      BY <1>1, <2>1
    <2>4. PICK x \in at[k] : y \in IF x.ok THEN Halve(ls, q, test, x.val, x.ch) ELSE {x}
      BY <2>3 DEF Onward
    <2>5. CASE ~x.ok
      <3>1. y = x /\ Within(x, Narrowed(T, lo, hi, most + 1))
        BY <2>2, <2>4, <2>5
      <3> QED BY <2>5, <3>1, WithinPassed
    <2>6. CASE x.ok
      <3>1. x.val \in Narrowed(T, lo, hi, most + 1) /\ CachesFine(x.ch)
        BY <2>2, <2>6 DEF Within
      <3>2. y \in Halve(ls, q, test, x.val, x.ch)
        BY <2>4, <2>6
      <3>3. Within(y, Narrowed(T, lo, hi, most))
        BY <2>1, <3>1, <3>2, HalveRight
      <3> QED BY <3>3 DEF most
    <2> QED BY <2>2, <2>5, <2>6 DEF Within
  <1>5. \A y \in at[N] : Within(y, Narrowed(T, lo, hi, 0))
    <2>1. N \in S
      <3> HIDE DEF S
      <3> QED BY <1>2, <1>3, <1>4, NatSetInduction
    <2>2. N - N = 0
      BY <1>2
    <2> QED BY <1>2, <2>1, <2>2
  <1>6. PICK y \in at[N] : o \in IF y.ok THEN Ok(y.val.lo, y.ch) ELSE {y}
    BY <1>1 DEF Found
  <1>7. Within(y, Narrowed(T, lo, hi, 0))
    BY <1>5
  <1>8. CASE ~y.ok
    <2>1. o = y
      BY <1>6, <1>8
    <2> QED BY <1>7, <1>8, <2>1, WithinPassed
  <1>9. CASE y.ok
    <2>1. CachesFine(y.ch) /\ y.val \in Narrowed(T, lo, hi, 0) /\ o \in Ok(y.val.lo, y.ch)
      BY <1>6, <1>7, <1>9 DEF Within
    <2>2. /\ y.val.lo \in Int /\ y.val.hi \in Int
          /\ lo <= y.val.lo /\ y.val.lo <= y.val.hi /\ y.val.hi <= hi /\ y.val.hi \in T
          /\ y.val.lo = lo \/ (y.val.lo - 1) \notin T
          /\ y.val.hi - y.val.lo <= 0
      BY <2>1 DEF Narrowed
    <2>3. y.val.lo = y.val.hi
      BY <2>2
    <2>4. y.val.lo \in {n \in lo..hi : n \in T /\ (n = lo \/ (n - 1) \notin T)}
      BY <2>2, <2>3
    <2> QED BY <2>1, <2>4, OkWithin
  <1> QED BY <1>7, <1>8, <1>9 DEF Within

\* the numbers that pass a test of getRange
Passing(q, test) ==
  LET vals == Values(q.cs, q.e)
  IN  CASE test = "useful" -> {n \in Nat : \A v \in vals : v <= Highest(n)}
        [] test = "mayBeUpTo" -> {n \in Nat : \E v \in vals : v <= n}
        [] test = "mustBeUpTo" -> {n \in Nat : \A v \in vals : v <= n}


\* What is known of the values of a condition that compares
LEMMA ComparedValues ==
  ASSUME Evaluates, Negates, NEW q \in Queries("value"), NEW a \in Condition, NEW P \in SUBSET Nat,
         \A env \in Envs : Meaning(a, env) = 1 <=> Meaning(q.e, env) \in P
  PROVE  /\ Query(q.cs, a) \in Queries("truth")
         /\ Query(q.cs, a).cs = q.cs /\ Query(q.cs, a).e = a
         /\ Values(q.cs, a) = {1} <=> \A v \in Values(q.cs, q.e) : v \in P
         /\ 1 \in Values(q.cs, a) <=> \E v \in Values(q.cs, q.e) : v \in P
PROOF
  <1>1. q.cs \in Seq(Condition) /\ Holding(q.cs) # {} /\ Holding(q.cs) \subseteq Envs
    BY DEF Queries, Holding
  <1>2. Query(q.cs, a) \in Queries("truth") /\ Query(q.cs, a).cs = q.cs /\ Query(q.cs, a).e = a
    BY <1>1 DEF Query, Queries, Condition
  <1>3. \A env \in Holding(q.cs) : Meaning(a, env) \in {0, 1}
    BY <1>1 DEF Evaluates
  <1> QED BY <1>1, <1>2, <1>3 DEF Values

LEMMA TryRight ==
  ASSUME Evaluates, Negates, Compares, NEW ls, Promise(ls), NEW q \in Queries("value"),
         NEW test \in {"useful", "mayBeUpTo", "mustBeUpTo"}, NEW n \in Nat,
         test = "useful" => n < Width(q.e),
         test # "useful" => n <= Highest(Width(q.e)),
         NEW c, CachesFine(c), NEW o \in Try(ls, q, test, n, c)
  PROVE  Within(o, {Passes(n, Passing(q, test))})
PROOF
  <1> DEFINE vals == Values(q.cs, q.e)
  <1>1. q.e \in Expression /\ Width(q.e) \in Nat /\ Highest(Width(q.e)) \in Nat
    BY DEF Queries, Compares
  <1>2. CASE test = "useful"
    <2> DEFINE a == FitsIn(q.e, n)
               P == {v \in Nat : v <= Highest(n)}
    <2>1. a \in Condition /\ \A env \in Envs : Meaning(a, env) = 1 <=> Meaning(q.e, env) \in P
      BY <1>1, <1>2 DEF Compares, Evaluates
    <2> HIDE DEF a
    <2>2. /\ Query(q.cs, a) \in Queries("truth")
          /\ Query(q.cs, a).cs = q.cs /\ Query(q.cs, a).e = a
          /\ Values(q.cs, a) = {1} <=> \A v \in vals : v \in P
      <3> HIDE DEF P
      <3>1. P \in SUBSET Nat
        BY DEF P
      <3> QED BY <2>1, <3>1, ComparedValues
    <2>3. o \in mustBeTrue(ls, Query(q.cs, a), c)
      BY <1>2 DEF Try, useful, withExpr, a
    <2>4. Within(o, {Values(q.cs, a) = {1}})
      BY <2>2, <2>3, MustBeTrueRight
    <2>5. vals \subseteq Nat
      BY <1>1 DEF Values, Holding, Evaluates
    <2>6. n \in Passing(q, test) <=> Values(q.cs, a) = {1}
      BY <1>2, <2>2, <2>5 DEF Passing
    <2> DEFINE A == Values(q.cs, a) = {1}
    <2>7. A \in BOOLEAN /\ (A <=> n \in Passing(q, test)) /\ Within(o, {A})
      BY <2>4, <2>6
    <2> HIDE DEF A
    <2> QED BY <2>7, PassesWithin
  <1>3. CASE test = "mustBeUpTo"
    <2> DEFINE a == UpTo(q.e, n)
               P == {v \in Nat : v <= n}
    <2>1. a \in Condition /\ \A env \in Envs : Meaning(a, env) = 1 <=> Meaning(q.e, env) \in P
      BY <1>1, <1>3 DEF Compares, Evaluates
    <2> HIDE DEF a
    <2>2. /\ Query(q.cs, a) \in Queries("truth")
          /\ Query(q.cs, a).cs = q.cs /\ Query(q.cs, a).e = a
          /\ Values(q.cs, a) = {1} <=> \A v \in vals : v \in P
      <3> HIDE DEF P
      <3>1. P \in SUBSET Nat
        BY DEF P
      <3> QED BY <2>1, <3>1, ComparedValues
    <2>3. o \in mustBeTrue(ls, Query(q.cs, a), c)
      BY <1>3 DEF Try, mustBeUpTo, withExpr, a
    <2>4. Within(o, {Values(q.cs, a) = {1}})
      BY <2>2, <2>3, MustBeTrueRight
    <2>5. vals \subseteq Nat
      BY <1>1 DEF Values, Holding, Evaluates
    <2>6. n \in Passing(q, test) <=> Values(q.cs, a) = {1}
      BY <1>3, <2>2, <2>5 DEF Passing
    <2> DEFINE A == Values(q.cs, a) = {1}
    <2>7. A \in BOOLEAN /\ (A <=> n \in Passing(q, test)) /\ Within(o, {A})
      BY <2>4, <2>6
    <2> HIDE DEF A
    <2> QED BY <2>7, PassesWithin
  <1>4. CASE test = "mayBeUpTo"
    <2> DEFINE a == UpTo(q.e, n)
               P == {v \in Nat : v <= n}
    <2>1. a \in Condition /\ \A env \in Envs : Meaning(a, env) = 1 <=> Meaning(q.e, env) \in P
      BY <1>1, <1>4 DEF Compares, Evaluates
    <2> HIDE DEF a
    <2>2. /\ Query(q.cs, a) \in Queries("truth")
          /\ Query(q.cs, a).cs = q.cs /\ Query(q.cs, a).e = a
          /\ 1 \in Values(q.cs, a) <=> \E v \in vals : v \in P
      <3> HIDE DEF P
      <3>1. P \in SUBSET Nat
        BY DEF P
      <3> QED BY <2>1, <3>1, ComparedValues
    <2>3. o \in mayBeTrue(ls, Query(q.cs, a), c)
      BY <1>4 DEF Try, mayBeUpTo, withExpr, a
    <2>4. Within(o, {1 \in Values(q.cs, a)})
      BY <2>2, <2>3, MayBeTrueRight
    <2>5. vals \subseteq Nat
      BY <1>1 DEF Values, Holding, Evaluates
    <2>6. n \in Passing(q, test) <=> 1 \in Values(q.cs, a)
      BY <1>4, <2>2, <2>5 DEF Passing
    <2> DEFINE A == 1 \in Values(q.cs, a)
    <2>7. A \in BOOLEAN /\ (A <=> n \in Passing(q, test)) /\ Within(o, {A})
      BY <2>4, <2>6
    <2> HIDE DEF A
    <2> QED BY <2>7, PassesWithin
  <1> QED BY <1>2, <1>3, <1>4

LEMMA WithinMore ==
  ASSUME NEW S, NEW R, S \subseteq R, NEW o, Within(o, S)
  PROVE  Within(o, R)
BY DEF Within

\* The values in question are numbers of the expression's width.
LEMMA ValuesBounded ==
  ASSUME Evaluates, Compares, NEW q \in Queries("value")
  PROVE  /\ q.e \in Expression /\ Width(q.e) \in Nat /\ Highest(Width(q.e)) \in Nat
         /\ Values(q.cs, q.e) \subseteq Nat /\ Values(q.cs, q.e) # {}
         /\ \A v \in Values(q.cs, q.e) : v <= Highest(Width(q.e))
PROOF
  <1>1. q.e \in Expression /\ Holding(q.cs) # {} /\ Holding(q.cs) \subseteq Envs
    BY DEF Queries, Holding
  <1>2. \A env \in Envs : Meaning(q.e, env) \in Nat /\ Meaning(q.e, env) <= Highest(Width(q.e))
    BY <1>1 DEF Evaluates, Compares
  <1>3. Width(q.e) \in Nat /\ Highest(Width(q.e)) \in Nat
    BY <1>1 DEF Compares
  <1> QED BY <1>1, <1>2, <1>3 DEF Values

\* so many bits are enough for every value
Enough(q) == {n \in 0..Width(q.e) : \A v \in Values(q.cs, q.e) : v <= Highest(n)}

LEMMA BitsRight ==
  ASSUME Evaluates, Negates, Compares, NEW ls, Promise(ls), NEW q \in Queries("value"),
         NEW c, CachesFine(c), NEW o \in Search(ls, q, "useful", 0, Width(q.e), c)
  PROVE  Within(o, Enough(q))
PROOF
  <1> DEFINE T == Passing(q, "useful")
             W == Width(q.e)
  <1>1. W \in Nat /\ W \in Int /\ 0 <= W /\ \A v \in Values(q.cs, q.e) : v <= Highest(W)
    BY ValuesBounded
  <1>2. T = {n \in Nat : \A v \in Values(q.cs, q.e) : v <= Highest(n)}
    BY DEF Passing
  <1>3. W \in T
    BY <1>1, <1>2
  <1>4. Tests(ls, q, "useful", T, 0, W)
    <2> SUFFICES ASSUME NEW n \in 0..W - 1, NEW d, CachesFine(d),
                        NEW x \in Try(ls, q, "useful", n, d)
                 PROVE  Within(x, {Passes(n, T)})
      BY DEF Tests
    <2>1. n \in Nat /\ n < Width(q.e)
      BY <1>1
    <2> QED BY <2>1, TryRight
  <1>5. Within(o, {n \in 0..W : n \in T /\ (n = 0 \/ (n - 1) \notin T)})
    <2> HIDE DEF T
    <2> QED BY <1>1, <1>3, <1>4, SearchRangeRight
  <1>6. {n \in 0..W : n \in T /\ (n = 0 \/ (n - 1) \notin T)} \subseteq Enough(q)
    BY <1>2 DEF Enough
  <1> QED BY <1>5, <1>6, WithinMore

\* A test of a number up to the most that the bits can be
LEMMA UpToTests ==
  ASSUME Evaluates, Negates, Compares, NEW ls, Promise(ls), NEW q \in Queries("value"),
         NEW b \in Enough(q), NEW test \in {"mayBeUpTo", "mustBeUpTo"}, NEW lo \in Nat
  PROVE  /\ Highest(b) \in Nat /\ \A v \in Values(q.cs, q.e) : v <= Highest(b)
         /\ Tests(ls, q, test, Passing(q, test), lo, Highest(b))
PROOF
  <1>1. /\ b \in Nat /\ b <= Width(q.e) /\ Width(q.e) \in Nat
        /\ \A v \in Values(q.cs, q.e) : v <= Highest(b)
    BY ValuesBounded DEF Enough
  <1>2. Highest(b) \in Nat /\ Highest(Width(q.e)) \in Nat /\ Highest(b) <= Highest(Width(q.e))
    BY <1>1 DEF Compares
  <1> SUFFICES ASSUME NEW n \in lo..Highest(b) - 1, NEW d, CachesFine(d),
                      NEW x \in Try(ls, q, test, n, d)
               PROVE  Within(x, {Passes(n, Passing(q, test))})
    BY <1>1, <1>2 DEF Tests
  <1>3. n \in Nat /\ n <= Highest(Width(q.e)) /\ test # "useful"
    BY <1>2
  <1> QED BY <1>3, TryRight

LEMMA LeastRight ==
  ASSUME Evaluates, Negates, Compares, NEW ls, Promise(ls), NEW q \in Queries("value"),
         NEW b \in Enough(q), NEW c, CachesFine(c),
         NEW o \in Search(ls, q, "mayBeUpTo", 0, Highest(b), c)
  PROVE  Within(o, {n \in Values(q.cs, q.e) : \A v \in Values(q.cs, q.e) : n <= v})
PROOF
  <1> DEFINE T == Passing(q, "mayBeUpTo")
             vals == Values(q.cs, q.e)
             hi == Highest(b)
  <1>1. vals \subseteq Nat /\ vals # {}
    BY ValuesBounded
  <1>2. hi \in Nat /\ (\A v \in vals : v <= hi) /\ Tests(ls, q, "mayBeUpTo", T, 0, hi)
    BY UpToTests
  <1>3. T = {n \in Nat : \E v \in vals : v <= n}
    BY DEF Passing
  <1> HIDE DEF T, vals, hi
  <1>4. hi \in T /\ hi \in Int /\ 0 <= hi
    <2>1. PICK v \in vals : v <= hi
      BY <1>1, <1>2
    <2>2. hi \in T
      BY <1>2, <1>3, <2>1
    <2> QED BY <1>2, <2>2
  <1>5. Within(o, {n \in 0..hi : n \in T /\ (n = 0 \/ (n - 1) \notin T)})
    BY <1>2, <1>4, SearchRangeRight DEF hi
  <1>6. ASSUME NEW n \in 0..hi, n \in T, n = 0 \/ (n - 1) \notin T
        PROVE  n \in {m \in vals : \A v \in vals : m <= v}
    <2>1. PICK v \in vals : v <= n
      BY <1>3, <1>6
    <2>2. \A w \in vals : n <= w
      <3>1. CASE n = 0
        BY <1>1, <3>1
      <3>2. CASE n # 0
        <4>1. n - 1 \in Nat /\ (n - 1) \notin T
          BY <1>2, <1>6, <3>2
        <4>2. \A w \in vals : ~(w <= n - 1)
          BY <1>3, <4>1
        <4> QED BY <1>1, <1>2, <4>2
      <3> QED BY <3>1, <3>2
    <2>3. v = n
      BY <1>1, <1>2, <2>1, <2>2
    <2> QED BY <2>1, <2>2, <2>3
  <1>7. {n \in 0..hi : n \in T /\ (n = 0 \/ (n - 1) \notin T)}
          \subseteq {n \in vals : \A v \in vals : n <= v}
    BY <1>6
  <1> QED BY <1>5, <1>7, WithinMore DEF vals

\* the exact range of some values
Ranges(vals) == {r \in vals \X vals : \A v \in vals : r[1] <= v /\ v <= r[2]}

LEMMA HighestRight ==
  ASSUME Evaluates, Negates, Compares, NEW ls, Promise(ls), NEW q \in Queries("value"),
         NEW b \in Enough(q), NEW c, CachesFine(c),
         NEW least \in Values(q.cs, q.e), \A v \in Values(q.cs, q.e) : least <= v,
         NEW o \in highest(ls, q, least, b, c)
  PROVE  Within(o, Ranges(Values(q.cs, q.e)))
PROOF
  <1> DEFINE T == Passing(q, "mustBeUpTo")
             vals == Values(q.cs, q.e)
             hi == Highest(b)
  <1>1. vals \subseteq Nat /\ vals # {}
    BY ValuesBounded
  <1>2. hi \in Nat /\ (\A v \in vals : v <= hi) /\ Tests(ls, q, "mustBeUpTo", T, least, hi)
    BY <1>1, UpToTests
  <1>3. T = {n \in Nat : \A v \in vals : v <= n}
    BY DEF Passing
  <1>4. PICK x \in Search(ls, q, "mustBeUpTo", least, hi, c) :
          o \in IF x.ok THEN Ok(<<least, x.val>>, x.ch) ELSE {x}
    BY DEF highest, Bind
  <1>5. least \in vals /\ \A v \in vals : least <= v
    OBVIOUS
  <1> HIDE DEF T, vals, hi
  <1>6. hi \in T /\ hi \in Int /\ least \in Int /\ least <= hi /\ least \in Nat
    BY <1>1, <1>2, <1>3, <1>5
  <1>7. Within(x, {n \in least..hi : n \in T /\ (n = least \/ (n - 1) \notin T)})
    BY <1>2, <1>4, <1>6, SearchRangeRight
  <1>8. ASSUME NEW n \in least..hi, n \in T, n = least \/ (n - 1) \notin T
        PROVE  n \in vals /\ \A v \in vals : v <= n
    <2>1. \A v \in vals : v <= n
      BY <1>3, <1>8
    <2>2. CASE n = least
      BY <1>5, <2>1, <2>2
    <2>3. CASE n # least
      <3>1. n - 1 \in Nat /\ (n - 1) \notin T /\ n \in Nat
        BY <1>2, <1>6, <1>8, <2>3
      <3>2. PICK v \in vals : ~(v <= n - 1)
        BY <1>3, <3>1
      <3>3. v = n
        BY <1>1, <2>1, <3>1, <3>2
      <3> QED BY <2>1, <3>2, <3>3
    <2> QED BY <2>2, <2>3
  <1>9. CASE ~x.ok
    BY <1>4, <1>7, <1>9, WithinPassed
  <1>10. CASE x.ok
    <2>1. CachesFine(x.ch) /\ x.val \in vals /\ \A v \in vals : v <= x.val
      BY <1>7, <1>8, <1>10 DEF Within
    <2>2. <<least, x.val>> \in Ranges(vals)
      BY <1>5, <2>1 DEF Ranges
    <2>3. o \in Ok(<<least, x.val>>, x.ch)
      BY <1>4, <1>10
    <2> QED BY <2>1, <2>2, <2>3, OkWithin DEF vals
  <1> QED BY <1>9, <1>10 DEF vals

\* evaluate's answer as a range
RangeOfTruth(v) == [True |-> <<1, 1>>, False |-> <<0, 0>>, Unknown |-> <<0, 1>>][v]

LEMMA GetRangeRight ==
  ASSUME Evaluates, Negates, Compares, NEW ls, Promise(ls), NEW q \in Queries("value"),
         NEW c, CachesFine(c), NEW o \in getRange(ls, q, c)
  PROVE  Within(o, Ranges(Values(q.cs, q.e)))
PROOF
  <1> DEFINE vals == Values(q.cs, q.e)
  <1>1. /\ vals \subseteq Nat /\ vals # {} /\ q.e \in Expression /\ Width(q.e) \in Nat
    BY ValuesBounded
  <1>2. CASE Width(q.e) = 1
    <2>1. q \in Queries("validity") /\ q \in Queries("truth")
      BY <1>1, <1>2 DEF Queries, Condition
    <2>2. vals \in {{0}, {1}, {0, 1}}
      BY <2>1, AnswersInValues
    <2>3. PICK x \in evaluate(ls, q, c) :
            o \in IF ~x.ok THEN Aborts(x.ch) ELSE Ok(RangeOfTruth(x.val), x.ch)
      BY <1>2 DEF getRange, RangeOfTruth
    <2>4. Within(x, {Validity(vals = {1}, vals = {0})})
      BY <2>1, <2>3, EvaluateRight
    <2> HIDE DEF vals
    <2>5. CASE ~x.ok
      BY <2>3, <2>4, <2>5, AbortsWithin DEF Within, vals
    <2>6. CASE x.ok
      <3>1. CachesFine(x.ch) /\ x.val = Validity(vals = {1}, vals = {0})
            /\ o \in Ok(RangeOfTruth(x.val), x.ch)
        BY <2>3, <2>4, <2>6 DEF Within
      <3>2. RangeOfTruth(x.val) \in Ranges(vals)
        <4>1. CASE vals = {1}
          <5>1. RangeOfTruth(x.val) = <<1, 1>>
            BY <3>1, <4>1 DEF Validity, RangeOfTruth
          <5> QED BY <4>1, <5>1 DEF Ranges
        <4>2. CASE vals = {0}
          <5>1. RangeOfTruth(x.val) = <<0, 0>>
            BY <3>1, <4>2 DEF Validity, RangeOfTruth
          <5> QED BY <4>2, <5>1 DEF Ranges
        <4>3. CASE vals = {0, 1}
          <5>1. RangeOfTruth(x.val) = <<0, 1>>
            BY <3>1, <4>3 DEF Validity, RangeOfTruth
          <5> QED BY <4>3, <5>1 DEF Ranges
        <4> QED BY <2>2, <4>1, <4>2, <4>3
      <3> QED BY <3>1, <3>2, OkWithin DEF vals
    <2> QED BY <2>5, <2>6 DEF vals
  <1>3. CASE Width(q.e) # 1 /\ Constant(q.e)
    <2> DEFINE v == ConstantValue(q.e)
    <2>1. o \in Ok(<<v, v>>, c)
      BY <1>3 DEF getRange
    <2>2. \A env \in Envs : Meaning(q.e, env) = v
      BY <1>1, <1>3 DEF Negates
    <2>3. vals \subseteq {v}
      BY <2>2 DEF Values, Holding
    <2> HIDE DEF vals, v
    <2>4. vals = {v} /\ v \in Nat
      BY <1>1, <2>3
    <2>5. <<v, v>> \in Ranges(vals)
      BY <2>4 DEF Ranges
    <2> QED BY <2>1, <2>5, OkWithin DEF vals
  <1>4. CASE Width(q.e) # 1 /\ ~Constant(q.e)
    <2> DEFINE next(b, z) ==
                 IF ~z.ok THEN Aborts(z.ch)
                 ELSE IF z.val THEN highest(ls, q, 0, b.val, z.ch)
                 ELSE Bind(Search(ls, q, "mayBeUpTo", 0, Highest(b.val), z.ch), LAMBDA m :
                        highest(ls, q, m.val, b.val, m.ch))
               asks(b) == mayBeTrue(ls, withExpr(q, EqualTo(q.e, 0)), b.ch)
    <2>1. PICK b \in Search(ls, q, "useful", 0, Width(q.e), c) :
            o \in IF b.ok THEN UNION {next(b, z) : z \in asks(b)} ELSE {b}
      BY <1>4 DEF getRange, Bind
    <2>2. Within(b, Enough(q))
      BY <2>1, BitsRight
    <2> HIDE DEF next, asks, vals
    <2>3. CASE ~b.ok
      BY <2>1, <2>2, <2>3, WithinPassed DEF vals
    <2>4. CASE b.ok
      <3>1. CachesFine(b.ch) /\ b.val \in Enough(q)
        BY <2>2, <2>4 DEF Within
      <3>2. PICK z \in asks(b) : o \in next(b, z)
        BY <2>1, <2>4
      <3> DEFINE a == EqualTo(q.e, 0)
      <3>3. a \in Condition /\ \A env \in Envs : Meaning(a, env) = 1 <=> Meaning(q.e, env) \in {0}
        <4>1. 0 \in 0..Highest(Width(q.e))
          BY <1>1 DEF Compares
        <4> QED BY <1>1, <4>1 DEF Compares
      <3> HIDE DEF a
      <3>4. /\ Query(q.cs, a) \in Queries("truth")
            /\ Query(q.cs, a).cs = q.cs /\ Query(q.cs, a).e = a
            /\ 1 \in Values(q.cs, a) <=> \E v \in vals : v \in {0}
        <4>1. {0} \in SUBSET Nat
          OBVIOUS
        <4> QED BY <3>3, <4>1, ComparedValues DEF vals
      <3>5. z \in mayBeTrue(ls, Query(q.cs, a), b.ch)
        BY <3>2 DEF asks, a, withExpr
      <3>6. Within(z, {1 \in Values(q.cs, a)})
        BY <3>1, <3>4, <3>5, MayBeTrueRight
      <3>7. CachesFine(z.ch) /\ z.ok \in BOOLEAN /\ (z.ok => (z.val <=> 0 \in vals))
        BY <3>4, <3>6 DEF Within
      <3>8. CASE ~z.ok
        <4>1. o \in Aborts(z.ch)
          BY <3>2, <3>8 DEF next
        <4> QED BY <3>7, <4>1, AbortsWithin DEF vals
      <3>9. CASE z.ok /\ z.val
        <4>1. 0 \in vals /\ \A v \in vals : 0 <= v
          BY <1>1, <3>7, <3>9
        <4>2. o \in highest(ls, q, 0, b.val, z.ch)
          BY <3>2, <3>9 DEF next
        <4> QED BY <3>1, <3>7, <4>1, <4>2, HighestRight DEF vals
      <3>10. CASE z.ok /\ ~z.val
        <4>1. PICK m \in Search(ls, q, "mayBeUpTo", 0, Highest(b.val), z.ch) :
                o \in IF m.ok THEN highest(ls, q, m.val, b.val, m.ch) ELSE {m}
          BY <3>2, <3>10 DEF next, Bind
        <4>2. Within(m, {n \in vals : \A v \in vals : n <= v})
          BY <3>1, <3>7, <4>1, LeastRight DEF vals
        <4>3. CASE ~m.ok
          BY <4>1, <4>2, <4>3, WithinPassed DEF vals
        <4>4. CASE m.ok
          <5>1. CachesFine(m.ch) /\ m.val \in vals /\ \A v \in vals : m.val <= v
            BY <4>2, <4>4 DEF Within
          <5>2. o \in highest(ls, q, m.val, b.val, m.ch)
            BY <4>1, <4>4
          <5> QED BY <3>1, <5>1, <5>2, HighestRight DEF vals
        <4> QED BY <4>2, <4>3, <4>4 DEF Within
      <3> QED BY <3>7, <3>8, <3>9, <3>10
    <2> QED BY <2>2, <2>3, <2>4 DEF Within
  <1> QED BY <1>2, <1>3, <1>4 DEF vals

(***************************************************************************)
(* TimingSolver: the questions of the executor                             *)
(***************************************************************************)

Questions == {"evaluate", "mustBeTrue", "mayBeTrue", "getValue", "getInitialValues", "getRange"}

\* v is what the question has for an answer if the inputs are envs and the
\* expression has the values vals
Told(kind, vals, envs, v) ==
  CASE kind = "evaluate" -> v = Validity(vals = {1}, vals = {0})
    [] kind = "mustBeTrue" -> v = (vals = {1})
    [] kind = "mayBeTrue" -> v = (1 \in vals)
    [] kind = "getValue" -> v \in vals
    [] kind = "getInitialValues" -> v \in envs
    [] kind = "getRange" -> v[1] \in vals /\ v[2] \in vals /\ \A w \in vals : v[1] <= w /\ w <= v[2]

RightlyTold(kind, cs, a, o) ==
  CachesFine(o.ch) /\ o.ok \in BOOLEAN /\ (o.ok => Told(kind, Values(cs, a), Holding(cs), o.val))

LEMMA SimplifiedValues ==
  ASSUME Simplifies, NEW cs \in Seq(Condition), NEW a \in Expression
  PROVE  /\ Simplified(cs, a) \in Expression /\ Width(Simplified(cs, a)) = Width(a)
         /\ Values(cs, Simplified(cs, a)) = Values(cs, a)
PROOF
  <1>1. \A env \in Holding(cs) : Meaning(Simplified(cs, a), env) = Meaning(a, env)
    BY DEF Simplifies
  <1>2. Simplified(cs, a) \in Expression /\ Width(Simplified(cs, a)) = Width(a)
    BY DEF Simplifies
  <1> QED BY <1>1, <1>2 DEF Values

LEMMA TimingSolverRight ==
  ASSUME Evaluates, Negates, Simplifies, Compares, NEW ls, Promise(ls),
         NEW kind \in Questions, NEW cs \in Seq(Condition), Holding(cs) # {},
         NEW a \in Expression, kind \in {"evaluate", "mustBeTrue", "mayBeTrue"} => a \in Condition,
         NEW c, CachesFine(c), NEW o \in TimingSolver(ls, kind, cs, a, c)
  PROVE  RightlyTold(kind, cs, a, o)
PROOF
  <1> DEFINE q == Query(cs, Simplified(cs, a))
  <1>1. /\ q \in [cs : Seq(Condition), e : Expression] /\ q.cs = cs /\ q.e = Simplified(cs, a)
        /\ Values(cs, q.e) = Values(cs, a)
        /\ a \in Condition => q.e \in Condition
    BY SimplifiedValues DEF Query, Condition
  <1>2. q \in Queries("value")
    BY <1>1 DEF Queries
  <1>3. a \in Condition => q \in Queries("truth") /\ q \in Queries("validity")
    BY <1>1 DEF Queries
  <1> HIDE DEF q
  <1>4. CASE kind = "evaluate"
    <2>1. o \in evaluate(ls, q, c)
      BY <1>4 DEF TimingSolver, q
    <2>2. Within(o, {Validity(Values(cs, a) = {1}, Values(cs, a) = {0})})
      BY <1>1, <1>3, <1>4, <2>1, EvaluateRight
    <2> QED BY <1>4, <2>2 DEF Within, RightlyTold, Told
  <1>5. CASE kind = "mustBeTrue"
    <2>1. o \in mustBeTrue(ls, q, c)
      BY <1>5 DEF TimingSolver, q
    <2>2. Within(o, {Values(cs, a) = {1}})
      BY <1>1, <1>3, <1>5, <2>1, MustBeTrueRight
    <2> QED BY <1>5, <2>2 DEF Within, RightlyTold, Told
  <1>6. CASE kind = "mayBeTrue"
    <2> DEFINE neg == Simplified(cs, Negation(a))
    <2>1. PICK x \in mustBeTrue(ls, Query(cs, neg), c) : o \in IF x.ok THEN Ok(~x.val, x.ch) ELSE {x}
      BY <1>6 DEF TimingSolver, Bind
    <2>2. a \in Condition /\ Negation(a) \in Condition /\ Negation(a) \in Expression
      BY <1>6 DEF Negates, Condition
    <2>3. neg \in Condition /\ Values(cs, neg) = Values(cs, Negation(a))
      BY <2>2, SimplifiedValues DEF Condition
    <2> HIDE DEF neg
    <2>4. Query(cs, neg) \in Queries("truth") /\ Query(cs, neg).cs = cs /\ Query(cs, neg).e = neg
      BY <2>3 DEF Query, Queries, Condition
    <2>5. Within(x, {Values(cs, Negation(a)) = {1}})
      BY <2>1, <2>3, <2>4, MustBeTrueRight
    <2>6. Query(cs, a) \in Queries("truth") /\ Query(cs, a).cs = cs /\ Query(cs, a).e = a
      BY <2>2 DEF Query, Queries, Condition
    <2>7. Values(cs, Negation(a)) = {1} <=> 1 \notin Values(cs, a)
      BY <2>6, SurelyFalse
    <2>8. Within(o, {1 \in Values(cs, a)})
      BY <2>1, <2>5, <2>7, NotFalseRight
    <2> QED BY <1>6, <2>8 DEF Within, RightlyTold, Told
  <1>7. CASE kind = "getValue"
    <2>1. o \in getValue(ls, q, c)
      BY <1>7 DEF TimingSolver, q
    <2>2. Within(o, Values(cs, a))
      BY <1>1, <1>2, <2>1, GetValueRight
    <2> QED BY <1>7, <2>2 DEF Within, RightlyTold, Told
  <1>8. CASE kind = "getInitialValues"
    <2> DEFINE p == Query(cs, Falsehood)
    <2>1. o \in getInitialValues(ls, p, c)
      BY <1>8 DEF TimingSolver
    <2>2. p \in Queries("initial") /\ Models(p) = Holding(cs)
      <3>1. Falsehood \in Condition /\ Falsehood \in Expression
        BY DEF Negates, Condition
      <3> QED BY <3>1, ModelsOfNegation DEF Query, Queries
    <2> HIDE DEF p
    <2>3. Within(o, Holding(cs))
      BY <2>1, <2>2, GetInitialValuesRight
    <2> QED BY <1>8, <2>3 DEF Within, RightlyTold, Told
  <1>9. CASE kind = "getRange"
    <2> DEFINE p == Query(cs, a)
    <2>1. o \in getRange(ls, p, c)
      BY <1>9 DEF TimingSolver
    <2>2. p \in Queries("value") /\ p.cs = cs /\ p.e = a
      BY DEF Query, Queries
    <2> HIDE DEF p
    <2>3. Within(o, Ranges(Values(cs, a)))
      BY <2>1, <2>2, GetRangeRight
    <2> QED BY <1>9, <2>3 DEF Within, RightlyTold, Told, Ranges
  <1> QED BY <1>4, <1>5, <1>6, <1>7, <1>8, <1>9 DEF Questions

(***************************************************************************)
(* The driver                                                              *)
(***************************************************************************)

\* what a ConstraintManager holds
Added == {a \in Condition : ~Constant(a)}

\* addConstraint adds a condition that some input of the path meets.
Constrains ==
  \A cs \in Seq(Added), a \in Condition : Holding(Append(cs, a)) # {} =>
    Constrained(cs, a) \in Seq(Added) /\ Holding(Constrained(cs, a)) = Holding(Append(cs, a))

\* The chains end in the core solver, the programs ask about expressions, and
\* the executor asks the TimingSolver.
Configured ==
  /\ Chains \subseteq WellFormed
  /\ \A p \in Programs : p.conds \subseteq Condition /\ p.value \in Expression
  /\ \A ls \in Chains, kind \in Questions : \A cs, a, c :
       Solver(ls, kind, cs, a, c) = TimingSolver(ls, kind, cs, a, c)

\* all that is supposed of expressions and of the configuration
Supposed ==
  /\ Evaluates /\ Negates /\ Reads /\ Propagates /\ Simplifies /\ Compares
  /\ Chained /\ Constrains /\ Configured

\* The inductive invariant: the path can be taken, its constraints are its
\* conditions, the caches are right, and so is the last answer.
SolvingInv ==
  /\ layers \in Chains /\ program \in Programs
  /\ path \in Seq(Condition) /\ constraints \in Seq(Added)
  /\ Feasible(path) /\ PathKept
  /\ CachesFine(ch)
  /\ AnswersRight

LEMMA HoldingAppend ==
  ASSUME NEW S, NEW s \in Seq(S), NEW a
  PROVE  Holding(Append(s, a)) = {env \in Holding(s) : Meaning(a, env) = 1}
PROOF
  <1>1. /\ DOMAIN Append(s, a) = DOMAIN s \cup {Len(s) + 1}
        /\ \A n \in DOMAIN s : Append(s, a)[n] = s[n]
        /\ Append(s, a)[Len(s) + 1] = a
    <2> DEFINE t == Append(s, a)
    <2>1. s \in Seq(S \cup {a}) /\ a \in S \cup {a}
      OBVIOUS
    <2>2. /\ t \in Seq(S \cup {a}) /\ Len(t) = Len(s) + 1
          /\ \A n \in 1..Len(s) : t[n] = s[n]
          /\ t[Len(s) + 1] = a
      BY <2>1, AppendProperties
    <2>3. DOMAIN t = 1..Len(s) + 1 /\ DOMAIN s = 1..Len(s) /\ Len(s) \in Nat
      BY <2>2
    <2> HIDE DEF t
    <2>4. 1..Len(s) + 1 = 1..Len(s) \cup {Len(s) + 1}
      BY <2>3
    <2> QED BY <2>2, <2>3, <2>4 DEF t
  <1> DEFINE t == Append(s, a)
             top == Len(s) + 1
  <1>2. \A env \in Envs : (\A n \in DOMAIN t : Meaning(t[n], env) = 1)
          <=> (\A n \in DOMAIN s : Meaning(s[n], env) = 1) /\ Meaning(a, env) = 1
    <2>1. DOMAIN t = DOMAIN s \cup {top} /\ (\A n \in DOMAIN s : t[n] = s[n]) /\ t[top] = a
      BY <1>1
    <2> HIDE DEF t, top
    <2> QED BY <2>1
  <1> HIDE DEF t
  <1>3. Holding(t) = {env \in Holding(s) : Meaning(a, env) = 1}
    BY <1>2 DEF Holding
  <1> QED BY <1>3 DEF t

LEMMA NoConditions ==
  Holding(<< >>) = Envs /\ Envs # {} /\ CachesFine(NoCaches)
PROOF
  <1>1. Holding(<< >>) = Envs
    BY DEF Holding
  <1>2. Envs # {}
    BY EnvsFacts
  <1>3. CachesFine(NoCaches)
    BY DEF CachesFine, NoCaches
  <1> QED BY <1>1, <1>2, <1>3

LEMMA UnfailedFine ==
  ASSUME NEW c, CachesFine(c) PROVE CachesFine([c EXCEPT !.failed = FALSE])
PROOF
  <1> DEFINE d == [c EXCEPT !.failed = FALSE]
  <1>1. {"branch", "cex", "table", "failed", "abort"} \subseteq DOMAIN c
    BY DEF CachesFine
  <1>2. DOMAIN d = DOMAIN c /\ d.branch = c.branch /\ d.cex = c.cex /\ d.table = c.table
    BY <1>1
  <1> HIDE DEF d
  <1>3. CachesFine(d)
    BY <1>1, <1>2 DEF CachesFine
  <1> QED BY <1>3 DEF d

LEMMA SolvingInit ==
  ASSUME Supposed PROVE Init => SolvingInv
PROOF
  <1> SUFFICES ASSUME Init PROVE SolvingInv
    OBVIOUS
  <1>1. path = << >> /\ constraints = << >> /\ ch = NoCaches /\ asked.kind = "none"
        /\ layers \in Chains /\ program \in Programs
    BY DEF Init, NotAsked
  <1> QED BY <1>1, NoConditions DEF SolvingInv, Feasible, PathKept, PathEnvs, AnswersRight

\* A condition that the path can meet is added to both.
LEMMA AddConditionKeeps ==
  ASSUME Supposed, SolvingInv, NEW a \in Condition, AddCondition(a)
  PROVE  SolvingInv'
PROOF
  <1> USE DEF Supposed
  <1>1. /\ layers' = layers /\ program' = program /\ ch' = ch /\ asked' = NotAsked
        /\ path' = Append(path, a) /\ constraints' = Constrained(constraints, a)
        /\ Holding(Append(path, a)) # {}
    BY DEF AddCondition, Feasible
  <1>2. path \in Seq(Condition) /\ constraints \in Seq(Added) /\ Holding(path) = Holding(constraints)
    BY DEF SolvingInv, PathKept, PathEnvs
  <1>3. Holding(Append(constraints, a)) = Holding(Append(path, a))
    <2>1. Holding(Append(path, a)) = {env \in Holding(path) : Meaning(a, env) = 1}
      BY <1>2, HoldingAppend
    <2>2. Holding(Append(constraints, a)) = {env \in Holding(constraints) : Meaning(a, env) = 1}
      BY <1>2, HoldingAppend
    <2> QED BY <1>2, <2>1, <2>2
  <1>4. /\ Constrained(constraints, a) \in Seq(Added)
        /\ Holding(Constrained(constraints, a)) = Holding(Append(path, a))
    BY <1>1, <1>2, <1>3 DEF Constrains
  <1>5. path' \in Seq(Condition)
    BY <1>1, <1>2
  <1>6. Feasible(path)' /\ PathKept'
    BY <1>1, <1>4 DEF Feasible, PathKept, PathEnvs
  <1>7. AnswersRight'
    BY <1>1 DEF AnswersRight, NotAsked
  <1>8. layers' \in Chains /\ program' \in Programs /\ constraints' \in Seq(Added) /\ CachesFine(ch')
    BY <1>1, <1>4 DEF SolvingInv
  <1> QED BY <1>5, <1>6, <1>7, <1>8 DEF SolvingInv

LEMMA SwitchKeeps ==
  ASSUME SolvingInv, Switch PROVE SolvingInv'
PROOF
  <1>1. /\ layers' = layers /\ program' = program /\ ch' = ch /\ asked' = NotAsked
        /\ path' = << >> /\ constraints' = << >>
    BY DEF Switch
  <1>2. Feasible(path)' /\ PathKept'
    BY <1>1, NoConditions DEF Feasible, PathKept, PathEnvs
  <1>3. AnswersRight'
    BY <1>1 DEF AnswersRight, NotAsked
  <1>4. layers' \in Chains /\ program' \in Programs /\ CachesFine(ch')
    BY <1>1 DEF SolvingInv
  <1>5. path' \in Seq(Condition) /\ constraints' \in Seq(Added)
    BY <1>1
  <1> QED BY <1>2, <1>3, <1>4, <1>5 DEF SolvingInv

\* A right answer for the constraints is one for the path.
LEMMA ToldRight ==
  ASSUME NEW kind \in Questions, NEW a, NEW o, RightlyTold(kind, constraints, a, o),
         PathKept, path' = path, asked' = [kind |-> kind, e |-> a, ok |-> o.ok, val |-> o.val]
  PROVE  AnswersRight'
PROOF
  <1> DEFINE vals == Values(constraints, a)
             envs == Holding(constraints)
  <1>1. asked'.kind = kind /\ asked'.ok = o.ok /\ asked'.val = o.val /\ asked'.e = a
    OBVIOUS
  <1>2. PathEnvs' = envs /\ {Meaning(asked'.e, env) : env \in PathEnvs'} = vals
    BY <1>1 DEF PathEnvs, PathKept, Values
  <1> SUFFICES ASSUME asked'.ok
               PROVE  CASE kind = "evaluate" -> o.val = Validity(vals = {1}, vals = {0})
                        [] kind = "mustBeTrue" -> o.val = (vals = {1})
                        [] kind = "mayBeTrue" -> o.val = (1 \in vals)
                        [] kind = "getValue" -> o.val \in vals
                        [] kind = "getInitialValues" -> o.val \in envs
                        [] kind = "getRange" ->
                             /\ o.val[1] \in vals /\ o.val[2] \in vals
                             /\ \A v \in vals : o.val[1] <= v /\ v <= o.val[2]
    <2> HIDE DEF vals, envs
    <2> QED BY <1>1, <1>2 DEF AnswersRight
  <1>3. Told(kind, vals, envs, o.val)
    BY <1>1 DEF RightlyTold
  <1> QED BY <1>3 DEF Told

LEMMA QuestionKeeps ==
  ASSUME Supposed, SolvingInv, NEW kind \in Questions, NEW a \in Expression,
         kind \in {"evaluate", "mustBeTrue", "mayBeTrue"} => a \in Condition, Question(kind, a)
  PROVE  SolvingInv'
PROOF
  <1> USE DEF Supposed
  <1> DEFINE c == [ch EXCEPT !.failed = FALSE]
  <1>1. PICK o \in Solver(layers, kind, constraints, a, c) :
          /\ ch' = o.ch /\ asked' = [kind |-> kind, e |-> a, ok |-> o.ok, val |-> o.val]
          /\ layers' = layers /\ program' = program /\ path' = path /\ constraints' = constraints
    BY DEF Question
  <1>2. CachesFine(c)
    BY UnfailedFine DEF SolvingInv
  <1> HIDE DEF c
  <1>3. constraints \in Seq(Condition) /\ Holding(constraints) # {}
    <2>1. Added \subseteq Condition
      BY DEF Added
    <2> QED BY <2>1 DEF SolvingInv, Feasible, PathKept, PathEnvs
  <1>4. layers \in Chains /\ layers \in WellFormed
    BY DEF SolvingInv, Configured
  <1>5. o \in TimingSolver(layers, kind, constraints, a, c)
    BY <1>1, <1>4 DEF Configured
  <1>6. Promise(layers)
    BY <1>4, ChainRight
  <1>7. RightlyTold(kind, constraints, a, o)
    BY <1>2, <1>3, <1>5, <1>6, TimingSolverRight
  <1>8. AnswersRight'
    BY <1>1, <1>7, ToldRight DEF SolvingInv
  <1>9. CachesFine(ch')
    BY <1>1, <1>7 DEF RightlyTold
  <1> QED BY <1>1, <1>8, <1>9 DEF SolvingInv, Feasible, PathKept, PathEnvs

LEMMA SolvingStep ==
  ASSUME Supposed PROVE SolvingInv /\ [Next]_vars => SolvingInv'
PROOF
  <1> SUFFICES ASSUME SolvingInv, [Next]_vars PROVE SolvingInv'
    OBVIOUS
  <1> USE DEF Supposed
  <1>1. /\ program.conds \subseteq Condition /\ program.value \in Expression
        /\ \A a \in program.conds : Negation(a) \in Condition
        /\ Condition \subseteq Expression /\ Falsehood \in Condition
    BY DEF SolvingInv, Configured, Negates, Condition
  <1>2. CASE UNCHANGED vars
    BY <1>2 DEF vars, SolvingInv, Feasible, PathKept, PathEnvs, AnswersRight
  <1>3. CASE Switch
    BY <1>3, SwitchKeeps
  <1>4. ASSUME NEW a \in program.conds, AddCondition(a) \/ AddCondition(Negation(a))
        PROVE  SolvingInv'
    BY <1>1, <1>4, AddConditionKeeps
  <1>5. ASSUME NEW a \in program.conds, NEW kind \in {"evaluate", "mustBeTrue", "mayBeTrue"},
               Question(kind, a)
        PROVE  SolvingInv'
    BY <1>1, <1>5, QuestionKeeps DEF Questions
  <1>6. CASE Question("getValue", program.value)
    BY <1>1, <1>6, QuestionKeeps DEF Questions
  <1>7. CASE Question("getRange", program.value)
    BY <1>1, <1>7, QuestionKeeps DEF Questions
  <1>8. CASE Question("getInitialValues", Falsehood)
    BY <1>1, <1>8, QuestionKeeps DEF Questions
  <1> QED BY <1>2, <1>3, <1>4, <1>5, <1>6, <1>7, <1>8 DEF Next

\* On every path, after any history of paths and questions, the chain has the
\* path's conditions for constraints and right caches, and its last answer was
\* right.
THEOREM SolvingInvariance ==
  ASSUME Supposed PROVE Spec => []SolvingInv
PROOF
  <1>1. Init => SolvingInv
    BY SolvingInit
  <1>2. SolvingInv /\ [Next]_vars => SolvingInv'
    BY SolvingStep
  <1> QED BY <1>1, <1>2, PTL DEF Spec

\* Every chain of solvers answers the executor as the inputs of the path do
\* (Solver.cpp and TimingSolver.cpp on top of any layers).
THEOREM SolvingAnswersRight ==
  ASSUME Supposed PROVE Spec => []AnswersRight
PROOF
  <1>1. SolvingInv => AnswersRight
    BY DEF SolvingInv
  <1> QED BY <1>1, SolvingInvariance, PTL

\* What the two caches hold is true for every later path that finds it
\* (CexCachingSolver.cpp, CachingSolver.cpp).
THEOREM SolvingCachesRight ==
  ASSUME Supposed PROVE Spec => []CachesRight
PROOF
  <1>1. SolvingInv => CachesRight
    BY DEF SolvingInv, CachesFine, CachesRight
  <1> QED BY <1>1, SolvingInvariance, PTL
=============================================================================
