------------------------------- MODULE Solving -------------------------------
(* The executor's questions to the solver chain along the paths it explores:  *)
(* a path condition grows by conditions that were found possible, questions   *)
(* are asked about it, and the caches serve every path.                       *)
EXTENDS SolverChain

CONSTANTS
  Programs,                       \* the conditions of a program and the value in question
  Chains,                         \* the configured chains
  Constrained(_, _),              \* ConstraintManager::addConstraint
  Solver(_, _, _, _, _),          \* the solver the executor calls: the TimingSolver
                                  \* on top of a chain of layers
  MaxConditions, MaxQuestions,    \* bounds on the exploration
  FastRanges                      \* getRange is asked of the fast solver, too

VARIABLES
  layers,       \* the configured chain
  program,      \* the conditions and the value in question
  path,         \* the conditions taken
  constraints,  \* the ConstraintManager of the state
  ch,           \* the chain's caches, and whether it failed or aborted
  asked,        \* the last question and its answer
  left          \* of the bounds

vars == <<layers, program, path, constraints, ch, asked, left>>

On(layer) == \E n \in DOMAIN layers : layers[n] = layer
Feasible(p) == Holding(p) # {}
NotAsked == [kind |-> "none"]

Init ==
  /\ layers \in Chains
  /\ program \in Programs
  /\ path = << >>  /\ constraints = << >>
  /\ ch = NoCaches
  /\ asked = NotAsked
  /\ left = [conditions |-> MaxConditions, questions |-> MaxQuestions]

\* Executor::addConstraint, for a branch that the solver found possible
AddCondition(a) ==
  /\ left.conditions > 0
  /\ Feasible(Append(path, a))
  /\ path' = Append(path, a)
  /\ constraints' = Constrained(constraints, a)
  /\ asked' = NotAsked
  /\ left' = [left EXCEPT !.conditions = @ - 1]
  /\ UNCHANGED <<layers, program, ch>>

\* another state is run; the chain is the same
Switch ==
  /\ path # << >>
  /\ path' = << >>  /\ constraints' = << >>
  /\ asked' = NotAsked
  /\ UNCHANGED <<layers, program, ch, left>>

Question(kind, a) ==
  /\ kind = "getRange" /\ On("fast") => FastRanges
  /\ \E o \in Solver(layers, kind, constraints, a, [ch EXCEPT !.failed = FALSE]) :
       /\ ch' = o.ch
       /\ asked' = [kind |-> kind, e |-> a, ok |-> o.ok, val |-> o.val]
  /\ left' = [left EXCEPT !.questions = @ - 1]
  /\ UNCHANGED <<layers, program, path, constraints>>

Next ==
  /\ ~ch.abort /\ left.questions > 0
  /\ \/ \E a \in program.conds : AddCondition(a) \/ AddCondition(Negation(a))
     \/ Switch
     \/ \E a \in program.conds, kind \in {"evaluate", "mustBeTrue", "mayBeTrue"} : Question(kind, a)
     \/ Question("getValue", program.value)
     \/ left.questions = 1 /\ Question("getRange", program.value)
     \/ Question("getInitialValues", Falsehood)

Spec == Init /\ [][Next]_vars

-----------------------------------------------------------------------------
PathEnvs == Holding(path)
PartialValidity == {"MustBeTrue", "MustBeFalse", "TrueOrFalse", "MayBeTrue", "MayBeFalse"}

\* However addConstraint simplifies, splits and rewrites earlier constraints
\* with a new equality, the constraints describe exactly the inputs that take
\* the path (ConstraintManager).
PathKept == PathEnvs = Holding(constraints)

\* Every chain of solvers answers as the inputs of the path do, whatever was
\* asked before on this or on another path: validity, a value some input has,
\* an input of the path, the exact range (Solver.cpp on top of all layers).
AnswersRight ==
  asked.kind # "none" /\ asked.ok =>
    LET vals == {Meaning(asked.e, env) : env \in PathEnvs}
    IN  CASE asked.kind = "evaluate" -> asked.val = Validity(vals = {1}, vals = {0})
          [] asked.kind = "mustBeTrue" -> asked.val = (vals = {1})
          [] asked.kind = "mayBeTrue" -> asked.val = (1 \in vals)
          [] asked.kind = "getValue" -> asked.val \in vals
          [] asked.kind = "getInitialValues" -> asked.val \in PathEnvs
          [] asked.kind = "getRange" ->
               /\ asked.val[1] \in vals /\ asked.val[2] \in vals
               /\ \A v \in vals : asked.val[1] <= v /\ v <= asked.val[2]

\* the values an expression takes under some constraints
Values(cs, a) == {Meaning(a, env) : env \in Holding(cs)}

\* what a cached assignment says of its key
CexRight(key, found) ==
  IF found = NoSolution THEN \A env \in Envs : \E a \in key : Meaning(a, env) # 1
  ELSE \A a \in key : Meaning(a, found) = 1

\* what a cached validity says of the constraints and the condition of its slot
BranchRight(slot, pv) ==
  LET vals == Values(slot[1], slot[2])
  IN  CASE pv = "MustBeTrue" -> vals = {1}
        [] pv = "MustBeFalse" -> vals = {0}
        [] pv = "MayBeTrue" -> 1 \in vals
        [] pv = "MayBeFalse" -> 0 \in vals
        [] pv = "TrueOrFalse" -> vals = {0, 1}

\* What the caches hold is true for every later path that finds it: a cached
\* assignment satisfies its key, a cached refutation refutes it, and a cached
\* validity holds of the canonical query (CexCachingSolver, CachingSolver).
CachesRight ==
  /\ \A key \in DOMAIN ch.cex : CexRight(key, ch.cex[key])
  /\ \A slot \in DOMAIN ch.branch : BranchRight(slot, ch.branch[slot])

\* A question fails, and the executor gives the state up, only if the core
\* solver failed on it: no layer turns a cached answer into a failure.  And no
\* assertion of a layer fails (an assignment that does not satisfy its query, no
\* assignment for a feasible path, values outside their range), except the ones
\* that give up on a failure of the core solver: in getRange, and in the
\* assignment validator, which looks at an answer it did not get.
OnlyCoreFails ==
  /\ asked.kind # "none" /\ ~asked.ok => ch.failed
  /\ ch.abort => ch.failed /\ (asked.kind = "getRange" \/ On("assignment"))

\* Types; a ConstraintManager holds no constants, only conditions to be met.
TypeOK ==
  /\ layers \in Chains /\ program \in Programs
  /\ \A n \in DOMAIN constraints : Width(constraints[n]) = 1 /\ ~Constant(constraints[n])
  /\ \A s \in DOMAIN ch.branch : ch.branch[s] \in PartialValidity
  /\ \A key \in DOMAIN ch.cex : ch.cex[key] \in Envs \cup {NoSolution}
  /\ ch.table \subseteq Envs
  /\ ch.failed \in BOOLEAN /\ ch.abort \in BOOLEAN
=============================================================================
