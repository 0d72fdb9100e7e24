------------------------------- MODULE Learned -------------------------------
(* The learned searcher and the features it is trained on.  A path that      *)
(* takes a branch enters Executor::featureStates; GetFeaturesSearcher         *)
(* recomputes the feature vectors of these before it lets the core searcher   *)
(* choose, and records the vector of the chosen path.  The recorded rows are  *)
(* the training data (features.csv); MLSearcher feeds the same vectors to a   *)
(* network that keeps a hidden state for every path.  The searchers are       *)
(* stacked as with --use-branching-search: BranchingSearcher over             *)
(* GetFeaturesSearcher over the core searchers.                               *)
EXTENDS Integers, Sequences, FiniteSets, SequencesExt

CONSTANTS
  State,          \* the addresses of ExecutionStates
  Null,
  Inst,           \* instructions whose coverage is counted
  Condition,      \* branch conditions, as trees of [k, kids]
  Term,           \* these, what they are made of, and their negations
  Indices,        \* the lengths of subpaths, as powers of two (0..3 in the code)
  Cores,          \* the values of --search: sequences of "ML" and "SGS"
  SgsIndex,       \* the length the SubpathGuidedSearcher looks at
  Rewards,        \* what the network may predict
  Sampling,       \* MLSearcher::sampling
  OnlyOutputStatesCoveringNew, \* --only-output-states-covering-new
  MaxCost,        \* bound: the query time of one path
  MaxBranches     \* bound: the branches one path takes

Negated(c) == [k |-> "Eq", kids |-> <<[k |-> "Constant", kids |-> << >>], c>>]

ASSUME LearnedAssumption ==
  /\ Null \notin State /\ MaxCost \in Nat /\ MaxBranches \in Nat
  /\ Condition \cup {Negated(c) : c \in Condition} \subseteq Term
  /\ \A t \in Term : t.kids \in Seq(Term)
  /\ SgsIndex \in Indices /\ Indices \subseteq Nat /\ {Sampling, OnlyOutputStatesCoveringNew} \subseteq BOOLEAN
  /\ Cores \subseteq Seq({"ML", "SGS"}) \ {<< >>}

VARIABLES
  core,           \* CoreSearch
  st,             \* what the ExecutionStates hold
  list,           \* the states of the core searchers, in their order
  added, removed, \* Executor::addedStates, removedStates
  featureStates,  \* Executor::featureStates
  featureIndex,   \* GetFeaturesSearcher::featureIndex
  counts,         \* Executor::subpathCounts
  covered,        \* the instructions covered by any path
  index,          \* InterleavedSearcher::index
  last,           \* BranchingSearcher::lastState
  pc, current

vars == <<core, st, list, added, removed, featureStates, featureIndex, counts, covered,
          index, last, pc, current>>
searcher == <<list, featureIndex, counts, index>>

\* f with one more argument, or another value of it; f without some
Put(f, x, v) == [y \in DOMAIN f \cup {x} |-> IF y = x THEN v ELSE f[y]]
Free(es, gone) == [s \in DOMAIN es \ gone |-> es[s]]

\* what is left of a list, in its order
Kept(s, gone) ==
  LET at == {i \in DOMAIN s : s[i] \notin gone}
  IN  [n \in 1..Cardinality(at) |-> s[CHOOSE i \in at : Cardinality({j \in at : j <= i}) = n]]

(***************************************************************************)
(* Features                                                                *)
(***************************************************************************)

\* the kinds of an expression's nodes; a read's updates are not looked at
getConstraintBOW[e \in Term] == FoldLeft(LAMBDA a, kid : a \o getConstraintBOW[kid], <<e.k>>, e.kids)

\* constraint_features: how many nodes of each kind
Counted(kinds) == [k \in ToSet(kinds) |-> Cardinality({i \in DOMAIN kinds : kinds[i] = k})]
constraintFeatures(cs) ==
  Counted(FoldLeft(LAMBDA a, c : a \o getConstraintBOW[c], << >>, cs))

\* the last 2^i branches of a path
getSubpath(e, i) ==
  LET n == Len(e.takenBranches)  m == IF 2^i < n THEN 2^i ELSE n
  IN  SubSeq(e.takenBranches, n - m + 1, n)

getSubpathCount(cnt, sub, i) == IF sub \in DOMAIN cnt[i] THEN cnt[i][sub] ELSE 0
incSubpath(cnt, e) ==
  [i \in Indices |-> Put(cnt[i], getSubpath(e, i), getSubpathCount(cnt, getSubpath(e, i), i) + 1)]

\* what the first n rows add up to
CostOf(rows) ==
  LET sum[n \in 0..Len(rows)] == IF n = 0 THEN 0 ELSE sum[n - 1] + rows[n].cost IN sum

\* the query time no row accounts for yet
costSince(e) == e.queryCost - CostOf(e.features)[Len(e.features)]

newCovered(e) ==
  LET n == Cardinality(e.coveredInsts)
      before == IF e.features = << >> THEN 0 ELSE Last(e.features).cov
  IN  IF n < before THEN 0 ELSE n - before

getStateFeatures(e) ==
  [cost |-> costSince(e), acc |-> e.queryCost, cov |-> Cardinality(e.coveredInsts),
   new |-> newCovered(e), depth |-> e.depth,
   sgs |-> [i \in Indices |-> getSubpathCount(counts, getSubpath(e, i), i)],
   bow |-> constraintFeatures(e.constraints)]

\* what the network is given: the vector without its first two entries
Input(f) == [cov |-> f.cov, new |-> f.new, depth |-> f.depth, sgs |-> f.sgs, bow |-> f.bow]

Refreshed(s) == [st[s] EXCEPT !.predicted = FALSE, !.feature = getStateFeatures(st[s])]

\* GetFeaturesSearcher::addFeatures, the n-th row
addFeatures(e, n) ==
  [e EXCEPT !.features = Append(@, Put(e.feature, "index", n))]

(***************************************************************************)
(* Selection                                                               *)
(***************************************************************************)

Initial ==
  [queryCost |-> 0, depth |-> 0, takenBranches |-> << >>, constraints |-> << >>,
   coveredInsts |-> {}, coveredNew |-> FALSE, hidden |-> << >>, predicted |-> FALSE, reward |-> 0, features |-> << >>,
   feature |-> [cost |-> 0, acc |-> 0, cov |-> 0, new |-> 0, depth |-> 0,
                sgs |-> [i \in Indices |-> 0], bow |-> constraintFeatures(<< >>)]]

\* run: the searcher is told of the initial state, whose features are computed
Init ==
  /\ core \in Cores
  /\ counts = [i \in Indices |-> << >>] /\ featureIndex = 0 /\ covered = {}
  /\ \E s \in State : list = <<s>> /\ st = [t \in {s} |-> Initial]
  /\ added = << >> /\ removed = {} /\ featureStates = {}
  /\ index = 1 /\ last = Null /\ pc = "select" /\ current = Null

\* Mutant of predict: states that were predicted before are fed again.
PredictAll(es, r) ==
  [s \in DOMAIN es |->
     [es[s] EXCEPT !.predicted = TRUE, !.reward = r[s], !.hidden = Append(@, Input(es[s].feature))]]

\* MLSearcher::selectState: the network rates the states that have no prediction;
\* its hidden state is what it was given so far
predict(es, r) ==
  [s \in DOMAIN es |->
     IF es[s].predicted THEN es[s]
     ELSE [es[s] EXCEPT !.predicted = TRUE, !.reward = r[s],
                        !.hidden = Append(@, Input(es[s].feature))]]

\* the first of the highest reward, or any when sampling
Best(es) ==
  IF Sampling THEN ToSet(list)
  ELSE {list[i] : i \in {i \in DOMAIN list : \A j \in DOMAIN list :
                            /\ es[list[j]].reward <= es[list[i]].reward
                            /\ j < i => es[list[j]].reward < es[list[i]].reward}}

\* SubpathGuidedSearcher::selectState: any whose last subpath was taken least often
LeastTaken(es) ==
  LET count(s) == getSubpathCount(counts, getSubpath(es[s], SgsIndex), SgsIndex)
  IN  {s \in ToSet(list) : \A t \in ToSet(list) : count(s) <= count(t)}

\* GetFeaturesSearcher::selectState after the core searcher chose s
Record(es, s) ==
  /\ st' = [es EXCEPT ![s] = addFeatures(@, featureIndex)]
  /\ featureIndex' = featureIndex + 1
  /\ counts' = incSubpath(counts, es[s])
  /\ featureStates' = {}
  /\ last' = s /\ current' = s

\* the searcher whose turn it is, and the next turn (InterleavedSearcher)
Turn == core[index]
NextTurn == index' = IF index = 1 THEN Len(core) ELSE index - 1

RefreshFeatures == [s \in DOMAIN st |-> IF s \in featureStates THEN Refreshed(s) ELSE st[s]]

\* BranchingSearcher has no state to continue: a core searcher chooses
SelectML ==
  /\ pc = "select" /\ list # << >> /\ last = Null /\ Turn = "ML"
  /\ \E r \in [ToSet(list) -> Rewards] :
       LET es == predict(RefreshFeatures, r)
       IN  /\ \A s \in ToSet(list) : RefreshFeatures[s].predicted => r[s] = es[s].reward
           /\ \E s \in Best(es) :
                Record([es EXCEPT ![s].predicted = FALSE, ![s].reward = 0], s)
  /\ NextTurn /\ pc' = "step"
  /\ UNCHANGED <<core, list, added, removed, covered>>

SelectSGS ==
  /\ pc = "select" /\ list # << >> /\ last = Null /\ Turn = "SGS"
  /\ \E s \in LeastTaken(RefreshFeatures) : Record(RefreshFeatures, s)
  /\ NextTurn /\ pc' = "step"
  /\ UNCHANGED <<core, list, added, removed, covered>>

\* the path of the last selection goes on
SelectSame ==
  /\ pc = "select" /\ list # << >> /\ last # Null
  /\ current' = last /\ pc' = "step"
  /\ UNCHANGED <<core, st, searcher, added, removed, featureStates, covered, last>>

(***************************************************************************)
(* What an instruction does to the running state                           *)
(***************************************************************************)

Running == pc = "step" /\ current \notin removed

\* StatsTracker::stepInstruction: an instruction no path has covered yet
Cover ==
  /\ Running
  /\ \E i \in Inst \ covered :
       /\ covered' = covered \cup {i}
       /\ st' = [st EXCEPT ![current].coveredInsts = @ \cup {i}, ![current].coveredNew = TRUE]
  /\ UNCHANGED <<core, searcher, added, removed, featureStates, last, pc, current>>

\* TimingSolver: the time of a query is added to the state's queryCost
Query ==
  /\ Running /\ st[current].queryCost < MaxCost
  /\ st' = [st EXCEPT ![current].queryCost = @ + 1]
  /\ UNCHANGED <<core, searcher, added, removed, featureStates, covered, last, pc, current>>

Went(e, dir) == [e EXCEPT !.takenBranches = Append(@, dir)]
Take(e, dir, c) == [Went(e, dir) EXCEPT !.constraints = Append(@, c)]

\* fork, one side feasible: the path has taken a branch; a constraint is added
\* when the side is forced (--max-forks)
BranchOneWay ==
  /\ Running /\ Len(st[current].takenBranches) < MaxBranches
  /\ \E dir \in {0, 1}, c \in Condition : \E forced \in BOOLEAN :
       st' = [st EXCEPT ![current] =
                IF forced THEN Take(@, dir, c) ELSE Went(@, dir)]
  /\ featureStates' = featureStates \cup {current}
  /\ UNCHANGED <<core, searcher, added, removed, covered, last, pc, current>>

\* ExecutionState::branch and the copy constructor: the rows and the hidden
\* state are the parent's, the prediction is not
Copy(e) == [e EXCEPT !.predicted = FALSE, !.reward = 0, !.coveredNew = FALSE]

\* Mutant of Forked: only the new state is entered for new features.
ForkedChildOnly(n) == {n}

Forked(n) == {current, n}

\* fork, both sides feasible
Fork ==
  /\ Running /\ Len(st[current].takenBranches) < MaxBranches
  /\ \E n \in State \ DOMAIN st : \E c \in Condition :
       LET parent == [st[current] EXCEPT !.depth = @ + 1]
       IN  /\ st' = Put([st EXCEPT ![current] = Take(parent, 1, c)],
                       n, Take(Copy(parent), 0, Negated(c)))
           /\ added' = Append(added, n)
           /\ featureStates' = featureStates \cup Forked(n)
  /\ UNCHANGED <<core, searcher, removed, covered, last, pc, current>>

(***************************************************************************)
(* Termination                                                             *)
(***************************************************************************)

\* terminateStateEarly, terminateStateOnExit and terminateStateOnError: when a
\* test case is written its last row is the state at its end; a state the
\* searcher was not told of is freed at once
Terminate(s) ==
  LET output == OnlyOutputStatesCoveringNew => st[s].coveredNew
      final == addFeatures([st[s] EXCEPT !.feature = getStateFeatures(st[s])], featureIndex)
      es == IF output THEN [st EXCEPT ![s] = final] ELSE st
  IN  /\ featureIndex' = IF output THEN featureIndex + 1 ELSE featureIndex
      /\ featureStates' = featureStates \ {s}
      /\ IF s \in ToSet(added)
         THEN added' = Kept(added, {s}) /\ st' = Free(es, {s}) /\ UNCHANGED removed
         ELSE removed' = removed \cup {s} /\ st' = es /\ UNCHANGED added

\* an instruction ends the running state, or one it has just forked
End ==
  /\ Running
  /\ \E s \in {current} \cup ToSet(added) : Terminate(s)
  /\ UNCHANGED <<core, list, counts, covered, index, last, pc, current>>

\* checkMemoryUsage: any state Executor::states holds, even one that has ended
Kill ==
  /\ pc = "step" /\ \E s \in ToSet(list) : Terminate(s)
  /\ pc' = "killed"
  /\ UNCHANGED <<core, list, counts, covered, index, last, current>>

\* BranchingSearcher::update: the running state ended or forked
Release == IF last \in removed \/ added # << >> THEN Null ELSE last

updateStates ==
  /\ pc \in {"step", "killed"}
  /\ last' = Release
  /\ list' = Kept(list \o added, removed)
  /\ st' = Free(st, removed) /\ featureStates' = featureStates \ removed
  /\ added' = << >> /\ removed' = {} /\ pc' = "select" /\ current' = Null
  /\ UNCHANGED <<core, featureIndex, counts, covered, index>>

\* run returns when no state is left
Done == pc = "select" /\ list = << >> /\ UNCHANGED vars

Next ==
  \/ SelectML \/ SelectSGS \/ SelectSame
  \/ Cover \/ Query \/ BranchOneWay \/ Fork \/ End \/ Kill \/ updateStates \/ Done

Spec == Init /\ [][Next]_vars

(***************************************************************************)
(* Properties                                                              *)
(***************************************************************************)

\* The rows a path leaves in features.csv are the increments of one run: the
\* query times of its rows add up to the total each row states, the new
\* coverage is the difference of two totals, and the rows are in the order of
\* the selections.  A vector that is recorded twice, or recomputed from a stale
\* history after a fork, breaks the sum for the rest of the path.
RowsAddUp ==
  \A s \in DOMAIN st : \A i \in DOMAIN st[s].features :
    LET rows == st[s].features
    IN  /\ rows[i].acc = CostOf(rows)[i]
        /\ rows[i].new = rows[i].cov - (IF i = 1 THEN 0 ELSE rows[i - 1].cov)
        /\ i > 1 => rows[i - 1].index < rows[i].index

\* Under the learned searcher alone the hidden state of a path has been fed
\* exactly the rows that are recorded for the path, each of them once and in
\* their order, and besides them only the vector that waits to be selected: the
\* network sees at run time what it was trained on.
HiddenIsHistory ==
  core = <<"ML">> =>
    \A s \in ToSet(list) \ removed :
      LET e == st[s]
      IN  e.hidden = [i \in DOMAIN e.features |-> Input(e.features[i])]
                     \o (IF e.predicted THEN <<Input(e.feature)>> ELSE << >>)

\* When a core searcher is about to choose, what a vector says of its own path
\* is what the path is now, unless the vector is about to be recomputed.
Own(f) == [cost |-> f.cost, acc |-> f.acc, cov |-> f.cov, depth |-> f.depth, bow |-> f.bow]
FeaturesCurrent ==
  pc = "select" /\ last = Null =>
    \A s \in ToSet(list) \ featureStates : Own(st[s].feature) = Own(getStateFeatures(st[s]))

\* What is recorded of a path, and what the next choice is made from, is right
\* (GetFeaturesSearcher, ExecutionState::features).
VectorsRight == RowsAddUp /\ FeaturesCurrent
=============================================================================
