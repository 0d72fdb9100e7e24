---------------------------- MODULE LearnedProofs ----------------------------
(* Proofs about Learned: what the rows of a path add up to, which vectors are *)
(* up to date when a searcher chooses, and that the network is fed each row   *)
(* once.                                                                      *)
EXTENDS Learned, FiniteSetTheorems, SequenceTheorems, WellFoundedInduction, TLAPS

(***************************************************************************)
(* The inductive invariant                                                 *)
(***************************************************************************)

Sequential(s) == \E V : s \in Seq(V)

Fields == {"cost", "acc", "cov", "new", "depth", "sgs", "bow"}
StateFields == {"queryCost", "depth", "takenBranches", "constraints", "coveredInsts", "coveredNew",
                "hidden", "predicted", "reward", "features", "feature"}

\* a vector, and a row with its number
IsVector(f) == /\ f.cost \in Int /\ f.acc \in Int /\ f.cov \in Nat /\ f.new \in Int
IsRow(f) == DOMAIN f = Fields \cup {"index"} /\ IsVector(f) /\ f.index \in Nat

IsEntry(e) ==
  /\ DOMAIN e = StateFields
  /\ e.queryCost \in Int /\ IsFiniteSet(e.coveredInsts) /\ e.predicted \in BOOLEAN
  /\ DOMAIN e.feature = Fields /\ IsVector(e.feature)
  /\ Sequential(e.features) /\ \A i \in DOMAIN e.features : IsRow(e.features[i])
  /\ Sequential(e.hidden)

Types ==
  /\ core \in Cores /\ index \in 1..Len(core) /\ featureIndex \in Nat
  /\ pc \in {"select", "step", "killed"}
  /\ list \in Seq(State) /\ added \in Seq(State)
  /\ DOMAIN st = ToSet(list) \cup ToSet(added)
  /\ \A s \in DOMAIN st : IsEntry(st[s])

\* who is where: only a path that ran can have forked, and then it and what it
\* forked are entered for new features
Places ==
  /\ ToSet(list) \cap ToSet(added) = {}
  /\ removed \subseteq ToSet(list)
  /\ featureStates \subseteq DOMAIN st \ removed
  /\ ToSet(added) \subseteq featureStates
  /\ pc = "select" => added = << >> /\ removed = {} /\ (last = Null \/ last \in ToSet(list))
  /\ pc # "select" => current = last /\ last \in ToSet(list)
  /\ added # << >> => last \in featureStates \cup removed

\* the rows of one path; next is the number of the next row
RowsRight(e, next) ==
  LET rows == e.features
  IN  \A i \in DOMAIN rows :
        /\ rows[i].acc = CostOf(rows)[i]
        /\ rows[i].new = rows[i].cov - (IF i = 1 THEN 0 ELSE rows[i - 1].cov)
        /\ i > 1 => rows[i - 1].index < rows[i].index
        /\ rows[i].index < next
        /\ rows[i].cov <= Cardinality(e.coveredInsts)

\* what a vector says of its path is what the path is
Truth(e) ==
  [cost |-> costSince(e), acc |-> e.queryCost, cov |-> Cardinality(e.coveredInsts),
   depth |-> e.depth, bow |-> constraintFeatures(e.constraints)]
UpToDate(e) == Own(e.feature) = Truth(e) /\ e.feature.new = newCovered(e)

Fed(e) == e.hidden = [i \in DOMAIN e.features |-> Input(e.features[i])]
                     \o (IF e.predicted THEN <<Input(e.feature)>> ELSE << >>)

Rows == \A s \in DOMAIN st : RowsRight(st[s], featureIndex)
Vectors == \A s \in DOMAIN st \ (featureStates \cup removed \cup {last}) : UpToDate(st[s])
Histories ==
  core = <<"ML">> =>
    /\ \A s \in DOMAIN st \ removed : Fed(st[s])
    /\ \A s \in DOMAIN st : s \in featureStates \cup {last} => ~st[s].predicted

LearnedInv == Types /\ Places /\ Rows /\ Vectors /\ Histories

(***************************************************************************)
(* Sets of naturals                                                        *)
(***************************************************************************)

\* Every nonempty set of naturals has a least element.
LEMMA LeastNatural ==
  ASSUME NEW T, T \subseteq Nat, T # {}
  PROVE  \E x \in T : \A y \in T : x <= y
PROOF
  <1>1. IsWellFoundedOn({ss \in Nat \X Nat : ss[1] < ss[2]}, Nat)
    BY NatLessThanWellFounded DEF OpToRel
  <1>2. PICK x \in T : \A y \in T : ~(<<y, x>> \in {ss \in Nat \X Nat : ss[1] < ss[2]})
    BY <1>1, WFMin, Zenon
  <1>3. \A y \in T : ~(y < x)
    BY <1>2
  <1> QED BY <1>3

\* Induction, for a set instead of a predicate.
LEMMA NatSetInduction ==
  ASSUME NEW S, 0 \in S, \A k \in Nat : k \in S => k + 1 \in S
  PROVE  Nat \subseteq S
PROOF
  <1> DEFINE T == {k \in Nat : k \notin S}
  <1>1. SUFFICES ASSUME T # {} PROVE FALSE
    OBVIOUS
  <1>2. T \subseteq Nat
    OBVIOUS
  <1> HIDE DEF T
  <1>3. PICK x \in T : \A y \in T : x <= y
    BY <1>1, <1>2, LeastNatural
  <1>4. x \in Nat /\ x \notin S /\ x # 0
    BY <1>3 DEF T
  <1>5. x - 1 \in Nat /\ x - 1 \notin T
    BY <1>3, <1>4, <1>2
  <1>6. x - 1 \in S
    BY <1>5 DEF T
  <1> QED BY <1>4, <1>5, <1>6

(***************************************************************************)
(* Lists                                                                   *)
(***************************************************************************)

\* What is left of a list is a list of the elements that are not gone
\* (removal from Executor::addedStates and from the searchers' lists).
LEMMA KeptProperties ==
  ASSUME NEW S, NEW q \in Seq(S), NEW gone
  PROVE  Kept(q, gone) \in Seq(S) /\ ToSet(Kept(q, gone)) = ToSet(q) \ gone
PROOF
  <1> DEFINE at == {i \in DOMAIN q : q[i] \notin gone}
             upTo(i) == {j \in at : j <= i}
             rank == [i \in at |-> Cardinality(upTo(i))]
             N == Cardinality(at)
             nth(n) == CHOOSE i \in at : Cardinality({j \in at : j <= i}) = n
  <1>1. Len(q) \in Nat /\ DOMAIN q = 1..Len(q) /\ \A i \in DOMAIN q : q[i] \in S
    OBVIOUS
  <1>2. at \in SUBSET (1..Len(q)) /\ IsFiniteSet(1..Len(q))
    BY <1>1, FS_Interval
  <1>3. IsFiniteSet(at) /\ N \in Nat
    BY <1>2, FS_Subset, FS_CardinalityType
  <1>a. \A i \in at : i \in Nat
    BY <1>2
  <1> HIDE DEF at
  <1>4. ASSUME NEW i \in at
        PROVE  upTo(i) \in SUBSET at /\ IsFiniteSet(upTo(i)) /\ rank[i] \in 1..N
    <2>1. upTo(i) \in SUBSET at /\ upTo(i) # {}
      BY <1>a
    <2>2. IsFiniteSet(upTo(i)) /\ Cardinality(upTo(i)) <= N /\ Cardinality(upTo(i)) \in Nat
      BY <2>1, <1>3, FS_Subset, FS_CardinalityType
    <2>3. Cardinality(upTo(i)) # 0
      BY <2>1, <2>2, FS_EmptySet
    <2> QED BY <2>1, <2>2, <2>3, <1>3
  <1>5. ASSUME NEW i \in at, NEW j \in at, i < j
        PROVE  rank[i] # rank[j]
    <2>1. upTo(i) \in SUBSET upTo(j) /\ j \in upTo(j) /\ j \notin upTo(i)
      BY <1>a, <1>5
    <2>2. Cardinality(upTo(i)) # Cardinality(upTo(j))
      BY <2>1, <1>4, FS_Subset
    <2> QED BY <2>2
  <1>6. rank \in Injection(at, 1..N)
    <2>1. rank \in [at -> 1..N]
      BY <1>4
    <2>3. DOMAIN rank = at
      OBVIOUS
    <2> HIDE DEF rank
    <2>2. ASSUME NEW i \in at, NEW j \in at, rank[i] = rank[j] PROVE i = j
      <3>1. ~(i < j) /\ ~(j < i)
        BY <1>5, <2>2
      <3> QED BY <3>1, <1>a
    <2> QED BY <2>1, <2>2, <2>3 DEF Injection, IsInjective
  <1>7. rank \in Surjection(at, 1..N)
    <2>1. IsFiniteSet(1..N) /\ Cardinality(1..N) = N
      BY <1>3, FS_Interval
    <2> QED BY <2>1, <1>6, FS_Injection
  <1>8. \A n \in 1..N : \E i \in at : Cardinality(upTo(i)) = n
    BY <1>7 DEF Surjection
  <1>9. \A n \in 1..N : nth(n) \in at /\ Cardinality(upTo(nth(n))) = n
    BY <1>8
  <1> DEFINE k == [n \in 1..N |-> q[nth(n)]]
  <1>10. Kept(q, gone) = k
    BY DEF Kept, at
  <1>11. k \in Seq(S)
    <2>1. \A n \in 1..N : q[nth(n)] \in S
      BY <1>9, <1>1 DEF at
    <2> HIDE DEF nth
    <2>2. k \in [1..N -> S]
      BY <2>1
    <2> HIDE DEF k
    <2> QED BY <2>2, <1>3
  <1>12. \A i \in at : \E n \in 1..N : nth(n) = i
    <2> TAKE i \in at
    <2>1. rank[i] \in 1..N /\ nth(rank[i]) \in at /\ Cardinality(upTo(nth(rank[i]))) = rank[i]
      BY <1>4, <1>9
    <2>2. rank[nth(rank[i])] = rank[i]
      BY <2>1
    <2>3. nth(rank[i]) = i
      BY <2>1, <2>2, <1>6 DEF Injection, IsInjective
    <2> QED BY <2>1, <2>3
  <1> HIDE DEF nth
  <1>13. ToSet(k) = {q[i] : i \in at}
    <2>1. ToSet(k) = {k[n] : n \in 1..N}
      BY <1>3 DEF ToSet
    <2>2. \A n \in 1..N : k[n] = q[nth(n)] /\ nth(n) \in at
      BY <1>9
    <2> QED BY <2>1, <2>2, <1>12
  <1>14. {q[i] : i \in at} = ToSet(q) \ gone
    BY DEF at, ToSet
  <1> QED BY <1>10, <1>11, <1>13, <1>14

\* Appending to a sequence of anything.
LEMMA AppendASeq ==
  ASSUME NEW s, Sequential(s), NEW x
  PROVE  /\ Sequential(Append(s, x)) /\ Len(s) \in Nat /\ Len(Append(s, x)) = Len(s) + 1
         /\ DOMAIN s = 1..Len(s) /\ DOMAIN Append(s, x) = 1..Len(s) + 1
         /\ \A i \in 1..Len(s) : Append(s, x)[i] = s[i]
         /\ Append(s, x)[Len(s) + 1] = x
PROOF
  <1>1. PICK V : s \in Seq(V)
    BY DEF Sequential
  <1> DEFINE W == V \cup {x}
  <1>2. s \in Seq(W) /\ x \in W
    <2>1. s \in [1..Len(s) -> V] /\ Len(s) \in Nat
      BY <1>1
    <2>2. s \in [1..Len(s) -> W]
      BY <2>1
    <2> QED BY <2>1, <2>2
  <1> HIDE DEF W
  <1>3. Append(s, x) \in Seq(W)
    BY <1>2
  <1>4. Sequential(Append(s, x))
    BY <1>3 DEF Sequential
  <1> QED BY <1>2, <1>4

(***************************************************************************)
(* What rows add up to                                                     *)
(***************************************************************************)

HasCosts(rows) == Sequential(rows) /\ \A i \in DOMAIN rows : rows[i].cost \in Int

\* CostOf is the running sum of the query times: the recursion of its definition
\* has a solution, of integers.
LEMMA CostOfSums ==
  ASSUME NEW rows, HasCosts(rows)
  PROVE  /\ CostOf(rows)[0] = 0
         /\ \A n \in 1..Len(rows) : CostOf(rows)[n] = CostOf(rows)[n - 1] + rows[n].cost
         /\ \A n \in 0..Len(rows) : CostOf(rows)[n] \in Int
PROOF
  <1> DEFINE N == Len(rows)
             Sums(f, k) == /\ f \in [0..k -> Int] /\ f[0] = 0
                           /\ \A n \in 1..k : f[n] = f[n - 1] + rows[n].cost
             S == {k \in Nat : k <= N => \E f : Sums(f, k)}
  <1>1. N \in Nat /\ \A n \in 1..N : rows[n].cost \in Int
    BY DEF HasCosts, Sequential
  <1>2. 0 \in S
    <2>1. Sums([n \in 0..0 |-> 0], 0)
      OBVIOUS
    <2> QED BY <2>1
  <1>3. ASSUME NEW k \in Nat, k \in S PROVE k + 1 \in S
    <2> SUFFICES ASSUME k + 1 <= N PROVE \E f : Sums(f, k + 1)
      <3> HIDE DEF Sums
      <3> QED OBVIOUS
    <2>1. PICK f : Sums(f, k)
      <3> HIDE DEF Sums
      <3> QED BY <1>3, <1>1
    <2> DEFINE g == [n \in 0..k + 1 |-> IF n = k + 1 THEN f[k] + rows[k + 1].cost ELSE f[n]]
    <2>2. f[k] \in Int /\ rows[k + 1].cost \in Int
      BY <2>1, <1>1
    <2>3. g \in [0..k + 1 -> Int] /\ g[0] = 0
      BY <2>1, <2>2
    <2>4. ASSUME NEW n \in 1..k + 1 PROVE g[n] = g[n - 1] + rows[n].cost
      <3>1. CASE n = k + 1
        <4>1. g[n] = f[k] + rows[n].cost /\ g[n - 1] = f[k]
          BY <3>1
        <4> QED BY <4>1
      <3>2. CASE n # k + 1
        <4>1. n \in 1..k /\ g[n] = f[n] /\ g[n - 1] = f[n - 1]
          BY <3>2
        <4> QED BY <4>1, <2>1
      <3> QED BY <3>1, <3>2
    <2> QED BY <2>3, <2>4
  <1>4. Nat \subseteq S
    <2> HIDE DEF S
    <2> QED BY <1>2, <1>3, NatSetInduction
  <1>5. PICK f : Sums(f, N)
    <2>1. N \in S
      BY <1>1, <1>4
    <2> HIDE DEF Sums
    <2> QED BY <1>1, <2>1
  <1> DEFINE Step(g) == [n \in 0..Len(rows) |-> IF n = 0 THEN 0 ELSE g[n - 1] + rows[n].cost]
  <1>6. f = Step(f)
    <2>1. \A n \in 0..N : Step(f)[n] = f[n]
      BY <1>1, <1>5
    <2> QED BY <2>1, <1>5
  <1>7. CostOf(rows) = Step(CostOf(rows))
    <2>1. CostOf(rows) = CHOOSE g : g = Step(g)
      BY DEF CostOf
    <2> HIDE DEF Step
    <2> QED BY <2>1, <1>6
  <1> DEFINE h == CostOf(rows)
  <1>8. /\ h[0] = 0 /\ \A n \in 1..N : h[n] = h[n - 1] + rows[n].cost
    <2> HIDE DEF h
    <2>1. h = Step(h)
      BY <1>7 DEF h
    <2> QED BY <2>1, <1>1
  <1> DEFINE R == {k \in Nat : k <= N => h[k] \in Int}
  <1>9. Nat \subseteq R
    <2> HIDE DEF h
    <2>1. 0 \in R
      BY <1>8
    <2>2. ASSUME NEW k \in Nat, k \in R PROVE k + 1 \in R
      BY <2>2, <1>8, <1>1
    <2> HIDE DEF R
    <2> QED BY <2>1, <2>2, NatSetInduction
  <1> HIDE DEF h
  <1>10. \A n \in 0..N : h[n] \in Int
    BY <1>1, <1>9
  <1> QED BY <1>8, <1>10 DEF h

\* A further row does not change what those before it add up to
\* (GetFeaturesSearcher::addFeatures only appends).
LEMMA CostOfAppend ==
  ASSUME NEW rows, HasCosts(rows), NEW r, r.cost \in Int
  PROVE  /\ HasCosts(Append(rows, r))
         /\ \A n \in 0..Len(rows) : CostOf(Append(rows, r))[n] = CostOf(rows)[n]
         /\ CostOf(Append(rows, r))[Len(rows) + 1] = CostOf(rows)[Len(rows)] + r.cost
PROOF
  <1> DEFINE more == Append(rows, r)
             N == Len(rows)
  <1>1. /\ Sequential(more) /\ N \in Nat /\ Len(more) = N + 1
        /\ DOMAIN rows = 1..N /\ DOMAIN more = 1..N + 1
        /\ \A i \in 1..N : more[i] = rows[i]
        /\ more[N + 1] = r
    BY AppendASeq DEF HasCosts
  <1> HIDE DEF more
  <1>2. HasCosts(more)
    BY <1>1 DEF HasCosts
  <1>3. /\ CostOf(rows)[0] = 0
        /\ \A n \in 1..N : CostOf(rows)[n] = CostOf(rows)[n - 1] + rows[n].cost
    BY CostOfSums
  <1>4. /\ CostOf(more)[0] = 0
        /\ \A n \in 1..N + 1 : CostOf(more)[n] = CostOf(more)[n - 1] + more[n].cost
    BY <1>1, <1>2, CostOfSums
  <1> DEFINE S == {k \in Nat : k <= N => CostOf(more)[k] = CostOf(rows)[k]}
  <1>5. 0 \in S
    BY <1>3, <1>4
  <1>6. ASSUME NEW k \in Nat, k \in S PROVE k + 1 \in S
    BY <1>1, <1>3, <1>4, <1>6
  <1>7. Nat \subseteq S
    <2> HIDE DEF S
    <2> QED BY <1>5, <1>6, NatSetInduction
  <1>8. \A n \in 0..N : CostOf(more)[n] = CostOf(rows)[n]
    BY <1>7, <1>1
  <1>9. CostOf(more)[N + 1] = CostOf(rows)[N] + r.cost
    BY <1>1, <1>4, <1>8
  <1> QED BY <1>2, <1>8, <1>9 DEF more

(***************************************************************************)
(* One state                                                               *)
(***************************************************************************)

\* The query time without a row is a number, and so is the new coverage, which
\* is the difference to the last row: coverage never shrinks
\* (Executor::getStateFeatures).
LEMMA NewNumbers ==
  ASSUME NEW e, IsEntry(e), NEW n, RowsRight(e, n)
  PROVE  /\ HasCosts(e.features) /\ costSince(e) \in Int
         /\ Len(e.features) \in Nat /\ DOMAIN e.features = 1..Len(e.features)
         /\ Cardinality(e.coveredInsts) \in Nat
         /\ newCovered(e) \in Nat
         /\ newCovered(e) = Cardinality(e.coveredInsts)
                            - (IF Len(e.features) = 0 THEN 0 ELSE e.features[Len(e.features)].cov)
PROOF
  <1> DEFINE rows == e.features
             N == Len(rows)
             C == Cardinality(e.coveredInsts)
  <1>1. HasCosts(rows)
    BY DEF IsEntry, HasCosts, IsRow, IsVector
  <1>2. N \in Nat /\ DOMAIN rows = 1..N
    BY <1>1 DEF HasCosts, Sequential
  <1>3. costSince(e) \in Int
    <2>1. CostOf(rows)[N] \in Int
      BY <1>1, <1>2, CostOfSums
    <2> QED BY <2>1 DEF costSince, IsEntry
  <1>4. C \in Nat
    BY FS_CardinalityType DEF IsEntry
  <1>5. \A i \in 1..N : rows[i].cov \in Nat /\ rows[i].cov <= C
    BY <1>2 DEF IsEntry, IsRow, IsVector, RowsRight
  <1>6. rows = << >> <=> N = 0
    BY <1>1 DEF HasCosts, Sequential
  <1>7. newCovered(e) = C - (IF N = 0 THEN 0 ELSE rows[N].cov) /\ newCovered(e) \in Nat
    <2>1. newCovered(e) = LET before == IF rows = << >> THEN 0 ELSE rows[N].cov
                          IN  IF C < before THEN 0 ELSE C - before
      BY DEF newCovered, Last
    <2> HIDE DEF rows, N, C
    <2>2. CASE N = 0
      BY <2>1, <2>2, <1>4, <1>6
    <2>3. CASE N # 0
      <3>1. N \in 1..N
        BY <1>2, <2>3
      <3>2. newCovered(e) = IF C < rows[N].cov THEN 0 ELSE C - rows[N].cov
        BY <2>1, <2>3, <1>6
      <3> QED BY <3>1, <3>2, <2>3, <1>4, <1>5
    <2> QED BY <2>2, <2>3
  <1> QED BY <1>1, <1>2, <1>3, <1>4, <1>7

\* The computed vector is the truth about the path (Executor::getStateFeatures).
LEMMA ComputedVector ==
  ASSUME NEW e
  PROVE  /\ DOMAIN getStateFeatures(e) = Fields
         /\ Own(getStateFeatures(e)) = Truth(e)
         /\ getStateFeatures(e).new = newCovered(e)
         /\ getStateFeatures(e).cost = costSince(e) /\ getStateFeatures(e).acc = e.queryCost
         /\ getStateFeatures(e).cov = Cardinality(e.coveredInsts)
  BY DEF getStateFeatures, Own, Truth, Fields

\* What the truth about a path depends on.
LEMMA SameTruth ==
  ASSUME NEW e, NEW f, f.queryCost = e.queryCost, f.coveredInsts = e.coveredInsts,
         f.depth = e.depth, f.constraints = e.constraints, f.features = e.features
  PROVE  Truth(f) = Truth(e) /\ newCovered(f) = newCovered(e)
  BY DEF Truth, newCovered, costSince

\* A change of a state that appends no row and keeps its vector.
LEMMA SameRows ==
  ASSUME NEW e, IsEntry(e), NEW f, DOMAIN f = StateFields,
         f.features = e.features, f.hidden = e.hidden, f.feature = e.feature,
         f.predicted \in BOOLEAN, f.queryCost \in Int, IsFiniteSet(f.coveredInsts),
         Cardinality(e.coveredInsts) <= Cardinality(f.coveredInsts)
  PROVE  /\ IsEntry(f)
         /\ \A n : RowsRight(e, n) => RowsRight(f, n)
         /\ Fed(e) /\ f.predicted = e.predicted => Fed(f)
PROOF
  <1>1. IsEntry(f)
    BY DEF IsEntry
  <1>2. ASSUME NEW n, RowsRight(e, n) PROVE RowsRight(f, n)
    <2>1. Cardinality(e.coveredInsts) \in Nat /\ Cardinality(f.coveredInsts) \in Nat
      BY FS_CardinalityType DEF IsEntry
    <2>2. \A i \in DOMAIN e.features : e.features[i].cov \in Nat
      BY DEF IsEntry, IsRow, IsVector
    <2> QED BY <1>2, <2>1, <2>2 DEF RowsRight
  <1>3. Fed(e) /\ f.predicted = e.predicted => Fed(f)
    BY DEF Fed
  <1> QED BY <1>1, <1>2, <1>3

\* GetFeaturesSearcher::selectState: a state whose vector is computed anew.
LEMMA RefreshedEntry ==
  ASSUME NEW e, IsEntry(e), NEW n, RowsRight(e, n),
         NEW f, f = [e EXCEPT !.predicted = FALSE, !.feature = getStateFeatures(e)]
  PROVE  /\ IsEntry(f) /\ RowsRight(f, n) /\ UpToDate(f)
         /\ ~f.predicted
         /\ Fed(e) /\ ~e.predicted => Fed(f)
PROOF
  <1>1. /\ DOMAIN f = StateFields
        /\ f.queryCost = e.queryCost /\ f.coveredInsts = e.coveredInsts /\ f.depth = e.depth
        /\ f.constraints = e.constraints /\ f.features = e.features /\ f.hidden = e.hidden
        /\ f.predicted = FALSE /\ f.feature = getStateFeatures(e)
    BY DEF IsEntry, StateFields
  <1>2. IsVector(f.feature)
    BY <1>1, ComputedVector, NewNumbers DEF IsVector, IsEntry
  <1>3. IsEntry(f)
    BY <1>1, <1>2, ComputedVector DEF IsEntry
  <1>4. RowsRight(f, n)
    BY <1>1 DEF RowsRight
  <1>5. UpToDate(f)
    BY <1>1, ComputedVector, SameTruth DEF UpToDate
  <1>6. Fed(e) /\ ~e.predicted => Fed(f)
    BY <1>1 DEF Fed
  <1> QED BY <1>1, <1>3, <1>4, <1>5, <1>6

\* GetFeaturesSearcher::addFeatures: a vector that is up to date makes a right row.
LEMMA AddedRow ==
  ASSUME NEW e, IsEntry(e), UpToDate(e), NEW n \in Nat, RowsRight(e, n)
  PROVE  /\ IsEntry(addFeatures(e, n)) /\ RowsRight(addFeatures(e, n), n + 1)
         /\ addFeatures(e, n).predicted = e.predicted /\ addFeatures(e, n).hidden = e.hidden
PROOF
  <1> DEFINE f == addFeatures(e, n)
             r == Put(e.feature, "index", n)
             rows == e.features
             N == Len(rows)
             C == Cardinality(e.coveredInsts)
  <1>1. /\ DOMAIN r = Fields \cup {"index"} /\ r.index = n
        /\ r.cost = e.feature.cost /\ r.acc = e.feature.acc
        /\ r.cov = e.feature.cov /\ r.new = e.feature.new
    BY DEF Put, IsEntry, Fields
  <1>2. IsRow(r)
    BY <1>1 DEF IsEntry, IsRow, IsVector
  <1>3. /\ DOMAIN f = StateFields /\ f.features = Append(rows, r)
        /\ f.queryCost = e.queryCost /\ f.coveredInsts = e.coveredInsts
        /\ f.predicted = e.predicted /\ f.feature = e.feature /\ f.hidden = e.hidden
    BY DEF IsEntry, StateFields, addFeatures
  <1> HIDE DEF f, r
  <1>4. /\ Sequential(f.features) /\ N \in Nat /\ Len(f.features) = N + 1
        /\ DOMAIN rows = 1..N /\ DOMAIN f.features = 1..N + 1
        /\ \A i \in 1..N : f.features[i] = rows[i]
        /\ f.features[N + 1] = r
    BY <1>3, AppendASeq DEF IsEntry
  <1>5. IsEntry(f)
    <2>1. \A i \in 1..N + 1 : IsRow(f.features[i])
      BY <1>2, <1>4 DEF IsEntry
    <2> QED BY <1>3, <1>4, <2>1 DEF IsEntry
  <1>6. /\ r.cost = costSince(e) /\ r.acc = e.queryCost /\ r.cov = C /\ r.new = newCovered(e)
    BY <1>1 DEF UpToDate, Own, Truth
  <1>7. HasCosts(rows) /\ C \in Nat
        /\ newCovered(e) = C - (IF N = 0 THEN 0 ELSE rows[N].cov)
    BY NewNumbers
  <1>8. /\ \A i \in 0..N : CostOf(f.features)[i] = CostOf(rows)[i]
        /\ CostOf(f.features)[N + 1] = CostOf(rows)[N] + r.cost
    <2>1. r.cost \in Int
      BY <1>2 DEF IsRow, IsVector
    <2> HIDE DEF rows
    <2>2. /\ \A i \in 0..N : CostOf(Append(rows, r))[i] = CostOf(rows)[i]
          /\ CostOf(Append(rows, r))[N + 1] = CostOf(rows)[N] + r.cost
      BY <2>1, <1>7, CostOfAppend
    <2> QED BY <2>2, <1>3 DEF rows
  <1>9. CostOf(f.features)[N + 1] = e.queryCost
    <2>1. CostOf(rows)[N] \in Int /\ e.queryCost \in Int
      BY <1>4, <1>7, CostOfSums DEF IsEntry
    <2> QED BY <1>6, <1>8, <2>1 DEF costSince
  <1>10. RowsRight(f, n + 1)
    <2> SUFFICES ASSUME NEW i \in 1..N + 1
                 PROVE  /\ f.features[i].acc = CostOf(f.features)[i]
                        /\ f.features[i].new = f.features[i].cov - (IF i = 1 THEN 0 ELSE f.features[i - 1].cov)
                        /\ i > 1 => f.features[i - 1].index < f.features[i].index
                        /\ f.features[i].index < n + 1
                        /\ f.features[i].cov <= C
      BY <1>3, <1>4 DEF RowsRight
    <2>1. CASE i = N + 1
      <3>1. f.features[i] = r /\ (i > 1 => f.features[i - 1] = rows[N] /\ N \in 1..N)
        BY <1>4, <2>1
      <3>2. i > 1 => rows[N].index < n
        BY <1>4, <3>1 DEF RowsRight
      <3>3. r.new = C - (IF i = 1 THEN 0 ELSE f.features[i - 1].cov)
        BY <1>4, <1>6, <1>7, <2>1, <3>1
      <3> QED BY <1>1, <1>6, <1>7, <1>9, <2>1, <3>1, <3>2, <3>3
    <2>2. CASE i # N + 1
      <3>1. i \in 1..N /\ f.features[i] = rows[i] /\ CostOf(f.features)[i] = CostOf(rows)[i]
            /\ (i > 1 => f.features[i - 1] = rows[i - 1])
        BY <1>4, <1>8, <2>2
      <3>2. /\ rows[i].acc = CostOf(rows)[i]
            /\ rows[i].new = rows[i].cov - (IF i = 1 THEN 0 ELSE rows[i - 1].cov)
            /\ i > 1 => rows[i - 1].index < rows[i].index
            /\ rows[i].index < n /\ rows[i].cov <= C
        BY <3>1, <1>4 DEF RowsRight
      <3>3. rows[i].index \in Nat
        BY <3>1, <1>4 DEF IsEntry, IsRow
      <3> QED BY <3>1, <3>2, <3>3
    <2> QED BY <2>1, <2>2
  <1> QED BY <1>3, <1>5, <1>10 DEF f

\* The rows of a path that got none are older than the next one, too.
LEMMA LaterRows ==
  ASSUME NEW e, IsEntry(e), NEW n \in Nat, RowsRight(e, n)
  PROVE  RowsRight(e, n + 1)
PROOF
  <1>1. \A i \in DOMAIN e.features : e.features[i].index \in Nat
    BY DEF IsEntry, IsRow
  <1> QED BY <1>1 DEF RowsRight

\* What is recorded of a path that was just fed is what it was fed
\* (MLSearcher::selectState, then GetFeaturesSearcher::addFeatures).
LEMMA RecordedFed ==
  ASSUME NEW e, IsEntry(e), ~e.predicted, NEW n,
         e.hidden = [i \in DOMAIN e.features |-> Input(e.features[i])] \o <<Input(e.feature)>>
  PROVE  Fed(addFeatures(e, n))
PROOF
  <1> DEFINE f == addFeatures(e, n)
             r == Put(e.feature, "index", n)
             rows == e.features
             N == Len(rows)
             past == [i \in DOMAIN rows |-> Input(rows[i])]
             all == [i \in DOMAIN f.features |-> Input(f.features[i])]
             x == Input(e.feature)
  <1>1. Input(r) = x
    <2>1. \A k \in {"cov", "new", "depth", "sgs", "bow"} : r[k] = e.feature[k]
      BY DEF Put, IsEntry, Fields
    <2> QED BY <2>1 DEF Input
  <1>2. f.features = Append(rows, r) /\ f.hidden = e.hidden /\ ~f.predicted
    BY DEF IsEntry, StateFields, addFeatures
  <1> HIDE DEF f, r, x
  <1>3. /\ N \in Nat /\ DOMAIN rows = 1..N /\ DOMAIN f.features = 1..N + 1
        /\ \A i \in 1..N : f.features[i] = rows[i]
        /\ f.features[N + 1] = r
    BY <1>2, AppendASeq DEF IsEntry
  <1>4. all = past \o <<x>>
    <2> DEFINE W == {past[i] : i \in 1..N} \cup {x}
    <2>1. past \in [1..N -> W]
      BY <1>3
    <2>2. past \in Seq(W) /\ <<x>> \in Seq(W) /\ Len(past) = N
      <3> HIDE DEF W, past
      <3>1. past \in Seq(W)
        BY <1>3, <2>1
      <3>2. x \in W
        BY DEF W
      <3> QED BY <1>3, <2>1, <3>1, <3>2
    <2>3. /\ DOMAIN (past \o <<x>>) = 1..N + 1
          /\ \A i \in 1..N : (past \o <<x>>)[i] = past[i]
          /\ (past \o <<x>>)[N + 1] = x
          /\ past \o <<x>> \in Seq(W) /\ Len(past \o <<x>>) = N + 1
      <3> HIDE DEF W, past
      <3> QED BY <2>2, <1>3
    <2>4. \A i \in 1..N : past[i] = all[i]
      BY <1>3
    <2>5. all[N + 1] = x /\ DOMAIN all = 1..N + 1
      BY <1>1, <1>3
    <2> DEFINE z == past \o <<x>>
    <2>6. z \in [1..N + 1 -> W]
      <3>1. z \in Seq(W) /\ Len(z) = N + 1
        BY <2>3
      <3> HIDE DEF W, z
      <3> QED BY <3>1, <1>3
    <2>7. all \in [1..N + 1 -> W]
      <3>1. \A i \in 1..N : past[i] \in W
        OBVIOUS
      <3>2. x \in W
        OBVIOUS
      <3>3. all = [i \in 1..N + 1 |-> all[i]]
        BY <1>3
      <3> HIDE DEF all, past, W
      <3>4. \A i \in 1..N + 1 : all[i] \in W
        BY <1>3, <2>4, <2>5, <3>1, <3>2
      <3> QED BY <3>3, <3>4
    <2>8. \A i \in 1..N + 1 : all[i] = z[i]
      <3> HIDE DEF all, past, W
      <3> QED BY <2>3, <2>4, <2>5, <1>3
    <2> HIDE DEF all, z, W
    <2>9. all = z
      BY <2>6, <2>7, <2>8
    <2> QED BY <2>9 DEF z
  <1>5. f.hidden = all \o << >>
    <2> DEFINE W == {all[i] : i \in 1..N + 1}
    <2>1. all \in [1..N + 1 -> W]
      BY <1>3
    <2> HIDE DEF W, all
    <2>2. all \in Seq(W)
      BY <1>3, <2>1
    <2>3. all \o << >> = all
      BY <2>2, ConcatEmptySeq
    <2> QED BY <1>2, <1>4, <2>3 DEF x
  <1> QED BY <1>2, <1>5 DEF Fed, f

\* MLSearcher::selectState: a state that is rated is fed its vector.
LEMMA PredictedEntry ==
  ASSUME NEW e, IsEntry(e), ~e.predicted, NEW v,
         NEW f, f = [e EXCEPT !.predicted = TRUE, !.reward = v, !.hidden = Append(@, Input(e.feature))]
  PROVE  /\ IsEntry(f) /\ f.predicted
         /\ \A n : RowsRight(e, n) => RowsRight(f, n)
         /\ UpToDate(e) => UpToDate(f)
         /\ Fed(e) => Fed(f)
PROOF
  <1> DEFINE x == Input(e.feature)
  <1>1. /\ DOMAIN f = StateFields /\ f.predicted = TRUE /\ f.hidden = Append(e.hidden, x)
        /\ f.queryCost = e.queryCost /\ f.coveredInsts = e.coveredInsts /\ f.depth = e.depth
        /\ f.constraints = e.constraints /\ f.features = e.features /\ f.feature = e.feature
    BY DEF IsEntry, StateFields
  <1> HIDE DEF x
  <1>2. IsEntry(f)
    <2>1. Sequential(f.hidden)
      BY <1>1, AppendASeq DEF IsEntry
    <2> QED BY <1>1, <2>1 DEF IsEntry
  <1>3. \A n : RowsRight(e, n) => RowsRight(f, n)
    BY <1>1 DEF RowsRight
  <1>4. UpToDate(e) => UpToDate(f)
    BY <1>1, SameTruth DEF UpToDate
  <1>5. ASSUME Fed(e) PROVE Fed(f)
    <2> DEFINE past == [i \in DOMAIN e.features |-> Input(e.features[i])]
               W == {past[i] : i \in DOMAIN e.features} \cup {x}
    <2>1. DOMAIN e.features = 1..Len(e.features) /\ Len(e.features) \in Nat
      BY DEF IsEntry, Sequential
    <2>2. past \in [1..Len(e.features) -> W] /\ x \in W
      BY <2>1
    <2>3. e.hidden = past \o << >>
      BY <1>5 DEF Fed
    <2>4. Fed(f) <=> f.hidden = past \o <<x>>
      <3>1. Fed(f) <=> f.hidden = [i \in DOMAIN f.features |-> Input(f.features[i])] \o <<Input(f.feature)>>
        <4>1. (IF f.predicted THEN <<Input(f.feature)>> ELSE << >>) = <<Input(f.feature)>>
          BY <1>1
        <4> QED BY <4>1 DEF Fed
      <3>2. [i \in DOMAIN f.features |-> Input(f.features[i])] = past
        BY <1>1
      <3>3. Input(f.feature) = x
        BY <1>1 DEF x
      <3> QED BY <3>1, <3>2, <3>3
    <2> HIDE DEF past, W
    <2>5. past \in Seq(W)
      BY <2>1, <2>2
    <2>6. past \o << >> = past
      BY <2>5, ConcatEmptySeq
    <2>7. Append(past, x) = past \o <<x>>
      BY <2>2, <2>5, AppendIsConcat
    <2> QED BY <1>1, <2>3, <2>4, <2>6, <2>7
  <1> QED BY <1>1, <1>2, <1>3, <1>4, <1>5

\* MLSearcher::selectState: the state it chooses is no longer predicted.
LEMMA ChosenEntry ==
  ASSUME NEW e, IsEntry(e), NEW f, f = [e EXCEPT !.predicted = FALSE, !.reward = 0]
  PROVE  /\ IsEntry(f) /\ ~f.predicted
         /\ \A n : RowsRight(e, n) => RowsRight(f, n)
         /\ UpToDate(e) => UpToDate(f)
         /\ f.hidden = e.hidden /\ f.features = e.features /\ f.feature = e.feature
PROOF
  <1>1. /\ DOMAIN f = StateFields /\ f.predicted = FALSE /\ f.hidden = e.hidden
        /\ f.queryCost = e.queryCost /\ f.coveredInsts = e.coveredInsts /\ f.depth = e.depth
        /\ f.constraints = e.constraints /\ f.features = e.features /\ f.feature = e.feature
    BY DEF IsEntry, StateFields
  <1>2. IsEntry(f)
    BY <1>1 DEF IsEntry
  <1>3. \A n : RowsRight(e, n) => RowsRight(f, n)
    BY <1>1 DEF RowsRight
  <1>4. UpToDate(e) => UpToDate(f)
    BY <1>1, SameTruth DEF UpToDate
  <1> QED BY <1>1, <1>2, <1>3, <1>4

(***************************************************************************)
(* Selection                                                               *)
(***************************************************************************)

\* Before a core searcher chooses, every vector is up to date
\* (GetFeaturesSearcher::selectState).
LEMMA AllRefreshed ==
  ASSUME LearnedInv, pc = "select", last = Null
  PROVE  LET es == RefreshFeatures IN
         /\ DOMAIN es = DOMAIN st
         /\ \A t \in DOMAIN st : /\ IsEntry(es[t]) /\ RowsRight(es[t], featureIndex) /\ UpToDate(es[t])
                                 /\ core = <<"ML">> => Fed(es[t])
PROOF
  <1> DEFINE es == RefreshFeatures
  <1>1. DOMAIN es = DOMAIN st /\ \A t \in DOMAIN st : es[t] = IF t \in featureStates THEN Refreshed(t) ELSE st[t]
    BY DEF RefreshFeatures
  <1>2. ASSUME NEW t \in DOMAIN st
        PROVE  /\ IsEntry(es[t]) /\ RowsRight(es[t], featureIndex) /\ UpToDate(es[t])
               /\ core = <<"ML">> => Fed(es[t])
    <2>1. IsEntry(st[t]) /\ RowsRight(st[t], featureIndex)
      BY DEF LearnedInv, Types, Rows
    <2>2. core = <<"ML">> => Fed(st[t]) /\ (t \in featureStates => ~st[t].predicted)
      BY DEF LearnedInv, Places, Histories
    <2>3. CASE t \in featureStates
      <3>1. es[t] = [st[t] EXCEPT !.predicted = FALSE, !.feature = getStateFeatures(st[t])]
        BY <1>1, <2>3 DEF Refreshed
      <3> QED BY <2>1, <2>2, <2>3, <3>1, RefreshedEntry
    <2>4. CASE t \notin featureStates
      <3>1. es[t] = st[t]
        BY <1>1, <2>4
      <3>2. t # last
        BY LearnedAssumption DEF LearnedInv, Types, Places, ToSet
      <3>3. UpToDate(st[t])
        BY <2>4, <3>2 DEF LearnedInv, Places, Vectors
      <3> QED BY <2>1, <2>2, <3>1, <3>3
    <2> QED BY <2>3, <2>4
  <1> QED BY <1>1, <1>2

\* A choice, whoever made it, is recorded (GetFeaturesSearcher::selectState).
LEMMA RecordKeeps ==
  ASSUME LearnedInv, pc = "select", last = Null, NEW es, NEW s \in ToSet(list), Record(es, s), NextTurn, pc' = "step",
         UNCHANGED <<core, list, added, removed, covered>>,
         DOMAIN es = DOMAIN st,
         \A t \in DOMAIN st : IsEntry(es[t]) /\ RowsRight(es[t], featureIndex) /\ UpToDate(es[t]),
         core = <<"ML">> =>
           /\ \A t \in DOMAIN st \ {s} : Fed(es[t])
           /\ ~es[s].predicted
           /\ es[s].hidden = [i \in DOMAIN es[s].features |-> Input(es[s].features[i])]
                             \o <<Input(es[s].feature)>>
  PROVE  LearnedInv'
PROOF
  <1>1. /\ added = << >> /\ removed = {} /\ featureIndex \in Nat /\ DOMAIN st = ToSet(list)
    BY DEF LearnedInv, Types, Places, ToSet
  <1>2. /\ DOMAIN st' = DOMAIN st
        /\ st'[s] = addFeatures(es[s], featureIndex)
        /\ \A t \in DOMAIN st \ {s} : st'[t] = es[t]
        /\ featureIndex' = featureIndex + 1 /\ featureStates' = {}
        /\ last' = s /\ current' = s
    BY <1>1 DEF Record
  <1>3. /\ IsEntry(st'[s]) /\ RowsRight(st'[s], featureIndex')
        /\ st'[s].predicted = es[s].predicted
    BY <1>1, <1>2, AddedRow
  <1>4. \A t \in DOMAIN st \ {s} : IsEntry(st'[t]) /\ RowsRight(st'[t], featureIndex') /\ UpToDate(st'[t])
    BY <1>1, <1>2, LaterRows
  <1>5. Types'
    <2>1. index' \in 1..Len(core)
      <3>1. core \in Seq({"ML", "SGS"}) /\ core # << >> /\ index \in 1..Len(core)
        BY LearnedAssumption DEF LearnedInv, Types
      <3> QED BY <3>1 DEF NextTurn
    <2>2. \A t \in DOMAIN st' : IsEntry(st'[t])
      BY <1>2, <1>3, <1>4
    <2> QED BY <1>1, <1>2, <2>1, <2>2 DEF LearnedInv, Types
  <1>6. Places'
    BY <1>1, <1>2 DEF LearnedInv, Places
  <1>7. Rows'
    BY <1>2, <1>3, <1>4 DEF Rows
  <1>8. Vectors'
    BY <1>2, <1>4 DEF Vectors
  <1>9. Histories'
    <2> SUFFICES ASSUME core = <<"ML">>
                 PROVE  /\ \A t \in DOMAIN st : Fed(st'[t])
                        /\ ~st'[s].predicted
      BY <1>2 DEF Histories
    <2>1. Fed(st'[s])
      BY <1>1, <1>2, RecordedFed
    <2> QED BY <1>2, <1>3, <2>1
  <1> QED BY <1>5, <1>6, <1>7, <1>8, <1>9 DEF LearnedInv

\* SubpathGuidedSearcher.
LEMMA SelectSGSKeeps == ASSUME LearnedInv, SelectSGS PROVE LearnedInv'
PROOF
  <1> DEFINE es == RefreshFeatures
  <1>1. PICK s \in LeastTaken(es) : Record(es, s)
    BY DEF SelectSGS
  <1>2. s \in ToSet(list)
    BY DEF LeastTaken
  <1>3. /\ pc = "select" /\ last = Null /\ NextTurn /\ pc' = "step"
        /\ UNCHANGED <<core, list, added, removed, covered>>
    BY DEF SelectSGS
  <1>4. /\ DOMAIN es = DOMAIN st
        /\ \A t \in DOMAIN st : IsEntry(es[t]) /\ RowsRight(es[t], featureIndex) /\ UpToDate(es[t])
    BY <1>3, AllRefreshed
  <1>5. core # <<"ML">>
    <2>1. core[index] = "SGS" /\ index \in 1..Len(core)
      BY DEF SelectSGS, Turn, LearnedInv, Types
    <2> QED BY <2>1
  <1> HIDE DEF es
  <1> QED BY <1>1, <1>2, <1>3, <1>4, <1>5, RecordKeeps

\* MLSearcher.
LEMMA SelectMLKeeps == ASSUME LearnedInv, SelectML PROVE LearnedInv'
PROOF
  <1> DEFINE rf == RefreshFeatures
  <1>1. PICK r \in [ToSet(list) -> Rewards] : \E s \in Best(predict(rf, r)) :
          Record([predict(rf, r) EXCEPT ![s].predicted = FALSE, ![s].reward = 0], s)
    BY DEF SelectML
  <1> DEFINE es == predict(rf, r)
             chosen(s) == [es EXCEPT ![s].predicted = FALSE, ![s].reward = 0]
  <1>2. PICK s \in Best(es) : Record(chosen(s), s)
    BY <1>1
  <1>3. /\ pc = "select" /\ last = Null /\ NextTurn /\ pc' = "step"
        /\ UNCHANGED <<core, list, added, removed, covered>>
    BY DEF SelectML
  <1>4. s \in ToSet(list)
    BY DEF Best, ToSet
  <1>5. /\ DOMAIN rf = DOMAIN st
        /\ \A t \in DOMAIN st : /\ IsEntry(rf[t]) /\ RowsRight(rf[t], featureIndex) /\ UpToDate(rf[t])
                                /\ core = <<"ML">> => Fed(rf[t])
    BY <1>3, AllRefreshed
  <1>6. DOMAIN st = ToSet(list)
    BY <1>3 DEF LearnedInv, Types, Places, ToSet
  <1> HIDE DEF rf
  <1>7. /\ DOMAIN es = DOMAIN st
        /\ \A t \in DOMAIN st :
             es[t] = IF rf[t].predicted THEN rf[t]
                     ELSE [rf[t] EXCEPT !.predicted = TRUE, !.reward = r[t],
                                        !.hidden = Append(@, Input(rf[t].feature))]
    BY <1>5 DEF predict
  <1>8. \A t \in DOMAIN st : /\ IsEntry(es[t]) /\ RowsRight(es[t], featureIndex) /\ UpToDate(es[t])
                             /\ es[t].predicted
                             /\ core = <<"ML">> => Fed(es[t])
    <2> TAKE t \in DOMAIN st
    <2>1. CASE rf[t].predicted
      BY <1>5, <1>7, <2>1
    <2>2. CASE ~rf[t].predicted
      <3>1. es[t] = [rf[t] EXCEPT !.predicted = TRUE, !.reward = r[t],
                                  !.hidden = Append(@, Input(rf[t].feature))]
        BY <1>7, <2>2
      <3> HIDE DEF es
      <3> QED BY <1>5, <2>2, <3>1, PredictedEntry
    <2> QED BY <2>1, <2>2
  <1> HIDE DEF es
  <1> DEFINE cs == chosen(s)
  <1>9. /\ DOMAIN cs = DOMAIN st
        /\ cs[s] = [es[s] EXCEPT !.predicted = FALSE, !.reward = 0]
        /\ \A t \in DOMAIN st \ {s} : cs[t] = es[t]
    BY <1>4, <1>6, <1>7
  <1>10. Record(cs, s)
    BY <1>2
  <1> HIDE DEF cs
  <1>11. /\ IsEntry(cs[s]) /\ RowsRight(cs[s], featureIndex) /\ UpToDate(cs[s]) /\ ~cs[s].predicted
         /\ cs[s].hidden = es[s].hidden /\ cs[s].features = es[s].features /\ cs[s].feature = es[s].feature
    BY <1>4, <1>6, <1>8, <1>9, ChosenEntry
  <1>12. core = <<"ML">> => es[s].hidden = [i \in DOMAIN es[s].features |-> Input(es[s].features[i])]
                                           \o <<Input(es[s].feature)>>
    BY <1>4, <1>6, <1>8 DEF Fed
  <1>13. \A t \in DOMAIN st : IsEntry(cs[t]) /\ RowsRight(cs[t], featureIndex) /\ UpToDate(cs[t])
    BY <1>8, <1>9, <1>11
  <1>14. core = <<"ML">> => \A t \in DOMAIN st \ {s} : Fed(cs[t])
    BY <1>8, <1>9
  <1>15. core = <<"ML">> => cs[s].hidden = [i \in DOMAIN cs[s].features |-> Input(cs[s].features[i])]
                                           \o <<Input(cs[s].feature)>>
    BY <1>11, <1>12
  <1> QED BY <1>3, <1>4, <1>9, <1>10, <1>11, <1>13, <1>14, <1>15, RecordKeeps

\* The path that was chosen goes on (BranchingSearcher).
LEMMA SelectSameKeeps == ASSUME LearnedInv, SelectSame PROVE LearnedInv'
PROOF
  <1>1. /\ pc = "select" /\ last # Null /\ current' = last /\ pc' = "step"
        /\ UNCHANGED <<core, st, list, featureIndex, index, added, removed, featureStates, last>>
    BY DEF SelectSame, searcher
  <1>2. Types' /\ Rows' /\ Vectors' /\ Histories'
    BY <1>1 DEF LearnedInv, Types, Rows, Vectors, Histories
  <1>3. Places'
    BY <1>1 DEF LearnedInv, Places
  <1> QED BY <1>2, <1>3 DEF LearnedInv

(***************************************************************************)
(* Instructions                                                            *)
(***************************************************************************)

\* Where the running state is.
LEMMA RunningPlace ==
  ASSUME LearnedInv, Running
  PROVE  /\ current = last /\ current \in ToSet(list) /\ current \in DOMAIN st /\ current \notin removed
         /\ current \notin ToSet(added) /\ current \in State
         /\ IsEntry(st[current]) /\ RowsRight(st[current], featureIndex)
         /\ core = <<"ML">> => Fed(st[current]) /\ ~st[current].predicted
PROOF
  <1>1. /\ current = last /\ current \in ToSet(list) /\ current \in DOMAIN st /\ current \notin removed
        /\ current \notin ToSet(added)
    BY DEF LearnedInv, Types, Places, Running
  <1>2. current \in State
    BY <1>1 DEF LearnedInv, Types, ToSet
  <1>3. IsEntry(st[current]) /\ RowsRight(st[current], featureIndex)
    BY <1>1 DEF LearnedInv, Types, Rows
  <1>4. core = <<"ML">> => Fed(st[current]) /\ ~st[current].predicted
    BY <1>1 DEF LearnedInv, Histories
  <1> QED BY <1>1, <1>2, <1>3, <1>4

\* An instruction changes the running state, which keeps its rows and its
\* vector, and may enter it for new features.
LEMMA CurrentKeeps ==
  ASSUME LearnedInv, Running, NEW f, DOMAIN f = StateFields,
         f.features = st[current].features, f.hidden = st[current].hidden,
         f.feature = st[current].feature, f.predicted = st[current].predicted,
         f.queryCost \in Int, IsFiniteSet(f.coveredInsts),
         Cardinality(st[current].coveredInsts) <= Cardinality(f.coveredInsts),
         st' = [st EXCEPT ![current] = f],
         featureStates' = featureStates \/ featureStates' = featureStates \cup {current},
         UNCHANGED <<core, list, featureIndex, index, added, removed, last, pc, current>>
  PROVE  LearnedInv'
PROOF
  <1>1. /\ current = last /\ current \in ToSet(list) /\ current \in DOMAIN st /\ current \notin removed
        /\ IsEntry(st[current]) /\ RowsRight(st[current], featureIndex)
        /\ core = <<"ML">> => Fed(st[current]) /\ ~st[current].predicted
    BY RunningPlace
  <1>2. f.predicted \in BOOLEAN
    BY <1>1 DEF IsEntry
  <1>3. IsEntry(f) /\ RowsRight(f, featureIndex) /\ (Fed(st[current]) => Fed(f))
    BY <1>1, <1>2, SameRows
  <1>4. /\ DOMAIN st' = DOMAIN st /\ st'[current] = f
        /\ \A t \in DOMAIN st \ {current} : st'[t] = st[t]
    BY <1>1
  <1>5. Types'
    BY <1>3, <1>4 DEF LearnedInv, Types
  <1>6. Places'
    BY <1>1, <1>4 DEF LearnedInv, Places
  <1>7. Rows'
    BY <1>3, <1>4 DEF LearnedInv, Rows
  <1>8. Vectors'
    BY <1>1, <1>4 DEF LearnedInv, Vectors
  <1>9. Histories'
    BY <1>1, <1>3, <1>4 DEF LearnedInv, Histories
  <1> QED BY <1>5, <1>6, <1>7, <1>8, <1>9 DEF LearnedInv

\* An instruction covers something new (StatsTracker::stepInstruction).
LEMMA CoverKeeps == ASSUME LearnedInv, Cover PROVE LearnedInv'
PROOF
  <1>1. PICK i : st' = [st EXCEPT ![current].coveredInsts = @ \cup {i}, ![current].coveredNew = TRUE]
    BY DEF Cover
  <1> DEFINE e == st[current]
             f == [e EXCEPT !.coveredInsts = @ \cup {i}, !.coveredNew = TRUE]
  <1>2. Running /\ UNCHANGED <<core, list, featureIndex, index, added, removed, featureStates, last, pc, current>>
    BY DEF Cover, searcher
  <1>3. IsEntry(e) /\ current \in DOMAIN st
    BY <1>2, RunningPlace
  <1>4. /\ DOMAIN f = StateFields /\ f.features = e.features /\ f.hidden = e.hidden
        /\ f.feature = e.feature /\ f.predicted = e.predicted /\ f.queryCost = e.queryCost
        /\ f.coveredInsts = e.coveredInsts \cup {i}
    BY <1>3 DEF IsEntry, StateFields
  <1>5. st' = [st EXCEPT ![current] = f]
    BY <1>1
  <1>6. IsFiniteSet(f.coveredInsts) /\ Cardinality(e.coveredInsts) <= Cardinality(f.coveredInsts)
    <2>1. IsFiniteSet(e.coveredInsts) /\ Cardinality(e.coveredInsts) \in Nat
      BY <1>3, FS_CardinalityType DEF IsEntry
    <2> HIDE DEF f, e
    <2> QED BY <2>1, <1>4, FS_AddElement
  <1>7. f.queryCost \in Int
    BY <1>3, <1>4 DEF IsEntry
  <1> HIDE DEF f
  <1> QED BY <1>2, <1>4, <1>5, <1>6, <1>7, CurrentKeeps

\* A query takes time (TimingSolver).
LEMMA QueryKeeps == ASSUME LearnedInv, Query PROVE LearnedInv'
PROOF
  <1> DEFINE e == st[current]
             f == [e EXCEPT !.queryCost = @ + 1]
  <1>1. st' = [st EXCEPT ![current] = f]
    BY DEF Query
  <1>2. Running /\ UNCHANGED <<core, list, featureIndex, index, added, removed, featureStates, last, pc, current>>
    BY DEF Query, searcher
  <1>3. IsEntry(e)
    BY <1>2, RunningPlace
  <1>4. /\ DOMAIN f = StateFields /\ f.features = e.features /\ f.hidden = e.hidden
        /\ f.feature = e.feature /\ f.predicted = e.predicted /\ f.queryCost \in Int
        /\ f.coveredInsts = e.coveredInsts /\ IsFiniteSet(f.coveredInsts)
    BY <1>3 DEF IsEntry, StateFields
  <1>5. Cardinality(e.coveredInsts) <= Cardinality(f.coveredInsts)
    BY <1>3, <1>4, FS_CardinalityType
  <1> HIDE DEF f
  <1> QED BY <1>1, <1>2, <1>4, <1>5, CurrentKeeps

\* A branch that goes one way (Executor::fork).
LEMMA BranchOneWayKeeps == ASSUME LearnedInv, BranchOneWay PROVE LearnedInv'
PROOF
  <1> DEFINE e == st[current]
  <1>1. PICK dir \in {0, 1}, c \in Condition : \E forced \in BOOLEAN :
          st' = [st EXCEPT ![current] = IF forced THEN Take(@, dir, c)
                                        ELSE Went(@, dir)]
    BY DEF BranchOneWay
  <1>2. PICK forced \in BOOLEAN :
          st' = [st EXCEPT ![current] = IF forced THEN Take(@, dir, c)
                                        ELSE Went(@, dir)]
    BY <1>1
  <1> DEFINE f == IF forced THEN Take(e, dir, c) ELSE Went(e, dir)
  <1>3. st' = [st EXCEPT ![current] = f]
    <2>1. CASE forced
      BY <1>2, <2>1
    <2>2. CASE ~forced
      BY <1>2, <2>2
    <2> QED BY <2>1, <2>2
  <1>4. /\ Running /\ featureStates' = featureStates \cup {current}
        /\ UNCHANGED <<core, list, featureIndex, index, added, removed, last, pc, current>>
    BY DEF BranchOneWay, searcher
  <1>5. IsEntry(e)
    BY <1>4, RunningPlace
  <1>6. /\ DOMAIN f = StateFields /\ f.features = e.features /\ f.hidden = e.hidden
        /\ f.feature = e.feature /\ f.predicted = e.predicted /\ f.queryCost \in Int
        /\ f.coveredInsts = e.coveredInsts /\ IsFiniteSet(f.coveredInsts)
    BY <1>5 DEF IsEntry, StateFields, Take, Went
  <1>7. Cardinality(e.coveredInsts) <= Cardinality(f.coveredInsts)
    BY <1>5, <1>6, FS_CardinalityType
  <1> HIDE DEF f
  <1> QED BY <1>3, <1>4, <1>6, <1>7, CurrentKeeps

\* A branch that goes both ways: the copy has the rows and the hidden state of
\* its parent, and both are entered for new features (Executor::fork).
LEMMA ForkKeeps == ASSUME LearnedInv, Fork PROVE LearnedInv'
PROOF
  <1> DEFINE e == st[current]
             parent == [e EXCEPT !.depth = @ + 1]
  <1>1. PICK n \in State \ DOMAIN st : \E c \in Condition :
          /\ st' = Put([st EXCEPT ![current] = Take(parent, 1, c)], n, Take(Copy(parent), 0, Negated(c)))
          /\ added' = Append(added, n) /\ featureStates' = featureStates \cup Forked(n)
    BY DEF Fork
  <1>2. PICK c \in Condition :
          st' = Put([st EXCEPT ![current] = Take(parent, 1, c)], n, Take(Copy(parent), 0, Negated(c)))
    BY <1>1
  <1> DEFINE f == Take(parent, 1, c)
             g == Take(Copy(parent), 0, Negated(c))
  <1>3. /\ Running /\ featureStates' = featureStates \cup {current, n} /\ added' = Append(added, n)
        /\ UNCHANGED <<core, list, featureIndex, index, removed, last, pc, current>>
    BY <1>1 DEF Fork, searcher, Forked
  <1>4. /\ current = last /\ current \in ToSet(list) /\ current \in DOMAIN st /\ current \notin removed
        /\ IsEntry(e) /\ RowsRight(e, featureIndex)
        /\ core = <<"ML">> => Fed(e) /\ ~e.predicted
    BY <1>3, RunningPlace
  <1>5. /\ DOMAIN f = StateFields /\ f.features = e.features /\ f.hidden = e.hidden
        /\ f.feature = e.feature /\ f.predicted = e.predicted /\ f.queryCost \in Int
        /\ f.coveredInsts = e.coveredInsts /\ IsFiniteSet(f.coveredInsts)
    BY <1>4 DEF IsEntry, StateFields, Take, Went
  <1>6. /\ DOMAIN g = StateFields /\ g.features = e.features /\ g.hidden = e.hidden
        /\ g.feature = e.feature /\ g.predicted = FALSE /\ g.queryCost \in Int
        /\ g.coveredInsts = e.coveredInsts /\ IsFiniteSet(g.coveredInsts)
    BY <1>4 DEF IsEntry, StateFields, Take, Went, Copy
  <1>7. Cardinality(e.coveredInsts) \in Nat /\ e.predicted \in BOOLEAN
    BY <1>4, FS_CardinalityType DEF IsEntry
  <1>8. /\ DOMAIN st' = DOMAIN st \cup {n} /\ st'[current] = f /\ st'[n] = g
        /\ \A t \in DOMAIN st \ {current} : st'[t] = st[t]
        /\ n # current /\ n \notin DOMAIN st
    BY <1>2, <1>4 DEF Put
  <1> HIDE DEF f, g
  <1>9. IsEntry(f) /\ RowsRight(f, featureIndex) /\ (Fed(e) => Fed(f))
    BY <1>4, <1>5, <1>7, SameRows
  <1>10. IsEntry(g) /\ RowsRight(g, featureIndex) /\ (Fed(e) /\ ~e.predicted => Fed(g))
    <2>0. g.predicted \in BOOLEAN
      BY <1>6
    <2>1. Cardinality(e.coveredInsts) <= Cardinality(g.coveredInsts)
      <3>1. g.coveredInsts = e.coveredInsts
        BY <1>6
      <3>2. Cardinality(g.coveredInsts) = Cardinality(e.coveredInsts)
        BY <3>1
      <3> QED BY <3>2, <1>7
    <2>2. IsEntry(g) /\ RowsRight(g, featureIndex) /\ (Fed(e) /\ g.predicted = e.predicted => Fed(g))
      BY <1>4, <1>6, <2>0, <2>1, SameRows
    <2>3. ~e.predicted => g.predicted = e.predicted
      BY <1>6, <1>7
    <2> QED BY <2>2, <2>3
  <1>11. ToSet(added') = ToSet(added) \cup {n} /\ added' \in Seq(State)
    <2>1. added \in Seq(State) /\ n \in State
      BY DEF LearnedInv, Types
    <2> QED BY <1>3, <2>1 DEF ToSet
  <1>12. Types'
    BY <1>3, <1>8, <1>9, <1>10, <1>11 DEF LearnedInv, Types
  <1>13. Places'
    <2>1. ToSet(list) \subseteq DOMAIN st /\ pc # "select"
      BY <1>3 DEF LearnedInv, Types, Running
    <2>2. removed' \subseteq DOMAIN st
      BY <1>3, <2>1 DEF LearnedInv, Places
    <2> QED BY <1>3, <1>4, <1>8, <1>11, <2>1, <2>2 DEF LearnedInv, Places
  <1>14. Rows'
    BY <1>3, <1>8, <1>9, <1>10 DEF LearnedInv, Rows
  <1>15. Vectors'
    BY <1>3, <1>4, <1>8 DEF LearnedInv, Vectors
  <1>16. Histories'
    BY <1>3, <1>4, <1>5, <1>6, <1>8, <1>9, <1>10 DEF LearnedInv, Histories
  <1> QED BY <1>12, <1>13, <1>14, <1>15, <1>16 DEF LearnedInv

(***************************************************************************)
(* Termination                                                             *)
(***************************************************************************)

\* The last row of a path is the state at its end (Executor::terminateStateEarly).
LEMMA FinalRow ==
  ASSUME NEW e, IsEntry(e), NEW n \in Nat, RowsRight(e, n),
         NEW f, f = addFeatures([e EXCEPT !.feature = getStateFeatures(e)], n)
  PROVE  IsEntry(f) /\ RowsRight(f, n + 1) /\ f.predicted = e.predicted
PROOF
  <1> DEFINE g == [e EXCEPT !.feature = getStateFeatures(e)]
  <1>1. /\ DOMAIN g = StateFields
        /\ g.queryCost = e.queryCost /\ g.coveredInsts = e.coveredInsts /\ g.depth = e.depth
        /\ g.constraints = e.constraints /\ g.features = e.features /\ g.hidden = e.hidden
        /\ g.predicted = e.predicted /\ g.feature = getStateFeatures(e)
    BY DEF IsEntry, StateFields
  <1> HIDE DEF g
  <1>2. IsVector(g.feature)
    BY <1>1, ComputedVector, NewNumbers DEF IsVector, IsEntry
  <1>3. IsEntry(g)
    BY <1>1, <1>2, ComputedVector DEF IsEntry
  <1>4. RowsRight(g, n)
    BY <1>1 DEF RowsRight
  <1>5. UpToDate(g)
    BY <1>1, ComputedVector, SameTruth DEF UpToDate
  <1> QED BY <1>1, <1>3, <1>4, <1>5, AddedRow DEF g

\* A termination, with a test case or without, of a state the searcher knows or
\* of one it was not told of (Executor::terminateState).
LEMMA TerminateKeeps ==
  ASSUME LearnedInv, pc # "select", NEW s \in DOMAIN st, Terminate(s), pc' \in {"step", "killed"},
         UNCHANGED <<core, list, index, last, current>>
  PROVE  LearnedInv'
PROOF
  <1> DEFINE output == OnlyOutputStatesCoveringNew => st[s].coveredNew
             final == addFeatures([st[s] EXCEPT !.feature = getStateFeatures(st[s])], featureIndex)
             es == IF output THEN [st EXCEPT ![s] = final] ELSE st
  <1>1. /\ featureIndex' = IF output THEN featureIndex + 1 ELSE featureIndex
        /\ featureStates' = featureStates \ {s}
        /\ IF s \in ToSet(added)
           THEN added' = Kept(added, {s}) /\ st' = Free(es, {s}) /\ UNCHANGED removed
           ELSE removed' = removed \cup {s} /\ st' = es /\ UNCHANGED added
    BY DEF Terminate
  <1>2. featureIndex \in Nat /\ featureIndex' \in Nat
    BY <1>1 DEF LearnedInv, Types
  <1>3. \A t \in DOMAIN st : IsEntry(st[t]) /\ RowsRight(st[t], featureIndex)
    BY DEF LearnedInv, Types, Rows
  <1>4. DOMAIN es = DOMAIN st /\ \A t \in DOMAIN st \ {s} : es[t] = st[t]
    OBVIOUS
  <1>5. IsEntry(es[s]) /\ RowsRight(es[s], featureIndex') /\ es[s].predicted = st[s].predicted
    <2>1. CASE output
      <3>1. es[s] = final /\ featureIndex' = featureIndex + 1
        BY <1>1, <2>1
      <3> HIDE DEF es
      <3> QED BY <1>2, <1>3, <3>1, FinalRow
    <2>2. CASE ~output
      BY <1>1, <1>3, <2>2
    <2> QED BY <2>1, <2>2
  <1>6. \A t \in DOMAIN st \ {s} : IsEntry(es[t]) /\ RowsRight(es[t], featureIndex')
    <2>1. CASE output
      BY <1>1, <1>2, <1>3, <1>4, <2>1, LaterRows
    <2>2. CASE ~output
      BY <1>1, <1>3, <1>4, <2>2
    <2> QED BY <2>1, <2>2
  <1> HIDE DEF output, es
  <1>7. \A t \in DOMAIN st : es[t].predicted = st[t].predicted
    BY <1>4, <1>5
  <1>8. CASE s \in ToSet(added)
    <2>1. added' = Kept(added, {s}) /\ removed' = removed
          /\ DOMAIN st' = DOMAIN st \ {s} /\ \A t \in DOMAIN st \ {s} : st'[t] = es[t] /\ es[t] = st[t]
      BY <1>1, <1>4, <1>8 DEF Free
    <2>2. added' \in Seq(State) /\ ToSet(added') = ToSet(added) \ {s}
      BY <2>1, KeptProperties DEF LearnedInv, Types
    <2>3. s \notin ToSet(list)
      BY <1>8 DEF LearnedInv, Places
    <2>4. added # << >>
      BY <1>8 DEF ToSet
    <2>5. Types'
      BY <1>2, <1>6, <2>1, <2>2, <2>3 DEF LearnedInv, Types
    <2>6. Places'
      BY <1>1, <2>1, <2>2, <2>3, <2>4 DEF LearnedInv, Places
    <2>7. Rows'
      BY <1>6, <2>1 DEF LearnedInv, Rows
    <2>8. Vectors'
      BY <1>1, <2>1 DEF LearnedInv, Vectors
    <2>9. Histories'
      BY <1>1, <2>1 DEF LearnedInv, Histories
    <2> QED BY <2>5, <2>6, <2>7, <2>8, <2>9 DEF LearnedInv
  <1>9. CASE s \notin ToSet(added)
    <2>1. added' = added /\ removed' = removed \cup {s} /\ st' = es
      BY <1>1, <1>9
    <2>2. s \in ToSet(list)
      BY <1>9 DEF LearnedInv, Types
    <2>3. Types'
      BY <1>2, <1>4, <1>5, <1>6, <2>1 DEF LearnedInv, Types
    <2>4. Places'
      BY <1>1, <1>4, <1>9, <2>1, <2>2 DEF LearnedInv, Places
    <2>5. Rows'
      BY <1>4, <1>5, <1>6, <2>1 DEF LearnedInv, Rows
    <2>6. Vectors'
      BY <1>1, <1>4, <2>1 DEF LearnedInv, Vectors
    <2>7. Histories'
      BY <1>1, <1>4, <1>7, <2>1 DEF LearnedInv, Histories
    <2> QED BY <2>3, <2>4, <2>5, <2>6, <2>7 DEF LearnedInv
  <1> QED BY <1>8, <1>9


\* An instruction ends the running state, or one it has just forked.
LEMMA EndKeeps == ASSUME LearnedInv, End PROVE LearnedInv'
PROOF
  <1>1. PICK s \in {current} \cup ToSet(added) : Terminate(s)
    BY DEF End
  <1>2. Running /\ UNCHANGED <<core, list, index, last, pc, current>>
    BY DEF End
  <1>3. s \in DOMAIN st
    BY <1>2, RunningPlace DEF LearnedInv, Types
  <1>4. pc # "select" /\ pc' \in {"step", "killed"}
    BY <1>2 DEF Running
  <1> QED BY <1>1, <1>2, <1>3, <1>4, TerminateKeeps

\* A state is killed for want of memory (Executor::checkMemoryUsage).
LEMMA KillKeeps == ASSUME LearnedInv, Kill PROVE LearnedInv'
PROOF
  <1>1. PICK s \in ToSet(list) : Terminate(s)
    BY DEF Kill
  <1>2. pc = "step" /\ pc' = "killed" /\ UNCHANGED <<core, list, index, last, current>>
    BY DEF Kill
  <1>3. s \in DOMAIN st
    BY DEF LearnedInv, Types
  <1>4. pc # "select" /\ pc' \in {"step", "killed"}
    BY <1>2
  <1> QED BY <1>1, <1>2, <1>3, <1>4, TerminateKeeps

\* The searcher is told; when the path it was on has ended or forked, a core
\* searcher will choose (Executor::updateStates, BranchingSearcher::update).
LEMMA UpdateStatesKeeps == ASSUME LearnedInv, updateStates PROVE LearnedInv'
PROOF
  <1>1. /\ pc \in {"step", "killed"} /\ last' = Release
        /\ list' = Kept(list \o added, removed)
        /\ st' = Free(st, removed) /\ featureStates' = featureStates \ removed
        /\ added' = << >> /\ removed' = {} /\ pc' = "select" /\ current' = Null
        /\ UNCHANGED <<core, featureIndex, index>>
    BY DEF updateStates
  <1>2. list \o added \in Seq(State) /\ ToSet(list \o added) = ToSet(list) \cup ToSet(added)
    <2>1. list \in Seq(State) /\ added \in Seq(State)
      BY DEF LearnedInv, Types
    <2>2. /\ list \o added \in Seq(State) /\ DOMAIN (list \o added) = 1..Len(list) + Len(added)
          /\ Len(list) \in Nat /\ Len(added) \in Nat
          /\ \A i \in 1..Len(list) + Len(added) :
               (list \o added)[i] = IF i <= Len(list) THEN list[i] ELSE added[i - Len(list)]
          /\ DOMAIN list = 1..Len(list) /\ DOMAIN added = 1..Len(added)
      BY <2>1
    <2>3. \A i \in 1..Len(added) : (list \o added)[i + Len(list)] = added[i]
      BY <2>2
    <2>4. ToSet(list \o added) \subseteq ToSet(list) \cup ToSet(added)
      BY <2>2 DEF ToSet
    <2>5. ToSet(list) \subseteq ToSet(list \o added)
      BY <2>2 DEF ToSet
    <2>6. ToSet(added) \subseteq ToSet(list \o added)
      <3>1. \A i \in 1..Len(added) : i + Len(list) \in 1..Len(list) + Len(added)
        BY <2>2
      <3>2. \A i \in 1..Len(added) : added[i] \in ToSet(list \o added)
        BY <2>2, <2>3, <3>1 DEF ToSet
      <3> QED BY <2>2, <3>2 DEF ToSet
    <2> QED BY <2>2, <2>4, <2>5, <2>6
  <1>3. list' \in Seq(State) /\ ToSet(list') = (ToSet(list) \cup ToSet(added)) \ removed
    <2> DEFINE q == list \o added
               r == Kept(q, removed)
    <2>1. q \in Seq(State) /\ ToSet(q) = ToSet(list) \cup ToSet(added)
      BY <1>2
    <2>2. list' = r
      BY <1>1
    <2> HIDE DEF q
    <2>3. r \in Seq(State) /\ ToSet(r) = ToSet(q) \ removed
      BY <2>1, KeptProperties
    <2> HIDE DEF r
    <2>4. ToSet(list') = ToSet(r)
      BY <2>2
    <2> QED BY <2>1, <2>2, <2>3, <2>4
  <1>4. ToSet(added') = {} /\ added' \in Seq(State)
    BY <1>1 DEF ToSet
  <1>5. DOMAIN st' = DOMAIN st \ removed /\ \A t \in DOMAIN st' : st'[t] = st[t]
    BY <1>1 DEF Free
  <1>6. DOMAIN st' = ToSet(list') /\ featureStates' = featureStates
    BY <1>1, <1>3, <1>5 DEF LearnedInv, Types, Places
  <1>7. last \in ToSet(list) /\ (added # << >> => last \in featureStates \cup removed)
    BY <1>1 DEF LearnedInv, Places
  <1>8. \/ last' = last /\ last \notin removed
        \/ last' = Null /\ last \in featureStates \cup removed
    BY <1>1, <1>7 DEF Release
  <1>9. Types'
    BY <1>1, <1>3, <1>4, <1>5, <1>6 DEF LearnedInv, Types
  <1>10. Places'
    <2>1. featureStates' \subseteq DOMAIN st'
      BY <1>5, <1>6 DEF LearnedInv, Places
    <2>2. last' = Null \/ last' \in ToSet(list')
      BY <1>3, <1>7, <1>8
    <2> QED BY <1>1, <1>4, <2>1, <2>2 DEF Places
  <1>11. Rows'
    BY <1>1, <1>5 DEF LearnedInv, Rows
  <1>12. Vectors'
    <2> SUFFICES ASSUME NEW t \in DOMAIN st', t \notin featureStates', t # last' PROVE UpToDate(st'[t])
      BY DEF Vectors
    <2>1. t \in DOMAIN st /\ t \notin removed /\ t \notin featureStates /\ st'[t] = st[t]
      BY <1>5, <1>6
    <2>2. t # last
      BY <1>8, <2>1
    <2> QED BY <2>1, <2>2 DEF LearnedInv, Vectors
  <1>13. Histories'
    <2> SUFFICES ASSUME core = <<"ML">>
                 PROVE  /\ \A t \in DOMAIN st' : Fed(st'[t])
                        /\ \A t \in DOMAIN st' : t \in featureStates' \cup {last'} => ~st'[t].predicted
      BY <1>1 DEF Histories
    <2>1. \A t \in DOMAIN st' : Fed(st'[t])
      BY <1>5 DEF LearnedInv, Histories
    <2>2. Null \notin DOMAIN st'
      BY <1>3, <1>6, LearnedAssumption DEF LearnedInv, Types, ToSet
    <2>3. \A t \in DOMAIN st' : t \in featureStates' \cup {last'} => ~st'[t].predicted
      BY <1>5, <1>6, <1>8, <2>2 DEF LearnedInv, Histories
    <2> QED BY <2>1, <2>3
  <1> QED BY <1>9, <1>10, <1>11, <1>12, <1>13 DEF LearnedInv

(***************************************************************************)
(* The theorems                                                            *)
(***************************************************************************)

\* The initial state has no row, and its vector is computed (Executor::run).
LEMMA LearnedInit == Init => LearnedInv
PROOF
  <1> SUFFICES ASSUME Init PROVE LearnedInv
    OBVIOUS
  <1>1. PICK s \in State : list = <<s>> /\ st = [t \in {s} |-> Initial]
    BY DEF Init
  <1>2. /\ core \in Cores /\ featureIndex = 0 /\ added = << >> /\ removed = {} /\ featureStates = {}
        /\ index = 1 /\ last = Null /\ pc = "select"
    BY DEF Init
  <1>3. /\ list \in Seq(State) /\ added \in Seq(State)
        /\ ToSet(list) = {s} /\ ToSet(added) = {} /\ DOMAIN st = {s} /\ st[s] = Initial
    BY <1>1, <1>2 DEF ToSet
  <1> DEFINE e == Initial
  <1>4. /\ DOMAIN e = StateFields /\ e.queryCost = 0 /\ e.coveredInsts = {} /\ e.predicted = FALSE
        /\ e.features = << >> /\ e.hidden = << >> /\ e.depth = 0 /\ e.constraints = << >>
        /\ DOMAIN e.feature = Fields /\ e.feature.cost = 0 /\ e.feature.acc = 0 /\ e.feature.cov = 0
        /\ e.feature.new = 0 /\ e.feature.depth = 0 /\ e.feature.bow = constraintFeatures(<< >>)
    BY DEF Initial, StateFields, Fields
  <1> HIDE DEF e
  <1>5. IsFiniteSet({}) /\ Cardinality({}) = 0
    BY FS_EmptySet
  <1>6. Sequential(<< >>) /\ DOMAIN << >> = {} /\ Len(<< >>) = 0
    <2>1. << >> \in Seq({})
      OBVIOUS
    <2> QED BY <2>1 DEF Sequential
  <1>7. IsEntry(e)
    <2>1. IsVector(e.feature)
      BY <1>4 DEF IsVector
    <2>2. IsFiniteSet(e.coveredInsts) /\ e.predicted \in BOOLEAN /\ e.queryCost \in Int
      <3>1. IsFiniteSet(e.coveredInsts)
        <4>1. e.coveredInsts = {}
          BY <1>4
        <4> QED BY <4>1, <1>5, Zenon
      <3>2. e.predicted \in BOOLEAN
        <4>1. e.predicted = FALSE
          BY <1>4
        <4> QED BY <4>1
      <3>3. e.queryCost \in Int
        <4>1. e.queryCost = 0
          BY <1>4
        <4> QED BY <4>1
      <3> QED BY <3>1, <3>2, <3>3
    <2>3. Sequential(e.features) /\ Sequential(e.hidden) /\ DOMAIN e.features = {}
      BY <1>4, <1>6
    <2> QED BY <1>4, <2>1, <2>2, <2>3 DEF IsEntry
  <1>8. \A n : RowsRight(e, n)
    BY <1>4, <1>6 DEF RowsRight
  <1>9. costSince(e) = 0
    <2>1. CostOf(<< >>)[0] = 0
      BY <1>6, CostOfSums DEF HasCosts
    <2> QED BY <1>4, <1>6, <2>1 DEF costSince
  <1>10. newCovered(e) = 0
    BY <1>4, <1>5 DEF newCovered
  <1>11. UpToDate(e)
    BY <1>4, <1>5, <1>9, <1>10 DEF UpToDate, Own, Truth
  <1>12. Fed(e)
    <2>1. [i \in DOMAIN << >> |-> Input(e.features[i])] = << >>
      OBVIOUS
    <2>2. << >> \o << >> = << >>
      OBVIOUS
    <2> QED BY <1>4, <2>1, <2>2 DEF Fed
  <1>13. index \in 1..Len(core)
    <2>1. core \in Seq({"ML", "SGS"}) /\ core # << >>
      BY <1>2, LearnedAssumption
    <2> QED BY <1>2, <2>1
  <1>14. Types
    BY <1>2, <1>3, <1>7, <1>13 DEF Types, e
  <1>15. Places
    BY <1>2, <1>3 DEF Places
  <1>16. Rows /\ Vectors
    BY <1>2, <1>3, <1>8, <1>11 DEF Rows, Vectors, e
  <1>17. Histories
    <2>1. ~st[s].predicted
      BY <1>3, <1>4 DEF e
    <2> QED BY <1>2, <1>3, <1>12, <2>1 DEF Histories, e
  <1> QED BY <1>14, <1>15, <1>16, <1>17 DEF LearnedInv

\* No step of the executor, the searchers or the feature extraction breaks the
\* invariant (Executor::run).
LEMMA LearnedStep == LearnedInv /\ [Next]_vars => LearnedInv'
PROOF
  <1> SUFFICES ASSUME LearnedInv, [Next]_vars PROVE LearnedInv'
    OBVIOUS
  <1>1. CASE UNCHANGED vars
    <2>1. UNCHANGED <<core, st, list, added, removed, featureStates, featureIndex, index, last, pc, current>>
      BY <1>1 DEF vars
    <2>2. Types' /\ Rows' /\ Vectors' /\ Histories'
      BY <2>1 DEF LearnedInv, Types, Rows, Vectors, Histories
    <2>3. Places'
      BY <2>1 DEF LearnedInv, Places
    <2> QED BY <2>2, <2>3 DEF LearnedInv
  <1>2. CASE Done
    <2>1. UNCHANGED vars
      BY <1>2 DEF Done
    <2> QED BY <1>1, <2>1
  <1> QED BY <1>1, <1>2, SelectMLKeeps, SelectSGSKeeps, SelectSameKeeps, CoverKeeps, QueryKeeps,
             BranchOneWayKeeps, ForkKeeps, EndKeeps, KillKeeps, UpdateStatesKeeps DEF Next

\* The inductive invariant holds for every set of states, instructions, branch
\* conditions and rewards, and any list of core searchers (Executor::run).
THEOREM LearnedInvariance == Spec => []LearnedInv
PROOF
  <1>1. Init => LearnedInv
    BY LearnedInit
  <1>2. LearnedInv /\ [Next]_vars => LearnedInv'
    BY LearnedStep
  <1> QED BY <1>1, <1>2, PTL DEF Spec

\* The rows of every path add up, and the vectors the next choice is made from
\* are right (GetFeaturesSearcher, Executor::getStateFeatures).
THEOREM LearnedVectorsRight == Spec => []VectorsRight
PROOF
  <1>1. LearnedInv => VectorsRight
    <2> SUFFICES ASSUME LearnedInv PROVE VectorsRight
      OBVIOUS
    <2>1. RowsAddUp
      BY DEF LearnedInv, Rows, RowsRight, RowsAddUp
    <2>2. FeaturesCurrent
      <3> SUFFICES ASSUME pc = "select", last = Null, NEW s \in ToSet(list) \ featureStates
                   PROVE  Own(st[s].feature) = Own(getStateFeatures(st[s]))
        BY DEF FeaturesCurrent
      <3>1. s \in DOMAIN st /\ s \in State /\ s \notin removed
        BY DEF LearnedInv, Types, Places, ToSet
      <3>2. UpToDate(st[s])
        BY <3>1, LearnedAssumption DEF LearnedInv, Vectors
      <3> QED BY <3>2, ComputedVector DEF UpToDate
    <2> QED BY <2>1, <2>2 DEF VectorsRight
  <1> QED BY <1>1, LearnedInvariance, PTL

\* Under the learned searcher alone the network is fed exactly the rows that are
\* recorded, each once and in order (MLSearcher::selectState).
THEOREM LearnedHiddenIsHistory == Spec => []HiddenIsHistory
PROOF
  <1>1. LearnedInv => HiddenIsHistory
    <2> SUFFICES ASSUME LearnedInv, core = <<"ML">>, NEW s \in ToSet(list) \ removed
                 PROVE  Fed(st[s])
      BY DEF HiddenIsHistory, Fed
    <2> QED BY DEF LearnedInv, Types, Histories
  <1> QED BY <1>1, LearnedInvariance, PTL
=============================================================================
