--------------------------- MODULE SearchersProofs ---------------------------
(* Any stack of searchers keeps its contract with the executor, unless        *)
(* iterative deepening is put over random-path.  The proof follows the calls  *)
(* of one update: which states each list has to hold is a function of how far *)
(* the update has come (Runnable).                                            *)
EXTENDS Searchers, SequenceTheorems, FiniteSetTheorems, TLAPS

\* Iterative deepening is not combined with random-path, which selects paused
\* states and never reports to be empty.
NoDeepenedRandomPath ==
  \A c \in Configs : c.deepening => \A i \in DOMAIN c.search : c.search[i] # "RandomPath"

Added == RangeOf(upd.added)

\* what is left of the states when the update is over
Remaining == (states \cup Added) \ upd.removed

\* the states the lists hold
Runnable ==
  CASE pc \in {"select", "step", "update"} -> states \ paused
    [] pc = "remove" -> (Remaining \cup upd.todo) \ paused
    [] OTHER -> Remaining \ paused

\* Every list is what the progress of the update makes it.
ListsInv ==
  \A i \in Listed : Injective(core[i]) /\ RangeOf(core[i]) = Runnable

\* Paused states exist, are not among the removed ones once the update began,
\* and are never all there is when the next state is selected.
PausedInv ==
  /\ paused \subseteq states
  /\ pc \in {"remove", "deepen", "refill", "end"} => paused \cap upd.removed = {}
  /\ ~cfg.deepening => paused = {}
  /\ pc = "select" /\ states # {} => states # paused
  /\ pc = "end" /\ Remaining # {} => Remaining # paused

\* The caches name states that will still run after the update.
CachesInv ==
  {branchLast, batchLast} \subseteq
    (IF pc \in {"select", "step", "update"} THEN states \ paused ELSE Remaining \ paused)
    \cup {Null}

\* The executor calls update with new states and with states it has.
UpdateInv ==
  /\ Injective(upd.added) /\ Added \cap states = {}
  /\ upd.removed \subseteq states /\ upd.todo \subseteq upd.removed \ paused
  /\ pc \in {"select", "step"} => upd = NoUpdate
  /\ pc \notin {"remove"} => upd.todo = {}
  /\ pc = "select" => current = Null
  /\ pc = "step" => current # Null
  /\ pc \in {"step", "update", "remove", "deepen"} /\ current # Null =>
       current \in states \ paused
  /\ pc \in {"refill", "deepen"} => cfg.deepening

\* The inductive invariant.
IndInv ==
  /\ TypeOK /\ pc # "crashed" /\ fault = "none"
  /\ ListsInv /\ PausedInv /\ CachesInv /\ UpdateInv

(***************************************************************************)
(* Lists                                                                   *)
(***************************************************************************)

\* Erasing a state from a list without repetitions removes exactly it.
LEMMA EraseProperties ==
  ASSUME NEW q \in Seq(State), NEW s, Injective(q)
  PROVE  /\ Erase(q, s) \in Seq(State)
         /\ Injective(Erase(q, s))
         /\ RangeOf(Erase(q, s)) = RangeOf(q) \ {s}
<1>1. CASE s \notin RangeOf(q)
  BY <1>1 DEF Erase
<1>2. CASE s \in RangeOf(q)
  <2> DEFINE k == CHOOSE i \in DOMAIN q : q[i] = s
             a == SubSeq(q, 1, k - 1)
             b == SubSeq(q, k + 1, Len(q))
             e == a \o b
  <2>1. k \in 1..Len(q) /\ q[k] = s
    BY <1>2 DEF RangeOf
  <2>2. Erase(q, s) = e
    BY <1>2 DEF Erase
  <2> HIDE DEF k
  <2>a. a \in Seq(State) /\ Len(a) = k - 1 /\ \A i \in 1..(k - 1) : a[i] = q[i]
    <3>1. 1 \in Int /\ k - 1 \in Int /\ \A i \in 1..(k - 1) : q[i] \in State
      BY <2>1
    <3>2. /\ a \in Seq(State) /\ Len(a) = (IF 1 <= k - 1 THEN k - 1 - 1 + 1 ELSE 0)
          /\ \A i \in 1..(k - 1 - 1 + 1) : a[i] = q[1 + i - 1]
      BY <3>1, SubSeqProperties
    <3> HIDE DEF a
    <3> QED BY <3>2, <2>1
  <2>b. /\ b \in Seq(State) /\ Len(b) = Len(q) - k
        /\ \A i \in 1..(Len(q) - k) : b[i] = q[k + i]
    <3>1. k + 1 \in Int /\ Len(q) \in Int /\ \A i \in k + 1..Len(q) : q[i] \in State
      BY <2>1
    <3>2. /\ b \in Seq(State)
          /\ Len(b) = (IF k + 1 <= Len(q) THEN Len(q) - (k + 1) + 1 ELSE 0)
          /\ \A i \in 1..(Len(q) - (k + 1) + 1) : b[i] = q[k + 1 + i - 1]
      BY <3>1, SubSeqProperties
    <3> HIDE DEF b
    <3> QED BY <3>2, <2>1
  <2> HIDE DEF a, b
  <2>c. /\ e \in Seq(State) /\ Len(e) = Len(a) + Len(b)
        /\ \A i \in 1..Len(a) + Len(b) :
             e[i] = IF i <= Len(a) THEN a[i] ELSE b[i - Len(a)]
    BY <2>a, <2>b, ConcatProperties
  <2> HIDE DEF e
  <2>3. e \in Seq(State) /\ Len(e) = Len(q) - 1
    BY <2>1, <2>a, <2>b, <2>c
  <2>4. \A i \in 1..Len(e) : e[i] = IF i < k THEN q[i] ELSE q[i + 1]
    <3> SUFFICES ASSUME NEW i \in 1..Len(e)
                 PROVE  e[i] = IF i < k THEN q[i] ELSE q[i + 1]
      OBVIOUS
    <3>1. CASE i < k
      BY <3>1, <2>1, <2>3, <2>a, <2>c
    <3>2. CASE i >= k
      <4>1. i - (k - 1) \in 1..(Len(q) - k) /\ e[i] = b[i - (k - 1)]
        <5>1. i \in 1..Len(a) + Len(b) /\ ~(i <= Len(a))
          BY <3>2, <2>1, <2>a, <2>c
        <5>2. e[i] = b[i - Len(a)]
          BY <5>1, <2>c
        <5> QED BY <5>1, <5>2, <2>1, <2>a, <2>b
      <4>2. b[i - (k - 1)] = q[k + (i - (k - 1))] /\ k + (i - (k - 1)) = i + 1
        BY <4>1, <2>1, <2>b, SMTT(30)
      <4> QED BY <4>1, <4>2, <3>2, <2>1
    <3> QED BY <3>1, <3>2, <2>1
  <2>5. DOMAIN e = 1..(Len(q) - 1) /\ DOMAIN q = 1..Len(q)
    BY <2>3
  <2>6. Injective(e)
    <3> SUFFICES ASSUME NEW i \in 1..(Len(q) - 1), NEW j \in 1..(Len(q) - 1), e[i] = e[j]
                 PROVE  i = j
      BY <2>5 DEF Injective
    <3>1. \A m, n \in 1..Len(q) : q[m] = q[n] => m = n
      BY <2>5 DEF Injective
    <3>2. i + 1 \in 1..Len(q) /\ j + 1 \in 1..Len(q) /\ i \in 1..Len(q) /\ j \in 1..Len(q)
      BY <2>1
    <3> QED BY <3>1, <3>2, <2>1, <2>3, <2>4
  <2>7. RangeOf(e) \subseteq RangeOf(q) \ {s}
    <3> SUFFICES ASSUME NEW j \in 1..(Len(q) - 1)
                 PROVE  e[j] \in RangeOf(q) /\ e[j] # s
      BY <2>5 DEF RangeOf
    <3>1. PICK m \in 1..Len(q) : m # k /\ e[j] = q[m]
      BY <2>1, <2>3, <2>4
    <3> QED BY <3>1, <2>1, <2>5 DEF Injective, RangeOf
  <2>8. RangeOf(q) \ {s} \subseteq RangeOf(e)
    <3> SUFFICES ASSUME NEW j \in 1..Len(q), q[j] # s
                 PROVE  q[j] \in RangeOf(e)
      BY <2>5 DEF RangeOf
    <3>1. CASE j < k
      <4>1. j \in 1..Len(e) /\ j \in DOMAIN e
        BY <3>1, <2>1, <2>3, <2>5
      <4>2. e[j] = q[j]
        BY <3>1, <4>1, <2>4
      <4> QED BY <4>1, <4>2 DEF RangeOf
    <3>2. CASE j > k
      <4>1. j - 1 \in DOMAIN e /\ e[j - 1] = q[j]
        BY <3>2, <2>1, <2>3, <2>4, <2>5
      <4> QED BY <4>1 DEF RangeOf
    <3>3. j # k
      BY <2>1
    <3> QED BY <3>1, <3>2, <3>3, <2>1
  <2> QED BY <2>2, <2>3, <2>6, <2>7, <2>8
<1> QED BY <1>1, <1>2

\* Erasing leaves a list a list.
LEMMA EraseType ==
  ASSUME NEW q \in Seq(State), NEW s
  PROVE  Erase(q, s) \in Seq(State)
<1>1. CASE s \notin RangeOf(q)
  BY <1>1 DEF Erase
<1>2. CASE s \in RangeOf(q)
  <2> DEFINE k == CHOOSE i \in DOMAIN q : q[i] = s
  <2>1. k \in 1..Len(q)
    BY <1>2 DEF RangeOf
  <2>2. Erase(q, s) = SubSeq(q, 1, k - 1) \o SubSeq(q, k + 1, Len(q))
    BY <1>2 DEF Erase
  <2> HIDE DEF k
  <2>3. \A i \in 1..Len(q) : q[i] \in State
    OBVIOUS
  <2>4. SubSeq(q, 1, k - 1) \in Seq(State)
    <3>1. 1 \in Int /\ k - 1 \in Int /\ \A i \in 1..(k - 1) : q[i] \in State
      BY <2>1, <2>3
    <3> QED BY <3>1, SubSeqProperties
  <2>5. SubSeq(q, k + 1, Len(q)) \in Seq(State)
    <3>1. k + 1 \in Int /\ Len(q) \in Int /\ \A i \in k + 1..Len(q) : q[i] \in State
      BY <2>1, <2>3
    <3> QED BY <3>1, SubSeqProperties
  <2> QED BY <2>2, <2>4, <2>5, ConcatProperties
<1> QED BY <1>1, <1>2

\* Inserting other states at the end of a list.
LEMMA ConcatLists ==
  ASSUME NEW q \in Seq(State), NEW r \in Seq(State), Injective(q), Injective(r),
         RangeOf(q) \cap RangeOf(r) = {}
  PROVE  /\ q \o r \in Seq(State)
         /\ Injective(q \o r)
         /\ RangeOf(q \o r) = RangeOf(q) \cup RangeOf(r)
<1>1. /\ q \o r \in Seq(State) /\ Len(q \o r) = Len(q) + Len(r)
      /\ \A i \in 1..Len(q) + Len(r) :
           (q \o r)[i] = IF i <= Len(q) THEN q[i] ELSE r[i - Len(q)]
  OBVIOUS
<1>2. DOMAIN q = 1..Len(q) /\ DOMAIN r = 1..Len(r) /\ DOMAIN (q \o r) = 1..Len(q) + Len(r)
  BY <1>1
<1>3. Injective(q \o r)
  <2> SUFFICES ASSUME NEW i \in 1..Len(q) + Len(r), NEW j \in 1..Len(q) + Len(r),
                      (q \o r)[i] = (q \o r)[j]
               PROVE  i = j
    BY <1>2 DEF Injective
  <2>1. CASE i <= Len(q) /\ j <= Len(q)
    BY <2>1, <1>1, <1>2 DEF Injective
  <2>2. CASE i > Len(q) /\ j > Len(q)
    <3>1. i - Len(q) \in DOMAIN r /\ j - Len(q) \in DOMAIN r
      BY <2>2, <1>2
    <3>2. r[i - Len(q)] = r[j - Len(q)]
      BY <2>2, <1>1
    <3> QED BY <3>1, <3>2 DEF Injective
  <2>3. CASE i <= Len(q) /\ j > Len(q)
    <3>1. j - Len(q) \in DOMAIN r /\ i \in DOMAIN q /\ q[i] = r[j - Len(q)]
      BY <2>3, <1>1, <1>2
    <3> QED BY <3>1 DEF RangeOf
  <2>4. CASE i > Len(q) /\ j <= Len(q)
    <3>1. i - Len(q) \in DOMAIN r /\ j \in DOMAIN q /\ q[j] = r[i - Len(q)]
      BY <2>4, <1>1, <1>2
    <3> QED BY <3>1 DEF RangeOf
  <2> QED BY <2>1, <2>2, <2>3, <2>4
<1>4. RangeOf(q \o r) = RangeOf(q) \cup RangeOf(r)
  <2>1. RangeOf(q \o r) \subseteq RangeOf(q) \cup RangeOf(r)
    <3> SUFFICES ASSUME NEW i \in 1..Len(q) + Len(r)
                 PROVE  (q \o r)[i] \in RangeOf(q) \cup RangeOf(r)
      BY <1>2 DEF RangeOf
    <3>1. CASE i <= Len(q)
      BY <3>1, <1>1, <1>2 DEF RangeOf
    <3>2. CASE i > Len(q)
      <4>1. i - Len(q) \in DOMAIN r /\ (q \o r)[i] = r[i - Len(q)]
        BY <3>2, <1>1, <1>2
      <4> QED BY <4>1 DEF RangeOf
    <3> QED BY <3>1, <3>2
  <2>2. RangeOf(q) \subseteq RangeOf(q \o r)
    <3> SUFFICES ASSUME NEW i \in 1..Len(q) PROVE q[i] \in RangeOf(q \o r)
      BY <1>2 DEF RangeOf
    <3>1. i \in DOMAIN (q \o r) /\ (q \o r)[i] = q[i]
      BY <1>1, <1>2
    <3> QED BY <3>1 DEF RangeOf
  <2>3. RangeOf(r) \subseteq RangeOf(q \o r)
    <3> SUFFICES ASSUME NEW i \in 1..Len(r) PROVE r[i] \in RangeOf(q \o r)
      BY <1>2 DEF RangeOf
    <3>1. i + Len(q) \in DOMAIN (q \o r) /\ (q \o r)[i + Len(q)] = r[i]
      BY <1>1, <1>2
    <3> QED BY <3>1 DEF RangeOf
  <2> QED BY <2>1, <2>2, <2>3
<1> QED BY <1>1, <1>3, <1>4

\* Moving a state to the end of its list keeps the list's states.
LEMMA RotateList ==
  ASSUME NEW q \in Seq(State), Injective(q), NEW s \in State, s \in RangeOf(q)
  PROVE  LET m == Append(Erase(q, s), s) IN
         m \in Seq(State) /\ Injective(m) /\ RangeOf(m) = RangeOf(q)
<1> DEFINE e == Erase(q, s)
<1>1. e \in Seq(State) /\ Injective(e) /\ RangeOf(e) = RangeOf(q) \ {s}
  BY EraseProperties
<1> HIDE DEF e
<1>2. <<s>> \in Seq(State) /\ Injective(<<s>>) /\ RangeOf(<<s>>) = {s}
  BY DEF Injective, RangeOf
<1>3. Append(e, s) = e \o <<s>>
  BY <1>1, AppendIsConcat
<1>a. RangeOf(e) \cap RangeOf(<<s>>) = {}
  BY <1>1, <1>2
<1>4. /\ e \o <<s>> \in Seq(State) /\ Injective(e \o <<s>>)
      /\ RangeOf(e \o <<s>>) = RangeOf(e) \cup {s}
  BY <1>1, <1>2, <1>a, ConcatLists
<1> QED BY <1>1, <1>3, <1>4 DEF e

(***************************************************************************)
(* The configuration                                                       *)
(***************************************************************************)

\* There is a first core searcher, and under iterative deepening all have lists.
LEMMA CoresFacts ==
  ASSUME TypeOK
  PROVE  /\ Cores = 1..Len(cfg.search) /\ Len(cfg.search) \in Nat \ {0}
         /\ 1 \in Cores /\ Listed \subseteq Cores
         /\ NoDeepenedRandomPath /\ cfg.deepening => Listed = Cores
<1>1. cfg \in Config /\ cfg \in Configs
  BY SearchersAssumption DEF TypeOK
<1>2. cfg.search \in Seq(CoreSearchType) /\ cfg.search # << >>
  BY <1>1 DEF Config
<1>3. Len(cfg.search) \in Nat \ {0} /\ DOMAIN cfg.search = 1..Len(cfg.search)
  BY <1>2
<1>4. NoDeepenedRandomPath /\ cfg.deepening => Listed = Cores
  BY <1>1 DEF NoDeepenedRandomPath, Listed, Cores
<1> QED BY <1>3, <1>4 DEF Cores, Listed

\* What a list is, in one place.
LEMMA ListFacts ==
  ASSUME IndInv, NEW i \in Listed
  PROVE  core[i] \in Seq(State) /\ Injective(core[i]) /\ RangeOf(core[i]) = Runnable
BY CoresFacts DEF IndInv, TypeOK, ListsInv

\* A sequence is empty when it has no elements.
LEMMA EmptyRange ==
  ASSUME NEW q \in Seq(State)
  PROVE  q = << >> <=> RangeOf(q) = {}
<1>1. CASE q = << >>
  BY <1>1 DEF RangeOf
<1>2. CASE q # << >>
  <2>1. 1 \in DOMAIN q
    BY <1>2
  <2> QED BY <1>2, <2>1 DEF RangeOf
<1> QED BY <1>1, <1>2

(***************************************************************************)
(* selectState                                                             *)
(***************************************************************************)

\* Answering with a state that may run, and caching it, preserves IndInv.
LEMMA SelectedKeeps ==
  ASSUME IndInv, pc = "select", NEW s \in states \ paused, Selected(s), index' \in Cores,
         branchLast' \in {branchLast, s}, batchLast' \in {branchLast, batchLast, s}
  PROVE  IndInv'
<1>1. /\ pc' = "step" /\ current' = s
      /\ UNCHANGED <<cfg, states, core, paused, upd, fault>>
  BY DEF Selected
<1>2. s \in State /\ s # Null
  BY SearchersAssumption DEF IndInv, TypeOK
<1>3. TypeOK'
  BY <1>1, <1>2 DEF IndInv, TypeOK, Cores, Pcs
<1>4. Runnable' = Runnable /\ Listed' = Listed
  BY <1>1 DEF Runnable, Listed, Cores
<1>5. ListsInv'
  BY <1>1, <1>4 DEF IndInv, ListsInv
<1>6. PausedInv'
  BY <1>1 DEF IndInv, PausedInv
<1>7. CachesInv'
  BY <1>1 DEF IndInv, CachesInv
<1>8. UpdateInv'
  BY <1>1, <1>2 DEF IndInv, UpdateInv, Added, NoUpdate
<1> QED BY <1>1, <1>3, <1>5, <1>6, <1>7, <1>8 DEF IndInv

\* The cached state of the batching searcher may run.
LEMMA SelectBatchKeeps == IndInv /\ SelectBatch => IndInv'
<1> SUFFICES ASSUME IndInv, SelectBatch PROVE IndInv'
  OBVIOUS
<1>1. pc = "select" /\ Selected(batchLast) /\ UNCHANGED <<index, branchLast, batchLast>>
  BY DEF SelectBatch
<1>2. batchLast \in states \ paused
  BY <1>1 DEF SelectBatch, IndInv, CachesInv
<1>3. index' \in Cores
  BY <1>1 DEF IndInv, TypeOK
<1> QED BY <1>1, <1>2, <1>3, SelectedKeeps

\* The cached state of the branching searcher may run.
LEMMA SelectBranchKeeps == IndInv /\ SelectBranch => IndInv'
<1> SUFFICES ASSUME IndInv, SelectBranch PROVE IndInv'
  OBVIOUS
<1>1. /\ pc = "select" /\ Selected(branchLast) /\ UNCHANGED <<index, branchLast>>
      /\ batchLast' \in {branchLast, batchLast}
  BY DEF SelectBranch
<1>2. branchLast \in states \ paused
  BY <1>1 DEF SelectBranch, IndInv, CachesInv
<1>3. index' \in Cores
  BY <1>1 DEF IndInv, TypeOK
<1> QED BY <1>1, <1>2, <1>3, SelectedKeeps

\* What a core searcher answers is a state that may run, and it has one.
LEMMA ChoicesRunnable ==
  ASSUME NoDeepenedRandomPath, IndInv, pc = "select", states # {}
  PROVE  Choices(index) # {} /\ Choices(index) \subseteq states \ paused
<1>1. Runnable = states \ paused /\ states \ paused # {}
  BY DEF IndInv, PausedInv, Runnable
<1>2. index \in Cores /\ TypeOK
  BY DEF IndInv, TypeOK
<1>3. CASE index \notin Listed
  <2>1. cfg.search[index] = "RandomPath"
    BY <1>2, <1>3 DEF Listed
  <2>2. ~cfg.deepening
    BY <1>2, <1>3, CoresFacts
  <2>3. paused = {}
    BY <2>2 DEF IndInv, PausedInv
  <2>4. Choices(index) = states
    BY <2>1 DEF Choices
  <2> QED BY <2>3, <2>4
<1>4. CASE index \in Listed
  <2> DEFINE q == core[index]
  <2>1. q \in Seq(State) /\ RangeOf(q) = states \ paused
    BY <1>1, <1>4, ListFacts
  <2>2. q # << >>
    BY <1>1, <2>1, EmptyRange
  <2>3. 1 \in DOMAIN q /\ Len(q) \in DOMAIN q
    BY <2>1, <2>2
  <2>4. q[1] \in RangeOf(q) /\ q[Len(q)] \in RangeOf(q)
    BY <2>3 DEF RangeOf
  <2>5. cfg.search[index] # "RandomPath"
    BY <1>4 DEF Listed
  <2>6. Choices(index) \in {{q[1]}, {q[Len(q)]}, RangeOf(q)}
    <3>1. CASE cfg.search[index] = "DFS"
      BY <2>2, <3>1 DEF Choices
    <3>2. CASE cfg.search[index] = "BFS"
      BY <2>2, <3>2 DEF Choices
    <3>3. CASE cfg.search[index] \notin {"DFS", "BFS", "RandomPath"}
      BY <3>3 DEF Choices
    <3> QED BY <2>5, <3>1, <3>2, <3>3
  <2> HIDE DEF q
  <2> QED BY <1>1, <2>1, <2>4, <2>6
<1> QED BY <1>3, <1>4

\* The core searcher whose turn it is always has an answer.
LEMMA SelectCoreKeeps ==
  ASSUME NoDeepenedRandomPath
  PROVE  IndInv /\ SelectCore => IndInv'
<1> SUFFICES ASSUME IndInv, SelectCore PROVE IndInv'
  OBVIOUS
<1>1. pc = "select" /\ states # {}
  BY DEF SelectCore
<1>2. Choices(index) # {} /\ Choices(index) \subseteq states \ paused
  BY <1>1, ChoicesRunnable
<1>3. PICK s \in Choices(index) :
        /\ index' = IF index = 1 THEN Len(cfg.search) ELSE index - 1
        /\ branchLast' = IF UsesBranching THEN s ELSE branchLast
        /\ batchLast' = IF cfg.batching THEN s ELSE batchLast
        /\ Selected(s)
  BY <1>2 DEF SelectCore
<1>4. index' \in Cores
  BY <1>3, CoresFacts DEF IndInv, TypeOK
<1> QED BY <1>1, <1>2, <1>3, <1>4, SelectedKeeps

(***************************************************************************)
(* The executor                                                            *)
(***************************************************************************)

\* Calling update with new states and with states that exist preserves IndInv.
LEMMA CallKeeps ==
  ASSUME IndInv, pc \in {"select", "step"},
         NEW cur \in (states \ paused) \cup {Null},
         NEW added \in Seq(State), Injective(added), RangeOf(added) \cap states = {},
         NEW removed \in SUBSET states, Call(cur, added, removed)
  PROVE  IndInv'
<1>1. /\ pc' = "update" /\ current' = cur
      /\ upd' = [added |-> added, removed |-> removed, todo |-> {}]
      /\ UNCHANGED <<cfg, states, core, index, branchLast, batchLast, paused, fault>>
  BY DEF Call
<1>2. upd'.added = added /\ upd'.removed = removed /\ upd'.todo = {}
  BY <1>1
<1>3. TypeOK'
  BY <1>1 DEF IndInv, TypeOK, Cores, Pcs
<1>4. Runnable' = Runnable /\ Listed' = Listed
  BY <1>1 DEF Runnable, Listed, Cores
<1>5. ListsInv'
  BY <1>1, <1>4 DEF IndInv, ListsInv
<1>6. PausedInv'
  BY <1>1 DEF IndInv, PausedInv
<1>7. CachesInv'
  BY <1>1 DEF IndInv, CachesInv
<1>8. UpdateInv'
  BY <1>1, <1>2 DEF IndInv, UpdateInv, Added
<1> QED BY <1>1, <1>3, <1>5, <1>6, <1>7, <1>8 DEF IndInv

\* A list of Lists(S, n) is a sequence of different members of S.
LEMMA ListsAreSequences ==
  ASSUME NEW S \in SUBSET State, NEW n \in Nat, NEW q \in Lists(S, n)
  PROVE  q \in Seq(State) /\ Injective(q) /\ RangeOf(q) \subseteq S
<1>1. PICK k \in 0..n : q \in [1..k -> S] /\ Injective(q)
  BY DEF Lists
<1>2. q \in Seq(State)
  BY <1>1
<1> QED BY <1>1, <1>2 DEF RangeOf

\* A step of the executor preserves IndInv.
LEMMA StepKeeps == IndInv /\ Step => IndInv'
<1> SUFFICES ASSUME IndInv, Step PROVE IndInv'
  OBVIOUS
<1>1. pc = "step" /\ current \in states \ paused
  BY DEF Step, IndInv, UpdateInv
<1>2. PICK added \in Lists(State \ states, MaxAdded), removed \in SUBSET states :
        Call(current, added, removed)
  BY DEF Step
<1>3. added \in Seq(State) /\ Injective(added) /\ RangeOf(added) \subseteq State \ states
  BY ListsAreSequences, SearchersAssumption
<1>4. RangeOf(added) \cap states = {}
  BY <1>3
<1> QED BY <1>1, <1>2, <1>3, <1>4, CallKeeps

\* doDumpStates preserves IndInv.
LEMMA DumpStatesKeeps == IndInv /\ DumpStates => IndInv'
<1> SUFFICES ASSUME IndInv, DumpStates PROVE IndInv'
  OBVIOUS
<1>1. pc = "select" /\ Call(Null, << >>, states)
  BY DEF DumpStates
<1>2. << >> \in Seq(State) /\ Injective(<< >>) /\ RangeOf(<< >>) \cap states = {}
  BY DEF Injective, RangeOf
<1> QED BY <1>1, <1>2, CallKeeps

(***************************************************************************)
(* update                                                                  *)
(***************************************************************************)

\* The lists with the added states at their end.
LEMMA WithAddedFacts ==
  ASSUME IndInv, pc = "update", NEW i \in Listed
  PROVE  /\ WithAdded(i) \in Seq(State) /\ Injective(WithAdded(i))
         /\ RangeOf(WithAdded(i)) = (states \ paused) \cup Added
<1> DEFINE q == core[i]
           turn == /\ cfg.search[i] = "BFS" /\ upd.added # << >>
                   /\ current # Null /\ current \notin Unpaused
           m == IF turn THEN Append(Erase(q, current), current) ELSE q
<1>1. q \in Seq(State) /\ Injective(q) /\ RangeOf(q) = states \ paused
  BY ListFacts DEF Runnable
<1>2. upd.added \in Seq(State) /\ Injective(upd.added) /\ Added \cap states = {}
  BY DEF IndInv, TypeOK, UpdateInv
<1>3. m \in Seq(State) /\ Injective(m) /\ RangeOf(m) = states \ paused
  <2>1. CASE turn
    <3>1. current \in states \ paused /\ current \in State
      BY <2>1 DEF IndInv, UpdateInv, TypeOK
    <3> HIDE DEF q
    <3> QED BY <1>1, <2>1, <3>1, RotateList
  <2>2. CASE ~turn
    BY <1>1, <2>2
  <2> QED BY <2>1, <2>2
<1>4. WithAdded(i) = m \o upd.added
  BY DEF WithAdded
<1>5. RangeOf(m) \cap RangeOf(upd.added) = {}
  BY <1>2, <1>3 DEF Added
<1> HIDE DEF m
<1> QED BY <1>2, <1>3, <1>4, <1>5, ConcatLists DEF Added

\* The core searchers know the current state and no added one.
LEMMA BeginAssertsHold ==
  ASSUME IndInv, pc = "update", NEW i \in Cores
  PROVE  BeginAsserts(i)
<1>1. CASE i \in Listed
  <2>1. RangeOf(core[i]) = states \ paused
    BY <1>1, ListFacts DEF Runnable
  <2>2. current # Null => current \in states \ paused
    BY DEF IndInv, UpdateInv
  <2>3. RangeOf(upd.added) \cap states = {}
    BY DEF IndInv, UpdateInv, Added
  <2> QED BY <2>1, <2>2, <2>3 DEF BeginAsserts
<1>2. CASE i \notin Listed
  BY <1>2 DEF BeginAsserts, Listed
<1> QED BY <1>1, <1>2

\* Up to the removals: the lists get the added states, the caches lose what is
\* removed, and no paused state is left among the removals.
LEMMA UpdateBeginKeeps == IndInv /\ UpdateBegin => IndInv'
<1> SUFFICES ASSUME IndInv, UpdateBegin PROVE IndInv'
  OBVIOUS
<1>0. pc = "update"
  BY DEF UpdateBegin
<1>1. /\ batchLast' = IF batchLast \in Unpaused THEN Null ELSE batchLast
      /\ branchLast' \in {branchLast, Null}
      /\ branchLast \in Unpaused => branchLast' = Null
      /\ core' = [i \in Cores |-> WithAdded(i)]
      /\ paused' = paused \ upd.removed
      /\ upd' = [upd EXCEPT !.todo = Unpaused]
      /\ pc' = "remove"
      /\ UNCHANGED <<cfg, states, index, current, fault>>
  BY <1>0, BeginAssertsHold DEF UpdateBegin
<1>2. /\ upd \in [added : Seq(State), removed : SUBSET State, todo : SUBSET State]
      /\ upd.removed \subseteq states /\ Added \cap states = {} /\ Injective(upd.added)
      /\ paused \subseteq states /\ states \subseteq State
  BY DEF IndInv, TypeOK, UpdateInv, PausedInv
<1>3. upd'.added = upd.added /\ upd'.removed = upd.removed /\ upd'.todo = Unpaused
  BY <1>1, <1>2
<1>4. \A i \in Cores : core'[i] \in Seq(State)
  <2> SUFFICES ASSUME NEW i \in Cores PROVE WithAdded(i) \in Seq(State)
    BY <1>1
  <2>1. CASE i \in Listed
    BY <1>0, <2>1, WithAddedFacts
  <2>2. CASE i \notin Listed
    BY <2>2 DEF WithAdded, IndInv, TypeOK
  <2> QED BY <2>1, <2>2
<1>5. TypeOK'
  <2>1. core' \in [Cores' -> Seq(State)]
    BY <1>1, <1>4 DEF Cores
  <2>2. upd' \in [added : Seq(State), removed : SUBSET State, todo : SUBSET State]
    BY <1>1, <1>2 DEF Unpaused
  <2> QED BY <1>1, <2>1, <2>2 DEF IndInv, TypeOK, Cores, Pcs
<1>6. Runnable' = (states \ paused) \cup Added
  <2>1. Runnable' = (((states \cup Added) \ upd.removed) \cup Unpaused) \ (paused \ upd.removed)
    BY <1>1, <1>3 DEF Runnable, Remaining, Added
  <2> QED BY <1>2, <2>1 DEF Unpaused
<1>7. ListsInv'
  <2> SUFFICES ASSUME NEW i \in Listed
               PROVE  Injective(core'[i]) /\ RangeOf(core'[i]) = Runnable'
    BY <1>1 DEF ListsInv, Listed, Cores
  <2>1. core'[i] = WithAdded(i)
    BY <1>1 DEF Listed
  <2> QED BY <1>0, <1>6, <2>1, WithAddedFacts
<1>8. PausedInv'
  BY <1>1, <1>2, <1>3 DEF IndInv, PausedInv
<1>9. CachesInv'
  <2>1. {branchLast, batchLast} \subseteq (states \ paused) \cup {Null}
    BY <1>0 DEF IndInv, CachesInv
  <2>2. {branchLast', batchLast'} \subseteq
          (((states \cup Added) \ upd.removed) \ (paused \ upd.removed)) \cup {Null}
    BY <1>1, <2>1 DEF Unpaused
  <2> QED BY <1>1, <1>3, <2>2 DEF CachesInv, Remaining, Added
<1>10. UpdateInv'
  <2>1. Unpaused \subseteq upd.removed \ (paused \ upd.removed)
    BY DEF Unpaused
  <2>2. current # Null => current \in states \ (paused \ upd.removed)
    BY <1>0 DEF IndInv, UpdateInv
  <2> QED BY <1>1, <1>2, <1>3, <2>1, <2>2 DEF UpdateInv, Added
<1> QED BY <1>1, <1>5, <1>7, <1>8, <1>9, <1>10 DEF IndInv

\* Every removed state that is not paused is in every list.
LEMMA UpdateRemoveKeeps == IndInv /\ UpdateRemove => IndInv'
<1> SUFFICES ASSUME IndInv, UpdateRemove PROVE IndInv'
  OBVIOUS
<1>0. pc = "remove"
  BY DEF UpdateRemove
<1>1. upd.todo \subseteq Runnable
  BY <1>0 DEF IndInv, UpdateInv, Runnable
<1>2. \A s \in upd.todo : \A i \in Listed : s \in RangeOf(core[i])
  BY <1>1, ListFacts
<1>3. PICK s \in upd.todo :
        /\ core' = [i \in Cores |-> Erase(core[i], s)]
        /\ upd' = [upd EXCEPT !.todo = @ \ {s}]
        /\ UNCHANGED <<cfg, states, index, branchLast, batchLast, paused, pc, current, fault>>
  BY <1>2 DEF UpdateRemove
<1>4. /\ upd \in [added : Seq(State), removed : SUBSET State, todo : SUBSET State]
      /\ upd.todo \subseteq upd.removed \ paused
  BY DEF IndInv, TypeOK, UpdateInv
<1>5. upd'.added = upd.added /\ upd'.removed = upd.removed /\ upd'.todo = upd.todo \ {s}
  BY <1>3, <1>4
<1>6. \A i \in Cores : core'[i] \in Seq(State)
  <2> SUFFICES ASSUME NEW i \in Cores PROVE Erase(core[i], s) \in Seq(State)
    BY <1>3
  <2>1. CASE i \in Listed
    BY <2>1, ListFacts, EraseProperties
  <2>2. CASE i \notin Listed
    <3>1. core[i] \in Seq(State)
      BY DEF IndInv, TypeOK
    <3> QED BY <3>1, EraseType
  <2> QED BY <2>1, <2>2
<1>7. TypeOK'
  <2>1. core' \in [Cores' -> Seq(State)]
    BY <1>3, <1>6 DEF Cores
  <2>2. upd' \in [added : Seq(State), removed : SUBSET State, todo : SUBSET State]
    BY <1>3, <1>4
  <2> QED BY <1>3, <2>1, <2>2 DEF IndInv, TypeOK, Cores
<1>8. Runnable' = Runnable \ {s}
  <2>1. /\ Runnable = (Remaining \cup upd.todo) \ paused
        /\ Runnable' = (Remaining \cup (upd.todo \ {s})) \ paused
    BY <1>0, <1>3, <1>5 DEF Runnable, Remaining, Added
  <2>2. s \notin Remaining
    BY <1>4 DEF Remaining
  <2> QED BY <2>1, <2>2
<1>9. ListsInv'
  <2> SUFFICES ASSUME NEW i \in Listed
               PROVE  Injective(core'[i]) /\ RangeOf(core'[i]) = Runnable'
    BY <1>3 DEF ListsInv, Listed, Cores
  <2>1. core'[i] = Erase(core[i], s)
    BY <1>3 DEF Listed
  <2> QED BY <1>8, <2>1, ListFacts, EraseProperties
<1>10. PausedInv'
  BY <1>0, <1>3, <1>5 DEF IndInv, PausedInv
<1>11. CachesInv'
  BY <1>0, <1>3, <1>5 DEF IndInv, CachesInv, Remaining, Added
<1>12. UpdateInv'
  BY <1>0, <1>3, <1>5 DEF IndInv, UpdateInv, Added
<1> QED BY <1>0, <1>3, <1>7, <1>9, <1>10, <1>11, <1>12 DEF IndInv

\* The removals are over: without iterative deepening so is the update.
LEMMA UpdateRemovedKeeps == IndInv /\ UpdateRemoved => IndInv'
<1> SUFFICES ASSUME IndInv, UpdateRemoved PROVE IndInv'
  OBVIOUS
<1>1. /\ pc = "remove" /\ upd.todo = {}
      /\ pc' = IF cfg.deepening THEN "deepen" ELSE "end"
      /\ UNCHANGED <<cfg, states, core, index, branchLast, batchLast, paused, current, upd,
                     fault>>
  BY DEF UpdateRemoved
<1>2. TypeOK'
  BY <1>1 DEF IndInv, TypeOK, Cores, Pcs
<1>3. Runnable' = Runnable /\ Listed' = Listed
  BY <1>1 DEF Runnable, Remaining, Added, Listed, Cores
<1>4. ListsInv'
  BY <1>1, <1>3 DEF IndInv, ListsInv
<1>5. PausedInv'
  BY <1>1 DEF IndInv, PausedInv, Remaining, Added
<1>6. CachesInv'
  BY <1>1 DEF IndInv, CachesInv, Remaining, Added
<1>7. UpdateInv'
  BY <1>1 DEF IndInv, UpdateInv, Added
<1> QED BY <1>1, <1>2, <1>4, <1>5, <1>6, <1>7 DEF IndInv

\* A state is paused: it was in every list, and leaves the lists and the caches.
LEMMA PauseKeeps == IndInv /\ Pause => IndInv'
<1> SUFFICES ASSUME IndInv, Pause PROVE IndInv'
  OBVIOUS
<1>0. pc = "deepen" /\ current # Null /\ current \notin upd.removed
  BY DEF Pause
<1>1. current \in states \ paused /\ current \in State /\ cfg.deepening
  BY <1>0 DEF IndInv, UpdateInv, TypeOK
<1>2. Runnable = Remaining \ paused /\ current \in Runnable
  BY <1>0, <1>1 DEF Runnable, Remaining
<1>3. \A i \in Listed : current \in RangeOf(core[i])
  BY <1>2, ListFacts
<1>4. /\ paused' = paused \cup {current}
      /\ core' = [i \in Cores |-> Erase(core[i], current)]
      /\ batchLast' = IF batchLast = current THEN Null ELSE batchLast
      /\ branchLast' = IF branchLast = current THEN Null ELSE branchLast
      /\ pc' = "refill"
      /\ UNCHANGED <<cfg, states, index, current, upd, fault>>
  BY <1>3 DEF Pause
<1>5. \A i \in Cores : core'[i] \in Seq(State)
  <2> SUFFICES ASSUME NEW i \in Cores PROVE Erase(core[i], current) \in Seq(State)
    BY <1>4
  <2>1. core[i] \in Seq(State)
    BY DEF IndInv, TypeOK
  <2> QED BY <2>1, EraseType
<1>6. TypeOK'
  <2>1. core' \in [Cores' -> Seq(State)]
    BY <1>4, <1>5 DEF Cores
  <2> QED BY <1>1, <1>4, <2>1 DEF IndInv, TypeOK, Cores, Pcs
<1>7. Runnable' = Runnable \ {current}
  <2>1. Runnable' = Remaining \ (paused \cup {current})
    BY <1>4 DEF Runnable, Remaining, Added
  <2> QED BY <1>2, <2>1
<1>8. ListsInv'
  <2> SUFFICES ASSUME NEW i \in Listed
               PROVE  Injective(core'[i]) /\ RangeOf(core'[i]) = Runnable'
    BY <1>4 DEF ListsInv, Listed, Cores
  <2>1. core'[i] = Erase(core[i], current)
    BY <1>4 DEF Listed
  <2> QED BY <1>7, <2>1, ListFacts, EraseProperties
<1>9. PausedInv'
  BY <1>0, <1>1, <1>4 DEF IndInv, PausedInv
<1>10. CachesInv'
  <2>1. {branchLast, batchLast} \subseteq (Remaining \ paused) \cup {Null}
    BY <1>0 DEF IndInv, CachesInv
  <2>2. {branchLast', batchLast'} \subseteq (Remaining \ (paused \cup {current})) \cup {Null}
    BY <1>4, <2>1
  <2> QED BY <1>4, <2>2 DEF CachesInv, Remaining, Added
<1>11. UpdateInv'
  BY <1>0, <1>1, <1>4 DEF IndInv, UpdateInv, Added
<1> QED BY <1>4, <1>6, <1>8, <1>9, <1>10, <1>11 DEF IndInv

\* No state is paused.
LEMMA DontPauseKeeps == IndInv /\ DontPause => IndInv'
<1> SUFFICES ASSUME IndInv, DontPause PROVE IndInv'
  OBVIOUS
<1>1. /\ pc = "deepen" /\ pc' = "refill"
      /\ UNCHANGED <<cfg, states, core, index, branchLast, batchLast, paused, current, upd,
                     fault>>
  BY DEF DontPause
<1>2. TypeOK'
  BY <1>1 DEF IndInv, TypeOK, Cores, Pcs
<1>3. Runnable' = Runnable /\ Listed' = Listed
  BY <1>1 DEF Runnable, Remaining, Added, Listed, Cores
<1>4. ListsInv'
  BY <1>1, <1>3 DEF IndInv, ListsInv
<1>5. PausedInv'
  BY <1>1 DEF IndInv, PausedInv
<1>6. CachesInv'
  BY <1>1 DEF IndInv, CachesInv, Remaining, Added
<1>7. UpdateInv'
  BY <1>1 DEF IndInv, UpdateInv, Added
<1> QED BY <1>1, <1>2, <1>4, <1>5, <1>6, <1>7 DEF IndInv

\* The paused states return when, and only when, no list has a state left.
LEMMA RefillKeeps ==
  ASSUME NoDeepenedRandomPath
  PROVE  IndInv /\ Refill => IndInv'
<1> SUFFICES ASSUME IndInv, Refill PROVE IndInv'
  OBVIOUS
<1>1. /\ pc = "refill" /\ pc' = "end"
      /\ UNCHANGED <<cfg, states, index, branchLast, batchLast, current, upd, fault>>
  BY DEF Refill
<1>2. cfg.deepening /\ Listed = Cores /\ 1 \in Listed
  BY <1>1, CoresFacts DEF IndInv, UpdateInv
<1>3. Runnable = Remaining \ paused /\ Remaining' = Remaining /\ Listed' = Listed
  BY <1>1 DEF Runnable, Remaining, Added, Listed, Cores
<1>4. BaseEmpty <=> Runnable = {}
  BY <1>2, ListFacts, EmptyRange DEF BaseEmpty
<1>5. paused \subseteq Remaining
  BY <1>1 DEF IndInv, PausedInv, Remaining
<1>6. UpdateInv'
  <2>1. paused' \subseteq paused
    BY DEF Refill
  <2> QED BY <1>1, <2>1 DEF IndInv, UpdateInv, Added
<1>7. CASE ~BaseEmpty
  <2>1. UNCHANGED <<core, paused>>
    BY <1>7 DEF Refill
  <2>2. TypeOK'
    BY <1>1, <2>1 DEF IndInv, TypeOK, Cores, Pcs
  <2>3. Runnable' = Runnable
    BY <1>1, <1>3, <2>1 DEF Runnable
  <2>4. ListsInv'
    BY <1>3, <2>1, <2>3 DEF IndInv, ListsInv
  <2>5. PausedInv'
    <3>1. Remaining # paused
      BY <1>3, <1>4, <1>7
    <3> QED BY <1>1, <1>3, <2>1, <3>1 DEF IndInv, PausedInv
  <2>6. CachesInv'
    BY <1>1, <1>3, <2>1 DEF IndInv, CachesInv
  <2> QED BY <1>1, <1>6, <2>2, <2>4, <2>5, <2>6 DEF IndInv
<1>8. CASE BaseEmpty
  <2>1. PICK q \in [1..Cardinality(paused) -> paused] :
          /\ RangeOf(q) = paused /\ Injective(q)
          /\ core' = [i \in Cores |-> IF i \in Listed THEN core[i] \o q ELSE core[i]]
    BY <1>8 DEF Refill
  <2>2. paused' = {}
    BY <1>8 DEF Refill
  <2>3. Runnable = {} /\ Remaining = paused
    BY <1>3, <1>4, <1>5, <1>8
  <2>4. q \in Seq(State)
    <3>1. paused \subseteq State /\ IsFiniteSet(State)
      BY SearchersAssumption DEF IndInv, TypeOK
    <3>2. Cardinality(paused) \in Nat
      BY <3>1, FS_Subset, FS_CardinalityType
    <3> QED BY <3>1, <3>2
  <2>5. \A i \in Listed : /\ core'[i] \in Seq(State) /\ Injective(core'[i])
                          /\ RangeOf(core'[i]) = paused
    <3> SUFFICES ASSUME NEW i \in Listed
                 PROVE  /\ core'[i] \in Seq(State) /\ Injective(core'[i])
                        /\ RangeOf(core'[i]) = paused
      OBVIOUS
    <3>1. core'[i] = core[i] \o q
      BY <1>2, <2>1
    <3>2. core[i] \in Seq(State) /\ Injective(core[i]) /\ RangeOf(core[i]) = {}
      BY <2>3, ListFacts
    <3>3. RangeOf(core[i]) \cap RangeOf(q) = {}
      BY <3>2
    <3>4. /\ core[i] \o q \in Seq(State) /\ Injective(core[i] \o q)
          /\ RangeOf(core[i] \o q) = RangeOf(core[i]) \cup RangeOf(q)
      BY <2>1, <2>4, <3>2, <3>3, ConcatLists
    <3>5. RangeOf(core[i]) \cup RangeOf(q) = paused
      BY <2>1, <3>2
    <3> QED BY <3>1, <3>4, <3>5
  <2>6. TypeOK'
    <3>1. core' \in [Cores' -> Seq(State)]
      BY <1>1, <1>2, <2>1, <2>5 DEF Cores
    <3> QED BY <1>1, <2>2, <3>1 DEF IndInv, TypeOK, Cores, Pcs
  <2>7. Runnable' = paused
    <3>1. Runnable' = Remaining \ {}
      BY <1>1, <1>3, <2>2 DEF Runnable
    <3> QED BY <2>3, <3>1
  <2>8. ListsInv'
    BY <1>3, <2>5, <2>7 DEF ListsInv
  <2>9. PausedInv'
    BY <1>1, <2>2 DEF PausedInv
  <2>10. CachesInv'
    <3>1. {branchLast, batchLast} \subseteq (Remaining \ paused) \cup {Null}
      BY <1>1 DEF IndInv, CachesInv
    <3> QED BY <1>1, <1>3, <2>2, <3>1 DEF CachesInv
  <2> QED BY <1>1, <1>6, <2>6, <2>8, <2>9, <2>10 DEF IndInv
<1> QED BY <1>7, <1>8

\* The executor's set of states catches up with the lists.
LEMMA UpdateEndKeeps == IndInv /\ UpdateEnd => IndInv'
<1> SUFFICES ASSUME IndInv, UpdateEnd PROVE IndInv'
  OBVIOUS
<1>1. /\ pc = "end" /\ states' = Remaining
      /\ pc' = "select" /\ current' = Null /\ upd' = NoUpdate
      /\ UNCHANGED <<cfg, core, index, branchLast, batchLast, paused, fault>>
  BY DEF UpdateEnd, Remaining, Added
<1>2. /\ upd'.added = << >> /\ upd'.removed = {} /\ upd'.todo = {}
      /\ upd' \in [added : Seq(State), removed : SUBSET State, todo : SUBSET State]
  BY <1>1 DEF NoUpdate
<1>3. Remaining \subseteq State
  <2>1. states \subseteq State /\ upd.added \in Seq(State)
    BY DEF IndInv, TypeOK
  <2>2. Added \subseteq State
    BY <2>1 DEF Added, RangeOf
  <2> QED BY <2>1, <2>2 DEF Remaining
<1>4. TypeOK'
  BY <1>1, <1>2, <1>3 DEF IndInv, TypeOK, Cores, Pcs
<1>5. Runnable' = Runnable /\ Listed' = Listed
  BY <1>1 DEF Runnable, Listed, Cores
<1>6. ListsInv'
  BY <1>1, <1>5 DEF IndInv, ListsInv
<1>7. PausedInv'
  <2>1. paused \subseteq Remaining
    BY <1>1 DEF IndInv, PausedInv, Remaining
  <2> QED BY <1>1, <2>1 DEF IndInv, PausedInv
<1>8. CachesInv'
  BY <1>1 DEF IndInv, CachesInv
<1>9. UpdateInv'
  <2>1. Injective(<< >>) /\ RangeOf(<< >>) = {}
    BY DEF Injective, RangeOf
  <2> QED BY <1>1, <1>2, <2>1 DEF UpdateInv, Added
<1> QED BY <1>1, <1>4, <1>6, <1>7, <1>8, <1>9 DEF IndInv

\* A step that changes nothing preserves IndInv.
LEMMA StutterKeeps == IndInv /\ UNCHANGED vars => IndInv'
BY DEF vars, IndInv, TypeOK, ListsInv, PausedInv, CachesInv, UpdateInv, Runnable, Remaining,
       Added, Cores, Listed

(***************************************************************************)
(* The theorems                                                            *)
(***************************************************************************)

\* The searchers of constructUserSearcher, given the first states, satisfy IndInv.
LEMMA InitInv == Init => IndInv
<1> SUFFICES ASSUME Init PROVE IndInv
  OBVIOUS
<1>1. PICK q \in Lists(State, MaxAdded + 1) \ {<< >>} :
        states = RangeOf(q) /\ core = [i \in Cores |-> IF i \in Listed THEN q ELSE << >>]
  BY DEF Init
<1>2. /\ cfg \in Configs /\ index = 1 /\ branchLast = Null /\ batchLast = Null /\ paused = {}
      /\ pc = "select" /\ current = Null /\ upd = NoUpdate /\ fault = "none"
  BY DEF Init
<1>3. q \in Seq(State) /\ Injective(q) /\ states \subseteq State
  BY <1>1, SearchersAssumption, ListsAreSequences
<1>4. 1 \in Cores
  <2>1. cfg.search \in Seq(CoreSearchType) /\ cfg.search # << >>
    BY <1>2, SearchersAssumption DEF Config
  <2> QED BY <2>1 DEF Cores
<1>5. TypeOK
  <2>1. core \in [Cores -> Seq(State)]
    BY <1>1, <1>3
  <2>2. upd \in [added : Seq(State), removed : SUBSET State, todo : SUBSET State]
    BY <1>2 DEF NoUpdate
  <2> QED BY <1>2, <1>3, <1>4, <2>1, <2>2 DEF TypeOK, Pcs, Faults
<1>6. ListsInv
  BY <1>1, <1>2, <1>3 DEF ListsInv, Runnable, Listed
<1>7. upd.added = << >> /\ upd.removed = {} /\ upd.todo = {}
  BY <1>2 DEF NoUpdate
<1>8. UpdateInv
  BY <1>2, <1>7 DEF UpdateInv, Added, Injective, RangeOf
<1>9. PausedInv /\ CachesInv
  BY <1>2 DEF PausedInv, CachesInv
<1> QED BY <1>2, <1>5, <1>6, <1>8, <1>9 DEF IndInv

\* Every step preserves IndInv.
LEMMA NextInv ==
  ASSUME NoDeepenedRandomPath
  PROVE  IndInv /\ [Next]_vars => IndInv'
<1> SUFFICES ASSUME IndInv, [Next]_vars PROVE IndInv'
  OBVIOUS
<1>1. CASE UNCHANGED vars
  BY <1>1, StutterKeeps
<1>2. CASE SelectBatch \/ SelectBranch \/ SelectCore
  BY <1>2, SelectBatchKeeps, SelectBranchKeeps, SelectCoreKeeps
<1>3. CASE Step \/ DumpStates
  BY <1>3, StepKeeps, DumpStatesKeeps
<1>4. CASE Terminated
  BY <1>4, StutterKeeps DEF Terminated
<1>5. CASE UpdateBegin \/ UpdateRemove \/ UpdateRemoved
  BY <1>5, UpdateBeginKeeps, UpdateRemoveKeeps, UpdateRemovedKeeps
<1>6. CASE Pause \/ DontPause \/ Refill \/ UpdateEnd
  BY <1>6, PauseKeeps, DontPauseKeeps, RefillKeeps, UpdateEndKeeps
<1> QED BY <1>1, <1>2, <1>3, <1>4, <1>5, <1>6 DEF Next

\* The inductive invariant holds of every stack of searchers without iterative
\* deepening over random-path.
THEOREM SearchersInvariance ==
  ASSUME NoDeepenedRandomPath
  PROVE  Spec => []IndInv
BY InitInv, NextInv, PTL DEF Spec

\* Whenever the executor asks for a state, every core searcher lists exactly the
\* states that are not paused, each once, and has one to answer with.
THEOREM SearchersListsAgree ==
  ASSUME NoDeepenedRandomPath
  PROVE  Spec => []ListsAgree
<1>1. IndInv => ListsAgree
  BY DEF IndInv, ListsInv, PausedInv, Runnable, ListsAgree
<1> QED BY <1>1, SearchersInvariance, PTL

\* The state a batching or branching searcher has cached is never a deleted or
\* a paused one.
THEOREM SearchersCachesUsable ==
  ASSUME NoDeepenedRandomPath
  PROVE  Spec => []CachesUsable
<1>1. IndInv => CachesUsable
  BY DEF IndInv, CachesInv, CachesUsable
<1> QED BY <1>1, SearchersInvariance, PTL

\* No assertion of a searcher fails, for any number of states and searchers.
THEOREM SearchersNoFault ==
  ASSUME NoDeepenedRandomPath
  PROVE  Spec => []NoFault
<1>1. IndInv => NoFault
  BY DEF IndInv, NoFault
<1> QED BY <1>1, SearchersInvariance, PTL

(***************************************************************************)
(* The contract                                                            *)
(***************************************************************************)

\* Between updates the searcher holds every state of the executor, paused or not.
LEMMA HoldsAll ==
  ASSUME IndInv, pc \in {"select", "step"}
  PROVE  KnownToAll = states
<1>1. Runnable \cup paused = states
  BY DEF IndInv, PausedInv, Runnable
<1>2. \A i \in Listed : RangeOf(core[i]) \cup paused = states
  BY <1>1, ListFacts
<1> QED BY <1>2 DEF KnownToAll

\* So the states the contract says are held are all states, always.
LEMMA HeldIsStates ==
  ASSUME IndInv
  PROVE  (IF pc \in {"select", "step"} THEN KnownToAll ELSE states) = states
BY HoldsAll

\* Every step is a step of the contract, or none that it sees.
LEMMA NextImplements ==
  ASSUME NoDeepenedRandomPath
  PROVE  IndInv /\ [Next]_vars => [Contract!Next]_(Contract!vars)
<1> SUFFICES ASSUME IndInv, [Next]_vars
             PROVE  Contract!Next \/ UNCHANGED Contract!vars
  OBVIOUS
<1> DEFINE held == IF pc \in {"select", "step"} THEN KnownToAll ELSE states
<1>1. IndInv'
  BY NextInv
<1>2. held = states /\ held' = states'
  <2>1. held = states
    BY HeldIsStates
  <2>2. CASE pc' \in {"select", "step"}
    <3>1. (KnownToAll)' = states'
      <4>1. (Runnable \cup paused)' = states'
        BY <1>1, <2>2 DEF IndInv, PausedInv, Runnable
      <4>2. \A i \in Listed' : RangeOf(core'[i]) = Runnable'
        BY <1>1 DEF IndInv, ListsInv
      <4> QED BY <4>1, <4>2 DEF KnownToAll
    <3> QED BY <2>1, <2>2, <3>1
  <2>3. CASE pc' \notin {"select", "step"}
    BY <2>1, <2>3
  <2> QED BY <2>1, <2>2, <2>3
<1> HIDE DEF held
<1>3. CASE SelectBatch \/ SelectBranch \/ SelectCore
  <2>1. pc = "select" /\ current = Null
    BY <1>3 DEF SelectBatch, SelectBranch, SelectCore, IndInv, UpdateInv
  <2>2. UNCHANGED states /\ current' \in states
    <3>1. pc' # "crashed"
      BY <1>1 DEF IndInv
    <3>2. pc' = "step" /\ UNCHANGED states
      BY <1>3, <3>1 DEF SelectBatch, SelectBranch, SelectCore, Selected, Crash
    <3> QED BY <1>1, <3>2 DEF IndInv, UpdateInv
  <2>3. Contract!Select
    BY <1>2, <2>1, <2>2 DEF Contract!Select, held
  <2> QED BY <2>3 DEF Contract!Next
<1>4. CASE UpdateEnd
  <2>1. states' = (states \cup Added) \ upd.removed /\ current' = Null
    BY <1>4 DEF UpdateEnd, Added
  <2>2. Added \in SUBSET (State \ states) /\ upd.removed \in SUBSET states
    <3>1. upd.added \in Seq(State) /\ Added \cap states = {} /\ upd.removed \subseteq states
      BY DEF IndInv, UpdateInv, TypeOK
    <3>2. Added \subseteq State
      BY <3>1 DEF Added, RangeOf
    <3> QED BY <3>1, <3>2
  <2>3. Contract!Update
    BY <1>2, <2>1, <2>2 DEF Contract!Update, held
  <2> QED BY <2>3 DEF Contract!Next
<1>5. CASE DumpStates
  BY <1>2, <1>5 DEF DumpStates, Call, Contract!vars, held, IndInv, UpdateInv
<1>6. CASE \/ Step \/ Terminated \/ UpdateBegin \/ UpdateRemove \/ UpdateRemoved
           \/ Pause \/ DontPause \/ Refill \/ UNCHANGED vars
  <2>1. UNCHANGED <<states, current>>
    BY <1>6 DEF Step, Call, Terminated, UpdateBegin, UpdateRemove, UpdateRemoved, Pause,
                DontPause, Refill, Crash, vars
  <2> QED BY <1>2, <2>1 DEF Contract!vars, held
<1> QED BY <1>3, <1>4, <1>5, <1>6 DEF Next

\* The stack is a searcher to the executor: whatever is added and removed, it
\* selects one of the executor's states and still holds all of them.
THEOREM SearchersImplementContract ==
  ASSUME NoDeepenedRandomPath
  PROVE  Spec => ImplementsContract
<1>1. Init => Contract!Init
  <2> SUFFICES ASSUME Init PROVE Contract!Init
    OBVIOUS
  <2>1. IndInv /\ current = Null
    BY InitInv DEF Init
  <2>2. states \in (SUBSET State) \ {{}}
    <3>1. PICK q \in Lists(State, MaxAdded + 1) \ {<< >>} : states = RangeOf(q)
      BY DEF Init
    <3>2. q \in Seq(State)
      BY <3>1, SearchersAssumption, ListsAreSequences
    <3> QED BY <2>1, <3>1, <3>2, EmptyRange DEF IndInv, TypeOK
  <2> QED BY <2>1, <2>2, HeldIsStates DEF Contract!Init
<1> QED BY <1>1, NextImplements, SearchersInvariance, PTL
        DEF Spec, ImplementsContract, Contract!Spec
=============================================================================
