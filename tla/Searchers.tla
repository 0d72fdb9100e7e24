------------------------------ MODULE Searchers ------------------------------
(* The searchers of klee/lib/Core/Searcher.cpp as constructUserSearcher       *)
(* stacks them: the core searchers, each with a list of states of its own,    *)
(* then InterleavedSearcher over several of them, BranchingSearcher,          *)
(* BatchingSearcher and IterativeDeepeningTimeSearcher.  GetFeaturesSearcher  *)
(* hands every call on.  MergingSearcher is not part of this module.          *)
(*                                                                            *)
(* The executor around them is Executor::run: it asks for a state, and tells  *)
(* the searcher afterwards which states the step added and removed.  The      *)
(* address of a deleted state may be given to a new one.                      *)
EXTENDS Naturals, Sequences, FiniteSets

CONSTANTS
  State,     \* the addresses of ExecutionStates
  Null,
  MaxAdded,  \* bound: states forked by one step
  Configs    \* the searcher options to consider

CoreSearchType == {"DFS", "BFS", "RandomState", "RandomPath", "NURS", "NURS_Depth",
                   "SGS", "ML"}

\* --search, --use-branching-search, --use-batching-search and
\* --use-iterative-deepening-time-search
Config == [search : Seq(CoreSearchType) \ {<< >>}, branching : BOOLEAN,
           batching : BOOLEAN, deepening : BOOLEAN]

ASSUME SearchersAssumption ==
  /\ Null \notin State /\ IsFiniteSet(State)
  /\ MaxAdded \in Nat
  /\ Configs \subseteq Config

VARIABLES
  cfg,         \* the options of this run
  states,      \* Executor::states
  core,        \* the list of each core searcher
  index,       \* InterleavedSearcher::index
  branchLast,  \* BranchingSearcher::lastState
  batchLast,   \* BatchingSearcher::lastState
  paused,      \* IterativeDeepeningTimeSearcher::pausedStates
  pc,
  current,     \* the state being executed, Null outside a step and in a dump
  upd,         \* the arguments of the update in progress
  fault        \* the assertion that failed

vars == <<cfg, states, core, index, branchLast, batchLast, paused, pc, current, upd,
          fault>>

RangeOf(q) == {q[i] : i \in DOMAIN q}

Injective(q) == \A i, j \in DOMAIN q : q[i] = q[j] => i = j

\* the lists of at most n different states of S
Lists(S, n) == {q \in UNION {[1..k -> S] : k \in 0..n} : Injective(q)}

\* list.erase(find(list, s))
Erase(q, s) ==
  LET i == CHOOSE i \in DOMAIN q : q[i] = s IN
  IF s \in RangeOf(q) THEN SubSeq(q, 1, i - 1) \o SubSeq(q, i + 1, Len(q)) ELSE q

NoUpdate == [added |-> << >>, removed |-> {}, todo |-> {}]

\* constructUserSearcher adds it by itself to the searchers that are expensive
UsesBranching == cfg.branching \/ cfg.search[1] \in {"SGS", "ML"}

Cores == DOMAIN cfg.search
\* the core searchers with a list; random-path walks the process tree instead
Listed == {i \in Cores : cfg.search[i] # "RandomPath"}

\* run() hands over the states that exist when the search starts
Init ==
  /\ cfg \in Configs
  /\ \E q \in Lists(State, MaxAdded + 1) \ {<< >>} :
       /\ states = RangeOf(q)
       /\ core = [i \in Cores |-> IF i \in Listed THEN q ELSE << >>]
  /\ index = 1
  /\ branchLast = Null /\ batchLast = Null /\ paused = {}
  /\ pc = "select" /\ current = Null /\ upd = NoUpdate /\ fault = "none"

Crash(why) ==
  /\ pc' = "crashed" /\ fault' = why
  /\ UNCHANGED <<cfg, states, core, index, branchLast, batchLast, paused, current, upd>>

(***************************************************************************)
(* selectState                                                             *)
(***************************************************************************)

\* the states core searcher i may answer with
Choices(i) ==
  LET q == core[i] IN
  CASE cfg.search[i] = "RandomPath" -> states
    [] cfg.search[i] = "DFS" /\ q # << >> -> {q[Len(q)]}
    [] cfg.search[i] = "BFS" /\ q # << >> -> {q[1]}
    [] OTHER -> RangeOf(q)

Selected(s) ==
  /\ pc' = "step" /\ current' = s
  /\ UNCHANGED <<cfg, states, core, paused, upd, fault>>

\* BatchingSearcher stays with its state until a budget is used up
SelectBatch ==
  /\ pc = "select" /\ states # {}
  /\ cfg.batching /\ batchLast # Null
  /\ Selected(batchLast) /\ UNCHANGED <<index, branchLast, batchLast>>

\* BranchingSearcher stays with its state until it is reset
SelectBranch ==
  /\ pc = "select" /\ states # {}
  /\ UsesBranching /\ branchLast # Null
  /\ batchLast' = IF cfg.batching THEN branchLast ELSE batchLast
  /\ Selected(branchLast) /\ UNCHANGED <<index, branchLast>>

\* InterleavedSearcher asks its searchers in turn, from the last to the first
SelectCore ==
  /\ pc = "select" /\ states # {}
  /\ ~(UsesBranching /\ branchLast # Null)
  /\ IF Choices(index) = {} THEN Crash("select from empty searcher")
     ELSE \E s \in Choices(index) :
            /\ index' = IF index = 1 THEN Len(cfg.search) ELSE index - 1
            /\ branchLast' = IF UsesBranching THEN s ELSE branchLast
            /\ batchLast' = IF cfg.batching THEN s ELSE batchLast
            /\ Selected(s)

(***************************************************************************)
(* The executor                                                            *)
(***************************************************************************)

Call(cur, added, removed) ==
  /\ pc' = "update" /\ current' = cur
  /\ upd' = [added |-> added, removed |-> removed, todo |-> {}]
  /\ UNCHANGED <<cfg, states, core, index, branchLast, batchLast, paused, fault>>

\* one instruction and a memory check: states are forked, and any state may be
\* terminated
Step ==
  /\ pc = "step"
  /\ \E added \in Lists(State \ states, MaxAdded), removed \in SUBSET states :
       Call(current, added, removed)

\* doDumpStates
DumpStates ==
  /\ pc = "select" /\ states # {}
  /\ Call(Null, << >>, states)

Terminated == (pc = "crashed" \/ states = {}) /\ UNCHANGED vars

(***************************************************************************)
(* update                                                                  *)
(***************************************************************************)

\* Mutant of Unpaused: paused states are handed on with the others.
RemovedUnfiltered == upd.removed

\* what IterativeDeepeningTimeSearcher leaves of removedStates (its `alt')
Unpaused == upd.removed \ paused

\* Core searcher i asserts that it knows the current state: BFS when it moves it
\* to the back, the weighted searchers when they update its weight.  The latter
\* also assert that an added state is new to them.
BeginAsserts(i) ==
  /\ current # Null /\ current \notin Unpaused =>
       /\ cfg.search[i] = "BFS" /\ upd.added # << >> => current \in RangeOf(core[i])
       /\ cfg.search[i] = "NURS" => current \in RangeOf(core[i])
  /\ cfg.search[i] \in {"NURS", "NURS_Depth"} =>
       RangeOf(upd.added) \cap RangeOf(core[i]) = {}

\* Mutant of WithAdded: BFS leaves the current state at the front.
AppendAdded(i) == IF i \in Listed THEN core[i] \o upd.added ELSE core[i]

\* the list with the added states at its end; BFS first moves the current state,
\* which has evolved as it forked, to the back
WithAdded(i) ==
  IF i \notin Listed THEN core[i]
  ELSE IF /\ cfg.search[i] = "BFS" /\ upd.added # << >>
          /\ current # Null /\ current \notin Unpaused
       THEN Append(Erase(core[i], current), current) \o upd.added
       ELSE core[i] \o upd.added

\* Mutant of UpdateBegin: BatchingSearcher does not look at removedStates.
UpdateBeginKeepsBatch ==
  /\ pc = "update"
  /\ branchLast' = IF branchLast \in Unpaused \/ (current # Null /\ upd.added # << >>)
                   THEN Null ELSE branchLast
  /\ core' = [i \in Cores |-> WithAdded(i)]
  /\ paused' = paused \ upd.removed
  /\ upd' = [upd EXCEPT !.todo = Unpaused]
  /\ pc' = "remove"
  /\ UNCHANGED <<cfg, states, index, batchLast, current, fault>>

\* update as far as the removals: the caches of the decorators are reset, the
\* paused states among the removed ones are forgotten, the rest is handed on
UpdateBegin ==
  /\ pc = "update"
  /\ IF \A i \in Cores : BeginAsserts(i)
     THEN /\ batchLast' = IF batchLast \in Unpaused THEN Null ELSE batchLast
          /\ branchLast' = IF branchLast \in Unpaused \/ (current # Null /\ upd.added # << >>)
                           THEN Null ELSE branchLast
          /\ core' = [i \in Cores |-> WithAdded(i)]
          /\ paused' = paused \ upd.removed
          /\ upd' = [upd EXCEPT !.todo = Unpaused]
          /\ pc' = "remove"
          /\ UNCHANGED <<cfg, states, index, current, fault>>
     ELSE Crash("current or added state")

\* one removed state in each core searcher: "invalid state removed"
UpdateRemove ==
  /\ pc = "remove" /\ upd.todo # {}
  /\ \E s \in upd.todo :
       IF \A i \in Listed : s \in RangeOf(core[i])
       THEN /\ core' = [i \in Cores |-> Erase(core[i], s)]
            /\ upd' = [upd EXCEPT !.todo = @ \ {s}]
            /\ UNCHANGED <<cfg, states, index, branchLast, batchLast, paused, pc, current,
                           fault>>
       ELSE Crash("invalid state removed")

UpdateRemoved ==
  /\ pc = "remove" /\ upd.todo = {}
  /\ pc' = IF cfg.deepening THEN "deepen" ELSE "end"
  /\ UNCHANGED <<cfg, states, core, index, branchLast, batchLast, paused, current, upd,
                 fault>>

\* IterativeDeepeningTimeSearcher pauses a state that used up its time:
\* baseSearcher->removeState(current)
Pause ==
  /\ pc = "deepen" /\ current # Null /\ current \notin upd.removed
  /\ IF \A i \in Listed : current \in RangeOf(core[i])
     THEN /\ paused' = paused \cup {current}
          /\ core' = [i \in Cores |-> Erase(core[i], current)]
          /\ batchLast' = IF batchLast = current THEN Null ELSE batchLast
          /\ branchLast' = IF branchLast = current THEN Null ELSE branchLast
          /\ pc' = "refill"
          /\ UNCHANGED <<cfg, states, index, current, upd, fault>>
     ELSE Crash("invalid state removed")

\* it was fast enough, or is gone
DontPause ==
  /\ pc = "deepen" /\ pc' = "refill"
  /\ UNCHANGED <<cfg, states, core, index, branchLast, batchLast, paused, current, upd,
                 fault>>

\* baseSearcher->empty(): InterleavedSearcher asks its first searcher, and
\* random-path asks the executor, which still has the states of before the step
BaseEmpty == IF 1 \in Listed THEN core[1] = << >> ELSE states = {}

\* Mutants of Refill: pausedStates is cleared before it is handed to the base
\* searcher, or never.
RefillDrops ==
  /\ pc = "refill"
  /\ paused' = IF BaseEmpty THEN {} ELSE paused
  /\ pc' = "end"
  /\ UNCHANGED <<cfg, states, core, index, branchLast, batchLast, current, upd, fault>>
RefillNever ==
  /\ pc = "refill" /\ pc' = "end"
  /\ UNCHANGED <<cfg, states, core, index, branchLast, batchLast, paused, current, upd,
                 fault>>

\* no state is left to run: all paused ones get twice the time
Refill ==
  /\ pc = "refill"
  /\ IF BaseEmpty
     THEN /\ \E q \in [1..Cardinality(paused) -> paused] :
               /\ RangeOf(q) = paused /\ Injective(q)
               /\ core' = [i \in Cores |-> IF i \in Listed THEN core[i] \o q ELSE core[i]]
          /\ paused' = {}
     ELSE UNCHANGED <<core, paused>>
  /\ pc' = "end"
  /\ UNCHANGED <<cfg, states, index, branchLast, batchLast, current, upd, fault>>

\* the rest of updateStates
UpdateEnd ==
  /\ pc = "end"
  /\ states' = (states \cup RangeOf(upd.added)) \ upd.removed
  /\ pc' = "select" /\ current' = Null /\ upd' = NoUpdate
  /\ UNCHANGED <<cfg, core, index, branchLast, batchLast, paused, fault>>

Next ==
  \/ SelectBatch \/ SelectBranch \/ SelectCore
  \/ Step \/ DumpStates \/ Terminated
  \/ UpdateBegin \/ UpdateRemove \/ UpdateRemoved
  \/ Pause \/ DontPause \/ Refill \/ UpdateEnd

Spec == Init /\ [][Next]_vars

\* the executor thread keeps running
FairSpec == Spec /\ WF_vars(Next)

(***************************************************************************)
(* Properties                                                              *)
(***************************************************************************)

Pcs == {"select", "step", "update", "remove", "deepen", "refill", "end", "crashed"}

Faults == {"none", "select from empty searcher", "current or added state",
           "invalid state removed"}

\* Type correctness of the searchers' members and of the update's arguments.
TypeOK ==
  /\ cfg \in Configs
  /\ states \subseteq State /\ paused \subseteq State
  /\ core \in [Cores -> Seq(State)]
  /\ index \in Cores
  /\ {branchLast, batchLast, current} \subseteq State \cup {Null}
  /\ upd \in [added : Seq(State), removed : SUBSET State, todo : SUBSET State]
  /\ pc \in Pcs /\ fault \in Faults

\* When a state is selected every core searcher lists each state that is not
\* paused exactly once and nothing else, and one of them is left to run.
ListsAgree ==
  pc = "select" =>
    /\ \A i \in Listed : Injective(core[i]) /\ RangeOf(core[i]) = states \ paused
    /\ paused \subseteq states
    /\ states # {} => paused # states

\* The state a decorator has cached is one that may run: it is neither deleted
\* (nor its address given to another state unnoticed) nor paused.
CachesUsable ==
  pc = "select" => {branchLast, batchLast} \subseteq (states \ paused) \cup {Null}

\* No assertion of a searcher fails and none is asked while it is empty.
NoFault == fault = "none"

\* the states every core searcher knows, if only as paused ones
KnownToAll ==
  {s \in states : \A i \in Listed : s \in RangeOf(core[i]) \cup paused}

Contract ==
  INSTANCE SearcherContract WITH
    held <- IF pc \in {"select", "step"} THEN KnownToAll ELSE states,
    selected <- current

\* Any stack of searchers is one to the executor: it selects among the states,
\* and after an update it holds all of them.
ImplementsContract == Contract!Spec

\* Breadth-first search starves no state: as long as states keep forking, every
\* state is eventually run, or terminated.
BFSRunsAll ==
  cfg.search = <<"BFS">> /\ ~cfg.batching /\ ~cfg.deepening
  /\ []<>(pc = "update" /\ current # Null /\ upd.added # << >>)
    => \A s \in State : s \in states ~> (current = s \/ s \notin states)
=============================================================================
