------------------------------- MODULE Merging -------------------------------
(* Path merging: klee_open_merge and klee_close_merge                         *)
(* (SpecialFunctionHandler), MergeHandler, and MergingSearcher over a base    *)
(* searcher that meets SearcherContract.  A state that reaches a close point  *)
(* is merged into one that waits there, or waits itself: it is taken out of   *)
(* the base searcher until nobody holds its MergeHandler any more.            *)
EXTENDS Naturals, Sequences, FiniteSets, SequencesExt

CONSTANTS
  State,                \* the addresses of ExecutionStates
  Handler,              \* the addresses of MergeHandlers
  Point,                \* the klee_close_merge instructions
  Null,
  MaxNesting,           \* bound: open merge regions of one state
  IncompleteModes,      \* the values of --use-incomplete-merge to consider
  DumpStatesOnHalt,     \* --dump-states-on-halt
  MemoryCap             \* checkMemoryUsage may terminate states

ASSUME MergingAssumption ==
  /\ Null \notin State /\ MaxNesting \in Nat
  /\ {DumpStatesOnHalt, MemoryCap} \subseteq BOOLEAN /\ IncompleteModes \subseteq BOOLEAN

VARIABLES
  incomplete, \* UseIncompleteMerge
  states,     \* Executor::states
  added,      \* Executor::addedStates
  removed,    \* Executor::removedStates
  stack,      \* ExecutionState::openMergeStack
  open,       \* MergeHandler::openStates
  reached,    \* MergeHandler::reachedCloseMerge
  base,       \* the states of the base searcher
  paused,     \* MergingSearcher::pausedStates
  inClose,    \* MergingSearcher::inCloseMerge
  pc, current,
  todo,       \* the merge groups selectState has not looked at yet
  fault       \* the assertion that failed

vars == <<incomplete, states, added, removed, stack, open, reached, base, paused, inClose, pc, current,
          todo, fault>>
groups == <<stack, open, reached>>
searcher == <<base, paused, inClose>>
executor == <<states, added, removed>>
scanning == <<current, todo, fault, incomplete>>

\* MergingSearcher::mergeGroups: the handlers some state refers to
Held(st) == UNION {ToSet(st[s]) : s \in State}
Waiting(h) == UNION {reached[h][p] : p \in Point}

Nowhere == [p \in Point |-> {}]

Init ==
  /\ \E s \in State : states = {s} /\ base = {s}
  /\ added = {} /\ removed = {} /\ incomplete \in IncompleteModes
  /\ stack = [s \in State |-> << >>]
  /\ open = [h \in Handler |-> {}] /\ reached = [h \in Handler |-> Nowhere]
  /\ paused = {} /\ inClose = {}
  /\ pc = "select" /\ current = Null /\ todo = {} /\ fault = "none"

Crash(why) ==
  /\ pc' = "crashed" /\ fault' = why
  /\ UNCHANGED <<executor, groups, searcher, current, todo, incomplete>>

(***************************************************************************)
(* MergingSearcher::selectState                                            *)
(***************************************************************************)

Run(s) ==
  /\ pc' = "step" /\ current' = s /\ todo' = {}
  /\ UNCHANGED <<executor, groups, searcher, fault, incomplete>>

Select ==
  /\ pc = "select" /\ states # {}
  /\ IF base = {} THEN Crash("base searcher is empty")
     ELSE IF incomplete
     THEN /\ pc' = "groups" /\ todo' = Held(stack)
          /\ UNCHANGED <<executor, groups, searcher, current, fault, incomplete>>
     ELSE \E s \in base : Run(s)

\* getPrioritizeState: the states in the region that are not closed; whether
\* one is less than twice the mean distance from the open is left open
CanPrioritize(h) == open[h] \ inClose

\* the next group with waiting states: one of its running states is preferred
SelectPrioritized ==
  /\ pc = "groups"
  /\ \E h \in todo : /\ Waiting(h) # {}
                     /\ \E s \in CanPrioritize(h) : Run(s)

\* continueState for each waiting state of h: each must be paused, and unknown
\* to the base searcher
Releasable(h) == Waiting(h) \subseteq paused /\ Waiting(h) \cap base = {}

\* none is near enough: the waiting ones are released without the others
SelectRelease ==
  /\ pc = "groups"
  /\ \E h \in todo :
       IF Releasable(h)
       THEN /\ paused' = paused \ Waiting(h) /\ inClose' = inClose \ Waiting(h)
            /\ base' = base \cup Waiting(h)
            /\ reached' = [reached EXCEPT ![h] = Nowhere]
            /\ todo' = todo \ {h}
            /\ UNCHANGED <<executor, stack, open, pc, current, fault, incomplete>>
       ELSE Crash("released state is not paused")

SelectBase ==
  /\ pc = "groups" /\ todo = {}
  /\ \E s \in base : Run(s)

(***************************************************************************)
(* The instructions that matter to merging                                 *)
(***************************************************************************)

EndStep == pc' = "memory" /\ UNCHANGED scanning

\* ExecutionState::branch: the copy is in the same regions
Fork ==
  /\ pc = "step"
  /\ \E s \in State \ (states \cup added) :
       /\ added' = added \cup {s}
       /\ stack' = [stack EXCEPT ![s] = stack[current]]
       /\ open' = [h \in Handler |->
                     IF h \in ToSet(stack[current]) THEN open[h] \cup {s} ELSE open[h]]
  /\ EndStep /\ UNCHANGED <<states, removed, reached, searcher>>

Terminate ==
  /\ pc = "step" /\ removed' = removed \cup {current}
  /\ EndStep /\ UNCHANGED <<states, added, groups, searcher>>

\* handleOpenMerge
OpenMerge ==
  /\ pc = "step" /\ Len(stack[current]) < MaxNesting
  /\ \E h \in Handler \ Held(stack) :
       /\ stack' = [stack EXCEPT ![current] = Append(@, h)]
       /\ open' = [open EXCEPT ![h] = {current}]
       /\ reached' = [reached EXCEPT ![h] = Nowhere]
  /\ EndStep /\ UNCHANGED <<executor, searcher>>

\* openMergeStack.pop_back()
Popped == [stack EXCEPT ![current] = Front(@)]

\* What happens to the lists when the references st are left: a handler nobody
\* holds is destroyed and releases its waiting states.
ReleaseUnheld(h, rch, psd, inC, bs, st) ==
  LET gone == h \notin Held(st)
      free == IF gone THEN UNION {rch[p] : p \in Point} ELSE {}
  IN  /\ reached' = [reached EXCEPT ![h] = IF gone THEN Nowhere ELSE rch]
      /\ paused' = psd \ free /\ inClose' = inC \ free /\ base' = bs \cup free

Closing == pc = "step" /\ stack[current] # << >>
Region == Last(stack[current])

\* "State cannot run into close_merge while being closed", and the assertions of
\* removeOpenState, pauseState and the base searcher
CanClose ==
  /\ current \notin inClose /\ current \in open[Region]
  /\ current \notin paused /\ current \in base

\* handleCloseMerge and addClosedState: the state waits, because it is the first
\* at this point or ExecutionState::merge fails with all that wait there
CloseMerge ==
  /\ Closing
  /\ IF CanClose
     THEN /\ \E p \in Point :
               ReleaseUnheld(Region, [reached[Region] EXCEPT ![p] = @ \cup {current}],
                             paused \cup {current}, inClose \cup {current},
                             base \ {current}, Popped)
          /\ open' = [open EXCEPT ![Region] = @ \ {current}]
          /\ stack' = Popped
          /\ EndStep /\ UNCHANGED executor
     ELSE Crash("closed twice, or not open")

\* it is merged into one that waits, and terminated
CloseMerged ==
  /\ Closing /\ CanClose
  /\ Waiting(Region) # {}
  /\ ReleaseUnheld(Region, reached[Region], paused, inClose, base, Popped)
  /\ open' = [open EXCEPT ![Region] = @ \ {current}]
  /\ stack' = Popped
  /\ removed' = removed \cup {current}
  /\ EndStep /\ UNCHANGED <<states, added>>

\* any other instruction, and a close without a preceding open
Plain == pc = "step" /\ EndStep /\ UNCHANGED <<executor, groups, searcher>>

(***************************************************************************)
(* checkMemoryUsage, updateStates, doDumpStates                            *)
(***************************************************************************)

CheckMemory ==
  /\ pc = "memory" /\ pc' = "update"
  /\ \E kill \in IF MemoryCap THEN SUBSET (states \ removed) ELSE {{}} :
       removed' = removed \cup kill
  /\ UNCHANGED <<states, added, groups, searcher, scanning>>

\* haltExecution, and doDumpStates
Halt ==
  /\ pc = "select" /\ states # {}
  /\ IF DumpStatesOnHalt THEN removed' = states /\ pc' = "update"
     ELSE pc' = "halted" /\ UNCHANGED removed
  /\ UNCHANGED <<states, added, groups, searcher, scanning>>

\* Mutants of UpdateStates: the base searcher is never told, or always.
UpdateTellsNever ==
  /\ pc = "update" /\ pc' = "erase"
  /\ states' = states \cup added /\ added' = {}
  /\ UNCHANGED <<removed, groups, searcher, scanning>>
UpdateTellsAlways ==
  /\ pc = "update"
  /\ IF /\ removed \subseteq base \cup added
        /\ current \in base \cup removed \cup {Null}
     THEN base' = (base \cup added) \ removed /\ pc' = "erase" /\ UNCHANGED fault
     ELSE UNCHANGED base /\ pc' = "crashed" /\ fault' = "invalid state removed"
  /\ states' = states \cup added /\ added' = {}
  /\ UNCHANGED <<removed, groups, paused, inClose, current, todo, incomplete>>

\* MergingSearcher::update hands nothing on if current is paused; otherwise the
\* base searcher asserts that it knows what is removed, and the current state
UpdateStates ==
  /\ pc = "update"
  /\ IF current \in paused
     THEN pc' = "erase" /\ UNCHANGED <<base, fault>>
     ELSE IF /\ removed \subseteq base \cup added
             /\ current \in base \cup removed \cup {Null}
     THEN base' = (base \cup added) \ removed /\ pc' = "erase" /\ UNCHANGED fault
     ELSE UNCHANGED base /\ pc' = "crashed" /\ fault' = "invalid state removed"
  /\ states' = states \cup added /\ added' = {}
  /\ UNCHANGED <<removed, groups, paused, inClose, current, todo, incomplete>>

\* Mutant of EraseState: the last one out of a region does not release the others.
EraseKeepsWaiting ==
  /\ pc = "erase"
  /\ \E s \in removed :
       /\ states' = states \ {s} /\ removed' = removed \ {s}
       /\ stack' = [stack EXCEPT ![s] = << >>]
       /\ open' = [h \in Handler |-> open[h] \ {s}]
       /\ UNCHANGED <<reached, searcher>>
  /\ UNCHANGED <<added, pc, scanning>>

\* ~ExecutionState leaves the regions; the last one out releases the others
EraseState ==
  /\ pc = "erase"
  /\ \E s \in removed :
       LET st == [stack EXCEPT ![s] = << >>]
           gone == Held(stack) \ Held(st)
           free == UNION {Waiting(h) : h \in gone}
       IN  /\ stack' = st
           /\ open' = [h \in Handler |-> open[h] \ (IF h \in ToSet(stack[s]) THEN {s} ELSE {})]
           /\ reached' = [h \in Handler |-> IF h \in gone THEN Nowhere ELSE reached[h]]
           /\ paused' = paused \ free /\ inClose' = inClose \ free /\ base' = base \cup free
           /\ states' = states \ {s} /\ removed' = removed \ {s}
  /\ UNCHANGED <<added, pc, scanning>>

UpdateDone ==
  /\ pc = "erase" /\ removed = {}
  /\ pc' = "select" /\ current' = Null
  /\ UNCHANGED <<executor, groups, searcher, todo, fault, incomplete>>

Terminated == (pc \in {"crashed", "halted"} \/ (pc = "select" /\ states = {})) /\ UNCHANGED vars

Next ==
  \/ Select \/ SelectPrioritized \/ SelectRelease \/ SelectBase
  \/ Fork \/ Terminate \/ OpenMerge \/ CloseMerge \/ CloseMerged \/ Plain
  \/ CheckMemory \/ Halt \/ UpdateStates \/ EraseState \/ UpdateDone \/ Terminated

Spec == Init /\ [][Next]_vars

\* the executor thread keeps running
FairSpec == Spec /\ WF_vars(Next)

(***************************************************************************)
(* Properties                                                              *)
(***************************************************************************)

\* Type correctness of the executor's, the handlers' and the searcher's members.
TypeOK ==
  /\ {states, added, removed, base, paused, inClose} \subseteq SUBSET State
  /\ stack \in [State -> Seq(Handler)]
  /\ open \in [Handler -> SUBSET State]
  /\ reached \in [Handler -> [Point -> SUBSET State]]
  /\ pc \in {"select", "groups", "step", "memory", "update", "erase", "halted",
             "crashed"}
  /\ current \in State \cup {Null} /\ todo \subseteq Handler
  /\ fault \in {"none", "base searcher is empty", "released state is not paused",
                "closed twice, or not open", "invalid state removed"}

\* When a state is selected each one is either with the base searcher or waits
\* for exactly one merge group that still has somebody to wait for.
EachWaitsOnce ==
  pc = "select" =>
    /\ base = states \ paused /\ paused \subseteq states /\ inClose = paused
    /\ paused = UNION {Waiting(h) : h \in Held(stack)}
    /\ \A h, g \in Held(stack) : \A p, q \in Point :
         reached[h][p] \cap reached[g][q] # {} => h = g /\ p = q

\* A MergeHandler knows the states that are inside its region, no others: the
\* references and openStates are kept in step through forks and deletions.
OpenStatesMatch ==
  pc = "select" => \A h \in Held(stack) : open[h] = {s \in states : h \in ToSet(stack[s])}

\* The states never all wait for one another: regions are nested, so some state
\* of the innermost one is not paused.
SomeoneRuns == pc = "select" /\ states # {} => base # {}

\* The state that runs is one the base searcher has, even if a merge group was
\* asked for it.
RunningIsScheduled == pc = "step" => current \in base \cap states

\* The books of a merge are right together: who waits and for whom, who is inside
\* a region, and that there is always a state the base searcher can be asked for
\* (MergeHandler.cpp, MergingSearcher::selectState).
MergeBooksRight == EachWaitsOnce /\ OpenStatesMatch /\ SomeoneRuns /\ RunningIsScheduled

\* No assertion of the merge handlers or of a searcher fails.
NoFault == fault = "none"

\* what is left of the states while removed ones are being deleted
Remaining == IF pc = "erase" THEN states \ removed ELSE states

Contract ==
  INSTANCE SearcherContract WITH
    states <- Remaining,
    held <- IF pc \in {"select", "groups", "step"} THEN base \cup paused ELSE Remaining,
    selected <- IF pc \in {"step", "memory", "update"} THEN current ELSE Null

\* The merging searcher is one to the executor: waiting states are still held.
ImplementsContract == Contract!Spec

\* A state that waits at a close point goes on, or is gone, if forking comes to an
\* end and no other state stays in its regions for ever.
WaitingEnds ==
  <>[](added = {} /\ pc # "halted") /\ (\A s \in State : []<>(stack[s] = << >>))
    => \A s \in State : s \in paused ~> s \notin paused
=============================================================================
