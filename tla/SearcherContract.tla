-------------------------- MODULE SearcherContract --------------------------
(* What the interpreter loop relies on (Executor::run and updateStates): the  *)
(* searcher may select any state of the executor and nothing else, whatever   *)
(* states were added and removed before.  Module Executor uses a searcher in  *)
(* this form, as its variable held; module Searchers implements it.           *)
CONSTANTS State, Null

VARIABLES
  states,    \* Executor::states
  held,      \* the states the searcher may still select, now or later
  selected   \* the state the loop executes

vars == <<states, held, selected>>

Init == states \in (SUBSET State) \ {{}} /\ held = states /\ selected = Null

\* searcher->selectState()
Select == selected = Null /\ selected' \in held /\ UNCHANGED <<states, held>>

\* a step, with searcher->update and the rest of updateStates
Update ==
  \E added \in SUBSET (State \ states), removed \in SUBSET states :
    /\ states' = (states \cup added) \ removed
    /\ held' = states' /\ selected' = Null

Next == Select \/ Update

Spec == Init /\ [][Next]_vars
=============================================================================
