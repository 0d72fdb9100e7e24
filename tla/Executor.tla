------------------------------ MODULE Executor ------------------------------
(* The life cycle of execution states in klee/lib/Core/Executor.cpp: how the  *)
(* interpreter loop selects, forks, terminates and deletes ExecutionStates,   *)
(* and how states, addedStates, removedStates, seedMap, featureStates, the    *)
(* process tree and the searcher are kept in step with each other.            *)
(*                                                                            *)
(* The executor is one thread.  A loop of the code (the resolution loops, the *)
(* growth of an N-way branch, the erasure loop of updateStates) is a sequence *)
(* of actions tied together by pc; its C++ locals are the record lc.  The     *)
(* only asynchronous step is Halt.                                            *)
EXTENDS PTree, Integers, FiniteSets

CONSTANTS
  MaxStates,        \* bound: ExecutionStates created in a run
  MaxTargets,       \* bound: conditions of a branch(), length of a resolution
  Seeds,            \* the KTests of usingSeeds; {} for a run without seeds
  MaxForks,         \* --max-forks
  MaxDepth,         \* --max-depth, 0 for no limit
  FeatureExtract,   \* --feature-extract, also set by the ML searchers
  MemoryCap,        \* --max-memory is not 0
  MaxMemoryInhibit, \* --max-memory-inhibit
  OnlyReplaySeeds,  \* --only-replay-seeds
  OnlySeed,         \* the values --only-seed may have; it is read once, after the seeds
  DumpStatesOnHalt, \* --dump-states-on-halt
  StrictSearcher,   \* the searcher asserts on a state removed twice (dfs, bfs,
                    \* random-state); the others remove it once
  Program           \* the instruction kinds the program under test contains

InstructionKinds == {"br", "switch", "indirectbr", "illegalLabel", "call",
                     "illegalFunction", "invoke", "mem", "alloc", "free"}

\* The searcher is null while the seeds run, and with FeatureExtract every
\* termination that writes a test case calls searcher->addFeatures: the two
\* options cannot be combined.
ASSUME ConfigAssumption ==
  /\ MaxStates \in Nat \ {0}
  /\ MaxTargets \in Nat
  /\ MaxForks \in Nat
  /\ MaxDepth \in Nat
  /\ {FeatureExtract, MemoryCap, MaxMemoryInhibit, OnlyReplaySeeds,
      DumpStatesOnHalt, StrictSearcher} \subseteq BOOLEAN
  /\ OnlySeed \subseteq BOOLEAN
  /\ Program \subseteq InstructionKinds
  /\ FeatureExtract => Seeds = {}

State == 1..MaxStates

VARIABLES
  ex,             \* the containers of the Executor, see ExecType
  pc,             \* where the interpreter loop is
  phase,          \* "seeding" while searcher is null, then "searching"
  ending,         \* doDumpStates has been entered
  current,        \* the state of this iteration of the loop
  lc,             \* locals of the handler in progress
  haltExecution,
  atMemoryLimit,
  held,           \* the states the searcher may select
  fault           \* the failed assertion or invalid access that ended the run

vars == <<ex, pc, phase, ending, current, lc, haltExecution, atMemoryLimit,
          held, fault>>

NoLocals == [reg |-> Null, res |-> << >>, width |-> 0, illegal |-> FALSE,
             fuel |-> 0, todo |-> {}, hasInvalid |-> FALSE]

(***************************************************************************)
(* Operations on the containers                                            *)
(***************************************************************************)

\* the ExecutionStates that are not deleted
Live(x) == x.states \cup x.added

RangeOf(q) == {q[i] : i \in DOMAIN q}

\* stats::forks: fork and branch count one for each ExecutionState::branch()
forks(x) == x.next - 2

\* featureStates.insert(&state)
NoteFeature(x, s) ==
  IF FeatureExtract THEN [x EXCEPT !.feature = @ \cup {s}] ELSE x

\* ExecutionState::branch() on s, addedStates.push_back, processTree->attach
\* and the two featureStates.insert that follow it in fork() and branch()
Split(x, s) ==
  LET n == x.next IN
  [x EXCEPT !.next = n + 1,
            !.added = @ \cup {n},
            !.depth = [x.depth EXCEPT ![s] = @ + 1, ![n] = x.depth[s] + 1],
            !.tree = attach(x.tree, x.node[s], n, s),
            !.node = [x.node EXCEPT ![n] = LeftOf(x.node[s]),
                                    ![s] = RightOf(x.node[s])],
            !.feature = IF FeatureExtract THEN @ \cup {s, n} ELSE @]

\* Mutants of Delete: addedStates, or featureStates and seedMap, keep the pointer.
DeleteStillAdded(x, s) ==
  [x EXCEPT !.tree = remove(x.tree, x.node[s]), !.feature = @ \ {s},
            !.states = @ \ {s}, !.freed = @ \cup {s}]
DeleteStillFeature(x, s) ==
  [x EXCEPT !.tree = remove(x.tree, x.node[s]), !.added = @ \ {s},
            !.states = @ \ {s}, !.freed = @ \cup {s}]

\* seedMap.erase, processTree->remove, featureStates.erase and delete
Delete(x, s) ==
  [x EXCEPT !.seeds = [x.seeds EXCEPT ![s] = {}],
            !.tree = remove(x.tree, x.node[s]),
            !.feature = @ \ {s},
            !.added = @ \ {s},
            !.states = @ \ {s},
            !.freed = @ \cup {s}]

\* Mutant of terminateState: every state is deleted at once.
TerminateAtOnce(x, s) == Delete(x, s)

\* Executor::terminateState: a state that never reached the searcher is deleted
\* at once, any other one waits in removedStates for updateStates
terminateState(x, s) ==
  IF s \in x.added
  THEN Delete(x, s)
  ELSE [x EXCEPT !.feature = @ \ {s}, !.removed = Append(@, s)]

\* Mutants of SplitSeeds: the false state gets all seeds, or none.
CopySeeds(x, t, f, trueSeeds) ==
  [x EXCEPT !.seeds = [x.seeds EXCEPT ![t] = trueSeeds, ![f] = x.seeds[t]]]
DropSeeds(x, t, f, trueSeeds) ==
  [x EXCEPT !.seeds = [x.seeds EXCEPT ![t] = trueSeeds]]

\* fork() gives the seeds for which the condition holds to the true state
SplitSeeds(x, t, f, trueSeeds) ==
  [x EXCEPT !.seeds = [x.seeds EXCEPT ![t] = trueSeeds,
                                      ![f] = x.seeds[t] \ trueSeeds]]

Outcome(x, t, f) == [x |-> x, t |-> t, f |-> f]

\* the reasons for which fork() follows one random side of an undecided branch
SkipFork(x) == (MaxMemoryInhibit /\ atMemoryLimit) \/ forks(x) >= MaxForks

\* The seeds that may satisfy the condition when both sides are followed: with
\* only-replay-seeds each side needs one
TrueSeeds(x, s) ==
  {T \in SUBSET x.seeds[s] :
     OnlyReplaySeeds /\ x.seeds[s] # {} => T # {} /\ T # x.seeds[s]}

\* both sides feasible: s goes on as the true state
ForkBoth(x, s) ==
  IF x.next > MaxStates \/ (x.seeds[s] = {} /\ SkipFork(x))
  THEN {}
  ELSE {LET y == SplitSeeds(Split(x, s), s, x.next, T) IN
        IF MaxDepth # 0 /\ MaxDepth <= y.depth[s]
        THEN Outcome(terminateState(terminateState(y, s), x.next), Null, Null)
        ELSE Outcome(y, s, x.next) : T \in TrueSeeds(x, s)}

\* Executor::fork: the possible StatePairs, with what became of the containers:
\* a timeout of the solver, one feasible side, or two
fork(x, s) ==
  {Outcome(terminateState(x, s), Null, Null),
   Outcome(NoteFeature(x, s), s, Null),
   Outcome(NoteFeature(x, s), Null, s)} \cup ForkBoth(x, s)

(***************************************************************************)
(* executeInstruction                                                      *)
(***************************************************************************)

Goto(p, x, l) ==
  /\ pc' = p /\ ex' = x /\ lc' = l
  /\ UNCHANGED <<phase, ending, current, haltExecution, atMemoryLimit, held, fault>>

Finish(x) == Goto("timers", x, NoLocals)

Crash(why) ==
  /\ pc' = "crashed" /\ fault' = why
  /\ UNCHANGED <<ex, phase, ending, current, lc, haltExecution, atMemoryLimit, held>>

\* an instruction that neither forks nor terminates
ExecPlain == pc = "exec" /\ Finish(ex)

\* terminateState, terminateStateEarly, terminateStateOnExit and
\* terminateStateOnError on the state that executes
ExecTerminate == pc = "exec" /\ Finish(terminateState(ex, current))

\* Br on a symbolic condition
ExecBr ==
  /\ pc = "exec" /\ "br" \in Program
  /\ \E o \in fork(ex, current) : Finish(o.x)

\* Switch, IndirectBr and (while seeding) executeGetValue call branch() with
\* `width' conditions; the last one of an indirectbr may be its error case.
\* Beyond max-forks one random entry of result keeps the state.
ExecBranch ==
  /\ pc = "exec"
  /\ \E N \in 1..MaxTargets, illegal \in BOOLEAN :
       /\ \/ "switch" \in Program /\ ~illegal
          \/ "indirectbr" \in Program /\ (illegal => "illegalLabel" \in Program)
          \/ ex.seeds[current] # {} /\ N <= Cardinality(ex.seeds[current]) /\ ~illegal
       /\ IF forks(ex) >= MaxForks
          THEN \E i \in 1..N :
                 Goto("seeds", ex,
                      [NoLocals EXCEPT !.width = N, !.illegal = illegal,
                         !.res = [j \in 1..N |-> IF j = i THEN current ELSE Null]])
          ELSE /\ ex.next + N - 1 <= MaxStates + 1
               /\ Goto("branch", NoteFeature(ex, current),
                       [NoLocals EXCEPT !.width = N, !.illegal = illegal,
                                        !.res = <<current>>])

\* the loop of branch(): the next state is a copy of a random earlier one
BranchGrow ==
  /\ pc = "branch" /\ Len(lc.res) < lc.width
  /\ \E i \in 1..Len(lc.res) :
       Goto("branch", Split(ex, lc.res[i]), [lc EXCEPT !.res = Append(@, ex.next)])

BranchGrown ==
  /\ pc = "branch" /\ Len(lc.res) = lc.width
  /\ Goto("seeds", ex, lc)

\* branch() redistributes the seeds of the state: each goes to one entry of
\* result, or is dropped when max-forks left that entry null
BranchSeeds ==
  /\ pc = "seeds"
  /\ IF ex.seeds[current] = {}
     THEN Goto("branched", ex, lc)
     ELSE \E to \in [ex.seeds[current] -> 1..lc.width] :
            LET taken(s) == {d \in ex.seeds[current] : lc.res[to[d]] = s} IN
            Goto(IF OnlyReplaySeeds THEN "prune" ELSE "branched",
                 [ex EXCEPT !.seeds =
                    [s \in State |-> IF s \in RangeOf(lc.res) THEN taken(s)
                                                              ELSE ex.seeds[s]]],
                 lc)

\* only-replay-seeds: the results that got no seed are terminated
Unseeded == {i \in 1..Len(lc.res) : lc.res[i] # Null /\ ex.seeds[lc.res[i]] = {}}

BranchPrune ==
  /\ pc = "prune"
  /\ IF Unseeded = {}
     THEN Goto("branched", ex, lc)
     ELSE \E i \in Unseeded :
            /\ \A j \in Unseeded : i <= j
            /\ Goto("prune", terminateState(ex, lc.res[i]),
                    [lc EXCEPT !.res = [@ EXCEPT ![i] = Null]])

\* back in the handler: an indirectbr terminates *branches.back(), its error
\* case, which may be null
BranchReturn ==
  /\ pc = "branched"
  /\ IF ~lc.illegal THEN Finish(ex)
     ELSE LET back == lc.res[Len(lc.res)] IN
          IF back = Null THEN Crash("null state")
          ELSE Finish(terminateState(ex, back))

\* Call through a symbolic function pointer: `free' ranges over the states whose
\* pointer is still unresolved
ExecCall ==
  /\ pc = "exec" /\ "call" \in Program
  /\ Goto("call", ex, [NoLocals EXCEPT !.reg = current, !.fuel = MaxTargets])

\* free = res.second
NextFree(x, f, invalid) ==
  IF f = Null THEN Finish(x)
  ELSE Goto("call", x, [lc EXCEPT !.reg = f, !.fuel = @ - 1, !.hasInvalid = invalid])

\* One iteration.  fork() cannot refute the value the solver just proposed
\* unless it skips the fork, or only the seeds are replayed and none has that
\* value.  executeCall may terminate its state; when the callee is external and
\* the instruction an invoke, executeCall then still uses it.  A pointer that is
\* no function terminates `state', once.
CallResolve ==
  /\ pc = "call"
  /\ \E o \in fork(ex, lc.reg) :
       /\ o.t = Null /\ o.f # Null => IF ex.seeds[lc.reg] = {} THEN SkipFork(ex) ELSE OnlyReplaySeeds
       /\ o.f # Null => lc.fuel > 0
       /\ \/ NextFree(o.x, o.f, lc.hasInvalid)
          \/ o.t # Null /\ NextFree(terminateState(o.x, o.t), o.f, lc.hasInvalid)
          \/ o.t \in o.x.added /\ "invoke" \in Program /\ Crash("destroyed state")
          \/ /\ o.t # Null /\ "illegalFunction" \in Program
             /\ NextFree(IF lc.hasInvalid THEN o.x ELSE terminateState(o.x, current),
                         o.f, TRUE)

\* executeMemoryOperation off its fast path: `unbound' against each object of
\* the resolution list
ExecMemory ==
  /\ pc = "exec" /\ "mem" \in Program
  /\ \E k \in 0..MaxTargets :
       Goto("mem", ex, [NoLocals EXCEPT !.reg = current, !.fuel = k])

\* one object: the bound state reads or writes it, or dies as it is read-only
MemoryResolve ==
  /\ pc = "mem" /\ lc.fuel > 0
  /\ \E o \in fork(ex, lc.reg) :
       \E x \in {o.x} \cup (IF o.t # Null THEN {terminateState(o.x, o.t)} ELSE {}) :
         IF o.f = Null THEN Finish(x)
         ELSE Goto("mem", x, [lc EXCEPT !.reg = o.f, !.fuel = @ - 1])

\* Mutant of MemoryUnbound: it ends the executing state, not the unbound one.
MemoryUnboundEndsCurrent ==
  /\ pc = "mem" /\ lc.fuel = 0
  /\ Finish(terminateState(ex, current))

\* out of objects: what is still unbound is out of bounds, or timed out
MemoryUnbound ==
  /\ pc = "mem" /\ lc.fuel = 0
  /\ Finish(terminateState(ex, lc.reg))

\* executeAlloc with a symbolic size: an example size, two exact sizes, or a
\* fork on a huge size whose small side is terminated
ExecAlloc ==
  /\ pc = "exec" /\ "alloc" \in Program
  /\ \E fixed \in fork(ex, current) :
       \/ Finish(fixed.x)
       \/ /\ fixed.f # Null
          /\ \E huge \in fork(fixed.x, fixed.f) :
               Finish(IF huge.f = Null THEN huge.x ELSE terminateState(huge.x, huge.f))

\* executeFree: the non-null side goes through resolveExact
ExecFree ==
  /\ pc = "exec" /\ "free" \in Program
  /\ \E zero \in fork(ex, current), k \in 0..MaxTargets :
       IF zero.f = Null THEN Finish(zero.x)
       ELSE Goto("resolve", zero.x, [NoLocals EXCEPT !.reg = zero.f, !.fuel = k])

\* resolveExact: one object of the list
ResolveExact ==
  /\ pc = "resolve" /\ lc.fuel > 0 /\ lc.reg # Null
  /\ \E o \in fork(ex, lc.reg) :
       Goto("resolve", o.x,
            [lc EXCEPT !.reg = o.f, !.fuel = @ - 1,
                       !.res = IF o.t = Null THEN @ ELSE Append(@, o.t)])

\* resolveExact returns after terminating a state that is still unbound
ResolveDone ==
  /\ pc = "resolve" /\ (lc.fuel = 0 \/ lc.reg = Null)
  /\ Goto("free", IF lc.reg = Null THEN ex ELSE terminateState(ex, lc.reg),
          [lc EXCEPT !.reg = Null, !.fuel = 0])

\* executeFree frees the object of each result, or terminates the result as
\* the object is an alloca or a global
FreeResults ==
  /\ pc = "free"
  /\ IF lc.res = << >> THEN Finish(ex)
     ELSE \E x \in {ex, terminateState(ex, Head(lc.res))} :
            Goto("free", x, [lc EXCEPT !.res = Tail(@)])

(***************************************************************************)
(* The interpreter loop                                                    *)
(***************************************************************************)

\* runFunctionAsMain and the head of run(): one state, all seeds on it
Init ==
  /\ ex = [next |-> 2, states |-> {1}, added |-> {}, removed |-> << >>,
           freed |-> {}, tree |-> NewTree(1), node |-> [s \in State |-> Root],
           depth |-> [s \in State |-> 0], feature |-> {},
           seeds |-> [s \in State |-> IF s = 1 THEN Seeds ELSE {}]]
  /\ pc = IF Seeds = {} THEN "seeded" ELSE "loop"
  /\ phase = "seeding" /\ ending = FALSE
  /\ current = Null /\ lc = NoLocals
  /\ haltExecution = FALSE /\ atMemoryLimit = FALSE
  /\ held = {} /\ fault = "none"

SeedMap == {s \in State : ex.seeds[s] # {}}

\* a signal, a timer (max-time), max-instructions or a termination with
\* exit-on-error sets haltExecution; only the loop heads read it
Halt ==
  /\ pc \notin {"done", "crashed"} /\ ~haltExecution
  /\ haltExecution' = TRUE
  /\ UNCHANGED <<ex, pc, phase, ending, current, lc, atMemoryLimit, held, fault>>

Execute(s, features) ==
  /\ current' = s /\ pc' = "exec"
  /\ ex' = [ex EXCEPT !.feature = features]
  /\ UNCHANGED <<phase, ending, lc, haltExecution, atMemoryLimit, held, fault>>

\* the seeding loop: some state of seedMap
SeedSelect ==
  /\ pc = "loop" /\ phase = "seeding" /\ SeedMap # {} /\ ~haltExecution
  /\ \E s \in SeedMap : Execute(s, ex.feature)

\* doDumpStates, on the way out of run()
Dump ==
  /\ ending' = TRUE
  /\ IF DumpStatesOnHalt /\ ex.states # {}
     THEN pc' = "kill" /\ lc' = [NoLocals EXCEPT !.todo = ex.states]
     ELSE pc' = "done" /\ lc' = NoLocals
  /\ UNCHANGED <<ex, phase, current, haltExecution, atMemoryLimit, held, fault>>

SeedHalted ==
  /\ pc = "loop" /\ phase = "seeding" /\ SeedMap # {} /\ haltExecution
  /\ Dump

SeedsDone ==
  /\ pc = "loop" /\ phase = "seeding" /\ SeedMap = {}
  /\ Goto("seeded", ex, lc)

\* only-seed ends the run after the seeds
SeedStop ==
  /\ pc = "seeded" /\ Seeds # {} /\ TRUE \in OnlySeed
  /\ Dump

\* the searcher is made and given all states
StartSearch ==
  /\ pc = "seeded" /\ (Seeds = {} \/ FALSE \in OnlySeed)
  /\ pc' = "loop" /\ phase' = "searching" /\ held' = ex.states
  /\ UNCHANGED <<ex, ending, current, lc, haltExecution, atMemoryLimit, fault>>

\* Mutant of Select: the loop does not look at haltExecution.
SelectAfterHalt ==
  /\ pc = "loop" /\ phase = "searching" /\ ex.states # {}
  /\ \E s \in held : Execute(s, ex.feature)

\* searcher->selectState(): GetFeaturesSearcher computes the features of the
\* noted states and forgets them, unless a searcher around it (branching,
\* batching) stays with its last state
Select ==
  /\ pc = "loop" /\ phase = "searching" /\ ex.states # {} /\ ~haltExecution
  /\ \E s \in held, features \in {{}, ex.feature} : Execute(s, features)

SearchStop ==
  /\ pc = "loop" /\ phase = "searching" /\ (ex.states = {} \/ haltExecution)
  /\ Dump

\* timers.invoke() can only halt; the seeding loop has no memory check
Timers ==
  /\ pc = "timers"
  /\ Goto(IF phase = "seeding" THEN "update" ELSE "memory", ex, lc)

\* checkMemoryUsage when it is not due or --max-memory is 0
MemorySkip == pc = "memory" /\ Goto("update", ex, lc)

\* checkMemoryUsage when it is due: below the cap, above it, or so far above it
\* that at least one state of `states' has to go
MemoryCheck ==
  /\ pc = "memory" /\ MemoryCap
  /\ \E over \in BOOLEAN, victims \in SUBSET ex.states :
       /\ ~over => victims = {}
       /\ atMemoryLimit' = over
       /\ pc' = "kill" /\ lc' = [NoLocals EXCEPT !.todo = victims]
  /\ UNCHANGED <<ex, phase, ending, current, haltExecution, held, fault>>

\* terminateStateEarly on each victim, or on each state that is dumped
Kill ==
  /\ pc = "kill"
  /\ IF lc.todo = {} THEN Goto("update", ex, NoLocals)
     ELSE \E s \in lc.todo :
            /\ \A r \in lc.todo : s <= r
            /\ Goto("kill", terminateState(ex, s), [lc EXCEPT !.todo = @ \ {s}])

Injective(q) == \A i, j \in DOMAIN q : q[i] = q[j] => i = j

\* every removed state is one the searcher holds, and is removed once
RemovalsValid == Injective(ex.removed) /\ RangeOf(ex.removed) \subseteq held \cup ex.added

\* updateStates up to its erasure loop: searcher->update, then addedStates moves
\* to states
UpdateStates ==
  /\ pc = "update"
  /\ IF phase = "searching" /\ StrictSearcher /\ ~RemovalsValid
     THEN Crash("invalid state removed")
     ELSE /\ held' = IF phase = "seeding" THEN held
                     ELSE (held \cup ex.added) \ RangeOf(ex.removed)
          /\ ex' = [ex EXCEPT !.states = @ \cup ex.added, !.added = {}]
          /\ pc' = "erase"
          /\ UNCHANGED <<phase, ending, current, lc, haltExecution, atMemoryLimit, fault>>

\* the erasure loop of updateStates; states is ordered by ID, so looking up a
\* state that was deleted before reads freed memory
EraseState ==
  /\ pc = "erase" /\ ex.removed # << >>
  /\ LET es == Head(ex.removed) IN
     IF es \in ex.freed THEN Crash("use after free")
     ELSE Goto("erase", [Delete(ex, es) EXCEPT !.removed = Tail(@)], lc)

\* seed-time may expire after a step of the seeding loop
EndStep ==
  /\ pc = "erase" /\ ex.removed = << >>
  /\ pc' \in IF ending THEN {"done"}
            ELSE IF phase = "seeding" THEN {"loop", "seeded"} ELSE {"loop"}
  /\ current' = Null
  /\ UNCHANGED <<ex, phase, ending, lc, haltExecution, atMemoryLimit, held, fault>>

Terminated == pc \in {"done", "crashed"} /\ UNCHANGED vars

Instruction ==
  \/ ExecPlain \/ ExecTerminate \/ ExecBr
  \/ ExecBranch \/ BranchGrow \/ BranchGrown \/ BranchSeeds \/ BranchPrune \/ BranchReturn
  \/ ExecCall \/ CallResolve
  \/ ExecMemory \/ MemoryResolve \/ MemoryUnbound
  \/ ExecAlloc
  \/ ExecFree \/ ResolveExact \/ ResolveDone \/ FreeResults

Loop ==
  \/ SeedSelect \/ SeedHalted \/ SeedsDone \/ SeedStop \/ StartSearch \/ Select \/ SearchStop
  \/ Timers \/ MemorySkip \/ MemoryCheck \/ Kill
  \/ UpdateStates \/ EraseState \/ EndStep

Next == Instruction \/ Loop \/ Halt \/ Terminated

Spec == Init /\ [][Next]_vars

\* one thread runs the loop and is not suspended for ever
FairSpec == Spec /\ WF_vars(Instruction \/ Loop)

(***************************************************************************)
(* Properties                                                              *)
(***************************************************************************)

ExecFields == {"next", "states", "added", "removed", "freed", "tree", "node", "depth",
               "feature", "seeds"}

\* the C++ types of the containers
ExecType(x) ==
  /\ DOMAIN x = ExecFields
  /\ x.next \in 2..MaxStates + 1
  /\ x.states \subseteq State /\ x.added \subseteq State
  /\ x.freed \subseteq State /\ x.feature \subseteq State
  /\ x.removed \in Seq(State)
  /\ DOMAIN x.tree \subseteq PTreeNode
  /\ x.tree \in [DOMAIN x.tree -> State \cup {Null}]
  /\ x.node \in [State -> PTreeNode]
  /\ x.depth \in [State -> Nat]
  /\ x.seeds \in [State -> SUBSET Seeds]

LocalsType == [reg : State \cup {Null}, res : Seq(State \cup {Null}), width : Nat,
               illegal : BOOLEAN, fuel : Nat, todo : SUBSET State, hasInvalid : BOOLEAN]

HandlerPcs == {"exec", "branch", "seeds", "prune", "branched", "call", "mem", "resolve",
               "free"}

LoopPcs == {"loop", "seeded", "timers", "memory", "kill", "update", "erase", "done",
            "crashed"}

Faults == {"none", "invalid state removed", "use after free", "destroyed state",
           "null state"}

\* Type correctness: every container and local keeps its C++ type.
TypeOK ==
  /\ ExecType(ex)
  /\ pc \in HandlerPcs \cup LoopPcs
  /\ phase \in {"seeding", "searching"}
  /\ {ending, haltExecution, atMemoryLimit} \subseteq BOOLEAN
  /\ current \in State \cup {Null} /\ held \subseteq State
  /\ lc \in LocalsType
  /\ fault \in Faults

Accounted(x) ==
  /\ 1..x.next - 1 = x.states \cup x.added \cup x.freed
  /\ x.states \cap x.added = {}
  /\ Live(x) \cap x.freed = {}

\* Every ExecutionState ever created is in exactly one of states, addedStates
\* and the deleted ones: none leaks out of the containers, none is deleted while
\* a container still owns it, and none comes back.
StatesAccounted == Accounted(ex)

\* processTree and the states agree between any two steps: the ptreeNode of a
\* live state is allocated, points back to it and is a leaf, as attach and remove
\* assert, and every descent of the random-path searcher ends at a live state,
\* each of which it can reach.
TreeMatchesStates ==
  /\ \A s \in Live(ex) : /\ ex.node[s] \in DOMAIN ex.tree
                        /\ ex.tree[ex.node[s]] = s
                        /\ Childless(ex.tree, ex.node[s])
  /\ Live(ex) # {} => {ex.tree[n] : n \in DescentEnds(ex.tree)} = Live(ex)

\* The searcher never holds a deleted state, and when it is asked to select it
\* holds exactly the states of the executor.
SearcherHoldsStates ==
  /\ held \cap ex.freed = {}
  /\ pc = "loop" /\ phase = "searching" => held = ex.states

\* No pointer kept across calls dangles: the locals of the handlers (free,
\* unbound, branches, the resolution results), featureStates and seedMap only
\* name states that are not deleted.
NoDanglingPointer ==
  /\ RangeOf(lc.res) \cup {lc.reg} \cup lc.todo \subseteq Live(ex) \cup {Null}
  /\ pc \in HandlerPcs \cup {"timers", "memory", "kill", "update"} =>
       current \in ex.states \cup {Null}
  /\ ex.feature \cup SeedMap \subseteq Live(ex)

SeedsDisjoint(x) ==
  \A r, s \in State : r # s => x.seeds[r] \cap x.seeds[s] = {}

\* A seed drives at most one state: fork() and branch() split a state's seeds
\* among its successors without copying one.
SeedsHaveOneOwner == SeedsDisjoint(ex)

\* The run neither fails an assertion about states nor touches a deleted state.
NoFault == fault = "none"

\* When run() returns after doDumpStates every state has been deleted, and
\* nothing is left in the tree, the seed map or the searcher.
AllReleased ==
  pc = "done" /\ DumpStatesOnHalt =>
    /\ ex.states = {} /\ ex.added = {} /\ ex.removed = << >>
    /\ DOMAIN ex.tree = {Root} /\ SeedMap = {} /\ held = {}

\* A seed leaves seedMap only in a step that deletes a state (the one it drives, or
\* the half of a fork that got it), or where branch() hands the seeds on and
\* max-forks is reached.
SeedsNotLost ==
  [][\A s \in State : \A d \in ex.seeds[s] :
       \/ \E r \in State : d \in ex'.seeds[r]
       \/ ex'.freed # ex.freed
       \/ pc = "seeds" /\ forks(ex) >= MaxForks]_vars

\* haltExecution ends the run: the step in progress completes, the remaining
\* states are dumped, and run() returns with every state deleted and nothing left
\* in the tree, the seed map or the searcher.
HaltEnds == haltExecution ~> ((pc = "done" /\ AllReleased) \/ fault # "none")

\* What the repository says and the code does not do; see README.

\* --max-memory: "Refuse to fork when above this amount of memory", with
\* max-memory-inhibit.  branch() does not look at atMemoryLimit.
NoForkAtMemoryCap ==
  [][MaxMemoryInhibit /\ atMemoryLimit => ex'.next = ex.next]_vars

\* Searcher.cpp asserts on update that a removed state is one it holds: "invalid
\* state removed".  A state terminated twice in one step fails it: by
\* checkMemoryUsage after the instruction that already ended the state, or by a
\* Call through a pointer that may be no function.
SearcherOwnsRemoved == fault # "invalid state removed"

\* IndirectBr on *branches.back(): "terminate error state".  Beyond max-forks,
\* and with only-replay-seeds, branch() may leave that entry null.
ErrorStateExists == fault # "null state"

\* executeCall on callExternalFunction: "state may be destroyed by this call,
\* cannot touch".  For an invoke executeCall then still transfers the state.
DestroyedStateUntouched == fault # "destroyed state"
=============================================================================
