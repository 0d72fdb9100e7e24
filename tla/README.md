# Learch in TLA+

Learch is KLEE (a symbolic execution engine for LLVM bitcode, `src/klee`) with a
learned search heuristic (`src/learch`, and the feature code in
`src/klee/lib/Core`).  This directory models KLEE's core: which execution states
exist and who points to them, which one runs next, what they see in memory, how
their conditions are built, simplified, asked and logged, and the runtime they
run on.  TLC checks every model; TLAPS proves the safety of the state life cycle,
of the searchers, of merging and of memory for all instances.

## The system

| component | state | operations | hard because |
|---|---|---|---|
| Executor (`Executor.cpp`) | `states`, `addedStates`, `removedStates`, `seedMap`, `featureStates`, `processTree`, `haltExecution`, `atMemoryLimit` | `run`, `fork`, `branch`, `terminateState*`, `updateStates`, `checkMemoryUsage`, `doDumpStates`, the instruction handlers | one instruction may create and end many states; a handler keeps `ExecutionState*` across calls that delete states; limits and halts strike between any two of these calls |
| Process tree (`PTree.cpp`) | binary tree, leaves point to states | `attach`, `remove`, the random-path descent | has to shrink with every deletion, whatever the order |
| Searchers (`Searcher.cpp`) | own lists of states, `lastState` caches, paused sets | `selectState`, `update`, `empty` | decorators stack; each one sees additions and removals after the fact; assert on inconsistent removals |
| Merging (`MergeHandler.cpp`, `MergingSearcher`) | open handlers of a state, states waiting at close points, groups by close point | `klee_open_merge`, `klee_close_merge`, release | a waiting state is outside the base searcher and waits for states that may fork, end or be killed |
| Learned search (`GetFeaturesSearcher`, `MLSearcher`, `SubpathGuidedSearcher`) | feature vectors, `featureStates`, `predicted`, hidden states, subpath counters | feature extraction on selection and termination, prediction | values are kept in a state across forks and selections and must be refreshed in time |
| Seeds (parts of `fork`/`branch`) | `seedMap` | split, drop | seeds move with their states |
| Memory (`AddressSpace`, `Memory`, `MemoryManager`) | copy-on-write object maps, epochs, caches of every byte, reference counts | bind, unbind, getWriteable, resolve, read, write, allocate, merge, copy in and out | ownership of shared object states; a byte has up to three homes |
| Expressions (`Expr.cpp`, `ExprBuilder.cpp`, `Constraints.cpp`) | expressions, the constraint list of a path | `create`, the builders, `addConstraint`, `simplifyExpr` | dozens of rewritings, each by case on both operands |
| Solver chain (`lib/Solver`) | validity cache, counterexample cache | the layers of `ConstructSolverChain`, the three term builders | answers are reused for other queries; the core solver may fail on any query |
| Query formats (`ExprPPrinter`, `Parser`, `ExprSMTLIBPrinter`) | labels, bindings | print, parse | sharing: a label or a `let` stands for what it was bound to |
| POSIX runtime (`runtime/POSIX/fd.c`) | descriptor table, symbolic files, failure counters | the file system calls | mixed symbolic and real files, injected failures |
| Support structures (`Internal/ADT`, `TreeStream`, `StatsTracker`) | trees, sums, streams, distances | insert, remove, choose, look up, fork, recompute | sharing, rotation and buffering |
| Timers, external calls, module passes, klee-libc, tools | see PROJECT.json | | |

Interaction: `run()` asks the searcher for a state, `executeInstruction` works on
it through `fork`/`branch`/`terminateState`, which touch `addedStates`,
`removedStates`, `seedMap`, `featureStates` and the tree at once; `updateStates`
then tells the searcher, moves `addedStates` to `states` and deletes
`removedStates`.  A state that is still in `addedStates` is deleted right away,
any other one lives on until `updateStates`: this asymmetry is what the handlers
have to get right.  Signal handlers and timers only set `haltExecution`.

An instruction that reads memory goes through `AddressSpace::resolve` and
`ObjectState`, which build expressions; a branch asks `TimingSolver`, which
simplifies with the path's constraints and asks the first layer of the chain; a
layer answers, or asks the next one, up to the core solver, whose terms one of
the builders makes.  A logging layer prints the query, and `kleaver` reads it
back.

## Modules

*States and their order*

* **PTree** - the process tree.  A node is named by its path (a sequence of 0/1),
  the tree is a function from allocated nodes to `node->state`.  `attach` and
  `remove` are the code's; the do-while of `remove` is the set `Unlinked` of
  nodes it cuts off.  `DescentEnds` is the set of nodes where
  `RandomPathSearcher::selectState` can stop.
* **Executor** - the life cycle.  The record `ex` holds the containers, and the
  operations that change several of them at once (`Split`, `Delete`,
  `terminateState`, `SplitSeeds`, `fork`) are operators from one value of `ex` to
  the next, or to the set of possible ones.  A loop of the code is a sequence of
  actions: `pc` says where, `lc` holds its C++ locals (`reg` is `free`, `unbound`
  or the non-null side, `res` the result vector, `todo` the victims of a kill
  loop).  One instruction kind per handler that holds more than one state:
  `ExecBr`, `ExecBranch`/`Branch*` (switch, indirectbr, executeGetValue),
  `ExecCall`/`CallResolve`, `ExecMemory`/`Memory*`, `ExecAlloc`,
  `ExecFree`/`Resolve*`/`FreeResults`; every other instruction is `ExecPlain` or
  `ExecTerminate`.  The solver's answers, the seeds' values, the RNG and the
  victims of a memory kill are nondeterministic.  `OnlySeed` is the set of values
  of `--only-seed` a run may start with.
* **MCExecutor** - values for TLC.
* **SearcherContract** - what the loop of `run()` relies on: the searcher selects
  one of the states, and after an update it holds all of them.  `Executor` uses a
  searcher in this form (its variable `held`), whichever it is.
* **Searchers** - the stack `constructUserSearcher` builds: one list per core
  searcher (random-path has none and walks the tree), `InterleavedSearcher::index`,
  the `lastState` of `BranchingSearcher` and of `BatchingSearcher`, and
  `IterativeDeepeningTimeSearcher::pausedStates`.  `cfg` holds the options of the
  run.  One `update` is the sequence `UpdateBegin` (decorators reset their caches,
  added states are appended, breadth-first search rotates), `UpdateRemove` (one
  removed state at a time, in every list), `Pause`/`DontPause`, `Refill`, and
  `UpdateEnd` (the rest of `updateStates`): `states` lags behind the lists in
  between, which is what random-path's `empty()` sees.  The executor is reduced to
  what it passes to `update`: any states that are new, any that exist, each once.
  An address may be used again after its state was deleted.  The time and
  instruction budgets, the weights, the subpath counts and the model's prediction
  are nondeterministic: a list searcher may select any state it lists.
* **MCSearchers** - the option sets for TLC.
* **Merging** - `klee_open_merge`, `klee_close_merge`, `MergeHandler` and
  `MergingSearcher` over a base searcher that meets `SearcherContract`.  A handler
  is a record of the states it still expects, those it has seen close and the
  groups waiting at each point; reference counts are the states' stacks of open
  handlers.  Whether two states can be merged is nondeterministic here; what a
  merge does to memory is in **Memory**.
* **Learned** - the features of a path, `featureStates`, the recorded rows (the
  training data), `MLSearcher` with and without a hidden state and
  `SubpathGuidedSearcher`.  The stack is the one `--use-branching-search` builds,
  which the learned and the subpath-guided searchers force.  A feature is the
  count it is made of (instructions, queries, coverage, test cases); the network
  is left open, and the hidden state it carries is the history of the vectors it
  was fed.  **MCLearned** gives the branch conditions and the lists of searchers.

*Values*

* **Expr** - expressions as records and the create functions of `Expr.cpp`, with
  constant arithmetic on values of any width.  `Eval` is what an expression
  denotes under an assignment of the cells of its arrays.
* **ExprBuilder** - kleaver's default, folding and simplifying builders.
* **SolverTerms**, **STPBuilder**, **Z3Builder**, **MetaSMTBuilder** - the terms
  of the three back ends.  A term is a value with its sort, so a builder is a
  function from an expression and an assignment to what the solver would compute,
  and a term of the wrong sort or width is visible.  SolverTerms has the magic
  numbers of `ConstantDivision.cpp`.
* **Expressions** - the driver: one operation after another over the bytes of a
  symbolic array.
* **Constraints** - `ExprVisitor` and its users (evaluation, replacement),
  `ConstraintManager`.
* **FastCex** - value ranges and the propagation of `FastCexSolver`.
* **SolverChain** - the layers.  A call of a layer is the set of its outcomes:
  success, answer, caches afterwards.  The core solver returns one of two models
  of a satisfiable query, or fails; two are enough to tell a model from a value
  all models agree on.  What a layer needs to know of an expression (its meaning,
  its negation, what it reads, what `FastCexSolver` finds out about it) is a
  constant, so that the layers can be reasoned about for all expressions.  A layer
  asks the ones behind it through the constant `Ask`, which is `Layer` again: the
  knot is tied in the cfg, and the loops of the layers are recursive functions.
* **Solving** - the driver: several paths in turn add conditions and ask
  questions, with one of the configured chains.  The solver asked is the constant
  `Solver`, `TimingSolver` in the run.
* **MCSolving** - the expressions of Expr, Constraints and FastCex as the constants
  of SolverChain, with `findReads` and the queries that layers create; the programs
  and the five chains of the run.
* **KQuery**, **SMTLIB** - printing of queries in both forms and the parser of the
  first.  A text is the tree of its tokens; layout is left out, and labels,
  `let` levels, inferred widths and declarations are kept.  `TermValue` is the
  meaning the SMT-LIB standard gives to a term (external).
* **Formats** - the driver: a program makes expressions over two arrays,
  `QueryLoggingSolver` writes the ones worth logging, `kleaver` reads the log.
  The printer, the command parser and the script generator are constants given in
  the cfg, as `printQuery` is virtual in the code.

*Memory, files, structures*

* **ObjectState** - the contents of one object: concrete store, known symbolic
  bytes, flushed bytes, update list.
* **Memory** - address spaces of several states over shared object states;
  epochs, reference counts, allocation in the deterministic space, resolution of
  symbolic pointers with the solver's answers, native calls, merging.  `Misuse`
  says which of three unusual behaviours of a program or a native function are
  allowed (see below).
* **PosixFd** - one program's descriptors.  `view` is what the program knows from
  the results it got and from what POSIX promises: the open file behind each
  descriptor, whose offset moves for every duplicate of it, the bytes written, the
  entries listed.  The code copies the offset instead, so a duplicate that moves
  leaves the others behind: they are in `view.stale` until a seek says where they
  are, and a file written through one of them is in `view.lost`.  The operating
  system is external and answers as it likes.
* **ImmutableTree**, **DiscretePDF**, **MapOfSets**, **TreeStream**,
  **Distances** - the address space's tree with its reference counts, the
  weighted red-black tree, the index of the counterexample cache, the path files
  and the distances to uncovered code (a callee's is read where none is stored, so
  a call is only passed over).  **Containers** drives each by any
  sequence of its operations and compares it with a plain definition.

*Proofs*: **ExecutorProofs** (with the process tree), **SearchersProofs**,
**MergingProofs**, **ObjectStateProofs** (the operators of `ObjectState`),
**MemoryProofs**, which uses it, **PosixFdProofs**, **LearnedProofs** and
**SolvingProofs**.

Undefined behaviour and failed assertions end a behaviour: the action sets `fault`
(the flag `ch.abort` for the layers of the solver chain), from where nothing
follows.  In `Executor`, `fault` names what happened: a searcher's
`assert(ok && "invalid state removed")`, the lookup of a deleted state by
`updateStates`, the use of a state that an external call deleted, the dereference
of a null entry of `branch()`'s result.

## Runs

| run | bounds | distinct states | shows |
|---|---|---|---|
| executor_core | 5 states, 3 targets, depth 3; no seeds, no memory cap; feature extraction | 901 762 | every handler of a program without the defects below: accounting of states, tree, searcher and dangling pointers, no fault |
| executor_faults | 4 states, 2 targets, depth 2, 2 seeds; only-replay-seeds, only-seed on and off, memory cap, all instructions | 68 914 | a seed has one owner, it goes only with its state, and a halted run ends with everything released, unless one of the defects below strikes |
| searchers | 3 addresses, 2 added per step | 107 160 | all lists equal `states` minus the paused ones and never run dry, caches are usable, no assertion fails, the stack refines `SearcherContract`, breadth-first search runs every state if forks keep happening |
| merging | 3 states, 3 handlers, 2 close points, nesting 2, with and without incomplete merges | 72 343 | handlers, groups and pauses agree, no assertion fails, the contract is kept, no state waits for ever |
| expressions | bytes of 2 bits, words of 4, 2 operations, 3 builders, 3 back ends | 47 485 | rewriting keeps the value of what was asked for; terms have that value and the right sort |
| solving | 2 cells of 2 bits, 5 chains, 2 conditions, 2 questions | 101 250 | the constraint list means the conditions added; answers and cached answers are right; only the core solver fails, and no layer asserts |
| memory | 2 states, 3 objects, 5 object states, 4 operations, sizes 0 and 2 | 196 864 | a state reads what it wrote, no object state is writable by two, symbolic objects are kept while a state names them, objects do not overlap, pointers resolve to exactly what they may point to |
| posix_fd | 4 descriptors, 1 symbolic file of 2 bytes, directories of 1 entry, 2 injected failures, 5 calls, 5 sets of calls, with and without save_all_writes | 1 055 705 | offsets and bytes are what the program was told, save where duplicates part, directory listings are complete, the chosen call fails and no other |
| formats | bytes of 2 bits, indices of 4, 2 writes, 3 operations | 112 322 | a logged query reads back as a query of the same meaning; a script means what its query means |
| learned | 3 states (symmetric), 2 branches on a path | 729 938 | every cost and every new coverage is in exactly one recorded vector; predictions are of current features and the path's own history |
| containers | trees of 4 keys and 6 operations, 5 weighted items, sets of 3 elements, 3 streams with 2 branches and buffers of 1 or 2, 600 programs of 5 instructions with 3 frames | 383 316 | each structure agrees with its plain definition, and the tree frees a node exactly with its last reference |
| doc_memory_kill | 3 states, 2 targets, memory cap | | the first disagreement below |

Why the bounds are enough to reach the interesting cases.  Three states are a
handler that forks and forks again one of the results, the shortest way to have
an executing state, an added one and one known to the searcher; five add a second
level of the tree on both sides, and an added state that is terminated between
two others.  Three addresses are, for the searchers, a state that runs, one that
is paused and one that is removed and whose address returns, and, for merging, a
state that waits, one it waits for and one that is killed; three handlers nest
two regions and reuse the third.  With bytes of two bits a word is two bytes, an
index is wider than a byte, and a signed value has a sign and a magnitude, so the
cases of extension, overflow and overshift are all there; words of four bits give
`ConstantDivision` every divisor and dividend.  The constant amount of a shift is cut to a
word (`Amount`, `unsigned` in the code): an overshift by 2^32 or more would be a
shift by less, and no expression of the run has a constant that large.  Two questions with
a change of path between them are an answer cached on one path and used on
another.  Five
object states are a shared one, its two copies and two more objects.  In PosixFd
the calls are split into five sets so that five calls can be combined; the
assertion of save_all_writes and the null fail index of `chmod` are reached and
end the path.  Six
operations on four keys reach all rotations of the trees; `DiscretePDF` is also
driven through removals with every shape of five nodes.  `Late` (Expressions) is
the set of kinds the second operation may have, `Varied` (Containers) the number
of items whose weight changes.

Deadlock is checked in the runs of the executor, the searchers, merging and the
learned searcher (a finished run stutters); in the others a behaviour ends at the
bound on its operations.

Fairness: `WF_vars(Instruction \/ Loop)` in `Executor`, the executor thread keeps
running.  It is one thread that never waits for another; its only blocking calls
are solver queries and external calls, and solver queries have a timeout whose
outcome `fork` models.  `Halt` is not fair: nothing has to stop a run.  Every loop
of a handler is bounded by `MaxTargets` (`lc.fuel`), as in the code by the number
of functions or objects.  For `Searchers` and `Merging` the fairness is
`WF_vars(Next)`, the same thread; that the program forks again and again is an
assumption inside `BFSRunsAll`, because `BFSSearcher` rotates only then (a state
that never forks again keeps the front, as the option's description says).  `WaitingEnds` assumes that
forking comes to an end and that every state is outside all merge regions again
and again: a program that forks for ever inside a region, or never leaves it, does
keep the others waiting.

## Where code and comments disagree

With a run of its own:

* `doc_memory_kill`: `checkMemoryUsage` chooses victims in `states` while the
  state the last instruction terminated is still there; it is terminated twice
  and the searchers' assertion fails (with a searcher that tolerates repeats,
  `updateStates` looks a deleted state up).

With a configuration to run by hand (`tlc -config X.cfg M`):

* `DocDestroyedState.cfg` (MCExecutor): `executeCall` says "state may be destroyed
  by this call, cannot touch" and for an `invoke` touches it.  A state that a
  symbolic call has just forked is in `addedStates`, so a failing external call
  deletes it.
* `DocDestroyedState.cfg` with `Program = {"call", "illegalFunction"}` and the
  invariant `SearcherOwnsRemoved`: a symbolic function pointer with an
  illegal value terminates `state` instead of the state that has the illegal
  value; `state` may already be terminated.
* `DocDestroyedState.cfg` with `MaxForks = 0`, `Program = {"indirectbr", "illegalLabel"}` and
  the invariant `ErrorStateExists`: `indirectbr` dereferences `branches.back()`,
  which is null once max-forks is reached or, with only-replay-seeds, when no seed
  goes there.
* `DocMemoryKill.cfg` with `SPECIFICATION FairSpec`, `Program = {"br", "switch"}` and
  the property `NoForkAtMemoryCap`: `branch()` does not look at `atMemoryLimit`.
  For the same reason it overshoots max-forks by up to N-2 and ignores max-depth.
* `DocDeepeningRandomPath.cfg` (MCSearchers): iterative deepening over the default
  searchers.  `InterleavedSearcher::empty` asks its first searcher, random-path,
  which answers for the executor and so never reports that all states are paused;
  the weighted searcher is then asked while it is empty, or told to reweight a
  paused state that random-path found in the tree.  `constructUserSearcher`
  rejects random-path under `--use-merge`, where the same happens, but not here.
* `DocKQuery.cfg` (Formats): `hasOrderedReads` compares only the indices of the
  reads of a `Concat`, not what lies between them, and prints as one `ReadLSB` or
  `ReadMSB` what does not read back as such; and a `Concat` that starts with a
  constant is printed without its width, which the parser then cannot infer.
* `DocDuplicateOffset.cfg` (PosixFd): `dup2` says of the entry it copies "XXX
  Incorrect, really we need another data structure for open files" (fd.c:1098).
  The descriptors have offsets of their own where POSIX promises one: `dup`, then
  `read` from either, and the other is not where `DuplicatesShareOffset` says.
  `ProgramView` claims nothing of a descriptor that was left behind like that.
* `DocCalleeDistance.cfg` (Containers): `computeReachableUncovered` means to count
  what is not covered in a callee (`calleeDist`, StatsTracker.cpp:978), but reads
  `minDistToUncovered` at the id of the function.  Functions have ids of their own
  (InstructionInfoTable.cpp:194), for which that statistic is never set: the
  distance read is always 0, and `CalleesCount` fails.  `DistancesRight` states what
  the code computes.

By changing a constant of a passing run:

* Merging, `DumpStatesOnHalt = TRUE`: a halt terminates states that wait for a
  merge, which the base searcher no longer lists, and its assertion
  (Searcher.cpp:88) fails.
* Solving, `FastRanges = TRUE`: the queries of `getRange` make `FastCexSolver`
  propagate an exact range that does not meet the one it has, and the assertions
  at FastCexSolver.cpp:829 fail.
* Memory, `Misuse`: `"flushed"`, a native function changes a byte that is
  both concrete and flushed, and the update list keeps the old one; `"readOnly"`,
  it changes a read-only object; `"realloc"`, `realloc` of a local frees an object
  its frame still lists, and the frame's end looks it up.
* Containers, `"copy"` in `ForkWays`: `Executor::branch` copies a state with the
  number of its path stream, and both then write to one stream, although the
  comment at Executor.cpp:1193 says the number has to be updated.
* Expressions has `OnlyCanonical`, the reason STPBuilder.cpp:914 gives for leaving
  cases out ("unused due to canonicalization").  Expr's create functions satisfy
  it, kleaver's default builder does not.

Noted while modelling, without a property of their own:

* Executor.h:151 calls `addedStates` a subset of `states`; it is disjoint from it
  (`StatesAccounted` is the invariant that holds).
* Expr.h says constants are on the left of a commutative operation; `And` and `Or`
  put them on the right.
* `AssignmentValidatingSolver` reads `hasSolution` after a call that failed and
  did not set it; the model lets it have either value.
* `ConstantDivision` has no case for a divisor of zero; its callers do.
* `AddressSpace::resolve` does not stop at `maxResolutions == 1`; `posix_memalign`
  checks for a negative result that never comes.
* fd.c: `chmod_fail` and `fchmod_fail` are never allocated, so the injection
  (fd.c:631) goes through a null pointer and ends the path;
  `dup2(fd, fd)` closes the file and returns the descriptor; `dup2` ignores an injected failure of `close`;
  `has_permission` tests the read bit the wrong way round; `open` without
  `O_CREAT` clears mode bits of the file; `fchown` passes the program's descriptor
  to the operating system; `lseek` with `SEEK_CUR` on the real standard input
  rewinds it; with `save_all_writes` a write past the end asserts, although fd.h
  says "If set, writes execute as expected"; `getdents` with a small buffer; the
  sets of `select` may alias.
* Formats: `NotOptimized` is unknown to the parser; an array named like a label clashes with it; a negative literal is extended with zeros;
  an SMT-LIB script does not declare an array that is mentioned only in later
  updates.  These inputs are not in the run.
* Learned: without `--use-branching-search`, or with merging, a vector is recorded
  twice and the second query cost is negative; the counters of test cases and
  instructions are global and may be those of another path.
* `DiscretePDF::rotate` sums up the upper node before the lower; its callers repair
  the sum.  `remove` does not rebalance when the removed black node has no child:
  the sums stay right, the depth is no longer logarithmic.
* `StatsTracker::framePushed` measures from the call instruction,
  `computeReachableUncovered` from the one behind it (lines 419 and 1027).

## Proofs

For every value of the constants allowed by `ConfigAssumption` (any number of
states, any program, any options): `TypeCorrect`, `StatesAccountedAlways`,
`TreeMatchesStatesAlways`, `SearcherHoldsStatesAlways`,
`NoDanglingPointerAlways`, `SeedsHaveOneOwnerAlways`, all consequences of
`Invariance` (`Spec => []IndInv`), and from it, with a further invariant each,
`SeedsNeverLost`, `AllReleasedAlways` and `NoFaultAlways`.

None of these is inductive alone.  Deleting a state in the right place needs the
tree to be a proper tree (every node's parent allocated, inner nodes without a
state and with a child, leaves in bijection with live states: `TreeInv`), because `remove` cuts off exactly the ancestors that would become
childless.  That a handler's locals are live after a termination needs to know
which list each of them is in (`LocalsOK`): a termination only deletes members
of `addedStates`, so `current`, a member of `states`, survives any, while a
forked state kept in a local must be a different one from the one being
terminated.  `SearcherHoldsStates` needs that between `updateStates` and the end
of the erasure loop the searcher holds `states` minus what is still in
`removedStates`.  The first lemmas say what `attach` and `remove` do to such a tree,
the operator lemmas lift this to `Split`, `Delete`,
`terminateState` and each outcome of `fork`, and one lemma per action does the
rest.

`SeedsNotLost` is an action property.  `SeedsPass`, that a change of the containers
hands every seed on or deletes a state, is transitive, so it is shown once for
`Delete`, `terminateState` and `fork` and then put together along each handler;
`branch()` needs that the states it made have no seeds of their own yet, which it
would overwrite, and that an entry of its result is null only beyond max-forks
(`SeedsInv`).  `AllReleased`, the safety half of `HaltEnds`, needs that from
`doDumpStates` on every remaining state is in `removedStates` or about to be
(`EndInv`), and of the tree that a state can be reached from every node: the last
`remove` then cuts off everything but the root, without an induction over the
tree.

`NoFaultAlways` has the hypothesis `NoDefects`: no memory cap, and a program without
the instruction kinds `illegalLabel`, `illegalFunction` and `invoke`.  Each of the four
leads to a fault in the code; see the disagreements above.  Without them, a state is
terminated at most once in a step of the loop: `OnceInv` says that `removedStates` is
free of repetitions and that no local of a handler, and no victim still to come, is
in it.

For the searchers, for any finite set of states, any number of core searchers and
any options except iterative deepening over random-path (the hypothesis
`NoDeepenedRandomPath`; `DocDeepeningRandomPath.cfg` shows that it is needed):
`SearchersListsAgree`, `SearchersCachesUsable`, `SearchersNoFault` and the
refinement `SearchersImplementContract`, from `SearchersInvariance`.
`ListsAgree` speaks only of the moment of a selection; the inductive invariant
says what the lists hold at every point of an update (`Runnable`: the states
before it, then those that remain plus the removals still to do, then those that
remain), that caches name only what remains, and that the paused states are never
among the removals handed on.  The sequence lemmas (`EraseProperties`,
`ConcatLists`, `RotateList`) show that lists stay free of repetitions.

For merging, for any sets of states, handlers and close points and any nesting
(the hypothesis `Quiet`: neither a memory cap nor a dump of the states on halt;
both terminate waiting states, which the base searcher no longer lists, and its
assertion fails): `MergingBooksRight`, `MergingNoFault` and the refinement
`MergingImplementsContract`, from `MergingInvariance`.  Handlers, groups and pauses
are related by `WaitsInv`: a paused state waits at one point of one handler, which
somebody else is still inside of.  That alone does not exclude that everybody
waits for everybody, and the base searcher would then be empty.  `StacksInv` adds
that a merge region has the same level in every stack it is on, and a waiting
state is one level above the regions it is still inside of; so of the states
that wait, those at the least level wait for somebody who does not
(`NotAllWait`).

For memory, for any number of states, objects and object states and any sizes
(the hypothesis `Careful`: none of the three values of `Misuse`, each of which
breaks a property, as listed above): `MemoryContentsRight`, `MemoryOwnedAlone`,
`MemoryObjectsKept`, `MemoryNoOverlap`, `MemoryResolutionRight` and
`MemoryTypeOK`, from `MemoryInvariance`.  A byte of an object has up to three
homes (concrete store, known symbolic byte, update list), and what it means is
`ByteAt`; ObjectStateProofs shows for `flushRangeForRead`, `flushRangeForWrite`,
`getUpdates`, `read8` and each write that the homes agree afterwards wherever two
are valid, and that the meaning of every byte is what it was, or is what was
written.  The loops over the bytes are handled by induction over the set of
indices for which a step is done.  In MemoryProofs, `MemoryInv` says: every
binding is of a living object and object state of the object's size (`Bindings`);
an object state whose owner is the epoch of an address space is bound there and
nowhere else (`Owned`); constants and read-only objects are never written
(`Constants`); a state's view of an object is the meaning of the object state it
has bound (`Contents`); frames list exactly the living locals (`Frames`); a
state's symbolic objects are alive (`Listing`); reference counts are the
cardinalities of the sets of those who refer to an object (`Counted`); objects lie
apart, below the next free slot (`Layout`).  Only between two operations are all
of them true: an operation is shown to keep the parts without the counts, and one
lemma about `Commit`, which releases what nobody refers to any more, gives the
rest.  Every operation that replaces a binding (store, make symbolic, allocate,
merge) is a case of one lemma, `Rebound`.

For descriptors, for any number of them, any symbolic files, directories, bytes,
failures and calls, any options and any program: `InjectedOnceAlways`,
`ListingCompleteAlways` and `ProgramViewAlways`.  The first follows from `FailOK`: the failures injected so far are as many as
the calls whose index is fixed, and a call that counts itself leaves a fixed index
behind before it looks at it.  The second follows from `Agree`, in which every slot of the table,
with the listing the program knows of it, is right (`EntryOK`).  A listing that is
whole belongs to a concrete directory and either has not begun or has shown each of
the symbolic files, and of the operating system's entries those below the offset
(`ListOK`); no call moves such an offset without showing the entries it passes.  That
a symbolic file is never linked again and a descriptor of the operating system never
changes its kind (`Keeps`) lets every call be a case of one lemma, `ChangesOne`.  The
third adds `Knows`: the offset of every open descriptor that is not stale is the one
the program computes, and every file that is not lost holds the bytes it wrote.  An
offset that moves takes no other descriptor with it: those of the same open file
become stale, so for a descriptor that is not, nothing has changed (`OneOffset`,
`PlacedKeeps`); a copy is stale exactly if the descriptor it was made of was.  A write
moves the offset on by all it was asked for and drops what lies past the end
(`PutWritten`), which a later read does not find (`ReadAnswers`), and `Told` carries
what `read` and `FIONREAD` said to the next state.

For the learned searcher, for any number of states, instructions, conditions and
rewards and any list of core searchers: `LearnedVectorsRight` and
`LearnedHiddenIsHistory`, from `LearnedInvariance`.  `VectorsRight` speaks of the
rows of the paths and of the vectors at a selection; in between, a vector may lag
behind its path.  The inductive invariant says when: every path whose vector is not
up to date is in `featureStates`, so the next refresh recomputes it (`Vectors`),
and a path that forked or was added is there with what it forked (`Places`).  The
rows of a path add up whether its vector is right or not (`RowsRight`), because each
row was one that was right when it was recorded and costs and coverage only grow;
`CostOf` is a recursive function, and that it sums up is the one induction
(`CostOfSums`, by the least number principle `NatSetInduction`).  For
`HiddenIsHistory` the hidden state of a path is its rows, with the current vector
added exactly when the path has been predicted since its last row (`Fed`).  A fork
copies rows and hidden state but not `predicted`, and this is right only because
the path that forks is the one that was chosen, whose prediction the choice has
already taken back (`Histories`).

For the solver chain, for any (non-empty) set of cells, any expressions, any programs
of conditions and any chain of layers in front of the core solver, of any length and in
any order: `SolvingAnswersRight` and `SolvingCachesRight`, from `SolvingInvariance`.
A layer's promise (`Promise`) is: asked under constraints that some input meets, or
for an assignment under any, with right caches, it leaves right caches, and if it
succeeds its answer is the right one (`Answers`).  Each of the seven layers keeps the
promise if the layers behind it do, and `ChainRight` is the induction over the length
of the chain.  The caches are shared by all paths, so what is in them must not depend
on one: `CachesFine` says of an assignment only that it satisfies its key, and of a
validity only what the constraints in its slot imply.  The negation of an expression
shares its slot, and a partial validity that is found may have been stored for the
negation (`CachingRight`).  For the independence layer the constraints that are left
out share no cell with those that are kept, so a solution for the one set and any
input of the path for the others can be put together cell by cell
(`IndependentValues`); that the loops end with such a separation is proved through
what each pass keeps (`ClosureKeeps`, `FactorsOfQuery`).  A cached subset that is
unsatisfiable refutes the query, a cached assignment is tried on it.  The binary
searches of `getRange` find the least number that passes a test (`SearchRangeRight`),
whatever the test is; that the three numbers found are the bits, the minimum and the
maximum needs that each search starts from a range whose upper end passes.
The layers' loops are recursive functions, and that such a function exists and what
it is at each step is itself proved (`ClosureSteps`, `SearchSteps` and the like).

The theorems suppose (`Supposed`) that evaluation gives what an expression means,
that a negation is one, that a value depends only on the cells `findReads` and
`IndependentElementSet` give, that `FastCexSolver` says only what is so, that
simplification keeps the meaning under its constraints and that adding a condition
describes the path with that condition, that the comparisons `getRange` creates
mean what they say, and that `Ask` is `Layer`.  These are facts about recursive
definitions; MCSolving checks them by assumptions (`ExpressionsAssumption`,
`ReadsAssumption`, `ComparesAssumption`, `PropagatesAssumption`,
`SimplifiesAssumption`) on the expressions and queries of its programs, the run
`expressions` checks creation on all small expressions of two operations, and the
invariant `PathKept` checks `addConstraint`.  Nothing is supposed of the queries that
the validators create: they can only end in a failed assertion, after which there
is no answer.

Only model-checked: the liveness properties (`HaltEnds`, `BFSRunsAll`,
`WaitingEnds`), which are out of the prover's reach, and what rests on recursive
operators (expressions, `addConstraint`, formats, the support structures): the prover
has no SMT backend where one is declared, and their definitions recurse over
expressions and trees.  `OnlyCoreFails` is checked and not proved: it needs that no
assertion of a validator fails, and so the meaning of the queries the validators
create.

## Not modelled

* The array optimizer (`--optimize-array`, off by default), hashing and ordering
  of expressions; implied values (`ivcEnabled` is false and nothing sets it).
* Floating point and vectors; the dispatch on opcodes.
* LLVM passes and module loading; JIT compilation and signal handling of external
  calls, whose only effect on states is a termination.
* `klee_set_forking`, replay of paths and tests, static limits on forking,
  `allocateFixed`.
* The 32-bit product in `checkMemoryUsage` (Executor.cpp:2962), which wraps when
  `numStates * MaxMemory` passes 2^32: victims are any set of states, so any
  number of kills is covered.
* The weights of the weighted searchers (any listed state may be drawn; the
  drawing is DiscretePDF) and the network in Python.
* Lexing and recovery from syntax errors; `klee_init_env`; klee-libc; the tools'
  option parsing, output files and watchdog.
* Seeds together with feature extraction: a termination while seeding then calls
  `addFeatures` on a null searcher (Executor.cpp:3544), excluded by
  `ConfigAssumption`.

## Plan

What remains is proof: `OnlyCoreFails`, with what is then to be supposed of the
validators' queries; and the container structures, whose trees would have to be
numbered nodes instead of recursive records.
