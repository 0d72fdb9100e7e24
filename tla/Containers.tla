----------------------------- MODULE Containers ------------------------------
(* The structures the executor, the searchers, the counterexample cache and   *)
(* the statistics are built on, each driven by any sequence of its operations *)
(* and compared with a plain definition.  One behaviour exercises one.        *)
EXTENDS ImmutableTree, DiscretePDF, MapOfSets, TreeStream, Distances

CONSTANTS
  Structures,     \* a subset of {"tree", "pdf", "sets", "streams", "distances"}
  Key,            \* the keys of trees, 1 .. n
  Tree,           \* the variables (maps, iterators) that hold versions of a tree
  Changed,        \* those of them that are changed; the others keep copies
  Weight, Varied, \* the weights of items; bound: the items that can have any of them
  Element, Val,   \* the elements and the values of a map of sets
  MaxOps,         \* bound: changes of the trees
  ForkWays,       \* how a path is split: "fork", "internal" (fork) or "copy" (branch)
  BufferSizes,    \* the writer's bufferSize is one of these
  MaxPaths, MaxBranches,  \* bounds: the paths, and the branches of each
  MaxFrames       \* bound: the depth of the stack

ASSUME ContainersAssumption ==
  /\ Structures \subseteq {"tree", "pdf", "sets", "streams", "distances"} /\ Key \subseteq Nat \ {0}
  /\ Changed \subseteq Tree /\ 0 \notin Val /\ MaxOps \in Nat /\ Varied \in Nat /\ Weight \subseteq Nat /\ Weight # {}
  /\ ForkWays \subseteq {"fork", "internal", "copy"} /\ BufferSizes \subseteq Nat \ {0} /\ BufferSizes # {}
  /\ MaxPaths \in Nat /\ MaxBranches \in Nat /\ MaxFrames \in Nat

VARIABLES
  structure,
  heap, tree, content,  \* ImmutableTree: the nodes, the trees, what each should hold
  ops,
  pdf, weights,         \* DiscretePDF, and the weights of its items
  index, stored,        \* MapOfSets, and what was stored
  writer, paths,        \* TreeStream, and of each path its stream and branches
  prog, covered, tables, es, fresh
                        \* StatsTracker: the program, what is covered, the
                        \* distances, a state, and whether they are up to date

vars == <<structure, heap, tree, content, ops, pdf, weights, index, stored,
          writer, paths, prog, covered, tables, es, fresh>>
treeVars == <<heap, tree, content, ops>>
pdfVars == <<pdf, weights>>
setVars == <<index, stored>>
streamVars == <<writer, paths>>
distanceVars == <<prog, covered, tables, es, fresh>>

Empty == [x \in {} |-> 0]
Put(f, x, v) == [y \in DOMAIN f \cup {x} |-> IF y = x THEN v ELSE f[y]]
Without(f, x) == [y \in DOMAIN f \ {x} |-> f[y]]

\* bound: the programs whose distances are computed.  main (1 .. 3) and g (4, 5)
\* branch, loop, return, fall off the end of what is reachable, and call each
\* other, a library function that returns and one that does not.  As in LLVM,
\* no branch leads to the first instruction of a function.
Ret == [k |-> "ret", succ |-> {}, targets |-> {}]
Br(succ) == [k |-> "br", succ |-> succ, targets |-> {}]
CallOf(targets, next) == [k |-> "call", succ |-> {next}, targets |-> targets]

Programs ==
  LET Code == {CallOf({"g"}, 2), CallOf({"ext"}, 2), CallOf({"g", "ext"}, 2), Br({2, 3})}
              \X {CallOf({"g"}, 3), CallOf({"abort"}, 3), Br({3}), Br({2, 3}), Br({})}
              \X {Ret, Br({2})}
              \X {CallOf({"g"}, 5), CallOf({"main"}, 5), CallOf({"main", "ext"}, 5), Br({5}), Ret}
              \X {Ret, Br({5}), Br({})}
  IN  {[code |-> c, entry |-> [main |-> 1, g |-> 4], returns |-> [ext |-> TRUE, abort |-> FALSE]] : c \in Code}

\* runFunctionAsMain opens the first stream; the first frame returns nowhere
FirstFrame == [caller |-> 0, minDistToUncoveredOnReturn |-> 0]

NoDistances(p) == LET none == [i \in DOMAIN p.code |-> 0] IN [toReturn |-> none, toUncovered |-> none]

Init ==
  /\ structure \in Structures
  /\ writer \in {openStream(NewWriter(size), 0) : size \in IF structure = "streams" THEN BufferSizes ELSE {1}}
  /\ paths = <<[id |-> 1, branches |-> << >>]>>
  /\ prog \in IF structure = "distances" THEN Programs ELSE {CHOOSE p \in Programs : TRUE}
  /\ covered = {} /\ tables = NoDistances(prog) /\ fresh = FALSE
  /\ es = [pc |-> prog.entry["main"], stack |-> <<FirstFrame>>]
  /\ heap = Empty /\ tree = [x \in Tree |-> Terminator] /\ content = [x \in Tree |-> Empty]
  /\ ops = 0
  /\ pdf = EmptyTree /\ weights = Empty
  /\ index = EmptyNode /\ stored = Empty

(***************************************************************************)
(* ImmutableTree                                                           *)
(***************************************************************************)

TreeStep ==
  /\ structure = "tree" /\ ops < MaxOps /\ ops' = ops + 1
  /\ UNCHANGED <<structure, pdfVars, setVars, streamVars, distanceVars>>

\* x = x.insert(...): the variable holds the result, and gives up its old tree
Assign(x, res, map) ==
  /\ heap' = decref(res.h, tree[x])
  /\ tree' = [tree EXCEPT ![x] = res.n]
  /\ content' = [content EXCEPT ![x] = map]

Insert ==
  /\ TreeStep
  /\ \E x \in Changed, k \in Key :
       Assign(x, put(heap, tree[x], [k |-> k, v |-> 1], FALSE),
              IF k \in DOMAIN content[x] THEN content[x] ELSE Put(content[x], k, 1))

Replace ==
  /\ TreeStep
  /\ \E x \in Changed, k \in Key :
       Assign(x, put(heap, tree[x], [k |-> k, v |-> 2], TRUE), Put(content[x], k, 2))

RemoveKey ==
  /\ TreeStep
  /\ \E x \in Changed, k \in Key : Assign(x, remove(heap, tree[x], k), Without(content[x], k))

PopMin ==
  /\ TreeStep
  /\ \E x \in Changed : tree[x] # Terminator
                     /\ Assign(x, popMin(heap, tree[x]), Without(content[x], Min(DOMAIN content[x])))

PopMax ==
  /\ TreeStep
  /\ \E x \in Changed : tree[x] # Terminator
                     /\ Assign(x, popMax(heap, tree[x]), Without(content[x], Max(DOMAIN content[x])))

\* y = x
Copy ==
  /\ TreeStep
  /\ \E x \in Tree, y \in Tree : Assign(y, Same(heap, tree[x]), content[x])

(***************************************************************************)
(* DiscretePDF                                                             *)
(***************************************************************************)

Items == 1 .. MaxItems
WeightsOf(i) == IF i <= Varied THEN Weight ELSE {Min(Weight)}

PdfStep == structure = "pdf" /\ UNCHANGED <<structure, treeVars, setVars, streamVars, distanceVars>>

AddItem ==
  /\ PdfStep
  /\ \E i \in Items \ DOMAIN weights : \E w \in WeightsOf(i) :
       pdf' = insert(pdf, i, w) /\ weights' = Put(weights, i, w)

RemoveItem ==
  /\ PdfStep
  /\ \E i \in DOMAIN weights : pdf' = removeItem(pdf, i) /\ weights' = Without(weights, i)

UpdateItem ==
  /\ PdfStep
  /\ \E i \in DOMAIN weights : \E w \in WeightsOf(i) :
       pdf' = update(pdf, i, w) /\ weights' = Put(weights, i, w)

(***************************************************************************)
(* MapOfSets                                                               *)
(***************************************************************************)

SetStep == structure = "sets" /\ UNCHANGED <<structure, treeVars, pdfVars, streamVars, distanceVars>>

InsertSet ==
  /\ SetStep
  /\ \E S \in SUBSET Element, v \in Val :
       index' = insertSet(index, Ascending(S), v) /\ stored' = Put(stored, S, v)

Clear == SetStep /\ index' = EmptyNode /\ stored' = Empty

(***************************************************************************)
(* TreeStream                                                              *)
(***************************************************************************)

StreamStep == structure = "streams" /\ UNCHANGED <<structure, treeVars, pdfVars, setVars, distanceVars>>
CanBranch(i) == Len(paths[i].branches) < MaxBranches
Taking(path, b) == [path EXCEPT !.branches = Append(@, b)]

\* fork: only one side is feasible
TakeBranch ==
  /\ StreamStep
  /\ \E i \in DOMAIN paths, b \in {"1", "0"} :
       /\ CanBranch(i)
       /\ writer' = writeStream(writer, paths[i].id, <<b>>)
       /\ paths' = [paths EXCEPT ![i] = Taking(@, b)]

\* fork: both sides are; the false state gets a stream of its own.  branch only
\* copies the state.
ForkPath ==
  /\ StreamStep /\ Len(paths) < MaxPaths
  /\ \E i \in DOMAIN paths, way \in ForkWays :
       LET child == IF way = "copy" THEN paths[i] ELSE [paths[i] EXCEPT !.id = writer.ids]
           opened == IF way = "copy" THEN writer ELSE openStream(writer, paths[i].id)
       IN  /\ way = "fork" => CanBranch(i)
           /\ IF way = "fork"
              THEN /\ writer' = writeStream(writeStream(opened, paths[i].id, <<"1">>), child.id, <<"0">>)
                   /\ paths' = Append([paths EXCEPT ![i] = Taking(@, "1")], Taking(child, "0"))
              ELSE writer' = opened /\ paths' = Append(paths, child)

\* processTestCase reads a stream back, which flushes the buffer
ReadPath == StreamStep /\ writer.buffer # << >> /\ writer' = flushBuffer(writer) /\ UNCHANGED paths

(***************************************************************************)
(* StatsTracker                                                            *)
(***************************************************************************)

DistanceStep == structure = "distances" /\ UNCHANGED <<structure, treeVars, pdfVars, setVars, streamVars>>

\* what a state can do next in program p: [pc, stack, cost], where an external
\* call counts for two; a call that does not return ends the path
Goes(p, s) ==
  LET i == s.pc  code == p.code[i]
      on(pc, stack, cost) == [pc |-> pc, stack |-> stack, cost |-> cost]
      caller == Last(s.stack).caller
  IN  CASE code.k = "br" -> {on(j, s.stack, 1) : j \in code.succ}
        [] code.k = "ret" -> IF caller = 0 THEN {} ELSE {on(caller + 1, Front(s.stack), 1)}
        [] code.k = "call" ->
             {on(p.entry[f], Append(s.stack, [FirstFrame EXCEPT !.caller = i]), 1) :
                f \in code.targets \cap DOMAIN p.entry}
             \cup {on(j, s.stack, 2) : j \in {j \in code.succ : \E f \in code.targets \cap DOMAIN p.returns : p.returns[f]}}

\* framePushed: the distance behind the call is taken from the call itself
Pushed(stack) ==
  [stack EXCEPT ![Len(stack)].minDistToUncoveredOnReturn =
     computeMinDistToUncovered(tables, Last(stack).caller, stack[Len(stack) - 1].minDistToUncoveredOnReturn)]

StepInstruction ==
  /\ DistanceStep
  /\ \E s \in Goes(prog, es) :
       LET pushed == Len(s.stack) > Len(es.stack)
       IN  /\ Len(s.stack) <= MaxFrames
           /\ covered' = covered \cup {es.pc}
           /\ es' = [pc |-> s.pc, stack |-> IF pushed THEN Pushed(s.stack) ELSE s.stack]
           /\ fresh' = (fresh /\ es.pc \in covered /\ ~pushed)
           /\ UNCHANGED <<prog, tables>>

\* computeReachableUncovered, on a timer
Recompute ==
  LET back == minDistToReturn(prog)
      now == [toReturn |-> back.dist, toUncovered |-> minDistToUncovered(prog, back.shortest, covered)]
  IN  /\ DistanceStep /\ ~fresh
      /\ tables' = now /\ fresh' = TRUE
      /\ es' = [es EXCEPT !.stack = UpdateFrames(now, @, es.pc, 1, 0)]
      /\ UNCHANGED <<prog, covered>>

Next ==
  \/ Insert \/ Replace \/ RemoveKey \/ PopMin \/ PopMax \/ Copy
  \/ AddItem \/ RemoveItem \/ UpdateItem
  \/ InsertSet \/ Clear
  \/ TakeBranch \/ ForkPath \/ ReadPath
  \/ StepInstruction \/ Recompute

Spec == Init /\ [][Next]_vars

(***************************************************************************)
(* Properties                                                              *)
(***************************************************************************)

\* Every version of a tree keeps what it held when it was made, whatever is
\* done to the versions that share nodes with it: each lookup of AddressSpace
\* finds what a plain map would, an iterator passes its keys in order both ways,
\* the heights stay balanced, and the references counted at a node are the ones
\* that exist, so that no node is freed under a tree and none is kept for nobody.
Bound(keys, k) == LET K == {j \in keys : j >= k} IN IF K = {} THEN 0 ELSE Min(K)
KeyAt(stack) == IF stack = << >> THEN 0 ELSE heap[Last(stack)].value.k

RECURSIVE Forward(_)
Forward(stack) == IF stack = << >> THEN << >> ELSE <<KeyAt(stack)>> \o Forward(increment(heap, stack))
RECURSIVE Backward(_, _)
Backward(root, stack) ==
  IF stack = << >> THEN << >> ELSE <<KeyAt(stack)>> \o Backward(root, decrement(heap, root, stack))

MapRight(x) ==
  LET n == tree[x]  m == content[x]
  IN  /\ Forward(Leftmost(heap, n)) = Ascending(DOMAIN m)
      /\ Backward(n, decrement(heap, n, << >>)) = Reverse(Ascending(DOMAIN m))
      /\ \A k \in Key :
           LET below == {j \in DOMAIN m : j <= k}
           IN  /\ lookup(heap, n, k) = IF k \in DOMAIN m THEN [k |-> k, v |-> m[k]] ELSE Nothing
               /\ lookupPrevious(heap, n, k, Nothing) =
                    IF below = {} THEN Nothing ELSE [k |-> Max(below), v |-> m[Max(below)]]
               /\ KeyAt(lowerBound(heap, n, k)) = Bound(DOMAIN m, k)
               /\ KeyAt(upperBound(heap, n, k)) = Bound(DOMAIN m, k + 1)

References(n) ==
  Cardinality({a \in DOMAIN heap : heap[a].left = n}) + Cardinality({a \in DOMAIN heap : heap[a].right = n})
  + Cardinality({x \in Tree : tree[x] = n})

TreesRight ==
  structure = "tree" =>
    /\ \A x \in Tree : MapRight(x)
    /\ \A n \in DOMAIN heap :
         /\ heap[n].references = References(n)
         /\ Height(heap, heap[n].left) <= Height(heap, heap[n].right) + 2
         /\ Height(heap, heap[n].right) <= Height(heap, heap[n].left) + 2

\* After any sequence of insertions, removals and changes of weights, each item
\* is chosen by exactly as many of the numbers below the total weight as its
\* weight says, although a rotation leaves a wrong sum behind for the caller to
\* repair: the random searchers pick states with the probabilities they ask for.
Total == MapThenSumSet(LAMBDA i : weights[i], DOMAIN weights)
ChoicesRight ==
  structure = "pdf" /\ weights # Empty =>
    /\ SumAt(pdf, pdf.root) = Total
    /\ \A i \in DOMAIN weights :
         Cardinality({w \in 0 .. Total - 1 : chooseFrom(pdf, pdf.root, w) = i}) = weights[i]

\* The searches the counterexample cache relies on find a stored subset or
\* superset with an acceptable value whenever there is one, and only then; the
\* listings give all of them, and the iterator passes every stored set once.
RECURSIVE From(_)
From(i) == IF i = AtEnd THEN << >> ELSE <<ToSet(i.stack)>> \o From(step(index, i))

SetsRight ==
  structure = "sets" =>
    /\ \A S \in SUBSET Element :
         LET path == Ascending(S)
             sub(P) == {stored[T] : T \in {T \in DOMAIN stored : T \subseteq S /\ stored[T] \in P}}
             super(P) == {stored[T] : T \in {T \in DOMAIN stored : S \subseteq T /\ stored[T] \in P}}
             entry(T) == [set |-> T, value |-> stored[T]]
         IN  /\ lookupSet(index, path) = IF S \in DOMAIN stored THEN stored[S] ELSE NotFound
             /\ \A P \in SUBSET Val :
                  /\ findSubset(index, path, P) \in IF sub(P) = {} THEN {NotFound} ELSE sub(P)
                  /\ findSuperset(index, path, P) \in IF super(P) = {} THEN {NotFound} ELSE super(P)
             /\ ToSet(findSubsets(index, {}, path)) = {entry(T) : T \in {T \in DOMAIN stored : T \subseteq S}}
             /\ ToSet(findSupersets(index, {}, path)) = {entry(T) : T \in {T \in DOMAIN stored : S \subseteq T}}
    /\ IsInjective(From(begin(index))) /\ ToSet(From(begin(index))) = DOMAIN stored

\* Whatever paths are forked, run and read in whatever order, the stream of a
\* path reads back as the branches that path took: neither the ones its
\* ancestors took after the fork, nor a sibling's, though all share one buffer
\* and one file (fork, TreeStreamWriter).
StreamsRight ==
  structure = "streams" =>
    \A i \in DOMAIN paths : readStream(flushBuffer(writer), paths[i].id) = paths[i].branches

\* Once the statistics are computed, and until something new is covered or
\* called, the distance the searchers read for a state (md2u, covnew) is the
\* length of the shortest run from its stack to an instruction not covered in
\* one of its frames, 0 if no run gets to one: over the calls on the way, whose
\* shortest way to return is taken along, around calls that do not return, and
\* back to any caller.  What is not covered in a function that is called on the
\* way does not count: own is the frame the run is in or has returned to.
Longest == 16
Sought(s, inside) == s.pc \notin covered /\ (inside \/ Len(s.stack) <= s.own)
Grow(seen, inside) ==
  seen \cup UNION {{[pc |-> s.pc, stack |-> s.stack, cost |-> s.cost + x.cost, own |-> Min({x.own, Len(s.stack)})] :
                     s \in {s \in Goes(prog, x) : Len(s.stack) <= Len(es.stack) + 2}} :
                   x \in {x \in seen : ~Sought(x, inside) /\ x.cost <= Longest}}
RECURSIVE Runs(_, _, _)
Runs(seen, inside, n) ==
  IF n = 0 THEN seen ELSE LET next == Grow(seen, inside) IN IF next = seen THEN seen ELSE Runs(next, inside, n - 1)

ShortestRun(inside) ==
  LET start == [pc |-> es.pc, cost |-> 1, own |-> Len(es.stack),
                stack |-> [n \in DOMAIN es.stack |-> [FirstFrame EXCEPT !.caller = es.stack[n].caller]]]
  IN  Least({s.cost : s \in {s \in Runs({start}, inside, Longest) : Sought(s, inside)}})

Distance == computeMinDistToUncovered(tables, es.pc, Last(es.stack).minDistToUncoveredOnReturn)
DistancesRight == structure = "distances" /\ fresh => Distance = ShortestRun(FALSE)

\* The same with what is not covered in a callee, which the code means to count
\* too ("calleeDist = 1+calleeDist; // count instruction itself").
\* DocCalleeDistance.cfg shows that it does not.
CalleesCount == structure = "distances" /\ fresh => Distance = ShortestRun(TRUE)
=============================================================================
