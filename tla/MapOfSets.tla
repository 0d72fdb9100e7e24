------------------------------ MODULE MapOfSets ------------------------------
(* The index of sets behind the counterexample cache                         *)
(* (include/klee/Internal/ADT/MapOfSets.h): a set is the path of its elements  *)
(* in increasing order through a tree of maps.                                 *)
EXTENDS Integers, Sequences, SequencesExt, FiniteSetsExt

NoChildren == [x \in {} |-> 0]
EmptyNode == [end |-> FALSE, value |-> 0, children |-> NoChildren]
NotFound == 0      \* the null pointer; values are not 0

Ascending(S) == SetToSortSeq(S, <)

RECURSIVE insertSet(_, _, _)
insertSet(n, path, value) ==
  IF path = << >> THEN [n EXCEPT !.end = TRUE, !.value = value]
  ELSE LET e == Head(path)
           kid == IF e \in DOMAIN n.children THEN n.children[e] ELSE EmptyNode
           new == insertSet(kid, Tail(path), value)
       IN  [n EXCEPT !.children = [x \in DOMAIN @ \cup {e} |-> IF x = e THEN new ELSE @[x]]]

RECURSIVE lookupSet(_, _)
lookupSet(n, path) ==
  IF path = << >> THEN IF n.end THEN n.value ELSE NotFound
  ELSE IF Head(path) \in DOMAIN n.children THEN lookupSet(n.children[Head(path)], Tail(path))
  ELSE NotFound

RECURSIVE findSubset(_, _, _)
RECURSIVE Walk(_, _, _, _)

\* Mutant of Walk: a child that had no match ends the walk.
WalkOnce(n, path, kids, P) ==
  IF path = << >> \/ kids = << >> THEN NotFound
  ELSE IF Head(path) < Head(kids) THEN Walk(n, Tail(path), kids, P)
  ELSE IF Head(path) = Head(kids) THEN findSubset(n.children[Head(kids)], Tail(path), P)
  ELSE Walk(n, path, Tail(kids), P)

\* the elements of the path and the children are passed in their common order
Walk(n, path, kids, P) ==
  IF path = << >> \/ kids = << >> THEN NotFound
  ELSE IF Head(path) < Head(kids) THEN Walk(n, Tail(path), kids, P)
  ELSE IF Head(path) = Head(kids)
  THEN LET res == findSubset(n.children[Head(kids)], Tail(path), P)
       IN  IF res # NotFound THEN res ELSE Walk(n, Tail(path), kids, P)
  ELSE Walk(n, path, Tail(kids), P)

\* a subset whose value the predicate P accepts
findSubset(n, path, P) ==
  IF n.end /\ n.value \in P THEN n.value
  ELSE Walk(n, path, Ascending(DOMAIN n.children), P)

\* the children are all tried with the whole path, then the one that is its head
RECURSIVE findSuperset(_, _, _)
findSuperset(n, path, P) ==
  LET kids == Ascending(DOMAIN n.children)
      tried == [i \in DOMAIN kids |-> findSuperset(n.children[kids[i]], path, P)]
      matched == IF path # << >> /\ Head(path) \in DOMAIN n.children
                 THEN <<findSuperset(n.children[Head(path)], Tail(path), P)>> ELSE << >>
      here == IF path = << >> /\ n.end /\ n.value \in P THEN <<n.value>> ELSE << >>
      hits == SelectSeq(here \o tried \o matched, LAMBDA v : v # NotFound)
  IN  IF hits = << >> THEN NotFound ELSE Head(hits)

\* subsets and supersets: all of them, with their values
RECURSIVE findSubsets(_, _, _)
findSubsets(n, accum, path) ==
  (IF n.end THEN <<[set |-> accum, value |-> n.value]>> ELSE << >>)
  \o FlattenSeq([i \in DOMAIN path |->
       IF path[i] \in DOMAIN n.children
       THEN findSubsets(n.children[path[i]], accum \cup {path[i]}, SubSeq(path, i + 1, Len(path)))
       ELSE << >>])

RECURSIVE findSupersets(_, _, _)
findSupersets(n, accum, path) ==
  LET kids == Ascending({k \in DOMAIN n.children : path = << >> \/ k <= Head(path)})
      rest(k) == IF path # << >> /\ k = Head(path) THEN Tail(path) ELSE path
  IN  (IF path = << >> /\ n.end THEN <<[set |-> accum, value |-> n.value]>> ELSE << >>)
      \o FlattenSeq([i \in DOMAIN kids |->
           findSupersets(n.children[kids[i]], accum \cup {kids[i]}, rest(kids[i]))])

(***************************************************************************)
(* The iterator: the keys on the way to the current node, and whether it    *)
(* stands on an entry; the end is the empty path off an entry              *)
(***************************************************************************)

RECURSIVE NodeAt(_, _)
NodeAt(n, stack) == IF stack = << >> THEN n ELSE NodeAt(n.children[Head(stack)], Tail(stack))

AtEnd == [onEntry |-> FALSE, stack |-> << >>]

\* down the first children to the first entry below; a childless node ends the walk
RECURSIVE FirstBelow(_, _)
FirstBelow(root, stack) ==
  LET n == NodeAt(root, stack)
  IN  IF n.children = NoChildren THEN [onEntry |-> FALSE, stack |-> stack]
      ELSE LET down == Append(stack, Min(DOMAIN n.children))
           IN  IF NodeAt(root, down).end THEN [onEntry |-> TRUE, stack |-> down]
               ELSE FirstBelow(root, down)

\* on to the next sibling of the last key that has one, and there to its first entry
RECURSIVE NextBeside(_, _)
NextBeside(root, stack) ==
  IF stack = << >> THEN AtEnd
  ELSE LET later == {k \in DOMAIN NodeAt(root, Front(stack)).children : k > Last(stack)}
           next == Append(Front(stack), Min(later))
       IN  IF later = {} THEN NextBeside(root, Front(stack))
           ELSE IF NodeAt(root, next).end THEN [onEntry |-> TRUE, stack |-> next]
           ELSE FirstBelow(root, next)

step(root, it) ==
  LET below == IF it.onEntry THEN FirstBelow(root, it.stack) ELSE it
  IN  IF below.onEntry THEN below ELSE NextBeside(root, below.stack)

begin(root) ==
  IF root.end THEN [onEntry |-> TRUE, stack |-> << >>] ELSE step(root, [onEntry |-> TRUE, stack |-> << >>])
====
