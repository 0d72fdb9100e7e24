---------------------------- MODULE ImmutableTree ----------------------------
(* The persistent balanced tree behind AddressSpace::objects                 *)
(* (include/klee/Internal/ADT/ImmutableTree.h).  A tree that is changed        *)
(* shares the nodes it did not change with its older versions; a node lives    *)
(* while references to it are counted.  Operations take the heap, a function   *)
(* from the addresses in use to nodes, and return the new one.                 *)
EXTENDS Naturals, Sequences, SequencesExt, FiniteSetsExt

CONSTANT MaxNodes     \* bound: the nodes of all trees together

ASSUME TreeAssumption == MaxNodes \in Nat

Terminator == 0
Address == 1 .. MaxNodes

Height(h, n) == IF n = Terminator THEN 0 ELSE h[n].height

\* new Node(l, r, v): it takes over the references to l and r
NewNode(h, l, r, v) ==
  LET a == Min(Address \ DOMAIN h)
      top == IF Height(h, l) > Height(h, r) THEN Height(h, l) ELSE Height(h, r)
      new == [left |-> l, right |-> r, value |-> v, height |-> top + 1, references |-> 1]
  IN  [h |-> [x \in DOMAIN h \cup {a} |-> IF x = a THEN new ELSE h[x]], n |-> a]

incref(h, n) == IF n = Terminator THEN h ELSE [h EXCEPT ![n].references = @ + 1]

RECURSIVE decref(_, _)
decref(h, n) ==
  IF n = Terminator THEN h
  ELSE IF h[n].references > 1 THEN [h EXCEPT ![n].references = @ - 1]
  ELSE decref(decref([x \in DOMAIN h \ {n} |-> h[x]], h[n].left), h[n].right)

\* Mutant of RotateRight: the node that was taken apart is not released.
RotateRightLeaks(h, l, v, r) ==
  LET nlr == NewNode(incref(h, h[l].right), h[l].right, r, v)
  IN  NewNode(incref(nlr.h, h[l].left), h[l].left, nlr.n, h[l].value)

\* the left side is too high, and its own left side at least as high as its right
RotateRight(h, l, v, r) ==
  LET nlr == NewNode(incref(h, h[l].right), h[l].right, r, v)
      res == NewNode(incref(nlr.h, h[l].left), h[l].left, nlr.n, h[l].value)
  IN  [h |-> decref(res.h, l), n |-> res.n]

RotateLeftRight(h, l, v, r) ==
  LET lr == h[l].right
      nll == NewNode(incref(incref(h, h[l].left), h[lr].left), h[l].left, h[lr].left, h[l].value)
      nlr == NewNode(incref(nll.h, h[lr].right), h[lr].right, r, v)
      res == NewNode(nlr.h, nll.n, nlr.n, h[lr].value)
  IN  [h |-> decref(res.h, l), n |-> res.n]

RotateLeft(h, l, v, r) ==
  LET nrl == NewNode(incref(h, h[r].left), l, h[r].left, v)
      res == NewNode(incref(nrl.h, h[r].right), nrl.n, h[r].right, h[r].value)
  IN  [h |-> decref(res.h, r), n |-> res.n]

RotateRightLeft(h, l, v, r) ==
  LET rl == h[r].left
      nrl == NewNode(incref(h, h[rl].left), l, h[rl].left, v)
      nrr == NewNode(incref(incref(nrl.h, h[rl].right), h[r].right), h[rl].right, h[r].right, h[r].value)
      res == NewNode(nrr.h, nrl.n, nrr.n, h[rl].value)
  IN  [h |-> decref(res.h, r), n |-> res.n]

\* a node of l, v and r, whose heights may differ by more than the two allowed
balance(h, l, v, r) ==
  IF Height(h, l) > Height(h, r) + 2
  THEN IF Height(h, h[l].left) >= Height(h, h[l].right)
       THEN RotateRight(h, l, v, r) ELSE RotateLeftRight(h, l, v, r)
  ELSE IF Height(h, r) > Height(h, l) + 2
  THEN IF Height(h, h[r].right) >= Height(h, h[r].left)
       THEN RotateLeft(h, l, v, r) ELSE RotateRightLeft(h, l, v, r)
  ELSE NewNode(h, l, r, v)

\* the node rebuilt around a new left or right side
WithLeft(h, n, new) == balance(incref(new.h, h[n].right), new.n, h[n].value, h[n].right)
WithRight(h, n, new) == balance(incref(new.h, h[n].left), h[n].left, h[n].value, new.n)

Same(h, n) == [h |-> incref(h, n), n |-> n]

RECURSIVE popMin(_, _)
popMin(h, n) ==
  IF h[n].left = Terminator THEN [h |-> incref(h, h[n].right), n |-> h[n].right, out |-> h[n].value]
  ELSE LET rest == popMin(h, h[n].left)  res == WithLeft(h, n, rest)
       IN  [h |-> res.h, n |-> res.n, out |-> rest.out]

RECURSIVE popMax(_, _)
popMax(h, n) ==
  IF h[n].right = Terminator THEN [h |-> incref(h, h[n].left), n |-> h[n].left, out |-> h[n].value]
  ELSE LET rest == popMax(h, h[n].right)  res == WithRight(h, n, rest)
       IN  [h |-> res.h, n |-> res.n, out |-> rest.out]

\* insert keeps a value whose key is there, replace does not
RECURSIVE put(_, _, _, _)
put(h, n, v, replace) ==
  IF n = Terminator THEN NewNode(h, Terminator, Terminator, v)
  ELSE IF v.k < h[n].value.k THEN WithLeft(h, n, put(h, h[n].left, v, replace))
  ELSE IF h[n].value.k < v.k THEN WithRight(h, n, put(h, h[n].right, v, replace))
  ELSE IF replace THEN NewNode(incref(incref(h, h[n].left), h[n].right), h[n].left, h[n].right, v)
  ELSE Same(h, n)

RECURSIVE remove(_, _, _)
remove(h, n, k) ==
  IF n = Terminator THEN Same(h, n)
  ELSE IF k < h[n].value.k THEN WithLeft(h, n, remove(h, h[n].left, k))
  ELSE IF h[n].value.k < k THEN WithRight(h, n, remove(h, h[n].right, k))
  ELSE IF h[n].left = Terminator THEN Same(h, h[n].right)
  ELSE IF h[n].right = Terminator THEN Same(h, h[n].left)
  ELSE LET nr == popMin(h, h[n].right)
       IN  balance(incref(nr.h, h[n].left), h[n].left, nr.out, nr.n)

(***************************************************************************)
(* Lookups; Nothing where the code returns null                            *)
(***************************************************************************)

Nothing == [k |-> 0, v |-> 0]

RECURSIVE lookup(_, _, _)
lookup(h, n, k) ==
  IF n = Terminator THEN Nothing
  ELSE IF k < h[n].value.k THEN lookup(h, h[n].left, k)
  ELSE IF h[n].value.k < k THEN lookup(h, h[n].right, k)
  ELSE h[n].value

RECURSIVE lookupPrevious(_, _, _, _)
lookupPrevious(h, n, k, result) ==
  IF n = Terminator THEN result
  ELSE IF k < h[n].value.k THEN lookupPrevious(h, h[n].left, k, result)
  ELSE IF h[n].value.k < k THEN lookupPrevious(h, h[n].right, k, h[n].value)
  ELSE h[n].value

(***************************************************************************)
(* Iterators: the path from the root to the current node                   *)
(***************************************************************************)

RECURSIVE Leftmost(_, _)
Leftmost(h, n) == IF n = Terminator THEN << >> ELSE <<n>> \o Leftmost(h, h[n].left)
RECURSIVE Rightmost(_, _)
Rightmost(h, n) == IF n = Terminator THEN << >> ELSE <<n>> \o Rightmost(h, h[n].right)

\* the path without the nodes whose right (left) side was just left
RECURSIVE LeaveRight(_, _)
LeaveRight(h, stack) ==
  LET up == Front(stack)
  IN  IF up = << >> \/ h[Last(up)].left = Last(stack) THEN up ELSE LeaveRight(h, up)
RECURSIVE LeaveLeft(_, _)
LeaveLeft(h, stack) ==
  LET up == Front(stack)
  IN  IF up = << >> \/ h[Last(up)].right = Last(stack) THEN up ELSE LeaveLeft(h, up)

increment(h, stack) ==
  LET n == Last(stack)
  IN  IF h[n].right = Terminator THEN LeaveRight(h, stack)
      ELSE stack \o Leftmost(h, h[n].right)

decrement(h, root, stack) ==
  IF stack = << >> THEN Rightmost(h, root)
  ELSE LET n == Last(stack)
       IN  IF h[n].left = Terminator THEN LeaveLeft(h, stack)
           ELSE stack \o Rightmost(h, h[n].left)

RECURSIVE SearchPath(_, _, _)
SearchPath(h, n, k) ==
  IF n = Terminator THEN << >>
  ELSE <<n>> \o (IF k < h[n].value.k THEN SearchPath(h, h[n].left, k)
                 ELSE IF h[n].value.k < k THEN SearchPath(h, h[n].right, k)
                 ELSE << >>)

lowerBound(h, root, k) ==
  LET path == SearchPath(h, root, k)
  IN  IF path # << >> /\ h[Last(path)].value.k < k THEN increment(h, path) ELSE path

upperBound(h, root, k) ==
  LET it == lowerBound(h, root, k)
  IN  IF it # << >> /\ ~(k < h[Last(it)].value.k) THEN increment(h, it) ELSE it
====
