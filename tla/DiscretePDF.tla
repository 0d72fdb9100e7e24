----------------------------- MODULE DiscretePDF -----------------------------
(* The weighted set of the weighted random searchers                         *)
(* (include/klee/Internal/ADT/DiscretePDF.inc): a red-black tree in which     *)
(* every node keeps the sum of the weights below it, and choose descends by   *)
(* these sums.  t is the root and the nodes by address; 0 is the null         *)
(* pointer.                                                                    *)
EXTENDS Integers, FiniteSetsExt

CONSTANT MaxItems     \* bound: the items a tree can hold

ASSUME PDFAssumption == MaxItems \in Nat

NoNode == 0
EmptyTree == [root |-> NoNode, n |-> [x \in {} |-> 0]]

IsBlack(t, x) == x = NoNode \/ ~t.n[x].red
SumAt(t, x) == IF x = NoNode THEN 0 ELSE t.n[x].sum
Mark(t, x, color) == IF x = NoNode THEN t ELSE [t EXCEPT !.n[x].red = color]
setSum(t, x) ==
  [t EXCEPT !.n[x].sum = t.n[x].weight + SumAt(t, t.n[x].left) + SumAt(t, t.n[x].right)]

\* Mutant of propagateSumsUp: it stops below the root.
RECURSIVE PropagateBelowRoot(_, _)
PropagateBelowRoot(t, x) ==
  IF x = NoNode \/ t.n[x].parent = NoNode THEN t ELSE PropagateBelowRoot(setSum(t, x), t.n[x].parent)

RECURSIVE propagateSumsUp(_, _)
propagateSumsUp(t, x) ==
  IF x = NoNode THEN t ELSE propagateSumsUp(setSum(t, x), t.n[x].parent)

\* x, below its parent p, takes the place of p; mid is the child they exchange.
\* The sum of x is taken before that of p, and is right only once it is propagated
Turned(t, x, p, pp, onLeft, mid) ==
  LET turned == [t EXCEPT !.n[x] = IF onLeft THEN [@ EXCEPT !.parent = pp, !.right = p]
                                             ELSE [@ EXCEPT !.parent = pp, !.left = p],
                          !.n[p] = IF onLeft THEN [@ EXCEPT !.parent = x, !.left = mid]
                                             ELSE [@ EXCEPT !.parent = x, !.right = mid]]
  IN  setSum(setSum(IF mid = NoNode THEN turned ELSE [turned EXCEPT !.n[mid].parent = p], x), p)

\* the node above, or the tree, gets a new child in place of an old one
Relink(t, pp, old, new) ==
  IF pp = NoNode THEN [t EXCEPT !.root = new]
  ELSE IF old = t.n[pp].left THEN [t EXCEPT !.n[pp].left = new]
  ELSE [t EXCEPT !.n[pp].right = new]

rotate(t, x) ==
  LET p == t.n[x].parent
      pp == t.n[p].parent
      onLeft == x = t.n[p].left
  IN  Relink(Turned(t, x, p, pp, onLeft, IF onLeft THEN t.n[x].right ELSE t.n[x].left), pp, p, x)

SameDirection(t, x, p) ==
  \/ x = t.n[p].left /\ p = t.n[t.n[p].parent].left
  \/ x = t.n[p].right /\ p = t.n[t.n[p].parent].right

\* a red parent: the higher of the two becomes the black top of the others
Straighten(t, x, p, same) ==
  LET top == IF same THEN p ELSE x
  IN  Mark(rotate(IF same THEN t ELSE rotate(t, x), top), top, FALSE)

SplitBelow(t, x, p) ==
  IF IsBlack(t, p) THEN t
  ELSE Straighten(Mark(t, t.n[p].parent, TRUE), x, p, SameDirection(t, x, p))

split(t, x) ==
  LET p == t.n[x].parent
      black == Mark(Mark(t, t.n[x].left, FALSE), t.n[x].right, FALSE)
  IN  IF p = NoNode THEN black ELSE SplitBelow(Mark(black, x, TRUE), x, p)

\* the nodes on the way down are split; the parent of the new node is found
RECURSIVE Descend(_, _, _, _)
DescendFrom(t, x, item) ==
  Descend(t, x, IF item < t.n[x].key THEN t.n[x].left ELSE t.n[x].right, item)
Descend(t, p, x, item) ==
  IF x = NoNode THEN [t |-> t, p |-> p]
  ELSE DescendFrom(IF ~IsBlack(t, t.n[x].left) /\ ~IsBlack(t, t.n[x].right) THEN split(t, x) ELSE t, x, item)

\* a new node x below p
Link(t, p, x, item, w) ==
  LET new == [parent |-> p, left |-> NoNode, right |-> NoNode, key |-> item, weight |-> w,
              sum |-> 0, red |-> FALSE]
      grown == [t EXCEPT !.n = [y \in DOMAIN @ \cup {x} |-> IF y = x THEN new ELSE @[y]]]
  IN  IF p = NoNode THEN [grown EXCEPT !.root = x]
      ELSE split(IF item < t.n[p].key THEN [grown EXCEPT !.n[p].left = x]
                 ELSE [grown EXCEPT !.n[p].right = x], x)

LinkAt(at, x, item, w) == propagateSumsUp(Link(at.t, at.p, x, item, w), x)

insert(t, item, w) ==
  LinkAt(Descend(t, NoNode, t.root, item), Min((1 .. MaxItems) \ DOMAIN t.n), item, w)

RECURSIVE lookupNode(_, _, _)
lookupNode(t, x, item) ==
  IF x = NoNode \/ t.n[x].key = item THEN x
  ELSE lookupNode(t, IF item < t.n[x].key THEN t.n[x].left ELSE t.n[x].right, item)

Sibling(t, x) ==
  LET p == t.n[x].parent IN IF x = t.n[p].left THEN t.n[p].right ELSE t.n[p].left

\* the red child of the sibling on the far side, which top is or gets, goes up
Raise(t, x, top) ==
  LET colored == IF IsBlack(t, t.n[x].parent) THEN t ELSE Mark(t, top, TRUE)
  IN  Mark(Mark(colored, t.n[top].left, FALSE), t.n[top].right, FALSE)

RaiseFar(t, x, s, near, far) ==
  IF IsBlack(t, far) THEN Raise(rotate(Mark(Mark(rotate(t, near), s, TRUE), near, FALSE), near), x, near)
  ELSE Raise(rotate(t, s), x, s)

RECURSIVE lengthen(_, _)

LengthenBeside(t, x, p, s) ==
  IF s = NoNode THEN lengthen(t, p)
  ELSE IF IsBlack(t, t.n[s].left) /\ IsBlack(t, t.n[s].right)
  THEN IF IsBlack(t, p) THEN lengthen(Mark(t, s, TRUE), p) ELSE Mark(Mark(t, s, TRUE), p, FALSE)
  ELSE IF x = t.n[p].left THEN RaiseFar(t, x, s, t.n[s].left, t.n[s].right)
  ELSE RaiseFar(t, x, s, t.n[s].right, t.n[s].left)

\* the sibling is black
LengthenBlack(t, x, p) == LengthenBeside(t, x, p, Sibling(t, x))

lengthen(t, x) ==
  LET p == t.n[x].parent
      s == Sibling(t, x)
  IN  IF t.n[x].red THEN Mark(t, x, FALSE)
      ELSE IF p = NoNode THEN t
      ELSE LengthenBlack(IF IsBlack(t, s) THEN t ELSE rotate(Mark(Mark(t, p, TRUE), s, FALSE), s), x, p)

RECURSIVE RightEnd(_, _)
RightEnd(t, x) == IF t.n[x].right = NoNode THEN x ELSE RightEnd(t, t.n[x].right)

\* x, with at most one child, is unlinked
Unlink(t, x, child) ==
  LET p == t.n[x].parent
      unlinked == Relink(t, p, x, child)
      raised == IF child = NoNode THEN unlinked
                ELSE IF IsBlack(t, x) THEN lengthen([unlinked EXCEPT !.n[child].parent = p], child)
                ELSE [unlinked EXCEPT !.n[child].parent = p]
  IN  [propagateSumsUp(raised, p) EXCEPT !.n = [y \in DOMAIN @ \ {x} |-> @[y]]]

\* the item's node, or the one whose item takes its place, goes
RemoveNode(t, found, x) ==
  Unlink([t EXCEPT !.n[found].key = t.n[x].key, !.n[found].weight = t.n[x].weight],
         x, IF t.n[x].left # NoNode THEN t.n[x].left ELSE t.n[x].right)

RemoveFound(t, found) ==
  RemoveNode(t, found, IF t.n[found].left = NoNode THEN found ELSE RightEnd(t, t.n[found].left))

removeItem(t, item) == RemoveFound(t, lookupNode(t, t.root, item))

update(t, item, w) ==
  LET x == lookupNode(t, t.root, item)
  IN  propagateSumsUp([t EXCEPT !.n[x].weight = w], x)

\* choose(p), where w is the weight (weight_type) (sumWeights * p)
RECURSIVE chooseFrom(_, _, _)
chooseFrom(t, x, w) ==
  LET n == t.n[x]
      rest == w - SumAt(t, n.left)
  IN  IF n.left # NoNode /\ w < SumAt(t, n.left) THEN chooseFrom(t, n.left, w)
      ELSE IF rest < n.weight \/ n.right = NoNode THEN n.key
      ELSE chooseFrom(t, n.right, rest - n.weight)
====
