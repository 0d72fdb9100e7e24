------------------------------- MODULE PTree -------------------------------
(* The process tree (klee/lib/Core/PTree.cpp): a binary tree whose leaves     *)
(* carry the pointers of the ExecutionStates that are not yet deleted.        *)
(* A PTreeNode is named by its path from the root, a sequence of 0 (left) and *)
(* 1 (right); a tree is a function from the allocated nodes to node->state.   *)
(* Paths are sound names: a node gets its two children once, in attach, and a *)
(* child that was unlinked is never allocated again.                          *)
EXTENDS Naturals, Sequences

\* nullptr of node->state, and of every ExecutionState* in the other modules
Null == 0

Root == << >>
LeftOf(n) == Append(n, 0)
RightOf(n) == Append(n, 1)
PTreeNode == Seq({0, 1})

\* a is n or an ancestor of n: what walking node->parent from n passes
IsAbove(a, n) == Len(a) <= Len(n) /\ \A i \in 1..Len(a) : a[i] = n[i]

\* !node->left && !node->right
Childless(tree, n) == LeftOf(n) \notin DOMAIN tree /\ RightOf(n) \notin DOMAIN tree

\* PTree::PTree: the root holds the initial state
NewTree(s) == [n \in {Root} |-> s]

\* PTree::attach: n loses its state and gets two fresh leaves
attach(tree, n, leftState, rightState) ==
  [m \in DOMAIN tree \cup {LeftOf(n), RightOf(n)} |->
     CASE m = n          -> Null
       [] m = LeftOf(n)  -> leftState
       [] m = RightOf(n) -> rightState
       [] OTHER          -> tree[m]]

\* The nodes the do-while of PTree::remove unlinks: n, and each ancestor left
\* without children by that, which is one below which only ancestors of n are.
\* The root has no parent to be unlinked from and stays.
Unlinked(tree, n) ==
  {a \in DOMAIN tree \ {Root} :
     IsAbove(a, n) /\ \A m \in DOMAIN tree : IsAbove(a, m) => IsAbove(m, n)}

\* Mutant of remove: without the loop, only n itself is unlinked.
RemoveWithoutLoop(tree, n) == [m \in DOMAIN tree \ ({n} \ {Root}) |-> tree[m]]

\* PTree::remove
remove(tree, n) == [m \in DOMAIN tree \ Unlinked(tree, n) |-> tree[m]]

\* Where RandomPathSearcher's descent from the root can stop: at the first node
\* with a state on its way down, or (a null dereference) at a node with neither
\* a state nor a child
DescentEnds(tree) ==
  {n \in DOMAIN tree :
     /\ tree[n] # Null \/ Childless(tree, n)
     /\ \A m \in DOMAIN tree : IsAbove(m, n) /\ m # n => tree[m] = Null}

=============================================================================
