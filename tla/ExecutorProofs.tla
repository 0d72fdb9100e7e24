--------------------------- MODULE ExecutorProofs ---------------------------
(* Safety of the state life cycle for every value of the constants.  The      *)
(* containers are treated first: ContainersInv is kept by each operation on   *)
(* them (Split, Delete, terminateState, fork, ...).  The steps of the loop    *)
(* then only have to keep the locals of the handlers and the searcher in      *)
(* step with the containers.                                                  *)
EXTENDS Executor, TLAPS

(***************************************************************************)
(* The process tree: what PTree::attach and PTree::remove do to its shape  *)
(***************************************************************************)


\* A tree with a root, in which the parent chain of every node is allocated
WellFormed(tree) ==
  /\ DOMAIN tree \subseteq PTreeNode
  /\ Root \in DOMAIN tree
  /\ \A n \in DOMAIN tree, a \in PTreeNode : IsAbove(a, n) => a \in DOMAIN tree

\* exactly the leaves carry a state
LeavesCarryStates(tree) ==
  \A n \in DOMAIN tree : tree[n] # Null <=> Childless(tree, n)

\* from every node some state can be reached
ReachesState(tree) ==
  \A n \in DOMAIN tree : \E m \in DOMAIN tree : IsAbove(n, m) /\ tree[m] # Null

\* The children of a node are nodes.
LEMMA ChildType ==
  \A n \in PTreeNode : /\ LeftOf(n) \in PTreeNode /\ RightOf(n) \in PTreeNode
                       /\ LeftOf(n) # RightOf(n) /\ LeftOf(n) # n /\ RightOf(n) # n
                       /\ LeftOf(n) # Root /\ RightOf(n) # Root
<1> TAKE n \in PTreeNode
<1>1. LeftOf(n) \in PTreeNode /\ RightOf(n) \in PTreeNode
  BY DEF PTreeNode, LeftOf, RightOf
<1>2. Len(LeftOf(n)) = Len(n) + 1 /\ Len(RightOf(n)) = Len(n) + 1 /\ Len(n) \in Nat
  BY DEF PTreeNode, LeftOf, RightOf
<1>3. LeftOf(n)[Len(n) + 1] = 0 /\ RightOf(n)[Len(n) + 1] = 1
  BY DEF PTreeNode, LeftOf, RightOf
<1>4. Len(Root) = 0
  BY DEF Root
<1> QED BY <1>1, <1>2, <1>3, <1>4

\* Two nodes have a common child only if they are the same node.
LEMMA ParentUnique ==
  ASSUME NEW m \in PTreeNode, NEW n \in PTreeNode,
         \/ LeftOf(m) = LeftOf(n) \/ LeftOf(m) = RightOf(n)
         \/ RightOf(m) = LeftOf(n) \/ RightOf(m) = RightOf(n)
  PROVE  m = n
<1>1. /\ Len(m) = Len(n) /\ Len(m) \in Nat /\ Len(n) \in Nat
      /\ \A i \in 1..Len(m) : m[i] = n[i]
  BY DEF PTreeNode, LeftOf, RightOf
<1>2. m \in Seq({0, 1}) /\ n \in Seq({0, 1})
  BY DEF PTreeNode
<1> QED BY <1>1, <1>2

\* A node is above itself.
LEMMA AboveRefl == \A n \in PTreeNode : IsAbove(n, n)
  BY DEF IsAbove, PTreeNode

\* Being above is transitive: the walk along node->parent passes ancestors of
\* ancestors.
LEMMA AboveTrans ==
  ASSUME NEW a \in PTreeNode, NEW b \in PTreeNode, NEW c \in PTreeNode,
         IsAbove(a, b), IsAbove(b, c)
  PROVE  IsAbove(a, c)
  BY DEF IsAbove, PTreeNode

\* What is above a child is the child, or above its parent.
LEMMA AboveChild ==
  ASSUME NEW a \in PTreeNode, NEW n \in PTreeNode, NEW c \in {LeftOf(n), RightOf(n)}
  PROVE  IsAbove(a, c) => a = c \/ IsAbove(a, n)
<1> SUFFICES ASSUME IsAbove(a, c), ~IsAbove(a, n)
             PROVE  a = c
  OBVIOUS
<1>1. c \in Seq({0, 1}) /\ Len(c) = Len(n) + 1 /\ \A i \in 1..Len(n) : c[i] = n[i]
  BY SMTT(30) DEF LeftOf, RightOf, PTreeNode
<1>2. Len(a) \in Nat /\ Len(n) \in Nat /\ a \in Seq({0, 1})
  BY DEF PTreeNode
<1>3. Len(a) = Len(c)
  BY <1>1, <1>2 DEF IsAbove
<1> QED BY <1>1, <1>2, <1>3 DEF IsAbove

\* A parent is above its children.
LEMMA AboveOwnChild == \A n \in PTreeNode : IsAbove(n, LeftOf(n)) /\ IsAbove(n, RightOf(n))
  BY DEF IsAbove, LeftOf, RightOf, PTreeNode

\* The way down from a node to one strictly below it starts with a child.
LEMMA AboveVia ==
  ASSUME NEW a \in PTreeNode, NEW n \in PTreeNode, IsAbove(a, n), a # n
  PROVE  IsAbove(LeftOf(a), n) \/ IsAbove(RightOf(a), n)
<1>1. a \in Seq({0, 1}) /\ n \in Seq({0, 1}) /\ Len(a) \in Nat /\ Len(n) \in Nat
  BY DEF PTreeNode
<1>2. Len(a) < Len(n)
  BY <1>1 DEF IsAbove
<1>3. n[Len(a) + 1] \in {0, 1}
  BY <1>1, <1>2
<1>4. CASE n[Len(a) + 1] = 0
  BY <1>1, <1>2, <1>4 DEF IsAbove, LeftOf
<1>5. CASE n[Len(a) + 1] = 1
  BY <1>1, <1>2, <1>5 DEF IsAbove, RightOf
<1> QED BY <1>3, <1>4, <1>5

\* A childless node of a well-formed tree has no other node below it.
LEMMA NothingBelowLeaf ==
  ASSUME NEW tree, WellFormed(tree), NEW n \in DOMAIN tree, Childless(tree, n),
         NEW m \in DOMAIN tree, IsAbove(n, m)
  PROVE  m = n
<1> SUFFICES ASSUME m # n PROVE FALSE
  OBVIOUS
<1>1. n \in PTreeNode /\ m \in PTreeNode
  BY DEF WellFormed
<1>2. IsAbove(LeftOf(n), m) \/ IsAbove(RightOf(n), m)
  BY <1>1, AboveVia
<1> QED BY <1>1, <1>2, ChildType DEF WellFormed, Childless

\* attach at a leaf keeps the tree well formed, and its leaves the nodes that
\* carry a state.
LEMMA AttachShape ==
  ASSUME NEW tree, WellFormed(tree), LeavesCarryStates(tree),
         NEW n \in DOMAIN tree, Childless(tree, n), NEW l, NEW r, l # Null, r # Null
  PROVE  /\ WellFormed(attach(tree, n, l, r))
         /\ LeavesCarryStates(attach(tree, n, l, r))
<1> DEFINE t == attach(tree, n, l, r)
<1>1. n \in PTreeNode /\ DOMAIN tree \subseteq PTreeNode
  BY DEF WellFormed
<1>2. /\ DOMAIN t = DOMAIN tree \cup {LeftOf(n), RightOf(n)}
      /\ t[n] = Null /\ t[LeftOf(n)] = l /\ t[RightOf(n)] = r
      /\ \A m \in DOMAIN tree \ {n, LeftOf(n), RightOf(n)} : t[m] = tree[m]
  <2>1. DOMAIN t = DOMAIN tree \cup {LeftOf(n), RightOf(n)}
    BY DEF attach
  <2>2. LeftOf(n) # RightOf(n) /\ LeftOf(n) # n /\ RightOf(n) # n
    BY <1>1, ChildType
  <2> QED BY <2>1, <2>2 DEF attach
<1> HIDE DEF t
<1>3. WellFormed(t)
  <2>1. DOMAIN t \subseteq PTreeNode
    BY <1>1, <1>2, ChildType
  <2>2. ASSUME NEW m \in DOMAIN t, NEW a \in PTreeNode, IsAbove(a, m)
        PROVE  a \in DOMAIN t
    <3>1. CASE m \in DOMAIN tree
      BY <1>2, <2>2, <3>1 DEF WellFormed
    <3>2. CASE m \in {LeftOf(n), RightOf(n)}
      <4>1. a = m \/ IsAbove(a, n)
        BY <1>1, <2>2, <3>2, AboveChild
      <4> QED BY <1>2, <2>2, <4>1 DEF WellFormed
    <3> QED BY <1>2, <3>1, <3>2
  <2> QED BY <1>2, <2>1, <2>2 DEF WellFormed
<1>4. ASSUME NEW m \in DOMAIN t
      PROVE  t[m] # Null <=> Childless(t, m)
  <2>1. CASE m = n
    BY <1>2, <2>1 DEF Childless
  <2>2. CASE m \in {LeftOf(n), RightOf(n)}
    <3>1. m \in PTreeNode /\ m \notin DOMAIN tree
      BY <1>1, <2>2, ChildType DEF Childless
    <3>2. ASSUME NEW c \in {LeftOf(m), RightOf(m)}, c \in DOMAIN t
          PROVE  FALSE
      <4>1. c \in PTreeNode /\ IsAbove(m, c)
        BY <3>1, ChildType, AboveOwnChild
      <4>2. c \notin DOMAIN tree
        BY <3>1, <4>1 DEF WellFormed
      <4>3. c \in {LeftOf(n), RightOf(n)}
        BY <1>2, <3>2, <4>2
      <4>4. m = n
        BY <1>1, <3>1, <4>3, ParentUnique
      <4> QED BY <1>1, <2>2, <4>4, ChildType
    <3>3. Childless(t, m)
      BY <3>2 DEF Childless
    <3> QED BY <1>2, <2>2, <3>3
  <2>3. CASE m \in DOMAIN tree /\ m # n /\ m \notin {LeftOf(n), RightOf(n)}
    <3>1. m \in PTreeNode
      BY <1>1, <2>3
    <3>2. Childless(t, m) <=> Childless(tree, m)
      <4>1. LeftOf(m) \notin {LeftOf(n), RightOf(n)} /\ RightOf(m) \notin {LeftOf(n), RightOf(n)}
        BY <1>1, <2>3, <3>1, ParentUnique
      <4> QED BY <1>2, <4>1 DEF Childless
    <3> QED BY <1>2, <2>3, <3>2 DEF LeavesCarryStates
  <2> QED BY <1>2, <2>1, <2>2, <2>3
<1> QED BY <1>3, <1>4 DEF LeavesCarryStates, t

\* remove unlinks a childless node that is not the root, and no node with a
\* state other than it.
LEMMA RemoveFacts ==
  ASSUME NEW tree, WellFormed(tree), NEW n \in DOMAIN tree, Childless(tree, n)
  PROVE  /\ n # Root => n \in Unlinked(tree, n)
         /\ \A m \in Unlinked(tree, n) : Childless(tree, m) => m = n
         /\ DOMAIN remove(tree, n) = DOMAIN tree \ Unlinked(tree, n)
         /\ \A m \in DOMAIN tree \ Unlinked(tree, n) : remove(tree, n)[m] = tree[m]
<1>1. n \in PTreeNode /\ DOMAIN tree \subseteq PTreeNode
  BY DEF WellFormed
<1>2. ASSUME n # Root
      PROVE  n \in Unlinked(tree, n)
  <2>1. \A m \in DOMAIN tree : IsAbove(n, m) => IsAbove(m, n)
    BY <1>1, NothingBelowLeaf, AboveRefl
  <2> QED BY <1>1, <1>2, <2>1, AboveRefl DEF Unlinked
<1>3. ASSUME NEW m \in Unlinked(tree, n), Childless(tree, m)
      PROVE  m = n
  <2>1. m \in DOMAIN tree /\ IsAbove(m, n)
    BY DEF Unlinked
  <2> QED BY <1>3, <2>1, NothingBelowLeaf
<1> QED BY <1>2, <1>3 DEF remove

\* remove keeps the parent chain of every remaining node.
LEMMA RemoveWellFormed ==
  ASSUME NEW tree, WellFormed(tree), NEW n \in DOMAIN tree
  PROVE  WellFormed(remove(tree, n))
<1> DEFINE t == remove(tree, n)
<1>1. DOMAIN t = DOMAIN tree \ Unlinked(tree, n)
  BY DEF remove
<1>2. DOMAIN t \subseteq PTreeNode /\ Root \in DOMAIN t
  BY <1>1 DEF WellFormed, Unlinked
<1>3. ASSUME NEW m \in DOMAIN t, NEW a \in PTreeNode, IsAbove(a, m), a \notin DOMAIN t
      PROVE  FALSE
  <2>1. a \in Unlinked(tree, n) /\ m \in DOMAIN tree /\ m \notin Unlinked(tree, n)
    BY <1>1, <1>3 DEF WellFormed
  <2>2. a # Root /\ \A k \in DOMAIN tree : IsAbove(a, k) => IsAbove(k, n)
    BY <2>1 DEF Unlinked
  <2>3. m # Root
    <3>1. Len(Root) = 0 /\ Root \in Seq({0, 1})
      BY DEF Root
    <3>2. m = Root => Len(a) = 0
      BY <1>3, <3>1 DEF IsAbove, PTreeNode
    <3>3. Len(a) = 0 => a = Root
      BY <3>1 DEF PTreeNode, Root
    <3> QED BY <2>2, <3>2, <3>3
  <2>4. ASSUME NEW k \in DOMAIN tree, IsAbove(m, k)
        PROVE  IsAbove(k, n)
    <3>1. IsAbove(a, k)
      BY <1>2, <1>3, <2>4, AboveTrans DEF WellFormed
    <3> QED BY <2>2, <3>1
  <2>5. IsAbove(m, n)
    BY <1>3, <2>1, <2>2
  <2> QED BY <2>1, <2>3, <2>4, <2>5 DEF Unlinked
<1> QED BY <1>2, <1>3 DEF WellFormed

\* As long as another leaf is left, remove keeps the leaves the nodes that
\* carry a state: no inner node loses its last child and stays.
LEMMA RemoveLeaves ==
  ASSUME NEW tree, WellFormed(tree), LeavesCarryStates(tree),
         NEW n \in DOMAIN tree, Childless(tree, n),
         NEW o \in DOMAIN tree, Childless(tree, o), o # n
  PROVE  LeavesCarryStates(remove(tree, n))
<1> DEFINE t == remove(tree, n)
<1>1. /\ DOMAIN t = DOMAIN tree \ Unlinked(tree, n)
      /\ \A m \in DOMAIN t : t[m] = tree[m]
  BY DEF remove
<1> HIDE DEF t
<1>2. DOMAIN tree \subseteq PTreeNode
  BY DEF WellFormed
<1>3. ASSUME NEW m \in DOMAIN t
      PROVE  t[m] # Null <=> Childless(t, m)
  <2>1. CASE tree[m] # Null
    <3>1. Childless(tree, m)
      BY <1>1, <2>1 DEF LeavesCarryStates
    <3> QED BY <1>1, <2>1, <3>1 DEF Childless
  <2>2. CASE tree[m] = Null
    <3>1. ~Childless(tree, m) /\ m \in PTreeNode
      BY <1>1, <1>2, <2>2 DEF LeavesCarryStates
    <3>2. PICK c \in {LeftOf(m), RightOf(m)} : c \in DOMAIN tree
      BY <3>1 DEF Childless
    <3>3. CASE c \notin Unlinked(tree, n)
      BY <1>1, <2>2, <3>2, <3>3 DEF Childless
    <3>4. CASE c \in Unlinked(tree, n)
      <4>1. IsAbove(m, n)
        BY <1>2, <3>1, <3>2, <3>4, AboveOwnChild, AboveTrans DEF Unlinked
      <4>2. PICK k \in DOMAIN tree : IsAbove(m, k) /\ ~IsAbove(k, n)
        <5>1. CASE m # Root
          BY <1>1, <4>1, <5>1 DEF Unlinked
        <5>2. CASE m = Root
          <6>1. IsAbove(m, o)
            <7>1. Len(m) = 0 /\ Len(o) \in Nat
              BY <1>2, <5>2 DEF Root, PTreeNode
            <7> QED BY <7>1 DEF IsAbove
          <6>2. ~IsAbove(o, n)
            BY NothingBelowLeaf
          <6> QED BY <6>1, <6>2
        <5> QED BY <5>1, <5>2
      <4>3. PICK e \in {LeftOf(m), RightOf(m)} : IsAbove(e, k)
        BY <1>2, <3>1, <4>1, <4>2, AboveVia
      <4>4. e \in DOMAIN tree
        BY <3>1, <4>3, ChildType DEF WellFormed
      <4>5. e \notin Unlinked(tree, n)
        BY <4>2, <4>3 DEF Unlinked
      <4> QED BY <1>1, <2>2, <4>4, <4>5 DEF Childless
    <3> QED BY <3>3, <3>4
  <2> QED BY <2>1, <2>2
<1> QED BY <1>3 DEF LeavesCarryStates, t


\* From every node a state can still be reached after attach.
LEMMA AttachReaches ==
  ASSUME NEW tree, WellFormed(tree), ReachesState(tree), NEW n \in DOMAIN tree,
         Childless(tree, n), NEW l, NEW r, l # Null, r # Null
  PROVE  ReachesState(attach(tree, n, l, r))
<1> DEFINE t == attach(tree, n, l, r)
<1>1. DOMAIN tree \subseteq PTreeNode /\ n \in PTreeNode
  BY DEF WellFormed
<1>2. /\ DOMAIN t = DOMAIN tree \cup {LeftOf(n), RightOf(n)}
      /\ t[LeftOf(n)] = l /\ t[RightOf(n)] = r
      /\ \A m \in DOMAIN tree \ {n, LeftOf(n), RightOf(n)} : t[m] = tree[m]
  <2>1. DOMAIN t = DOMAIN tree \cup {LeftOf(n), RightOf(n)}
    BY DEF attach
  <2>2. LeftOf(n) # RightOf(n) /\ LeftOf(n) # n /\ RightOf(n) # n
    BY <1>1, ChildType
  <2> QED BY <2>1, <2>2 DEF attach
<1> HIDE DEF t
<1>3. ASSUME NEW a \in DOMAIN t
      PROVE  \E m \in DOMAIN t : IsAbove(a, m) /\ t[m] # Null
  <2>1. CASE a \in {LeftOf(n), RightOf(n)}
    <3>1. IsAbove(a, a)
      BY <1>1, <2>1, AboveRefl, ChildType
    <3> QED BY <1>2, <2>1, <3>1
  <2>2. CASE a \in DOMAIN tree
    <3>1. PICK m \in DOMAIN tree : IsAbove(a, m) /\ tree[m] # Null
      BY <2>2 DEF ReachesState
    <3>2. CASE m = n
      <4>1. IsAbove(a, LeftOf(n))
        BY <1>1, <2>2, <3>1, <3>2, AboveOwnChild, AboveTrans, ChildType
      <4> QED BY <1>2, <4>1
    <3>3. CASE m # n
      <4>1. m \notin {LeftOf(n), RightOf(n)}
        BY DEF Childless
      <4> QED BY <1>2, <3>1, <3>3, <4>1
    <3> QED BY <3>2, <3>3
  <2> QED BY <1>2, <2>1, <2>2
<1> QED BY <1>3 DEF ReachesState, t

\* As long as another leaf with a state is left, a state can still be reached from
\* every node after remove.
LEMMA RemoveReaches ==
  ASSUME NEW tree, WellFormed(tree), ReachesState(tree), NEW n \in DOMAIN tree,
         Childless(tree, n), NEW o \in DOMAIN tree, tree[o] # Null, o \notin Unlinked(tree, n)
  PROVE  ReachesState(remove(tree, n))
<1> DEFINE t == remove(tree, n)
<1>1. /\ DOMAIN t = DOMAIN tree \ Unlinked(tree, n)
      /\ \A m \in DOMAIN t : t[m] = tree[m]
  BY DEF remove
<1> HIDE DEF t
<1>2. DOMAIN tree \subseteq PTreeNode
  BY DEF WellFormed
<1>3. ASSUME NEW k \in DOMAIN tree, ~IsAbove(k, n)
      PROVE  \E m \in DOMAIN t : IsAbove(k, m) /\ t[m] # Null
  <2>1. PICK m \in DOMAIN tree : IsAbove(k, m) /\ tree[m] # Null
    BY DEF ReachesState
  <2>2. ~IsAbove(m, n)
    BY <1>2, <1>3, <2>1, AboveTrans
  <2>3. m \notin Unlinked(tree, n)
    BY <2>2 DEF Unlinked
  <2> QED BY <1>1, <2>1, <2>3
<1>4. ASSUME NEW a \in DOMAIN t
      PROVE  \E m \in DOMAIN t : IsAbove(a, m) /\ t[m] # Null
  <2>1. CASE ~IsAbove(a, n)
    BY <1>1, <1>3, <2>1
  <2>2. CASE IsAbove(a, n) /\ a # Root
    <3>1. PICK k \in DOMAIN tree : IsAbove(a, k) /\ ~IsAbove(k, n)
      BY <1>1, <2>2 DEF Unlinked
    <3>2. PICK m \in DOMAIN t : IsAbove(k, m) /\ t[m] # Null
      BY <1>3, <3>1
    <3>3. IsAbove(a, m)
      BY <1>1, <1>2, <3>1, <3>2, AboveTrans
    <3> QED BY <3>2, <3>3
  <2>3. CASE a = Root
    <3>1. IsAbove(a, o)
      <4>1. Len(a) = 0 /\ Len(o) \in Nat
        BY <1>2, <2>3 DEF Root, PTreeNode
      <4> QED BY <4>1 DEF IsAbove
    <3> QED BY <1>1, <3>1
  <2> QED BY <2>1, <2>2, <2>3
<1> QED BY <1>4 DEF ReachesState, t

\* Removing the only node with a state leaves the root alone.
LEMMA RemoveLast ==
  ASSUME NEW tree, WellFormed(tree), ReachesState(tree), NEW n \in DOMAIN tree,
         \A m \in DOMAIN tree : tree[m] # Null => m = n
  PROVE  DOMAIN remove(tree, n) = {Root}
<1>1. \A m \in DOMAIN tree : IsAbove(m, n)
  BY DEF ReachesState
<1>2. Unlinked(tree, n) = DOMAIN tree \ {Root}
  BY <1>1 DEF Unlinked
<1>3. Root \in DOMAIN tree
  BY DEF WellFormed
<1> QED BY <1>2, <1>3 DEF remove

(***************************************************************************)
(* The containers                                                          *)
(***************************************************************************)


\* The process tree: leaves and live states are in bijection, no node is left over
\* without a state below it, and only the root is left after the last state.
TreeInv(x) ==
  /\ WellFormed(x.tree)
  /\ \A s \in Live(x) : x.node[s] \in DOMAIN x.tree /\ x.tree[x.node[s]] = s
  /\ Live(x) # {} =>
       /\ LeavesCarryStates(x.tree)
       /\ \A n \in DOMAIN x.tree :
            x.tree[n] # Null => x.tree[n] \in Live(x) /\ x.node[x.tree[n]] = n
       /\ ReachesState(x.tree)
  /\ Live(x) = {} => DOMAIN x.tree = {Root}

\* The containers agree with each other.  Every operation on them keeps this.
ContainersInv(x) ==
  /\ ExecType(x)
  /\ Accounted(x)
  /\ RangeOf(x.removed) \subseteq x.states \cup x.freed
  /\ x.feature \subseteq Live(x)
  /\ \A s \in State : x.seeds[s] # {} => s \in Live(x)
  /\ SeedsDisjoint(x)
  /\ TreeInv(x)

\* The locals l of a handler at p name distinct states that are not deleted, in
\* the form each loop relies on; between instructions there are none.
LocalsOK(p, x, l, c) ==
  /\ p \in HandlerPcs => c \in x.states
  /\ p \in {"timers", "memory", "kill", "update"} => c \in x.states \cup {Null}
  /\ p \in {"loop", "seeded"} => c = Null
  /\ p \in {"loop", "seeded", "exec", "timers", "memory", "update", "erase", "done"} =>
       l = NoLocals
  /\ RangeOf(l.res) \subseteq Live(x) \cup {Null}
  /\ \A i, j \in DOMAIN l.res : l.res[i] = l.res[j] /\ l.res[i] # Null => i = j
  /\ l.reg # Null => l.reg \in Live(x) /\ l.reg \notin RangeOf(l.res)
  /\ l.todo \subseteq x.states
  /\ p \in {"call", "mem"} => l.reg # Null /\ l.res = << >>
  /\ p \in {"branch", "resolve", "free"} => Null \notin RangeOf(l.res)
  /\ p \in {"branch", "seeds"} => c \in RangeOf(l.res)
  /\ p = "branch" => /\ Len(l.res) <= l.width
                     /\ x.next + l.width - Len(l.res) <= MaxStates + 1
  /\ p \in {"seeds", "prune", "branched"} => Len(l.res) = l.width /\ l.width > 0

\* The step's containers are empty between steps, and the searcher lags behind
\* states by the removed states only while updateStates erases them.
SearcherInv ==
  /\ pc = "erase" => ex.added = {}
  /\ pc \in {"loop", "seeded", "done"} => ex.added = {} /\ ex.removed = << >>
  /\ held \subseteq ex.states
  /\ phase = "seeding" => held = {}
  /\ phase = "searching" /\ pc \notin {"erase", "crashed"} => held = ex.states
  /\ phase = "searching" /\ pc = "erase" => held = ex.states \ RangeOf(ex.removed)

\* The inductive invariant.
IndInv == TypeOK /\ ContainersInv(ex) /\ LocalsOK(pc, ex, lc, current) /\ SearcherInv

(***************************************************************************)
(* Operations on the containers                                            *)
(***************************************************************************)

\* Null, the null pointer, is not the ID of a state.
LEMMA NullNoState == Null \notin State
  BY DEF Null, State

\* The fields of x after ExecutionState::branch() on s.
LEMMA SplitFields ==
  ASSUME NEW x, DOMAIN x = ExecFields, NEW s
  PROVE LET y == Split(x, s) n == x.next IN
        /\ DOMAIN y = ExecFields
        /\ y.next = n + 1
        /\ y.states = x.states
        /\ y.added = x.added \cup {n}
        /\ y.removed = x.removed
        /\ y.freed = x.freed
        /\ y.tree = attach(x.tree, x.node[s], n, s)
        /\ y.node = [x.node EXCEPT ![n] = LeftOf(x.node[s]), ![s] = RightOf(x.node[s])]
        /\ y.depth = [x.depth EXCEPT ![s] = @ + 1, ![n] = x.depth[s] + 1]
        /\ y.seeds = x.seeds
        /\ y.feature = IF FeatureExtract THEN x.feature \cup {s, n} ELSE x.feature
  BY DEF Split, ExecFields

\* attach keeps the types of the tree.
LEMMA AttachType ==
  ASSUME NEW tree, DOMAIN tree \subseteq PTreeNode, 
         tree \in [DOMAIN tree -> State \cup {Null}],
         NEW n \in PTreeNode, NEW l \in State, NEW r \in State
  PROVE  LET t == attach(tree, n, l, r) IN
         /\ DOMAIN t \subseteq PTreeNode
         /\ t \in [DOMAIN t -> State \cup {Null}]
  BY ChildType DEF attach

\* attach on the leaf of s: the leaves are the live states again.
LEMMA SplitTree ==
  ASSUME NEW x, ContainersInv(x), NEW s \in Live(x), NEW n \in State, n \notin Live(x),
         NEW y, Live(y) = Live(x) \cup {n},
         y.tree = attach(x.tree, x.node[s], n, s),
         y.node = [x.node EXCEPT ![n] = LeftOf(x.node[s]), ![s] = RightOf(x.node[s])]
  PROVE  TreeInv(y)
<1> DEFINE p == x.node[s]
           D == DOMAIN x.tree
<1>1. /\ Live(x) \subseteq State /\ x.node \in [State -> PTreeNode]
      /\ D \subseteq PTreeNode
  BY DEF ContainersInv, ExecType, Live
<1>2. s \in State /\ n # s /\ s # Null /\ n # Null
  BY <1>1, NullNoState
<1>3. WellFormed(x.tree) /\ LeavesCarryStates(x.tree)
  BY DEF ContainersInv, TreeInv
<1>4. /\ \A r \in Live(x) : x.node[r] \in D /\ x.tree[x.node[r]] = r
      /\ \A m \in D : x.tree[m] # Null => x.tree[m] \in Live(x) /\ x.node[x.tree[m]] = m
  BY DEF ContainersInv, TreeInv
<1>5. p \in D /\ p \in PTreeNode /\ x.tree[p] = s /\ Childless(x.tree, p)
  BY <1>1, <1>2, <1>3, <1>4 DEF LeavesCarryStates
<1>6. WellFormed(y.tree) /\ LeavesCarryStates(y.tree)
  BY <1>2, <1>3, <1>5, AttachShape
<1>7. /\ DOMAIN y.tree = D \cup {LeftOf(p), RightOf(p)}
      /\ y.tree[p] = Null /\ y.tree[LeftOf(p)] = n /\ y.tree[RightOf(p)] = s
      /\ \A m \in D \ {p, LeftOf(p), RightOf(p)} : y.tree[m] = x.tree[m]
  <2>1. LeftOf(p) # RightOf(p) /\ LeftOf(p) # p /\ RightOf(p) # p
    BY <1>5, ChildType
  <2> QED BY <1>5, <2>1 DEF attach
<1>8. LeftOf(p) \notin D /\ RightOf(p) \notin D
  BY <1>5 DEF Childless
<1>9. /\ y.node[n] = LeftOf(p) /\ y.node[s] = RightOf(p)
      /\ \A r \in State \ {n, s} : y.node[r] = x.node[r]
  BY <1>1, <1>2
<1>10. ASSUME NEW r \in Live(y)
       PROVE  y.node[r] \in DOMAIN y.tree /\ y.tree[y.node[r]] = r
  <2>1. CASE r \in {n, s}
    BY <1>7, <1>9, <2>1
  <2>2. CASE r \notin {n, s}
    <3>1. r \in Live(x) /\ r \in State /\ y.node[r] = x.node[r]
      BY <1>1, <1>9, <2>2
    <3>2. x.node[r] \in D /\ x.tree[x.node[r]] = r
      BY <1>4, <3>1
    <3>3. x.node[r] \notin {p, LeftOf(p), RightOf(p)}
      BY <1>5, <1>8, <2>2, <3>2
    <3> QED BY <1>7, <3>1, <3>2, <3>3
  <2> QED BY <2>1, <2>2
<1>11. ASSUME NEW m \in DOMAIN y.tree, y.tree[m] # Null
       PROVE  y.tree[m] \in Live(y) /\ y.node[y.tree[m]] = m
  <2>1. CASE m \in {LeftOf(p), RightOf(p)}
    BY <1>7, <1>9, <2>1
  <2>2. CASE m \notin {LeftOf(p), RightOf(p)}
    <3>1. m \in D /\ m # p /\ y.tree[m] = x.tree[m]
      BY <1>7, <1>11, <2>2
    <3>2. x.tree[m] \in Live(x) /\ x.node[x.tree[m]] = m
      BY <1>4, <1>11, <3>1
    <3>3. x.tree[m] \notin {n, s} /\ x.tree[m] \in State
      BY <1>1, <3>1, <3>2
    <3> QED BY <1>9, <3>1, <3>2, <3>3
  <2> QED BY <2>1, <2>2
<1>12. ReachesState(y.tree)
  <2>1. ReachesState(x.tree)
    BY DEF ContainersInv, TreeInv
  <2> QED BY <1>2, <1>3, <1>5, <2>1, AttachReaches
<1>13. Live(y) # {}
  OBVIOUS
<1> QED BY <1>6, <1>10, <1>11, <1>12, <1>13 DEF TreeInv

\* Forking s keeps the containers consistent and adds one live state.
LEMMA SplitKeeps ==
  ASSUME NEW x, ContainersInv(x), NEW s \in Live(x), x.next <= MaxStates
  PROVE  /\ ContainersInv(Split(x, s))
         /\ Live(Split(x, s)) = Live(x) \cup {x.next}
         /\ Split(x, s).states = x.states
         /\ x.next \in State /\ x.next \notin Live(x)
<1> DEFINE y == Split(x, s)
           n == x.next
<1>x. ExecType(x) /\ Accounted(x)
  BY DEF ContainersInv
<1>d. DOMAIN x = ExecFields
  BY <1>x DEF ExecType
<1>1. /\ DOMAIN y = ExecFields
      /\ y.next = n + 1
      /\ y.states = x.states
      /\ y.added = x.added \cup {n}
      /\ y.removed = x.removed
      /\ y.freed = x.freed
      /\ y.tree = attach(x.tree, x.node[s], n, s)
      /\ y.node = [x.node EXCEPT ![n] = LeftOf(x.node[s]), ![s] = RightOf(x.node[s])]
      /\ y.depth = [x.depth EXCEPT ![s] = @ + 1, ![n] = x.depth[s] + 1]
      /\ y.seeds = x.seeds
      /\ y.feature = IF FeatureExtract THEN x.feature \cup {s, n} ELSE x.feature
  BY <1>d, SplitFields
<1>t. y.tree = attach(x.tree, x.node[s], n, s)
  BY <1>1
<1>n. y.node = [x.node EXCEPT ![n] = LeftOf(x.node[s]), ![s] = RightOf(x.node[s])]
  BY <1>1
<1>e. y.depth = [x.depth EXCEPT ![s] = @ + 1, ![n] = x.depth[s] + 1]
  BY <1>1
<1> HIDE DEF y
<1>2. n \in State /\ s \in State
  BY <1>x, ConfigAssumption DEF ExecType, State, Live
<1>3. n \notin Live(x) /\ n \notin x.freed
  <2>1. n \notin 1..n-1
    BY <1>2 DEF State
  <2> QED BY <2>1, <1>x DEF Accounted, Live
<1>4. Live(y) = Live(x) \cup {n}
  BY <1>1 DEF Live
<1>5. ExecType(y)
  <2>1. y.next \in 2..MaxStates + 1
    BY <1>1, <1>x, ConfigAssumption DEF ExecType
  <2>2. DOMAIN x.tree \subseteq PTreeNode /\ x.tree \in [DOMAIN x.tree -> State \cup {Null}]
    BY <1>x DEF ExecType
  <2>3. x.node \in [State -> PTreeNode] /\ x.depth \in [State -> Nat]
    BY <1>x DEF ExecType
  <2>4. DOMAIN y.tree \subseteq PTreeNode /\ y.tree \in [DOMAIN y.tree -> State \cup {Null}]
    <3>1. x.node[s] \in PTreeNode
      BY <1>2, <2>3
    <3> QED BY <1>t, <1>2, <2>2, <3>1, AttachType
  <2>5. y.node \in [State -> PTreeNode]
    BY <1>n, <1>2, <2>3, ChildType
  <2>6. y.depth \in [State -> Nat]
    BY <1>e, <1>2, <2>3
  <2>7. y.states \subseteq State /\ y.added \subseteq State /\ y.freed \subseteq State
        /\ y.feature \subseteq State /\ y.removed \in Seq(State)
        /\ y.seeds \in [State -> SUBSET Seeds] /\ DOMAIN y = ExecFields
    BY <1>1, <1>2, <1>x DEF ExecType
  <2> QED BY <2>1, <2>4, <2>5, <2>6, <2>7 DEF ExecType
<1>6. Accounted(y)
  <2>1. 1..y.next - 1 = (1..n - 1) \cup {n}
    BY <1>1, <1>2 DEF State
  <2> QED BY <2>1, <1>1, <1>3, <1>4, <1>x DEF Accounted, Live
<1>7. y.feature \subseteq Live(y)
  BY <1>1, <1>4 DEF ContainersInv
<1>8. TreeInv(y)
  BY <1>t, <1>n, <1>2, <1>3, <1>4, SplitTree
<1>9. SeedsDisjoint(y)
  BY <1>1 DEF ContainersInv, SeedsDisjoint
<1>10. ContainersInv(y)
  BY <1>1, <1>4, <1>5, <1>6, <1>7, <1>8, <1>9 DEF ContainersInv
<1> QED BY <1>1, <1>2, <1>3, <1>4, <1>10 DEF y

\* remove on the leaf of s: the leaves are the live states that are left.
LEMMA DeleteTree ==
  ASSUME NEW x, ContainersInv(x), NEW s \in Live(x),
         NEW y, Live(y) = Live(x) \ {s},
         y.tree = remove(x.tree, x.node[s]), y.node = x.node
  PROVE  TreeInv(y)
<1> DEFINE p == x.node[s]
           D == DOMAIN x.tree
<1>1. Live(x) \subseteq State
  BY DEF ContainersInv, ExecType, Live
<1>2. s # Null
  BY <1>1, NullNoState
<1>3. WellFormed(x.tree) /\ LeavesCarryStates(x.tree)
  BY DEF ContainersInv, TreeInv
<1>4. /\ \A r \in Live(x) : x.node[r] \in D /\ x.tree[x.node[r]] = r
      /\ \A m \in D : x.tree[m] # Null => x.tree[m] \in Live(x) /\ x.node[x.tree[m]] = m
  BY DEF ContainersInv, TreeInv
<1>5. \A r \in Live(x) : x.node[r] \in D /\ Childless(x.tree, x.node[r])
  BY <1>1, <1>3, <1>4, NullNoState DEF LeavesCarryStates
<1>6. /\ p # Root => p \in Unlinked(x.tree, p)
      /\ \A m \in Unlinked(x.tree, p) : Childless(x.tree, m) => m = p
      /\ DOMAIN y.tree = D \ Unlinked(x.tree, p)
      /\ \A m \in D \ Unlinked(x.tree, p) : y.tree[m] = x.tree[m]
  <2>1. p \in D /\ Childless(x.tree, p)
    BY <1>5
  <2>2. /\ p # Root => p \in Unlinked(x.tree, p)
        /\ \A m \in Unlinked(x.tree, p) : Childless(x.tree, m) => m = p
    BY <1>3, <2>1, RemoveFacts
  <2>3. y.tree = [m \in D \ Unlinked(x.tree, p) |-> x.tree[m]]
    BY DEF remove
  <2> QED BY <2>2, <2>3
<1>7. WellFormed(y.tree)
  BY <1>3, <1>5, RemoveWellFormed
<1>8. ASSUME NEW r \in Live(y)
      PROVE  /\ x.node[r] # p
             /\ y.node[r] \in DOMAIN y.tree /\ y.tree[y.node[r]] = r
             /\ LeavesCarryStates(y.tree)
  <2>1. r \in Live(x) /\ r # s
    OBVIOUS
  <2>2. x.node[r] # p
    BY <1>4, <2>1
  <2>3. x.node[r] \notin Unlinked(x.tree, p)
    BY <1>5, <1>6, <2>1, <2>2
  <2>4. LeavesCarryStates(y.tree)
    BY <1>3, <1>5, <2>1, <2>2, RemoveLeaves
  <2> QED BY <1>4, <1>6, <2>1, <2>2, <2>3, <2>4
<1>9. ASSUME NEW m \in DOMAIN y.tree, y.tree[m] # Null, NEW r \in Live(y)
      PROVE  y.tree[m] \in Live(y) /\ y.node[y.tree[m]] = m
  <2>1. m \in D /\ y.tree[m] = x.tree[m] /\ m \notin Unlinked(x.tree, p)
    BY <1>6
  <2>2. x.tree[m] \in Live(x) /\ x.node[x.tree[m]] = m
    BY <1>4, <1>9, <2>1
  <2>3. m # p
    <3>1. CASE p # Root
      BY <1>6, <2>1, <3>1
    <3>2. CASE p = Root
      <4>1. x.node[r] \in PTreeNode /\ x.node[r] \in D /\ x.node[r] # p
        BY <1>3, <1>5, <1>8 DEF WellFormed
      <4>2. IsAbove(Root, x.node[r])
        BY <4>1 DEF IsAbove, Root, PTreeNode
      <4> QED BY <1>3, <1>5, <3>2, <4>1, <4>2, NothingBelowLeaf
    <3> QED BY <3>1, <3>2
  <2>4. x.tree[m] # s
    BY <2>2, <2>3
  <2> QED BY <2>1, <2>2, <2>4
<1>10. ReachesState(x.tree)
  BY DEF ContainersInv, TreeInv
<1>11. ASSUME NEW r \in Live(y)
       PROVE  ReachesState(y.tree)
  <2>1. /\ x.node[r] \in D /\ x.tree[x.node[r]] = r /\ x.node[r] # p
        /\ Childless(x.tree, x.node[r]) /\ r # Null
    BY <1>1, <1>4, <1>5, <1>8, NullNoState
  <2>2. x.node[r] \notin Unlinked(x.tree, p)
    BY <1>6, <2>1
  <2> QED BY <1>3, <1>5, <1>10, <2>1, <2>2, RemoveReaches
<1>12. ASSUME Live(y) = {}
       PROVE  DOMAIN y.tree = {Root}
  <2>1. \A m \in D : x.tree[m] # Null => m = p
    BY <1>4, <1>12
  <2> QED BY <1>3, <1>5, <1>10, <2>1, RemoveLast
<1> QED BY <1>7, <1>8, <1>9, <1>11, <1>12 DEF TreeInv

\* Deleting s keeps the containers consistent and leaves the other states live.
LEMMA DeleteKeeps ==
  ASSUME NEW x, ContainersInv(x), NEW s \in Live(x)
  PROVE  /\ ContainersInv(Delete(x, s))
         /\ Live(Delete(x, s)) = Live(x) \ {s}
         /\ Delete(x, s).states = x.states \ {s}
         /\ Delete(x, s).added = x.added \ {s}
         /\ Delete(x, s).removed = x.removed
<1> DEFINE y == Delete(x, s)
<1>x. ExecType(x) /\ Accounted(x)
  BY DEF ContainersInv
<1>d. DOMAIN x = ExecFields
  BY <1>x DEF ExecType
<1>1. /\ DOMAIN y = ExecFields
      /\ y.next = x.next
      /\ y.states = x.states \ {s}
      /\ y.added = x.added \ {s}
      /\ y.removed = x.removed
      /\ y.freed = x.freed \cup {s}
      /\ y.node = x.node
      /\ y.depth = x.depth
      /\ y.feature = x.feature \ {s}
  BY <1>d DEF Delete, ExecFields
<1>t. y.tree = remove(x.tree, x.node[s])
  BY <1>d DEF Delete, ExecFields
<1>s. y.seeds = [x.seeds EXCEPT ![s] = {}]
  BY <1>d DEF Delete, ExecFields
<1> HIDE DEF y
<1>2. s \in State
  BY <1>x DEF ExecType, Live
<1>3. Live(y) = Live(x) \ {s}
  BY <1>1 DEF Live
<1>4. y.seeds \in [State -> SUBSET Seeds]
  <2>1. x.seeds \in [State -> SUBSET Seeds]
    BY <1>x DEF ExecType
  <2> QED BY <1>s, <2>1
<1>5. /\ y.seeds[s] = {} /\ \A r \in State \ {s} : y.seeds[r] = x.seeds[r]
  <2>1. x.seeds \in [State -> SUBSET Seeds]
    BY <1>x DEF ExecType
  <2> QED BY <1>s, <1>2, <2>1
<1>6. DOMAIN y.tree \subseteq PTreeNode /\ y.tree \in [DOMAIN y.tree -> State \cup {Null}]
  <2>1. DOMAIN x.tree \subseteq PTreeNode /\ x.tree \in [DOMAIN x.tree -> State \cup {Null}]
    BY <1>x DEF ExecType
  <2> QED BY <1>t, <2>1 DEF remove
<1>7. ExecType(y)
  <2>1. /\ y.states \subseteq State /\ y.added \subseteq State /\ y.freed \subseteq State
        /\ y.feature \subseteq State /\ y.removed \in Seq(State)
        /\ y.next \in 2..MaxStates + 1 /\ DOMAIN y = ExecFields
        /\ y.node \in [State -> PTreeNode] /\ y.depth \in [State -> Nat]
    BY <1>1, <1>2, <1>x DEF ExecType
  <2> QED BY <1>4, <1>6, <2>1 DEF ExecType
<1>8. Accounted(y)
  BY <1>1, <1>3, <1>x DEF Accounted, Live
<1>9. RangeOf(y.removed) \subseteq y.states \cup y.freed
  BY <1>1 DEF ContainersInv
<1>10. y.feature \subseteq Live(y)
  BY <1>1, <1>3 DEF ContainersInv
<1>11. \A r \in State : y.seeds[r] # {} => r \in Live(y)
  BY <1>3, <1>5 DEF ContainersInv
<1>12. SeedsDisjoint(y)
  <2>1. SeedsDisjoint(x)
    BY DEF ContainersInv
  <2> QED BY <1>2, <1>5, <2>1 DEF SeedsDisjoint
<1>13. TreeInv(y)
  BY <1>t, <1>1, <1>3, DeleteTree
<1>14. ContainersInv(y)
  BY <1>7, <1>8, <1>9, <1>10, <1>11, <1>12, <1>13 DEF ContainersInv
<1> QED BY <1>1, <1>3, <1>14 DEF y

\* A change of the lists, of featureStates or of the seeds that leaves the set of
\* live states alone keeps the containers consistent.
LEMMA SameLiveKeeps ==
  ASSUME NEW x, ContainersInv(x), NEW y, ExecType(y),
         Live(y) = Live(x), y.states \cap y.added = {},
         y.next = x.next, y.freed = x.freed, y.tree = x.tree, y.node = x.node,
         RangeOf(y.removed) \subseteq y.states \cup y.freed,
         y.feature \subseteq Live(y),
         \A s \in State : y.seeds[s] # {} => s \in Live(y),
         SeedsDisjoint(y)
  PROVE  ContainersInv(y)
<1>1. Accounted(y)
  <2>1. Accounted(x)
    BY DEF ContainersInv
  <2> QED BY <2>1 DEF Accounted, Live
<1>2. TreeInv(y)
  <2>1. TreeInv(x)
    BY DEF ContainersInv
  <2> QED BY <2>1 DEF TreeInv
<1> QED BY <1>1, <1>2 DEF ContainersInv

\* featureStates.insert keeps the containers consistent.
LEMMA NoteFeatureKeeps ==
  ASSUME NEW x, ContainersInv(x), NEW s \in Live(x)
  PROVE  /\ ContainersInv(NoteFeature(x, s))
         /\ Live(NoteFeature(x, s)) = Live(x)
         /\ NoteFeature(x, s).states = x.states
         /\ NoteFeature(x, s).next = x.next
<1>1. CASE ~FeatureExtract
  BY <1>1 DEF NoteFeature
<1>2. CASE FeatureExtract
  <2> DEFINE y == NoteFeature(x, s)
  <2>x. ExecType(x) /\ Accounted(x) /\ DOMAIN x = ExecFields
    BY DEF ContainersInv, ExecType
  <2>1. /\ DOMAIN y = ExecFields /\ y.next = x.next /\ y.states = x.states
        /\ y.added = x.added /\ y.removed = x.removed /\ y.freed = x.freed
        /\ y.tree = x.tree /\ y.node = x.node /\ y.depth = x.depth /\ y.seeds = x.seeds
        /\ y.feature = x.feature \cup {s}
    BY <1>2, <2>x DEF NoteFeature, ExecFields
  <2> HIDE DEF y
  <2>2. Live(y) = Live(x)
    BY <2>1 DEF Live
  <2>3. ExecType(y)
    <3>1. y.feature \subseteq State
      BY <2>1, <2>x DEF ExecType, Live
    <3> QED BY <3>1, <2>1, <2>x DEF ExecType
  <2>4. ContainersInv(y)
    <3>1. y.feature \subseteq Live(y)
      BY <2>1, <2>2 DEF ContainersInv
    <3>2. SeedsDisjoint(y)
      BY <2>1 DEF ContainersInv, SeedsDisjoint
    <3>3. y.states \cap y.added = {}
      BY <2>1, <2>x DEF Accounted
    <3>4. RangeOf(y.removed) \subseteq y.states \cup y.freed
      BY <2>1 DEF ContainersInv
    <3>5. \A r \in State : y.seeds[r] # {} => r \in Live(y)
      BY <2>1, <2>2 DEF ContainersInv
    <3> QED BY <2>1, <2>2, <2>3, <3>1, <3>2, <3>3, <3>4, <3>5, SameLiveKeeps
  <2> QED BY <2>1, <2>2, <2>4 DEF y
<1> QED BY <1>1, <1>2

\* Appending to a list adds to its range.
LEMMA RangeAppend ==
  ASSUME NEW S, NEW q \in Seq(S), NEW e \in S
  PROVE  RangeOf(Append(q, e)) = RangeOf(q) \cup {e}
<1> DEFINE a == Append(q, e)
<1>1. a \in Seq(S) /\ Len(a) = Len(q) + 1 /\ Len(q) \in Nat
  OBVIOUS
<1>2. \A i \in 1..Len(q) : a[i] = q[i]
  OBVIOUS
<1>3. a[Len(q) + 1] = e
  OBVIOUS
<1>4. DOMAIN a = 1..Len(q) + 1 /\ DOMAIN q = 1..Len(q)
  BY <1>1
<1> HIDE DEF a
<1>5. RangeOf(a) \subseteq RangeOf(q) \cup {e}
  BY <1>1, <1>2, <1>3, <1>4 DEF RangeOf
<1>6. RangeOf(q) \cup {e} \subseteq RangeOf(a)
  BY <1>1, <1>2, <1>3, <1>4 DEF RangeOf
<1> QED BY <1>5, <1>6 DEF a

\* terminateState keeps the containers consistent, and deletes no state but s.
LEMMA TerminateKeeps ==
  ASSUME NEW x, ContainersInv(x), NEW s \in Live(x)
  PROVE  /\ ContainersInv(terminateState(x, s))
         /\ Live(x) \ {s} \subseteq Live(terminateState(x, s))
         /\ Live(terminateState(x, s)) \subseteq Live(x)
         /\ terminateState(x, s).states = x.states
         /\ s \in x.states => Live(terminateState(x, s)) = Live(x)
<1>1. CASE s \in x.added
  <2>1. s \notin x.states
    BY <1>1 DEF ContainersInv, Accounted
  <2>2. terminateState(x, s) = Delete(x, s)
    BY <1>1 DEF terminateState
  <2>3. /\ ContainersInv(Delete(x, s)) /\ Live(Delete(x, s)) = Live(x) \ {s}
        /\ Delete(x, s).states = x.states \ {s}
    BY DeleteKeeps
  <2> QED BY <2>1, <2>2, <2>3
<1>2. CASE s \notin x.added
  <2> DEFINE y == terminateState(x, s)
  <2>x. ExecType(x) /\ Accounted(x) /\ DOMAIN x = ExecFields
    BY DEF ContainersInv, ExecType
  <2>1. /\ DOMAIN y = ExecFields /\ y.next = x.next /\ y.states = x.states
        /\ y.added = x.added /\ y.removed = Append(x.removed, s) /\ y.freed = x.freed
        /\ y.tree = x.tree /\ y.node = x.node /\ y.depth = x.depth /\ y.seeds = x.seeds
        /\ y.feature = x.feature \ {s}
    BY <1>2, <2>x DEF terminateState, ExecFields
  <2> HIDE DEF y
  <2>2. Live(y) = Live(x) /\ s \in x.states /\ s \in State
    BY <1>2, <2>1, <2>x DEF Live, ExecType
  <2>3. x.removed \in Seq(State)
    BY <2>x DEF ExecType
  <2>4. y.removed \in Seq(State) /\ RangeOf(y.removed) = RangeOf(x.removed) \cup {s}
    BY <2>1, <2>2, <2>3, RangeAppend
  <2>5. ExecType(y)
    <3>1. y.feature \subseteq State
      BY <2>1, <2>x DEF ExecType
    <3> QED BY <3>1, <2>1, <2>4, <2>x DEF ExecType
  <2>6. ContainersInv(y)
    <3>1. y.feature \subseteq Live(y)
      BY <2>1, <2>2 DEF ContainersInv
    <3>2. SeedsDisjoint(y)
      BY <2>1 DEF ContainersInv, SeedsDisjoint
    <3>3. y.states \cap y.added = {}
      BY <2>1, <2>x DEF Accounted
    <3>4. RangeOf(y.removed) \subseteq y.states \cup y.freed
      BY <2>1, <2>2, <2>4 DEF ContainersInv
    <3>5. \A r \in State : y.seeds[r] # {} => r \in Live(y)
      BY <2>1, <2>2 DEF ContainersInv
    <3> QED BY <2>1, <2>2, <2>5, <3>1, <3>2, <3>3, <3>4, <3>5, SameLiveKeeps
  <2> QED BY <2>1, <2>2, <2>6 DEF y
<1> QED BY <1>1, <1>2

\* Handing the seeds of t to its fork f keeps every seed with one live owner.
LEMMA SplitSeedsKeeps ==
  ASSUME NEW x, ContainersInv(x), NEW t \in Live(x), NEW f \in Live(x), t # f,
         x.seeds[f] = {}, NEW T \in SUBSET x.seeds[t]
  PROVE  /\ ContainersInv(SplitSeeds(x, t, f, T))
         /\ Live(SplitSeeds(x, t, f, T)) = Live(x)
         /\ SplitSeeds(x, t, f, T).states = x.states
<1> DEFINE y == SplitSeeds(x, t, f, T)
<1>x. ExecType(x) /\ Accounted(x) /\ DOMAIN x = ExecFields
  BY DEF ContainersInv, ExecType
<1>1. /\ DOMAIN y = ExecFields /\ y.next = x.next /\ y.states = x.states
      /\ y.added = x.added /\ y.removed = x.removed /\ y.freed = x.freed
      /\ y.tree = x.tree /\ y.node = x.node /\ y.depth = x.depth
      /\ y.feature = x.feature
  BY <1>x DEF SplitSeeds, ExecFields
<1>s. y.seeds = [x.seeds EXCEPT ![t] = T, ![f] = x.seeds[t] \ T]
  BY <1>x DEF SplitSeeds, ExecFields
<1> HIDE DEF y
<1>2. x.seeds \in [State -> SUBSET Seeds] /\ t \in State /\ f \in State
  BY <1>x DEF ExecType, Live
<1>3. y.seeds \in [State -> SUBSET Seeds]
  BY <1>s, <1>2
<1>4. /\ y.seeds[t] = T /\ y.seeds[f] = x.seeds[t] \ T
      /\ \A r \in State \ {t, f} : y.seeds[r] = x.seeds[r]
  BY <1>s, <1>2
<1>5. Live(y) = Live(x)
  BY <1>1 DEF Live
<1>6. ExecType(y)
  BY <1>1, <1>3, <1>x DEF ExecType
<1>7. ContainersInv(y)
  <2>1. y.feature \subseteq Live(y)
    BY <1>1, <1>5 DEF ContainersInv
  <2>2. SeedsDisjoint(y)
    <3>1. SeedsDisjoint(x)
      BY DEF ContainersInv
    <3>2. ASSUME NEW r \in State, NEW u \in State, r # u
          PROVE  y.seeds[r] \cap y.seeds[u] = {}
      <4>1. CASE r \notin {t, f} /\ u \notin {t, f}
        BY <1>4, <3>1, <3>2, <4>1 DEF SeedsDisjoint
      <4>2. CASE r \in {t, f} /\ u \notin {t, f}
        BY <1>2, <1>4, <3>1, <3>2, <4>2 DEF SeedsDisjoint
      <4>3. CASE r \notin {t, f} /\ u \in {t, f}
        BY <1>2, <1>4, <3>1, <3>2, <4>3 DEF SeedsDisjoint
      <4>4. CASE r \in {t, f} /\ u \in {t, f}
        BY <1>2, <1>4, <3>2, <4>4
      <4> QED BY <4>1, <4>2, <4>3, <4>4
    <3> QED BY <3>2 DEF SeedsDisjoint
  <2>3. y.states \cap y.added = {}
    BY <1>1, <1>x DEF Accounted
  <2>4. RangeOf(y.removed) \subseteq y.states \cup y.freed
    BY <1>1 DEF ContainersInv
  <2>5. \A r \in State : y.seeds[r] # {} => r \in Live(y)
    BY <1>4, <1>5 DEF ContainersInv
  <2> QED BY <1>1, <1>5, <1>6, <2>1, <2>2, <2>3, <2>4, <2>5, SameLiveKeeps
<1> QED BY <1>1, <1>5, <1>7 DEF y

\* What a handler may rely on after fork(s): the containers are consistent, only s
\* can have been deleted, and the two results are live and distinct; the second
\* one is new if there are two.
ForkPost(x, s, o) ==
  /\ ContainersInv(o.x)
  /\ o.x.states = x.states
  /\ Live(x) \ {s} \subseteq Live(o.x)
  /\ o.t \in {Null, s} /\ (o.t # Null => o.t \in Live(o.x))
  /\ o.f # Null => o.f \in Live(o.x)
  /\ o.f \in {Null, s, x.next}
  /\ o.t # Null => o.f \in {Null, x.next}
  /\ x.next \notin Live(x)

\* Executor::fork satisfies ForkPost on all its paths: timeout, one feasible
\* side, both, and both terminated at max-depth.
LEMMA ForkKeeps ==
  ASSUME NEW x, ContainersInv(x), NEW s \in Live(x), NEW o \in fork(x, s)
  PROVE  ForkPost(x, s, o)
<1>x. ExecType(x) /\ Accounted(x)
  BY DEF ContainersInv
<1>1. s \in State /\ s # Null
  BY <1>x, NullNoState DEF ExecType, Live
<1>2. x.next \notin Live(x)
  <2>1. x.next \notin 1..x.next - 1
    BY <1>x, ConfigAssumption DEF ExecType
  <2> QED BY <2>1, <1>x DEF Accounted, Live
<1>3. \/ o = Outcome(terminateState(x, s), Null, Null)
      \/ o = Outcome(NoteFeature(x, s), s, Null)
      \/ o = Outcome(NoteFeature(x, s), Null, s)
      \/ o \in ForkBoth(x, s)
  BY DEF fork
<1>4. CASE o = Outcome(terminateState(x, s), Null, Null)
  <2>1. o.x = terminateState(x, s) /\ o.t = Null /\ o.f = Null
    BY <1>4 DEF Outcome
  <2>2. /\ ContainersInv(terminateState(x, s)) /\ terminateState(x, s).states = x.states
        /\ Live(x) \ {s} \subseteq Live(terminateState(x, s))
    BY TerminateKeeps
  <2> QED BY <1>2, <2>1, <2>2 DEF ForkPost
<1>5. CASE \/ o = Outcome(NoteFeature(x, s), s, Null)
           \/ o = Outcome(NoteFeature(x, s), Null, s)
  <2>1. /\ o.x = NoteFeature(x, s)
        /\ (o.t = s /\ o.f = Null) \/ (o.t = Null /\ o.f = s)
    <3>1. CASE o = Outcome(NoteFeature(x, s), s, Null)
      BY <3>1 DEF Outcome
    <3>2. CASE o = Outcome(NoteFeature(x, s), Null, s)
      BY <3>2 DEF Outcome
    <3> QED BY <1>5, <3>1, <3>2
  <2>2. /\ ContainersInv(NoteFeature(x, s)) /\ NoteFeature(x, s).states = x.states
        /\ Live(NoteFeature(x, s)) = Live(x)
    BY NoteFeatureKeeps
  <2> QED BY <1>1, <1>2, <2>1, <2>2 DEF ForkPost
<1>6. CASE o \in ForkBoth(x, s)
  <2> DEFINE n == x.next
             y(T) == SplitSeeds(Split(x, s), s, n, T)
  <2>1. x.next <= MaxStates
    <3>1. ~(x.next > MaxStates)
      BY <1>6 DEF ForkBoth
    <3> QED BY <3>1, <1>x, ConfigAssumption DEF ExecType
  <2>2. PICK T \in TrueSeeds(x, s) :
          o = IF MaxDepth # 0 /\ MaxDepth <= y(T).depth[s]
              THEN Outcome(terminateState(terminateState(y(T), s), n), Null, Null)
              ELSE Outcome(y(T), s, n)
    BY <1>6 DEF ForkBoth
  <2>3. T \in SUBSET x.seeds[s]
    BY DEF TrueSeeds
  <2>4. /\ ContainersInv(Split(x, s)) /\ Live(Split(x, s)) = Live(x) \cup {n}
        /\ Split(x, s).states = x.states /\ n \in State
    BY <2>1, SplitKeeps
  <2>5. Split(x, s).seeds = x.seeds
    <3>1. DOMAIN x = ExecFields
      BY <1>x DEF ExecType
    <3> QED BY <3>1, SplitFields
  <2>6. x.seeds[n] = {}
    BY <1>2, <2>4 DEF ContainersInv
  <2>7. n # s /\ n # Null
    BY <1>2, <2>4, NullNoState
  <2> DEFINE z == y(T)
  <2>8. ContainersInv(z) /\ Live(z) = Live(x) \cup {n} /\ z.states = x.states
    BY <2>3, <2>4, <2>5, <2>6, <2>7, SplitSeedsKeeps
  <2>9. CASE o = Outcome(z, s, n)
    <3>1. o.x = z /\ o.t = s /\ o.f = n
      BY <2>9 DEF Outcome
    <3> QED BY <1>2, <2>8, <3>1 DEF ForkPost
  <2>10. CASE o = Outcome(terminateState(terminateState(z, s), n), Null, Null)
    <3> DEFINE u == terminateState(z, s)
               v == terminateState(u, n)
    <3>1. o.x = v /\ o.t = Null /\ o.f = Null
      BY <2>10 DEF Outcome
    <3>2. /\ ContainersInv(u) /\ u.states = z.states
          /\ Live(z) \ {s} \subseteq Live(u)
      BY <2>8, TerminateKeeps
    <3>3. n \in Live(u)
      BY <2>7, <2>8, <3>2
    <3>4. /\ ContainersInv(v) /\ v.states = u.states
          /\ Live(u) \ {n} \subseteq Live(v)
      BY <3>2, <3>3, TerminateKeeps
    <3>5. Live(x) \ {s} \subseteq Live(v)
      BY <1>2, <2>8, <3>2, <3>4
    <3> HIDE DEF u, v
    <3> QED BY <1>2, <2>8, <3>1, <3>2, <3>4, <3>5 DEF ForkPost
  <2> QED BY <2>2, <2>9, <2>10
<1> QED BY <1>3, <1>4, <1>5, <1>6

(***************************************************************************)
(* Steps of the handlers                                                   *)
(***************************************************************************)

\* No locals are needed where the loop is between instructions.
LEMMA NoLocalsOK ==
  ASSUME NEW x, NEW c, NEW p, p \notin {"call", "mem", "branch", "seeds", "prune", "branched"},
         p \in HandlerPcs => c \in x.states,
         p \in {"timers", "memory", "kill", "update"} => c \in x.states \cup {Null},
         p \in {"loop", "seeded"} => c = Null
  PROVE  LocalsOK(p, x, NoLocals, c) /\ NoLocals \in LocalsType
<1>1. /\ NoLocals.res = << >> /\ NoLocals.reg = Null /\ NoLocals.todo = {}
  BY DEF NoLocals
<1>2. RangeOf(NoLocals.res) = {} /\ DOMAIN NoLocals.res = {}
  BY <1>1 DEF RangeOf
<1>3. NoLocals \in LocalsType
  BY DEF NoLocals, LocalsType
<1> QED BY <1>1, <1>2, <1>3 DEF LocalsOK

\* A handler step that keeps states, and whose containers and locals are in
\* order, keeps the invariant.
LEMMA GotoKeeps ==
  ASSUME IndInv, pc \in HandlerPcs,
         NEW p \in HandlerPcs \cup {"timers"}, NEW x, NEW l,
         ContainersInv(x), x.states = ex.states,
         l \in LocalsType, LocalsOK(p, x, l, current), Goto(p, x, l)
  PROVE  IndInv'
<1>1. /\ pc' = p /\ ex' = x /\ lc' = l
      /\ UNCHANGED <<phase, ending, current, haltExecution, atMemoryLimit, held, fault>>
  BY DEF Goto
<1>2. ContainersInv(ex') /\ ExecType(ex')
  BY <1>1 DEF ContainersInv
<1>3. ContainersInv(ex)'
  BY <1>2, <1>1 DEF ContainersInv, ExecType, Accounted, SeedsDisjoint, TreeInv
<1>4. LocalsOK(pc, ex, lc, current)'
  BY <1>1 DEF LocalsOK
<1>5. TypeOK'
  BY <1>1, <1>2 DEF IndInv, TypeOK, ExecType, HandlerPcs, LoopPcs, LocalsType
<1>6. SearcherInv'
  <2>1. pc \notin {"erase", "crashed", "loop", "seeded", "done"} /\ p \notin {"erase", "crashed", "loop", "seeded", "done"}
    BY DEF HandlerPcs
  <2> QED BY <1>1, <2>1 DEF IndInv, SearcherInv
<1> QED BY <1>3, <1>4, <1>5, <1>6 DEF IndInv

\* The end of an instruction keeps the invariant.
LEMMA FinishKeeps ==
  ASSUME IndInv, pc \in HandlerPcs, NEW x, ContainersInv(x), x.states = ex.states, Finish(x)
  PROVE  IndInv'
<1>1. current \in ex.states
  BY DEF IndInv, LocalsOK
<1>2. LocalsOK("timers", x, NoLocals, current) /\ NoLocals \in LocalsType
  <2>1. "timers" \notin HandlerPcs
    BY DEF HandlerPcs
  <2> QED BY <1>1, <2>1, NoLocalsOK
<1>3. Goto("timers", x, NoLocals)
  BY DEF Finish
<1> QED BY <1>2, <1>3, GotoKeeps

\* A failed run keeps what it had.
LEMMA CrashKeeps ==
  ASSUME IndInv, NEW why \in Faults, Crash(why)
  PROVE  IndInv'
<1>1. /\ pc' = "crashed" /\ fault' = why
      /\ UNCHANGED <<ex, phase, ending, current, lc, haltExecution, atMemoryLimit, held>>
  BY DEF Crash
<1>2. TypeOK'
  BY <1>1 DEF IndInv, TypeOK, ExecType, HandlerPcs, LoopPcs, LocalsType
<1>3. ContainersInv(ex)'
  BY <1>1 DEF IndInv, ContainersInv, ExecType, Accounted, SeedsDisjoint, TreeInv
<1>4. LocalsOK(pc, ex, lc, current)'
  BY <1>1 DEF IndInv, LocalsOK, HandlerPcs
<1>5. SearcherInv'
  BY <1>1 DEF IndInv, SearcherInv
<1> QED BY <1>2, <1>3, <1>4, <1>5 DEF IndInv

\* What every handler step starts from.
LEMMA HandlerFacts ==
  ASSUME IndInv, pc \in HandlerPcs
  PROVE  /\ ContainersInv(ex) /\ LocalsOK(pc, ex, lc, current) /\ lc \in LocalsType
         /\ current \in ex.states /\ current \in Live(ex) /\ current \in State
         /\ current # Null /\ ExecType(ex)
<1>1. current \in ex.states /\ ContainersInv(ex)
  BY DEF IndInv, LocalsOK
<1>2. current \in State /\ ExecType(ex)
  BY <1>1 DEF ContainersInv, ExecType
<1> QED BY <1>1, <1>2, NullNoState DEF IndInv, TypeOK, Live

\* An instruction that leaves the containers alone preserves IndInv.
LEMMA ExecPlainKeeps == IndInv /\ ExecPlain => IndInv'
<1> SUFFICES ASSUME IndInv, ExecPlain PROVE IndInv'
  OBVIOUS
<1>1. pc \in HandlerPcs /\ Finish(ex)
  BY DEF ExecPlain, HandlerPcs
<1> QED BY <1>1, HandlerFacts, FinishKeeps

\* Terminating the executing state preserves IndInv.
LEMMA ExecTerminateKeeps == IndInv /\ ExecTerminate => IndInv'
<1> SUFFICES ASSUME IndInv, ExecTerminate PROVE IndInv'
  OBVIOUS
<1> DEFINE x == terminateState(ex, current)
<1>1. pc \in HandlerPcs /\ Finish(x)
  BY DEF ExecTerminate, HandlerPcs
<1>2. ContainersInv(x) /\ x.states = ex.states
  BY <1>1, HandlerFacts, TerminateKeeps
<1> HIDE DEF x
<1> QED BY <1>1, <1>2, FinishKeeps

\* A symbolic br, whatever fork() answers, preserves IndInv.
LEMMA ExecBrKeeps == IndInv /\ ExecBr => IndInv'
<1> SUFFICES ASSUME IndInv, ExecBr PROVE IndInv'
  OBVIOUS
<1>1. pc \in HandlerPcs
  BY DEF ExecBr, HandlerPcs
<1>2. PICK o \in fork(ex, current) : Finish(o.x)
  BY DEF ExecBr
<1>3. ForkPost(ex, current, o)
  BY <1>1, HandlerFacts, ForkKeeps
<1> QED BY <1>1, <1>2, <1>3, FinishKeeps DEF ForkPost

\* executeAlloc, with its one or two forks, preserves IndInv.
LEMMA ExecAllocKeeps == IndInv /\ ExecAlloc => IndInv'
<1> SUFFICES ASSUME IndInv, ExecAlloc PROVE IndInv'
  OBVIOUS
<1>1. pc \in HandlerPcs
  BY DEF ExecAlloc, HandlerPcs
<1>2. PICK fixed \in fork(ex, current) :
        \/ Finish(fixed.x)
        \/ /\ fixed.f # Null
           /\ \E huge \in fork(fixed.x, fixed.f) :
                Finish(IF huge.f = Null THEN huge.x ELSE terminateState(huge.x, huge.f))
  BY DEF ExecAlloc
<1>3. ForkPost(ex, current, fixed)
  BY <1>1, HandlerFacts, ForkKeeps
<1>4. CASE Finish(fixed.x)
  BY <1>1, <1>3, <1>4, FinishKeeps DEF ForkPost
<1>5. CASE /\ fixed.f # Null
           /\ \E huge \in fork(fixed.x, fixed.f) :
                Finish(IF huge.f = Null THEN huge.x ELSE terminateState(huge.x, huge.f))
  <2>1. PICK huge \in fork(fixed.x, fixed.f) :
          Finish(IF huge.f = Null THEN huge.x ELSE terminateState(huge.x, huge.f))
    BY <1>5
  <2>2. fixed.f \in Live(fixed.x) /\ ContainersInv(fixed.x) /\ fixed.x.states = ex.states
    BY <1>3, <1>5 DEF ForkPost
  <2>3. ForkPost(fixed.x, fixed.f, huge)
    BY <2>2, ForkKeeps
  <2>4. CASE huge.f = Null
    BY <1>1, <2>1, <2>2, <2>3, <2>4, FinishKeeps DEF ForkPost
  <2>5. CASE huge.f # Null
    <3> DEFINE x == terminateState(huge.x, huge.f)
    <3>1. ContainersInv(x) /\ x.states = ex.states
      BY <2>2, <2>3, <2>5, TerminateKeeps DEF ForkPost
    <3>2. Finish(x)
      BY <2>1, <2>5
    <3> HIDE DEF x
    <3> QED BY <1>1, <3>1, <3>2, FinishKeeps
  <2> QED BY <2>4, <2>5
<1> QED BY <1>2, <1>4, <1>5

\* Locals that hold one state, the one whose pointer is unresolved.
LEMMA RegLocalsOK ==
  ASSUME NEW x, NEW c \in x.states, NEW p \in {"call", "mem", "resolve"}, NEW l,
         l \in LocalsType, l.res = << >>, l.todo \subseteq x.states,
         l.reg \in Live(x), l.reg # Null
  PROVE  LocalsOK(p, x, l, c)
<1>1. RangeOf(l.res) = {} /\ DOMAIN l.res = {}
  BY DEF RangeOf
<1> QED BY <1>1 DEF LocalsOK

\* The locals with which the resolution loops start are well typed.
LEMMA RegLocalsType ==
  ASSUME NEW r \in State, NEW k \in Nat
  PROVE  LET l == [NoLocals EXCEPT !.reg = r, !.fuel = k] IN
         l \in LocalsType /\ l.res = << >> /\ l.todo = {} /\ l.reg = r
<1> DEFINE l == [NoLocals EXCEPT !.reg = r, !.fuel = k]
<1>1. l.res = << >> /\ l.todo = {} /\ l.reg = r
  BY DEF NoLocals
<1>2. NoLocals \in LocalsType
  BY DEF LocalsType, NoLocals
<1>3. l \in LocalsType
  BY <1>2 DEF LocalsType
<1> QED BY <1>1, <1>3

\* Starting the loop over a symbolic function pointer preserves IndInv.
LEMMA ExecCallKeeps == IndInv /\ ExecCall => IndInv'
<1> SUFFICES ASSUME IndInv, ExecCall PROVE IndInv'
  OBVIOUS
<1> DEFINE l == [NoLocals EXCEPT !.reg = current, !.fuel = MaxTargets]
<1>1. pc \in HandlerPcs /\ Goto("call", ex, l) /\ "call" \in HandlerPcs
  BY DEF ExecCall, HandlerPcs
<1>2. /\ ContainersInv(ex) /\ current \in ex.states /\ current \in Live(ex)
      /\ current \in State /\ current # Null
  BY <1>1, HandlerFacts
<1>3. l \in LocalsType /\ l.res = << >> /\ l.todo = {} /\ l.reg = current
  <2>1. MaxTargets \in Nat
    BY ConfigAssumption
  <2> QED BY <1>2, <2>1, RegLocalsType
<1> HIDE DEF l
<1>4. LocalsOK("call", ex, l, current)
  BY <1>2, <1>3, RegLocalsOK
<1> QED BY <1>1, <1>2, <1>3, <1>4, GotoKeeps

\* Starting the loop over a resolution list preserves IndInv.
LEMMA ExecMemoryKeeps == IndInv /\ ExecMemory => IndInv'
<1> SUFFICES ASSUME IndInv, ExecMemory PROVE IndInv'
  OBVIOUS
<1>0. PICK k \in 0..MaxTargets :
        Goto("mem", ex, [NoLocals EXCEPT !.reg = current, !.fuel = k])
  BY DEF ExecMemory
<1> DEFINE l == [NoLocals EXCEPT !.reg = current, !.fuel = k]
<1>1. pc \in HandlerPcs /\ Goto("mem", ex, l) /\ "mem" \in HandlerPcs
  BY <1>0 DEF ExecMemory, HandlerPcs
<1>2. /\ ContainersInv(ex) /\ current \in ex.states /\ current \in Live(ex)
      /\ current \in State /\ current # Null
  BY <1>1, HandlerFacts
<1>3. l \in LocalsType /\ l.res = << >> /\ l.todo = {} /\ l.reg = current
  <2>1. k \in Nat
    BY ConfigAssumption
  <2> QED BY <1>2, <2>1, RegLocalsType
<1> HIDE DEF l
<1>4. LocalsOK("mem", ex, l, current)
  BY <1>2, <1>3, RegLocalsOK
<1> QED BY <1>1, <1>2, <1>3, <1>4, GotoKeeps

\* executeFree up to its call of resolveExact preserves IndInv.
LEMMA ExecFreeKeeps == IndInv /\ ExecFree => IndInv'
<1> SUFFICES ASSUME IndInv, ExecFree PROVE IndInv'
  OBVIOUS
<1>1. pc \in HandlerPcs /\ "resolve" \in HandlerPcs
  BY DEF ExecFree, HandlerPcs
<1>2. /\ ContainersInv(ex) /\ current \in ex.states /\ current \in Live(ex)
      /\ current \in State /\ current # Null
  BY <1>1, HandlerFacts
<1>3. PICK zero \in fork(ex, current), k \in 0..MaxTargets :
        IF zero.f = Null THEN Finish(zero.x)
        ELSE Goto("resolve", zero.x, [NoLocals EXCEPT !.reg = zero.f, !.fuel = k])
  BY DEF ExecFree
<1>4. ForkPost(ex, current, zero)
  BY <1>2, ForkKeeps
<1>5. CASE zero.f = Null
  BY <1>1, <1>3, <1>4, <1>5, FinishKeeps DEF ForkPost
<1>6. CASE zero.f # Null
  <2> DEFINE l == [NoLocals EXCEPT !.reg = zero.f, !.fuel = k]
  <2>1. Goto("resolve", zero.x, l)
    BY <1>3, <1>6
  <2>2. zero.f \in Live(zero.x) /\ ContainersInv(zero.x) /\ zero.x.states = ex.states
    BY <1>4, <1>6 DEF ForkPost
  <2>3. zero.f \in State
    BY <2>2 DEF ContainersInv, ExecType, Live
  <2>4. l \in LocalsType /\ l.res = << >> /\ l.todo = {} /\ l.reg = zero.f
    <3>1. k \in Nat
      BY ConfigAssumption
    <3> QED BY <2>3, <3>1, RegLocalsType
  <2> HIDE DEF l
  <2>5. LocalsOK("resolve", zero.x, l, current)
    BY <1>2, <1>6, <2>2, <2>4, RegLocalsOK
  <2> QED BY <1>1, <2>1, <2>2, <2>4, <2>5, GotoKeeps
<1> QED BY <1>5, <1>6

\* What a handler may rely on when it goes on with the second result of a fork
\* and possibly terminated the first.
LEMMA AfterFork ==
  ASSUME NEW s, NEW o, s \in Live(ex), ForkPost(ex, s, o),
         NEW x \in {o.x} \cup (IF o.t # Null THEN {terminateState(o.x, o.t)} ELSE {})
  PROVE  /\ ContainersInv(x) /\ x.states = ex.states
         /\ o.f # Null => o.f \in Live(x) /\ o.f \in State
<1>1. /\ ContainersInv(o.x) /\ o.x.states = ex.states
      /\ o.f # Null => o.f \in Live(o.x)
  BY DEF ForkPost
<1>2. \A r \in Live(o.x) : r \in State
  BY <1>1 DEF ContainersInv, ExecType, Live
<1>3. CASE x = o.x
  BY <1>1, <1>2, <1>3
<1>4. CASE o.t # Null /\ x = terminateState(o.x, o.t)
  <2>1. /\ ContainersInv(x) /\ x.states = o.x.states
        /\ Live(o.x) \ {o.t} \subseteq Live(x)
    BY <1>1, <1>4, TerminateKeeps DEF ForkPost
  <2>2. o.f # Null => o.f # o.t
    BY <1>4 DEF ForkPost
  <2> QED BY <1>1, <1>2, <2>1, <2>2
<1> QED BY <1>3, <1>4

\* One object of a memory operation: fork() may end the unbound state, the bound
\* one may be ended after it, and what stays in `unbound' is still live.
LEMMA MemoryResolveKeeps == IndInv /\ MemoryResolve => IndInv'
<1> SUFFICES ASSUME IndInv, MemoryResolve PROVE IndInv'
  OBVIOUS
<1>1. pc = "mem" /\ pc \in HandlerPcs /\ "mem" \in HandlerPcs /\ lc.fuel > 0
  BY DEF MemoryResolve, HandlerPcs
<1>2. PICK o \in fork(ex, lc.reg) :
        \E x \in {o.x} \cup (IF o.t # Null THEN {terminateState(o.x, o.t)} ELSE {}) :
          IF o.f = Null THEN Finish(x)
          ELSE Goto("mem", x, [lc EXCEPT !.reg = o.f, !.fuel = @ - 1])
  BY DEF MemoryResolve
<1>3. PICK x \in {o.x} \cup (IF o.t # Null THEN {terminateState(o.x, o.t)} ELSE {}) :
        IF o.f = Null THEN Finish(x)
        ELSE Goto("mem", x, [lc EXCEPT !.reg = o.f, !.fuel = @ - 1])
  BY <1>2
<1>4. /\ ContainersInv(ex) /\ current \in ex.states /\ lc \in LocalsType
      /\ LocalsOK(pc, ex, lc, current)
  BY <1>1, HandlerFacts
<1>5. lc.reg \in Live(ex) /\ lc.res = << >> /\ lc.todo \subseteq ex.states
  BY <1>1, <1>4 DEF LocalsOK
<1>6. ForkPost(ex, lc.reg, o)
  BY <1>4, <1>5, ForkKeeps
<1>7. /\ ContainersInv(x) /\ x.states = ex.states
      /\ o.f # Null => o.f \in Live(x) /\ o.f \in State
  BY <1>5, <1>6, AfterFork
<1>8. CASE o.f = Null
  BY <1>1, <1>3, <1>7, <1>8, FinishKeeps
<1>9. CASE o.f # Null
  <2> DEFINE l == [lc EXCEPT !.reg = o.f, !.fuel = @ - 1]
  <2>1. Goto("mem", x, l)
    BY <1>3, <1>9
  <2>2. lc.fuel - 1 \in Nat
    BY <1>1, <1>4 DEF LocalsType
  <2>3. l \in LocalsType /\ l.res = lc.res /\ l.todo = lc.todo /\ l.reg = o.f
    BY <1>4, <1>7, <1>9, <2>2 DEF LocalsType
  <2> HIDE DEF l
  <2>4. LocalsOK("mem", x, l, current)
    BY <1>4, <1>5, <1>7, <1>9, <2>3, RegLocalsOK
  <2> QED BY <1>1, <1>7, <2>1, <2>3, <2>4, GotoKeeps
<1> QED BY <1>8, <1>9

\* Ending the state that no object bound preserves IndInv.
LEMMA MemoryUnboundKeeps == IndInv /\ MemoryUnbound => IndInv'
<1> SUFFICES ASSUME IndInv, MemoryUnbound PROVE IndInv'
  OBVIOUS
<1> DEFINE x == terminateState(ex, lc.reg)
<1>1. pc = "mem" /\ pc \in HandlerPcs /\ Finish(x)
  BY DEF MemoryUnbound, HandlerPcs
<1>2. ContainersInv(ex) /\ LocalsOK(pc, ex, lc, current)
  BY <1>1, HandlerFacts
<1>3. lc.reg \in Live(ex)
  BY <1>1, <1>2 DEF LocalsOK
<1>4. ContainersInv(x) /\ x.states = ex.states
  BY <1>2, <1>3, TerminateKeeps
<1> HIDE DEF x
<1> QED BY <1>1, <1>4, FinishKeeps

\* free = res.second keeps the invariant whatever became of res.first.
LEMMA NextFreeKeeps ==
  ASSUME IndInv, pc = "call", NEW x, NEW f, NEW invalid \in BOOLEAN,
         f # Null => lc.fuel > 0,
         ContainersInv(x), x.states = ex.states, f # Null => f \in Live(x) /\ f \in State,
         NextFree(x, f, invalid)
  PROVE  IndInv'
<1>1. pc \in HandlerPcs /\ "call" \in HandlerPcs
  BY DEF HandlerPcs
<1>2. /\ current \in ex.states /\ lc \in LocalsType /\ LocalsOK(pc, ex, lc, current)
  BY <1>1, HandlerFacts
<1>3. lc.res = << >> /\ lc.todo \subseteq ex.states
  BY <1>2 DEF LocalsOK
<1>4. CASE f = Null
  BY <1>1, <1>4, FinishKeeps DEF NextFree
<1>5. CASE f # Null
  <2> DEFINE l == [lc EXCEPT !.reg = f, !.fuel = @ - 1, !.hasInvalid = invalid]
  <2>1. Goto("call", x, l)
    BY <1>5 DEF NextFree
  <2>2. lc.fuel - 1 \in Nat
    BY <1>2, <1>5 DEF LocalsType
  <2>3. l \in LocalsType /\ l.res = lc.res /\ l.todo = lc.todo /\ l.reg = f
    BY <1>2, <1>5, <2>2 DEF LocalsType
  <2> HIDE DEF l
  <2>4. LocalsOK("call", x, l, current)
    BY <1>2, <1>3, <1>5, <2>3, RegLocalsOK
  <2> QED BY <1>1, <2>1, <2>3, <2>4, GotoKeeps
<1> QED BY <1>4, <1>5

\* One target of a symbolic call preserves IndInv, its failing branches included.
LEMMA CallResolveKeeps == IndInv /\ CallResolve => IndInv'
<1> SUFFICES ASSUME IndInv, CallResolve PROVE IndInv'
  OBVIOUS
<1>1. pc = "call" /\ pc \in HandlerPcs
  BY DEF CallResolve, HandlerPcs
<1>2. PICK o \in fork(ex, lc.reg) :
        /\ o.f # Null => lc.fuel > 0
        /\ \/ NextFree(o.x, o.f, lc.hasInvalid)
           \/ o.t # Null /\ NextFree(terminateState(o.x, o.t), o.f, lc.hasInvalid)
           \/ o.t \in o.x.added /\ "invoke" \in Program /\ Crash("destroyed state")
           \/ /\ o.t # Null /\ "illegalFunction" \in Program
              /\ NextFree(IF lc.hasInvalid THEN o.x ELSE terminateState(o.x, current),
                          o.f, TRUE)
  BY DEF CallResolve
<1>3. /\ ContainersInv(ex) /\ current \in ex.states /\ lc \in LocalsType
      /\ LocalsOK(pc, ex, lc, current)
  BY <1>1, HandlerFacts
<1>4. lc.reg \in Live(ex) /\ lc.hasInvalid \in BOOLEAN
  BY <1>1, <1>3 DEF LocalsOK, LocalsType
<1>5. ForkPost(ex, lc.reg, o)
  BY <1>3, <1>4, ForkKeeps
<1>6. ASSUME NEW x \in {o.x} \cup (IF o.t # Null THEN {terminateState(o.x, o.t)} ELSE {})
      PROVE  /\ ContainersInv(x) /\ x.states = ex.states
             /\ o.f # Null => o.f \in Live(x) /\ o.f \in State
  BY <1>4, <1>5, AfterFork
<1>7. CASE NextFree(o.x, o.f, lc.hasInvalid)
  BY <1>1, <1>2, <1>4, <1>6, <1>7, NextFreeKeeps
<1>8. CASE o.t # Null /\ NextFree(terminateState(o.x, o.t), o.f, lc.hasInvalid)
  BY <1>1, <1>2, <1>4, <1>6, <1>8, NextFreeKeeps
<1>9. CASE Crash("destroyed state")
  BY <1>9, CrashKeeps DEF Faults
<1>10. CASE NextFree(IF lc.hasInvalid THEN o.x ELSE terminateState(o.x, current), o.f, TRUE)
  <2>1. CASE lc.hasInvalid
    BY <1>1, <1>2, <1>6, <1>10, <2>1, NextFreeKeeps
  <2>2. CASE ~lc.hasInvalid
    <3> DEFINE x == terminateState(o.x, current)
    <3>1. /\ ContainersInv(o.x) /\ o.x.states = ex.states
          /\ o.f # Null => o.f \in Live(o.x) /\ o.f \in State
      BY <1>6
    <3>2. current \in o.x.states /\ current \in Live(o.x)
      BY <1>3, <3>1 DEF Live
    <3>3. ContainersInv(x) /\ x.states = ex.states /\ Live(x) = Live(o.x)
      BY <3>1, <3>2, TerminateKeeps
    <3>4. NextFree(x, o.f, TRUE)
      BY <1>10, <2>2
    <3> HIDE DEF x
    <3> QED BY <1>1, <1>2, <3>1, <3>3, <3>4, NextFreeKeeps
  <2> QED BY <2>1, <2>2
<1> QED BY <1>2, <1>7, <1>8, <1>9, <1>10

\* Appending a state that a list does not name keeps its entries distinct.
LEMMA DistinctAppend ==
  ASSUME NEW S, NEW q \in Seq(S), NEW e \in S, e \notin RangeOf(q),
         \A i, j \in DOMAIN q : q[i] = q[j] /\ q[i] # Null => i = j
  PROVE  LET a == Append(q, e) IN
         \A i, j \in DOMAIN a : a[i] = a[j] /\ a[i] # Null => i = j
<1> DEFINE a == Append(q, e)
<1>1. Len(q) \in Nat /\ DOMAIN q = 1..Len(q) /\ DOMAIN a = 1..Len(q) + 1
  OBVIOUS
<1>2. (\A i \in 1..Len(q) : a[i] = q[i]) /\ a[Len(q) + 1] = e
  OBVIOUS
<1> HIDE DEF a
<1>3. \A i \in 1..Len(q) : q[i] # e
  BY <1>1 DEF RangeOf
<1>4. ASSUME NEW i \in DOMAIN a, NEW j \in DOMAIN a, a[i] = a[j], a[i] # Null
      PROVE  i = j
  <2>1. CASE i \in 1..Len(q) /\ j \in 1..Len(q)
    BY <1>1, <1>2, <1>4, <2>1
  <2>2. CASE i = Len(q) + 1 \/ j = Len(q) + 1
    BY <1>1, <1>2, <1>3, <1>4, <2>2
  <2> QED BY <1>1, <2>1, <2>2
<1> QED BY <1>4 DEF a

\* What is left of a list of distinct states after its first one.
LEMMA TailFacts ==
  ASSUME NEW S, NEW q \in Seq(S), q # << >>,
         \A i, j \in DOMAIN q : q[i] = q[j] /\ q[i] # Null => i = j
  PROVE  /\ Tail(q) \in Seq(S) /\ Head(q) \in RangeOf(q)
         /\ RangeOf(Tail(q)) \subseteq RangeOf(q)
         /\ Head(q) # Null => Head(q) \notin RangeOf(Tail(q))
         /\ \A i, j \in DOMAIN Tail(q) : Tail(q)[i] = Tail(q)[j] /\ Tail(q)[i] # Null => i = j
<1> DEFINE r == Tail(q)
<1>1. /\ Len(q) \in Nat /\ Len(q) > 0 /\ DOMAIN q = 1..Len(q)
      /\ r \in Seq(S) /\ DOMAIN r = 1..Len(q) - 1 /\ Head(q) = q[1]
  OBVIOUS
<1>2. \A i \in 1..Len(q) - 1 : r[i] = q[i + 1]
  OBVIOUS
<1> HIDE DEF r
<1>3. Head(q) \in RangeOf(q)
  BY <1>1 DEF RangeOf
<1>4. RangeOf(r) \subseteq RangeOf(q)
  <2>1. \A i \in DOMAIN r : i + 1 \in DOMAIN q /\ r[i] = q[i + 1]
    BY <1>1, <1>2
  <2> QED BY <2>1 DEF RangeOf
<1>5. \A i \in DOMAIN r : i + 1 \in DOMAIN q /\ r[i] = q[i + 1] /\ i + 1 # 1
  BY <1>1, <1>2
<1>6. Head(q) # Null => Head(q) \notin RangeOf(r)
  <2>1. 1 \in DOMAIN q
    BY <1>1
  <2> QED BY <1>1, <1>5, <2>1 DEF RangeOf
<1>7. \A i, j \in DOMAIN r : r[i] = r[j] /\ r[i] # Null => i = j
  BY <1>1, <1>5
<1> QED BY <1>1, <1>3, <1>4, <1>6, <1>7 DEF r

\* An object of the list keeps the invariant: the bound state joins the results,
\* which the unbound one is not among.
LEMMA ResolveExactKeeps == IndInv /\ ResolveExact => IndInv'
<1> SUFFICES ASSUME IndInv, ResolveExact PROVE IndInv'
  OBVIOUS
<1>1. pc = "resolve" /\ pc \in HandlerPcs /\ "resolve" \in HandlerPcs
      /\ lc.fuel > 0 /\ lc.reg # Null
  BY DEF ResolveExact, HandlerPcs
<1>2. PICK o \in fork(ex, lc.reg) :
        Goto("resolve", o.x,
             [lc EXCEPT !.reg = o.f, !.fuel = @ - 1,
                        !.res = IF o.t = Null THEN @ ELSE Append(@, o.t)])
  BY DEF ResolveExact
<1>3. /\ ContainersInv(ex) /\ current \in ex.states /\ lc \in LocalsType
      /\ LocalsOK(pc, ex, lc, current)
  BY <1>1, HandlerFacts
<1>4. /\ lc.reg \in Live(ex) /\ lc.reg \notin RangeOf(lc.res)
      /\ RangeOf(lc.res) \subseteq Live(ex) /\ lc.todo \subseteq ex.states
      /\ \A i, j \in DOMAIN lc.res : lc.res[i] = lc.res[j] /\ lc.res[i] # Null => i = j
  BY <1>1, <1>3 DEF LocalsOK
<1>5. ForkPost(ex, lc.reg, o)
  BY <1>3, <1>4, ForkKeeps
<1>6. /\ ContainersInv(o.x) /\ o.x.states = ex.states /\ ex.next \notin Live(ex)
      /\ Live(ex) \ {lc.reg} \subseteq Live(o.x)
      /\ o.t \in {Null, lc.reg} /\ (o.t # Null => o.t \in Live(o.x))
      /\ o.f # Null => o.f \in Live(o.x)
      /\ o.f \in {Null, lc.reg, ex.next} /\ (o.t # Null => o.f \in {Null, ex.next})
  BY <1>5 DEF ForkPost
<1>7. \A r \in Live(o.x) : r \in State /\ r # Null
  BY <1>6, NullNoState DEF ContainersInv, ExecType, Live
<1>8. lc.res \in Seq(State \cup {Null}) /\ lc.fuel - 1 \in Nat
  BY <1>1, <1>3 DEF LocalsType
<1> DEFINE res == IF o.t = Null THEN lc.res ELSE Append(lc.res, o.t)
           l == [lc EXCEPT !.reg = o.f, !.fuel = @ - 1,
                           !.res = IF o.t = Null THEN @ ELSE Append(@, o.t)]
<1>9. /\ res \in Seq(State \cup {Null})
      /\ RangeOf(res) = RangeOf(lc.res) \cup (IF o.t = Null THEN {} ELSE {o.t})
      /\ \A i, j \in DOMAIN res : res[i] = res[j] /\ res[i] # Null => i = j
  <2>1. CASE o.t = Null
    BY <1>4, <1>8, <2>1
  <2>2. CASE o.t # Null
    <3>1. o.t \in State \cup {Null} /\ o.t \notin RangeOf(lc.res) /\ res = Append(lc.res, o.t)
      BY <1>4, <1>6, <1>7, <2>2
    <3>2. /\ Append(lc.res, o.t) \in Seq(State \cup {Null})
          /\ RangeOf(Append(lc.res, o.t)) = RangeOf(lc.res) \cup {o.t}
      BY <1>8, <3>1, RangeAppend
    <3>3. \A i, j \in DOMAIN Append(lc.res, o.t) :
             Append(lc.res, o.t)[i] = Append(lc.res, o.t)[j] /\ Append(lc.res, o.t)[i] # Null => i = j
      BY <1>4, <1>8, <3>1, DistinctAppend
    <3> QED BY <2>2, <3>1, <3>2, <3>3
  <2> QED BY <2>1, <2>2
<1>10. l \in LocalsType /\ l.res = res /\ l.todo = lc.todo /\ l.reg = o.f
  BY <1>3, <1>6, <1>7, <1>8, <1>9 DEF LocalsType
<1>11. Goto("resolve", o.x, l)
  BY <1>2
<1> HIDE DEF l, res
<1>12. RangeOf(res) \subseteq Live(o.x) /\ Null \notin RangeOf(res)
  BY <1>4, <1>6, <1>7, <1>9
<1>13. o.f # Null => o.f \notin RangeOf(res)
  BY <1>4, <1>6, <1>9
<1>14. LocalsOK("resolve", o.x, l, current)
  BY <1>3, <1>4, <1>6, <1>9, <1>10, <1>12, <1>13 DEF LocalsOK
<1> QED BY <1>1, <1>6, <1>10, <1>11, <1>14, GotoKeeps

\* The end of resolveExact keeps the invariant.
LEMMA ResolveDoneKeeps == IndInv /\ ResolveDone => IndInv'
<1> SUFFICES ASSUME IndInv, ResolveDone PROVE IndInv'
  OBVIOUS
<1> DEFINE x == IF lc.reg = Null THEN ex ELSE terminateState(ex, lc.reg)
           l == [lc EXCEPT !.reg = Null, !.fuel = 0]
<1>1. pc = "resolve" /\ pc \in HandlerPcs /\ "free" \in HandlerPcs /\ Goto("free", x, l)
  BY DEF ResolveDone, HandlerPcs
<1>2. /\ ContainersInv(ex) /\ current \in ex.states /\ lc \in LocalsType
      /\ LocalsOK(pc, ex, lc, current)
  BY <1>1, HandlerFacts
<1>3. /\ lc.reg # Null => lc.reg \in Live(ex) /\ lc.reg \notin RangeOf(lc.res)
      /\ RangeOf(lc.res) \subseteq Live(ex) \cup {Null} /\ lc.todo \subseteq ex.states
      /\ Null \notin RangeOf(lc.res)
      /\ \A i, j \in DOMAIN lc.res : lc.res[i] = lc.res[j] /\ lc.res[i] # Null => i = j
  BY <1>1, <1>2 DEF LocalsOK
<1>4. /\ ContainersInv(x) /\ x.states = ex.states
      /\ RangeOf(lc.res) \subseteq Live(x)
  <2>1. CASE lc.reg = Null
    BY <1>2, <1>3, <2>1
  <2>2. CASE lc.reg # Null
    <3>1. x = terminateState(ex, lc.reg) /\ lc.reg \in Live(ex)
      BY <1>3, <2>2
    <3>2. /\ ContainersInv(terminateState(ex, lc.reg))
          /\ terminateState(ex, lc.reg).states = ex.states
          /\ Live(ex) \ {lc.reg} \subseteq Live(terminateState(ex, lc.reg))
      BY <1>2, <3>1, TerminateKeeps
    <3> QED BY <1>3, <2>2, <3>1, <3>2
  <2> QED BY <2>1, <2>2
<1>5. l \in LocalsType /\ l.res = lc.res /\ l.todo = lc.todo /\ l.reg = Null
  BY <1>2 DEF LocalsType
<1> HIDE DEF x, l
<1>6. LocalsOK("free", x, l, current)
  BY <1>2, <1>3, <1>4, <1>5 DEF LocalsOK
<1> QED BY <1>1, <1>4, <1>5, <1>6, GotoKeeps

\* Freeing, or terminating, one result keeps the invariant: the others stay live.
LEMMA FreeResultsKeeps == IndInv /\ FreeResults => IndInv'
<1> SUFFICES ASSUME IndInv, FreeResults PROVE IndInv'
  OBVIOUS
<1>1. pc = "free" /\ pc \in HandlerPcs /\ "free" \in HandlerPcs
  BY DEF FreeResults, HandlerPcs
<1>2. /\ ContainersInv(ex) /\ current \in ex.states /\ lc \in LocalsType
      /\ LocalsOK(pc, ex, lc, current)
  BY <1>1, HandlerFacts
<1>3. CASE lc.res = << >>
  BY <1>1, <1>2, <1>3, FinishKeeps DEF FreeResults
<1>4. CASE lc.res # << >>
  <2> DEFINE l == [lc EXCEPT !.res = Tail(@)]
             h == Head(lc.res)
  <2>1. PICK x \in {ex, terminateState(ex, h)} : Goto("free", x, l)
    BY <1>4 DEF FreeResults
  <2>2. /\ lc.res \in Seq(State \cup {Null})
        /\ lc.reg # Null => lc.reg \in Live(ex) /\ lc.reg \notin RangeOf(lc.res)
        /\ RangeOf(lc.res) \subseteq Live(ex) \cup {Null} /\ lc.todo \subseteq ex.states
        /\ Null \notin RangeOf(lc.res)
        /\ \A i, j \in DOMAIN lc.res : lc.res[i] = lc.res[j] /\ lc.res[i] # Null => i = j
    BY <1>1, <1>2 DEF LocalsOK, LocalsType
  <2>3. /\ Tail(lc.res) \in Seq(State \cup {Null}) /\ h \in RangeOf(lc.res)
        /\ RangeOf(Tail(lc.res)) \subseteq RangeOf(lc.res)
        /\ h # Null => h \notin RangeOf(Tail(lc.res))
        /\ \A i, j \in DOMAIN Tail(lc.res) :
             Tail(lc.res)[i] = Tail(lc.res)[j] /\ Tail(lc.res)[i] # Null => i = j
    BY <1>4, <2>2, TailFacts
  <2>4. h # Null /\ h \in Live(ex)
    BY <2>2, <2>3
  <2>5. /\ ContainersInv(x) /\ x.states = ex.states
        /\ Live(ex) \ {h} \subseteq Live(x)
    <3>1. CASE x = ex
      BY <1>2, <3>1
    <3>2. CASE x = terminateState(ex, h)
      BY <1>2, <2>4, <3>2, TerminateKeeps
    <3> QED BY <3>1, <3>2
  <2>6. l \in LocalsType /\ l.res = Tail(lc.res) /\ l.todo = lc.todo /\ l.reg = lc.reg
    BY <1>2, <2>3 DEF LocalsType
  <2>7. RangeOf(l.res) \subseteq Live(x)
    BY <2>2, <2>3, <2>4, <2>5, <2>6
  <2>8. l.reg # Null => l.reg \in Live(x) /\ l.reg \notin RangeOf(l.res)
    BY <2>2, <2>3, <2>5, <2>6
  <2>9. \A i, j \in DOMAIN l.res : l.res[i] = l.res[j] /\ l.res[i] # Null => i = j
    BY <2>3, <2>6
  <2>10. Null \notin RangeOf(l.res)
    BY <2>2, <2>3, <2>6
  <2> HIDE DEF l, h
  <2>11. LocalsOK("free", x, l, current)
    BY <1>2, <2>2, <2>5, <2>6, <2>7, <2>8, <2>9, <2>10 DEF LocalsOK
  <2> QED BY <1>1, <2>1, <2>5, <2>6, <2>11, GotoKeeps
<1> QED BY <1>3, <1>4

\* branch() on entry: the state alone, or max-forks and one random entry.
LEMMA ExecBranchKeeps == IndInv /\ ExecBranch => IndInv'
<1> SUFFICES ASSUME IndInv, ExecBranch PROVE IndInv'
  OBVIOUS
<1>1. pc \in HandlerPcs /\ "branch" \in HandlerPcs /\ "seeds" \in HandlerPcs
  BY DEF ExecBranch, HandlerPcs
<1>2. /\ ContainersInv(ex) /\ current \in ex.states /\ current \in Live(ex)
      /\ current \in State /\ current # Null /\ ExecType(ex)
  BY <1>1, HandlerFacts
<1>3. PICK N \in 1..MaxTargets, illegal \in BOOLEAN :
        IF forks(ex) >= MaxForks
        THEN \E i \in 1..N :
               Goto("seeds", ex,
                    [NoLocals EXCEPT !.width = N, !.illegal = illegal,
                       !.res = [j \in 1..N |-> IF j = i THEN current ELSE Null]])
        ELSE /\ ex.next + N - 1 <= MaxStates + 1
             /\ Goto("branch", NoteFeature(ex, current),
                     [NoLocals EXCEPT !.width = N, !.illegal = illegal,
                                      !.res = <<current>>])
  BY DEF ExecBranch
<1>4. N \in Nat /\ N > 0
  BY ConfigAssumption
<1>5. NoLocals \in LocalsType
  BY DEF LocalsType, NoLocals
<1>6. CASE forks(ex) >= MaxForks
  <2>1. PICK i \in 1..N :
          Goto("seeds", ex,
               [NoLocals EXCEPT !.width = N, !.illegal = illegal,
                  !.res = [j \in 1..N |-> IF j = i THEN current ELSE Null]])
    BY <1>3, <1>6
  <2> DEFINE res == [j \in 1..N |-> IF j = i THEN current ELSE Null]
             l == [NoLocals EXCEPT !.width = N, !.illegal = illegal, !.res = res]
  <2>2. /\ res \in Seq(State \cup {Null}) /\ Len(res) = N /\ DOMAIN res = 1..N
        /\ \A j \in 1..N : res[j] = IF j = i THEN current ELSE Null
    BY <1>2, <1>4
  <2>3. l.res = res /\ l.width = N /\ l.todo = {} /\ l.reg = Null
    BY DEF NoLocals
  <2>4. l \in LocalsType
    BY <1>4, <1>5, <2>2 DEF LocalsType
  <2>5. Goto("seeds", ex, l)
    BY <2>1
  <2> HIDE DEF res, l
  <2>6. RangeOf(res) \subseteq Live(ex) \cup {Null} /\ current \in RangeOf(res)
    BY <1>2, <2>2 DEF RangeOf
  <2>7. \A j, k \in DOMAIN res : res[j] = res[k] /\ res[j] # Null => j = k
    BY <2>2
  <2>8. LocalsOK("seeds", ex, l, current)
    BY <1>2, <1>4, <2>2, <2>3, <2>6, <2>7 DEF LocalsOK
  <2> QED BY <1>1, <1>2, <2>4, <2>5, <2>8, GotoKeeps
<1>7. CASE ~(forks(ex) >= MaxForks)
  <2> DEFINE x == NoteFeature(ex, current)
             l == [NoLocals EXCEPT !.width = N, !.illegal = illegal, !.res = <<current>>]
  <2>1. ex.next + N - 1 <= MaxStates + 1 /\ Goto("branch", x, l)
    BY <1>3, <1>7
  <2>2. ContainersInv(x) /\ Live(x) = Live(ex) /\ x.states = ex.states /\ x.next = ex.next
    BY <1>2, NoteFeatureKeeps
  <2>3. l.res = <<current>> /\ l.width = N /\ l.todo = {} /\ l.reg = Null
    BY DEF NoLocals
  <2>4. l \in LocalsType
    <3>1. <<current>> \in Seq(State \cup {Null})
      BY <1>2
    <3> QED BY <1>4, <1>5, <3>1 DEF LocalsType
  <2> HIDE DEF x, l
  <2>5. DOMAIN l.res = {1} /\ l.res[1] = current /\ Len(l.res) = 1
    BY <2>3
  <2>6. RangeOf(l.res) = {current}
    BY <2>5 DEF RangeOf
  <2>7. Len(l.res) <= l.width /\ x.next + l.width - Len(l.res) <= MaxStates + 1
    BY <1>2, <1>4, <2>1, <2>2, <2>3, <2>5 DEF ExecType
  <2>8. \A i, j \in DOMAIN l.res : l.res[i] = l.res[j] /\ l.res[i] # Null => i = j
    BY <2>5
  <2>9. LocalsOK("branch", x, l, current)
    BY <1>2, <2>2, <2>3, <2>6, <2>7, <2>8 DEF LocalsOK
  <2> QED BY <1>1, <2>1, <2>2, <2>4, <2>9, GotoKeeps
<1> QED BY <1>6, <1>7

\* What the loop of branch() relies on.
LEMMA BranchFacts ==
  ASSUME IndInv, pc \in {"branch", "seeds", "prune", "branched"}
  PROVE  /\ pc \in HandlerPcs
         /\ ContainersInv(ex) /\ current \in ex.states /\ lc \in LocalsType
         /\ current \in State /\ ExecType(ex)
         /\ lc.res \in Seq(State \cup {Null}) /\ Len(lc.res) \in Nat
         /\ DOMAIN lc.res = 1..Len(lc.res) /\ lc.width \in Nat
         /\ RangeOf(lc.res) \subseteq Live(ex) \cup {Null}
         /\ \A i, j \in DOMAIN lc.res : lc.res[i] = lc.res[j] /\ lc.res[i] # Null => i = j
         /\ lc.reg # Null => lc.reg \in Live(ex) /\ lc.reg \notin RangeOf(lc.res)
         /\ lc.todo \subseteq ex.states
         /\ LocalsOK(pc, ex, lc, current)
<1>1. pc \in HandlerPcs
  BY DEF HandlerPcs
<1>2. /\ ContainersInv(ex) /\ current \in ex.states /\ lc \in LocalsType
      /\ LocalsOK(pc, ex, lc, current) /\ current \in State /\ ExecType(ex)
  BY <1>1, HandlerFacts
<1>3. lc.res \in Seq(State \cup {Null}) /\ lc.width \in Nat
  BY <1>2 DEF LocalsType
<1>4. Len(lc.res) \in Nat /\ DOMAIN lc.res = 1..Len(lc.res)
  BY <1>3
<1> QED BY <1>1, <1>2, <1>3, <1>4 DEF LocalsOK

\* One more state of branch(): the new state is not among the earlier ones.
LEMMA BranchGrowKeeps == IndInv /\ BranchGrow => IndInv'
<1> SUFFICES ASSUME IndInv, BranchGrow PROVE IndInv'
  OBVIOUS
<1>1. pc = "branch" /\ Len(lc.res) < lc.width /\ "branch" \in HandlerPcs
  BY DEF BranchGrow, HandlerPcs
<1>2. /\ pc \in HandlerPcs
      /\ ContainersInv(ex) /\ current \in ex.states /\ lc \in LocalsType /\ ExecType(ex)
      /\ lc.res \in Seq(State \cup {Null}) /\ Len(lc.res) \in Nat
      /\ DOMAIN lc.res = 1..Len(lc.res) /\ lc.width \in Nat
      /\ RangeOf(lc.res) \subseteq Live(ex) \cup {Null}
      /\ \A i, j \in DOMAIN lc.res : lc.res[i] = lc.res[j] /\ lc.res[i] # Null => i = j
      /\ lc.reg # Null => lc.reg \in Live(ex) /\ lc.reg \notin RangeOf(lc.res)
      /\ lc.todo \subseteq ex.states
      /\ LocalsOK(pc, ex, lc, current)
  BY <1>1, BranchFacts
<1>3. /\ Null \notin RangeOf(lc.res) /\ current \in RangeOf(lc.res)
      /\ Len(lc.res) <= lc.width /\ ex.next + lc.width - Len(lc.res) <= MaxStates + 1
  BY <1>1, <1>2 DEF LocalsOK
<1> DEFINE l == [lc EXCEPT !.res = Append(@, ex.next)]
<1>4. PICK i \in 1..Len(lc.res) : Goto("branch", Split(ex, lc.res[i]), l)
  BY DEF BranchGrow
<1>5. lc.res[i] \in Live(ex)
  BY <1>2, <1>3 DEF RangeOf
<1>6. ex.next <= MaxStates
  BY <1>1, <1>2, <1>3, ConfigAssumption DEF ExecType
<1> DEFINE x == Split(ex, lc.res[i])
<1>7. /\ ContainersInv(x) /\ Live(x) = Live(ex) \cup {ex.next} /\ x.states = ex.states
      /\ ex.next \in State /\ ex.next \notin Live(ex)
  BY <1>2, <1>5, <1>6, SplitKeeps
<1>8. x.next = ex.next + 1
  <2>1. DOMAIN ex = ExecFields
    BY <1>2 DEF ExecType
  <2> QED BY <2>1, SplitFields
<1>9. ex.next \notin RangeOf(lc.res) /\ ex.next # Null
  BY <1>2, <1>3, <1>7, NullNoState
<1> DEFINE a == Append(lc.res, ex.next)
<1>10. a \in Seq(State \cup {Null}) /\ RangeOf(a) = RangeOf(lc.res) \cup {ex.next}
       /\ Len(a) = Len(lc.res) + 1
  BY <1>2, <1>7, RangeAppend
<1>11. \A j, k \in DOMAIN a : a[j] = a[k] /\ a[j] # Null => j = k
  <2>1. ex.next \in State \cup {Null} /\ lc.res \in Seq(State \cup {Null})
    BY <1>2, <1>7
  <2>2. \A h, j \in DOMAIN lc.res : lc.res[h] = lc.res[j] /\ lc.res[h] # Null => h = j
    BY <1>2
  <2> HIDE DEF x, l
  <2> QED BY <1>9, <2>1, <2>2, DistinctAppend, SMTT(30)
<1>12. l \in LocalsType /\ l.res = a /\ l.todo = lc.todo /\ l.reg = lc.reg /\ l.width = lc.width
  BY <1>2, <1>10 DEF LocalsType
<1>13. Goto("branch", x, l)
  BY <1>4
<1> HIDE DEF x, l, a
<1>14. Len(a) <= l.width /\ x.next + l.width - Len(a) <= MaxStates + 1
  BY <1>1, <1>2, <1>3, <1>8, <1>10, <1>12, ConfigAssumption, SMTT(30) DEF ExecType
<1>15. /\ RangeOf(a) \subseteq Live(x) \cup {Null} /\ Null \notin RangeOf(a)
       /\ current \in RangeOf(a)
       /\ l.reg # Null => l.reg \in Live(x) /\ l.reg \notin RangeOf(a)
  BY <1>2, <1>3, <1>7, <1>9, <1>10, <1>12
<1>16. LocalsOK("branch", x, l, current)
  BY <1>2, <1>7, <1>11, <1>12, <1>14, <1>15 DEF LocalsOK
<1> QED BY <1>1, <1>2, <1>7, <1>12, <1>13, <1>16, GotoKeeps

\* All states of branch() exist.
LEMMA BranchGrownKeeps == IndInv /\ BranchGrown => IndInv'
<1> SUFFICES ASSUME IndInv, BranchGrown PROVE IndInv'
  OBVIOUS
<1>1. /\ pc = "branch" /\ Len(lc.res) = lc.width /\ Goto("seeds", ex, lc)
      /\ "seeds" \in HandlerPcs
  BY DEF BranchGrown, HandlerPcs
<1>2. /\ pc \in HandlerPcs /\ ContainersInv(ex) /\ lc \in LocalsType
      /\ Len(lc.res) \in Nat /\ DOMAIN lc.res = 1..Len(lc.res)
      /\ LocalsOK(pc, ex, lc, current)
  BY <1>1, BranchFacts
<1>3. lc.width > 0
  <2>1. current \in RangeOf(lc.res)
    BY <1>1, <1>2 DEF LocalsOK
  <2> QED BY <1>1, <1>2, <2>1 DEF RangeOf
<1>4. LocalsOK("seeds", ex, lc, current)
  BY <1>1, <1>2, <1>3 DEF LocalsOK
<1> QED BY <1>1, <1>2, <1>4, GotoKeeps

\* The locals of branch() suit its next stage as they are.
LEMMA BranchLocals ==
  ASSUME NEW p \in {"seeds", "prune"}, NEW q \in {"prune", "branched"}, NEW x, NEW y, NEW l,
         NEW c, LocalsOK(p, x, l, c), Live(y) = Live(x), y.states = x.states
  PROVE  LocalsOK(q, y, l, c)
<1>1. p \in HandlerPcs
  BY DEF HandlerPcs
<1> QED BY <1>1 DEF LocalsOK

\* The redistribution of the seeds keeps each seed with one live owner.
LEMMA BranchSeedsKeeps == IndInv /\ BranchSeeds => IndInv'
<1> SUFFICES ASSUME IndInv, BranchSeeds PROVE IndInv'
  OBVIOUS
<1>1. pc = "seeds" /\ "prune" \in HandlerPcs /\ "branched" \in HandlerPcs
  BY DEF BranchSeeds, HandlerPcs
<1>2. /\ pc \in HandlerPcs
      /\ ContainersInv(ex) /\ current \in ex.states /\ lc \in LocalsType /\ ExecType(ex)
      /\ RangeOf(lc.res) \subseteq Live(ex) \cup {Null} /\ current \in State
      /\ LocalsOK(pc, ex, lc, current)
  BY <1>1, BranchFacts
<1>3. current \in RangeOf(lc.res)
  BY <1>1, <1>2 DEF LocalsOK
<1>4. CASE ex.seeds[current] = {}
  <2>1. Goto("branched", ex, lc)
    BY <1>4 DEF BranchSeeds
  <2>2. LocalsOK("branched", ex, lc, current)
    BY <1>1, <1>2, BranchLocals
  <2> QED BY <1>1, <1>2, <2>1, <2>2, GotoKeeps
<1>5. CASE ex.seeds[current] # {}
  <2>1. PICK to \in [ex.seeds[current] -> 1..lc.width] :
          LET taken(s) == {d \in ex.seeds[current] : lc.res[to[d]] = s} IN
          Goto(IF OnlyReplaySeeds THEN "prune" ELSE "branched",
               [ex EXCEPT !.seeds =
                  [s \in State |-> IF s \in RangeOf(lc.res) THEN taken(s) ELSE ex.seeds[s]]],
               lc)
    BY <1>5 DEF BranchSeeds
  <2> DEFINE taken(s) == {d \in ex.seeds[current] : lc.res[to[d]] = s}
             new == [s \in State |-> IF s \in RangeOf(lc.res) THEN taken(s) ELSE ex.seeds[s]]
             y == [ex EXCEPT !.seeds = new]
             p == IF OnlyReplaySeeds THEN "prune" ELSE "branched"
  <2>2. Goto(p, y, lc) /\ p \in {"prune", "branched"}
    BY <2>1
  <2>x. DOMAIN ex = ExecFields /\ Accounted(ex) /\ ex.seeds \in [State -> SUBSET Seeds]
    BY <1>2 DEF ContainersInv, ExecType
  <2>3. /\ DOMAIN y = ExecFields /\ y.next = ex.next /\ y.states = ex.states
        /\ y.added = ex.added /\ y.removed = ex.removed /\ y.freed = ex.freed
        /\ y.tree = ex.tree /\ y.node = ex.node /\ y.depth = ex.depth
        /\ y.feature = ex.feature /\ y.seeds = new
    BY <2>x DEF ExecFields
  <2>4. new \in [State -> SUBSET Seeds]
    BY <1>2, <2>x
  <2>5. ASSUME NEW r \in State
        PROVE  /\ r \in RangeOf(lc.res) => new[r] = taken(r)
               /\ r \notin RangeOf(lc.res) => new[r] = ex.seeds[r]
    OBVIOUS
  <2> HIDE DEF y, new, p
  <2>6. Live(y) = Live(ex)
    BY <2>3 DEF Live
  <2>7. ExecType(y)
    BY <1>2, <2>3, <2>4 DEF ExecType
  <2>8. SeedsDisjoint(y)
    <3>1. SeedsDisjoint(ex)
      BY <1>2 DEF ContainersInv
    <3>2. ASSUME NEW r \in State, NEW s \in State, r # s
          PROVE  new[r] \cap new[s] = {}
      <4>1. CASE r \in RangeOf(lc.res) /\ s \in RangeOf(lc.res)
        BY <2>5, <3>2, <4>1
      <4>2. CASE r \in RangeOf(lc.res) /\ s \notin RangeOf(lc.res)
        BY <1>2, <1>3, <2>5, <3>1, <4>2 DEF SeedsDisjoint
      <4>3. CASE r \notin RangeOf(lc.res) /\ s \in RangeOf(lc.res)
        BY <1>2, <1>3, <2>5, <3>1, <4>3 DEF SeedsDisjoint
      <4>4. CASE r \notin RangeOf(lc.res) /\ s \notin RangeOf(lc.res)
        BY <2>5, <3>1, <3>2, <4>4 DEF SeedsDisjoint
      <4> QED BY <4>1, <4>2, <4>3, <4>4
    <3> QED BY <2>3, <3>2 DEF SeedsDisjoint
  <2>9. \A r \in State : y.seeds[r] # {} => r \in Live(y)
    <3>1. \A r \in State : ex.seeds[r] # {} => r \in Live(ex)
      BY <1>2 DEF ContainersInv
    <3> QED BY <1>2, <2>3, <2>5, <2>6, <3>1, NullNoState
  <2>10. ContainersInv(y)
    <3>1. y.feature \subseteq Live(y) /\ RangeOf(y.removed) \subseteq y.states \cup y.freed
      BY <1>2, <2>3, <2>6 DEF ContainersInv
    <3>2. y.states \cap y.added = {}
      BY <2>3, <2>x DEF Accounted
    <3> QED BY <1>2, <2>3, <2>6, <2>7, <2>8, <2>9, <3>1, <3>2, SameLiveKeeps
  <2>11. LocalsOK(p, y, lc, current)
    BY <1>1, <1>2, <2>2, <2>3, <2>6, BranchLocals
  <2> QED BY <1>1, <1>2, <2>2, <2>3, <2>10, <2>11, GotoKeeps
<1> QED BY <1>4, <1>5

\* Terminating a result without seeds keeps the invariant: it occurs once.
LEMMA BranchPruneKeeps == IndInv /\ BranchPrune => IndInv'
<1> SUFFICES ASSUME IndInv, BranchPrune PROVE IndInv'
  OBVIOUS
<1>1. pc = "prune" /\ "prune" \in HandlerPcs /\ "branched" \in HandlerPcs
  BY DEF BranchPrune, HandlerPcs
<1>2. /\ pc \in HandlerPcs
      /\ ContainersInv(ex) /\ current \in ex.states /\ lc \in LocalsType
      /\ lc.res \in Seq(State \cup {Null}) /\ Len(lc.res) \in Nat
      /\ DOMAIN lc.res = 1..Len(lc.res)
      /\ RangeOf(lc.res) \subseteq Live(ex) \cup {Null}
      /\ \A i, j \in DOMAIN lc.res : lc.res[i] = lc.res[j] /\ lc.res[i] # Null => i = j
      /\ lc.reg # Null => lc.reg \in Live(ex) /\ lc.reg \notin RangeOf(lc.res)
      /\ lc.todo \subseteq ex.states
      /\ LocalsOK(pc, ex, lc, current)
  BY <1>1, BranchFacts
<1>3. CASE Unseeded = {}
  <2>1. Goto("branched", ex, lc)
    BY <1>3 DEF BranchPrune
  <2>2. LocalsOK("branched", ex, lc, current)
    BY <1>1, <1>2, BranchLocals
  <2> QED BY <1>1, <1>2, <2>1, <2>2, GotoKeeps
<1>4. CASE Unseeded # {}
  <2>1. PICK i \in Unseeded :
          Goto("prune", terminateState(ex, lc.res[i]),
               [lc EXCEPT !.res = [lc.res EXCEPT ![i] = Null]])
    BY <1>4 DEF BranchPrune
  <2> DEFINE x == terminateState(ex, lc.res[i])
             r == [lc.res EXCEPT ![i] = Null]
             l == [lc EXCEPT !.res = r]
  <2>2. i \in 1..Len(lc.res) /\ lc.res[i] # Null
    BY DEF Unseeded
  <2>3. lc.res[i] \in Live(ex)
    BY <1>2, <2>2 DEF RangeOf
  <2>4. /\ ContainersInv(x) /\ x.states = ex.states
        /\ Live(ex) \ {lc.res[i]} \subseteq Live(x)
    BY <1>2, <2>3, TerminateKeeps
  <2>5. /\ r \in Seq(State \cup {Null}) /\ Len(r) = Len(lc.res) /\ DOMAIN r = DOMAIN lc.res
        /\ r[i] = Null /\ \A j \in DOMAIN lc.res \ {i} : r[j] = lc.res[j]
    BY <1>2, <2>2
  <2>6. l \in LocalsType /\ l.res = r /\ l.todo = lc.todo /\ l.reg = lc.reg /\ l.width = lc.width
    BY <1>2, <2>5 DEF LocalsType
  <2>7. Goto("prune", x, l)
    BY <2>1
  <2> HIDE DEF x, r, l
  <2>8. RangeOf(r) \subseteq Live(x) \cup {Null}
    <3>1. ASSUME NEW j \in DOMAIN r PROVE r[j] \in Live(x) \cup {Null}
      <4>1. CASE j = i
        BY <2>5, <4>1
      <4>2. CASE j # i
        <5>1. r[j] = lc.res[j] /\ lc.res[j] \in Live(ex) \cup {Null}
          BY <1>2, <2>5, <4>2 DEF RangeOf
        <5>2. lc.res[j] # Null => lc.res[j] # lc.res[i]
          BY <1>2, <2>2, <2>5, <4>2
        <5> QED BY <2>4, <5>1, <5>2
      <4> QED BY <4>1, <4>2
    <3> QED BY <3>1 DEF RangeOf
  <2>9. \A j, k \in DOMAIN r : r[j] = r[k] /\ r[j] # Null => j = k
    BY <1>2, <2>5
  <2>10. lc.reg # Null => lc.reg \in Live(x) /\ lc.reg \notin RangeOf(r)
    <3>1. lc.reg # Null => lc.reg \notin RangeOf(r)
      BY <1>2, <2>5 DEF RangeOf
    <3>2. lc.reg # Null => lc.reg # lc.res[i]
      BY <1>2, <2>2 DEF RangeOf
    <3> QED BY <1>2, <2>4, <3>1, <3>2
  <2>11. Len(lc.res) = lc.width /\ lc.width > 0
    BY <1>1, <1>2 DEF LocalsOK
  <2>12. LocalsOK("prune", x, l, current)
    BY <1>2, <2>4, <2>5, <2>6, <2>8, <2>9, <2>10, <2>11 DEF LocalsOK
  <2> QED BY <1>1, <1>2, <2>4, <2>6, <2>7, <2>12, GotoKeeps
<1> QED BY <1>3, <1>4

\* The end of a branch() keeps the invariant, also when its error case dies.
LEMMA BranchReturnKeeps == IndInv /\ BranchReturn => IndInv'
<1> SUFFICES ASSUME IndInv, BranchReturn PROVE IndInv'
  OBVIOUS
<1>1. pc = "branched"
  BY DEF BranchReturn
<1>2. /\ pc \in HandlerPcs /\ ContainersInv(ex) /\ Len(lc.res) \in Nat
      /\ DOMAIN lc.res = 1..Len(lc.res) /\ RangeOf(lc.res) \subseteq Live(ex) \cup {Null}
      /\ LocalsOK(pc, ex, lc, current)
  BY <1>1, BranchFacts
<1> DEFINE back == lc.res[Len(lc.res)]
           x == terminateState(ex, back)
<1>3. CASE ~lc.illegal
  BY <1>2, <1>3, FinishKeeps DEF BranchReturn
<1>4. CASE lc.illegal /\ back = Null
  <2>1. Crash("null state")
    BY <1>4 DEF BranchReturn
  <2> QED BY <2>1, CrashKeeps DEF Faults
<1>5. CASE lc.illegal /\ back # Null
  <2>1. Finish(x)
    BY <1>5 DEF BranchReturn
  <2>2. Len(lc.res) > 0
    BY <1>1, <1>2 DEF LocalsOK
  <2>3. back \in Live(ex)
    BY <1>2, <1>5, <2>2 DEF RangeOf
  <2>4. ContainersInv(x) /\ x.states = ex.states
    BY <1>2, <2>3, TerminateKeeps
  <2> HIDE DEF x
  <2> QED BY <1>2, <2>1, <2>4, FinishKeeps
<1> QED BY <1>3, <1>4, <1>5

(***************************************************************************)
(* Steps of the interpreter loop                                           *)
(***************************************************************************)

\* The conjuncts of the invariant after a step, for the containers x it leaves.
LEMMA StepKeeps ==
  ASSUME NEW x, ContainersInv(x), ex' = x,
         pc' \in HandlerPcs \cup LoopPcs, phase' \in {"seeding", "searching"},
         {ending', haltExecution', atMemoryLimit'} \subseteq BOOLEAN,
         current' \in State \cup {Null}, held' \subseteq State, lc' \in LocalsType,
         fault' \in Faults, LocalsOK(pc', x, lc', current'), SearcherInv'
  PROVE  IndInv'
<1>1. ContainersInv(ex') /\ ExecType(ex') /\ LocalsOK(pc', ex', lc', current')
  BY DEF ContainersInv
<1>2. ContainersInv(ex)'
  BY <1>1 DEF ContainersInv, ExecType, Accounted, SeedsDisjoint, TreeInv
<1>3. LocalsOK(pc, ex, lc, current)'
  BY <1>1 DEF LocalsOK
<1>4. TypeOK'
  BY <1>1 DEF TypeOK, ExecType, HandlerPcs, LoopPcs, LocalsType
<1> QED BY <1>2, <1>3, <1>4 DEF IndInv

\* The types of the scalar variables.
LEMMA ScalarTypes ==
  ASSUME IndInv
  PROVE  /\ phase \in {"seeding", "searching"}
         /\ {ending, haltExecution, atMemoryLimit} \subseteq BOOLEAN
         /\ current \in State \cup {Null} /\ held \subseteq State /\ lc \in LocalsType
         /\ fault \in Faults /\ ContainersInv(ex) /\ LocalsOK(pc, ex, lc, current)
         /\ SearcherInv /\ pc \in HandlerPcs \cup LoopPcs
  BY DEF IndInv, TypeOK

\* A step that moves the loop from one of its places to the next.
LEMMA MoveKeeps ==
  ASSUME IndInv, NEW p \in LoopPcs, NEW l \in LocalsType,
         pc' = p, lc' = l, LocalsOK(p, ex, l, current), SearcherInv',
         ending' \in BOOLEAN, atMemoryLimit' \in BOOLEAN,
         UNCHANGED <<ex, phase, current, haltExecution, held, fault>>
  PROVE  IndInv'
  BY ScalarTypes, StepKeeps

\* Forgetting states of featureStates keeps the containers consistent.
LEMMA ForgetKeeps ==
  ASSUME NEW x, ContainersInv(x), NEW F, F \subseteq x.feature
  PROVE  LET y == [x EXCEPT !.feature = F] IN
         /\ ContainersInv(y) /\ y.states = x.states /\ y.added = x.added
         /\ y.removed = x.removed
<1> DEFINE y == [x EXCEPT !.feature = F]
<1>x. ExecType(x) /\ Accounted(x) /\ DOMAIN x = ExecFields
  BY DEF ContainersInv, ExecType
<1>1. /\ DOMAIN y = ExecFields /\ y.next = x.next /\ y.states = x.states
      /\ y.added = x.added /\ y.removed = x.removed /\ y.freed = x.freed
      /\ y.tree = x.tree /\ y.node = x.node /\ y.depth = x.depth /\ y.seeds = x.seeds
      /\ y.feature = F
  BY <1>x DEF ExecFields
<1> HIDE DEF y
<1>2. Live(y) = Live(x)
  BY <1>1 DEF Live
<1>3. ExecType(y)
  <2>1. y.feature \subseteq State
    BY <1>1, <1>x DEF ExecType
  <2> QED BY <2>1, <1>1, <1>x DEF ExecType
<1>4. ContainersInv(y)
  <2>1. y.feature \subseteq Live(y)
    BY <1>1, <1>2 DEF ContainersInv
  <2>2. SeedsDisjoint(y)
    BY <1>1 DEF ContainersInv, SeedsDisjoint
  <2>3. y.states \cap y.added = {}
    BY <1>1, <1>x DEF Accounted
  <2>4. RangeOf(y.removed) \subseteq y.states \cup y.freed
    BY <1>1 DEF ContainersInv
  <2>5. \A r \in State : y.seeds[r] # {} => r \in Live(y)
    BY <1>1, <1>2 DEF ContainersInv
  <2> QED BY <1>1, <1>2, <1>3, <2>1, <2>2, <2>3, <2>4, <2>5, SameLiveKeeps
<1> QED BY <1>1, <1>4 DEF y

\* Starting an instruction of a state of the executor keeps the invariant.
LEMMA ExecuteKeeps ==
  ASSUME IndInv, pc = "loop", NEW s \in ex.states, NEW F, F \subseteq ex.feature,
         Execute(s, F)
  PROVE  IndInv'
<1> DEFINE x == [ex EXCEPT !.feature = F]
<1>1. /\ pc' = "exec" /\ current' = s /\ ex' = x
      /\ UNCHANGED <<phase, ending, lc, haltExecution, atMemoryLimit, held, fault>>
  BY DEF Execute
<1>2. /\ ContainersInv(ex) /\ LocalsOK(pc, ex, lc, current) /\ SearcherInv
  BY ScalarTypes
<1>3. ContainersInv(x) /\ x.states = ex.states /\ x.added = ex.added /\ x.removed = ex.removed
  BY <1>2, ForgetKeeps
<1> HIDE DEF x
<1>4. lc = NoLocals
  BY <1>2 DEF LocalsOK
<1>5. LocalsOK("exec", x, NoLocals, s) /\ NoLocals \in LocalsType
  BY <1>3, NoLocalsOK
<1>6. SearcherInv'
  BY <1>1, <1>2, <1>3 DEF SearcherInv
<1>7. s \in State \cup {Null} /\ "exec" \in HandlerPcs
  BY <1>2 DEF ContainersInv, ExecType, HandlerPcs
<1> QED BY <1>1, <1>3, <1>4, <1>5, <1>6, <1>7, ScalarTypes, StepKeeps

\* A state with seeds is a state of the executor when the seeding loop takes it.
LEMMA SeedSelectKeeps == IndInv /\ SeedSelect => IndInv'
<1> SUFFICES ASSUME IndInv, SeedSelect PROVE IndInv'
  OBVIOUS
<1>1. pc = "loop" /\ \E s \in SeedMap : Execute(s, ex.feature)
  BY DEF SeedSelect
<1>2. PICK s \in SeedMap : Execute(s, ex.feature)
  BY <1>1
<1>3. s \in ex.states
  <2>1. s \in Live(ex)
    BY ScalarTypes DEF SeedMap, ContainersInv
  <2>2. ex.added = {}
    BY <1>1, ScalarTypes DEF SearcherInv
  <2> QED BY <2>1, <2>2 DEF Live
<1> QED BY <1>1, <1>2, <1>3, ExecuteKeeps

\* The searcher only selects states of the executor.
LEMMA SelectKeeps == IndInv /\ Select => IndInv'
<1> SUFFICES ASSUME IndInv, Select PROVE IndInv'
  OBVIOUS
<1>1. /\ pc = "loop" /\ phase = "searching"
      /\ \E s \in held, features \in {{}, ex.feature} : Execute(s, features)
  BY DEF Select
<1>2. PICK s \in held, F \in {{}, ex.feature} : Execute(s, F)
  BY <1>1
<1>3. s \in ex.states
  BY <1>1, ScalarTypes DEF SearcherInv
<1> QED BY <1>1, <1>2, <1>3, ExecuteKeeps

\* The locals of a loop that kills some of states.
LEMMA VictimsOK ==
  ASSUME NEW x, ContainersInv(x), NEW V \in SUBSET x.states, NEW c \in x.states \cup {Null}
  PROVE  LET l == [NoLocals EXCEPT !.todo = V] IN
         l \in LocalsType /\ LocalsOK("kill", x, l, c)
<1> DEFINE l == [NoLocals EXCEPT !.todo = V]
<1>1. NoLocals \in LocalsType /\ "kill" \notin HandlerPcs
  BY DEF LocalsType, NoLocals, HandlerPcs
<1>2. V \subseteq State
  BY DEF ContainersInv, ExecType
<1>3. l \in LocalsType
  BY <1>1, <1>2 DEF LocalsType
<1>4. l.res = << >> /\ l.todo = V /\ l.reg = Null
  BY DEF NoLocals
<1> HIDE DEF l
<1>5. RangeOf(l.res) = {} /\ DOMAIN l.res = {}
  BY <1>4 DEF RangeOf
<1>6. LocalsOK("kill", x, l, c)
  BY <1>1, <1>4, <1>5 DEF LocalsOK
<1> QED BY <1>3, <1>6 DEF l

\* doDumpStates kills states of the executor only.
LEMMA DumpKeeps ==
  ASSUME IndInv, pc \in {"loop", "seeded"}, Dump
  PROVE  IndInv'
<1>1. /\ ending' = TRUE /\ UNCHANGED <<ex, phase, current, haltExecution, atMemoryLimit, held, fault>>
      /\ \/ pc' = "kill" /\ lc' = [NoLocals EXCEPT !.todo = ex.states]
         \/ pc' = "done" /\ lc' = NoLocals
  BY DEF Dump
<1>2. /\ ContainersInv(ex) /\ LocalsOK(pc, ex, lc, current) /\ SearcherInv
      /\ atMemoryLimit \in BOOLEAN
  BY ScalarTypes
<1>3. current = Null
  BY <1>2 DEF LocalsOK
<1>4. SearcherInv'
  BY <1>1, <1>2 DEF SearcherInv
<1>5. CASE pc' = "done" /\ lc' = NoLocals
  <2>1. LocalsOK("done", ex, NoLocals, current) /\ NoLocals \in LocalsType
    <3>1. "done" \notin HandlerPcs
      BY DEF HandlerPcs
    <3> QED BY <3>1, NoLocalsOK
  <2> QED BY <1>1, <1>2, <1>4, <1>5, <2>1, MoveKeeps DEF LoopPcs
<1>6. CASE pc' = "kill" /\ lc' = [NoLocals EXCEPT !.todo = ex.states]
  <2>1. /\ lc' \in LocalsType /\ LocalsOK("kill", ex, lc', current)
    BY <1>2, <1>3, <1>6, VictimsOK
  <2> QED BY <1>1, <1>2, <1>4, <1>6, <2>1, MoveKeeps DEF LoopPcs
<1> QED BY <1>1, <1>5, <1>6

\* The steps between instructions that leave the containers alone.
LEMMA QuietStepsKeep ==
  IndInv /\ (SeedHalted \/ SeedStop \/ SearchStop \/ SeedsDone \/ Timers \/ MemorySkip) => IndInv'
<1> SUFFICES ASSUME IndInv,
                    SeedHalted \/ SeedStop \/ SearchStop \/ SeedsDone \/ Timers \/ MemorySkip
             PROVE  IndInv'
  OBVIOUS
<1>1. CASE SeedHalted \/ SeedStop \/ SearchStop
  <2>1. pc \in {"loop", "seeded"} /\ Dump
    BY <1>1 DEF SeedHalted, SeedStop, SearchStop
  <2> QED BY <2>1, DumpKeeps
<1>2. CASE SeedsDone \/ Timers \/ MemorySkip
  <2>1. /\ ContainersInv(ex) /\ LocalsOK(pc, ex, lc, current) /\ SearcherInv
        /\ ending \in BOOLEAN /\ atMemoryLimit \in BOOLEAN /\ phase \in {"seeding", "searching"}
    BY ScalarTypes
  <2>2. PICK p \in {"seeded", "memory", "update"} :
          /\ Goto(p, ex, lc)
          /\ \/ pc = "loop" /\ p = "seeded" /\ phase = "seeding"
             \/ pc \in {"timers", "memory"} /\ p \in {"memory", "update"}
    <3>1. CASE SeedsDone
      BY <3>1 DEF SeedsDone
    <3>2. CASE Timers
      BY <3>2 DEF Timers
    <3>3. CASE MemorySkip
      BY <3>3 DEF MemorySkip
    <3> QED BY <1>2, <3>1, <3>2, <3>3
  <2>3. /\ pc' = p /\ ex' = ex /\ lc' = lc
        /\ UNCHANGED <<phase, ending, current, haltExecution, atMemoryLimit, held, fault>>
    BY <2>2 DEF Goto
  <2>4. lc = NoLocals /\ (p \in {"memory", "update"} => current \in ex.states \cup {Null})
        /\ (p = "seeded" => current = Null)
    BY <2>1, <2>2 DEF LocalsOK
  <2>5. LocalsOK(p, ex, NoLocals, current) /\ NoLocals \in LocalsType
    <3>1. p \notin HandlerPcs
      BY DEF HandlerPcs
    <3> QED BY <2>4, <3>1, NoLocalsOK
  <2>6. SearcherInv'
    BY <2>1, <2>2, <2>3 DEF SearcherInv
  <2> QED BY <2>1, <2>3, <2>4, <2>5, <2>6, MoveKeeps DEF LoopPcs
<1> QED BY <1>1, <1>2

\* The searcher starts with all states.
LEMMA StartSearchKeeps == IndInv /\ StartSearch => IndInv'
<1> SUFFICES ASSUME IndInv, StartSearch PROVE IndInv'
  OBVIOUS
<1>1. /\ pc = "seeded" /\ pc' = "loop" /\ phase' = "searching" /\ held' = ex.states
      /\ UNCHANGED <<ex, ending, current, lc, haltExecution, atMemoryLimit, fault>>
  BY DEF StartSearch
<1>2. /\ ContainersInv(ex) /\ LocalsOK(pc, ex, lc, current) /\ SearcherInv
  BY ScalarTypes
<1>3. lc = NoLocals /\ current = Null
  BY <1>1, <1>2 DEF LocalsOK
<1>4. LocalsOK("loop", ex, NoLocals, current)
  <2>1. "loop" \notin HandlerPcs
    BY DEF HandlerPcs
  <2> QED BY <1>3, <2>1, NoLocalsOK
<1>5. SearcherInv'
  BY <1>1, <1>2 DEF SearcherInv
<1>6. ex.states \subseteq State
  BY <1>2 DEF ContainersInv, ExecType
<1> QED BY <1>1, <1>2, <1>3, <1>4, <1>5, <1>6, ScalarTypes, StepKeeps DEF LoopPcs

\* checkMemoryUsage picks its victims among states.
LEMMA MemoryCheckKeeps == IndInv /\ MemoryCheck => IndInv'
<1> SUFFICES ASSUME IndInv, MemoryCheck PROVE IndInv'
  OBVIOUS
<1>1. PICK over \in BOOLEAN, victims \in SUBSET ex.states :
        /\ atMemoryLimit' = over
        /\ pc' = "kill" /\ lc' = [NoLocals EXCEPT !.todo = victims]
  BY DEF MemoryCheck
<1>2. /\ pc = "memory"
      /\ UNCHANGED <<ex, phase, ending, current, haltExecution, held, fault>>
  BY DEF MemoryCheck
<1>3. /\ ContainersInv(ex) /\ LocalsOK(pc, ex, lc, current) /\ SearcherInv /\ ending \in BOOLEAN
  BY ScalarTypes
<1>4. current \in ex.states \cup {Null}
  BY <1>2, <1>3 DEF LocalsOK
<1>5. lc' \in LocalsType /\ LocalsOK("kill", ex, lc', current)
  BY <1>1, <1>3, <1>4, VictimsOK
<1>6. SearcherInv'
  BY <1>1, <1>2, <1>3 DEF SearcherInv
<1> QED BY <1>1, <1>2, <1>3, <1>5, <1>6, MoveKeeps DEF LoopPcs

\* Terminating a victim leaves it in states until updateStates.
LEMMA KillKeeps == IndInv /\ Kill => IndInv'
<1> SUFFICES ASSUME IndInv, Kill PROVE IndInv'
  OBVIOUS
<1>1. pc = "kill"
  BY DEF Kill
<1>2. /\ ContainersInv(ex) /\ LocalsOK(pc, ex, lc, current) /\ SearcherInv /\ lc \in LocalsType
      /\ ending \in BOOLEAN /\ atMemoryLimit \in BOOLEAN
  BY ScalarTypes
<1>3. current \in ex.states \cup {Null} /\ lc.todo \subseteq ex.states
  BY <1>1, <1>2 DEF LocalsOK
<1>4. CASE lc.todo = {}
  <2>1. /\ pc' = "update" /\ ex' = ex /\ lc' = NoLocals
        /\ UNCHANGED <<phase, ending, current, haltExecution, atMemoryLimit, held, fault>>
    BY <1>4 DEF Kill, Goto
  <2>2. LocalsOK("update", ex, NoLocals, current) /\ NoLocals \in LocalsType
    <3>1. "update" \notin HandlerPcs
      BY DEF HandlerPcs
    <3> QED BY <1>3, <3>1, NoLocalsOK
  <2>3. SearcherInv'
    BY <1>1, <1>2, <2>1 DEF SearcherInv
  <2> QED BY <1>2, <2>1, <2>2, <2>3, MoveKeeps DEF LoopPcs
<1>5. CASE lc.todo # {}
  <2>1. PICK s \in lc.todo : Goto("kill", terminateState(ex, s), [lc EXCEPT !.todo = @ \ {s}])
    BY <1>5 DEF Kill
  <2> DEFINE x == terminateState(ex, s)
             l == [lc EXCEPT !.todo = @ \ {s}]
  <2>2. /\ pc' = "kill" /\ ex' = x /\ lc' = l
        /\ UNCHANGED <<phase, ending, current, haltExecution, atMemoryLimit, held, fault>>
    BY <2>1 DEF Goto
  <2>3. s \in ex.states /\ s \in Live(ex)
    BY <1>3 DEF Live
  <2>4. ContainersInv(x) /\ x.states = ex.states /\ Live(x) = Live(ex)
    BY <1>2, <2>3, TerminateKeeps
  <2>5. /\ l \in LocalsType /\ l.todo = lc.todo \ {s} /\ l.res = lc.res /\ l.reg = lc.reg
    BY <1>2 DEF LocalsType
  <2> HIDE DEF x, l
  <2>6. LocalsOK("kill", x, l, current)
    <3>1. "kill" \notin HandlerPcs
      BY DEF HandlerPcs
    <3> QED BY <1>1, <1>2, <1>3, <2>4, <2>5, <3>1 DEF LocalsOK
  <2>7. SearcherInv'
    BY <1>1, <1>2, <2>2, <2>4 DEF SearcherInv
  <2> QED BY <1>2, <2>2, <2>4, <2>5, <2>6, <2>7, ScalarTypes, StepKeeps DEF LoopPcs
<1> QED BY <1>4, <1>5

\* updateStates up to its erasure loop: the searcher and states get the same
\* states.
LEMMA UpdateStatesKeeps == IndInv /\ UpdateStates => IndInv'
<1> SUFFICES ASSUME IndInv, UpdateStates PROVE IndInv'
  OBVIOUS
<1>1. CASE Crash("invalid state removed")
  BY <1>1, CrashKeeps DEF Faults
<1>2. CASE ~Crash("invalid state removed")
  <2> DEFINE x == [ex EXCEPT !.states = @ \cup ex.added, !.added = {}]
  <2>1. /\ pc = "update" /\ pc' = "erase" /\ ex' = x
        /\ held' = IF phase = "seeding" THEN held
                   ELSE (held \cup ex.added) \ RangeOf(ex.removed)
        /\ UNCHANGED <<phase, ending, current, lc, haltExecution, atMemoryLimit, fault>>
    BY <1>2 DEF UpdateStates
  <2>2. /\ ContainersInv(ex) /\ LocalsOK(pc, ex, lc, current) /\ SearcherInv
        /\ phase \in {"seeding", "searching"} /\ held \subseteq State
    BY ScalarTypes
  <2>x. ExecType(ex) /\ Accounted(ex) /\ DOMAIN ex = ExecFields
    BY <2>2 DEF ContainersInv, ExecType
  <2>3. /\ DOMAIN x = ExecFields /\ x.next = ex.next /\ x.states = ex.states \cup ex.added
        /\ x.added = {} /\ x.removed = ex.removed /\ x.freed = ex.freed
        /\ x.tree = ex.tree /\ x.node = ex.node /\ x.depth = ex.depth /\ x.seeds = ex.seeds
        /\ x.feature = ex.feature
    BY <2>x DEF ExecFields
  <2> HIDE DEF x
  <2>4. Live(x) = Live(ex)
    BY <2>3 DEF Live
  <2>5. ExecType(x)
    BY <2>3, <2>x DEF ExecType
  <2>6. ContainersInv(x)
    <3>1. x.feature \subseteq Live(x) /\ RangeOf(x.removed) \subseteq x.states \cup x.freed
      BY <2>2, <2>3, <2>4 DEF ContainersInv
    <3>2. SeedsDisjoint(x)
      BY <2>2, <2>3 DEF ContainersInv, SeedsDisjoint
    <3>3. \A r \in State : x.seeds[r] # {} => r \in Live(x)
      BY <2>2, <2>3, <2>4 DEF ContainersInv
    <3> QED BY <2>2, <2>3, <2>4, <2>5, <3>1, <3>2, <3>3, SameLiveKeeps
  <2>7. lc = NoLocals
    BY <2>1, <2>2 DEF LocalsOK
  <2>8. LocalsOK("erase", x, NoLocals, current)
    <3>1. "erase" \notin HandlerPcs
      BY DEF HandlerPcs
    <3> QED BY <3>1, NoLocalsOK
  <2>9. SearcherInv'
    BY <2>1, <2>2, <2>3 DEF SearcherInv
  <2>10. held' \subseteq State
    BY <2>1, <2>2, <2>x DEF ExecType
  <2> QED BY <2>1, <2>6, <2>7, <2>8, <2>9, <2>10, ScalarTypes, StepKeeps DEF LoopPcs
<1> QED BY <1>1, <1>2

\* The first entry of a list and the rest make up the list.
LEMMA RangeHeadTail ==
  ASSUME NEW S, NEW q \in Seq(S), q # << >>
  PROVE  Tail(q) \in Seq(S) /\ RangeOf(q) = {Head(q)} \cup RangeOf(Tail(q))
<1> DEFINE r == Tail(q)
<1>1. /\ Len(q) \in Nat /\ Len(q) > 0 /\ DOMAIN q = 1..Len(q)
      /\ r \in Seq(S) /\ DOMAIN r = 1..Len(q) - 1 /\ Head(q) = q[1]
  OBVIOUS
<1>2. \A i \in 1..Len(q) - 1 : r[i] = q[i + 1]
  OBVIOUS
<1> HIDE DEF r
<1>3. {Head(q)} \cup RangeOf(r) \subseteq RangeOf(q)
  <2>1. \A i \in DOMAIN r : i + 1 \in DOMAIN q /\ r[i] = q[i + 1]
    BY <1>1, <1>2
  <2>2. 1 \in DOMAIN q
    BY <1>1
  <2> QED BY <1>1, <2>1, <2>2 DEF RangeOf
<1>4. ASSUME NEW i \in DOMAIN q PROVE q[i] \in {Head(q)} \cup RangeOf(r)
  <2>1. CASE i = 1
    BY <1>1, <2>1
  <2>2. CASE i # 1
    <3>1. i - 1 \in DOMAIN r /\ r[i - 1] = q[i]
      BY <1>1, <1>2, <2>2
    <3> QED BY <3>1 DEF RangeOf
  <2> QED BY <2>1, <2>2
<1>5. RangeOf(q) \subseteq {Head(q)} \cup RangeOf(r)
  BY <1>4 DEF RangeOf
<1> QED BY <1>1, <1>3, <1>5 DEF r

\* Erasing a removed state: the searcher has let go of it before.
LEMMA EraseStateKeeps == IndInv /\ EraseState => IndInv'
<1> SUFFICES ASSUME IndInv, EraseState PROVE IndInv'
  OBVIOUS
<1> DEFINE es == Head(ex.removed)
           d == Delete(ex, es)
           x == [d EXCEPT !.removed = Tail(@)]
<1>1. pc = "erase" /\ ex.removed # << >>
  BY DEF EraseState
<1>2. CASE es \in ex.freed
  <2>1. Crash("use after free")
    BY <1>2 DEF EraseState
  <2> QED BY <2>1, CrashKeeps DEF Faults
<1>3. CASE es \notin ex.freed
  <2>1. Goto("erase", x, lc)
    BY <1>3 DEF EraseState
  <2>2. /\ pc' = "erase" /\ ex' = x /\ lc' = lc
        /\ UNCHANGED <<phase, ending, current, haltExecution, atMemoryLimit, held, fault>>
    BY <2>1 DEF Goto
  <2>3. /\ ContainersInv(ex) /\ LocalsOK(pc, ex, lc, current) /\ SearcherInv
    BY ScalarTypes
  <2>4. ex.removed \in Seq(State)
    BY <2>3 DEF ContainersInv, ExecType
  <2>5. /\ Tail(ex.removed) \in Seq(State)
        /\ RangeOf(ex.removed) = {es} \cup RangeOf(Tail(ex.removed))
    BY <1>1, <2>4, RangeHeadTail
  <2>6. es \in ex.states /\ es \in Live(ex)
    BY <1>3, <2>3, <2>5 DEF ContainersInv, Live
  <2>7. /\ ContainersInv(d) /\ d.states = ex.states \ {es} /\ d.added = ex.added \ {es}
        /\ d.removed = ex.removed
    BY <2>3, <2>6, DeleteKeeps
  <2> HIDE DEF d
  <2>x. ExecType(d) /\ Accounted(d) /\ DOMAIN d = ExecFields
    BY <2>7 DEF ContainersInv, ExecType
  <2>8. /\ DOMAIN x = ExecFields /\ x.next = d.next /\ x.states = d.states
        /\ x.added = d.added /\ x.removed = Tail(ex.removed) /\ x.freed = d.freed
        /\ x.tree = d.tree /\ x.node = d.node /\ x.depth = d.depth /\ x.seeds = d.seeds
        /\ x.feature = d.feature
    BY <2>7, <2>x DEF ExecFields
  <2> HIDE DEF x
  <2>9. Live(x) = Live(d)
    BY <2>8 DEF Live
  <2>10. ExecType(x)
    BY <2>5, <2>8, <2>x DEF ExecType
  <2>11. ContainersInv(x)
    <3>1. x.feature \subseteq Live(x)
      BY <2>7, <2>8, <2>9 DEF ContainersInv
    <3>2. RangeOf(x.removed) \subseteq x.states \cup x.freed
      BY <2>5, <2>7, <2>8 DEF ContainersInv
    <3>3. SeedsDisjoint(x)
      BY <2>7, <2>8 DEF ContainersInv, SeedsDisjoint
    <3>4. \A r \in State : x.seeds[r] # {} => r \in Live(x)
      BY <2>7, <2>8, <2>9 DEF ContainersInv
    <3>5. x.states \cap x.added = {}
      BY <2>8, <2>x DEF Accounted
    <3> QED BY <2>7, <2>8, <2>9, <2>10, <3>1, <3>2, <3>3, <3>4, <3>5, SameLiveKeeps
  <2>12. lc = NoLocals
    BY <1>1, <2>3 DEF LocalsOK
  <2>13. LocalsOK("erase", x, NoLocals, current)
    <3>1. "erase" \notin HandlerPcs
      BY DEF HandlerPcs
    <3> QED BY <3>1, NoLocalsOK
  <2>14. SearcherInv'
    <3>1. x.added = {} /\ x.states = ex.states \ {es} /\ x.removed = Tail(ex.removed)
      BY <1>1, <2>3, <2>7, <2>8 DEF SearcherInv
    <3>2. held \subseteq ex.states /\ (phase = "seeding" => held = {})
          /\ (phase = "searching" => held = ex.states \ RangeOf(ex.removed))
      BY <1>1, <2>3 DEF SearcherInv
    <3>3. /\ phase = "searching" => held = x.states \ RangeOf(x.removed)
          /\ held \subseteq x.states
      BY <2>5, <3>1, <3>2, ScalarTypes
    <3> QED BY <2>2, <3>1, <3>2, <3>3 DEF SearcherInv
  <2> QED BY <2>2, <2>11, <2>12, <2>13, <2>14, ScalarTypes, StepKeeps DEF LoopPcs
<1> QED BY <1>2, <1>3

\* After the erasure loop the searcher holds the states again.
LEMMA EndStepKeeps == IndInv /\ EndStep => IndInv'
<1> SUFFICES ASSUME IndInv, EndStep PROVE IndInv'
  OBVIOUS
<1>1. /\ pc = "erase" /\ ex.removed = << >> /\ pc' \in {"done", "loop", "seeded"}
      /\ current' = Null
      /\ UNCHANGED <<ex, phase, ending, lc, haltExecution, atMemoryLimit, held, fault>>
  BY DEF EndStep
<1>2. /\ ContainersInv(ex) /\ LocalsOK(pc, ex, lc, current) /\ SearcherInv
  BY ScalarTypes
<1>3. lc = NoLocals
  BY <1>1, <1>2 DEF LocalsOK
<1>4. LocalsOK(pc', ex, NoLocals, Null)
  <2>1. pc' \notin HandlerPcs
    BY <1>1 DEF HandlerPcs
  <2> QED BY <1>1, <2>1, NoLocalsOK
<1>5. RangeOf(ex.removed) = {}
  BY <1>1 DEF RangeOf
<1>6. SearcherInv'
  BY <1>1, <1>2, <1>5 DEF SearcherInv
<1> QED BY <1>1, <1>2, <1>3, <1>4, <1>6, ScalarTypes, StepKeeps DEF LoopPcs

\* haltExecution touches nothing else, and a stuttering step nothing at all.
LEMMA HaltKeeps == IndInv /\ (Halt \/ UNCHANGED vars) => IndInv'
<1> SUFFICES ASSUME IndInv, Halt \/ UNCHANGED vars PROVE IndInv'
  OBVIOUS
<1>1. /\ UNCHANGED <<ex, pc, phase, ending, current, lc, atMemoryLimit, held, fault>>
      /\ haltExecution' \in {haltExecution, TRUE}
  BY DEF Halt, vars
<1>2. /\ ContainersInv(ex) /\ LocalsOK(pc, ex, lc, current) /\ SearcherInv
  BY ScalarTypes
<1>3. SearcherInv'
  BY <1>1, <1>2 DEF SearcherInv
<1> QED BY <1>1, <1>2, <1>3, ScalarTypes, StepKeeps

(***************************************************************************)
(* The theorems                                                            *)
(***************************************************************************)

\* The tree of runFunctionAsMain: a root that is a leaf.
LEMMA NewTreeShape ==
  ASSUME NEW s, s # Null
  PROVE  /\ WellFormed(NewTree(s)) /\ LeavesCarryStates(NewTree(s))
         /\ ReachesState(NewTree(s))
<1> DEFINE t == NewTree(s)
<1>1. DOMAIN t = {Root} /\ t[Root] = s
  BY DEF NewTree
<1> HIDE DEF t
<1>2. Root \in PTreeNode /\ Len(Root) = 0
  BY DEF Root, PTreeNode
<1>3. ASSUME NEW a \in PTreeNode, IsAbove(a, Root) PROVE a = Root
  <2>1. a \in Seq({0, 1}) /\ Len(a) \in Nat /\ Len(a) <= 0
    BY <1>2, <1>3 DEF PTreeNode, IsAbove
  <2>2. Len(a) = 0
    BY <2>1
  <2> QED BY <2>1, <2>2 DEF Root
<1>4. WellFormed(t)
  BY <1>1, <1>2, <1>3 DEF WellFormed
<1>5. Childless(t, Root)
  BY <1>1, <1>2, ChildType DEF Childless
<1>6. LeavesCarryStates(t)
  BY <1>1, <1>5 DEF LeavesCarryStates
<1>7. ReachesState(t)
  BY <1>1, <1>2, AboveRefl DEF ReachesState
<1> QED BY <1>4, <1>6, <1>7 DEF t

\* The run starts with the invariant.
LEMMA InitInv == Init => IndInv
<1> SUFFICES ASSUME Init PROVE IndInv
  OBVIOUS
<1>0. 1 \in State /\ MaxStates \in Nat /\ 2 <= MaxStates + 1
  BY ConfigAssumption DEF State
<1>1. /\ DOMAIN ex = ExecFields /\ ex.next = 2 /\ ex.states = {1} /\ ex.added = {}
      /\ ex.removed = << >> /\ ex.freed = {} /\ ex.feature = {}
  BY DEF Init, ExecFields
<1>2. /\ ex.tree = NewTree(1) /\ ex.node = [s \in State |-> Root]
      /\ ex.depth = [s \in State |-> 0]
      /\ ex.seeds = [s \in State |-> IF s = 1 THEN Seeds ELSE {}]
  BY DEF Init
<1>3. /\ pc \in {"seeded", "loop"} /\ phase = "seeding" /\ ending = FALSE /\ current = Null
      /\ lc = NoLocals /\ haltExecution = FALSE /\ atMemoryLimit = FALSE /\ held = {}
      /\ fault = "none"
  BY DEF Init
<1>4. Live(ex) = {1} /\ RangeOf(ex.removed) = {}
  BY <1>1 DEF Live, RangeOf
<1>5. 1 # Null /\ Root \in PTreeNode
  BY DEF Null, Root, PTreeNode
<1>6. DOMAIN ex.tree = {Root} /\ ex.tree[Root] = 1
  BY <1>2 DEF NewTree
<1>7. ExecType(ex)
  <2>1. ex.tree \in [DOMAIN ex.tree -> State \cup {Null}]
    BY <1>0, <1>2 DEF NewTree
  <2>2. ex.node \in [State -> PTreeNode] /\ ex.depth \in [State -> Nat]
        /\ ex.seeds \in [State -> SUBSET Seeds]
    BY <1>2, <1>5
  <2>3. ex.next \in 2..MaxStates + 1 /\ ex.removed \in Seq(State)
    BY <1>0, <1>1
  <2> QED BY <1>0, <1>1, <1>5, <1>6, <2>1, <2>2, <2>3 DEF ExecType
<1>8. TreeInv(ex)
  <2>1. WellFormed(ex.tree) /\ LeavesCarryStates(ex.tree) /\ ReachesState(ex.tree)
    BY <1>2, <1>5, NewTreeShape
  <2> QED BY <1>0, <1>2, <1>4, <1>6, <2>1 DEF TreeInv
<1>9. Accounted(ex)
  BY <1>1, <1>4 DEF Accounted
<1>10. \A s \in State : ex.seeds[s] # {} => s = 1
  BY <1>2
<1>11. SeedsDisjoint(ex)
  BY <1>2 DEF SeedsDisjoint
<1>12. ContainersInv(ex)
  BY <1>1, <1>4, <1>7, <1>8, <1>9, <1>10, <1>11 DEF ContainersInv
<1>13. LocalsOK(pc, ex, lc, current) /\ NoLocals \in LocalsType
  <2>1. pc \notin HandlerPcs
    BY <1>3 DEF HandlerPcs
  <2> QED BY <1>3, <2>1, NoLocalsOK
<1>14. SearcherInv
  BY <1>1, <1>3 DEF SearcherInv
<1>15. TypeOK
  BY <1>3, <1>5, <1>7, <1>13 DEF TypeOK, HandlerPcs, LoopPcs, Faults
<1> QED BY <1>12, <1>13, <1>14, <1>15 DEF IndInv

\* Every step keeps the invariant.
LEMMA NextInv == IndInv /\ [Next]_vars => IndInv'
<1> SUFFICES ASSUME IndInv, [Next]_vars PROVE IndInv'
  OBVIOUS
<1>1. CASE Instruction
  BY <1>1, ExecPlainKeeps, ExecTerminateKeeps, ExecBrKeeps, ExecBranchKeeps, BranchGrowKeeps,
     BranchGrownKeeps, BranchSeedsKeeps, BranchPruneKeeps, BranchReturnKeeps, ExecCallKeeps,
     CallResolveKeeps, ExecMemoryKeeps, MemoryResolveKeeps, MemoryUnboundKeeps,
     ExecAllocKeeps, ExecFreeKeeps, ResolveExactKeeps, ResolveDoneKeeps, FreeResultsKeeps
     DEF Instruction
<1>2. CASE Loop
  BY <1>2, SeedSelectKeeps, SelectKeeps, QuietStepsKeep, StartSearchKeeps, MemoryCheckKeeps,
     KillKeeps, UpdateStatesKeeps, EraseStateKeeps, EndStepKeeps DEF Loop
<1>3. CASE Halt \/ UNCHANGED vars
  BY <1>3, HaltKeeps
<1>4. Next => Instruction \/ Loop \/ Halt \/ UNCHANGED vars
  BY DEF Next, Terminated
<1> QED BY <1>1, <1>2, <1>3, <1>4

\* IndInv is an invariant of the executor.
THEOREM Invariance == Spec => []IndInv
  BY InitInv, NextInv, PTL DEF Spec

\* Type correctness of the executor's containers and locals.
THEOREM TypeCorrect == Spec => []TypeOK
<1>1. IndInv => TypeOK
  BY DEF IndInv
<1> QED BY <1>1, Invariance, PTL

\* No ExecutionState leaks, is deleted twice or is owned by two containers,
\* whatever the program, the solver, the searcher and the options do.
THEOREM StatesAccountedAlways == Spec => []StatesAccounted
<1>1. IndInv => StatesAccounted
  BY DEF IndInv, ContainersInv, StatesAccounted
<1> QED BY <1>1, Invariance, PTL

\* The walks of the random-path searcher end at the live states, because the
\* leaves of the process tree are exactly those.
LEMMA TreeMatches == IndInv => TreeMatchesStates
<1> SUFFICES ASSUME IndInv PROVE TreeMatchesStates
  OBVIOUS
<1>1. WellFormed(ex.tree)
      /\ \A s \in Live(ex) : ex.node[s] \in DOMAIN ex.tree /\ ex.tree[ex.node[s]] = s
  BY DEF IndInv, ContainersInv, TreeInv
<1>2. \A s \in Live(ex) : s # Null
  BY NullNoState DEF IndInv, ContainersInv, ExecType, Live
<1>3. ASSUME NEW r \in Live(ex)
      PROVE  /\ LeavesCarryStates(ex.tree)
             /\ \A n \in DOMAIN ex.tree : ex.tree[n] # Null => ex.tree[n] \in Live(ex)
  BY DEF IndInv, ContainersInv, TreeInv
<1>4. \A s \in Live(ex) : Childless(ex.tree, ex.node[s])
  BY <1>1, <1>2, <1>3 DEF LeavesCarryStates
<1>5. ASSUME NEW s \in Live(ex) PROVE ex.node[s] \in DescentEnds(ex.tree)
  <2>1. ASSUME NEW m \in DOMAIN ex.tree, IsAbove(m, ex.node[s]), m # ex.node[s]
        PROVE  ex.tree[m] = Null
    <3>1. ~Childless(ex.tree, m)
      BY <1>1, <2>1, NothingBelowLeaf
    <3> QED BY <1>3, <3>1 DEF LeavesCarryStates
  <2> QED BY <1>1, <1>2, <2>1 DEF DescentEnds
<1>6. ASSUME Live(ex) # {}, NEW n \in DescentEnds(ex.tree) PROVE ex.tree[n] \in Live(ex)
  <2>1. n \in DOMAIN ex.tree /\ (ex.tree[n] # Null \/ Childless(ex.tree, n))
    BY DEF DescentEnds
  <2> QED BY <1>3, <1>6, <2>1 DEF LeavesCarryStates
<1> QED BY <1>1, <1>4, <1>5, <1>6 DEF TreeMatchesStates

\* processTree and the live states agree after every step, so the asserts of
\* PTree::attach and remove hold and the random-path searcher never walks into
\* a dead end or a deleted state.
THEOREM TreeMatchesStatesAlways == Spec => []TreeMatchesStates
  BY TreeMatches, Invariance, PTL

\* The searcher never holds a deleted state, and selects among all states.
THEOREM SearcherHoldsStatesAlways == Spec => []SearcherHoldsStates
<1>1. IndInv => SearcherHoldsStates
  <2> SUFFICES ASSUME IndInv PROVE SearcherHoldsStates
    OBVIOUS
  <2>1. held \subseteq ex.states /\ ex.states \cap ex.freed = {}
    BY DEF IndInv, SearcherInv, ContainersInv, Accounted, Live
  <2> QED BY <2>1 DEF IndInv, SearcherInv, SearcherHoldsStates
<1> QED BY <1>1, Invariance, PTL

\* No pointer to an ExecutionState that a handler, featureStates or seedMap keeps
\* across a call of fork, branch or terminateState dangles.
THEOREM NoDanglingPointerAlways == Spec => []NoDanglingPointer
<1>1. IndInv => NoDanglingPointer
  <2> SUFFICES ASSUME IndInv PROVE NoDanglingPointer
    OBVIOUS
  <2>1. /\ RangeOf(lc.res) \subseteq Live(ex) \cup {Null}
        /\ lc.reg \in Live(ex) \cup {Null} /\ lc.todo \subseteq ex.states
        /\ pc \in HandlerPcs \cup {"timers", "memory", "kill", "update"} =>
             current \in ex.states \cup {Null}
    BY DEF IndInv, LocalsOK
  <2>2. ex.feature \cup SeedMap \subseteq Live(ex)
    BY DEF IndInv, ContainersInv, SeedMap
  <2> QED BY <2>1, <2>2 DEF NoDanglingPointer, Live
<1> QED BY <1>1, Invariance, PTL

\* fork() and branch() never give one seed to two states.
THEOREM SeedsHaveOneOwnerAlways == Spec => []SeedsHaveOneOwner
<1>1. IndInv => SeedsHaveOneOwner
  BY DEF IndInv, ContainersInv, SeedsHaveOneOwner
<1> QED BY <1>1, Invariance, PTL

(***************************************************************************)
(* No state is terminated twice                                            *)
(***************************************************************************)

\* The configurations without the defects that README lists: no memory cap, whose
\* victims may be terminated already, and a program without indirectbr to an
\* illegal label, calls of what is no function, and invokes of external functions.
NoDefects ==
  /\ MemoryCap = FALSE
  /\ Program \cap {"illegalLabel", "illegalFunction", "invoke"} = {}

\* removedStates names states of the executor, each once.
EndedOnce(x) == Injective(x.removed) /\ RangeOf(x.removed) \subseteq x.states

\* What a handler or a kill loop will go on with has not been terminated.
Unended(p, x, l) ==
  IF p = "kill" THEN l.todo \cap RangeOf(x.removed) = {}
  ELSE (RangeOf(l.res) \cup {l.reg}) \cap RangeOf(x.removed) = {}

OnceInv ==
  /\ EndedOnce(ex) /\ Unended(pc, ex, lc)
  /\ pc = "exec" => ex.removed = << >>
  /\ lc.illegal = FALSE
  /\ pc # "crashed" /\ fault = "none"

\* Appending an entry that a list does not have keeps it free of repetitions.
LEMMA InjectiveAppend ==
  ASSUME NEW S, NEW q \in Seq(S), NEW e \in S, e \notin RangeOf(q), Injective(q)
  PROVE  Injective(Append(q, e))
<1> DEFINE a == Append(q, e)
<1>1. Len(q) \in Nat /\ DOMAIN q = 1..Len(q) /\ DOMAIN a = 1..Len(q) + 1
  OBVIOUS
<1>2. (\A i \in 1..Len(q) : a[i] = q[i]) /\ a[Len(q) + 1] = e
  OBVIOUS
<1> HIDE DEF a
<1>3. \A i \in 1..Len(q) : q[i] # e
  BY <1>1 DEF RangeOf
<1>4. ASSUME NEW i \in DOMAIN a, NEW j \in DOMAIN a, a[i] = a[j]
      PROVE  i = j
  <2>1. CASE i \in 1..Len(q) /\ j \in 1..Len(q)
    BY <1>1, <1>2, <1>4, <2>1 DEF Injective
  <2>2. CASE i = Len(q) + 1 \/ j = Len(q) + 1
    BY <1>1, <1>2, <1>3, <1>4, <2>2
  <2> QED BY <1>1, <2>1, <2>2
<1>5. Injective(a)
  BY <1>4 DEF Injective
<1> QED BY <1>5 DEF a

\* What is left of a list without repetitions does not have its first entry.
LEMMA InjectiveTail ==
  ASSUME NEW S, NEW q \in Seq(S), q # << >>, Injective(q)
  PROVE  Injective(Tail(q)) /\ Head(q) \notin RangeOf(Tail(q))
<1> DEFINE r == Tail(q)
<1>1. /\ Len(q) \in Nat /\ Len(q) > 0 /\ DOMAIN q = 1..Len(q)
      /\ DOMAIN r = 1..Len(q) - 1 /\ Head(q) = q[1]
  OBVIOUS
<1>2. \A i \in 1..Len(q) - 1 : r[i] = q[i + 1]
  OBVIOUS
<1> HIDE DEF r
<1>3. \A i \in DOMAIN r : i + 1 \in DOMAIN q /\ r[i] = q[i + 1] /\ i + 1 # 1
  BY <1>1, <1>2
<1>4. 1 \in DOMAIN q
  BY <1>1
<1>5. Head(q) \notin RangeOf(r)
  BY <1>1, <1>3, <1>4 DEF RangeOf, Injective
<1>6. ASSUME NEW i \in DOMAIN r, NEW j \in DOMAIN r, r[i] = r[j]
      PROVE  i = j
  <2>1. i + 1 = j + 1 /\ i \in Nat /\ j \in Nat
    BY <1>1, <1>3, <1>6 DEF Injective
  <2> QED BY <2>1
<1>7. Injective(r)
  BY <1>6 DEF Injective
<1> QED BY <1>5, <1>7 DEF r

\* terminateState on a state that was not terminated before.
LEMMA TerminateOnce ==
  ASSUME NEW x, ContainersInv(x), EndedOnce(x), NEW s \in Live(x), s \notin RangeOf(x.removed)
  PROVE  /\ EndedOnce(terminateState(x, s))
         /\ RangeOf(terminateState(x, s).removed) \subseteq RangeOf(x.removed) \cup {s}
<1> DEFINE y == terminateState(x, s)
<1>x. ExecType(x) /\ Accounted(x) /\ DOMAIN x = ExecFields /\ x.removed \in Seq(State)
  BY DEF ContainersInv, ExecType
<1>1. CASE s \in x.added
  <2>1. s \notin x.states
    BY <1>1, <1>x DEF Accounted
  <2>2. y = Delete(x, s)
    BY <1>1 DEF terminateState
  <2>3. Delete(x, s).removed = x.removed /\ Delete(x, s).states = x.states \ {s}
    BY DeleteKeeps
  <2> QED BY <2>1, <2>2, <2>3 DEF EndedOnce
<1>2. CASE s \notin x.added
  <2>1. y.removed = Append(x.removed, s) /\ y.states = x.states
    BY <1>2, <1>x DEF terminateState, ExecFields
  <2>2. s \in x.states /\ s \in State
    BY <1>2, <1>x DEF Live, ExecType
  <2>3. /\ RangeOf(Append(x.removed, s)) = RangeOf(x.removed) \cup {s}
        /\ Injective(Append(x.removed, s))
    BY <1>x, <2>2, RangeAppend, InjectiveAppend DEF EndedOnce
  <2> HIDE DEF y
  <2>4. EndedOnce(y) /\ RangeOf(y.removed) = RangeOf(x.removed) \cup {s}
    BY <2>1, <2>2, <2>3 DEF EndedOnce
  <2> QED BY <2>4 DEF y
<1> QED BY <1>1, <1>2

\* Executor::fork terminates s at most once, and then returns no state.
LEMMA ForkOnce ==
  ASSUME NEW x, ContainersInv(x), EndedOnce(x), NEW s \in Live(x), s \notin RangeOf(x.removed),
         NEW o \in fork(x, s)
  PROVE  /\ EndedOnce(o.x) /\ RangeOf(o.x.removed) \subseteq RangeOf(x.removed) \cup {s, x.next}
         /\ o.t # Null \/ o.f # Null => o.x.removed = x.removed
<1>x. ExecType(x) /\ Accounted(x) /\ DOMAIN x = ExecFields
  BY DEF ContainersInv, ExecType
<1>1. \/ o = Outcome(terminateState(x, s), Null, Null)
      \/ o = Outcome(NoteFeature(x, s), s, Null)
      \/ o = Outcome(NoteFeature(x, s), Null, s)
      \/ o \in ForkBoth(x, s)
  BY DEF fork
<1>2. CASE o = Outcome(terminateState(x, s), Null, Null)
  <2>1. o.x = terminateState(x, s) /\ o.t = Null /\ o.f = Null
    BY <1>2 DEF Outcome
  <2> QED BY <2>1, TerminateOnce
<1>3. CASE \/ o = Outcome(NoteFeature(x, s), s, Null)
           \/ o = Outcome(NoteFeature(x, s), Null, s)
  <2>1. o.x = NoteFeature(x, s)
    BY <1>3 DEF Outcome
  <2>2. NoteFeature(x, s).removed = x.removed /\ NoteFeature(x, s).states = x.states
    BY <1>x DEF NoteFeature, ExecFields
  <2> QED BY <2>1, <2>2 DEF EndedOnce
<1>4. CASE o \in ForkBoth(x, s)
  <2> DEFINE n == x.next
             y(T) == SplitSeeds(Split(x, s), s, n, T)
  <2>1. x.next <= MaxStates
    <3>1. ~(x.next > MaxStates)
      BY <1>4 DEF ForkBoth
    <3> QED BY <3>1, <1>x, ConfigAssumption DEF ExecType
  <2>2. PICK T \in TrueSeeds(x, s) :
          o = IF MaxDepth # 0 /\ MaxDepth <= y(T).depth[s]
              THEN Outcome(terminateState(terminateState(y(T), s), n), Null, Null)
              ELSE Outcome(y(T), s, n)
    BY <1>4 DEF ForkBoth
  <2>3. T \in SUBSET x.seeds[s]
    BY DEF TrueSeeds
  <2>4. /\ ContainersInv(Split(x, s)) /\ Live(Split(x, s)) = Live(x) \cup {n}
        /\ Split(x, s).states = x.states /\ n \in State /\ n \notin Live(x)
    BY <2>1, SplitKeeps
  <2>5. Split(x, s).seeds = x.seeds /\ Split(x, s).removed = x.removed
    BY <1>x, SplitFields
  <2>6. x.seeds[n] = {}
    BY <2>4 DEF ContainersInv
  <2>7. n # s
    BY <2>4
  <2> DEFINE z == y(T)
  <2>8. ContainersInv(z) /\ Live(z) = Live(x) \cup {n} /\ z.states = x.states
    BY <2>3, <2>4, <2>5, <2>6, <2>7, SplitSeedsKeeps
  <2>9. z.removed = x.removed
    <3>1. DOMAIN Split(x, s) = ExecFields
      BY <1>x, SplitFields
    <3> QED BY <2>5, <3>1 DEF SplitSeeds, ExecFields
  <2>10. EndedOnce(z)
    BY <2>8, <2>9 DEF EndedOnce
  <2>11. CASE o = Outcome(z, s, n)
    <3>1. o.x = z
      BY <2>11 DEF Outcome
    <3> QED BY <2>9, <2>10, <3>1
  <2>12. CASE o = Outcome(terminateState(terminateState(z, s), n), Null, Null)
    <3> DEFINE u == terminateState(z, s)
    <3>1. o.x = terminateState(u, n) /\ o.t = Null /\ o.f = Null
      BY <2>12 DEF Outcome
    <3>2. /\ ContainersInv(u) /\ Live(z) \ {s} \subseteq Live(u)
          /\ EndedOnce(u) /\ RangeOf(u.removed) \subseteq RangeOf(z.removed) \cup {s}
      BY <2>8, <2>9, <2>10, TerminateKeeps, TerminateOnce
    <3>3. n \in Live(u) /\ n \notin RangeOf(u.removed)
      <4>1. RangeOf(x.removed) \subseteq Live(x)
        BY DEF EndedOnce, Live
      <4> QED BY <2>4, <2>7, <2>8, <2>9, <3>2, <4>1
    <3> HIDE DEF u, z
    <3> QED BY <2>9, <3>1, <3>2, <3>3, TerminateOnce
  <2> QED BY <2>2, <2>11, <2>12
<1> QED BY <1>1, <1>2, <1>3, <1>4

\* After a fork, whether or not the first result was terminated, the second has
\* not been.
LEMMA OnceAfterFork ==
  ASSUME NEW x, ContainersInv(x), EndedOnce(x), NEW s \in Live(x), s \notin RangeOf(x.removed),
         NEW o \in fork(x, s),
         NEW y \in {o.x} \cup (IF o.t # Null THEN {terminateState(o.x, o.t)} ELSE {})
  PROVE  EndedOnce(y) /\ (o.f # Null => o.f \notin RangeOf(y.removed))
<1>1. ForkPost(x, s, o) /\ EndedOnce(o.x) /\ (o.t # Null \/ o.f # Null => o.x.removed = x.removed)
  BY ForkKeeps, ForkOnce
<1>2. x.next \notin RangeOf(x.removed) /\ x.next # s
  BY <1>1 DEF ForkPost, EndedOnce, Live
<1>3. CASE y = o.x
  BY <1>1, <1>2, <1>3 DEF ForkPost
<1>4. CASE o.t # Null /\ y = terminateState(o.x, o.t)
  <2>1. /\ o.t = s /\ o.t \in Live(o.x) /\ ContainersInv(o.x) /\ o.x.removed = x.removed
        /\ o.f \in {Null, x.next}
    BY <1>1, <1>4 DEF ForkPost
  <2>2. EndedOnce(y) /\ RangeOf(y.removed) \subseteq RangeOf(x.removed) \cup {s}
    BY <1>1, <1>4, <2>1, TerminateOnce
  <2> QED BY <1>2, <2>1, <2>2
<1> QED BY <1>3, <1>4

\* Null is never in removedStates.
LEMMA NullNotEnded ==
  ASSUME NEW x, ContainersInv(x)
  PROVE  Null \notin RangeOf(x.removed)
<1>1. x.removed \in Seq(State)
  BY DEF ContainersInv, ExecType
<1>2. \A i \in DOMAIN x.removed : x.removed[i] \in State
  BY <1>1
<1> QED BY <1>2, NullNoState DEF RangeOf

\* A handler's step, and the end of an instruction.
LEMMA GotoOnce ==
  ASSUME OnceInv, NEW p, NEW x, NEW l, Goto(p, x, l), EndedOnce(x), Unended(p, x, l),
         p \notin {"exec", "crashed"}, l.illegal = FALSE
  PROVE  OnceInv'
<1>1. pc' = p /\ ex' = x /\ lc' = l /\ fault' = fault
  BY DEF Goto
<1>2. EndedOnce(ex)' /\ Unended(pc, ex, lc)'
  BY <1>1 DEF EndedOnce, Unended, Injective, RangeOf
<1> QED BY <1>1, <1>2 DEF OnceInv

\* Finish: back to the loop, with no handler in progress.
LEMMA FinishOnce ==
  ASSUME OnceInv, NEW x, ContainersInv(x), Finish(x), EndedOnce(x)
  PROVE  OnceInv'
<1>1. NoLocals.illegal = FALSE /\ NoLocals.res = << >> /\ NoLocals.reg = Null
  BY DEF NoLocals
<1>2. RangeOf(NoLocals.res) = {}
  BY <1>1 DEF RangeOf
<1>3. Unended("timers", x, NoLocals)
  BY <1>1, <1>2, NullNotEnded DEF Unended
<1> QED BY <1>1, <1>3, GotoOnce DEF Finish

\* What the next lemmas start from: at the start of an instruction nothing is in
\* removedStates.
LEMMA ExecFacts ==
  ASSUME IndInv, OnceInv, pc = "exec"
  PROVE  /\ pc \in HandlerPcs /\ ContainersInv(ex) /\ EndedOnce(ex)
         /\ current \in Live(ex) /\ current \notin RangeOf(ex.removed)
         /\ RangeOf(ex.removed) = {} /\ current \in State /\ current # Null
<1>1. pc \in HandlerPcs
  BY DEF HandlerPcs
<1>2. ContainersInv(ex) /\ current \in Live(ex) /\ current \in State /\ current # Null
  BY <1>1, HandlerFacts
<1>3. RangeOf(ex.removed) = {}
  BY DEF OnceInv, RangeOf
<1> QED BY <1>1, <1>2, <1>3 DEF OnceInv

\* An instruction that ends or forks the executing state, once.
LEMMA SimpleOnce ==
  ASSUME IndInv, OnceInv, ExecPlain \/ ExecTerminate \/ ExecBr
  PROVE  OnceInv'
<1>1. pc = "exec"
  BY DEF ExecPlain, ExecTerminate, ExecBr
<1>2. /\ ContainersInv(ex) /\ EndedOnce(ex) /\ current \in Live(ex)
      /\ current \notin RangeOf(ex.removed)
  BY <1>1, ExecFacts
<1>3. CASE ExecPlain
  BY <1>2, <1>3, FinishOnce DEF ExecPlain
<1>4. CASE ExecTerminate
  <2>1. ContainersInv(terminateState(ex, current)) /\ EndedOnce(terminateState(ex, current))
    BY <1>2, TerminateKeeps, TerminateOnce
  <2> QED BY <1>4, <2>1, FinishOnce DEF ExecTerminate
<1>5. CASE ExecBr
  <2>1. PICK o \in fork(ex, current) : Finish(o.x)
    BY <1>5 DEF ExecBr
  <2>2. ContainersInv(o.x) /\ EndedOnce(o.x)
    BY <1>2, ForkKeeps, ForkOnce DEF ForkPost
  <2> QED BY <2>1, <2>2, FinishOnce
<1> QED BY <1>3, <1>4, <1>5

\* executeAlloc ends the second result of its second fork, which is alive.
LEMMA ExecAllocOnce == IndInv /\ OnceInv /\ ExecAlloc => OnceInv'
<1> SUFFICES ASSUME IndInv, OnceInv, ExecAlloc PROVE OnceInv'
  OBVIOUS
<1>1. pc = "exec"
  BY DEF ExecAlloc
<1>2. /\ ContainersInv(ex) /\ EndedOnce(ex) /\ current \in Live(ex)
      /\ current \notin RangeOf(ex.removed)
  BY <1>1, ExecFacts
<1>3. PICK fixed \in fork(ex, current) :
        \/ Finish(fixed.x)
        \/ /\ fixed.f # Null
           /\ \E huge \in fork(fixed.x, fixed.f) :
                Finish(IF huge.f = Null THEN huge.x ELSE terminateState(huge.x, huge.f))
  BY DEF ExecAlloc
<1>4. /\ ForkPost(ex, current, fixed) /\ EndedOnce(fixed.x)
      /\ fixed.f # Null => fixed.f \notin RangeOf(fixed.x.removed)
  BY <1>2, ForkKeeps, OnceAfterFork
<1>5. CASE Finish(fixed.x)
  BY <1>4, <1>5, FinishOnce DEF ForkPost
<1>6. CASE /\ fixed.f # Null
           /\ \E huge \in fork(fixed.x, fixed.f) :
                Finish(IF huge.f = Null THEN huge.x ELSE terminateState(huge.x, huge.f))
  <2>1. PICK huge \in fork(fixed.x, fixed.f) :
          Finish(IF huge.f = Null THEN huge.x ELSE terminateState(huge.x, huge.f))
    BY <1>6
  <2>2. fixed.f \in Live(fixed.x) /\ ContainersInv(fixed.x)
    BY <1>4, <1>6 DEF ForkPost
  <2>3. /\ ForkPost(fixed.x, fixed.f, huge) /\ EndedOnce(huge.x)
        /\ huge.f # Null => huge.f \notin RangeOf(huge.x.removed)
    BY <1>4, <1>6, <2>2, ForkKeeps, OnceAfterFork
  <2>4. CASE huge.f = Null
    BY <2>1, <2>3, <2>4, FinishOnce DEF ForkPost
  <2>5. CASE huge.f # Null
    <3> DEFINE x == terminateState(huge.x, huge.f)
    <3>1. ContainersInv(x) /\ EndedOnce(x)
      BY <2>3, <2>5, TerminateKeeps, TerminateOnce DEF ForkPost
    <3>2. Finish(x)
      BY <2>1, <2>5
    <3> HIDE DEF x
    <3> QED BY <3>1, <3>2, FinishOnce
  <2> QED BY <2>4, <2>5
<1> QED BY <1>3, <1>5, <1>6

\* The loops over a pointer's targets start with a state that is not terminated.
LEMMA RegOnce ==
  ASSUME OnceInv, NEW p \in {"call", "mem", "resolve"}, NEW x, NEW r, NEW k,
         Goto(p, x, [NoLocals EXCEPT !.reg = r, !.fuel = k]),
         EndedOnce(x), r \notin RangeOf(x.removed)
  PROVE  OnceInv'
<1> DEFINE l == [NoLocals EXCEPT !.reg = r, !.fuel = k]
<1>1. l.illegal = FALSE /\ l.res = << >> /\ l.reg = r
  BY DEF NoLocals
<1>2. Goto(p, x, l)
  OBVIOUS
<1> HIDE DEF l
<1>3. RangeOf(l.res) = {}
  BY <1>1 DEF RangeOf
<1>4. Unended(p, x, l)
  BY <1>1, <1>3 DEF Unended
<1> QED BY <1>1, <1>2, <1>4, GotoOnce

\* The heads of the loops over the targets of a pointer.
LEMMA LoopHeadsOnce ==
  ASSUME IndInv, OnceInv, ExecCall \/ ExecMemory \/ ExecFree
  PROVE  OnceInv'
<1>1. pc = "exec"
  BY DEF ExecCall, ExecMemory, ExecFree
<1>2. /\ ContainersInv(ex) /\ EndedOnce(ex) /\ current \in Live(ex)
      /\ current \notin RangeOf(ex.removed)
  BY <1>1, ExecFacts
<1>3. CASE ExecCall
  BY <1>2, <1>3, RegOnce DEF ExecCall
<1>4. CASE ExecMemory
  BY <1>2, <1>4, RegOnce DEF ExecMemory
<1>5. CASE ExecFree
  <2>1. PICK zero \in fork(ex, current), k \in 0..MaxTargets :
          IF zero.f = Null THEN Finish(zero.x)
          ELSE Goto("resolve", zero.x, [NoLocals EXCEPT !.reg = zero.f, !.fuel = k])
    BY <1>5 DEF ExecFree
  <2>2. /\ ContainersInv(zero.x) /\ EndedOnce(zero.x)
        /\ zero.f # Null => zero.f \notin RangeOf(zero.x.removed)
    BY <1>2, ForkKeeps, OnceAfterFork DEF ForkPost
  <2>3. CASE zero.f = Null
    BY <2>1, <2>2, <2>3, FinishOnce
  <2>4. CASE zero.f # Null
    BY <2>1, <2>2, <2>4, RegOnce
  <2> QED BY <2>3, <2>4
<1> QED BY <1>3, <1>4, <1>5

\* What the iterations of these loops start from.
LEMMA LoopFacts ==
  ASSUME IndInv, OnceInv, pc \in {"call", "mem", "resolve", "free"}
  PROVE  /\ ContainersInv(ex) /\ EndedOnce(ex) /\ lc \in LocalsType /\ lc.illegal = FALSE
         /\ LocalsOK(pc, ex, lc, current)
         /\ lc.reg # Null => lc.reg \in Live(ex) /\ lc.reg \notin RangeOf(ex.removed)
         /\ RangeOf(lc.res) \subseteq Live(ex) /\ RangeOf(lc.res) \cap RangeOf(ex.removed) = {}
         /\ lc.reg # Null => lc.reg \notin RangeOf(lc.res)
         /\ pc \in {"call", "mem"} => lc.reg # Null /\ lc.res = << >>
<1>1. pc \in HandlerPcs
  BY DEF HandlerPcs
<1>2. ContainersInv(ex) /\ LocalsOK(pc, ex, lc, current) /\ lc \in LocalsType
  BY <1>1, HandlerFacts
<1>3. /\ lc.reg # Null => lc.reg \in Live(ex) /\ lc.reg \notin RangeOf(lc.res)
      /\ RangeOf(lc.res) \subseteq Live(ex) \cup {Null}
      /\ pc \in {"call", "mem"} => lc.reg # Null /\ lc.res = << >>
  BY <1>2 DEF LocalsOK
<1>4. Null \notin RangeOf(lc.res)
  <2>1. CASE pc \in {"call", "mem"}
    <3>1. lc.res = << >>
      BY <1>3, <2>1
    <3> QED BY <3>1 DEF RangeOf
  <2>2. CASE pc \in {"resolve", "free"}
    BY <1>2, <2>2 DEF LocalsOK
  <2> QED BY <2>1, <2>2
<1>5. Unended(pc, ex, lc) /\ EndedOnce(ex) /\ lc.illegal = FALSE
  BY DEF OnceInv
<1> QED BY <1>2, <1>3, <1>4, <1>5 DEF Unended

\* An iteration of executeMemoryOperation.
LEMMA MemoryOnce ==
  ASSUME IndInv, OnceInv, MemoryResolve \/ MemoryUnbound
  PROVE  OnceInv'
<1>1. pc = "mem"
  BY DEF MemoryResolve, MemoryUnbound
<1>2. /\ ContainersInv(ex) /\ EndedOnce(ex) /\ lc \in LocalsType /\ lc.illegal = FALSE
      /\ lc.reg \in Live(ex) /\ lc.reg \notin RangeOf(ex.removed) /\ lc.res = << >>
  BY <1>1, LoopFacts
<1>3. CASE MemoryUnbound
  <2>1. ContainersInv(terminateState(ex, lc.reg)) /\ EndedOnce(terminateState(ex, lc.reg))
    BY <1>2, TerminateKeeps, TerminateOnce
  <2> QED BY <1>3, <2>1, FinishOnce DEF MemoryUnbound
<1>4. CASE MemoryResolve
  <2>1. PICK o \in fork(ex, lc.reg) :
          \E x \in {o.x} \cup (IF o.t # Null THEN {terminateState(o.x, o.t)} ELSE {}) :
            IF o.f = Null THEN Finish(x)
            ELSE Goto("mem", x, [lc EXCEPT !.reg = o.f, !.fuel = @ - 1])
    BY <1>4 DEF MemoryResolve
  <2>2. PICK x \in {o.x} \cup (IF o.t # Null THEN {terminateState(o.x, o.t)} ELSE {}) :
          IF o.f = Null THEN Finish(x)
          ELSE Goto("mem", x, [lc EXCEPT !.reg = o.f, !.fuel = @ - 1])
    BY <2>1
  <2>3. ContainersInv(x)
    BY <1>2, ForkKeeps, AfterFork
  <2>4. EndedOnce(x) /\ (o.f # Null => o.f \notin RangeOf(x.removed))
    BY <1>2, OnceAfterFork
  <2>5. CASE o.f = Null
    BY <2>2, <2>3, <2>4, <2>5, FinishOnce
  <2>6. CASE o.f # Null
    <3> DEFINE l == [lc EXCEPT !.reg = o.f, !.fuel = @ - 1]
    <3>1. Goto("mem", x, l)
      BY <2>2, <2>6
    <3>2. l.res = << >> /\ l.reg = o.f /\ l.illegal = FALSE
      BY <1>2 DEF LocalsType
    <3> HIDE DEF l
    <3>3. RangeOf(l.res) = {}
      BY <3>2 DEF RangeOf
    <3>4. Unended("mem", x, l)
      BY <2>4, <2>6, <3>2, <3>3 DEF Unended
    <3> QED BY <2>4, <3>1, <3>2, <3>4, GotoOnce
  <2> QED BY <2>5, <2>6
<1> QED BY <1>3, <1>4

\* One target of a symbolic call.
LEMMA CallOnce ==
  ASSUME NoDefects, IndInv, OnceInv, CallResolve
  PROVE  OnceInv'
<1>1. pc = "call"
  BY DEF CallResolve
<1>2. /\ ContainersInv(ex) /\ EndedOnce(ex) /\ lc \in LocalsType /\ lc.illegal = FALSE
      /\ lc.reg \in Live(ex) /\ lc.reg \notin RangeOf(ex.removed) /\ lc.res = << >>
  BY <1>1, LoopFacts
<1>3. PICK o \in fork(ex, lc.reg) :
        \/ NextFree(o.x, o.f, lc.hasInvalid)
        \/ o.t # Null /\ NextFree(terminateState(o.x, o.t), o.f, lc.hasInvalid)
  BY DEF CallResolve, NoDefects
<1>4. PICK x \in {o.x} \cup (IF o.t # Null THEN {terminateState(o.x, o.t)} ELSE {}) :
        NextFree(x, o.f, lc.hasInvalid)
  BY <1>3
<1>5. ContainersInv(x)
  BY <1>2, ForkKeeps, AfterFork
<1>6. EndedOnce(x) /\ (o.f # Null => o.f \notin RangeOf(x.removed))
  BY <1>2, OnceAfterFork
<1>7. CASE o.f = Null
  BY <1>4, <1>5, <1>6, <1>7, FinishOnce DEF NextFree
<1>8. CASE o.f # Null
  <2> DEFINE l == [lc EXCEPT !.reg = o.f, !.fuel = @ - 1, !.hasInvalid = lc.hasInvalid]
  <2>1. Goto("call", x, l)
    BY <1>4, <1>8 DEF NextFree
  <2>2. l.res = << >> /\ l.reg = o.f /\ l.illegal = FALSE
    BY <1>2 DEF LocalsType
  <2> HIDE DEF l
  <2>3. RangeOf(l.res) = {}
    BY <2>2 DEF RangeOf
  <2>4. Unended("call", x, l)
    BY <1>6, <1>8, <2>2, <2>3 DEF Unended
  <2> QED BY <1>6, <2>1, <2>2, <2>4, GotoOnce
<1> QED BY <1>7, <1>8

\* resolveExact collects results that are not terminated, and executeFree ends each
\* of them at most once.
LEMMA FreeOnce ==
  ASSUME IndInv, OnceInv, ResolveExact \/ ResolveDone \/ FreeResults
  PROVE  OnceInv'
<1>1. pc \in {"resolve", "free"}
  BY DEF ResolveExact, ResolveDone, FreeResults
<1>2. /\ ContainersInv(ex) /\ EndedOnce(ex) /\ lc \in LocalsType /\ lc.illegal = FALSE
      /\ lc.reg # Null => lc.reg \in Live(ex) /\ lc.reg \notin RangeOf(ex.removed)
      /\ RangeOf(lc.res) \subseteq Live(ex) /\ RangeOf(lc.res) \cap RangeOf(ex.removed) = {}
      /\ lc.reg # Null => lc.reg \notin RangeOf(lc.res)
      /\ LocalsOK(pc, ex, lc, current)
  BY <1>1, LoopFacts
<1>3. lc.res \in Seq(State \cup {Null})
  BY <1>2 DEF LocalsType
<1>4. CASE ResolveExact
  <2>1. /\ lc.reg # Null /\ pc = "resolve"
        /\ \E o \in fork(ex, lc.reg) :
             Goto("resolve", o.x,
                  [lc EXCEPT !.reg = o.f, !.fuel = @ - 1,
                             !.res = IF o.t = Null THEN @ ELSE Append(@, o.t)])
    BY <1>4 DEF ResolveExact
  <2>2. PICK o \in fork(ex, lc.reg) :
          Goto("resolve", o.x,
               [lc EXCEPT !.reg = o.f, !.fuel = @ - 1,
                          !.res = IF o.t = Null THEN @ ELSE Append(@, o.t)])
    BY <2>1
  <2> DEFINE res == IF o.t = Null THEN lc.res ELSE Append(lc.res, o.t)
             l == [lc EXCEPT !.reg = o.f, !.fuel = @ - 1,
                             !.res = IF o.t = Null THEN @ ELSE Append(@, o.t)]
  <2>3. /\ ForkPost(ex, lc.reg, o) /\ EndedOnce(o.x)
        /\ (o.t # Null \/ o.f # Null => o.x.removed = ex.removed)
        /\ o.f # Null => o.f \notin RangeOf(o.x.removed)
    BY <1>2, <2>1, ForkKeeps, ForkOnce, OnceAfterFork
  <2>4. /\ RangeOf(o.x.removed) \subseteq RangeOf(ex.removed) \cup {lc.reg, ex.next}
        /\ ex.next \notin Live(ex)
    BY <1>2, <2>1, <2>3, ForkOnce DEF ForkPost
  <2>5. l.res = res /\ l.reg = o.f /\ l.illegal = FALSE
    BY <1>2 DEF LocalsType
  <2>6. Goto("resolve", o.x, l)
    BY <2>2
  <2>7. RangeOf(res) \subseteq RangeOf(lc.res) \cup (IF o.t = Null THEN {} ELSE {o.t})
    <3>1. CASE o.t = Null
      BY <3>1
    <3>2. CASE o.t # Null
      <4>1. o.t \in State \cup {Null}
        BY <1>2, <2>3 DEF ForkPost, LocalsType
      <4>2. RangeOf(Append(lc.res, o.t)) = RangeOf(lc.res) \cup {o.t}
        BY <1>3, <4>1, RangeAppend
      <4> QED BY <3>2, <4>2
    <3> QED BY <3>1, <3>2
  <2> HIDE DEF l, res
  <2>8. RangeOf(res) \cap RangeOf(o.x.removed) = {}
    <3>1. o.t # Null => o.t = lc.reg
      BY <2>3 DEF ForkPost
    <3> QED BY <1>2, <2>1, <2>3, <2>4, <2>7, <3>1
  <2>9. o.f \notin RangeOf(o.x.removed)
    <3>1. ContainersInv(o.x)
      BY <2>3 DEF ForkPost
    <3> QED BY <2>3, <3>1, NullNotEnded
  <2>10. Unended("resolve", o.x, l)
    BY <2>5, <2>8, <2>9 DEF Unended
  <2> QED BY <2>3, <2>5, <2>6, <2>10, GotoOnce
<1>5. CASE ResolveDone
  <2> DEFINE x == IF lc.reg = Null THEN ex ELSE terminateState(ex, lc.reg)
             l == [lc EXCEPT !.reg = Null, !.fuel = 0]
  <2>1. Goto("free", x, l)
    BY <1>5 DEF ResolveDone
  <2>2. l.res = lc.res /\ l.reg = Null /\ l.illegal = FALSE
    BY <1>2 DEF LocalsType
  <2>3. ContainersInv(x) /\ EndedOnce(x) /\ RangeOf(lc.res) \cap RangeOf(x.removed) = {}
    <3>1. CASE lc.reg = Null
      BY <1>2, <3>1
    <3>2. CASE lc.reg # Null
      <4>1. /\ ContainersInv(terminateState(ex, lc.reg)) /\ EndedOnce(terminateState(ex, lc.reg))
            /\ RangeOf(terminateState(ex, lc.reg).removed) \subseteq RangeOf(ex.removed) \cup {lc.reg}
        BY <1>2, <3>2, TerminateKeeps, TerminateOnce
      <4> QED BY <1>2, <3>2, <4>1
    <3> QED BY <3>1, <3>2
  <2> HIDE DEF x, l
  <2>4. Unended("free", x, l)
    BY <2>2, <2>3, NullNotEnded DEF Unended
  <2> QED BY <2>1, <2>2, <2>3, <2>4, GotoOnce
<1>6. CASE FreeResults
  <2>1. CASE lc.res = << >>
    BY <1>2, <1>6, <2>1, FinishOnce DEF FreeResults
  <2>2. CASE lc.res # << >>
    <3> DEFINE l == [lc EXCEPT !.res = Tail(@)]
               h == Head(lc.res)
    <3>1. PICK x \in {ex, terminateState(ex, h)} : Goto("free", x, l)
      BY <1>6, <2>2 DEF FreeResults
    <3>2. \A i, j \in DOMAIN lc.res : lc.res[i] = lc.res[j] /\ lc.res[i] # Null => i = j
      BY <1>2 DEF LocalsOK
    <3>3. /\ h \in RangeOf(lc.res) /\ RangeOf(Tail(lc.res)) \subseteq RangeOf(lc.res)
          /\ h # Null => h \notin RangeOf(Tail(lc.res))
      BY <1>3, <2>2, <3>2, TailFacts
    <3>4. h \in Live(ex) /\ h \notin RangeOf(ex.removed) /\ h # Null
      <4>1. \A r \in Live(ex) : r # Null
        BY <1>2, NullNoState DEF ContainersInv, ExecType, Live
      <4> QED BY <1>2, <3>3, <4>1
    <3>5. ContainersInv(x) /\ EndedOnce(x) /\ RangeOf(x.removed) \subseteq RangeOf(ex.removed) \cup {h}
      BY <1>2, <3>4, TerminateKeeps, TerminateOnce
    <3>6. l.res = Tail(lc.res) /\ l.reg = lc.reg /\ l.illegal = FALSE
      BY <1>2 DEF LocalsType
    <3>7. lc.reg \notin RangeOf(x.removed)
      BY <1>2, <3>3, <3>5, NullNotEnded
    <3> HIDE DEF l, h
    <3>8. Unended("free", x, l)
      BY <1>2, <3>3, <3>4, <3>5, <3>6, <3>7 DEF Unended
    <3> QED BY <3>1, <3>5, <3>6, <3>8, GotoOnce
  <2> QED BY <2>1, <2>2
<1> QED BY <1>4, <1>5, <1>6

\* branch() leaves removedStates alone, except that only-replay-seeds ends results
\* that it then forgets.
LEMMA BranchOnce ==
  ASSUME NoDefects, IndInv, OnceInv,
         ExecBranch \/ BranchGrow \/ BranchGrown \/ BranchSeeds \/ BranchPrune \/ BranchReturn
  PROVE  OnceInv'
<1>1. CASE ExecBranch
  <2>1. pc = "exec"
    BY <1>1 DEF ExecBranch
  <2>2. /\ ContainersInv(ex) /\ EndedOnce(ex) /\ RangeOf(ex.removed) = {}
        /\ current \in Live(ex) /\ DOMAIN ex = ExecFields
    BY <2>1, ExecFacts DEF ContainersInv, ExecType
  <2>3. PICK N \in 1..MaxTargets, illegal \in BOOLEAN :
          /\ ~illegal
          /\ IF forks(ex) >= MaxForks
             THEN \E i \in 1..N :
                    Goto("seeds", ex,
                         [NoLocals EXCEPT !.width = N, !.illegal = illegal,
                            !.res = [j \in 1..N |-> IF j = i THEN current ELSE Null]])
             ELSE Goto("branch", NoteFeature(ex, current),
                       [NoLocals EXCEPT !.width = N, !.illegal = illegal,
                                        !.res = <<current>>])
    BY <1>1 DEF ExecBranch, NoDefects
  <2>4. PICK p \in {"seeds", "branch"}, x \in {ex, NoteFeature(ex, current)}, res \in {<<current>>} \cup
               {[j \in 1..N |-> IF j = i THEN current ELSE Null] : i \in 1..N} :
          Goto(p, x, [NoLocals EXCEPT !.width = N, !.illegal = illegal, !.res = res])
    BY <2>3
  <2> DEFINE l == [NoLocals EXCEPT !.width = N, !.illegal = illegal, !.res = res]
  <2>5. l.illegal = FALSE
    BY <2>3 DEF NoLocals
  <2>6. Goto(p, x, l)
    BY <2>4
  <2>7. x.removed = ex.removed /\ x.states = ex.states
    BY <2>2 DEF NoteFeature, ExecFields
  <2> HIDE DEF l
  <2>8. EndedOnce(x) /\ Unended(p, x, l)
    BY <2>2, <2>7 DEF EndedOnce, Unended
  <2> QED BY <2>5, <2>6, <2>8, GotoOnce
<1>2. CASE BranchGrow \/ BranchGrown \/ BranchSeeds \/ BranchPrune \/ BranchReturn
  <2>1. pc \in {"branch", "seeds", "prune", "branched"}
    BY <1>2 DEF BranchGrow, BranchGrown, BranchSeeds, BranchPrune, BranchReturn
  <2>2. /\ ContainersInv(ex) /\ lc \in LocalsType /\ lc.res \in Seq(State \cup {Null})
        /\ Len(lc.res) \in Nat /\ DOMAIN lc.res = 1..Len(lc.res)
        /\ RangeOf(lc.res) \subseteq Live(ex) \cup {Null}
        /\ \A i, j \in DOMAIN lc.res : lc.res[i] = lc.res[j] /\ lc.res[i] # Null => i = j
        /\ LocalsOK(pc, ex, lc, current)
    BY <2>1, BranchFacts
  <2>3. /\ EndedOnce(ex) /\ lc.illegal = FALSE
        /\ (RangeOf(lc.res) \cup {lc.reg}) \cap RangeOf(ex.removed) = {}
    BY <2>1 DEF OnceInv, Unended
  <2>4. DOMAIN ex = ExecFields
    BY <2>2 DEF ContainersInv, ExecType
  <2>5. CASE BranchGrow
    <3> DEFINE l == [lc EXCEPT !.res = Append(@, ex.next)]
    <3>1. pc = "branch" /\ Len(lc.res) < lc.width
      BY <2>5 DEF BranchGrow
    <3>2. PICK i \in 1..Len(lc.res) : Goto("branch", Split(ex, lc.res[i]), l)
      BY <2>5 DEF BranchGrow
    <3>3. /\ Split(ex, lc.res[i]).removed = ex.removed
          /\ Split(ex, lc.res[i]).states = ex.states
      BY <2>4, SplitFields
    <3>4. ex.next \in State /\ ex.next \notin Live(ex)
      <4>1. lc.width \in Nat /\ ex.next + lc.width - Len(lc.res) <= MaxStates + 1
        BY <2>2, <3>1 DEF LocalsOK, LocalsType
      <4>2. ex.next \in 2..MaxStates + 1 /\ Accounted(ex)
        BY <2>2 DEF ContainersInv, ExecType
      <4>3. ex.next \in State
        BY <2>2, <3>1, <4>1, <4>2, ConfigAssumption DEF State
      <4>4. ex.next \notin 1..ex.next - 1
        BY <4>2, ConfigAssumption
      <4> QED BY <4>2, <4>3, <4>4 DEF Accounted, Live
    <3>5. RangeOf(Append(lc.res, ex.next)) = RangeOf(lc.res) \cup {ex.next}
      BY <2>2, <3>4, RangeAppend
    <3>6. ex.next \notin RangeOf(ex.removed)
      BY <2>3, <3>4 DEF EndedOnce, Live
    <3>7. l.res = Append(lc.res, ex.next) /\ l.reg = lc.reg /\ l.illegal = FALSE
      BY <2>2, <2>3 DEF LocalsType
    <3> HIDE DEF l
    <3>8. EndedOnce(Split(ex, lc.res[i])) /\ Unended("branch", Split(ex, lc.res[i]), l)
      BY <2>3, <3>3, <3>5, <3>6, <3>7 DEF EndedOnce, Unended
    <3> QED BY <3>2, <3>7, <3>8, GotoOnce
  <2>6. CASE BranchGrown
    <3>1. Unended("seeds", ex, lc)
      BY <2>3 DEF Unended
    <3> QED BY <2>3, <2>6, <3>1, GotoOnce DEF BranchGrown
  <2>7. CASE BranchSeeds
    <3>1. \E y : \E p \in {"prune", "branched"} :
            Goto(p, y, lc) /\ y.removed = ex.removed /\ y.states = ex.states
      <4>1. CASE ex.seeds[current] = {}
        BY <2>7, <4>1 DEF BranchSeeds
      <4>2. CASE ex.seeds[current] # {}
        <5>1. PICK new : Goto(IF OnlyReplaySeeds THEN "prune" ELSE "branched",
                              [ex EXCEPT !.seeds = new], lc)
          BY <2>7, <4>2 DEF BranchSeeds
        <5>2. /\ [ex EXCEPT !.seeds = new].removed = ex.removed
              /\ [ex EXCEPT !.seeds = new].states = ex.states
          BY <2>4 DEF ExecFields
        <5>3. (IF OnlyReplaySeeds THEN "prune" ELSE "branched") \in {"prune", "branched"}
          OBVIOUS
        <5> QED BY <5>1, <5>2, <5>3
      <4> QED BY <4>1, <4>2
    <3>2. PICK y : \E p \in {"prune", "branched"} :
            Goto(p, y, lc) /\ y.removed = ex.removed /\ y.states = ex.states
      BY <3>1
    <3>3. PICK p \in {"prune", "branched"} :
            Goto(p, y, lc) /\ y.removed = ex.removed /\ y.states = ex.states
      BY <3>2
    <3>4. EndedOnce(y) /\ Unended(p, y, lc)
      BY <2>3, <3>3 DEF EndedOnce, Unended
    <3> QED BY <2>3, <3>3, <3>4, GotoOnce
  <2>8. CASE BranchPrune
    <3>1. CASE Unseeded = {}
      <4>1. Unended("branched", ex, lc)
        BY <2>3 DEF Unended
      <4> QED BY <2>3, <2>8, <3>1, <4>1, GotoOnce DEF BranchPrune
    <3>2. CASE Unseeded # {}
      <4>1. PICK i \in Unseeded :
              Goto("prune", terminateState(ex, lc.res[i]),
                   [lc EXCEPT !.res = [lc.res EXCEPT ![i] = Null]])
        BY <2>8, <3>2 DEF BranchPrune
      <4> DEFINE x == terminateState(ex, lc.res[i])
                 r == [lc.res EXCEPT ![i] = Null]
                 l == [lc EXCEPT !.res = r]
      <4>2. i \in DOMAIN lc.res /\ lc.res[i] # Null
        BY <2>2 DEF Unseeded
      <4>3. lc.res[i] \in Live(ex) /\ lc.res[i] \notin RangeOf(ex.removed)
        BY <2>2, <2>3, <4>2 DEF RangeOf
      <4>4. /\ ContainersInv(x) /\ EndedOnce(x)
            /\ RangeOf(x.removed) \subseteq RangeOf(ex.removed) \cup {lc.res[i]}
        BY <2>2, <2>3, <4>3, TerminateKeeps, TerminateOnce
      <4>5. DOMAIN r = DOMAIN lc.res /\ r[i] = Null /\ \A j \in DOMAIN lc.res \ {i} : r[j] = lc.res[j]
        BY <4>2
      <4>6. l.res = r /\ l.reg = lc.reg /\ l.illegal = FALSE
        BY <2>2, <2>3 DEF LocalsType
      <4>7. Goto("prune", x, l)
        BY <4>1
      <4>8. lc.reg # Null => lc.reg # lc.res[i]
        BY <2>2, <4>2 DEF LocalsOK, RangeOf
      <4>9. Null \notin RangeOf(x.removed)
        BY <4>4, NullNotEnded
      <4> HIDE DEF x, r, l
      <4>10. ASSUME NEW j \in DOMAIN r PROVE r[j] \notin RangeOf(x.removed)
        <5>1. CASE j = i
          BY <4>5, <4>9, <5>1
        <5>2. CASE j # i
          <6>1. r[j] = lc.res[j] /\ lc.res[j] \notin RangeOf(ex.removed)
            BY <2>3, <4>5, <5>2 DEF RangeOf
          <6>2. lc.res[j] # Null => lc.res[j] # lc.res[i]
            BY <2>2, <4>2, <4>5, <5>2
          <6> QED BY <4>4, <4>9, <6>1, <6>2
        <5> QED BY <5>1, <5>2
      <4>11. RangeOf(r) \cap RangeOf(x.removed) = {}
        <5>1. \A e \in RangeOf(r) : \E j \in DOMAIN r : e = r[j]
          BY DEF RangeOf
        <5> QED BY <4>10, <5>1
      <4>12. lc.reg \notin RangeOf(x.removed)
        BY <2>3, <4>4, <4>8, <4>9
      <4>13. Unended("prune", x, l)
        BY <4>6, <4>11, <4>12 DEF Unended
      <4> QED BY <4>4, <4>6, <4>7, <4>13, GotoOnce
    <3> QED BY <3>1, <3>2
  <2>9. CASE BranchReturn
    BY <2>2, <2>3, <2>9, FinishOnce DEF BranchReturn
  <2> QED BY <1>2, <2>5, <2>6, <2>7, <2>8, <2>9
<1> QED BY <1>1, <1>2

\* A step of the loop after which nothing is in the handlers' locals.
LEMMA LoopStepOnce ==
  ASSUME OnceInv, NEW x, ContainersInv(x), EndedOnce(x), ex' = x, lc' = NoLocals, fault' = fault,
         pc' # "crashed", pc' = "exec" => x.removed = << >>
  PROVE  OnceInv'
<1>1. NoLocals.illegal = FALSE /\ NoLocals.res = << >> /\ NoLocals.reg = Null /\ NoLocals.todo = {}
  BY DEF NoLocals
<1>2. RangeOf(NoLocals.res) = {} /\ Null \notin RangeOf(x.removed)
  <2>1. RangeOf(NoLocals.res) = {}
    BY <1>1 DEF RangeOf
  <2> QED BY <2>1, NullNotEnded
<1>3. EndedOnce(ex') /\ Unended(pc', ex', lc')
  BY <1>1, <1>2 DEF Unended
<1>4. EndedOnce(ex)' /\ Unended(pc, ex, lc)'
  BY <1>3 DEF EndedOnce, Unended, Injective, RangeOf
<1> QED BY <1>1, <1>4 DEF OnceInv

\* The steps between instructions that leave removedStates alone.
LEMMA QuietOnce ==
  ASSUME IndInv, OnceInv,
         \/ SeedSelect \/ SeedsDone \/ StartSearch \/ Select
         \/ Timers \/ MemorySkip \/ EndStep
  PROVE  OnceInv'
<1>1. /\ ContainersInv(ex) /\ LocalsOK(pc, ex, lc, current) /\ SearcherInv /\ EndedOnce(ex)
      /\ DOMAIN ex = ExecFields
  BY ScalarTypes DEF OnceInv, ContainersInv, ExecType
<1>2. CASE SeedSelect \/ Select
  <2>1. PICK s \in SeedMap \cup held, F \in {{}, ex.feature} : pc = "loop" /\ Execute(s, F)
    <3>1. CASE SeedSelect
      BY <3>1 DEF SeedSelect
    <3>2. CASE Select
      BY <3>2 DEF Select
    <3> QED BY <1>2, <3>1, <3>2
  <2> DEFINE x == [ex EXCEPT !.feature = F]
  <2>2. pc' = "exec" /\ ex' = x /\ lc' = lc /\ fault' = fault
    BY <2>1 DEF Execute
  <2>3. lc = NoLocals /\ ex.removed = << >>
    BY <1>1, <2>1 DEF LocalsOK, SearcherInv
  <2>4. ContainersInv(x) /\ x.states = ex.states /\ x.removed = ex.removed
    BY <1>1, ForgetKeeps
  <2> HIDE DEF x
  <2>5. EndedOnce(x)
    BY <1>1, <2>4 DEF EndedOnce
  <2> QED BY <2>2, <2>3, <2>4, <2>5, LoopStepOnce
<1>3. CASE SeedsDone \/ StartSearch \/ Timers \/ MemorySkip \/ EndStep
  <2>1. /\ pc \in {"loop", "seeded", "timers", "memory", "erase"}
        /\ pc' \in {"seeded", "loop", "update", "memory", "done"}
        /\ ex' = ex /\ lc' = lc /\ fault' = fault
    BY <1>3 DEF SeedsDone, StartSearch, Timers, MemorySkip, EndStep, Goto
  <2>2. lc = NoLocals
    BY <1>1, <2>1 DEF LocalsOK
  <2> QED BY <1>1, <2>1, <2>2, LoopStepOnce
<1> QED BY <1>2, <1>3

\* doDumpStates starts when nothing is in removedStates, and kills each state once.
LEMMA DumpOnce ==
  ASSUME IndInv, OnceInv, SeedHalted \/ SeedStop \/ SearchStop
  PROVE  OnceInv'
<1>1. pc \in {"loop", "seeded"} /\ Dump
  BY DEF SeedHalted, SeedStop, SearchStop
<1>2. /\ ContainersInv(ex) /\ SearcherInv /\ EndedOnce(ex)
  BY ScalarTypes DEF OnceInv
<1>3. ex.removed = << >>
  BY <1>1, <1>2 DEF SearcherInv
<1>4. /\ UNCHANGED <<ex, fault>>
      /\ \/ pc' = "kill" /\ lc' = [NoLocals EXCEPT !.todo = ex.states]
         \/ pc' = "done" /\ lc' = NoLocals
  BY <1>1 DEF Dump
<1>5. CASE pc' = "done" /\ lc' = NoLocals
  BY <1>2, <1>4, <1>5, LoopStepOnce
<1>6. CASE pc' = "kill" /\ lc' = [NoLocals EXCEPT !.todo = ex.states]
  <2>1. lc'.illegal = FALSE
    BY <1>6 DEF NoLocals
  <2>2. RangeOf(ex'.removed) = {}
    BY <1>3, <1>4 DEF RangeOf
  <2>3. Unended(pc, ex, lc)'
    BY <1>6, <2>2 DEF Unended, RangeOf
  <2>4. EndedOnce(ex)'
    BY <1>2, <1>4 DEF EndedOnce, Injective, RangeOf
  <2> QED BY <1>4, <1>6, <2>1, <2>3, <2>4 DEF OnceInv
<1> QED BY <1>4, <1>5, <1>6

\* The loop of doDumpStates.
LEMMA KillOnce ==
  ASSUME IndInv, OnceInv, Kill
  PROVE  OnceInv'
<1>1. pc = "kill"
  BY DEF Kill
<1>2. /\ ContainersInv(ex) /\ LocalsOK(pc, ex, lc, current) /\ lc \in LocalsType
      /\ EndedOnce(ex) /\ lc.todo \cap RangeOf(ex.removed) = {} /\ lc.illegal = FALSE
  BY <1>1, ScalarTypes DEF OnceInv, Unended
<1>3. CASE lc.todo = {}
  <2>1. pc' = "update" /\ ex' = ex /\ lc' = NoLocals /\ fault' = fault
    BY <1>3 DEF Kill, Goto
  <2> QED BY <1>2, <2>1, LoopStepOnce
<1>4. CASE lc.todo # {}
  <2>1. PICK s \in lc.todo : Goto("kill", terminateState(ex, s), [lc EXCEPT !.todo = @ \ {s}])
    BY <1>4 DEF Kill
  <2> DEFINE x == terminateState(ex, s)
             l == [lc EXCEPT !.todo = @ \ {s}]
  <2>2. s \in Live(ex) /\ s \notin RangeOf(ex.removed)
    BY <1>2 DEF LocalsOK, Live
  <2>3. EndedOnce(x) /\ RangeOf(x.removed) \subseteq RangeOf(ex.removed) \cup {s}
    BY <1>2, <2>2, TerminateOnce
  <2>4. l.todo = lc.todo \ {s} /\ l.illegal = FALSE
    BY <1>2 DEF LocalsType
  <2>5. Goto("kill", x, l)
    BY <2>1
  <2> HIDE DEF x, l
  <2>6. Unended("kill", x, l)
    BY <1>2, <2>3, <2>4 DEF Unended
  <2> QED BY <2>3, <2>4, <2>5, <2>6, GotoOnce
<1> QED BY <1>3, <1>4

\* updateStates hands the searcher removals it accepts.
LEMMA UpdateStatesOnce ==
  ASSUME IndInv, OnceInv, UpdateStates
  PROVE  OnceInv'
<1>1. pc = "update"
  BY DEF UpdateStates
<1>2. /\ ContainersInv(ex) /\ LocalsOK(pc, ex, lc, current) /\ SearcherInv /\ EndedOnce(ex)
      /\ DOMAIN ex = ExecFields
  BY ScalarTypes DEF OnceInv, ContainersInv, ExecType
<1>3. phase = "searching" => RemovalsValid
  BY <1>1, <1>2 DEF SearcherInv, EndedOnce, RemovalsValid
<1> DEFINE x == [ex EXCEPT !.states = @ \cup ex.added, !.added = {}]
<1>4. pc' = "erase" /\ ex' = x /\ lc' = lc /\ fault' = fault
  BY <1>3 DEF UpdateStates
<1>5. x.removed = ex.removed /\ x.states = ex.states \cup ex.added
  BY <1>2 DEF ExecFields
<1>6. lc = NoLocals
  BY <1>1, <1>2 DEF LocalsOK
<1>7. EndedOnce(x)
  BY <1>2, <1>5 DEF EndedOnce
<1>8. ContainersInv(ex')
  BY UpdateStatesKeeps DEF IndInv
<1> HIDE DEF x
<1> QED BY <1>4, <1>6, <1>7, <1>8, LoopStepOnce

\* The erasure loop finds every removed state.
LEMMA EraseStateOnce ==
  ASSUME IndInv, OnceInv, EraseState
  PROVE  OnceInv'
<1> DEFINE es == Head(ex.removed)
           d == Delete(ex, es)
           x == [d EXCEPT !.removed = Tail(@)]
<1>1. pc = "erase" /\ ex.removed # << >>
  BY DEF EraseState
<1>2. /\ ContainersInv(ex) /\ LocalsOK(pc, ex, lc, current) /\ EndedOnce(ex)
      /\ Accounted(ex) /\ ex.removed \in Seq(State)
  BY ScalarTypes DEF OnceInv, ContainersInv, ExecType
<1>3. /\ RangeOf(ex.removed) = {es} \cup RangeOf(Tail(ex.removed))
      /\ Injective(Tail(ex.removed)) /\ es \notin RangeOf(Tail(ex.removed))
  BY <1>1, <1>2, RangeHeadTail, InjectiveTail DEF EndedOnce
<1>4. es \in ex.states /\ es \in Live(ex) /\ es \notin ex.freed
  BY <1>2, <1>3 DEF EndedOnce, Accounted, Live
<1>5. pc' = "erase" /\ ex' = x /\ lc' = lc /\ fault' = fault
  BY <1>4 DEF EraseState, Goto
<1>6. /\ ContainersInv(d) /\ d.states = ex.states \ {es} /\ d.removed = ex.removed
  BY <1>2, <1>4, DeleteKeeps
<1>7. DOMAIN d = ExecFields
  BY <1>6 DEF ContainersInv, ExecType
<1> HIDE DEF d
<1>8. x.states = ex.states \ {es} /\ x.removed = Tail(ex.removed)
  BY <1>6, <1>7 DEF ExecFields
<1> HIDE DEF x, es
<1>9. EndedOnce(x)
  BY <1>2, <1>3, <1>8 DEF EndedOnce
<1>10. lc = NoLocals
  BY <1>1, <1>2 DEF LocalsOK
<1>11. ContainersInv(ex')
  BY EraseStateKeeps DEF IndInv
<1> QED BY <1>5, <1>9, <1>10, <1>11, LoopStepOnce

\* The first state, with nothing removed.
LEMMA InitOnce == Init => OnceInv
<1> SUFFICES ASSUME Init PROVE OnceInv
  OBVIOUS
<1>1. ex.removed = << >> /\ lc = NoLocals /\ pc \in {"seeded", "loop"} /\ fault = "none"
  BY DEF Init
<1>2. NoLocals.illegal = FALSE
  BY DEF NoLocals
<1>3. RangeOf(ex.removed) = {} /\ Injective(ex.removed)
  BY <1>1 DEF RangeOf, Injective
<1>4. EndedOnce(ex) /\ Unended(pc, ex, lc)
  BY <1>3 DEF EndedOnce, Unended
<1> QED BY <1>1, <1>2, <1>4 DEF OnceInv

\* Every step keeps removedStates free of repetitions.
LEMMA NextOnce ==
  ASSUME NoDefects, IndInv, OnceInv, [Next]_vars
  PROVE  OnceInv'
<1>1. CASE Instruction
  BY <1>1, SimpleOnce, ExecAllocOnce, LoopHeadsOnce, MemoryOnce, CallOnce, FreeOnce, BranchOnce
     DEF Instruction
<1>2. CASE Loop
  <2>1. ~MemoryCheck
    BY DEF MemoryCheck, NoDefects
  <2> QED BY <1>2, <2>1, QuietOnce, DumpOnce, KillOnce, UpdateStatesOnce, EraseStateOnce DEF Loop
<1>3. CASE Halt \/ Terminated \/ UNCHANGED vars
  <2>1. UNCHANGED <<ex, pc, lc, fault>>
    BY <1>3 DEF Halt, Terminated, vars
  <2>2. EndedOnce(ex)' /\ Unended(pc, ex, lc)'
    <3>1. EndedOnce(ex) /\ Unended(pc, ex, lc)
      BY DEF OnceInv
    <3> QED BY <2>1, <3>1 DEF EndedOnce, Unended, Injective, RangeOf
  <2> QED BY <2>1, <2>2 DEF OnceInv
<1> QED BY <1>1, <1>2, <1>3 DEF Next

\* In every configuration without the known defects (NoDefects), no run ever fails
\* an assertion of a searcher, looks up a deleted state or uses a null state: a
\* state is terminated at most once between two calls of updateStates, whatever the
\* handlers do with it.
THEOREM NoFaultAlways == NoDefects => (Spec => []NoFault)
<1> SUFFICES ASSUME NoDefects PROVE Spec => []NoFault
  OBVIOUS
<1>1. Init => IndInv /\ OnceInv
  BY InitInv, InitOnce
<1>2. (IndInv /\ OnceInv) /\ [Next]_vars => (IndInv /\ OnceInv)'
  BY NextInv, NextOnce
<1>3. IndInv /\ OnceInv => NoFault
  BY DEF OnceInv, NoFault
<1> QED BY <1>1, <1>2, <1>3, PTL DEF Spec

(***************************************************************************)
(* Seeds are handed on                                                     *)
(***************************************************************************)

\* From x to y nothing deleted comes back, and unless a state is deleted every seed
\* of x still drives a state.
SeedsPass(x, y) ==
  /\ x.freed \subseteq y.freed
  /\ y.freed = x.freed => \A s \in State : \A d \in x.seeds[s] : \E r \in State : d \in y.seeds[r]

\* branch() leaves an entry of its result null only beyond max-forks, and the states
\* it makes have no seeds yet.
SeedsInv ==
  /\ pc = "seeds" /\ Null \in RangeOf(lc.res) => forks(ex) >= MaxForks
  /\ pc \in {"branch", "seeds"} =>
       \A r \in RangeOf(lc.res) \ {Null, current} : ex.seeds[r] = {}

\* SeedsPass is transitive.
LEMMA PassTwice ==
  ASSUME NEW x, NEW y, NEW z, SeedsPass(x, y), SeedsPass(y, z)
  PROVE  SeedsPass(x, z)
<1>1. x.freed \subseteq z.freed
  BY DEF SeedsPass
<1>2. ASSUME z.freed = x.freed, NEW s \in State, NEW d \in x.seeds[s]
      PROVE  \E r \in State : d \in z.seeds[r]
  <2>1. y.freed = x.freed /\ z.freed = y.freed
    BY <1>2 DEF SeedsPass
  <2>2. PICK q \in State : d \in y.seeds[q]
    BY <1>2, <2>1 DEF SeedsPass
  <2> QED BY <2>1, <2>2 DEF SeedsPass
<1> QED BY <1>1, <1>2 DEF SeedsPass

\* What leaves seedMap and the deleted states alone.
LEMMA PassSame ==
  ASSUME NEW x, NEW y, y.seeds = x.seeds, y.freed = x.freed
  PROVE  SeedsPass(x, y)
BY DEF SeedsPass

\* The deletion of a state takes its seeds with it.
LEMMA PassDelete ==
  ASSUME NEW x, ContainersInv(x), NEW s \in Live(x)
  PROVE  SeedsPass(x, Delete(x, s)) /\ Delete(x, s).freed # x.freed
<1>1. DOMAIN x = ExecFields /\ s \notin x.freed
  BY DEF ContainersInv, ExecType, Accounted
<1>2. Delete(x, s).freed = x.freed \cup {s}
  BY <1>1 DEF Delete, ExecFields
<1> QED BY <1>1, <1>2 DEF SeedsPass

\* terminateState.
LEMMA PassTerminate ==
  ASSUME NEW x, ContainersInv(x), NEW s \in Live(x)
  PROVE  SeedsPass(x, terminateState(x, s))
<1>1. CASE s \in x.added
  <2>1. terminateState(x, s) = Delete(x, s)
    BY <1>1 DEF terminateState
  <2> QED BY <2>1, PassDelete
<1>2. CASE s \notin x.added
  <2>1. DOMAIN x = ExecFields
    BY DEF ContainersInv, ExecType
  <2>2. /\ terminateState(x, s).seeds = x.seeds
        /\ terminateState(x, s).freed = x.freed
    BY <1>2, <2>1 DEF terminateState, ExecFields
  <2> QED BY <2>2, PassSame
<1> QED BY <1>1, <1>2

\* featureStates.insert.
LEMMA PassFeature ==
  ASSUME NEW x, ContainersInv(x), NEW s
  PROVE  SeedsPass(x, NoteFeature(x, s))
<1>1. DOMAIN x = ExecFields
  BY DEF ContainersInv, ExecType
<1>2. NoteFeature(x, s).seeds = x.seeds /\ NoteFeature(x, s).freed = x.freed
  BY <1>1 DEF NoteFeature, ExecFields
<1> QED BY <1>2, PassSame

\* Both states of a fork have the seeds of the one that forked.
LEMMA PassSplit ==
  ASSUME NEW x, ContainersInv(x), NEW s \in Live(x), x.next <= MaxStates,
         NEW T \in SUBSET x.seeds[s]
  PROVE  SeedsPass(x, SplitSeeds(Split(x, s), s, x.next, T))
<1> DEFINE n == x.next
           u == Split(x, s)
           y == SplitSeeds(u, s, n, T)
<1>1. /\ n \in State /\ n \notin Live(x) /\ s \in State /\ x.seeds \in [State -> SUBSET Seeds]
      /\ DOMAIN x = ExecFields
  BY SplitKeeps DEF ContainersInv, ExecType, Live
<1>2. n # s /\ x.seeds[n] = {}
  BY <1>1 DEF ContainersInv
<1>3. DOMAIN u = ExecFields /\ u.seeds = x.seeds /\ u.freed = x.freed
  BY <1>1, SplitFields
<1> HIDE DEF u, n
<1>4. /\ y.seeds = [x.seeds EXCEPT ![s] = T, ![n] = x.seeds[s] \ T]
      /\ y.freed = x.freed
  BY <1>3 DEF SplitSeeds, ExecFields
<1> HIDE DEF y
<1>5. /\ y.seeds[s] = T /\ y.seeds[n] = x.seeds[s] \ T
      /\ \A r \in State \ {s, n} : y.seeds[r] = x.seeds[r]
  BY <1>1, <1>2, <1>4
<1>6. ASSUME NEW q \in State, NEW d \in x.seeds[q]
      PROVE  \E r \in State : d \in y.seeds[r]
  <2>1. CASE q = s
    BY <1>1, <1>5, <1>6, <2>1
  <2>2. CASE q # s
    BY <1>2, <1>5, <1>6, <2>2
  <2> QED BY <2>1, <2>2
<1>7. SeedsPass(x, y)
  BY <1>4, <1>6 DEF SeedsPass
<1> QED BY <1>7 DEF y, u, n

\* Executor::fork.
LEMMA PassFork ==
  ASSUME NEW x, ContainersInv(x), NEW s \in Live(x), NEW o \in fork(x, s)
  PROVE  SeedsPass(x, o.x)
<1>1. \/ o = Outcome(terminateState(x, s), Null, Null)
      \/ o = Outcome(NoteFeature(x, s), s, Null)
      \/ o = Outcome(NoteFeature(x, s), Null, s)
      \/ o \in ForkBoth(x, s)
  BY DEF fork
<1>2. CASE o = Outcome(terminateState(x, s), Null, Null)
  <2>1. o.x = terminateState(x, s)
    BY <1>2 DEF Outcome
  <2> QED BY <2>1, PassTerminate
<1>3. CASE \/ o = Outcome(NoteFeature(x, s), s, Null)
           \/ o = Outcome(NoteFeature(x, s), Null, s)
  <2>1. o.x = NoteFeature(x, s)
    BY <1>3 DEF Outcome
  <2> QED BY <2>1, PassFeature
<1>4. CASE o \in ForkBoth(x, s)
  <2> DEFINE n == x.next
             y(T) == SplitSeeds(Split(x, s), s, n, T)
  <2>x. ExecType(x) /\ DOMAIN x = ExecFields
    BY DEF ContainersInv, ExecType
  <2>1. x.next <= MaxStates
    <3>1. ~(x.next > MaxStates)
      BY <1>4 DEF ForkBoth
    <3> QED BY <3>1, <2>x, ConfigAssumption DEF ExecType
  <2>2. PICK T \in TrueSeeds(x, s) :
          o = IF MaxDepth # 0 /\ MaxDepth <= y(T).depth[s]
              THEN Outcome(terminateState(terminateState(y(T), s), n), Null, Null)
              ELSE Outcome(y(T), s, n)
    BY <1>4 DEF ForkBoth
  <2>3. T \in SUBSET x.seeds[s]
    BY DEF TrueSeeds
  <2> DEFINE z == y(T)
  <2>4. SeedsPass(x, z)
    BY <2>1, <2>3, PassSplit
  <2>5. CASE o = Outcome(z, s, n)
    <3>1. o.x = z
      BY <2>5 DEF Outcome
    <3> QED BY <2>4, <3>1
  <2>6. CASE o = Outcome(terminateState(terminateState(z, s), n), Null, Null)
    <3> DEFINE u == terminateState(z, s)
    <3>1. o.x = terminateState(u, n)
      BY <2>6 DEF Outcome
    <3>2. /\ ContainersInv(Split(x, s)) /\ Live(Split(x, s)) = Live(x) \cup {n}
          /\ n \in State /\ n \notin Live(x)
      BY <2>1, SplitKeeps
    <3>3. Split(x, s).seeds = x.seeds
      BY <2>x, SplitFields
    <3>4. x.seeds[n] = {} /\ n # s
      BY <3>2 DEF ContainersInv
    <3>5. ContainersInv(z) /\ Live(z) = Live(x) \cup {n}
      BY <2>3, <3>2, <3>3, <3>4, SplitSeedsKeeps
    <3> HIDE DEF z
    <3>6. ContainersInv(u) /\ Live(z) \ {s} \subseteq Live(u) /\ SeedsPass(z, u)
      BY <3>5, TerminateKeeps, PassTerminate
    <3>7. n \in Live(u)
      BY <3>4, <3>5, <3>6
    <3> HIDE DEF u
    <3>8. SeedsPass(u, terminateState(u, n))
      BY <3>6, <3>7, PassTerminate
    <3>9. SeedsPass(x, u)
      BY <2>4, <3>6, PassTwice
    <3> QED BY <3>1, <3>8, <3>9, PassTwice
  <2> QED BY <2>2, <2>5, <2>6
<1> QED BY <1>1, <1>2, <1>3, <1>4

\* fork, and then the termination of its first result.
LEMMA PassAfterFork ==
  ASSUME NEW x, ContainersInv(x), NEW s \in Live(x), NEW o \in fork(x, s),
         NEW y \in {o.x} \cup (IF o.t # Null THEN {terminateState(o.x, o.t)} ELSE {})
  PROVE  SeedsPass(x, y)
<1>1. SeedsPass(x, o.x) /\ ForkPost(x, s, o)
  BY PassFork, ForkKeeps
<1>2. CASE y = o.x
  BY <1>1, <1>2
<1>3. CASE o.t # Null /\ y = terminateState(o.x, o.t)
  <2>1. SeedsPass(o.x, y)
    BY <1>1, <1>3, PassTerminate DEF ForkPost
  <2> QED BY <1>1, <2>1, PassTwice
<1> QED BY <1>2, <1>3

\* A step of a handler passes the seeds on, except in branch().
LEMMA PassSimple ==
  ASSUME IndInv, ExecPlain \/ ExecTerminate \/ ExecBr \/ ExecAlloc
  PROVE  SeedsPass(ex, ex')
<1>1. pc = "exec" /\ pc \in HandlerPcs
  BY DEF ExecPlain, ExecTerminate, ExecBr, ExecAlloc, HandlerPcs
<1>2. ContainersInv(ex) /\ current \in Live(ex)
  BY <1>1, HandlerFacts
<1>3. CASE ExecPlain
  <2>1. ex' = ex
    BY <1>3 DEF ExecPlain, Finish, Goto
  <2> QED BY <2>1, PassSame
<1>4. CASE ExecTerminate
  <2>1. ex' = terminateState(ex, current)
    BY <1>4 DEF ExecTerminate, Finish, Goto
  <2> QED BY <1>2, <2>1, PassTerminate
<1>5. CASE ExecBr
  <2>1. PICK o \in fork(ex, current) : Finish(o.x)
    BY <1>5 DEF ExecBr
  <2>2. ex' = o.x
    BY <2>1 DEF Finish, Goto
  <2> QED BY <1>2, <2>2, PassFork
<1>6. CASE ExecAlloc
  <2>1. PICK fixed \in fork(ex, current) :
          \/ Finish(fixed.x)
          \/ /\ fixed.f # Null
             /\ \E huge \in fork(fixed.x, fixed.f) :
                  Finish(IF huge.f = Null THEN huge.x ELSE terminateState(huge.x, huge.f))
    BY <1>6 DEF ExecAlloc
  <2>2. ForkPost(ex, current, fixed) /\ SeedsPass(ex, fixed.x)
    BY <1>2, ForkKeeps, PassFork
  <2>3. CASE Finish(fixed.x)
    <3>1. ex' = fixed.x
      BY <2>3 DEF Finish, Goto
    <3> QED BY <2>2, <3>1
  <2>4. CASE /\ fixed.f # Null
             /\ \E huge \in fork(fixed.x, fixed.f) :
                  Finish(IF huge.f = Null THEN huge.x ELSE terminateState(huge.x, huge.f))
    <3>1. PICK huge \in fork(fixed.x, fixed.f) :
            Finish(IF huge.f = Null THEN huge.x ELSE terminateState(huge.x, huge.f))
      BY <2>4
    <3>2. ContainersInv(fixed.x) /\ fixed.f \in Live(fixed.x)
      BY <2>2, <2>4 DEF ForkPost
    <3>3. ForkPost(fixed.x, fixed.f, huge) /\ SeedsPass(fixed.x, huge.x)
      BY <3>2, ForkKeeps, PassFork
    <3>4. ContainersInv(huge.x) /\ (huge.f # Null => huge.f \in Live(huge.x))
      BY <3>3 DEF ForkPost
    <3>5. ex' = IF huge.f = Null THEN huge.x ELSE terminateState(huge.x, huge.f)
      BY <3>1 DEF Finish, Goto
    <3>6. SeedsPass(ex, huge.x)
      BY <2>2, <3>3, PassTwice
    <3>7. CASE huge.f = Null
      BY <3>5, <3>6, <3>7
    <3>8. CASE huge.f # Null
      <4>1. ex' = terminateState(huge.x, huge.f)
        BY <3>5, <3>8
      <4>2. SeedsPass(huge.x, ex')
        BY <3>4, <3>8, <4>1, PassTerminate
      <4> QED BY <3>6, <4>2, PassTwice
    <3> QED BY <3>7, <3>8
  <2> QED BY <2>1, <2>3, <2>4
<1> QED BY <1>3, <1>4, <1>5, <1>6

\* An iteration of executeMemoryOperation, of a symbolic call, of resolveExact or of
\* executeFree.
LEMMA PassLoops ==
  ASSUME IndInv, MemoryResolve \/ MemoryUnbound \/ CallResolve \/ ExecFree \/ ResolveExact
                 \/ ResolveDone \/ FreeResults
  PROVE  SeedsPass(ex, ex')
<1>1. pc \in HandlerPcs /\ (~ExecFree => pc \in {"call", "mem", "resolve", "free"})
  BY DEF MemoryResolve, MemoryUnbound, CallResolve, ExecFree, ResolveExact, ResolveDone,
         FreeResults, HandlerPcs
<1>2. /\ ContainersInv(ex) /\ LocalsOK(pc, ex, lc, current) /\ current \in Live(ex)
      /\ current \in ex.states /\ lc \in LocalsType
  BY <1>1, HandlerFacts
<1>3. /\ pc \in {"call", "mem"} => lc.reg # Null
      /\ lc.reg # Null => lc.reg \in Live(ex)
      /\ RangeOf(lc.res) \subseteq Live(ex) \cup {Null}
      /\ pc = "free" => Null \notin RangeOf(lc.res)
  BY <1>2 DEF LocalsOK
<1>4. CASE MemoryUnbound
  <2>1. ex' = terminateState(ex, lc.reg) /\ pc = "mem"
    BY <1>4 DEF MemoryUnbound, Finish, Goto
  <2> QED BY <1>2, <1>3, <2>1, PassTerminate
<1>5. CASE MemoryResolve
  <2>1. pc = "mem"
    BY <1>5 DEF MemoryResolve
  <2>2. PICK o \in fork(ex, lc.reg) :
          \E x \in {o.x} \cup (IF o.t # Null THEN {terminateState(o.x, o.t)} ELSE {}) :
            IF o.f = Null THEN Finish(x)
            ELSE Goto("mem", x, [lc EXCEPT !.reg = o.f, !.fuel = @ - 1])
    BY <1>5 DEF MemoryResolve
  <2>3. PICK x \in {o.x} \cup (IF o.t # Null THEN {terminateState(o.x, o.t)} ELSE {}) :
          IF o.f = Null THEN Finish(x)
          ELSE Goto("mem", x, [lc EXCEPT !.reg = o.f, !.fuel = @ - 1])
    BY <2>2
  <2>4. ex' = x
    BY <2>3 DEF Finish, Goto
  <2>5. SeedsPass(ex, x)
    BY <1>2, <1>3, <2>1, PassAfterFork
  <2> QED BY <2>4, <2>5
<1>6. CASE CallResolve
  <2>1. pc = "call"
    BY <1>6 DEF CallResolve
  <2>2. PICK o \in fork(ex, lc.reg) :
          \/ NextFree(o.x, o.f, lc.hasInvalid)
          \/ o.t # Null /\ NextFree(terminateState(o.x, o.t), o.f, lc.hasInvalid)
          \/ Crash("destroyed state")
          \/ NextFree(IF lc.hasInvalid THEN o.x ELSE terminateState(o.x, current), o.f, TRUE)
    BY <1>6 DEF CallResolve
  <2>3. \/ ex' = o.x
        \/ o.t # Null /\ ex' = terminateState(o.x, o.t)
        \/ ex' = ex
        \/ ex' = terminateState(o.x, current)
    BY <2>2 DEF NextFree, Finish, Goto, Crash
  <2>4. SeedsPass(ex, o.x) /\ ForkPost(ex, lc.reg, o)
    BY <1>2, <1>3, <2>1, PassFork, ForkKeeps
  <2>5. /\ ContainersInv(o.x) /\ o.x.states = ex.states
        /\ o.t # Null => o.t \in Live(o.x)
    BY <2>4 DEF ForkPost
  <2>6. current \in Live(o.x)
    BY <1>2, <2>5 DEF Live
  <2>7. SeedsPass(ex, ex)
    BY PassSame
  <2>8. ASSUME NEW s \in Live(o.x), ex' = terminateState(o.x, s)
        PROVE  SeedsPass(ex, ex')
    <3>1. SeedsPass(o.x, ex')
      BY <2>5, <2>8, PassTerminate
    <3> QED BY <2>4, <3>1, PassTwice
  <2> QED BY <2>3, <2>4, <2>5, <2>6, <2>7, <2>8
<1>7. CASE ExecFree
  <2>1. PICK zero \in fork(ex, current), k \in 0..MaxTargets :
          IF zero.f = Null THEN Finish(zero.x)
          ELSE Goto("resolve", zero.x, [NoLocals EXCEPT !.reg = zero.f, !.fuel = k])
    BY <1>7 DEF ExecFree
  <2>2. ex' = zero.x
    BY <2>1 DEF Finish, Goto
  <2> QED BY <1>2, <2>2, PassFork
<1>8. CASE ResolveExact
  <2>1. lc.reg # Null
    BY <1>8 DEF ResolveExact
  <2>2. PICK o \in fork(ex, lc.reg) : ex' = o.x
    BY <1>8 DEF ResolveExact, Goto
  <2> QED BY <1>2, <1>3, <2>1, <2>2, PassFork
<1>9. CASE ResolveDone
  <2>1. ex' = IF lc.reg = Null THEN ex ELSE terminateState(ex, lc.reg)
    BY <1>9 DEF ResolveDone, Goto
  <2>2. CASE lc.reg = Null
    BY <2>1, <2>2, PassSame
  <2>3. CASE lc.reg # Null
    BY <1>2, <1>3, <2>1, <2>3, PassTerminate
  <2> QED BY <2>2, <2>3
<1>10. CASE FreeResults
  <2>1. CASE lc.res = << >>
    <3>1. ex' = ex
      BY <1>10, <2>1 DEF FreeResults, Finish, Goto
    <3> QED BY <3>1, PassSame
  <2>2. CASE lc.res # << >>
    <3>1. ex' = ex \/ ex' = terminateState(ex, Head(lc.res))
      BY <1>10, <2>2 DEF FreeResults, Goto
    <3>2. Head(lc.res) \in Live(ex)
      <4>1. lc.res \in Seq(State \cup {Null}) /\ pc = "free"
        BY <1>2, <1>10 DEF LocalsType, FreeResults
      <4>2. Head(lc.res) = lc.res[1] /\ 1 \in DOMAIN lc.res
        BY <2>2, <4>1
      <4>3. Head(lc.res) \in RangeOf(lc.res)
        BY <4>2 DEF RangeOf
      <4> QED BY <1>3, <4>1, <4>3
    <3>3. SeedsPass(ex, ex) /\ SeedsPass(ex, terminateState(ex, Head(lc.res)))
      BY <1>2, <3>2, PassTerminate, PassSame
    <3> QED BY <3>1, <3>3
  <2> QED BY <2>1, <2>2
<1> QED BY <1>4, <1>5, <1>6, <1>7, <1>8, <1>9, <1>10

\* branch(): the seeds of the state go to the entries of result, unless max-forks
\* left one of them null.
LEMMA PassBranchSeeds ==
  ASSUME IndInv, SeedsInv, BranchSeeds, ~(forks(ex) >= MaxForks)
  PROVE  SeedsPass(ex, ex')
<1>1. pc = "seeds" /\ pc \in HandlerPcs
  BY DEF BranchSeeds, HandlerPcs
<1>2. /\ ContainersInv(ex) /\ LocalsOK(pc, ex, lc, current) /\ lc \in LocalsType
      /\ current \in State
  BY <1>1, HandlerFacts
<1>3. /\ RangeOf(lc.res) \subseteq Live(ex) \cup {Null} /\ current \in RangeOf(lc.res)
      /\ \A i, j \in DOMAIN lc.res : lc.res[i] = lc.res[j] /\ lc.res[i] # Null => i = j
      /\ Len(lc.res) = lc.width /\ lc.width > 0 /\ lc.res \in Seq(State \cup {Null})
  BY <1>1, <1>2 DEF LocalsOK, LocalsType
<1>4. Null \notin RangeOf(lc.res)
  BY <1>1 DEF SeedsInv
<1>5. RangeOf(lc.res) \subseteq Live(ex) /\ RangeOf(lc.res) \subseteq State
  BY <1>2, <1>3, <1>4 DEF ContainersInv, ExecType, Live
<1>6. CASE ex.seeds[current] = {}
  <2>1. ex' = ex
    BY <1>6 DEF BranchSeeds, Goto
  <2> QED BY <2>1, PassSame
<1>7. CASE ex.seeds[current] # {}
  <2> DEFINE taken(to, s) == {d \in ex.seeds[current] : lc.res[to[d]] = s}
  <2>1. PICK to \in [ex.seeds[current] -> 1..lc.width] :
          ex' = [ex EXCEPT !.seeds = [s \in State |-> IF s \in RangeOf(lc.res) THEN taken(to, s)
                                                                               ELSE ex.seeds[s]]]
    BY <1>7 DEF BranchSeeds, Goto
  <2>2. DOMAIN ex = ExecFields
    BY <1>2 DEF ContainersInv, ExecType
  <2>3. /\ ex'.freed = ex.freed
        /\ ex'.seeds = [s \in State |-> IF s \in RangeOf(lc.res) THEN taken(to, s)
                                                                 ELSE ex.seeds[s]]
    BY <2>1, <2>2 DEF ExecFields
  <2>4. ASSUME NEW q \in State, NEW d \in ex.seeds[q]
        PROVE  \E r \in State : d \in ex'.seeds[r]
    <3>1. CASE q = current
      <4>1. to[d] \in 1..lc.width /\ d \in ex.seeds[current]
        BY <2>4, <3>1
      <4>2. lc.res[to[d]] \in RangeOf(lc.res)
        BY <1>3, <4>1 DEF RangeOf
      <4>3. PICK r \in State : r = lc.res[to[d]] /\ r \in RangeOf(lc.res)
        BY <1>5, <4>2
      <4>4. d \in taken(to, r)
        BY <4>1, <4>3
      <4> QED BY <2>3, <4>3, <4>4
    <3>2. CASE q # current /\ q \notin RangeOf(lc.res)
      BY <2>3, <2>4, <3>2
    <3>3. CASE q # current /\ q \in RangeOf(lc.res)
      BY <1>1, <1>4, <2>4, <3>3 DEF SeedsInv
    <3> QED BY <3>1, <3>2, <3>3
  <2> QED BY <2>3, <2>4 DEF SeedsPass
<1> QED BY <1>6, <1>7

\* The other steps of branch().
LEMMA PassBranch ==
  ASSUME IndInv, ExecBranch \/ BranchGrow \/ BranchGrown \/ BranchPrune \/ BranchReturn
  PROVE  SeedsPass(ex, ex')
<1>1. pc \in HandlerPcs
  BY DEF ExecBranch, BranchGrow, BranchGrown, BranchPrune, BranchReturn, HandlerPcs
<1>2. /\ ContainersInv(ex) /\ LocalsOK(pc, ex, lc, current) /\ lc \in LocalsType
      /\ DOMAIN ex = ExecFields
  BY <1>1, HandlerFacts DEF ExecType
<1>3. /\ RangeOf(lc.res) \subseteq Live(ex) \cup {Null} /\ lc.res \in Seq(State \cup {Null})
      /\ pc = "branched" => Len(lc.res) > 0
  BY <1>2 DEF LocalsOK, LocalsType
<1>4. \A i \in 1..Len(lc.res) : lc.res[i] # Null => lc.res[i] \in Live(ex)
  BY <1>3 DEF RangeOf
<1>5. CASE ExecBranch
  <2>1. ex' = ex \/ ex' = NoteFeature(ex, current)
    BY <1>5 DEF ExecBranch, Goto
  <2>2. SeedsPass(ex, ex) /\ SeedsPass(ex, NoteFeature(ex, current))
    BY <1>2, PassFeature, PassSame
  <2> QED BY <2>1, <2>2
<1>6. CASE BranchGrow
  <2>1. PICK i \in 1..Len(lc.res) : ex' = Split(ex, lc.res[i])
    BY <1>6 DEF BranchGrow, Goto
  <2>2. ex'.seeds = ex.seeds /\ ex'.freed = ex.freed
    BY <1>2, <2>1, SplitFields
  <2> QED BY <2>2, PassSame
<1>7. CASE BranchGrown
  <2>1. ex' = ex
    BY <1>7 DEF BranchGrown, Goto
  <2> QED BY <2>1, PassSame
<1>8. CASE BranchPrune
  <2>1. ex' = ex \/ \E i \in Unseeded : ex' = terminateState(ex, lc.res[i])
    BY <1>8 DEF BranchPrune, Goto
  <2>2. ASSUME NEW i \in Unseeded
        PROVE  SeedsPass(ex, terminateState(ex, lc.res[i]))
    <3>1. lc.res[i] \in Live(ex)
      BY <1>4 DEF Unseeded
    <3> QED BY <1>2, <3>1, PassTerminate
  <2>3. SeedsPass(ex, ex)
    BY PassSame
  <2> QED BY <2>1, <2>2, <2>3
<1>9. CASE BranchReturn
  <2> DEFINE back == lc.res[Len(lc.res)]
  <2>1. pc = "branched" /\ (ex' = ex \/ (back # Null /\ ex' = terminateState(ex, back)))
    BY <1>9 DEF BranchReturn, Finish, Goto, Crash
  <2>2. Len(lc.res) \in 1..Len(lc.res)
    BY <1>3, <2>1
  <2>3. back # Null => back \in Live(ex)
    BY <1>4, <2>2
  <2> HIDE DEF back
  <2>4. back # Null => SeedsPass(ex, terminateState(ex, back))
    BY <1>2, <2>3, PassTerminate
  <2>5. SeedsPass(ex, ex)
    BY PassSame
  <2> QED BY <2>1, <2>4, <2>5
<1> QED BY <1>5, <1>6, <1>7, <1>8, <1>9

\* The steps of the loop.
LEMMA PassLoop ==
  ASSUME IndInv, Loop
  PROVE  SeedsPass(ex, ex')
<1>1. ContainersInv(ex) /\ DOMAIN ex = ExecFields
  BY DEF IndInv, ContainersInv, ExecType
<1>2. CASE Kill
  <2>1. ex' = ex \/ \E s \in lc.todo : ex' = terminateState(ex, s)
    BY <1>2 DEF Kill, Goto
  <2>2. lc.todo \subseteq Live(ex)
    BY DEF IndInv, LocalsOK, Live
  <2>3. \A s \in lc.todo : SeedsPass(ex, terminateState(ex, s))
    BY <1>1, <2>2, PassTerminate
  <2>4. SeedsPass(ex, ex)
    BY PassSame
  <2> QED BY <2>1, <2>3, <2>4
<1>3. CASE EraseState
  <2> DEFINE es == Head(ex.removed)
             d == Delete(ex, es)
  <2>1. ex' = ex \/ (es \notin ex.freed /\ ex' = [d EXCEPT !.removed = Tail(@)])
    BY <1>3 DEF EraseState, Goto, Crash
  <2>2. CASE ex' = ex
    BY <2>2, PassSame
  <2>3. CASE es \notin ex.freed /\ ex' = [d EXCEPT !.removed = Tail(@)]
    <3>1. ex.removed # << >> /\ ex.removed \in Seq(State)
      BY <1>1, <1>3 DEF EraseState, ContainersInv, ExecType
    <3>2. es \in RangeOf(ex.removed)
      BY <3>1, RangeHeadTail
    <3>3. es \in Live(ex)
      BY <1>1, <2>3, <3>2 DEF ContainersInv, Live
    <3>4. SeedsPass(ex, d) /\ ContainersInv(d)
      BY <1>1, <3>3, PassDelete, DeleteKeeps
    <3>5. DOMAIN d = ExecFields
      BY <3>4 DEF ContainersInv, ExecType
    <3> HIDE DEF d
    <3>6. ex'.seeds = d.seeds /\ ex'.freed = d.freed
      BY <2>3, <3>5 DEF ExecFields
    <3>7. SeedsPass(d, ex')
      BY <3>6, PassSame
    <3> QED BY <3>4, <3>7, PassTwice
  <2> QED BY <2>1, <2>2, <2>3
<1>4. CASE Loop /\ ~Kill /\ ~EraseState
  <2>1. ex'.seeds = ex.seeds /\ ex'.freed = ex.freed
    <3>1. CASE SeedSelect \/ Select
      <4>1. \E F : ex' = [ex EXCEPT !.feature = F]
        BY <3>1 DEF SeedSelect, Select, Execute
      <4> QED BY <1>1, <4>1 DEF ExecFields
    <3>2. CASE UpdateStates
      <4>1. ex' = ex \/ ex' = [ex EXCEPT !.states = @ \cup ex.added, !.added = {}]
        BY <3>2 DEF UpdateStates, Crash
      <4> QED BY <1>1, <4>1 DEF ExecFields
    <3>3. CASE SeedHalted \/ SeedStop \/ SearchStop
      BY <3>3 DEF SeedHalted, SeedStop, SearchStop, Dump
    <3>4. CASE SeedsDone \/ StartSearch \/ Timers \/ MemorySkip \/ MemoryCheck \/ EndStep
      BY <3>4 DEF SeedsDone, StartSearch, Timers, MemorySkip, MemoryCheck, EndStep, Goto
    <3> QED BY <1>4, <3>1, <3>2, <3>3, <3>4 DEF Loop
  <2> QED BY <2>1, PassSame
<1> QED BY <1>2, <1>3, <1>4

\* The steps that leave the loop of branch() and the hand-over of its seeds alone.
LEMMA OutsideBranch ==
  ASSUME IndInv, SeedsInv, [Next]_vars
  PROVE  \/ UNCHANGED <<ex, pc, lc, current>>
         \/ pc' \notin {"branch", "seeds"}
         \/ ExecBranch \/ BranchGrow \/ BranchGrown
<1>1. CASE Instruction
  BY <1>1 DEF Instruction, ExecPlain, ExecTerminate, ExecBr, BranchSeeds, BranchPrune,
     BranchReturn, ExecCall, CallResolve, NextFree, ExecMemory, MemoryResolve, MemoryUnbound,
     ExecAlloc, ExecFree, ResolveExact, ResolveDone, FreeResults, Finish, Goto, Crash
<1>2. CASE Loop
  BY <1>2 DEF Loop, SeedSelect, SeedHalted, SeedsDone, SeedStop, StartSearch, Select,
     SearchStop, Timers, MemorySkip, MemoryCheck, Kill, UpdateStates, EraseState, EndStep,
     Execute, Dump, Goto, Crash
<1>3. CASE Halt \/ Terminated \/ UNCHANGED vars
  BY <1>3 DEF Halt, Terminated, vars
<1> QED BY <1>1, <1>2, <1>3 DEF Next

\* SeedsInv is inductive.
LEMMA NextSeeds ==
  ASSUME IndInv, SeedsInv, [Next]_vars
  PROVE  SeedsInv'
<1>1. CASE UNCHANGED <<ex, pc, lc, current>>
  BY <1>1 DEF SeedsInv, RangeOf, forks
<1>2. CASE pc' \notin {"branch", "seeds"}
  BY <1>2 DEF SeedsInv
<1>3. CASE ExecBranch
  <2>1. PICK N \in 1..MaxTargets, illegal \in BOOLEAN :
          IF forks(ex) >= MaxForks
          THEN \E i \in 1..N :
                 Goto("seeds", ex,
                      [NoLocals EXCEPT !.width = N, !.illegal = illegal,
                         !.res = [j \in 1..N |-> IF j = i THEN current ELSE Null]])
          ELSE Goto("branch", NoteFeature(ex, current),
                    [NoLocals EXCEPT !.width = N, !.illegal = illegal, !.res = <<current>>])
    BY <1>3 DEF ExecBranch
  <2>2. CASE forks(ex) >= MaxForks
    <3>1. PICK i \in 1..N : 
            Goto("seeds", ex,
                 [NoLocals EXCEPT !.width = N, !.illegal = illegal,
                    !.res = [j \in 1..N |-> IF j = i THEN current ELSE Null]])
      BY <2>1, <2>2
    <3>2. lc'.res = [j \in 1..N |-> IF j = i THEN current ELSE Null] /\ ex' = ex /\ current' = current
      BY <3>1 DEF Goto, NoLocals
    <3>3. RangeOf(lc'.res) \subseteq {Null, current'}
      BY <3>2 DEF RangeOf
    <3>4. (forks(ex) >= MaxForks)'
      BY <2>2, <3>2 DEF forks
    <3>5. RangeOf(lc.res)' = RangeOf(lc'.res)
      BY DEF RangeOf
    <3> QED BY <3>3, <3>4, <3>5 DEF SeedsInv
  <2>3. CASE ~(forks(ex) >= MaxForks)
    <3>1. lc'.res = <<current>> /\ current' = current /\ pc' = "branch"
      BY <2>1, <2>3 DEF Goto, NoLocals
    <3>2. RangeOf(lc'.res) \subseteq {current'}
      BY <3>1 DEF RangeOf
    <3>3. RangeOf(lc.res)' = RangeOf(lc'.res)
      BY DEF RangeOf
    <3> QED BY <3>1, <3>2, <3>3 DEF SeedsInv
  <2> QED BY <2>2, <2>3
<1>4. CASE BranchGrow
  <2>1. pc = "branch" /\ pc \in HandlerPcs
    BY <1>4 DEF BranchGrow, HandlerPcs
  <2>2. /\ ContainersInv(ex) /\ LocalsOK(pc, ex, lc, current) /\ lc \in LocalsType
        /\ ExecType(ex) /\ DOMAIN ex = ExecFields
    BY <2>1, HandlerFacts DEF ExecType
  <2>3. PICK i \in 1..Len(lc.res) :
          Goto("branch", Split(ex, lc.res[i]), [lc EXCEPT !.res = Append(@, ex.next)])
    BY <1>4 DEF BranchGrow
  <2>4. /\ pc' = "branch" /\ current' = current /\ lc'.res = Append(lc.res, ex.next)
        /\ ex' = Split(ex, lc.res[i])
    BY <2>2, <2>3 DEF Goto, LocalsType
  <2>5. ex'.seeds = ex.seeds
    BY <2>2, <2>4, SplitFields
  <2>6. ex.next \in State /\ ex.next \notin Live(ex)
    <3>1. /\ Len(lc.res) < lc.width /\ Len(lc.res) <= lc.width
          /\ ex.next + lc.width - Len(lc.res) <= MaxStates + 1
      BY <1>4, <2>1, <2>2 DEF LocalsOK, BranchGrow
    <3>2. Len(lc.res) \in Nat /\ lc.width \in Nat /\ ex.next \in 2..MaxStates + 1
      BY <2>2 DEF LocalsType, ExecType
    <3>3. ex.next <= MaxStates
      BY <3>1, <3>2, ConfigAssumption
    <3>4. ex.next \notin 1..ex.next - 1
      BY <3>2, ConfigAssumption
    <3>5. ex.next \notin Live(ex)
      BY <2>2, <3>4 DEF ContainersInv, Accounted, Live
    <3> QED BY <3>2, <3>3, <3>5, ConfigAssumption DEF State
  <2>7. ex.seeds[ex.next] = {}
    BY <2>2, <2>6 DEF ContainersInv
  <2>8. RangeOf(lc'.res) = RangeOf(lc.res) \cup {ex.next}
    <3>1. lc.res \in Seq(State \cup {Null}) /\ ex.next \in State \cup {Null}
      BY <2>2, <2>6 DEF LocalsType
    <3> QED BY <2>4, <3>1, RangeAppend
  <2>9. RangeOf(lc.res)' = RangeOf(lc'.res)
    BY DEF RangeOf
  <2>10. \A r \in RangeOf(lc.res) \ {Null, current} : ex.seeds[r] = {}
    BY <2>1 DEF SeedsInv
  <2> QED BY <2>4, <2>5, <2>7, <2>8, <2>9, <2>10 DEF SeedsInv
<1>5. CASE BranchGrown
  <2>1. pc = "branch" /\ UNCHANGED <<ex, lc, current>>
    BY <1>5 DEF BranchGrown, Goto
  <2>2. Null \notin RangeOf(lc.res)
    BY <2>1 DEF IndInv, LocalsOK
  <2>3. \A r \in RangeOf(lc.res) \ {Null, current} : ex.seeds[r] = {}
    BY <2>1 DEF SeedsInv
  <2>4. RangeOf(lc.res)' = RangeOf(lc.res)
    BY <2>1 DEF RangeOf
  <2> QED BY <2>1, <2>2, <2>3, <2>4 DEF SeedsInv
<1> QED BY <1>1, <1>2, <1>3, <1>4, <1>5, OutsideBranch

\* What a step may do to the seeds.
LEMMA NextPasses ==
  ASSUME IndInv, SeedsInv, [Next]_vars
  PROVE  SeedsPass(ex, ex') \/ (pc = "seeds" /\ forks(ex) >= MaxForks)
<1>1. CASE Instruction
  <2>1. CASE ExecCall \/ ExecMemory
    <3>1. ex' = ex
      BY <2>1 DEF ExecCall, ExecMemory, Goto
    <3> QED BY <3>1, PassSame
  <2>2. CASE BranchSeeds
    <3>1. pc = "seeds"
      BY <2>2 DEF BranchSeeds
    <3> QED BY <2>2, <3>1, PassBranchSeeds
  <2> QED BY <1>1, <2>1, <2>2, PassSimple, PassLoops, PassBranch DEF Instruction
<1>2. CASE Loop
  BY <1>2, PassLoop
<1>3. CASE Halt \/ Terminated \/ UNCHANGED vars
  <2>1. ex' = ex
    BY <1>3 DEF Halt, Terminated, vars
  <2> QED BY <2>1, PassSame
<1> QED BY <1>1, <1>2, <1>3 DEF Next

\* A seed leaves seedMap only in a step that deletes a state, or where branch()
\* hands the seeds on and max-forks is reached: fork() and branch() hand every seed of the state they split
\* to one of the results, whatever the solver answers.
THEOREM SeedsNeverLost == Spec => SeedsNotLost
<1>1. Init => IndInv /\ SeedsInv
  <2>1. Init => SeedsInv
    BY DEF Init, SeedsInv
  <2> QED BY <2>1, InitInv
<1>2. (IndInv /\ SeedsInv) /\ [Next]_vars => (IndInv /\ SeedsInv)'
  BY NextInv, NextSeeds
<1>3. ASSUME IndInv, SeedsInv, [Next]_vars
      PROVE  [\A s \in State : \A d \in ex.seeds[s] :
                \/ \E r \in State : d \in ex'.seeds[r]
                \/ ex'.freed # ex.freed
                \/ pc = "seeds" /\ forks(ex) >= MaxForks]_vars
  BY <1>3, NextPasses DEF SeedsPass
<1> QED BY <1>1, <1>2, <1>3, PTL DEF Spec, SeedsNotLost

(***************************************************************************)
(* Everything is released                                                  *)
(***************************************************************************)

\* From doDumpStates on, the states that are left are terminated or about to be.
EndInv ==
  /\ ending => pc \in {"kill", "update", "erase", "done", "crashed"}
  /\ ending /\ pc = "kill" => ex.added = {} /\ ex.states \subseteq RangeOf(ex.removed) \cup lc.todo
  /\ ending /\ pc = "update" => ex.added = {} /\ ex.states \subseteq RangeOf(ex.removed)
  /\ ending /\ pc = "erase" => ex.states \subseteq RangeOf(ex.removed)
  /\ DumpStatesOnHalt /\ pc = "done" => ex.states = {}

\* Before doDumpStates there is nothing to show.
LEMMA NotEnding ==
  ASSUME ~ending', pc' # "done"
  PROVE  EndInv'
BY DEF EndInv

\* doDumpStates finds the states of the executor between two steps.
LEMMA DumpEnds ==
  ASSUME IndInv, pc \in {"loop", "seeded"}, Dump
  PROVE  EndInv'
<1>1. ex' = ex /\ ex.added = {} /\ ending' = TRUE
  BY DEF Dump, IndInv, SearcherInv
<1>2. CASE DumpStatesOnHalt /\ ex.states # {}
  <2>1. pc' = "kill" /\ lc'.todo = ex.states
    BY <1>2 DEF Dump, NoLocals
  <2> QED BY <1>1, <2>1 DEF EndInv
<1>3. CASE ~(DumpStatesOnHalt /\ ex.states # {})
  <2>1. pc' = "done"
    BY <1>3 DEF Dump
  <2> QED BY <1>1, <1>3, <2>1 DEF EndInv
<1> QED BY <1>2, <1>3

\* doDumpStates terminates each of them.
LEMMA KillEnds ==
  ASSUME IndInv, EndInv, Kill
  PROVE  EndInv'
<1>1. pc = "kill" /\ ending' = ending /\ pc' \in {"kill", "update"}
  BY DEF Kill, Goto
<1>2. CASE ~ending
  BY <1>1, <1>2, NotEnding
<1>3. CASE ending
  <2>1. ex.added = {} /\ ex.states \subseteq RangeOf(ex.removed) \cup lc.todo
    BY <1>1, <1>3 DEF EndInv
  <2>2. CASE lc.todo = {}
    <3>1. pc' = "update" /\ ex' = ex
      BY <2>2 DEF Kill, Goto
    <3> QED BY <1>1, <2>1, <2>2, <3>1 DEF EndInv, RangeOf
  <2>3. CASE lc.todo # {}
    <3>1. PICK s \in lc.todo : Goto("kill", terminateState(ex, s), [lc EXCEPT !.todo = @ \ {s}])
      BY <2>3 DEF Kill
    <3>2. /\ DOMAIN ex = ExecFields /\ lc \in LocalsType /\ lc.todo \subseteq State
          /\ ex.removed \in Seq(State)
      BY DEF IndInv, TypeOK, ExecType, LocalsType
    <3>3. pc' = "kill" /\ ex' = terminateState(ex, s) /\ lc'.todo = lc.todo \ {s}
      BY <3>1, <3>2 DEF Goto, LocalsType
    <3>4. ex'.added = {} /\ ex'.states = ex.states /\ ex'.removed = Append(ex.removed, s)
      BY <2>1, <3>2, <3>3 DEF terminateState, ExecFields
    <3>5. RangeOf(ex'.removed) = RangeOf(ex.removed) \cup {s}
      BY <3>2, <3>4, RangeAppend
    <3>6. RangeOf(ex.removed)' = RangeOf(ex'.removed)
      BY DEF RangeOf
    <3> QED BY <1>1, <2>1, <3>3, <3>4, <3>5, <3>6 DEF EndInv
  <2> QED BY <2>2, <2>3
<1> QED BY <1>2, <1>3

\* updateStates deletes each of them, and nothing else is left.
LEMMA UpdateEnds ==
  ASSUME IndInv, EndInv, UpdateStates \/ EraseState \/ EndStep
  PROVE  EndInv'
<1>1. ending' = ending /\ (ending => pc' \in {"erase", "done", "crashed"})
  BY DEF UpdateStates, EraseState, EndStep, Goto, Crash
<1>2. DOMAIN ex = ExecFields /\ ex.removed \in Seq(State) /\ ContainersInv(ex)
  BY DEF IndInv, TypeOK, ExecType
<1>3. CASE ~ending
  <2>1. pc' # "done"
    BY <1>3 DEF UpdateStates, EraseState, EndStep, Goto, Crash
  <2> QED BY <1>1, <1>3, <2>1, NotEnding
<1>4. CASE pc' = "crashed"
  BY <1>1, <1>4 DEF EndInv
<1>5. CASE ending /\ UpdateStates /\ pc' # "crashed"
  <2>1. ex.added = {} /\ ex.states \subseteq RangeOf(ex.removed)
    BY <1>5 DEF EndInv, UpdateStates
  <2>2. pc' = "erase" /\ ex' = [ex EXCEPT !.states = @ \cup ex.added, !.added = {}]
    BY <1>5 DEF UpdateStates, Crash
  <2>3. ex'.states = ex.states /\ ex'.removed = ex.removed
    BY <1>2, <2>1, <2>2 DEF ExecFields
  <2> QED BY <1>1, <2>1, <2>2, <2>3 DEF EndInv, RangeOf
<1>6. CASE ending /\ EraseState /\ pc' # "crashed"
  <2> DEFINE es == Head(ex.removed)
             d == Delete(ex, es)
  <2>1. ex.states \subseteq RangeOf(ex.removed) /\ ex.removed # << >>
    BY <1>6 DEF EndInv, EraseState
  <2>2. es \notin ex.freed /\ pc' = "erase" /\ ex' = [d EXCEPT !.removed = Tail(@)]
    BY <1>6 DEF EraseState, Goto, Crash
  <2>3. RangeOf(ex.removed) = {es} \cup RangeOf(Tail(ex.removed))
    BY <1>2, <2>1, RangeHeadTail
  <2>4. es \in Live(ex)
    BY <1>2, <2>2, <2>3 DEF ContainersInv, Live
  <2>5. ContainersInv(d) /\ d.states = ex.states \ {es} /\ d.removed = ex.removed
    BY <1>2, <2>4, DeleteKeeps
  <2>6. DOMAIN d = ExecFields
    BY <2>5 DEF ContainersInv, ExecType
  <2> HIDE DEF d
  <2>7. ex'.states = ex.states \ {es} /\ ex'.removed = Tail(ex.removed)
    BY <2>2, <2>5, <2>6 DEF ExecFields
  <2>8. RangeOf(ex.removed)' = RangeOf(Tail(ex.removed))
    BY <2>7 DEF RangeOf
  <2> QED BY <1>1, <2>1, <2>2, <2>3, <2>7, <2>8 DEF EndInv
<1>7. CASE ending /\ EndStep /\ pc' # "crashed"
  <2>1. ex.states \subseteq RangeOf(ex.removed) /\ ex.removed = << >> /\ pc' = "done" /\ ex' = ex
    BY <1>7 DEF EndInv, EndStep
  <2>2. ex.states = {}
    BY <2>1 DEF RangeOf
  <2> QED BY <1>1, <2>1, <2>2 DEF EndInv
<1> QED BY <1>1, <1>3, <1>4, <1>5, <1>6, <1>7

\* EndInv is inductive.
LEMMA NextEnds ==
  ASSUME IndInv, EndInv, [Next]_vars
  PROVE  EndInv'
<1>1. CASE Instruction
  <2>1. pc \in HandlerPcs /\ ending' = ending /\ pc' # "done"
    BY <1>1 DEF Instruction, ExecPlain, ExecTerminate, ExecBr, ExecBranch, BranchGrow,
       BranchGrown, BranchSeeds, BranchPrune, BranchReturn, ExecCall, CallResolve, NextFree,
       ExecMemory, MemoryResolve, MemoryUnbound, ExecAlloc, ExecFree, ResolveExact,
       ResolveDone, FreeResults, Finish, Goto, Crash, HandlerPcs
  <2>2. ~ending'
    BY <2>1 DEF EndInv, HandlerPcs
  <2> QED BY <2>1, <2>2, NotEnding
<1>2. CASE SeedHalted \/ SeedStop \/ SearchStop
  BY <1>2, DumpEnds DEF SeedHalted, SeedStop, SearchStop
<1>3. CASE SeedSelect \/ SeedsDone \/ StartSearch \/ Select \/ Timers \/ MemorySkip \/ MemoryCheck
  <2>1. pc \in {"loop", "seeded", "timers", "memory"} /\ ending' = ending /\ pc' # "done"
    BY <1>3 DEF SeedSelect, SeedsDone, StartSearch, Select, Timers, MemorySkip, MemoryCheck,
       Execute, Goto
  <2>2. ~ending'
    BY <2>1 DEF EndInv
  <2> QED BY <2>1, <2>2, NotEnding
<1>4. CASE Halt \/ Terminated \/ UNCHANGED vars
  <2>1. UNCHANGED <<ex, pc, lc, ending>>
    BY <1>4 DEF Halt, Terminated, vars
  <2> QED BY <2>1 DEF EndInv, RangeOf
<1> QED BY <1>1, <1>2, <1>3, <1>4, KillEnds, UpdateEnds DEF Next, Loop

\* When run() returns after doDumpStates every state has been deleted and nothing
\* is left in the lists, the tree, the seed map or the searcher, however the run
\* was halted and whatever the last instruction did.
THEOREM AllReleasedAlways == Spec => []AllReleased
<1>1. Init => IndInv /\ EndInv
  <2>1. Init => EndInv
    BY DEF Init, EndInv
  <2> QED BY <2>1, InitInv
<1>2. (IndInv /\ EndInv) /\ [Next]_vars => (IndInv /\ EndInv)'
  BY NextInv, NextEnds
<1>3. IndInv /\ EndInv => AllReleased
  <2> SUFFICES ASSUME IndInv, EndInv, pc = "done", DumpStatesOnHalt
               PROVE  /\ ex.states = {} /\ ex.added = {} /\ ex.removed = << >>
                      /\ DOMAIN ex.tree = {Root} /\ SeedMap = {} /\ held = {}
    BY DEF AllReleased
  <2>1. ex.states = {} /\ ex.added = {} /\ ex.removed = << >> /\ held = {}
    BY DEF EndInv, IndInv, SearcherInv
  <2>2. Live(ex) = {} /\ ContainersInv(ex)
    BY <2>1 DEF Live, IndInv
  <2>3. DOMAIN ex.tree = {Root}
    BY <2>2 DEF ContainersInv, TreeInv
  <2>4. SeedMap = {}
    BY <2>2 DEF ContainersInv, SeedMap
  <2> QED BY <2>1, <2>3, <2>4
<1> QED BY <1>1, <1>2, <1>3, PTL DEF Spec

=============================================================================
