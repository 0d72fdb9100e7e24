---------------------------- MODULE MergingProofs ----------------------------
(* Merging is safe for any number of states, handlers, close points and any   *)
(* depth of nesting, as long as no state is terminated from outside: without  *)
(* a memory cap and without a dump of states at a halt (Quiet).  Where a      *)
(* merge region lies in the stack of its states, its level, is the same for   *)
(* all of them; a state waits for a region one level above the ones it is     *)
(* still in.  This is why states never all wait for each other.               *)
EXTENDS Merging, Integers, SequenceTheorems, WellFoundedInduction, TLAPS

\* No state is terminated that is not running: the options without which the
\* searchers' assertions fail (see NoFault).
Quiet == DumpStatesOnHalt = FALSE /\ MemoryCap = FALSE

In(st, s, h) == \E i \in DOMAIN st[s] : st[s][i] = h
Existing == states \cup added

\* Stacks are bounded, only states that exist have one, a handler has one level,
\* and the handlers know who is inside.
StacksInv ==
  /\ \A s \in State : Len(stack[s]) <= MaxNesting
  /\ \A s \in State : s \notin Existing => stack[s] = << >>
  /\ \A s, t \in State : \A i \in DOMAIN stack[s], j \in DOMAIN stack[t] :
       stack[s][i] = stack[t][j] => i = j
  /\ \A h \in Handler : \A s \in State : s \in open[h] <=> In(stack, s, h)

\* A paused state waits at one point for one handler, which somebody else is
\* still inside of, one level above the regions the state itself is in.
WaitsInv ==
  /\ inClose = paused
  /\ \A s \in State : s \in paused <=> \E h \in Handler, p \in Point : s \in reached[h][p]
  /\ \A h, g \in Handler : \A p, q \in Point : \A s \in State :
       s \in reached[h][p] /\ s \in reached[g][q] => h = g /\ p = q
  /\ \A h \in Handler : \A p \in Point : \A s \in reached[h][p] :
       \E t \in State : In(stack, t, h)
  /\ \A h \in Handler : \A p \in Point : \A s \in reached[h][p] :
       \A t \in State : \A i \in DOMAIN stack[t] : stack[t][i] = h => i = Len(stack[s]) + 1

\* The lists of the executor and of the searchers at each point of the loop.
ListsInv ==
  /\ paused \subseteq states /\ added \cap states = {}
  /\ base = IF pc = "erase" THEN (states \ paused) \ removed ELSE states \ paused
  /\ removed \subseteq states \ paused
  /\ pc \notin {"memory", "update"} => added = {}
  /\ pc \notin {"memory", "update", "erase"} => removed = {}
  /\ pc \in {"step", "memory", "update"} => current \in states
  /\ pc = "step" => current \notin paused
  /\ pc \in {"memory", "update"} => removed \subseteq {current} /\ (current \in paused => added = {})

MergeInv == TypeOK /\ StacksInv /\ WaitsInv /\ ListsInv /\ fault = "none" /\ pc # "crashed"

(***************************************************************************)
(* Facts about stacks and groups                                           *)
(***************************************************************************)

\* Every nonempty set of naturals has a least element.
LEMMA LeastNatural ==
  ASSUME NEW T, T \subseteq Nat, T # {}
  PROVE  \E x \in T : \A y \in T : x <= y
<1> DEFINE R == {ss \in Nat \X Nat : ss[1] < ss[2]}
<1>1. IsWellFoundedOn(R, Nat)
  BY NatLessThanWellFounded DEF OpToRel
<1>2. PICK x \in T : \A y \in T : ~(<<y, x>> \in R)
  <2> HIDE DEF R
  <2> QED BY <1>1, WFMin
<1>3. \A y \in T : ~(y < x)
  BY <1>2
<1> QED BY <1>3

\* The merge groups are the handlers in the stacks.
LEMMA HeldMember ==
  ASSUME NEW st, NEW h
  PROVE  h \in Held(st) <=> \E s \in State : In(st, s, h)
BY DEF Held, ToSet, In

\* Who waits for a handler waits at one of its points.
LEMMA WaitingMember ==
  ASSUME NEW h, NEW s
  PROVE  s \in Waiting(h) <=> \E p \in Point : s \in reached[h][p]
BY DEF Waiting

\* pop_back takes the innermost region off the stack of the running state.
LEMMA PoppedStack ==
  ASSUME stack \in [State -> Seq(Handler)], current \in State, stack[current] # << >>
  PROVE  /\ Popped \in [State -> Seq(Handler)] /\ Region \in Handler
         /\ Region = stack[current][Len(stack[current])]
         /\ Len(stack[current]) \in Nat \ {0}
         /\ Len(Popped[current]) = Len(stack[current]) - 1
         /\ DOMAIN Popped[current] = 1 .. Len(stack[current]) - 1
         /\ DOMAIN stack[current] = 1 .. Len(stack[current])
         /\ \A i \in DOMAIN Popped[current] : Popped[current][i] = stack[current][i]
         /\ \A s \in State \ {current} : Popped[s] = stack[s]
<1>1. stack[current] \in Seq(Handler)
  OBVIOUS
<1>2. Len(stack[current]) \in Nat \ {0}
  BY <1>1
<1>3. /\ Front(stack[current]) \in Seq(Handler)
      /\ Len(Front(stack[current])) = Len(stack[current]) - 1
      /\ \A i \in 1 .. Len(stack[current]) - 1 : Front(stack[current])[i] = stack[current][i]
  <2> DEFINE q == stack[current]
  <2>1. SubSeq(q, 1, Len(q) - 1) = [i \in 1 .. Len(q) - 1 |-> q[i]]
    BY <1>1, <1>2
  <2>2. \A i \in 1 .. Len(q) - 1 : q[i] \in Handler
    BY <1>1, <1>2
  <2>3. Front(q) = [i \in 1 .. Len(q) - 1 |-> q[i]]
    BY <2>1 DEF Front
  <2>4. Len(q) - 1 \in Nat
    BY <1>2
  <2>5. Front(q) \in Seq(Handler) /\ Len(Front(q)) = Len(q) - 1
    <3> HIDE DEF q
    <3> QED BY <2>2, <2>3, <2>4, IsASeq
  <2> QED BY <2>3, <2>5
<1> QED BY <1>1, <1>2, <1>3 DEF Popped, Region, Last

\* Nobody is forced to wait: if all states waited, the one with the most open
\* regions would wait for a state with more.
LEMMA NotAllWait ==
  ASSUME TypeOK, StacksInv, WaitsInv, added = {}, states # {}
  PROVE  states \ paused # {}
<1> SUFFICES ASSUME states \subseteq paused
             PROVE  FALSE
  OBVIOUS
<1> USE MergingAssumption
<1> DEFINE left(s) == MaxNesting - Len(stack[s])
           T == {left(s) : s \in states}
<1>1. states \subseteq State /\ \A s \in State : Len(stack[s]) \in Nat
  <2>1. \A s \in State : stack[s] \in Seq(Handler)
    BY DEF TypeOK
  <2>2. \A s \in State : Len(stack[s]) \in Nat
    BY <2>1, LenProperties
  <2>3. states \subseteq State
    BY DEF TypeOK
  <2> QED BY <2>2, <2>3
<1>2. \A s \in State : left(s) \in Nat
  BY <1>1 DEF StacksInv
<1>3. T \subseteq Nat /\ T # {}
  BY <1>1, <1>2
<1>4. PICK x \in T : \A y \in T : x <= y
  <2> HIDE DEF T
  <2> QED BY <1>3, LeastNatural
<1>5. PICK s \in states : x = left(s)
  BY <1>4
<1>6. PICK h \in Handler, p \in Point : s \in reached[h][p]
  BY <1>1, <1>5 DEF WaitsInv
<1>7a. PICK t \in State : In(stack, t, h)
  BY <1>6 DEF WaitsInv
<1>7. PICK i \in DOMAIN stack[t] : stack[t][i] = h
  BY <1>7a DEF In
<1>8. t \in states
  <2>1. stack[t] # << >>
    BY <1>7
  <2> QED BY <2>1 DEF StacksInv, Existing
<1>9. i = Len(stack[s]) + 1 /\ i <= Len(stack[t])
  <2>1. stack[t] \in Seq(Handler)
    BY DEF TypeOK
  <2>2. i \in 1 .. Len(stack[t])
    BY <1>7, <2>1
  <2> QED BY <1>6, <1>7, <2>2 DEF WaitsInv
<1>10. left(t) < left(s)
  <2>1. Len(stack[s]) < Len(stack[t]) /\ Len(stack[s]) \in Nat /\ Len(stack[t]) \in Nat
    BY <1>1, <1>5, <1>8, <1>9
  <2>2. MaxNesting \in Nat
    OBVIOUS
  <2> QED BY <2>1, <2>2
<1>11. left(t) \in T /\ left(s) <= left(t)
  BY <1>4, <1>5, <1>8
<1>12. left(s) \in Nat /\ left(t) \in Nat
  BY <1>1, <1>2, <1>5, <1>8
<1> HIDE DEF left
<1> QED BY <1>10, <1>11, <1>12

(***************************************************************************)
(* Selecting a state                                                       *)
(***************************************************************************)

LEMMA InitInv == Init => MergeInv
<1> SUFFICES ASSUME Init PROVE MergeInv
  OBVIOUS
<1> USE MergingAssumption DEF Init
<1>1. TypeOK
  BY DEF TypeOK, Nowhere
<1>2. StacksInv
  BY DEF StacksInv, In
<1>3. WaitsInv
  BY DEF WaitsInv, Nowhere
<1>4. ListsInv
  BY DEF ListsInv
<1> QED BY <1>1, <1>2, <1>3, <1>4 DEF MergeInv

\* Only the loop's position and the running state change.
LEMMA RunInv ==
  ASSUME MergeInv, pc \in {"select", "groups"}, NEW s \in states \ paused, Run(s)
  PROVE  MergeInv'
<1> USE DEF MergeInv, Run, executor, groups, searcher
<1>1. TypeOK'
  BY DEF TypeOK
<1>2. StacksInv'
  BY DEF StacksInv, In, Existing
<1>3. WaitsInv'
  BY DEF WaitsInv, In
<1>4. ListsInv'
  BY DEF ListsInv
<1> QED BY <1>1, <1>2, <1>3, <1>4

LEMMA SelectInv == MergeInv /\ Select => MergeInv'
<1> SUFFICES ASSUME MergeInv, Select PROVE MergeInv'
  OBVIOUS
<1>1. base = states \ paused /\ added = {}
  BY DEF MergeInv, ListsInv, Select
<1>2. base # {}
  BY <1>1, NotAllWait DEF MergeInv, Select
<1>3. CASE incomplete
  <2> USE DEF MergeInv
  <2>0. /\ pc = "select" /\ pc' = "groups" /\ todo' = Held(stack)
        /\ UNCHANGED <<states, added, removed, stack, open, reached, base, paused, inClose,
                       current, fault, incomplete>>
    BY <1>2, <1>3 DEF Select, executor, groups, searcher
  <2>1. TypeOK'
    <3>1. Held(stack) \subseteq Handler
      <4> SUFFICES ASSUME NEW h \in Held(stack) PROVE h \in Handler
        OBVIOUS
      <4>1. PICK s \in State : In(stack, s, h)
        BY HeldMember
      <4>2. stack[s] \in Seq(Handler)
        BY DEF TypeOK
      <4> QED BY <4>1, <4>2 DEF In
    <3> QED BY <2>0, <3>1 DEF TypeOK
  <2>2. StacksInv'
    BY <2>0 DEF StacksInv, In, Existing
  <2>3. WaitsInv'
    BY <2>0 DEF WaitsInv, In
  <2>4. ListsInv'
    BY <2>0 DEF ListsInv
  <2> QED BY <2>0, <2>1, <2>2, <2>3, <2>4
<1>4. CASE ~incomplete
  <2>1. PICK s \in base : Run(s)
    BY <1>2, <1>4 DEF Select
  <2> QED BY <1>1, <2>1, RunInv DEF Select
<1> QED BY <1>3, <1>4

LEMMA SelectPrioritizedInv == MergeInv /\ SelectPrioritized => MergeInv'
<1> SUFFICES ASSUME MergeInv, SelectPrioritized PROVE MergeInv'
  OBVIOUS
<1>1. PICK h \in todo : \E s \in CanPrioritize(h) : Run(s)
  BY DEF SelectPrioritized
<1>2. PICK s \in CanPrioritize(h) : Run(s)
  BY <1>1
<1>3. s \in open[h] /\ s \notin paused /\ h \in Handler /\ s \in State
  BY <1>2 DEF CanPrioritize, MergeInv, WaitsInv, TypeOK
<1>4. s \in states
  <2>1. In(stack, s, h)
    BY <1>3 DEF MergeInv, StacksInv
  <2>2. stack[s] # << >>
    BY <2>1 DEF In
  <2> QED BY <1>3, <2>2 DEF MergeInv, StacksInv, Existing, ListsInv, SelectPrioritized
<1> QED BY <1>2, <1>3, <1>4, RunInv DEF SelectPrioritized

LEMMA SelectReleaseInv == MergeInv /\ SelectRelease => MergeInv'
<1> SUFFICES ASSUME MergeInv, SelectRelease PROVE MergeInv'
  OBVIOUS
<1> USE DEF MergeInv
<1>1. PICK h \in todo :
        IF Releasable(h)
        THEN /\ paused' = paused \ Waiting(h) /\ inClose' = inClose \ Waiting(h)
             /\ base' = base \cup Waiting(h)
             /\ reached' = [reached EXCEPT ![h] = Nowhere]
             /\ todo' = todo \ {h}
             /\ UNCHANGED <<executor, stack, open, pc, current, fault, incomplete>>
        ELSE Crash("released state is not paused")
  BY DEF SelectRelease
<1>2. h \in Handler /\ pc = "groups" /\ \A s : s \in Waiting(h) => s \in State
  <2>1. h \in Handler /\ pc = "groups"
    BY DEF TypeOK, SelectRelease
  <2>2. reached[h] \in [Point -> SUBSET State]
    BY <2>1 DEF TypeOK
  <2> QED BY <2>1, <2>2, WaitingMember
<1>3. \A s \in State : s \in Waiting(h) => s \in paused
  BY <1>2, WaitingMember DEF WaitsInv
<1>4. Releasable(h)
  BY <1>2, <1>3 DEF Releasable, ListsInv
<1>5. /\ paused' = paused \ Waiting(h) /\ inClose' = inClose \ Waiting(h)
      /\ base' = base \cup Waiting(h)
      /\ reached' = [reached EXCEPT ![h] = Nowhere]
      /\ todo' = todo \ {h}
      /\ UNCHANGED <<states, added, removed, stack, open, pc, current, fault, incomplete>>
  BY <1>1, <1>4 DEF executor
<1>6. TypeOK'
  <2>1. {states, added, removed, base, paused, inClose}' \subseteq SUBSET State
    BY <1>2, <1>5 DEF TypeOK
  <2>2. reached' \in [Handler -> [Point -> SUBSET State]]
    BY <1>2, <1>5 DEF TypeOK, Nowhere
  <2> QED BY <1>5, <2>1, <2>2 DEF TypeOK
<1>7. StacksInv'
  BY <1>5 DEF StacksInv, In, Existing
<1>8. WaitsInv'
  <2>1. \A g \in Handler \ {h} : reached'[g] = reached[g]
    BY <1>5 DEF TypeOK
  <2>2. \A p \in Point : reached'[h][p] = {}
    BY <1>2, <1>5 DEF TypeOK, Nowhere
  <2>3. \A s \in State : s \in paused' <=> \E g \in Handler, p \in Point : s \in reached'[g][p]
    <3> SUFFICES ASSUME NEW s \in State
                 PROVE  s \in paused' <=> \E g \in Handler, p \in Point : s \in reached'[g][p]
      OBVIOUS
    <3>1. s \in paused' <=> s \in paused /\ ~ \E p \in Point : s \in reached[h][p]
      BY <1>5, WaitingMember
    <3>2. s \in paused <=> \E g \in Handler, p \in Point : s \in reached[g][p]
      BY DEF WaitsInv
    <3>3. \A g \in Handler \ {h}, p \in Point, q \in Point : ~(s \in reached[g][p] /\ s \in reached[h][q])
      BY <1>2 DEF WaitsInv
    <3> QED BY <2>1, <2>2, <3>1, <3>2, <3>3
  <2>4. inClose' = paused'
    BY <1>5 DEF WaitsInv
  <2>5. \A g \in Handler, p \in Point : reached'[g][p] = reached[g][p] \/ reached'[g][p] = {}
    BY <2>1, <2>2
  <2> QED BY <1>5, <2>3, <2>4, <2>5 DEF WaitsInv, In
<1>9. ListsInv'
  BY <1>2, <1>3, <1>5 DEF ListsInv, TypeOK
<1> QED BY <1>5, <1>6, <1>7, <1>8, <1>9

LEMMA SelectBaseInv == MergeInv /\ SelectBase => MergeInv'
BY RunInv DEF SelectBase, MergeInv, ListsInv

(***************************************************************************)
(* The instructions                                                        *)
(***************************************************************************)

\* A copy of a state is in the regions the state is in, at the same levels.
LEMMA ForkInv == MergeInv /\ Fork => MergeInv'
<1> SUFFICES ASSUME MergeInv, Fork PROVE MergeInv'
  OBVIOUS
<1> USE DEF MergeInv
<1>1. PICK s \in State \ (states \cup added) :
        /\ added' = added \cup {s}
        /\ stack' = [stack EXCEPT ![s] = stack[current]]
        /\ open' = [h \in Handler |->
                      IF h \in ToSet(stack[current]) THEN open[h] \cup {s} ELSE open[h]]
  BY DEF Fork
<1>2. /\ pc = "step" /\ pc' = "memory" /\ current \in State
      /\ UNCHANGED <<states, removed, reached, base, paused, inClose, current, todo, fault,
                     incomplete>>
  BY DEF Fork, EndStep, scanning, searcher, TypeOK, ListsInv
<1>3. /\ stack'[s] = stack[current] /\ stack[s] = << >> /\ stack' \in [State -> Seq(Handler)]
      /\ \A t \in State \ {s} : stack'[t] = stack[t]
  BY <1>1, <1>2 DEF TypeOK, StacksInv, Existing
<1>4. \A t \in State : \A h : In(stack', t, h) <=> IF t = s THEN In(stack, current, h) ELSE In(stack, t, h)
  BY <1>3 DEF In
<1>5. TypeOK'
  <2>1. open' \in [Handler -> SUBSET State]
    BY <1>1 DEF TypeOK
  <2> QED BY <1>1, <1>2, <1>3, <2>1 DEF TypeOK
<1>6. StacksInv'
  <2>1. \A t \in State : Len(stack'[t]) <= MaxNesting
    BY <1>2, <1>3 DEF StacksInv
  <2>2. \A t \in State : t \notin Existing' => stack'[t] = << >>
    BY <1>1, <1>2, <1>3 DEF StacksInv, Existing
  <2>3. \A t, u \in State : \A i \in DOMAIN stack'[t], j \in DOMAIN stack'[u] :
          stack'[t][i] = stack'[u][j] => i = j
    <3> SUFFICES ASSUME NEW t \in State, NEW u \in State, NEW i \in DOMAIN stack'[t],
                        NEW j \in DOMAIN stack'[u], stack'[t][i] = stack'[u][j]
                 PROVE  i = j
      OBVIOUS
    <3>1. PICK v \in State : stack'[t] = stack[v]
      BY <1>2, <1>3
    <3>2. PICK w \in State : stack'[u] = stack[w]
      BY <1>2, <1>3
    <3> QED BY <3>1, <3>2 DEF StacksInv
  <2>4. \A h \in Handler : \A t \in State : t \in open'[h] <=> In(stack', t, h)
    <3> SUFFICES ASSUME NEW h \in Handler, NEW t \in State
                 PROVE  t \in open'[h] <=> In(stack', t, h)
      OBVIOUS
    <3>1. h \in ToSet(stack[current]) <=> In(stack, current, h)
      BY DEF ToSet, In
    <3>2. t \in open'[h] <=> t \in open[h] \/ (t = s /\ In(stack, current, h))
      BY <1>1, <3>1
    <3>3. ~In(stack, s, h)
      BY <1>3 DEF In
    <3> QED BY <1>4, <3>2, <3>3 DEF StacksInv
  <2> QED BY <2>1, <2>2, <2>3, <2>4 DEF StacksInv
<1>7. WaitsInv'
  <2>1. \A h \in Handler : \A p \in Point : \A t \in reached'[h][p] :
          t \in State /\ t # s /\ \E u \in State : In(stack', u, h)
    <3> SUFFICES ASSUME NEW h \in Handler, NEW p \in Point, NEW t \in reached[h][p]
                 PROVE  t \in State /\ t # s /\ \E u \in State : In(stack', u, h)
      BY <1>2
    <3>1. t \in State
      BY DEF TypeOK
    <3>2. t \in states
      BY <3>1 DEF WaitsInv, ListsInv
    <3>3. PICK u \in State : In(stack, u, h)
      BY DEF WaitsInv
    <3>4. u # s
      BY <1>3, <3>3 DEF In
    <3> QED BY <1>1, <1>4, <3>1, <3>2, <3>3, <3>4
  <2>2. \A h \in Handler : \A p \in Point : \A t \in reached'[h][p] :
          \A u \in State : \A i \in DOMAIN stack'[u] : stack'[u][i] = h => i = Len(stack'[t]) + 1
    <3> SUFFICES ASSUME NEW h \in Handler, NEW p \in Point, NEW t \in reached[h][p],
                        NEW u \in State, NEW i \in DOMAIN stack'[u], stack'[u][i] = h
                 PROVE  i = Len(stack'[t]) + 1
      BY <1>2
    <3>1. stack'[t] = stack[t]
      BY <1>2, <1>3, <2>1
    <3>2. \E v \in State : stack'[u] = stack[v]
      BY <1>2, <1>3
    <3> QED BY <3>1, <3>2 DEF WaitsInv
  <2> QED BY <1>2, <2>1, <2>2 DEF WaitsInv
<1>8. ListsInv'
  BY <1>1, <1>2 DEF ListsInv
<1> QED BY <1>2, <1>5, <1>6, <1>7, <1>8

\* What leaves stacks and groups alone keeps what is said of them.
LEMMA SameGroups ==
  ASSUME MergeInv, UNCHANGED <<stack, open, reached, paused, inClose>>, Existing' = Existing
  PROVE  StacksInv' /\ WaitsInv'
<1>1. StacksInv'
  BY DEF MergeInv, StacksInv, In
<1>2. WaitsInv'
  BY DEF MergeInv, WaitsInv, In
<1> QED BY <1>1, <1>2

LEMMA TerminateInv == MergeInv /\ Terminate => MergeInv'
<1> SUFFICES ASSUME MergeInv, Terminate PROVE MergeInv'
  OBVIOUS
<1>1. /\ pc = "step" /\ pc' = "memory" /\ removed' = removed \cup {current}
      /\ UNCHANGED <<states, added, stack, open, reached, base, paused, inClose, current, todo,
                     fault, incomplete>>
  BY DEF Terminate, EndStep, scanning, searcher, groups
<1>2. TypeOK'
  BY <1>1 DEF MergeInv, TypeOK, ListsInv
<1>3. ListsInv'
  BY <1>1 DEF MergeInv, ListsInv
<1> QED BY <1>1, <1>2, <1>3, SameGroups DEF MergeInv, Existing

\* A new region is one level above those its state is in.
LEMMA OpenMergeInv == MergeInv /\ OpenMerge => MergeInv'
<1> SUFFICES ASSUME MergeInv, OpenMerge PROVE MergeInv'
  OBVIOUS
<1> USE DEF MergeInv
<1>1. PICK h \in Handler \ Held(stack) :
        /\ stack' = [stack EXCEPT ![current] = Append(@, h)]
        /\ open' = [open EXCEPT ![h] = {current}]
        /\ reached' = [reached EXCEPT ![h] = Nowhere]
  BY DEF OpenMerge
<1>2. /\ pc = "step" /\ pc' = "memory" /\ current \in states /\ current \in State
      /\ Len(stack[current]) < MaxNesting
      /\ UNCHANGED <<states, added, removed, base, paused, inClose, current, todo, fault, incomplete>>
  BY DEF OpenMerge, EndStep, scanning, searcher, executor, TypeOK, ListsInv
<1>3. stack[current] \in Seq(Handler) /\ Len(stack[current]) \in Nat
  BY <1>2, LenProperties DEF TypeOK
<1>4. /\ stack' \in [State -> Seq(Handler)]
      /\ stack'[current] = Append(stack[current], h)
      /\ \A s \in State \ {current} : stack'[s] = stack[s]
  BY <1>1, <1>2, <1>3 DEF TypeOK
<1>5. /\ Len(stack'[current]) = Len(stack[current]) + 1
      /\ DOMAIN stack'[current] = 1 .. Len(stack[current]) + 1
      /\ DOMAIN stack[current] = 1 .. Len(stack[current])
      /\ \A i \in DOMAIN stack[current] : stack'[current][i] = stack[current][i]
      /\ stack'[current][Len(stack[current]) + 1] = h
  BY <1>3, <1>4
<1>6. \A s \in State : ~In(stack, s, h)
  BY <1>1, HeldMember
<1>7. \A s \in State : \A g : In(stack', s, g) <=> In(stack, s, g) \/ (s = current /\ g = h)
  <2> SUFFICES ASSUME NEW s \in State, NEW g
               PROVE  In(stack', s, g) <=> In(stack, s, g) \/ (s = current /\ g = h)
    OBVIOUS
  <2>1. CASE s # current
    BY <1>4, <2>1 DEF In
  <2>2. CASE s = current
    <3>1. DOMAIN stack'[s] = DOMAIN stack[s] \cup {Len(stack[current]) + 1}
      BY <1>3, <1>5, <2>2
    <3> QED BY <1>5, <2>2, <3>1 DEF In
  <2> QED BY <2>1, <2>2
<1>7a. ASSUME NEW u \in State, NEW k \in DOMAIN stack'[u]
       PROVE  \/ u = current /\ k = Len(stack[current]) + 1 /\ stack'[u][k] = h
              \/ k \in DOMAIN stack[u] /\ stack'[u][k] = stack[u][k] /\ stack[u][k] # h
  <2>1. CASE u # current
    BY <1>4, <1>6, <1>7a, <2>1 DEF In
  <2>2. CASE u = current
    <3>1. k \in DOMAIN stack[u] \/ k = Len(stack[current]) + 1
      BY <1>3, <1>5, <1>7a, <2>2
    <3> QED BY <1>5, <1>6, <2>2, <3>1 DEF In
  <2> QED BY <2>1, <2>2
<1>8. /\ \A p \in Point : reached[h][p] = {} /\ reached'[h][p] = {}
      /\ \A g \in Handler : \A p \in Point : reached'[g][p] = reached[g][p]
  <2>1. \A p \in Point : reached[h][p] = {}
    BY <1>1, <1>6 DEF WaitsInv
  <2>2. \A p \in Point : reached'[h][p] = {}
    BY <1>1 DEF TypeOK, Nowhere
  <2>3. \A g \in Handler \ {h} : reached'[g] = reached[g]
    BY <1>1 DEF TypeOK
  <2> QED BY <1>1, <2>1, <2>2, <2>3
<1>9. TypeOK'
  <2>1. reached' \in [Handler -> [Point -> SUBSET State]]
    BY <1>1 DEF TypeOK, Nowhere
  <2>2. open' \in [Handler -> SUBSET State]
    BY <1>1, <1>2 DEF TypeOK
  <2> QED BY <1>2, <1>4, <2>1, <2>2 DEF TypeOK
<1>10. StacksInv'
  <2>1. \A s \in State : Len(stack'[s]) <= MaxNesting
    BY <1>2, <1>3, <1>4, <1>5, MergingAssumption DEF StacksInv
  <2>2. \A s \in State : s \notin Existing' => stack'[s] = << >>
    BY <1>2, <1>4 DEF StacksInv, Existing
  <2>3. ASSUME NEW s \in State, NEW t \in State, NEW i \in DOMAIN stack'[s],
               NEW j \in DOMAIN stack'[t], stack'[s][i] = stack'[t][j]
        PROVE  i = j
    <3>1. \A u \in State : \A k \in DOMAIN stack'[u] :
            stack'[u][k] = h => u = current /\ k = Len(stack[current]) + 1
      BY <1>7a
    <3>2. \A u \in State : \A k \in DOMAIN stack'[u] :
            stack'[u][k] # h => k \in DOMAIN stack[u] /\ stack'[u][k] = stack[u][k]
      BY <1>7a
    <3>3. CASE stack'[s][i] = h
      BY <2>3, <3>1, <3>3
    <3>4. CASE stack'[s][i] # h
      BY <2>3, <3>2, <3>4 DEF StacksInv
    <3> QED BY <3>3, <3>4
  <2>4. \A g \in Handler : \A s \in State : s \in open'[g] <=> In(stack', s, g)
    <3>1. \A g \in Handler : open'[g] = IF g = h THEN {current} ELSE open[g]
      BY <1>1 DEF TypeOK
    <3> QED BY <1>6, <1>7, <3>1 DEF StacksInv
  <2> QED BY <2>1, <2>2, <2>3, <2>4 DEF StacksInv
<1>11. WaitsInv'
  <2>1. inClose' = paused'
    BY <1>2 DEF WaitsInv
  <2>2. \A s \in State : s \in paused' <=> \E g \in Handler, p \in Point : s \in reached'[g][p]
    BY <1>2, <1>8 DEF WaitsInv
  <2>3. ASSUME NEW g \in Handler, NEW p \in Point, NEW s \in reached'[g][p]
        PROVE  /\ \E t \in State : In(stack', t, g)
               /\ \A t \in State : \A i \in DOMAIN stack'[t] : stack'[t][i] = g => i = Len(stack'[s]) + 1
    <3>1. s \in reached[g][p] /\ s \in State /\ g # h
      BY <1>8, <2>3 DEF TypeOK
    <3>2. s # current
      BY <1>2, <3>1 DEF ListsInv, WaitsInv
    <3>3. \E t \in State : In(stack', t, g)
      BY <1>7, <3>1 DEF WaitsInv
    <3>4. \A t \in State : \A i \in DOMAIN stack'[t] : stack'[t][i] = g => i \in DOMAIN stack[t] /\ stack[t][i] = g
      BY <1>7a, <3>1
    <3>5. stack'[s] = stack[s]
      BY <1>4, <3>1, <3>2
    <3>6. \A t \in State : \A i \in DOMAIN stack[t] : stack[t][i] = g => i = Len(stack[s]) + 1
      BY <3>1 DEF WaitsInv
    <3> QED BY <3>3, <3>4, <3>5, <3>6
  <2> QED BY <1>8, <2>1, <2>2, <2>3 DEF WaitsInv
<1>12. ListsInv'
  BY <1>2 DEF ListsInv
<1> QED BY <1>2, <1>9, <1>10, <1>11, <1>12

\* A handler that is popped is gone from the stack of the running state, and
\* nothing else is.
LEMMA PoppedMembers ==
  ASSUME MergeInv, current \in State, stack[current] # << >>
  PROVE  /\ \A s \in State, g \in Handler :
              In(Popped, s, g) <=> In(stack, s, g) /\ ~(s = current /\ g = Region)
         /\ \A s \in State : \A i \in DOMAIN Popped[s] :
              i \in DOMAIN stack[s] /\ Popped[s][i] = stack[s][i]
<1>1. stack \in [State -> Seq(Handler)]
  BY DEF MergeInv, TypeOK
<1>2. \A s \in State : \A i \in DOMAIN Popped[s] : i \in DOMAIN stack[s] /\ Popped[s][i] = stack[s][i]
  <2> SUFFICES ASSUME NEW s \in State, NEW i \in DOMAIN Popped[s]
               PROVE  i \in DOMAIN stack[s] /\ Popped[s][i] = stack[s][i]
    OBVIOUS
  <2>1. CASE s = current
    BY <1>1, <2>1, PoppedStack
  <2>2. CASE s # current
    BY <1>1, <2>2, PoppedStack
  <2> QED BY <2>1, <2>2
<1>3. ASSUME NEW s \in State, NEW g \in Handler
      PROVE  In(Popped, s, g) <=> In(stack, s, g) /\ ~(s = current /\ g = Region)
  <2>1. CASE s # current
    BY <1>1, <2>1, PoppedStack DEF In
  <2>2. CASE s = current
    <3>1. \A i \in DOMAIN stack[s] : stack[s][i] = Region <=> i = Len(stack[s])
      <4>1. Len(stack[s]) \in DOMAIN stack[s] /\ stack[s][Len(stack[s])] = Region
        BY <1>1, <2>2, PoppedStack
      <4> QED BY <4>1 DEF MergeInv, StacksInv
    <3>2. \A i : i \in DOMAIN Popped[s] <=> i \in DOMAIN stack[s] /\ i # Len(stack[s])
      BY <1>1, <2>2, PoppedStack
    <3> QED BY <1>2, <2>2, <3>1, <3>2 DEF In
  <2> QED BY <2>1, <2>2
<1> QED BY <1>2, <1>3

\* The stacks after a close.
LEMMA CloseStacks ==
  ASSUME MergeInv, current \in State, stack[current] # << >>, current \in Existing,
         stack' = Popped, open' = [open EXCEPT ![Region] = @ \ {current}], Existing' = Existing
  PROVE  StacksInv'
<1> USE DEF MergeInv
<1>1. stack \in [State -> Seq(Handler)] /\ open \in [Handler -> SUBSET State]
  BY DEF TypeOK
<1>2. Region \in Handler
  BY <1>1, PoppedStack
<1>3. ASSUME NEW s \in State PROVE Len(Popped[s]) <= MaxNesting
  <2>1. Len(stack[s]) <= MaxNesting /\ Len(stack[s]) \in Nat
    BY <1>1, LenProperties DEF StacksInv
  <2> QED BY <1>1, <2>1, PoppedStack, MergingAssumption
<1>4. \A s \in State : s \notin Existing => Popped[s] = << >>
  BY <1>1, PoppedStack DEF StacksInv
<1>5. \A s, t \in State : \A i \in DOMAIN Popped[s], j \in DOMAIN Popped[t] :
        Popped[s][i] = Popped[t][j] => i = j
  <2> SUFFICES ASSUME NEW s \in State, NEW t \in State, NEW i \in DOMAIN Popped[s],
                      NEW j \in DOMAIN Popped[t], Popped[s][i] = Popped[t][j]
               PROVE  i = j
    OBVIOUS
  <2>1. i \in DOMAIN stack[s] /\ j \in DOMAIN stack[t] /\ stack[s][i] = stack[t][j]
    BY PoppedMembers
  <2> QED BY <2>1 DEF StacksInv
<1>6. \A g \in Handler : \A s \in State : s \in open'[g] <=> In(Popped, s, g)
  <2> SUFFICES ASSUME NEW g \in Handler, NEW s \in State
               PROVE  s \in open'[g] <=> In(Popped, s, g)
    OBVIOUS
  <2>1. s \in open'[g] <=> s \in open[g] /\ ~(s = current /\ g = Region)
    BY <1>1, <1>2
  <2> QED BY <2>1, PoppedMembers DEF StacksInv
<1> QED BY <1>3, <1>4, <1>5, <1>6 DEF StacksInv

\* The groups after a close: the state joined the waiting ones (add), or not,
\* and if nobody is left inside they are all released.
LEMMA CloseWaits ==
  ASSUME MergeInv, pc = "step", stack[current] # << >>, stack' = Popped,
         NEW add \in SUBSET {current}, NEW p \in Point, NEW rch,
         rch = [reached[Region] EXCEPT ![p] = @ \cup add],
         ReleaseUnheld(Region, rch, paused \cup add, inClose \cup add, base \ add, Popped)
  PROVE  /\ WaitsInv'
         /\ reached' \in [Handler -> [Point -> SUBSET State]]
         /\ paused' \subseteq paused \cup add
         /\ base' = states \ paused'
<1> USE DEF MergeInv
<1> DEFINE h == Region
           gone == h \notin Held(Popped)
           free == IF gone THEN UNION {rch[q] : q \in Point} ELSE {}
<1>1. /\ current \in State /\ current \in states /\ current \notin paused /\ base = states \ paused
      /\ paused \subseteq states /\ paused \subseteq State
  BY DEF ListsInv, TypeOK
<1>2. /\ stack \in [State -> Seq(Handler)] /\ reached \in [Handler -> [Point -> SUBSET State]]
  BY DEF TypeOK
<1>3. /\ h \in Handler /\ h = stack[current][Len(stack[current])]
      /\ Len(stack[current]) \in DOMAIN stack[current] /\ Len(stack[current]) \in Nat
      /\ Len(Popped[current]) = Len(stack[current]) - 1
      /\ \A s \in State \ {current} : Popped[s] = stack[s]
  BY <1>1, <1>2, PoppedStack
<1>4. rch \in [Point -> SUBSET State] /\ \A q \in Point : rch[q] = reached[h][q] \cup (IF q = p THEN add ELSE {})
  BY <1>1, <1>2, <1>3
<1>5. /\ reached' = [reached EXCEPT ![h] = IF gone THEN Nowhere ELSE rch]
      /\ paused' = (paused \cup add) \ free /\ inClose' = (inClose \cup add) \ free
      /\ base' = (base \ add) \cup free
  BY DEF ReleaseUnheld
<1>6. \A s : s \in free <=> gone /\ \E q \in Point : s \in rch[q]
  OBVIOUS
<1>7. /\ \A g \in Handler \ {h} : reached'[g] = reached[g]
      /\ reached'[h] = IF gone THEN Nowhere ELSE rch
  BY <1>2, <1>3, <1>5
<1>8. reached' \in [Handler -> [Point -> SUBSET State]]
  BY <1>2, <1>4, <1>5 DEF Nowhere
<1>9. gone <=> ~ \E t \in State : In(Popped, t, h)
  BY HeldMember
<1> HIDE DEF gone, free, h
\* where a state is after the step was where it was before, or is the current one
<1>10. ASSUME NEW g \in Handler, NEW q \in Point, NEW s
       PROVE  s \in reached'[g][q] <=>
                IF g = h THEN ~gone /\ s \in rch[q] ELSE s \in reached[g][q]
  BY <1>7 DEF Nowhere
<1>11. \A g \in Handler, q \in Point : \A s \in reached[g][q] : s \in paused /\ s \in State
  BY <1>2 DEF WaitsInv
<1>12. \A s \in State : s \in paused' <=> \E g \in Handler, q \in Point : s \in reached'[g][q]
  <2> SUFFICES ASSUME NEW s \in State
               PROVE  s \in paused' <=> \E g \in Handler, q \in Point : s \in reached'[g][q]
    OBVIOUS
  <2>1. s \in paused' <=> (s \in paused \/ s \in add) /\ ~(gone /\ \E q \in Point : s \in rch[q])
    BY <1>5, <1>6
  <2>2. CASE s \in add
    <3>1. s \in rch[p] /\ s = current
      BY <1>4, <2>2
    <3>2. \A g \in Handler, q \in Point : s \notin reached[g][q]
      BY <1>1, <1>11, <3>1
    <3> QED BY <1>3, <1>10, <2>1, <2>2, <3>1, <3>2
  <2>3. CASE s \notin add
    <3>1. \A q \in Point : s \in rch[q] <=> s \in reached[h][q]
      BY <1>4, <2>3
    <3>2. s \in paused <=> \E g \in Handler, q \in Point : s \in reached[g][q]
      BY DEF WaitsInv
    <3>3. \A g \in Handler \ {h}, q \in Point, r \in Point : ~(s \in reached[g][q] /\ s \in reached[h][r])
      BY <1>3 DEF WaitsInv
    <3>4. CASE gone
      <4>1. s \in paused' <=> s \in paused /\ ~ \E q \in Point : s \in reached[h][q]
        BY <2>1, <2>3, <3>1, <3>4
      <4>2. (\E g \in Handler, q \in Point : s \in reached'[g][q])
              <=> \E g \in Handler \ {h}, q \in Point : s \in reached[g][q]
        BY <1>3, <1>10, <3>4
      <4> QED BY <3>2, <3>3, <4>1, <4>2
    <3>5. CASE ~gone
      <4>1. s \in paused' <=> s \in paused
        BY <2>1, <2>3, <3>5
      <4>2. \A g \in Handler, q \in Point : s \in reached'[g][q] <=> s \in reached[g][q]
        BY <1>10, <3>1, <3>5
      <4> QED BY <3>2, <4>1, <4>2
    <3> QED BY <3>4, <3>5
  <2> QED BY <2>2, <2>3
<1>13. ASSUME NEW g \in Handler, NEW f \in Handler, NEW q \in Point, NEW r \in Point, NEW s \in State,
              s \in reached'[g][q], s \in reached'[f][r]
       PROVE  g = f /\ q = r
  <2>1. CASE s \in add
    <3>1. \A k \in Handler, l \in Point : s \notin reached[k][l]
      BY <1>1, <1>11, <2>1
    <3>2. g = h /\ f = h /\ s \in rch[q] /\ s \in rch[r]
      BY <1>10, <1>13, <3>1
    <3>3. q = p /\ r = p
      BY <1>3, <1>4, <3>1, <3>2
    <3> QED BY <3>2, <3>3
  <2>2. CASE s \notin add
    <3>1. s \in reached[g][q] /\ s \in reached[f][r]
      BY <1>4, <1>10, <1>13, <2>2
    <3> QED BY <3>1 DEF WaitsInv
  <2> QED BY <2>1, <2>2
<1>14. ASSUME NEW g \in Handler, NEW q \in Point, NEW s \in reached'[g][q]
       PROVE  /\ \E t \in State : In(Popped, t, g)
              /\ \A t \in State : \A i \in DOMAIN Popped[t] : Popped[t][i] = g => i = Len(Popped[s]) + 1
  <2>1. s \in State
    BY <1>8
  <2>2. \E t \in State : In(Popped, t, g)
    <3>1. CASE g = h
      BY <1>9, <1>10, <1>14, <3>1
    <3>2. CASE g # h
      <4>1. PICK t \in State : In(stack, t, g)
        BY <1>10, <1>14, <3>2 DEF WaitsInv
      <4>2. In(Popped, t, g)
        BY <1>1, <3>2, <4>1, PoppedMembers DEF h
      <4> QED BY <4>2
    <3> QED BY <3>1, <3>2
  <2>3. ASSUME NEW t \in State, NEW i \in DOMAIN Popped[t], Popped[t][i] = g
        PROVE  i = Len(Popped[s]) + 1
    <3>1. i \in DOMAIN stack[t] /\ stack[t][i] = g
      BY <1>1, <2>3, PoppedMembers
    <3>2. CASE s \in add
      <4>1. s = current /\ g = h
        BY <1>1, <1>10, <1>11, <1>14, <3>2
      <4>2. i = Len(stack[current])
        BY <1>1, <1>3, <3>1, <4>1 DEF StacksInv
      <4> QED BY <1>3, <4>1, <4>2
    <3>3. CASE s \notin add
      <4>1. s \in reached[g][q]
        BY <1>4, <1>10, <1>14, <3>3
      <4>2. s # current
        BY <1>1, <1>11, <4>1
      <4>3. i = Len(stack[s]) + 1
        BY <3>1, <4>1 DEF WaitsInv
      <4> QED BY <1>3, <2>1, <4>2, <4>3
    <3> QED BY <3>2, <3>3
  <2> QED BY <2>2, <2>3
<1>15. inClose' = paused'
  BY <1>5 DEF WaitsInv
<1>16. WaitsInv'
  BY <1>12, <1>13, <1>14, <1>15 DEF WaitsInv
<1>17. paused' \subseteq paused \cup add
  BY <1>5
<1>18. base' = states \ paused'
  <2>1. free \subseteq paused \cup add
    BY <1>4, <1>6, <1>11, <1>3
  <2> QED BY <1>1, <1>5, <2>1
<1> QED BY <1>8, <1>16, <1>17, <1>18

\* The running state may close its region: it was selected, so it is not paused.
LEMMA MayClose ==
  ASSUME MergeInv, Closing
  PROVE  CanClose /\ current \in State /\ current \in states /\ stack[current] # << >> /\ Region \in Handler
<1> USE DEF MergeInv
<1>1. /\ current \in State /\ current \in states /\ current \notin paused /\ current \in base
      /\ stack[current] # << >> /\ stack \in [State -> Seq(Handler)]
  BY DEF Closing, ListsInv, TypeOK
<1>2. Region \in Handler /\ In(stack, current, Region)
  BY <1>1, PoppedStack DEF In
<1> QED BY <1>1, <1>2 DEF CanClose, StacksInv, WaitsInv

LEMMA CloseMergeInv == MergeInv /\ CloseMerge => MergeInv'
<1> SUFFICES ASSUME MergeInv, CloseMerge PROVE MergeInv'
  OBVIOUS
<1> USE DEF MergeInv
<1>1. /\ CanClose /\ current \in State /\ current \in states /\ stack[current] # << >>
      /\ Region \in Handler /\ pc = "step"
  BY MayClose DEF CloseMerge, Closing
<1>2. PICK p \in Point : ReleaseUnheld(Region, [reached[Region] EXCEPT ![p] = @ \cup {current}],
                             paused \cup {current}, inClose \cup {current},
                             base \ {current}, Popped)
  BY <1>1 DEF CloseMerge
<1>3. /\ open' = [open EXCEPT ![Region] = @ \ {current}] /\ stack' = Popped /\ pc' = "memory"
      /\ UNCHANGED <<states, added, removed, current, todo, fault, incomplete>>
  BY <1>1 DEF CloseMerge, EndStep, scanning, executor
<1>4. /\ WaitsInv' /\ reached' \in [Handler -> [Point -> SUBSET State]]
      /\ paused' \subseteq paused \cup {current} /\ base' = states \ paused'
  BY <1>1, <1>2, <1>3, CloseWaits
<1>5. StacksInv'
  BY <1>1, <1>3, CloseStacks DEF Existing
<1>6. TypeOK'
  <2>1. stack' \in [State -> Seq(Handler)]
    BY <1>1, <1>3, PoppedStack DEF TypeOK
  <2>2. open' \in [Handler -> SUBSET State]
    BY <1>3 DEF TypeOK
  <2>3. inClose' = paused'
    BY <1>4 DEF WaitsInv
  <2> QED BY <1>1, <1>3, <1>4, <2>1, <2>2, <2>3 DEF TypeOK
<1>7. ListsInv'
  BY <1>1, <1>3, <1>4 DEF ListsInv
<1> QED BY <1>3, <1>4, <1>5, <1>6, <1>7

LEMMA CloseMergedInv == MergeInv /\ CloseMerged => MergeInv'
<1> SUFFICES ASSUME MergeInv, CloseMerged PROVE MergeInv'
  OBVIOUS
<1> USE DEF MergeInv
<1>1. /\ CanClose /\ current \in State /\ current \in states /\ stack[current] # << >>
      /\ Region \in Handler /\ pc = "step" /\ current \notin paused
  BY MayClose DEF CloseMerged, Closing, ListsInv
<1>2. PICK p \in Point : TRUE
  BY WaitingMember DEF CloseMerged
<1>3. reached[Region] = [reached[Region] EXCEPT ![p] = @ \cup {}]
  <2>1. reached[Region] \in [Point -> SUBSET State]
    BY <1>1 DEF TypeOK
  <2> QED BY <2>1
<1>4. ReleaseUnheld(Region, reached[Region], paused \cup {}, inClose \cup {}, base \ {}, Popped)
  BY DEF CloseMerged
<1>5. /\ open' = [open EXCEPT ![Region] = @ \ {current}] /\ stack' = Popped /\ pc' = "memory"
      /\ removed' = removed \cup {current}
      /\ UNCHANGED <<states, added, current, todo, fault, incomplete>>
  BY DEF CloseMerged, EndStep, scanning
<1>6. /\ WaitsInv' /\ reached' \in [Handler -> [Point -> SUBSET State]]
      /\ paused' \subseteq paused /\ base' = states \ paused'
  <2>1. {} \in SUBSET {current}
    OBVIOUS
  <2>2. /\ WaitsInv' /\ reached' \in [Handler -> [Point -> SUBSET State]]
        /\ paused' \subseteq paused \cup {} /\ base' = states \ paused'
    BY <1>1, <1>2, <1>3, <1>4, <1>5, <2>1, CloseWaits
  <2> QED BY <2>2
<1>7. StacksInv'
  BY <1>1, <1>5, CloseStacks DEF Existing
<1>8. TypeOK'
  <2>1. stack' \in [State -> Seq(Handler)]
    BY <1>1, <1>5, PoppedStack DEF TypeOK
  <2>2. open' \in [Handler -> SUBSET State]
    BY <1>5 DEF TypeOK
  <2>3. inClose' = paused'
    BY <1>6 DEF WaitsInv
  <2> QED BY <1>1, <1>5, <1>6, <2>1, <2>2, <2>3 DEF TypeOK
<1>9. ListsInv'
  BY <1>1, <1>5, <1>6 DEF ListsInv
<1> QED BY <1>5, <1>6, <1>7, <1>8, <1>9

LEMMA PlainInv == MergeInv /\ Plain => MergeInv'
<1> SUFFICES ASSUME MergeInv, Plain PROVE MergeInv'
  OBVIOUS
<1>1. /\ pc = "step" /\ pc' = "memory"
      /\ UNCHANGED <<states, added, removed, stack, open, reached, base, paused, inClose, current,
                     todo, fault, incomplete>>
  BY DEF Plain, EndStep, scanning, searcher, groups, executor
<1>2. TypeOK'
  BY <1>1 DEF MergeInv, TypeOK
<1>3. ListsInv'
  BY <1>1 DEF MergeInv, ListsInv
<1> QED BY <1>1, <1>2, <1>3, SameGroups DEF MergeInv, Existing

(***************************************************************************)
(* The rest of the loop                                                    *)
(***************************************************************************)

LEMMA CheckMemoryInv == Quiet /\ MergeInv /\ CheckMemory => MergeInv'
<1> SUFFICES ASSUME Quiet, MergeInv, CheckMemory PROVE MergeInv'
  OBVIOUS
<1>1. /\ pc = "memory" /\ pc' = "update"
      /\ UNCHANGED <<states, added, removed, stack, open, reached, base, paused, inClose, current,
                     todo, fault, incomplete>>
  BY DEF CheckMemory, Quiet, scanning, searcher, groups
<1>2. TypeOK'
  BY <1>1 DEF MergeInv, TypeOK
<1>3. ListsInv'
  BY <1>1 DEF MergeInv, ListsInv
<1> QED BY <1>1, <1>2, <1>3, SameGroups DEF MergeInv, Existing

LEMMA HaltInv == Quiet /\ MergeInv /\ Halt => MergeInv'
<1> SUFFICES ASSUME Quiet, MergeInv, Halt PROVE MergeInv'
  OBVIOUS
<1>1. /\ pc = "select" /\ pc' = "halted"
      /\ UNCHANGED <<states, added, removed, stack, open, reached, base, paused, inClose, current,
                     todo, fault, incomplete>>
  BY DEF Halt, Quiet, scanning, searcher, groups
<1>2. TypeOK'
  BY <1>1 DEF MergeInv, TypeOK
<1>3. ListsInv'
  BY <1>1 DEF MergeInv, ListsInv
<1> QED BY <1>1, <1>2, <1>3, SameGroups DEF MergeInv, Existing

\* What a state that pauses itself leaves out of the update is nothing, and the
\* base searcher knows the state that another one removes.
LEMMA UpdateStatesInv == MergeInv /\ UpdateStates => MergeInv'
<1> SUFFICES ASSUME MergeInv, UpdateStates PROVE MergeInv'
  OBVIOUS
<1> USE DEF MergeInv
<1>1. /\ pc = "update" /\ states' = states \cup added /\ added' = {}
      /\ UNCHANGED <<removed, stack, open, reached, paused, inClose, current, todo, incomplete>>
  BY DEF UpdateStates, groups
<1>2. pc' = "erase" /\ fault' = fault /\ base' = ((states \cup added) \ paused) \ removed
  <2>1. CASE current \in paused
    BY <1>1, <2>1 DEF UpdateStates, ListsInv
  <2>2. CASE current \notin paused
    <3>1. removed \subseteq base \cup added /\ current \in base \cup removed \cup {Null}
      BY <1>1, <2>2 DEF ListsInv
    <3>2. base' = (base \cup added) \ removed /\ pc' = "erase" /\ fault' = fault
      BY <2>2, <3>1 DEF UpdateStates
    <3>3. base = states \ paused /\ added \cap paused = {}
      BY <1>1 DEF ListsInv
    <3> QED BY <3>2, <3>3
  <2> QED BY <2>1, <2>2
<1>3. TypeOK'
  BY <1>1, <1>2 DEF TypeOK
<1>4. StacksInv' /\ WaitsInv'
  BY <1>1, SameGroups DEF Existing
<1>5. ListsInv'
  BY <1>1, <1>2 DEF ListsInv
<1> QED BY <1>2, <1>3, <1>4, <1>5

\* A deleted state leaves its regions; those it was the last one in release the
\* states that wait.
LEMMA EraseStateInv == MergeInv /\ EraseState => MergeInv'
<1> SUFFICES ASSUME MergeInv, EraseState PROVE MergeInv'
  OBVIOUS
<1> USE DEF MergeInv
<1> DEFINE Emptied(s) == [stack EXCEPT ![s] = << >>]
           Gone(s) == Held(stack) \ Held(Emptied(s))
           Free(s) == UNION {Waiting(h) : h \in Gone(s)}
<1>1. PICK s \in removed :
        /\ stack' = Emptied(s)
        /\ open' = [h \in Handler |-> open[h] \ (IF h \in ToSet(stack[s]) THEN {s} ELSE {})]
        /\ reached' = [h \in Handler |-> IF h \in Gone(s) THEN Nowhere ELSE reached[h]]
        /\ paused' = paused \ Free(s) /\ inClose' = inClose \ Free(s) /\ base' = base \cup Free(s)
        /\ states' = states \ {s} /\ removed' = removed \ {s}
  BY DEF EraseState
<1>2. /\ pc = "erase" /\ UNCHANGED <<added, pc, current, todo, fault, incomplete>>
  BY DEF EraseState, scanning
<1>3. /\ s \in State /\ s \in states /\ s \notin paused /\ added = {} /\ paused \subseteq State
      /\ base = (states \ paused) \ removed /\ paused \subseteq states /\ removed \subseteq states \ paused
  BY <1>2 DEF ListsInv, TypeOK
<1>4. /\ stack' \in [State -> Seq(Handler)] /\ stack'[s] = << >>
      /\ \A t \in State \ {s} : stack'[t] = stack[t]
  BY <1>1, <1>3 DEF TypeOK
<1>5. /\ \A t \in State : \A h : In(stack', t, h) <=> t # s /\ In(stack, t, h)
      /\ \A t \in State : \A i \in DOMAIN stack'[t] : t # s /\ i \in DOMAIN stack[t] /\ stack'[t][i] = stack[t][i]
  BY <1>4 DEF In
<1>6. \A h : h \in Gone(s) <=> (\E t \in State : In(stack, t, h)) /\ ~ \E t \in State : In(stack', t, h)
  <2>1. \A h : h \in Held(stack) <=> \E t \in State : In(stack, t, h)
    BY HeldMember
  <2>2. \A h : h \in Held(stack') <=> \E t \in State : In(stack', t, h)
    BY HeldMember
  <2> QED BY <1>1, <2>1, <2>2
<1>7. \A t : t \in Free(s) <=> \E h \in Gone(s), p \in Point : t \in reached[h][p]
  BY WaitingMember
<1>8. \A h \in Handler : \A p \in Point : reached'[h][p] = IF h \in Gone(s) THEN {} ELSE reached[h][p]
  BY <1>1 DEF Nowhere
<1>9. Gone(s) \subseteq Handler
  <2> SUFFICES ASSUME NEW h \in Gone(s) PROVE h \in Handler
    OBVIOUS
  <2>1. PICK t \in State : In(stack, t, h)
    BY <1>6
  <2>2. stack[t] \in Seq(Handler)
    BY DEF TypeOK
  <2> QED BY <2>1, <2>2 DEF In
<1> HIDE DEF Emptied, Gone, Free
<1>10. \A h \in Handler : \A p \in Point : reached[h][p] \subseteq paused
  BY DEF WaitsInv, TypeOK
<1>11. Free(s) \subseteq paused
  BY <1>7, <1>9, <1>10
<1>12. TypeOK'
  <2>1. reached' \in [Handler -> [Point -> SUBSET State]]
    BY <1>1 DEF TypeOK, Nowhere
  <2>2. open' \in [Handler -> SUBSET State]
    BY <1>1 DEF TypeOK
  <2> QED BY <1>1, <1>2, <1>3, <1>4, <1>11, <2>1, <2>2 DEF TypeOK
<1>13. StacksInv'
  <2>1. \A t \in State : Len(stack'[t]) <= MaxNesting
    <3>1. Len(<< >>) = 0 /\ MaxNesting \in Nat
      BY MergingAssumption
    <3> QED BY <1>4, <3>1 DEF StacksInv
  <2>2. \A t \in State : t \notin Existing' => stack'[t] = << >>
    BY <1>1, <1>2, <1>3, <1>4 DEF StacksInv, Existing
  <2>3. \A t, u \in State : \A i \in DOMAIN stack'[t], j \in DOMAIN stack'[u] :
          stack'[t][i] = stack'[u][j] => i = j
    BY <1>5 DEF StacksInv
  <2>4. \A h \in Handler : \A t \in State : t \in open'[h] <=> In(stack', t, h)
    <3> SUFFICES ASSUME NEW h \in Handler, NEW t \in State
                 PROVE  t \in open'[h] <=> In(stack', t, h)
      OBVIOUS
    <3>1. h \in ToSet(stack[s]) <=> In(stack, s, h)
      BY DEF ToSet, In
    <3>2. t \in open'[h] <=> t \in open[h] /\ ~(t = s /\ In(stack, s, h))
      BY <1>1, <3>1
    <3> QED BY <1>5, <3>2 DEF StacksInv
  <2> QED BY <2>1, <2>2, <2>3, <2>4 DEF StacksInv
<1>14. WaitsInv'
  <2>1. inClose' = paused'
    BY <1>1 DEF WaitsInv
  <2>2. \A t \in State : t \in paused' <=> \E h \in Handler, p \in Point : t \in reached'[h][p]
    <3> SUFFICES ASSUME NEW t \in State
                 PROVE  t \in paused' <=> \E h \in Handler, p \in Point : t \in reached'[h][p]
      OBVIOUS
    <3>1. t \in paused' <=> t \in paused /\ ~ \E h \in Gone(s), p \in Point : t \in reached[h][p]
      BY <1>1, <1>7
    <3>2. t \in paused <=> \E h \in Handler, p \in Point : t \in reached[h][p]
      BY DEF WaitsInv
    <3>3. \A h \in Handler, g \in Handler, p \in Point, q \in Point :
            t \in reached[h][p] /\ t \in reached[g][q] => h = g
      BY DEF WaitsInv
    <3>4. (\E h \in Handler, p \in Point : t \in reached'[h][p])
            <=> \E h \in Handler \ Gone(s), p \in Point : t \in reached[h][p]
      BY <1>8
    <3> QED BY <1>9, <3>1, <3>2, <3>3, <3>4
  <2>3. \A h, g \in Handler : \A p, q \in Point : \A t \in State :
          t \in reached'[h][p] /\ t \in reached'[g][q] => h = g /\ p = q
    BY <1>8 DEF WaitsInv
  <2>4. ASSUME NEW h \in Handler, NEW p \in Point, NEW t \in reached'[h][p]
        PROVE  /\ \E u \in State : In(stack', u, h)
               /\ \A u \in State : \A i \in DOMAIN stack'[u] : stack'[u][i] = h => i = Len(stack'[t]) + 1
    <3>1. t \in reached[h][p] /\ h \notin Gone(s)
      BY <1>8, <2>4
    <3>2. t \in State /\ t # s
      BY <1>3, <1>10, <3>1
    <3>3. \E u \in State : In(stack', u, h)
      BY <1>6, <3>1 DEF WaitsInv
    <3>4. stack'[t] = stack[t]
      BY <1>4, <3>2
    <3>5. \A u \in State : \A i \in DOMAIN stack[u] : stack[u][i] = h => i = Len(stack[t]) + 1
      BY <3>1 DEF WaitsInv
    <3> QED BY <1>5, <3>3, <3>4, <3>5
  <2> QED BY <2>1, <2>2, <2>3, <2>4 DEF WaitsInv
<1>15. ListsInv'
  BY <1>1, <1>2, <1>3, <1>11 DEF ListsInv
<1> QED BY <1>2, <1>12, <1>13, <1>14, <1>15

LEMMA UpdateDoneInv == MergeInv /\ UpdateDone => MergeInv'
<1> SUFFICES ASSUME MergeInv, UpdateDone PROVE MergeInv'
  OBVIOUS
<1>1. /\ pc = "erase" /\ pc' = "select" /\ removed = {} /\ current' = Null
      /\ UNCHANGED <<states, added, removed, stack, open, reached, base, paused, inClose,
                     todo, fault, incomplete>>
  BY DEF UpdateDone, searcher, groups, executor
<1>2. TypeOK'
  BY <1>1 DEF MergeInv, TypeOK
<1>3. ListsInv'
  BY <1>1 DEF MergeInv, ListsInv
<1> QED BY <1>1, <1>2, <1>3, SameGroups DEF MergeInv, Existing

LEMMA StutterInv == MergeInv /\ UNCHANGED vars => MergeInv'
<1> SUFFICES ASSUME MergeInv, UNCHANGED vars PROVE MergeInv'
  OBVIOUS
<1> USE DEF vars
<1>1. TypeOK' /\ ListsInv'
  BY DEF MergeInv, TypeOK, ListsInv
<1> QED BY <1>1, SameGroups DEF MergeInv, Existing

LEMMA NextInv ==
  ASSUME Quiet, MergeInv, [Next]_vars
  PROVE  MergeInv'
<1>1. CASE Select \/ SelectPrioritized \/ SelectRelease \/ SelectBase
  BY <1>1, SelectInv, SelectPrioritizedInv, SelectReleaseInv, SelectBaseInv
<1>2. CASE Fork \/ Terminate \/ OpenMerge \/ CloseMerge \/ CloseMerged \/ Plain
  BY <1>2, ForkInv, TerminateInv, OpenMergeInv, CloseMergeInv, CloseMergedInv, PlainInv
<1>3. CASE CheckMemory \/ Halt \/ UpdateStates \/ EraseState \/ UpdateDone
  BY <1>3, CheckMemoryInv, HaltInv, UpdateStatesInv, EraseStateInv, UpdateDoneInv
<1>4. CASE Terminated \/ UNCHANGED vars
  BY <1>4, StutterInv DEF Terminated
<1> QED BY <1>1, <1>2, <1>3, <1>4 DEF Next

(***************************************************************************)
(* Theorems                                                                *)
(***************************************************************************)

\* MergeInv holds in every reachable state, for any number of states, handlers
\* and close points (MergeHandler.cpp, MergingSearcher in Searcher.cpp).
THEOREM MergingInvariance ==
  ASSUME Quiet
  PROVE  Spec => []MergeInv
<1>1. MergeInv /\ [Next]_vars => MergeInv'
  BY NextInv
<1> QED BY <1>1, InitInv, PTL DEF Spec

\* A waiting state waits for one group, with somebody left to wait for; handlers
\* know who is inside; some state can always run (MergingSearcher::selectState).
THEOREM MergingBooksRight ==
  ASSUME Quiet
  PROVE  Spec => []MergeBooksRight
<1>1. MergeInv => MergeBooksRight
  <2> SUFFICES ASSUME MergeInv PROVE MergeBooksRight
    OBVIOUS
  <2> USE DEF MergeInv
  <2>1. EachWaitsOnce
    <3> SUFFICES ASSUME pc = "select"
                 PROVE  /\ base = states \ paused /\ paused \subseteq states /\ inClose = paused
                        /\ paused = UNION {Waiting(h) : h \in Held(stack)}
                        /\ \A h, g \in Held(stack) : \A p, q \in Point :
                             reached[h][p] \cap reached[g][q] # {} => h = g /\ p = q
      BY DEF EachWaitsOnce
    <3>1. base = states \ paused /\ paused \subseteq states /\ inClose = paused /\ paused \subseteq State
      BY DEF ListsInv, WaitsInv, TypeOK
    <3>2. Held(stack) \subseteq Handler
      <4> SUFFICES ASSUME NEW h \in Held(stack) PROVE h \in Handler
        OBVIOUS
      <4>1. PICK s \in State : In(stack, s, h)
        BY HeldMember
      <4>2. stack[s] \in Seq(Handler)
        BY DEF TypeOK
      <4> QED BY <4>1, <4>2 DEF In
    <3>3. \A h \in Handler : \A p \in Point : reached[h][p] \subseteq State
      BY DEF TypeOK
    <3>4. paused = UNION {Waiting(h) : h \in Held(stack)}
      <4>1. ASSUME NEW s \in paused PROVE s \in UNION {Waiting(h) : h \in Held(stack)}
        <5>1. PICK h \in Handler, p \in Point : s \in reached[h][p]
          BY <3>1 DEF WaitsInv
        <5>2. \E t \in State : In(stack, t, h)
          BY <5>1 DEF WaitsInv
        <5>3. h \in Held(stack)
          BY <5>2, HeldMember
        <5>4. s \in Waiting(h)
          BY <5>1, WaitingMember
        <5> QED BY <5>3, <5>4
      <4>2. ASSUME NEW h \in Held(stack), NEW s \in Waiting(h) PROVE s \in paused
        <5>1. \E p \in Point : s \in reached[h][p]
          BY WaitingMember
        <5> QED BY <3>2, <3>3, <5>1 DEF WaitsInv
      <4> QED BY <4>1, <4>2
    <3>5. \A h, g \in Held(stack) : \A p, q \in Point :
            reached[h][p] \cap reached[g][q] # {} => h = g /\ p = q
      BY <3>2, <3>3 DEF WaitsInv
    <3> QED BY <3>1, <3>4, <3>5
  <2>2. OpenStatesMatch
    <3> SUFFICES ASSUME pc = "select", NEW h \in Held(stack)
                 PROVE  open[h] = {s \in states : h \in ToSet(stack[s])}
      BY DEF OpenStatesMatch
    <3>1. h \in Handler
      <4>1. PICK s \in State : In(stack, s, h)
        BY HeldMember
      <4>2. stack[s] \in Seq(Handler)
        BY DEF TypeOK
      <4> QED BY <4>1, <4>2 DEF In
    <3>2. open[h] \subseteq State /\ states \subseteq State /\ added = {}
      BY <3>1 DEF TypeOK, ListsInv
    <3>3. \A s \in State : s \in open[h] <=> In(stack, s, h)
      BY <3>1 DEF StacksInv
    <3>4. \A s \in State : In(stack, s, h) <=> h \in ToSet(stack[s])
      BY DEF In, ToSet
    <3>5. \A s \in State : In(stack, s, h) => s \in states
      BY <3>2 DEF In, StacksInv, Existing
    <3> QED BY <3>2, <3>3, <3>4, <3>5
  <2>3. SomeoneRuns
    BY NotAllWait DEF SomeoneRuns, ListsInv
  <2>4. RunningIsScheduled
    BY DEF RunningIsScheduled, ListsInv
  <2> QED BY <2>1, <2>2, <2>3, <2>4 DEF MergeBooksRight
<1> QED BY <1>1, MergingInvariance, PTL

\* No assertion of MergeHandler, MergingSearcher or the base searcher fails.
THEOREM MergingNoFault ==
  ASSUME Quiet
  PROVE  Spec => []NoFault
<1>1. MergeInv => NoFault
  BY DEF MergeInv, NoFault
<1> QED BY <1>1, MergingInvariance, PTL

\* The merging searcher is a searcher to the executor: each of its steps is one of
\* the contract's or invisible.
THEOREM MergingImplementsContract ==
  ASSUME Quiet
  PROVE  Spec => ImplementsContract
<1> DEFINE held == IF pc \in {"select", "groups", "step"} THEN base \cup paused ELSE Remaining
           selected == IF pc \in {"step", "memory", "update"} THEN current ELSE Null
<1>1. MergeInv => held = Remaining
  BY DEF MergeInv, ListsInv, Remaining
<1>2. Init => Contract!Init
  <2> SUFFICES ASSUME Init PROVE Contract!Init
    OBVIOUS
  <2>1. held = Remaining
    BY <1>1, InitInv
  <2>2. Remaining = states /\ selected = Null
    BY DEF Init, Remaining
  <2>3. states \in (SUBSET State) \ {{}}
    BY DEF Init
  <2> QED BY <2>1, <2>2, <2>3 DEF Contract!Init
<1>3. MergeInv /\ MergeInv' /\ [Next]_vars => [Contract!Next]_(Contract!vars)
  <2> SUFFICES ASSUME MergeInv, MergeInv', [Next]_vars
               PROVE  Contract!Next \/ UNCHANGED <<Remaining, held, selected>>
    BY DEF Contract!vars
  <2>1. held = Remaining /\ held' = Remaining'
    BY DEF MergeInv, ListsInv, Remaining
  <2> HIDE DEF held
  <2>2. CASE Remaining' = Remaining /\ selected' = selected
    BY <2>1, <2>2
  <2>3. CASE pc \in {"select", "groups"} /\ pc' = "step" /\ states' = states
    <3>1. Remaining' = Remaining /\ selected = Null /\ selected' = current' /\ current' \in states
      BY <2>3 DEF MergeInv, ListsInv, Remaining
    <3>2. Remaining = states
      BY <2>3 DEF Remaining
    <3>3. Contract!Select
      BY <2>1, <3>1, <3>2 DEF Contract!Select, held, selected
    <3> QED BY <3>3 DEF Contract!Next
  <2>4. CASE UpdateStates
    <3>1. /\ pc = "update" /\ pc' = "erase" /\ states' = states \cup added /\ removed' = removed
      BY <2>4 DEF UpdateStates, MergeInv
    <3>2. Remaining = states /\ Remaining' = (states \cup added) \ removed /\ selected' = Null
      BY <3>1 DEF Remaining
    <3>3. added \in SUBSET (State \ states) /\ removed \in SUBSET states
      BY DEF MergeInv, ListsInv, TypeOK
    <3>4. Contract!Update
      BY <2>1, <3>2, <3>3 DEF Contract!Update, held, selected
    <3> QED BY <3>4 DEF Contract!Next
  <2>5. CASE EraseState
    <3>1. /\ pc = "erase" /\ pc' = "erase"
          /\ \E s \in removed : states' = states \ {s} /\ removed' = removed \ {s}
      BY <2>5 DEF EraseState
    <3>2. Remaining' = Remaining /\ selected' = selected
      BY <3>1 DEF Remaining
    <3> QED BY <2>2, <3>2
  <2>6. CASE \/ Select \/ SelectPrioritized \/ SelectRelease \/ SelectBase
    <3>1. pc \in {"select", "groups"} /\ states' = states
      BY <2>6 DEF Select, SelectPrioritized, SelectRelease, SelectBase, Run, Crash, executor
    <3>2. pc' \in {"groups", "step"}
      BY <2>6 DEF Select, SelectPrioritized, SelectRelease, SelectBase, Run, Crash, MergeInv
    <3>3. CASE pc' = "groups"
      <4>1. Remaining' = Remaining /\ selected' = selected
        BY <3>1, <3>3 DEF Remaining
      <4> QED BY <2>2, <4>1
    <3>4. CASE pc' = "step"
      BY <2>3, <3>1, <3>4
    <3> QED BY <3>2, <3>3, <3>4
  <2>7. CASE \/ Fork \/ Terminate \/ OpenMerge \/ CloseMerge \/ CloseMerged \/ Plain \/ CheckMemory
    <3>1. pc \in {"step", "memory"} /\ pc' \in {"memory", "update"} /\ states' = states /\ current' = current
      BY <2>7 DEF Fork, Terminate, OpenMerge, CloseMerge, CloseMerged, Plain, CheckMemory,
                  Closing, Crash, EndStep, scanning, executor, MergeInv
    <3>2. Remaining' = Remaining /\ selected' = selected
      BY <3>1 DEF Remaining
    <3> QED BY <2>2, <3>2
  <2>8. CASE Halt
    <3>1. pc = "select" /\ pc' = "halted" /\ states' = states
      BY <2>8 DEF Halt, Quiet
    <3>2. Remaining' = Remaining /\ selected' = selected
      BY <3>1 DEF Remaining
    <3> QED BY <2>2, <3>2
  <2>9. CASE UpdateDone
    <3>1. pc = "erase" /\ pc' = "select" /\ states' = states /\ removed = {}
      BY <2>9 DEF UpdateDone, executor
    <3>2. Remaining' = Remaining /\ selected' = selected
      BY <3>1 DEF Remaining
    <3> QED BY <2>2, <3>2
  <2>10. CASE Terminated \/ UNCHANGED vars
    <3>1. Remaining' = Remaining /\ selected' = selected
      BY <2>10 DEF Terminated, vars, Remaining
    <3> QED BY <2>2, <3>1
  <2> QED BY <2>4, <2>5, <2>6, <2>7, <2>8, <2>9, <2>10 DEF Next
<1> QED BY <1>2, <1>3, MergingInvariance, PTL DEF Spec, ImplementsContract, Contract!Spec
=============================================================================
