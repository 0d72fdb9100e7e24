----------------------------- MODULE MemoryProofs -----------------------------
(* Proofs about Memory for every number of states, objects, object states,    *)
(* sizes, operations and alignments: what a state reads is what its path      *)
(* wrote, copy on write never lets two states write to the same object state, *)
(* the reference counts keep exactly the objects that are used, objects do    *)
(* not overlap, and the searches for the objects of a pointer miss none.      *)
EXTENDS Memory, ObjectStateProofs, FunctionTheorems

\* The program changes no constant, native code changes no byte whose array is
\* already up to date, and nothing reallocates a local object.
Careful == Misuse = {}

(***************************************************************************)
(* The inductive invariant.  Its parts are stated of the bindings, object   *)
(* states and memory objects as they are before Commit lets go of what is   *)
(* not bound any more, so that one lemma about Commit serves every action.  *)
(***************************************************************************)

MObject == [address : Nat, size : 0 .. MaxSize, local : BOOLEAN, global : BOOLEAN]

\* what a state binds exists and knows its object; object states are well formed
Bindings(objs, hp, ms) ==
  /\ DOMAIN objs \subseteq State /\ DOMAIN hp \subseteq OS /\ DOMAIN ms \subseteq MO
  /\ \A m \in DOMAIN ms : ms[m] \in MObject
  /\ objs = [s \in DOMAIN objs |-> objs[s]]
  /\ \A s \in DOMAIN objs : objs[s] \in [DOMAIN objs[s] -> DOMAIN hp]
  /\ \A s \in DOMAIN objs : \A m \in DOMAIN objs[s] : hp[objs[s][m]].object = m
  /\ \A o \in DOMAIN hp : /\ hp[o].object \in DOMAIN ms
                          /\ WellFormed(hp[o], ms[hp[o].object].size)

\* OwnedAlone
Owned(objs, hp, ky) ==
  /\ ky \in [DOMAIN objs -> Nat]
  /\ \A s \in DOMAIN objs : \A m \in DOMAIN objs[s] :
       /\ hp[objs[s][m]].owner <= ky[s]
       /\ \A t \in DOMAIN objs \ {s} :
            m \in DOMAIN objs[t] /\ objs[t][m] = objs[s][m] => hp[objs[s][m]].owner < ky[s]

\* the constant of the program is never replaced: it is in object state 1, bound
\* by every state, and nothing else is read-only
Constants(objs, hp, ms, nat) ==
  /\ \A s \in DOMAIN objs : 1 \in DOMAIN objs[s] /\ objs[s][1] = 1
  /\ \A o \in DOMAIN hp : hp[o].readOnly <=> o = 1
  /\ 1 \in DOMAIN ms => ms[1].global /\ ~ms[1].local
  /\ 1 \in DOMAIN hp => DOMAIN hp[1].known = {} /\ nat = [m \in {1} |-> hp[1].store]

\* for the inputs in, an object state has the contents c; the objects bound do
Means(os, size, in, c) ==
  /\ c \in [Offsets(size) -> [Input -> Nat]]
  /\ \A i \in Offsets(size), n \in in : c[i][n] = ByteAt(os, i, n)
Holding(bound, hp, ms, in, c) ==
  /\ in \subseteq Input /\ in # {} /\ DOMAIN c = DOMAIN bound /\ c = [m \in DOMAIN c |-> c[m]]
  /\ \A m \in DOMAIN bound : Means(hp[bound[m]], ms[m].size, in, c[m])
Contents(objs, hp, ms, pth, mm) ==
  /\ pth \in [DOMAIN objs -> SUBSET Input]
  /\ DOMAIN mm = DOMAIN objs /\ mm = [s \in DOMAIN mm |-> mm[s]]
  /\ \A s \in DOMAIN objs : Holding(objs[s], hp, ms, pth[s], mm[s])

\* what a return will unbind is bound, and is not freed before
Frames(objs, ms, al) ==
  /\ DOMAIN al = DOMAIN objs
  /\ \A s \in DOMAIN objs : \A m \in al[s] : m \in DOMAIN objs[s] /\ ms[m].local

\* the reference counts: object states, and entries of symbolics
Holds(hp, m) == {o \in DOMAIN hp : hp[o].object = m}
Lists(syms, m) ==
  {x \in State \X (1 .. MaxOps) :
     x[1] \in DOMAIN syms /\ x[2] \in DOMAIN syms[x[1]] /\ syms[x[1]][x[2]] = m}
Listing(objs, ms, syms, N) ==
  /\ N \in 0 .. MaxOps /\ DOMAIN syms = DOMAIN objs
  /\ \A s \in DOMAIN objs : syms[s] \in Seq(DOMAIN ms) /\ Len(syms[s]) <= N
Counted(hp, ms, syms, rf) ==
  /\ rf \in [MO -> Nat]
  /\ \A m \in MO : /\ rf[m] = Cardinality(Holds(hp, m)) + Cardinality(Lists(syms, m))
                   /\ m \in DOMAIN ms <=> rf[m] # 0

\* objects lie apart; allocated one after the other, they lie before the next slot
Apart(p, q) ==
  p.address + Extent(p.size) <= q.address \/ q.address + Extent(q.size) <= p.address
Layout(ms, next) ==
  /\ next \in Nat
  /\ \A m, k \in DOMAIN ms : m # k => Apart(ms[m], ms[k])
  /\ determ => \A m \in DOMAIN ms : ms[m].address + Extent(ms[m].size) <= next

MemoryInv ==
  /\ Bindings(objects, heap, mos) /\ DOMAIN heap = Bound(objects)
  /\ Owned(objects, heap, key)
  /\ Constants(objects, heap, mos, native)
  /\ Contents(objects, heap, mos, path, mem)
  /\ Frames(objects, mos, allocas)
  /\ Listing(objects, mos, symbolics, ops) /\ Counted(heap, mos, symbolics, refs)
  /\ Layout(mos, slot)
  /\ fault = "none"

(***************************************************************************)
(* Functions and bounds                                                    *)
(***************************************************************************)

\* The constants are naturals.
LEMMA Bounds ==
  /\ MaxStates \in Nat /\ MaxObjects \in Nat /\ MaxObjectStates \in Nat /\ MaxOps \in Nat
  /\ MaxSize \in Nat /\ SpaceSize \in Nat /\ RedzoneSize \in Nat
  /\ State \subseteq Nat /\ MO \subseteq Nat /\ OS \subseteq Nat
  /\ IsFiniteSet(State) /\ IsFiniteSet(MO) /\ IsFiniteSet(OS)
PROOF
  <1>1. /\ MaxStates \in Nat /\ MaxObjects \in Nat /\ MaxObjectStates \in Nat /\ MaxOps \in Nat
        /\ MaxSize \in Nat /\ SpaceSize \in Nat /\ RedzoneSize \in Nat
    BY MemoryAssumption
  <1> QED BY <1>1, FS_Interval DEF State, MO, OS

\* A map after Set and after Drop.
LEMMA SetValues ==
  ASSUME NEW f, NEW x, NEW v
  PROVE  /\ DOMAIN Set(f, x, v) = DOMAIN f \cup {x} /\ Set(f, x, v)[x] = v
         /\ \A y \in DOMAIN f : y # x => Set(f, x, v)[y] = f[y]
PROOF BY DEF Set

\* A map after Drop.
LEMMA DropValues ==
  ASSUME NEW f, NEW D
  PROVE  /\ DOMAIN Drop(f, D) = DOMAIN f \ D
         /\ \A y \in DOMAIN f \ D : Drop(f, D)[y] = f[y]
PROOF BY DEF Drop

\* What NewOS, NewMO and NewState choose is free.
LEMMA LeastFree ==
  ASSUME NEW S, S \subseteq Nat, IsFiniteSet(S), Cardinality(S) >= 1
  PROVE  Min(S) \in S
PROOF
  <1>1. S # {}
    BY FS_EmptySet
  <1>2. \E x \in S : \A y \in S : x <= y
    BY <1>1, LeastNatural
  <1> QED BY <1>2 DEF Min

\* the entries of symbolics
LEMMA ListsFinite ==
  ASSUME NEW syms, NEW m
  PROVE  IsFiniteSet(Lists(syms, m)) /\ Cardinality(Lists(syms, m)) \in Nat
PROOF
  <1>1. IsFiniteSet(State \X (1 .. MaxOps))
    <2>1. IsFiniteSet(State) /\ IsFiniteSet(1 .. MaxOps)
      BY Bounds, FS_Interval
    <2> QED BY <2>1, FS_Product
  <1>2. Lists(syms, m) \in SUBSET (State \X (1 .. MaxOps))
    BY DEF Lists
  <1>3. IsFiniteSet(Lists(syms, m))
    BY <1>1, <1>2, FS_Subset
  <1> QED BY <1>3, FS_CardinalityType

\* a finite set of object states, in two parts
LEMMA OfParts ==
  ASSUME NEW hp, DOMAIN hp \subseteq OS, NEW D, D \subseteq DOMAIN hp, NEW m
  PROVE  /\ Of(hp, D, m) \in Nat /\ Of(hp, DOMAIN hp \ D, m) \in Nat
         /\ IsFiniteSet(Holds(hp, m)) /\ Cardinality(Holds(hp, m)) \in Nat
         /\ Cardinality(Holds(hp, m)) = Of(hp, D, m) + Of(hp, DOMAIN hp \ D, m)
PROOF
  <1> DEFINE A == {o \in D : hp[o].object = m}
             B == {o \in DOMAIN hp \ D : hp[o].object = m}
  <1>1. IsFiniteSet(Holds(hp, m)) /\ IsFiniteSet(A) /\ IsFiniteSet(B)
    <2>1. Holds(hp, m) \in SUBSET OS /\ A \in SUBSET OS /\ B \in SUBSET OS
      BY DEF Holds
    <2> HIDE DEF A, B
    <2> QED BY <2>1, Bounds, FS_Subset
  <1>2. Holds(hp, m) = A \cup B /\ A \cap B = {}
    BY DEF Holds
  <1>3. Of(hp, D, m) = Cardinality(A) /\ Of(hp, DOMAIN hp \ D, m) = Cardinality(B)
    BY DEF Of
  <1> HIDE DEF A, B
  <1>4. Cardinality(A) \in Nat /\ Cardinality(B) \in Nat /\ Cardinality(Holds(hp, m)) \in Nat
    BY <1>1, FS_CardinalityType
  <1>5. Cardinality(A \cup B) = Cardinality(A) + Cardinality(B) - Cardinality(A \cap B)
    BY <1>1, FS_Union
  <1>6. Cardinality(A \cap B) = 0
    BY <1>2, FS_EmptySet
  <1> QED BY <1>1, <1>2, <1>3, <1>4, <1>5, <1>6

(***************************************************************************)
(* Commit                                                                  *)
(***************************************************************************)

\* no object state goes away before Commit, and none changes its object
Grows(hp) ==
  DOMAIN heap \subseteq DOMAIN hp /\ \A o \in DOMAIN heap : hp[o].object = heap[o].object

\* listed is the change of the entries of symbolics
Tally(listed, syms) ==
  \A m \in MO : listed[m] = Cardinality(Lists(syms, m)) - Cardinality(Lists(symbolics, m))

\* What is bound exists.
LEMMA BoundExists ==
  ASSUME NEW objs, NEW hp, NEW ms, Bindings(objs, hp, ms)
  PROVE  Bound(objs) \subseteq DOMAIN hp
PROOF
  <1> SUFFICES ASSUME NEW o \in Bound(objs) PROVE o \in DOMAIN hp
    OBVIOUS
  <1>1. PICK s \in DOMAIN objs : o \in {objs[s][m] : m \in DOMAIN objs[s]}
    BY DEF Bound
  <1>2. PICK m \in DOMAIN objs[s] : o = objs[s][m]
    BY <1>1
  <1> QED BY <1>2 DEF Bindings

\* What a state binds is bound.
LEMMA BoundBy ==
  ASSUME NEW objs, NEW s \in DOMAIN objs, NEW m \in DOMAIN objs[s]
  PROVE  objs[s][m] \in Bound(objs)
PROOF BY DEF Bound

\* The object states after Commit are the ones that are bound.
LEMMA CommitHeap ==
  ASSUME NEW objs, NEW hp, NEW ms, NEW listed, Bindings(objs, hp, ms), Commit(objs, hp, ms, listed)
  PROVE  /\ objects' = objs /\ DOMAIN heap' = Bound(objs) /\ DOMAIN heap' \subseteq DOMAIN hp
         /\ \A o \in DOMAIN heap' : heap'[o] = hp[o]
PROOF
  <1>1. objects' = objs /\ heap' = Drop(hp, DOMAIN hp \ Bound(objs))
    BY DEF Commit
  <1>2. Bound(objs) \subseteq DOMAIN hp
    BY BoundExists
  <1>3. DOMAIN hp \ (DOMAIN hp \ Bound(objs)) = Bound(objs)
    BY <1>2
  <1> DEFINE D == DOMAIN hp \ Bound(objs)
             kept == Drop(hp, D)
  <1>4. DOMAIN kept = DOMAIN hp \ D /\ \A o \in DOMAIN hp \ D : kept[o] = hp[o]
    BY DropValues
  <1>5. heap' = kept /\ DOMAIN hp \ D = Bound(objs)
    BY <1>1, <1>3
  <1> HIDE DEF kept, D
  <1> QED BY <1>1, <1>2, <1>4, <1>5

\* The reference counts after Commit count what is left.
LEMMA CommitCounts ==
  ASSUME NEW objs, NEW hp, NEW ms, NEW listed, NEW syms, Bindings(objs, hp, ms),
         DOMAIN heap \subseteq OS, Grows(hp), Counted(heap, mos, symbolics, refs),
         Tally(listed, syms), Commit(objs, hp, ms, listed)
  PROVE  /\ refs' \in [MO -> Nat]
         /\ \A m \in MO : refs'[m] = Cardinality(Holds(heap', m)) + Cardinality(Lists(syms, m))
         /\ DOMAIN mos' = {m \in DOMAIN ms : refs'[m] # 0} /\ \A m \in DOMAIN mos' : mos'[m] = ms[m]
PROOF
  <1>1. DOMAIN hp \subseteq OS /\ DOMAIN ms \subseteq MO /\ Bound(objs) \subseteq DOMAIN hp
    BY BoundExists DEF Bindings
  <1>2. refs' = [m \in MO |-> refs[m] + listed[m] + Of(hp, DOMAIN hp \ DOMAIN heap, m)
                               - Of(hp, DOMAIN hp \ Bound(objs), m)]
    BY DEF Commit
  <1>3. mos' = Drop(ms, {m \in DOMAIN ms : refs'[m] = 0})
    BY DEF Commit
  <1>4. ASSUME NEW m \in MO
        PROVE  /\ refs'[m] = Cardinality(Holds(heap', m)) + Cardinality(Lists(syms, m))
               /\ refs'[m] \in Nat
    <2>1. /\ refs[m] = Cardinality(Holds(heap, m)) + Cardinality(Lists(symbolics, m))
          /\ listed[m] = Cardinality(Lists(syms, m)) - Cardinality(Lists(symbolics, m))
      BY DEF Counted, Tally
    <2>2. Of(hp, DOMAIN heap, m) = Cardinality(Holds(heap, m))
      <3>1. {o \in DOMAIN heap : hp[o].object = m} = Holds(heap, m)
        BY DEF Holds, Grows
      <3> QED BY <3>1 DEF Of
    <2>3. Of(hp, Bound(objs), m) = Cardinality(Holds(heap', m))
      <3>1. {o \in Bound(objs) : hp[o].object = m} = Holds(heap', m)
        BY CommitHeap DEF Holds
      <3> QED BY <3>1 DEF Of
    <2>4. DOMAIN heap \subseteq DOMAIN hp
      BY DEF Grows
    <2>9. DOMAIN hp \subseteq OS
      BY <1>1
    <2>0. Bound(objs) \subseteq DOMAIN hp
      BY <1>1
    <2>5. /\ Of(hp, DOMAIN heap, m) \in Nat /\ Of(hp, DOMAIN hp \ DOMAIN heap, m) \in Nat
          /\ Cardinality(Holds(hp, m)) = Of(hp, DOMAIN heap, m) + Of(hp, DOMAIN hp \ DOMAIN heap, m)
      <3> DEFINE D == DOMAIN heap
      <3>1. D \subseteq DOMAIN hp
        BY <2>4
      <3> HIDE DEF D
      <3>2. /\ Of(hp, D, m) \in Nat /\ Of(hp, DOMAIN hp \ D, m) \in Nat
            /\ Cardinality(Holds(hp, m)) = Of(hp, D, m) + Of(hp, DOMAIN hp \ D, m)
        BY <2>9, <3>1, OfParts, Zenon
      <3> QED BY <3>2 DEF D
    <2>6. /\ Of(hp, Bound(objs), m) \in Nat /\ Of(hp, DOMAIN hp \ Bound(objs), m) \in Nat
          /\ Cardinality(Holds(hp, m)) = Of(hp, Bound(objs), m) + Of(hp, DOMAIN hp \ Bound(objs), m)
      BY <2>9, <2>0, OfParts, Zenon
    <2>7. Cardinality(Lists(syms, m)) \in Nat /\ Cardinality(Lists(symbolics, m)) \in Nat
      BY ListsFinite
    <2>8. refs'[m] = refs[m] + listed[m] + Of(hp, DOMAIN hp \ DOMAIN heap, m)
                               - Of(hp, DOMAIN hp \ Bound(objs), m)
      BY <1>2
    <2> QED BY <2>1, <2>2, <2>3, <2>5, <2>6, <2>7, <2>8
  <1>5. DOMAIN refs' = MO
    BY <1>2
  <1>6. refs' \in [MO -> Nat]
    BY <1>2, <1>4, <1>5
  <1>7. DOMAIN mos' = DOMAIN ms \ {m \in DOMAIN ms : refs'[m] = 0}
    BY <1>3, DropValues
  <1>8. \A m \in DOMAIN ms \ {k \in DOMAIN ms : refs'[k] = 0} : mos'[m] = ms[m]
    BY <1>3, DropValues
  <1> QED BY <1>4, <1>6, <1>7, <1>8

\* An object that an object state holds, or that is listed, is kept.
LEMMA CommitKeepsUsed ==
  ASSUME NEW objs, NEW hp, NEW ms, NEW listed, NEW syms, NEW N, Bindings(objs, hp, ms),
         DOMAIN heap \subseteq OS, Grows(hp), Counted(heap, mos, symbolics, refs),
         Tally(listed, syms), Listing(objs, ms, syms, N), Commit(objs, hp, ms, listed)
  PROVE  /\ Counted(heap', mos', syms, refs')
         /\ \A o \in DOMAIN heap' : heap'[o].object \in DOMAIN mos'
         /\ \A s \in DOMAIN objs : \A m \in DOMAIN objs[s] : m \in DOMAIN mos'
         /\ \A s \in DOMAIN syms : \A k \in DOMAIN syms[s] : syms[s][k] \in DOMAIN mos'
PROOF
  <1>1. /\ refs' \in [MO -> Nat]
        /\ \A m \in MO : refs'[m] = Cardinality(Holds(heap', m)) + Cardinality(Lists(syms, m))
        /\ DOMAIN mos' = {m \in DOMAIN ms : refs'[m] # 0} /\ \A m \in DOMAIN mos' : mos'[m] = ms[m]
    BY CommitCounts
  <1>2. /\ objects' = objs /\ DOMAIN heap' = Bound(objs) /\ DOMAIN heap' \subseteq DOMAIN hp
        /\ \A o \in DOMAIN heap' : heap'[o] = hp[o]
    BY CommitHeap
  <1>3. DOMAIN hp \subseteq OS /\ DOMAIN ms \subseteq MO
    BY DEF Bindings
  <1>4. ASSUME NEW m \in MO
        PROVE  /\ IsFiniteSet(Holds(heap', m)) /\ Cardinality(Holds(heap', m)) \in Nat
               /\ IsFiniteSet(Lists(syms, m)) /\ Cardinality(Lists(syms, m)) \in Nat
    <2>1. Holds(heap', m) \in SUBSET OS
      BY <1>2, <1>3 DEF Holds
    <2>2. IsFiniteSet(Holds(heap', m))
      BY <2>1, Bounds, FS_Subset
    <2> QED BY <2>2, FS_CardinalityType, ListsFinite
  <1>5. ASSUME NEW m \in MO, Holds(heap', m) # {}
        PROVE  refs'[m] # 0
    <2>1. Cardinality(Holds(heap', m)) # 0
      BY <1>4, <1>5, FS_EmptySet
    <2> QED BY <1>1, <1>4, <2>1
  <1>6. ASSUME NEW m \in MO, Lists(syms, m) # {}
        PROVE  refs'[m] # 0
    <2>1. Cardinality(Lists(syms, m)) # 0
      BY <1>4, <1>6, FS_EmptySet
    <2> QED BY <1>1, <1>4, <2>1
  <1>7. ASSUME NEW o \in DOMAIN heap'
        PROVE  heap'[o].object \in DOMAIN mos'
    <2>1. heap'[o].object \in DOMAIN ms
      BY <1>2 DEF Bindings
    <2>2. o \in Holds(heap', heap'[o].object)
      BY DEF Holds
    <2> QED BY <1>1, <1>3, <1>5, <2>1, <2>2
  <1>8. ASSUME NEW s \in DOMAIN objs, NEW m \in DOMAIN objs[s]
        PROVE  m \in DOMAIN mos'
    <2>1. objs[s][m] \in DOMAIN heap'
      BY <1>2, BoundBy
    <2>2. hp[objs[s][m]].object = m
      BY DEF Bindings
    <2> QED BY <1>2, <1>7, <2>1, <2>2
  <1>9. ASSUME NEW s \in DOMAIN syms, NEW k \in DOMAIN syms[s]
        PROVE  syms[s][k] \in DOMAIN mos'
    <2>1. /\ s \in DOMAIN objs /\ syms[s] \in Seq(DOMAIN ms) /\ Len(syms[s]) <= N
          /\ N \in Nat /\ N <= MaxOps
      BY Bounds DEF Listing
    <2>2. k \in 1 .. Len(syms[s]) /\ syms[s][k] \in DOMAIN ms
      BY <2>1
    <2>3. k \in 1 .. MaxOps
      BY <2>1, <2>2, Bounds
    <2>4. s \in State
      BY <2>1 DEF Bindings
    <2>5. <<s, k>> \in Lists(syms, syms[s][k])
      BY <2>3, <2>4 DEF Lists
    <2> QED BY <1>1, <1>3, <1>6, <2>2, <2>5
  <1>10. ASSUME NEW m \in MO, refs'[m] # 0
         PROVE  m \in DOMAIN ms
    <2>1. Holds(heap', m) # {} \/ Lists(syms, m) # {}
      <3>1. SUFFICES ASSUME Holds(heap', m) = {}, Lists(syms, m) = {}
                     PROVE  FALSE
        OBVIOUS
      <3>2. Cardinality(Holds(heap', m)) = 0 /\ Cardinality(Lists(syms, m)) = 0
        BY <3>1, FS_EmptySet
      <3> QED BY <1>1, <1>10, <3>2
    <2>2. CASE Holds(heap', m) # {}
      <3>1. PICK o \in DOMAIN heap' : heap'[o].object = m
        BY <2>2 DEF Holds
      <3> QED BY <1>1, <1>7, <3>1
    <2>3. CASE Lists(syms, m) # {}
      <3>1. PICK x \in State \X (1 .. MaxOps) :
              x[1] \in DOMAIN syms /\ x[2] \in DOMAIN syms[x[1]] /\ syms[x[1]][x[2]] = m
        BY <2>3 DEF Lists
      <3> QED BY <1>1, <1>9, <3>1
    <2> QED BY <2>1, <2>2, <2>3
  <1>11. Counted(heap', mos', syms, refs')
    BY <1>1, <1>3, <1>10 DEF Counted
  <1> QED BY <1>7, <1>8, <1>9, <1>11

\* what holds before Commit lets go
Core(objs, hp, ms, ky, nat, pth, mm) ==
  /\ Bindings(objs, hp, ms) /\ Owned(objs, hp, ky)
  /\ Constants(objs, hp, ms, nat) /\ Contents(objs, hp, ms, pth, mm)

\* The parts of the invariant, restricted to what is used.
LEMMA RestrictedBindings ==
  ASSUME NEW objs, NEW hp, NEW ms, NEW hp2, NEW ms2, Bindings(objs, hp, ms),
         DOMAIN hp2 \subseteq DOMAIN hp, \A o \in DOMAIN hp2 : hp2[o] = hp[o],
         Bound(objs) \subseteq DOMAIN hp2,
         DOMAIN ms2 \subseteq DOMAIN ms, \A m \in DOMAIN ms2 : ms2[m] = ms[m],
         \A o \in DOMAIN hp2 : hp2[o].object \in DOMAIN ms2
  PROVE  Bindings(objs, hp2, ms2)
PROOF
  <1>1. ASSUME NEW s \in DOMAIN objs, NEW m \in DOMAIN objs[s]
        PROVE  /\ objs[s] \in [DOMAIN objs[s] -> DOMAIN hp] /\ objs[s][m] \in DOMAIN hp2
               /\ hp2[objs[s][m]].object = m
    BY BoundBy DEF Bindings
  <1>2. ASSUME NEW s \in DOMAIN objs
        PROVE  objs[s] \in [DOMAIN objs[s] -> DOMAIN hp2]
    <2>1. objs[s] \in [DOMAIN objs[s] -> DOMAIN hp]
      BY DEF Bindings
    <2> QED BY <1>1, <2>1
  <1>3. ASSUME NEW o \in DOMAIN hp2
        PROVE  WellFormed(hp2[o], ms2[hp2[o].object].size)
    <2>1. WellFormed(hp[o], ms[hp[o].object].size)
      BY DEF Bindings
    <2> QED BY <2>1
  <1>4. \A m \in DOMAIN ms2 : ms2[m] \in MObject
    BY DEF Bindings
  <1>5. DOMAIN objs \subseteq State /\ DOMAIN hp2 \subseteq OS /\ DOMAIN ms2 \subseteq MO
    BY DEF Bindings
  <1> QED BY <1>1, <1>2, <1>3, <1>4, <1>5 DEF Bindings

\* The owners, restricted to what is used.
LEMMA RestrictedOwned ==
  ASSUME NEW objs, NEW hp, NEW hp2, NEW ky, Owned(objs, hp, ky),
         \A o \in DOMAIN hp2 : hp2[o] = hp[o], Bound(objs) \subseteq DOMAIN hp2
  PROVE  Owned(objs, hp2, ky)
PROOF
  <1>1. ASSUME NEW s \in DOMAIN objs, NEW m \in DOMAIN objs[s]
        PROVE  hp2[objs[s][m]] = hp[objs[s][m]]
    BY BoundBy
  <1> QED BY <1>1 DEF Owned

\* The constant, restricted to what is used.
LEMMA RestrictedConstants ==
  ASSUME NEW objs, NEW hp, NEW ms, NEW hp2, NEW ms2, NEW nat, Constants(objs, hp, ms, nat),
         DOMAIN hp2 \subseteq DOMAIN hp, \A o \in DOMAIN hp2 : hp2[o] = hp[o],
         DOMAIN ms2 \subseteq DOMAIN ms, \A m \in DOMAIN ms2 : ms2[m] = ms[m]
  PROVE  Constants(objs, hp2, ms2, nat)
PROOF BY DEF Constants

\* The contents, restricted to what is used.
LEMMA RestrictedContents ==
  ASSUME NEW objs, NEW hp, NEW ms, NEW hp2, NEW ms2, NEW pth, NEW mm,
         Contents(objs, hp, ms, pth, mm),
         \A o \in DOMAIN hp2 : hp2[o] = hp[o], Bound(objs) \subseteq DOMAIN hp2,
         \A m \in DOMAIN ms2 : ms2[m] = ms[m],
         \A s \in DOMAIN objs : \A m \in DOMAIN objs[s] : m \in DOMAIN ms2
  PROVE  Contents(objs, hp2, ms2, pth, mm)
PROOF
  <1>1. ASSUME NEW s \in DOMAIN objs
        PROVE  Holding(objs[s], hp2, ms2, pth[s], mm[s])
    <2>1. Holding(objs[s], hp, ms, pth[s], mm[s])
      BY DEF Contents
    <2>2. ASSUME NEW m \in DOMAIN objs[s]
          PROVE  hp2[objs[s][m]] = hp[objs[s][m]] /\ ms2[m] = ms[m]
      BY BoundBy
    <2> QED BY <2>1, <2>2 DEF Holding
  <1> QED BY <1>1 DEF Contents

\* Commit keeps what holds before it lets go: the lemma that every action uses.
LEMMA CommitKeeps ==
  ASSUME MemoryInv, NEW objs, NEW hp, NEW ms, NEW listed, Commit(objs, hp, ms, listed),
         Core(objs, hp, ms, key', native', path', mem'), Frames(objs, ms, allocas'),
         Grows(hp), Tally(listed, symbolics'), Listing(objs, ms, symbolics', ops'),
         Layout(ms, slot'), determ' = determ, fault' = "none"
  PROVE  MemoryInv'
PROOF
  <1>1. /\ Bindings(objs, hp, ms) /\ Owned(objs, hp, key')
        /\ Constants(objs, hp, ms, native') /\ Contents(objs, hp, ms, path', mem')
    BY DEF Core
  <1>2. DOMAIN heap \subseteq OS /\ Counted(heap, mos, symbolics, refs)
    BY DEF MemoryInv, Bindings
  <1>3. /\ objects' = objs /\ DOMAIN heap' = Bound(objs) /\ DOMAIN heap' \subseteq DOMAIN hp
        /\ \A o \in DOMAIN heap' : heap'[o] = hp[o]
    BY <1>1, CommitHeap
  <1>4. /\ DOMAIN mos' = {m \in DOMAIN ms : refs'[m] # 0} /\ \A m \in DOMAIN mos' : mos'[m] = ms[m]
    BY <1>1, <1>2, CommitCounts
  <1>5. /\ Counted(heap', mos', symbolics', refs')
        /\ \A o \in DOMAIN heap' : heap'[o].object \in DOMAIN mos'
        /\ \A s \in DOMAIN objs : \A m \in DOMAIN objs[s] : m \in DOMAIN mos'
        /\ \A s \in DOMAIN symbolics' : \A k \in DOMAIN symbolics'[s] : symbolics'[s][k] \in DOMAIN mos'
    BY <1>1, <1>2, CommitKeepsUsed
  <1>6. DOMAIN mos' \subseteq DOMAIN ms
    BY <1>4
  <1>7. Bindings(objects', heap', mos')
    BY <1>1, <1>3, <1>4, <1>5, <1>6, RestrictedBindings
  <1>8. Owned(objects', heap', key')
    BY <1>1, <1>3, RestrictedOwned
  <1>9. Constants(objects', heap', mos', native')
    BY <1>1, <1>3, <1>4, <1>6, RestrictedConstants
  <1>10. Contents(objects', heap', mos', path', mem')
    BY <1>1, <1>3, <1>4, <1>5, RestrictedContents
  <1>11. Frames(objects', mos', allocas')
    BY <1>3, <1>4, <1>5 DEF Frames
  <1>12. Listing(objects', mos', symbolics', ops')
    <2>1. ASSUME NEW s \in DOMAIN objs
          PROVE  symbolics'[s] \in Seq(DOMAIN mos')
      <3>1. symbolics'[s] \in Seq(DOMAIN ms) /\ s \in DOMAIN symbolics'
        BY DEF Listing
      <3>2. \A k \in 1 .. Len(symbolics'[s]) : symbolics'[s][k] \in DOMAIN mos'
        BY <1>5, <3>1
      <3> QED BY <3>1, <3>2
    <2> QED BY <1>3, <2>1 DEF Listing
  <1>13. Layout(mos, slot)'
    BY <1>4, <1>6 DEF Layout
  <1>14. (DOMAIN heap = Bound(objects))'
    BY <1>3
  <1> QED BY <1>5, <1>7, <1>8, <1>9, <1>10, <1>11, <1>12, <1>13, <1>14 DEF MemoryInv

(***************************************************************************)
(* What an operation does to the bindings                                  *)
(***************************************************************************)

\* Every object of ms is in ms2, unchanged.
Extends(ms2, ms) ==
  /\ DOMAIN ms \subseteq DOMAIN ms2 /\ DOMAIN ms2 \subseteq MO
  /\ \A m \in DOMAIN ms : ms2[m] = ms[m]
  /\ \A m \in DOMAIN ms2 : ms2[m] \in MObject

\* o is a new object state, or the one that s owns and binds to m
Own(objs, hp, ky, s, m, o) ==
  o \notin DOMAIN hp \/ (m \in DOMAIN objs[s] /\ o = objs[s][m] /\ hp[o].owner = ky[s])

\* State s binds its objects by target; those in M get an object state of its own,
\* in a new place or where its own was, and the rest of the heap stays.
Rebinds(objs, hp, ky, s, target, M, hp2, ms2) ==
  /\ s \in DOMAIN objs /\ M \subseteq DOMAIN target /\ 1 \in DOMAIN target /\ 1 \notin M
  /\ \A m \in DOMAIN target \ M : m \in DOMAIN objs[s] /\ target[m] = objs[s][m]
  /\ \A m \in M : /\ target[m] \in OS /\ target[m] # 1 /\ Own(objs, hp, ky, s, m, target[m])
                  /\ m \in DOMAIN ms2 /\ WellFormed(hp2[target[m]], ms2[m].size)
                  /\ hp2[target[m]].object = m /\ hp2[target[m]].owner = ky[s]
                  /\ hp2[target[m]].readOnly = FALSE
  /\ DOMAIN hp2 = DOMAIN hp \cup {target[m] : m \in M}
  /\ \A o \in DOMAIN hp : (\A m \in M : target[m] # o) => hp2[o] = hp[o]
  /\ target = [m \in DOMAIN target |-> target[m]]

\* What the others bind, and what is not in M, stays as it is.
LEMMA RebindsRest ==
  ASSUME NEW objs, NEW hp, NEW ms, NEW ky, NEW s, NEW target, NEW M, NEW hp2, NEW ms2,
         Bindings(objs, hp, ms), Owned(objs, hp, ky),
         Rebinds(objs, hp, ky, s, target, M, hp2, ms2)
  PROVE  /\ \A t \in DOMAIN objs \ {s} : \A m \in DOMAIN objs[t] :
              hp2[objs[t][m]] = hp[objs[t][m]] /\ objs[t][m] \in DOMAIN hp2
                /\ \A k \in M : target[k] # objs[t][m]
         /\ \A m \in DOMAIN target \ M : hp2[target[m]] = hp[target[m]] /\ target[m] \in DOMAIN hp
         /\ \A o \in DOMAIN hp : hp2[o].object = hp[o].object
         /\ \A o \in DOMAIN hp2 : (\E m \in M : o = target[m]) \/ (o \in DOMAIN hp /\ hp2[o] = hp[o])
PROOF
  <1>1. ASSUME NEW t \in DOMAIN objs \ {s}, NEW m \in DOMAIN objs[t], NEW k \in M
        PROVE  target[k] # objs[t][m]
    <2>1. SUFFICES ASSUME target[k] = objs[t][m] PROVE FALSE
      OBVIOUS
    <2>2. objs[t][m] \in DOMAIN hp /\ hp[objs[t][m]].object = m
      BY DEF Bindings
    <2>3. k \in DOMAIN objs[s] /\ target[k] = objs[s][k] /\ hp[target[k]].owner = ky[s] /\ s \in DOMAIN objs
      BY <2>1, <2>2 DEF Rebinds, Own
    <2>4. hp[objs[s][k]].object = k
      BY <2>3 DEF Bindings
    <2>5. k = m
      BY <2>1, <2>2, <2>3, <2>4
    <2>6. hp[objs[s][k]].owner < ky[s] /\ ky[s] \in Nat
      BY <2>1, <2>3, <2>5 DEF Owned
    <2> QED BY <2>3, <2>6
  <1>2. ASSUME NEW m \in DOMAIN target \ M, NEW k \in M
        PROVE  target[k] # target[m]
    <2>1. SUFFICES ASSUME target[k] = target[m] PROVE FALSE
      OBVIOUS
    <2>2. s \in DOMAIN objs /\ m \in DOMAIN objs[s] /\ target[m] = objs[s][m]
      BY DEF Rebinds
    <2>3. target[m] \in DOMAIN hp /\ hp[target[m]].object = m
      BY <2>2 DEF Bindings
    <2>4. k \in DOMAIN objs[s] /\ target[k] = objs[s][k]
      BY <2>1, <2>3 DEF Rebinds, Own
    <2>5. hp[target[k]].object = k
      BY <2>2, <2>4 DEF Bindings
    <2> QED BY <2>1, <2>3, <2>5
  <1>3. ASSUME NEW t \in DOMAIN objs \ {s}, NEW m \in DOMAIN objs[t]
        PROVE  hp2[objs[t][m]] = hp[objs[t][m]] /\ objs[t][m] \in DOMAIN hp2
    <2>1. objs[t][m] \in DOMAIN hp
      BY DEF Bindings
    <2> QED BY <1>1, <2>1 DEF Rebinds
  <1>4. ASSUME NEW m \in DOMAIN target \ M
        PROVE  hp2[target[m]] = hp[target[m]] /\ target[m] \in DOMAIN hp
    <2>1. s \in DOMAIN objs /\ m \in DOMAIN objs[s] /\ target[m] = objs[s][m]
      BY DEF Rebinds
    <2>2. target[m] \in DOMAIN hp
      BY <2>1 DEF Bindings
    <2> QED BY <1>2, <2>2 DEF Rebinds
  <1>5. ASSUME NEW o \in DOMAIN hp
        PROVE  hp2[o].object = hp[o].object
    <2>1. CASE \A m \in M : target[m] # o
      BY <2>1 DEF Rebinds
    <2>2. ASSUME NEW m \in M, target[m] = o
          PROVE  hp2[o].object = hp[o].object
      <3>1. s \in DOMAIN objs /\ m \in DOMAIN objs[s] /\ o = objs[s][m] /\ hp2[o].object = m
        BY <2>2 DEF Rebinds, Own
      <3> QED BY <3>1 DEF Bindings
    <2> QED BY <2>1, <2>2
  <1>6. ASSUME NEW o \in DOMAIN hp2
        PROVE  (\E m \in M : o = target[m]) \/ (o \in DOMAIN hp /\ hp2[o] = hp[o])
    BY DEF Rebinds
  <1> QED BY <1>1, <1>3, <1>4, <1>5, <1>6

\* Rebinds leaves every binding right.
LEMMA ReboundBindings ==
  ASSUME NEW objs, NEW hp, NEW ms, NEW ky, NEW s, NEW target, NEW M, NEW hp2, NEW ms2,
         Bindings(objs, hp, ms), Owned(objs, hp, ky), Extends(ms2, ms),
         Rebinds(objs, hp, ky, s, target, M, hp2, ms2)
  PROVE  Bindings([objs EXCEPT ![s] = target], hp2, ms2)
PROOF
  <1> DEFINE new == [objs EXCEPT ![s] = target]
  <1>1. /\ \A t \in DOMAIN objs \ {s} : \A m \in DOMAIN objs[t] :
             hp2[objs[t][m]] = hp[objs[t][m]] /\ objs[t][m] \in DOMAIN hp2
        /\ \A m \in DOMAIN target \ M : hp2[target[m]] = hp[target[m]] /\ target[m] \in DOMAIN hp
        /\ \A o \in DOMAIN hp : hp2[o].object = hp[o].object
        /\ \A o \in DOMAIN hp2 : (\E m \in M : o = target[m]) \/ (o \in DOMAIN hp /\ hp2[o] = hp[o])
    BY RebindsRest
  <1>2. DOMAIN new = DOMAIN objs /\ s \in DOMAIN objs /\ new[s] = target
        /\ \A t \in DOMAIN objs \ {s} : new[t] = objs[t]
    BY DEF Rebinds
  <1>3. new = [t \in DOMAIN new |-> new[t]]
    OBVIOUS
  <1> HIDE DEF new
  <1>4. DOMAIN objs \subseteq State /\ DOMAIN hp2 \subseteq OS
    BY DEF Rebinds, Bindings
  <1>5. DOMAIN ms2 \subseteq MO /\ \A m \in DOMAIN ms2 : ms2[m] \in MObject
    BY DEF Extends
  <1>6. \A m \in DOMAIN target : target[m] \in DOMAIN hp2 /\ hp2[target[m]].object = m
    <2>1. ASSUME NEW m \in DOMAIN target \ M
          PROVE  target[m] \in DOMAIN hp2 /\ hp2[target[m]].object = m
      <3>1. m \in DOMAIN objs[s] /\ target[m] = objs[s][m] /\ s \in DOMAIN objs
        BY DEF Rebinds
      <3>2. hp[target[m]].object = m
        BY <3>1 DEF Bindings
      <3> QED BY <1>1, <3>2 DEF Rebinds
    <2>2. ASSUME NEW m \in M
          PROVE  target[m] \in DOMAIN hp2 /\ hp2[target[m]].object = m
      BY DEF Rebinds
    <2> QED BY <2>1, <2>2
  <1>7. target \in [DOMAIN target -> DOMAIN hp2]
    <2>1. target = [m \in DOMAIN target |-> target[m]]
      BY DEF Rebinds
    <2> QED BY <1>6, <2>1
  <1>8. ASSUME NEW t \in DOMAIN objs
        PROVE  /\ new[t] \in [DOMAIN new[t] -> DOMAIN hp2]
               /\ \A m \in DOMAIN new[t] : hp2[new[t][m]].object = m
    <2>1. CASE t = s
      BY <1>2, <1>6, <1>7, <2>1
    <2>2. CASE t # s
      <3>1. /\ objs[t] \in [DOMAIN objs[t] -> DOMAIN hp]
            /\ \A m \in DOMAIN objs[t] : hp[objs[t][m]].object = m
        BY DEF Bindings
      <3>2. \A m \in DOMAIN objs[t] : hp2[objs[t][m]].object = m /\ objs[t][m] \in DOMAIN hp2
        BY <1>1, <2>2, <3>1
      <3> QED BY <1>2, <2>2, <3>1, <3>2
    <2> QED BY <2>1, <2>2
  <1>9. ASSUME NEW o \in DOMAIN hp2
        PROVE  hp2[o].object \in DOMAIN ms2 /\ WellFormed(hp2[o], ms2[hp2[o].object].size)
    <2>1. CASE o \in DOMAIN hp /\ hp2[o] = hp[o]
      <3>1. hp[o].object \in DOMAIN ms /\ WellFormed(hp[o], ms[hp[o].object].size)
        BY <2>1 DEF Bindings
      <3> QED BY <2>1, <3>1 DEF Extends
    <2>2. ASSUME NEW m \in M, o = target[m]
          PROVE  hp2[o].object \in DOMAIN ms2 /\ WellFormed(hp2[o], ms2[hp2[o].object].size)
      BY <2>2 DEF Rebinds
    <2> QED BY <1>1, <2>1, <2>2
  <1>10. Bindings(new, hp2, ms2)
    BY <1>2, <1>4, <1>5, <1>8, <1>9, <1>3 DEF Bindings
  <1> QED BY <1>10 DEF new

\* Rebinds leaves nothing shared that an address space owns.
LEMMA ReboundOwned ==
  ASSUME NEW objs, NEW hp, NEW ms, NEW ky, NEW s, NEW target, NEW M, NEW hp2, NEW ms2,
         Bindings(objs, hp, ms), Owned(objs, hp, ky),
         Rebinds(objs, hp, ky, s, target, M, hp2, ms2)
  PROVE  Owned([objs EXCEPT ![s] = target], hp2, ky)
PROOF
  <1> DEFINE new == [objs EXCEPT ![s] = target]
  <1>1. /\ \A t \in DOMAIN objs \ {s} : \A m \in DOMAIN objs[t] :
             hp2[objs[t][m]] = hp[objs[t][m]] /\ \A k \in M : target[k] # objs[t][m]
        /\ \A m \in DOMAIN target \ M : hp2[target[m]] = hp[target[m]]
    BY RebindsRest
  <1>2. DOMAIN new = DOMAIN objs /\ s \in DOMAIN objs /\ new[s] = target
        /\ \A t \in DOMAIN objs \ {s} : new[t] = objs[t]
    BY DEF Rebinds
  <1> HIDE DEF new
  <1>3. ky \in [DOMAIN objs -> Nat]
    BY DEF Owned
  <1>4. ASSUME NEW m \in DOMAIN target
        PROVE  /\ hp2[target[m]].owner <= ky[s]
               /\ \A t \in DOMAIN objs \ {s} :
                    m \in DOMAIN objs[t] /\ objs[t][m] = target[m] => hp2[target[m]].owner < ky[s]
    <2>1. CASE m \in M
      <3>1. hp2[target[m]].owner = ky[s] /\ ky[s] \in Nat
        BY <1>2, <1>3, <2>1 DEF Rebinds
      <3> QED BY <1>1, <2>1, <3>1
    <2>2. CASE m \notin M
      <3>1. m \in DOMAIN objs[s] /\ target[m] = objs[s][m]
        BY <2>2 DEF Rebinds
      <3> QED BY <1>1, <1>2, <2>2, <3>1 DEF Owned
    <2> QED BY <2>1, <2>2
  <1>5. ASSUME NEW t \in DOMAIN objs \ {s}, NEW m \in DOMAIN objs[t]
        PROVE  /\ hp2[objs[t][m]].owner <= ky[t]
               /\ \A u \in DOMAIN objs \ {t} :
                    m \in DOMAIN new[u] /\ new[u][m] = objs[t][m] => hp2[objs[t][m]].owner < ky[t]
    <2>1. hp[objs[t][m]].owner <= ky[t] /\ hp2[objs[t][m]] = hp[objs[t][m]]
      BY <1>1 DEF Owned
    <2>2. ASSUME NEW u \in DOMAIN objs \ {t}, m \in DOMAIN new[u], new[u][m] = objs[t][m]
          PROVE  m \in DOMAIN objs[u] /\ objs[u][m] = objs[t][m]
      <3>1. CASE u # s
        BY <1>2, <2>2, <3>1
      <3>2. CASE u = s
        <4>1. m \in DOMAIN target /\ target[m] = objs[t][m]
          BY <1>2, <2>2, <3>2
        <4>2. m \notin M
          BY <1>1, <4>1
        <4> QED BY <3>2, <4>1, <4>2 DEF Rebinds
      <3> QED BY <3>1, <3>2
    <2> QED BY <2>1, <2>2 DEF Owned
  <1>6. Owned(new, hp2, ky)
    <2>1. ASSUME NEW t \in DOMAIN objs, NEW m \in DOMAIN new[t]
          PROVE  /\ hp2[new[t][m]].owner <= ky[t]
                 /\ \A u \in DOMAIN objs \ {t} :
                      m \in DOMAIN new[u] /\ new[u][m] = new[t][m] => hp2[new[t][m]].owner < ky[t]
      <3>1. CASE t = s
        BY <1>2, <1>4, <3>1
      <3>2. CASE t # s
        BY <1>2, <1>5, <3>2
      <3> QED BY <3>1, <3>2
    <2> QED BY <1>2, <1>3, <2>1 DEF Owned
  <1> QED BY <1>6 DEF new

\* Rebinds leaves the constant of the program alone.
LEMMA ReboundConstants ==
  ASSUME NEW objs, NEW hp, NEW ms, NEW ky, NEW s, NEW target, NEW M, NEW hp2, NEW ms2, NEW nat,
         Bindings(objs, hp, ms), Owned(objs, hp, ky), Constants(objs, hp, ms, nat), Extends(ms2, ms),
         Rebinds(objs, hp, ky, s, target, M, hp2, ms2)
  PROVE  Constants([objs EXCEPT ![s] = target], hp2, ms2, nat)
PROOF
  <1> DEFINE new == [objs EXCEPT ![s] = target]
  <1>1. /\ \A o \in DOMAIN hp2 : (\E m \in M : o = target[m]) \/ (o \in DOMAIN hp /\ hp2[o] = hp[o])
    BY RebindsRest
  <1>2. DOMAIN new = DOMAIN objs /\ s \in DOMAIN objs /\ new[s] = target
        /\ \A t \in DOMAIN objs \ {s} : new[t] = objs[t]
    BY DEF Rebinds
  <1>3. 1 \in DOMAIN target /\ target[1] = 1
    <2>1. 1 \in DOMAIN target /\ target[1] = objs[s][1]
      BY DEF Rebinds
    <2> QED BY <1>2, <2>1 DEF Constants
  <1>4. ASSUME NEW o \in DOMAIN hp2
        PROVE  hp2[o].readOnly <=> o = 1
    <2>1. CASE o \in DOMAIN hp /\ hp2[o] = hp[o]
      BY <2>1 DEF Constants
    <2>2. ASSUME NEW m \in M, o = target[m]
          PROVE  hp2[o].readOnly <=> o = 1
      BY <2>2 DEF Rebinds
    <2> QED BY <1>1, <2>1, <2>2
  <1>5. 1 \in DOMAIN hp
    <2>1. 1 \in DOMAIN objs[s] /\ objs[s][1] = 1
      BY <1>2 DEF Constants
    <2> QED BY <1>2, <2>1 DEF Bindings
  <1>6. hp2[1] = hp[1]
    BY <1>5 DEF Rebinds
  <1>7. 1 \in DOMAIN ms /\ ms2[1] = ms[1]
    <2>1. hp[1].object = 1
      <3>1. 1 \in DOMAIN objs[s] /\ objs[s][1] = 1
        BY <1>2 DEF Constants
      <3>2. hp[objs[s][1]].object = 1
        BY <1>2, <3>1 DEF Bindings
      <3> QED BY <3>1, <3>2
    <2>2. 1 \in DOMAIN ms
      BY <1>5, <2>1 DEF Bindings
    <2> QED BY <2>2 DEF Extends
  <1> HIDE DEF new
  <1>8. \A t \in DOMAIN new : 1 \in DOMAIN new[t] /\ new[t][1] = 1
    BY <1>2, <1>3 DEF Constants
  <1>9. ms2[1].global /\ ~ms2[1].local
    BY <1>7 DEF Constants
  <1>10. DOMAIN hp2[1].known = {} /\ nat = [m \in {1} |-> hp2[1].store]
    BY <1>5, <1>6 DEF Constants
  <1>11. Constants(new, hp2, ms2, nat)
    BY <1>4, <1>8, <1>9, <1>10 DEF Constants
  <1> QED BY <1>11 DEF new

\* Rebinds changes the contents of the one state only.
LEMMA ReboundContents ==
  ASSUME NEW objs, NEW hp, NEW ms, NEW ky, NEW s, NEW target, NEW M, NEW hp2, NEW ms2,
         NEW pth, NEW mm, NEW in, NEW c,
         Bindings(objs, hp, ms), Owned(objs, hp, ky), Extends(ms2, ms), Contents(objs, hp, ms, pth, mm),
         Rebinds(objs, hp, ky, s, target, M, hp2, ms2), Holding(target, hp2, ms2, in, c)
  PROVE  Contents([objs EXCEPT ![s] = target], hp2, ms2, [pth EXCEPT ![s] = in], [mm EXCEPT ![s] = c])
PROOF
  <1> DEFINE new == [objs EXCEPT ![s] = target]
             pth2 == [pth EXCEPT ![s] = in]
             mm2 == [mm EXCEPT ![s] = c]
  <1>1. \A t \in DOMAIN objs \ {s} : \A m \in DOMAIN objs[t] : hp2[objs[t][m]] = hp[objs[t][m]]
    BY RebindsRest
  <1>2. DOMAIN new = DOMAIN objs /\ s \in DOMAIN objs /\ new[s] = target
        /\ \A t \in DOMAIN objs \ {s} : new[t] = objs[t]
    BY DEF Rebinds
  <1>3. pth \in [DOMAIN objs -> SUBSET Input] /\ DOMAIN mm = DOMAIN objs /\ in \subseteq Input
    BY DEF Contents, Holding
  <1>4. pth2 \in [DOMAIN objs -> SUBSET Input] /\ pth2[s] = in /\ \A t \in DOMAIN objs \ {s} : pth2[t] = pth[t]
    BY <1>2, <1>3
  <1>5. DOMAIN mm2 = DOMAIN objs /\ mm2[s] = c /\ \A t \in DOMAIN objs \ {s} : mm2[t] = mm[t]
    BY <1>2, <1>3
  <1>6. mm2 = [t \in DOMAIN mm2 |-> mm2[t]]
    OBVIOUS
  <1> HIDE DEF new, pth2, mm2
  <1>7. ASSUME NEW t \in DOMAIN objs \ {s}
        PROVE  Holding(objs[t], hp2, ms2, pth[t], mm[t])
    <2>1. Holding(objs[t], hp, ms, pth[t], mm[t])
      BY DEF Contents
    <2>2. ASSUME NEW m \in DOMAIN objs[t]
          PROVE  hp2[objs[t][m]] = hp[objs[t][m]] /\ ms2[m] = ms[m]
      <3>1. objs[t][m] \in DOMAIN hp /\ hp[objs[t][m]].object = m
        BY DEF Bindings
      <3>2. m \in DOMAIN ms
        BY <3>1 DEF Bindings
      <3> QED BY <1>1, <3>2 DEF Extends
    <2> QED BY <2>1, <2>2 DEF Holding
  <1>8. \A t \in DOMAIN new : Holding(new[t], hp2, ms2, pth2[t], mm2[t])
    <2> SUFFICES ASSUME NEW t \in DOMAIN objs
                 PROVE  Holding(new[t], hp2, ms2, pth2[t], mm2[t])
      BY <1>2
    <2>1. CASE t = s
      BY <1>2, <1>4, <1>5, <2>1
    <2>2. CASE t # s
      BY <1>2, <1>4, <1>5, <1>7, <2>2
    <2> QED BY <2>1, <2>2
  <1>9. Contents(new, hp2, ms2, pth2, mm2)
    BY <1>2, <1>4, <1>5, <1>8, <1>6 DEF Contents
  <1> QED BY <1>9 DEF new, pth2, mm2

\* Together: a state whose objects are bound anew to what they should hold.
LEMMA Rebound ==
  ASSUME NEW objs, NEW hp, NEW ms, NEW ky, NEW nat, NEW pth, NEW mm, NEW s, NEW target, NEW M,
         NEW hp2, NEW ms2, NEW in, NEW c, Core(objs, hp, ms, ky, nat, pth, mm), Extends(ms2, ms),
         Rebinds(objs, hp, ky, s, target, M, hp2, ms2), Holding(target, hp2, ms2, in, c)
  PROVE  Core([objs EXCEPT ![s] = target], hp2, ms2, ky, nat,
              [pth EXCEPT ![s] = in], [mm EXCEPT ![s] = c])
PROOF
  <1>1. /\ Bindings(objs, hp, ms) /\ Owned(objs, hp, ky)
        /\ Constants(objs, hp, ms, nat) /\ Contents(objs, hp, ms, pth, mm)
    BY DEF Core
  <1>2. Bindings([objs EXCEPT ![s] = target], hp2, ms2)
    BY <1>1, ReboundBindings
  <1>3. Owned([objs EXCEPT ![s] = target], hp2, ky)
    BY <1>1, ReboundOwned
  <1>4. Constants([objs EXCEPT ![s] = target], hp2, ms2, nat)
    BY <1>1, ReboundConstants
  <1>5. Contents([objs EXCEPT ![s] = target], hp2, ms2, [pth EXCEPT ![s] = in], [mm EXCEPT ![s] = c])
    BY <1>1, ReboundContents
  <1> QED BY <1>2, <1>3, <1>4, <1>5 DEF Core

\* an object state of m that only its owner binds
Mine(os, m, size, owner) ==
  WellFormed(os, size) /\ os.object = m /\ os.owner = owner /\ os.readOnly = FALSE

\* bindObject of one object state, in a new place or where s has its own.
LEMMA BoundOne ==
  ASSUME NEW objs, NEW hp, NEW ms, NEW ky, NEW nat, NEW pth, NEW mm, NEW s \in DOMAIN objs,
         NEW m, NEW o \in OS, NEW os, NEW ms2, NEW c,
         Core(objs, hp, ms, ky, nat, pth, mm), Extends(ms2, ms), m \in DOMAIN ms2,
         m # 1, o # 1, Own(objs, hp, ky, s, m, o), Mine(os, m, ms2[m].size, ky[s]),
         Means(os, ms2[m].size, pth[s], c)
  PROVE  Core(bindObject(objs, s, m, o), Set(hp, o, os), ms2, ky, nat, pth,
              [mm EXCEPT ![s] = Set(@, m, c)])
PROOF
  <1> DEFINE target == Set(objs[s], m, o)
             hp2 == Set(hp, o, os)
             d == Set(mm[s], m, c)
  <1>1. /\ Bindings(objs, hp, ms) /\ Owned(objs, hp, ky)
        /\ Constants(objs, hp, ms, nat) /\ Contents(objs, hp, ms, pth, mm)
    BY DEF Core
  <1>2. /\ DOMAIN target = DOMAIN objs[s] \cup {m} /\ target[m] = o
        /\ \A k \in DOMAIN objs[s] : k # m => target[k] = objs[s][k]
    BY DEF Set
  <1>3. /\ DOMAIN hp2 = DOMAIN hp \cup {o} /\ hp2[o] = os
        /\ \A x \in DOMAIN hp : x # o => hp2[x] = hp[x]
    BY DEF Set
  <1>4. target = [k \in DOMAIN target |-> target[k]]
    BY DEF Set
  <1>5. bindObject(objs, s, m, o) = [objs EXCEPT ![s] = target]
    BY DEF bindObject
  <1>6. 1 \in DOMAIN objs[s]
    BY <1>1 DEF Constants
  <1>7. s \in DOMAIN mm /\ [mm EXCEPT ![s] = Set(@, m, c)] = [mm EXCEPT ![s] = d]
    BY <1>1 DEF Contents
  <1>8. Holding(objs[s], hp, ms, pth[s], mm[s]) /\ pth \in [DOMAIN objs -> SUBSET Input]
    BY <1>1 DEF Contents
  <1>9. /\ DOMAIN d = DOMAIN mm[s] \cup {m} /\ d[m] = c
        /\ \A k \in DOMAIN mm[s] : k # m => d[k] = mm[s][k]
    BY DEF Set
  <1>10. d = [k \in DOMAIN d |-> d[k]]
    BY DEF Set
  <1> HIDE DEF target, hp2, d
  <1>11. Rebinds(objs, hp, ky, s, target, {m}, hp2, ms2)
    <2>1. DOMAIN hp2 = DOMAIN hp \cup {target[k] : k \in {m}}
      BY <1>2, <1>3
    <2>2. \A k \in DOMAIN target \ {m} : k \in DOMAIN objs[s] /\ target[k] = objs[s][k]
      BY <1>2
    <2>3. \A k \in {m} : /\ target[k] \in OS /\ target[k] # 1 /\ Own(objs, hp, ky, s, k, target[k])
                         /\ k \in DOMAIN ms2 /\ WellFormed(hp2[target[k]], ms2[k].size)
                         /\ hp2[target[k]].object = k /\ hp2[target[k]].owner = ky[s]
                         /\ hp2[target[k]].readOnly = FALSE
      BY <1>2, <1>3 DEF Mine
    <2>4. \A x \in DOMAIN hp : (\A k \in {m} : target[k] # x) => hp2[x] = hp[x]
      BY <1>2, <1>3
    <2> QED BY <1>2, <1>4, <1>6, <2>1, <2>2, <2>3, <2>4 DEF Rebinds
  <1>12. Holding(target, hp2, ms2, pth[s], d)
    <2>1. \A k \in DOMAIN target \ {m} : hp2[target[k]] = hp[target[k]]
      BY <1>1, <1>11, RebindsRest
    <2>2. ASSUME NEW k \in DOMAIN target
          PROVE  Means(hp2[target[k]], ms2[k].size, pth[s], d[k])
      <3>1. CASE k = m
        BY <1>2, <1>3, <1>9, <3>1
      <3>2. CASE k # m
        <4>1. k \in DOMAIN objs[s] /\ target[k] = objs[s][k] /\ hp2[target[k]] = hp[objs[s][k]]
          BY <1>2, <2>1, <3>2
        <4>2. Means(hp[objs[s][k]], ms[k].size, pth[s], mm[s][k]) /\ k \in DOMAIN mm[s]
          BY <1>8, <4>1 DEF Holding
        <4>3. k \in DOMAIN ms
          <5>1. objs[s][k] \in DOMAIN hp /\ hp[objs[s][k]].object = k
            BY <1>1, <4>1 DEF Bindings
          <5> QED BY <1>1, <5>1 DEF Bindings
        <4>4. ms2[k] = ms[k]
          BY <4>3 DEF Extends
        <4> QED BY <1>9, <3>2, <4>1, <4>2, <4>4
      <3> QED BY <3>1, <3>2
    <2>3. pth[s] \subseteq Input /\ pth[s] # {} /\ DOMAIN d = DOMAIN target
      BY <1>2, <1>8, <1>9 DEF Holding
    <2> QED BY <1>10, <2>2, <2>3 DEF Holding
  <1>13. [pth EXCEPT ![s] = pth[s]] = pth
    BY <1>8
  <1>14. Core([objs EXCEPT ![s] = target], hp2, ms2, ky, nat, [pth EXCEPT ![s] = pth[s]],
              [mm EXCEPT ![s] = d])
    BY <1>11, <1>12, Rebound
  <1> QED BY <1>5, <1>7, <1>13, <1>14 DEF target, hp2, d

\* bindObject forgets no object state.
LEMMA BoundOneGrows ==
  ASSUME MemoryInv, NEW s \in Alive, NEW m, NEW o, NEW os,
         Own(objects, heap, key, s, m, o), os.object = m
  PROVE  Grows(Set(heap, o, os))
PROOF
  <1>1. /\ DOMAIN heap \subseteq DOMAIN Set(heap, o, os) /\ Set(heap, o, os)[o] = os
        /\ \A x \in DOMAIN heap : x # o => Set(heap, o, os)[x] = heap[x]
    BY DEF Set
  <1>2. o \in DOMAIN heap => heap[o].object = m
    BY DEF Own, MemoryInv, Bindings, Alive
  <1> QED BY <1>1, <1>2 DEF Grows

\* No object is added.
LEMMA ExtendsItself ==
  ASSUME NEW objs, NEW hp, NEW ms, Bindings(objs, hp, ms)
  PROVE  Extends(ms, ms)
PROOF BY DEF Bindings, Extends

\* unbindObject: the objects in D are not bound any more.
LEMMA Unbound ==
  ASSUME NEW objs, NEW hp, NEW ms, NEW ky, NEW nat, NEW pth, NEW mm, NEW s \in DOMAIN objs, NEW D,
         Core(objs, hp, ms, ky, nat, pth, mm), 1 \notin D
  PROVE  Core(unbindObject(objs, s, D), hp, ms, ky, nat, pth, [mm EXCEPT ![s] = Drop(@, D)])
PROOF
  <1> DEFINE target == Drop(objs[s], D)
             d == Drop(mm[s], D)
  <1>1. /\ Bindings(objs, hp, ms) /\ Owned(objs, hp, ky)
        /\ Constants(objs, hp, ms, nat) /\ Contents(objs, hp, ms, pth, mm)
    BY DEF Core
  <1>2. /\ DOMAIN target = DOMAIN objs[s] \ D
        /\ \A k \in DOMAIN target : target[k] = objs[s][k]
    BY DEF Drop
  <1>3. target = [k \in DOMAIN target |-> target[k]]
    BY DEF Drop
  <1>4. unbindObject(objs, s, D) = [objs EXCEPT ![s] = target]
    BY DEF unbindObject
  <1>5. 1 \in DOMAIN objs[s]
    BY <1>1 DEF Constants
  <1>6. s \in DOMAIN mm /\ [mm EXCEPT ![s] = Drop(@, D)] = [mm EXCEPT ![s] = d]
    BY <1>1 DEF Contents
  <1>7. Holding(objs[s], hp, ms, pth[s], mm[s]) /\ pth \in [DOMAIN objs -> SUBSET Input]
    BY <1>1 DEF Contents
  <1>8. DOMAIN d = DOMAIN mm[s] \ D /\ \A k \in DOMAIN d : d[k] = mm[s][k]
    BY DEF Drop
  <1>9. d = [k \in DOMAIN d |-> d[k]]
    BY DEF Drop
  <1> HIDE DEF target, d
  <1>10. Rebinds(objs, hp, ky, s, target, {}, hp, ms)
    <2>1. DOMAIN hp = DOMAIN hp \cup {target[k] : k \in {}}
      OBVIOUS
    <2> QED BY <1>2, <1>3, <1>5, <2>1 DEF Rebinds
  <1>11. Holding(target, hp, ms, pth[s], d)
    BY <1>2, <1>7, <1>8, <1>9 DEF Holding
  <1>12. [pth EXCEPT ![s] = pth[s]] = pth
    BY <1>7
  <1>13. Extends(ms, ms)
    BY <1>1, ExtendsItself
  <1>14. Core([objs EXCEPT ![s] = target], hp, ms, ky, nat, [pth EXCEPT ![s] = pth[s]],
              [mm EXCEPT ![s] = d])
    BY <1>10, <1>11, <1>13, Rebound
  <1> QED BY <1>4, <1>6, <1>12, <1>14 DEF target, d

\* ~ExecutionState: a state goes away.
LEMMA Deleted ==
  ASSUME NEW objs, NEW hp, NEW ms, NEW ky, NEW nat, NEW pth, NEW mm, NEW s,
         Core(objs, hp, ms, ky, nat, pth, mm)
  PROVE  Core(Drop(objs, {s}), hp, ms, Drop(ky, {s}), nat, Drop(pth, {s}), Drop(mm, {s}))
PROOF
  <1> DEFINE new == Drop(objs, {s})
             ky2 == Drop(ky, {s})
             pth2 == Drop(pth, {s})
             mm2 == Drop(mm, {s})
  <1>1. /\ Bindings(objs, hp, ms) /\ Owned(objs, hp, ky)
        /\ Constants(objs, hp, ms, nat) /\ Contents(objs, hp, ms, pth, mm)
    BY DEF Core
  <1>2. ky \in [DOMAIN objs -> Nat] /\ pth \in [DOMAIN objs -> SUBSET Input] /\ DOMAIN mm = DOMAIN objs
    BY <1>1 DEF Owned, Contents
  <1>3. DOMAIN new = DOMAIN objs \ {s} /\ \A t \in DOMAIN new : new[t] = objs[t]
    BY DEF Drop
  <1>4. ky2 \in [DOMAIN new -> Nat] /\ \A t \in DOMAIN new : ky2[t] = ky[t]
    BY <1>2 DEF Drop
  <1>5. pth2 \in [DOMAIN new -> SUBSET Input] /\ \A t \in DOMAIN new : pth2[t] = pth[t]
    BY <1>2 DEF Drop
  <1>6. DOMAIN mm2 = DOMAIN new /\ \A t \in DOMAIN new : mm2[t] = mm[t]
    BY <1>2 DEF Drop
  <1>7. new = [u \in DOMAIN new |-> new[u]]
    BY DEF Drop
  <1>8. mm2 = [u \in DOMAIN mm2 |-> mm2[u]]
    BY DEF Drop
  <1> HIDE DEF new, ky2, pth2, mm2
  <1>9. Bindings(new, hp, ms)
    BY <1>1, <1>3, <1>7 DEF Bindings
  <1>10. Owned(new, hp, ky2)
    BY <1>1, <1>3, <1>4 DEF Owned
  <1>11. Constants(new, hp, ms, nat)
    BY <1>1, <1>3 DEF Constants
  <1>12. Contents(new, hp, ms, pth2, mm2)
    BY <1>1, <1>3, <1>5, <1>6, <1>8 DEF Contents
  <1> QED BY <1>9, <1>10, <1>11, <1>12 DEF Core, new, ky2, pth2, mm2

\* AddressSpace(const AddressSpace &): everything is shared, and nobody owns it.
LEMMA Branched ==
  ASSUME NEW objs, NEW hp, NEW ms, NEW ky, NEW nat, NEW pth, NEW mm, NEW s \in DOMAIN objs,
         NEW t \in State, t \notin DOMAIN objs, NEW yes, NEW no,
         Core(objs, hp, ms, ky, nat, pth, mm),
         yes \subseteq pth[s], yes # {}, no \subseteq pth[s], no # {}
  PROVE  Core(Set(objs, t, objs[s]), hp, ms, Set([ky EXCEPT ![s] = @ + 1], t, ky[s] + 1), nat,
              Set([pth EXCEPT ![s] = yes], t, no), Set(mm, t, mm[s]))
PROOF
  <1> DEFINE new == Set(objs, t, objs[s])
             ky2 == Set([ky EXCEPT ![s] = @ + 1], t, ky[s] + 1)
             pth2 == Set([pth EXCEPT ![s] = yes], t, no)
             mm2 == Set(mm, t, mm[s])
  <1>1. /\ Bindings(objs, hp, ms) /\ Owned(objs, hp, ky)
        /\ Constants(objs, hp, ms, nat) /\ Contents(objs, hp, ms, pth, mm)
    BY DEF Core
  <1>2. ky \in [DOMAIN objs -> Nat] /\ pth \in [DOMAIN objs -> SUBSET Input] /\ DOMAIN mm = DOMAIN objs
    BY <1>1 DEF Owned, Contents
  <1>3. /\ DOMAIN new = DOMAIN objs \cup {t} /\ new[t] = objs[s]
        /\ \A u \in DOMAIN objs : new[u] = objs[u]
    BY DEF Set
  <1>4. /\ ky2 \in [DOMAIN new -> Nat] /\ ky2[t] = ky[s] + 1 /\ ky2[s] = ky[s] + 1
        /\ \A u \in DOMAIN objs \ {s} : ky2[u] = ky[u]
    BY <1>2 DEF Set
  <1>5. /\ pth2 \in [DOMAIN new -> SUBSET Input] /\ pth2[t] = no /\ pth2[s] = yes
        /\ \A u \in DOMAIN objs \ {s} : pth2[u] = pth[u]
    <2>1. yes \in SUBSET Input /\ no \in SUBSET Input
      BY <1>2
    <2> QED BY <1>2, <2>1 DEF Set
  <1>6. DOMAIN mm2 = DOMAIN new /\ mm2[t] = mm[s] /\ \A u \in DOMAIN objs : mm2[u] = mm[u]
    BY <1>2 DEF Set
  <1>7. new = [u \in DOMAIN new |-> new[u]]
    BY DEF Set
  <1>8. mm2 = [u \in DOMAIN mm2 |-> mm2[u]]
    BY DEF Set
  <1> HIDE DEF new, ky2, pth2, mm2
  <1>9. Bindings(new, hp, ms)
    BY <1>1, <1>3, <1>7 DEF Bindings
  <1>10. Owned(new, hp, ky2)
    <2>1. ASSUME NEW u \in DOMAIN objs, NEW m \in DOMAIN objs[u]
          PROVE  /\ hp[objs[u][m]].owner \in Nat /\ hp[objs[u][m]].owner <= ky[u] /\ ky[u] \in Nat
                 /\ \A v \in DOMAIN objs \ {u} :
                      m \in DOMAIN objs[v] /\ objs[v][m] = objs[u][m] => hp[objs[u][m]].owner < ky[u]
      <3>1. WellFormed(hp[objs[u][m]], ms[hp[objs[u][m]].object].size)
        BY <1>1 DEF Bindings
      <3>2. hp[objs[u][m]].owner \in Nat
        BY <3>1, ShapeFields DEF WellFormed
      <3> QED BY <1>1, <3>2 DEF Owned
    <2>2. ASSUME NEW u \in DOMAIN new, NEW m \in DOMAIN new[u]
          PROVE  /\ hp[new[u][m]].owner <= ky2[u]
                 /\ \A v \in DOMAIN new \ {u} :
                      m \in DOMAIN new[v] /\ new[v][m] = new[u][m] => hp[new[u][m]].owner < ky2[u]
      <3>1. CASE u \in {s, t}
        <4>1. new[u] = objs[s] /\ ky2[u] = ky[s] + 1
          BY <1>3, <1>4, <3>1
        <4> QED BY <2>1, <4>1
      <3>2. CASE u \notin {s, t}
        <4>1. u \in DOMAIN objs /\ new[u] = objs[u] /\ ky2[u] = ky[u]
          BY <1>3, <1>4, <3>2
        <4>2. ASSUME NEW v \in DOMAIN new \ {u}, m \in DOMAIN new[v], new[v][m] = new[u][m]
              PROVE  hp[new[u][m]].owner < ky2[u]
          <5>1. \E w \in DOMAIN objs \ {u} : new[v] = objs[w]
            BY <1>3, <3>2
          <5> QED BY <2>1, <4>1, <4>2, <5>1
        <4> QED BY <2>1, <4>1, <4>2
      <3> QED BY <3>1, <3>2
    <2> QED BY <1>4, <2>2 DEF Owned
  <1>11. Constants(new, hp, ms, nat)
    BY <1>1, <1>3 DEF Constants
  <1>12. ASSUME NEW u \in DOMAIN new
         PROVE  Holding(new[u], hp, ms, pth2[u], mm2[u])
    <2>1. Holding(objs[s], hp, ms, pth[s], mm[s])
      BY <1>1 DEF Contents
    <2>2. Holding(objs[s], hp, ms, yes, mm[s]) /\ Holding(objs[s], hp, ms, no, mm[s])
      BY <2>1 DEF Holding, Means
    <2>3. CASE u \in {s, t}
      BY <1>3, <1>5, <1>6, <2>2, <2>3
    <2>4. CASE u \notin {s, t}
      BY <1>1, <1>3, <1>5, <1>6, <2>4 DEF Contents
    <2> QED BY <2>3, <2>4
  <1>13. Contents(new, hp, ms, pth2, mm2)
    BY <1>5, <1>6, <1>12, <1>8 DEF Contents
  <1> QED BY <1>9, <1>10, <1>11, <1>13 DEF Core, new, ky2, pth2, mm2

\* A shared object state changes in place: for everyone who binds it, it means what
\* it did.
LEMMA SameInPlace ==
  ASSUME NEW objs, NEW hp, NEW ms, NEW ky, NEW nat, NEW pth, NEW mm, NEW o \in DOMAIN hp, NEW new,
         Core(objs, hp, ms, ky, nat, pth, mm), SameMeaning(new, hp[o], ms[hp[o].object].size),
         o = 1 => new.store = hp[o].store /\ DOMAIN new.known = DOMAIN hp[o].known
  PROVE  Core(objs, [hp EXCEPT ![o] = new], ms, ky, nat, pth, mm)
PROOF
  <1> DEFINE hp2 == [hp EXCEPT ![o] = new]
  <1>1. /\ Bindings(objs, hp, ms) /\ Owned(objs, hp, ky)
        /\ Constants(objs, hp, ms, nat) /\ Contents(objs, hp, ms, pth, mm)
    BY DEF Core
  <1>2. DOMAIN hp2 = DOMAIN hp /\ hp2[o] = new /\ \A x \in DOMAIN hp : x # o => hp2[x] = hp[x]
    OBVIOUS
  <1> HIDE DEF hp2
  <1>3. /\ new.object = hp[o].object /\ new.owner = hp[o].owner /\ new.readOnly = hp[o].readOnly
        /\ WellFormed(new, ms[hp[o].object].size)
    BY DEF SameMeaning
  <1>4. ASSUME NEW x \in DOMAIN hp
        PROVE  /\ hp2[x].object = hp[x].object /\ hp2[x].owner = hp[x].owner
               /\ hp2[x].readOnly = hp[x].readOnly /\ WellFormed(hp2[x], ms[hp2[x].object].size)
    <2>1. CASE x = o
      BY <1>2, <1>3, <2>1
    <2>2. CASE x # o
      BY <1>1, <1>2, <2>2 DEF Bindings
    <2> QED BY <2>1, <2>2
  <1>5. Bindings(objs, hp2, ms)
    BY <1>1, <1>2, <1>4 DEF Bindings
  <1>6. ASSUME NEW s \in DOMAIN objs, NEW m \in DOMAIN objs[s]
        PROVE  objs[s][m] \in DOMAIN hp /\ hp[objs[s][m]].object = m
    BY <1>1 DEF Bindings
  <1>7. Owned(objs, hp2, ky)
    BY <1>1, <1>4, <1>6 DEF Owned
  <1>8. Constants(objs, hp2, ms, nat)
    BY <1>1, <1>2, <1>4 DEF Constants
  <1>9. ASSUME NEW s \in DOMAIN objs
        PROVE  Holding(objs[s], hp2, ms, pth[s], mm[s])
    <2>1. Holding(objs[s], hp, ms, pth[s], mm[s])
      BY <1>1 DEF Contents
    <2>2. ASSUME NEW m \in DOMAIN objs[s]
          PROVE  Means(hp2[objs[s][m]], ms[m].size, pth[s], mm[s][m])
      <3>1. Means(hp[objs[s][m]], ms[m].size, pth[s], mm[s][m]) /\ pth[s] \subseteq Input
        BY <2>1 DEF Holding
      <3>2. CASE objs[s][m] # o
        BY <1>2, <1>6, <3>1, <3>2
      <3>3. CASE objs[s][m] = o
        <4>1. hp2[objs[s][m]] = new /\ SameMeaning(new, hp[o], ms[m].size)
          BY <1>2, <1>6, <3>3
        <4>2. \A i \in Offsets(ms[m].size), n \in pth[s] : ByteAt(new, i, n) = ByteAt(hp[o], i, n)
          BY <3>1, <4>1 DEF SameMeaning
        <4> QED BY <3>1, <3>3, <4>1, <4>2 DEF Means
      <3> QED BY <3>2, <3>3
    <2> QED BY <2>1, <2>2 DEF Holding
  <1>10. Contents(objs, hp2, ms, pth, mm)
    BY <1>1, <1>9 DEF Contents
  <1>11. Core(objs, hp2, ms, ky, nat, pth, mm)
    BY <1>5, <1>7, <1>8, <1>10 DEF Core
  <1> QED BY <1>11 DEF hp2

(***************************************************************************)
(* What the invariant says about one state and one of its objects          *)
(***************************************************************************)

\* The part of the invariant that the actions transform.
LEMMA InvCore ==
  ASSUME MemoryInv
  PROVE  Core(objects, heap, mos, key, native, path, mem) /\ Bindings(objects, heap, mos)
PROOF BY DEF MemoryInv, Core

\* What the invariant says of an object that a state binds.
LEMMA Here ==
  ASSUME MemoryInv, NEW s \in Alive, NEW m \in DOMAIN objects[s]
  PROVE  /\ objects[s][m] \in DOMAIN heap /\ objects[s][m] \in OS
         /\ heap[objects[s][m]].object = m /\ m \in DOMAIN mos /\ m \in MO
         /\ mos[m] \in MObject /\ mos[m].size \in Nat /\ mos[m].size <= MaxSize
         /\ WellFormed(heap[objects[s][m]], mos[m].size)
         /\ heap[objects[s][m]].readOnly <=> objects[s][m] = 1
         /\ m = 1 <=> objects[s][m] = 1
PROOF
  <1>1. s \in DOMAIN objects /\ Bindings(objects, heap, mos) /\ Constants(objects, heap, mos, native)
    BY DEF Alive, MemoryInv
  <1>2. objects[s][m] \in DOMAIN heap /\ objects[s][m] \in OS /\ heap[objects[s][m]].object = m
    BY <1>1 DEF Bindings
  <1>3. m \in DOMAIN mos /\ WellFormed(heap[objects[s][m]], mos[m].size) /\ mos[m] \in MObject /\ m \in MO
    BY <1>1, <1>2 DEF Bindings
  <1>4. mos[m].size \in Nat /\ mos[m].size <= MaxSize
    BY <1>3, Bounds DEF MObject
  <1>5. heap[objects[s][m]].readOnly <=> objects[s][m] = 1
    BY <1>1, <1>2 DEF Constants
  <1>6. 1 \in DOMAIN objects[s] /\ objects[s][1] = 1
    BY <1>1 DEF Constants
  <1>7. heap[objects[s][1]].object = 1
    BY <1>1, <1>6 DEF Bindings
  <1> QED BY <1>2, <1>3, <1>4, <1>5, <1>6, <1>7

\* What the invariant says of a state.
LEMMA StateHere ==
  ASSUME MemoryInv, NEW s \in Alive
  PROVE  /\ s \in State /\ s \in DOMAIN objects /\ key[s] \in Nat /\ key \in [Alive -> Nat]
         /\ Holding(objects[s], heap, mos, path[s], mem[s]) /\ path \in [Alive -> SUBSET Input]
         /\ path[s] \subseteq Input /\ DOMAIN mem = Alive /\ DOMAIN mem[s] = DOMAIN objects[s]
         /\ DOMAIN symbolics = Alive /\ symbolics[s] \in Seq(DOMAIN mos) /\ DOMAIN allocas = Alive
         /\ 1 \in DOMAIN heap /\ 1 \in DOMAIN mos /\ 1 \in DOMAIN objects[s] /\ objects[s][1] = 1
PROOF
  <1>1. s \in State /\ s \in DOMAIN objects /\ key[s] \in Nat /\ key \in [Alive -> Nat]
    BY DEF Alive, MemoryInv, Bindings, Owned
  <1>2. /\ Holding(objects[s], heap, mos, path[s], mem[s]) /\ path \in [Alive -> SUBSET Input]
        /\ DOMAIN mem = Alive
    BY <1>1 DEF Alive, MemoryInv, Contents
  <1>3. path[s] \subseteq Input /\ DOMAIN mem[s] = DOMAIN objects[s]
    BY <1>2 DEF Holding
  <1>4. DOMAIN symbolics = Alive /\ symbolics[s] \in Seq(DOMAIN mos) /\ DOMAIN allocas = Alive
    BY <1>1 DEF Alive, MemoryInv, Listing, Frames
  <1>5. 1 \in DOMAIN objects[s] /\ objects[s][1] = 1
    BY <1>1 DEF MemoryInv, Constants
  <1>6. 1 \in DOMAIN heap /\ 1 \in DOMAIN mos
    BY <1>5, Here
  <1> QED BY <1>1, <1>2, <1>3, <1>4, <1>5, <1>6

\* Free places are not in use.
LEMMA NewPlaces ==
  ASSUME MemoryInv, NEW s \in Alive, NEW a, NEW b, NEW c, Room(a, b, c)
  PROVE  /\ a = 1 => NewOS \in OS /\ NewOS \notin DOMAIN heap /\ NewOS # 1
         /\ b = 1 => NewMO \in MO /\ NewMO \notin DOMAIN mos /\ NewMO # 1
         /\ c = 1 => NewState \in State /\ NewState \notin Alive
PROOF
  <1>1. IsFiniteSet(OS \ DOMAIN heap) /\ IsFiniteSet(MO \ DOMAIN mos) /\ IsFiniteSet(State \ Alive)
    BY Bounds, FS_Difference
  <1>2. OS \ DOMAIN heap \subseteq Nat /\ MO \ DOMAIN mos \subseteq Nat /\ State \ Alive \subseteq Nat
    BY Bounds
  <1>3. 1 \in DOMAIN heap /\ 1 \in DOMAIN mos
    BY StateHere
  <1>4. a = 1 => NewOS \in OS \ DOMAIN heap
    <2> SUFFICES ASSUME a = 1 PROVE NewOS \in OS \ DOMAIN heap
      OBVIOUS
    <2>1. Cardinality(OS \ DOMAIN heap) >= 1
      BY DEF Room
    <2> QED BY <1>1, <1>2, <2>1, LeastFree DEF NewOS
  <1>5. b = 1 => NewMO \in MO \ DOMAIN mos
    <2> SUFFICES ASSUME b = 1 PROVE NewMO \in MO \ DOMAIN mos
      OBVIOUS
    <2>1. Cardinality(MO \ DOMAIN mos) >= 1
      BY DEF Room
    <2> QED BY <1>1, <1>2, <2>1, LeastFree DEF NewMO
  <1>6. c = 1 => NewState \in State \ Alive
    <2> SUFFICES ASSUME c = 1 PROVE NewState \in State \ Alive
      OBVIOUS
    <2>1. Cardinality(State \ Alive) >= 1
      BY DEF Room
    <2> QED BY <1>1, <1>2, <2>1, LeastFree DEF NewState
  <1> QED BY <1>3, <1>4, <1>5, <1>6

\* Commit of an operation that lists nothing.
LEMMA QuietCommit ==
  ASSUME MemoryInv, NEW objs, NEW hp, NEW ms, Commit(objs, hp, ms, Unlisted), Operation,
         Core(objs, hp, ms, key', native', path', mem'), Frames(objs, ms, allocas'),
         Grows(hp), symbolics' = symbolics, DOMAIN objs = DOMAIN objects,
         DOMAIN mos \subseteq DOMAIN ms, Layout(ms, slot'), fault' = fault
  PROVE  MemoryInv'
PROOF
  <1>1. /\ ops < MaxOps /\ ops' = ops + 1 /\ fault = "none" /\ determ' = determ
    BY DEF Operation
  <1>2. Listing(objects, mos, symbolics, ops)
    BY DEF MemoryInv
  <1>3. ops' \in 0 .. MaxOps /\ ops <= ops' /\ ops \in Nat
    BY <1>1, <1>2, Bounds DEF Listing
  <1>4. Listing(objs, ms, symbolics', ops')
    <2>1. ASSUME NEW s \in DOMAIN objs
          PROVE  symbolics'[s] \in Seq(DOMAIN ms) /\ Len(symbolics'[s]) <= ops'
      <3>1. symbolics[s] \in Seq(DOMAIN mos) /\ Len(symbolics[s]) <= ops
        BY <1>2 DEF Listing
      <3>2. symbolics[s] \in Seq(DOMAIN ms) /\ Len(symbolics[s]) \in Nat
        BY <3>1
      <3> QED BY <1>3, <3>1, <3>2
    <2>2. DOMAIN symbolics' = DOMAIN objs
      BY <1>2 DEF Listing
    <2> QED BY <1>3, <2>1, <2>2 DEF Listing
  <1>5. Tally(Unlisted, symbolics')
    BY ListsFinite DEF Tally, Unlisted
  <1> QED BY <1>1, <1>4, <1>5, CommitKeeps

\* No object state is added.
LEMMA GrowsItself == Grows(heap)
PROOF BY DEF Grows

\* The bytes at an offset in bounds are bytes of the object.
LEMMA InBoundsOffset ==
  ASSUME MemoryInv, NEW m \in DOMAIN mos, NEW n \in Nat \ {0}, NEW e \in InBounds(m, n)
  PROVE  /\ OffsetOf(e, mos[m].size) /\ e \in Expr
         /\ \A x \in Input : e.at[x] + n <= mos[m].size /\ e.at[x] \in Nat
PROOF
  <1>1. mos[m].size \in Nat
    BY Bounds DEF MemoryInv, Bindings, MObject
  <1>2. /\ e \in {Constant(i) : i \in 0 .. MaxSize - 1} \cup {Symbol}
        /\ \A x \in Input : e.at[x] + n <= mos[m].size
    BY DEF InBounds
  <1>3. e \in Expr
    <2>1. CASE e = Symbol
      <3>1. \A x \in Input : x.x \in Nat
        BY DEF Input, Byte
      <3> QED BY <2>1, <3>1 DEF Symbol, Expr
    <2>2. CASE e \in {Constant(i) : i \in 0 .. MaxSize - 1}
      <3>1. PICK i \in 0 .. MaxSize - 1 : e = Constant(i)
        BY <2>2
      <3> QED BY <3>1, Bounds, ConstantValue
    <2> QED BY <1>2, <2>1, <2>2
  <1>4. \A x \in Input : e.at[x] \in Nat
    BY <1>3, ExprValue
  <1> QED BY <1>1, <1>2, <1>3, <1>4 DEF OffsetOf, Offsets

(***************************************************************************)
(* The operations that keep the objects of a state                         *)
(***************************************************************************)

\* An object state that is shared changes in place, and means what it did.
LEMMA InPlaceKeeps ==
  ASSUME MemoryInv, Operation, NEW s \in Alive, NEW m \in DOMAIN objects[s], NEW new,
         SameMeaning(new, heap[objects[s][m]], mos[m].size),
         m = 1 => /\ new.store = heap[objects[s][m]].store
                  /\ DOMAIN new.known = DOMAIN heap[objects[s][m]].known,
         Commit(objects, [heap EXCEPT ![objects[s][m]] = new], mos, Unlisted),
         UNCHANGED <<perState, symbolics, slot, native, mem, fault>>
  PROVE  MemoryInv'
PROOF
  <1> DEFINE o == objects[s][m]
             hp == [heap EXCEPT ![o] = new]
  <1>1. o \in DOMAIN heap /\ heap[o].object = m /\ (m = 1 <=> o = 1)
    BY Here
  <1>2. Core(objects, heap, mos, key, native, path, mem)
    BY InvCore
  <1>3. DOMAIN hp = DOMAIN heap
    OBVIOUS
  <1>4. o = 1 => new.store = heap[o].store /\ DOMAIN new.known = DOMAIN heap[o].known
    BY <1>1
  <1>5. SameMeaning(new, heap[o], mos[heap[o].object].size)
    BY <1>1
  <1> HIDE DEF o
  <1>6. /\ Core(objects, hp, mos, key, native, path, mem)
        /\ \A x \in DOMAIN heap : hp[x].object = heap[x].object
    <2>1. Core(objects, hp, mos, key, native, path, mem)
      BY <1>1, <1>2, <1>4, <1>5, SameInPlace
    <2>2. new.object = heap[o].object
      BY <1>5 DEF SameMeaning
    <2> QED BY <2>1, <2>2
  <1>7. Commit(objects, hp, mos, Unlisted)
    BY DEF o
  <1> HIDE DEF hp
  <1>8. Grows(hp)
    BY <1>3, <1>6 DEF Grows
  <1>9. /\ key' = key /\ allocas' = allocas /\ path' = path /\ symbolics' = symbolics /\ slot' = slot
        /\ native' = native /\ mem' = mem /\ fault' = fault
    BY DEF perState
  <1>10. Frames(objects, mos, allocas') /\ Layout(mos, slot')
    BY <1>9 DEF MemoryInv
  <1>11. Core(objects, hp, mos, key', native', path', mem')
    BY <1>6, <1>9
  <1> QED BY <1>7, <1>8, <1>9, <1>10, <1>11, QuietCommit

\* A state writes to an object state of its own, in place or in a copy.
LEMMA ChangeKeeps ==
  ASSUME MemoryInv, Operation, NEW s \in Alive, NEW m \in DOMAIN objects[s], m # 1, NEW o \in OS,
         o # 1, Own(objects, heap, key, s, m, o), NEW os, Mine(os, m, mos[m].size, key[s]),
         NEW c, Means(os, mos[m].size, path[s], c),
         Commit(bindObject(objects, s, m, o), Set(heap, o, os), mos, Unlisted),
         mem' = [mem EXCEPT ![s] = Set(@, m, c)],
         UNCHANGED <<perState, symbolics, slot, native, fault>>
  PROVE  MemoryInv'
PROOF
  <1> DEFINE objs == bindObject(objects, s, m, o)
             hp == Set(heap, o, os)
             mm == [mem EXCEPT ![s] = Set(@, m, c)]
  <1>1. s \in DOMAIN objects /\ m \in DOMAIN mos
    BY StateHere, Here
  <1>2. Core(objects, heap, mos, key, native, path, mem) /\ Extends(mos, mos)
    BY InvCore, ExtendsItself
  <1>3. Grows(hp)
    BY BoundOneGrows DEF Mine
  <1>4. /\ DOMAIN objs = DOMAIN objects /\ objs[s] = Set(objects[s], m, o)
        /\ \A t \in DOMAIN objects \ {s} : objs[t] = objects[t]
    BY <1>1 DEF bindObject
  <1>5. DOMAIN objects[s] \subseteq DOMAIN objs[s]
    BY <1>4 DEF Set
  <1>6. Core(objs, hp, mos, key, native, path, mm)
    BY <1>1, <1>2, BoundOne
  <1>7. Commit(objs, hp, mos, Unlisted) /\ mem' = mm
    OBVIOUS
  <1> HIDE DEF objs, hp, mm
  <1>8. /\ key' = key /\ allocas' = allocas /\ path' = path /\ symbolics' = symbolics /\ slot' = slot
        /\ native' = native /\ fault' = fault
    BY DEF perState
  <1>9. Layout(mos, slot')
    BY <1>8 DEF MemoryInv
  <1>10. Frames(objs, mos, allocas')
    <2>1. Frames(objects, mos, allocas)
      BY DEF MemoryInv
    <2> QED BY <1>4, <1>5, <1>8, <2>1 DEF Frames
  <1>11. Core(objs, hp, mos, key', native', path', mem')
    BY <1>6, <1>7, <1>8
  <1> QED BY <1>3, <1>4, <1>7, <1>8, <1>9, <1>10, <1>11, QuietCommit

\* A load.
LEMMA LoadKeeps ==
  ASSUME MemoryInv, NEW s, Load(s)
  PROVE  MemoryInv'
PROOF
  <1>1. s \in Alive /\ Operation
    BY DEF Load, Ready
  <1>2. PICK m \in DOMAIN objects[s] : \E e \in InBounds(m, 1) :
          Commit(objects, [heap EXCEPT ![objects[s][m]] = AfterRead(@, e)], mos, Unlisted)
    BY DEF Load
  <1>3. PICK e \in InBounds(m, 1) :
          Commit(objects, [heap EXCEPT ![objects[s][m]] = AfterRead(@, e)], mos, Unlisted)
    BY <1>2
  <1> DEFINE os == heap[objects[s][m]]
  <1>4. /\ objects[s][m] \in DOMAIN heap /\ m \in DOMAIN mos /\ mos[m].size \in Nat
        /\ mos[m].size <= MaxSize /\ WellFormed(os, mos[m].size)
    BY <1>1, Here
  <1>5. OffsetOf(e, mos[m].size)
    BY <1>4, InBoundsOffset
  <1>6. [heap EXCEPT ![objects[s][m]] = AfterRead(@, e)]
          = [heap EXCEPT ![objects[s][m]] = AfterRead(os, e)]
    BY <1>4
  <1> HIDE DEF os
  <1>7. /\ SameMeaning(AfterRead(os, e), os, mos[m].size)
        /\ AfterRead(os, e).store = os.store /\ AfterRead(os, e).known = os.known
    BY <1>4, <1>5, ReadMeaning
  <1>8. Commit(objects, [heap EXCEPT ![objects[s][m]] = AfterRead(os, e)], mos, Unlisted)
    BY <1>3, <1>6
  <1>9. UNCHANGED <<perState, symbolics, slot, native, mem, fault>>
    BY DEF Load
  <1> QED BY <1>1, <1>7, <1>8, <1>9, InPlaceKeeps DEF os

\* Passing a pointer to native code: the concrete store behind a symbolic byte is
\* not what the byte means.
LEMMA PassPointerKeeps ==
  ASSUME MemoryInv, NEW s, PassPointer(s)
  PROVE  MemoryInv'
PROOF
  <1>1. s \in Alive /\ Operation
    BY DEF PassPointer, Ready
  <1>2. PICK m \in DOMAIN objects[s] : \E in \in path[s] :
          Commit(objects, [heap EXCEPT ![objects[s][m]] = flushToConcreteStore(@, in)], mos, Unlisted)
    BY DEF PassPointer
  <1>3. PICK in \in path[s] :
          Commit(objects, [heap EXCEPT ![objects[s][m]] = flushToConcreteStore(@, in)], mos, Unlisted)
    BY <1>2
  <1> DEFINE os == heap[objects[s][m]]
             size == mos[m].size
             st == [i \in Offsets(size) |-> IF i \in DOMAIN os.known THEN os.known[i].at[in] ELSE os.store[i]]
             new == [os EXCEPT !.store = st]
  <1>4. /\ objects[s][m] \in DOMAIN heap /\ size \in Nat /\ WellFormed(os, size)
        /\ (m = 1 => objects[s][m] = 1)
    BY <1>1, Here
  <1>5. in \in Input
    BY <1>1, StateHere
  <1>6. os \in Shape(size) /\ Coherent(os)
    BY <1>4 DEF WellFormed
  <1> HIDE DEF os, size
  <1>7. /\ os.store \in [Offsets(size) -> Nat] /\ os.known \in [DOMAIN os.known -> Expr]
    BY <1>6, ShapeFields
  <1>8. st \in [Offsets(size) -> Nat]
    <2>1. \A i \in DOMAIN os.known : os.known[i].at[in] \in Nat
      BY <1>5, <1>7, ExprValue
    <2> QED BY <1>7, <2>1
  <1>9. flushToConcreteStore(os, in) = new
    BY <1>7 DEF flushToConcreteStore
  <1>10. \A i \in os.concrete : i \notin DOMAIN os.known
    BY <1>6 DEF Coherent
  <1>11. \A i \in os.concrete : i \in Offsets(size)
    BY <1>6, ShapeFields
  <1>12. \A i \in os.concrete : st[i] = os.store[i]
    BY <1>10, <1>11
  <1> HIDE DEF st
  <1>13. /\ WellFormed(new, size) /\ new.known = os.known
         /\ new.object = os.object /\ new.owner = os.owner /\ new.readOnly = os.readOnly
         /\ \A i \in Offsets(size), n \in Input :
              ByteAt(new, i, n) = IF i \in os.concrete THEN st[i] ELSE ByteAt(os, i, n)
    BY <1>4, <1>8, <1>12, StoreChanged
  <1>14. \A i \in Offsets(size), n \in Input : ByteAt(new, i, n) = ByteAt(os, i, n)
    BY <1>12, <1>13 DEF ByteAt
  <1>15. SameMeaning(new, os, size)
    BY <1>13, <1>14 DEF SameMeaning
  <1>16. m = 1 => new.store = os.store
    <2>1. SUFFICES ASSUME m = 1 PROVE new.store = os.store
      OBVIOUS
    <2>2. DOMAIN os.known = {}
      <3>1. Constants(objects, heap, mos, native) /\ 1 \in DOMAIN heap
        BY <1>1, StateHere DEF MemoryInv
      <3> QED BY <1>4, <2>1, <3>1 DEF Constants, os
    <2>3. st = os.store
      BY <1>7, <2>2 DEF st
    <2>4. new.store = st
      BY <1>6 DEF Shape
    <2> QED BY <2>3, <2>4
  <1>17. [heap EXCEPT ![objects[s][m]] = flushToConcreteStore(@, in)]
           = [heap EXCEPT ![objects[s][m]] = new]
    BY <1>4, <1>9 DEF os
  <1> HIDE DEF new
  <1>18. Commit(objects, [heap EXCEPT ![objects[s][m]] = new], mos, Unlisted)
    BY <1>3, <1>17
  <1>19. UNCHANGED <<perState, symbolics, slot, native, mem, fault>>
    BY DEF PassPointer
  <1> QED BY <1>1, <1>13, <1>15, <1>16, <1>18, <1>19, InPlaceKeeps DEF os, size

\* ObjectState(const ObjectState &).
LEMMA CopiedMeaning ==
  ASSUME NEW size \in Nat, NEW os, WellFormed(os, size), NEW k \in Nat
  PROVE  /\ Mine(Copied(os, k), os.object, size, k)
         /\ \A i \in Offsets(size), n \in Input : ByteAt(Copied(os, k), i, n) = ByteAt(os, i, n)
PROOF
  <1>1. os \in Shape(size)
    BY DEF WellFormed
  <1>2. PICK m \in Nat : m = os.object
    BY <1>1, ShapeFields
  <1>3. PICK r \in BOOLEAN : r = FALSE
    OBVIOUS
  <1> DEFINE new == Relabel(os, m, k, r)
  <1>4. Copied(os, k) = new
    BY <1>1, <1>2, <1>3 DEF Copied, Shape, Relabel
  <1>5. /\ WellFormed(new, size) /\ new.object = m /\ new.owner = k /\ new.readOnly = r
        /\ \A i \in Offsets(size), n \in Input : ByteAt(new, i, n) = ByteAt(os, i, n)
    BY Relabelled
  <1> HIDE DEF new
  <1> QED BY <1>2, <1>3, <1>4, <1>5 DEF Mine

\* getWriteable: what is owned, and a copy, mean what the object holds.
LEMMA WriteableMeaning ==
  ASSUME MemoryInv, NEW s \in Alive, NEW m \in DOMAIN objects[s], m # 1
  PROVE  /\ Mine(Copied(heap[objects[s][m]], key[s]), m, mos[m].size, key[s])
         /\ Means(Copied(heap[objects[s][m]], key[s]), mos[m].size, path[s], mem[s][m])
         /\ Means(heap[objects[s][m]], mos[m].size, path[s], mem[s][m])
         /\ Owns(s, objects[s][m]) => Mine(heap[objects[s][m]], m, mos[m].size, key[s])
PROOF
  <1> DEFINE os == heap[objects[s][m]]
             size == mos[m].size
  <1>1. /\ os.object = m /\ size \in Nat /\ WellFormed(os, size) /\ (os.readOnly <=> m = 1)
    BY Here
  <1>2. key[s] \in Nat /\ path[s] \subseteq Input /\ Holding(objects[s], heap, mos, path[s], mem[s])
    BY StateHere
  <1>3. Means(os, size, path[s], mem[s][m])
    BY <1>2 DEF Holding
  <1> HIDE DEF os, size
  <1>4. /\ Mine(Copied(os, key[s]), m, size, key[s])
        /\ \A i \in Offsets(size), n \in Input : ByteAt(Copied(os, key[s]), i, n) = ByteAt(os, i, n)
    BY <1>1, <1>2, CopiedMeaning
  <1>5. Means(Copied(os, key[s]), size, path[s], mem[s][m])
    BY <1>2, <1>3, <1>4 DEF Means
  <1>6. os.readOnly \in BOOLEAN
    BY <1>1, ShapeFields DEF WellFormed
  <1>7. Owns(s, objects[s][m]) => Mine(os, m, size, key[s])
    BY <1>1, <1>6 DEF Owns, Mine, os
  <1> QED BY <1>3, <1>4, <1>5, <1>7 DEF os, size

\* The contents of an object after a store.
LEMMA StoredMeaning ==
  ASSUME NEW size \in Nat, NEW os, NEW m, NEW k, Mine(os, m, size, k), NEW in, in \subseteq Input,
         NEW c, Means(os, size, in, c), NEW bytes \in Seq(Expr), Len(bytes) >= 1,
         NEW e, OffsetOf(e, size), \A n \in Input : e.at[n] + Len(bytes) <= size
  PROVE  /\ Mine(write(os, e, bytes), m, size, k)
         /\ Means(write(os, e, bytes), size, in, Stored(c, e, bytes))
PROOF
  <1> DEFINE w == write(os, e, bytes)
  <1>1. WellFormed(os, size)
    BY DEF Mine
  <1>2. /\ WellFormed(w, size)
        /\ w.object = os.object /\ w.owner = os.owner /\ w.readOnly = os.readOnly
        /\ \A i \in Offsets(size), n \in Input : ByteAt(w, i, n) = Written(os, e, bytes, i, n)
    BY <1>1, WriteMeaning
  <1> HIDE DEF w
  <1>3. Mine(w, m, size, k)
    BY <1>2 DEF Mine
  <1>4. c \in [Offsets(size) -> [Input -> Nat]] /\ \A i \in Offsets(size), n \in in : c[i][n] = ByteAt(os, i, n)
    BY DEF Means
  <1> DEFINE d == Stored(c, e, bytes)
  <1>5. /\ DOMAIN d = Offsets(size) /\ d = [i \in Offsets(size) |-> d[i]]
        /\ \A i \in Offsets(size) : d[i] = [n \in Input |->
             IF i - e.at[n] + 1 \in DOMAIN bytes THEN bytes[i - e.at[n] + 1].at[n] ELSE c[i][n]]
    BY <1>4 DEF Stored
  <1> HIDE DEF d
  <1>6. ASSUME NEW i \in Offsets(size), NEW n \in Input
        PROVE  /\ d[i][n] = IF i - e.at[n] + 1 \in DOMAIN bytes THEN bytes[i - e.at[n] + 1].at[n] ELSE c[i][n]
               /\ d[i][n] \in Nat
    <2>1. d[i][n] = IF i - e.at[n] + 1 \in DOMAIN bytes THEN bytes[i - e.at[n] + 1].at[n] ELSE c[i][n]
      BY <1>5
    <2>2. \A x \in DOMAIN bytes : bytes[x] \in Expr
      OBVIOUS
    <2>3. \A x \in DOMAIN bytes : bytes[x].at[n] \in Nat
      BY <2>2, ExprValue
    <2>4. c[i][n] \in Nat
      BY <1>4
    <2> QED BY <2>1, <2>3, <2>4
  <1>7. d \in [Offsets(size) -> [Input -> Nat]]
    <2>1. \A i \in Offsets(size) : d[i] \in [Input -> Nat]
      BY <1>5, <1>6
    <2> QED BY <1>5, <2>1
  <1>8. ASSUME NEW i \in Offsets(size), NEW n \in in
        PROVE  d[i][n] = ByteAt(w, i, n)
    <2>1. n \in Input /\ c[i][n] = ByteAt(os, i, n) /\ ByteAt(w, i, n) = Written(os, e, bytes, i, n)
      BY <1>2, <1>4
    <2> QED BY <1>6, <2>1 DEF Written
  <1>9. Means(w, size, in, d)
    BY <1>7, <1>8 DEF Means
  <1> QED BY <1>3, <1>9 DEF w, d

\* getWriteable, in one of its two outcomes.
LEMMA BindsItself ==
  ASSUME MemoryInv, NEW s \in Alive, NEW m \in DOMAIN objects[s], NEW os
  PROVE  /\ bindObject(objects, s, m, objects[s][m]) = objects
         /\ [heap EXCEPT ![objects[s][m]] = os] = Set(heap, objects[s][m], os)
PROOF
  <1>1. s \in DOMAIN objects /\ objects[s][m] \in DOMAIN heap
    BY Here, StateHere
  <1>2. /\ objects = [t \in DOMAIN objects |-> objects[t]]
        /\ objects[s] = [k \in DOMAIN objects[s] |-> objects[s][k]]
    BY <1>1 DEF MemoryInv, Bindings
  <1>3. Set(objects[s], m, objects[s][m]) = objects[s]
    <2>1. DOMAIN objects[s] \cup {m} = DOMAIN objects[s]
      OBVIOUS
    <2>2. Set(objects[s], m, objects[s][m]) = [k \in DOMAIN objects[s] |-> objects[s][k]]
      BY <2>1 DEF Set
    <2> QED BY <1>2, <2>2
  <1>4. bindObject(objects, s, m, objects[s][m]) = objects
    BY <1>1, <1>2, <1>3 DEF bindObject
  <1>5. [heap EXCEPT ![objects[s][m]] = os] = Set(heap, objects[s][m], os)
    BY <1>1 DEF Set
  <1> QED BY <1>4, <1>5

\* A store.
LEMMA StoreKeeps ==
  ASSUME MemoryInv, NEW s, Store(s)
  PROVE  MemoryInv'
PROOF
  <1>1. s \in Alive /\ Operation /\ UNCHANGED <<perState, symbolics, slot, native, fault>>
    BY DEF Store, Ready
  <1>2. PICK m \in DOMAIN objects[s], n \in 1 .. 2 :
          \E e \in InBounds(m, n), bytes \in [1 .. n -> Values] :
            /\ ~heap[objects[s][m]].readOnly
            /\ Change(s, m, LAMBDA os : write(os, e, bytes))
            /\ mem' = [mem EXCEPT ![s][m] = Stored(@, e, bytes)]
    BY DEF Store
  <1>3. PICK e \in InBounds(m, n), bytes \in [1 .. n -> Values] :
            /\ ~heap[objects[s][m]].readOnly
            /\ Change(s, m, LAMBDA os : write(os, e, bytes))
            /\ mem' = [mem EXCEPT ![s][m] = Stored(@, e, bytes)]
    BY <1>2
  <1> DEFINE o == objects[s][m]
             size == mos[m].size
             c == Stored(mem[s][m], e, bytes)
  <1>4. /\ o \in DOMAIN heap /\ o \in OS /\ m \in DOMAIN mos /\ size \in Nat /\ m # 1 /\ o # 1
    BY <1>1, <1>3, Here
  <1>5. bytes \in Seq(Expr) /\ Len(bytes) = n /\ n \in Nat \ {0} /\ Len(bytes) >= 1
    <2>1. Values \subseteq Expr
      <3>1. \A x \in Input : x.x \in Nat
        BY DEF Input, Byte
      <3>2. Symbol \in Expr
        BY <3>1 DEF Symbol, Expr
      <3> QED BY <3>2, ConstantValue DEF Values
    <2> QED BY <2>1
  <1>6. OffsetOf(e, size) /\ \A x \in Input : e.at[x] + Len(bytes) <= size
    BY <1>4, <1>5, InBoundsOffset
  <1>7. s \in DOMAIN mem /\ m \in DOMAIN mem[s] /\ path[s] \subseteq Input
    BY <1>1, StateHere
  <1>8. mem' = [mem EXCEPT ![s] = Set(@, m, c)]
    <2>1. mem' = [mem EXCEPT ![s] = [mem[s] EXCEPT ![m] = c]]
      BY <1>3, <1>7
    <2>2. [mem[s] EXCEPT ![m] = c] = Set(mem[s], m, c)
      BY <1>7 DEF Set
    <2> HIDE DEF c
    <2> QED BY <1>7, <2>1, <2>2
  <1> HIDE DEF c
  <1>9. ASSUME NEW os, Mine(os, m, size, key[s]), Means(os, size, path[s], mem[s][m])
        PROVE  Mine(write(os, e, bytes), m, size, key[s]) /\ Means(write(os, e, bytes), size, path[s], c)
    BY <1>4, <1>5, <1>6, <1>7, <1>9, StoredMeaning DEF c
  <1>10. CASE Owns(s, o)
    <2>1. Commit(objects, [heap EXCEPT ![o] = write(heap[o], e, bytes)], mos, Unlisted)
      BY <1>3, <1>10 DEF Change
    <2>2. Commit(bindObject(objects, s, m, o), Set(heap, o, write(heap[o], e, bytes)), mos, Unlisted)
      BY <1>1, <2>1, BindsItself
    <2>3. Own(objects, heap, key, s, m, o)
      BY <1>10 DEF Own, Owns
    <2>4. Mine(heap[o], m, size, key[s]) /\ Means(heap[o], size, path[s], mem[s][m])
      BY <1>1, <1>4, <1>10, WriteableMeaning
    <2> HIDE DEF o
    <2>5. Mine(write(heap[o], e, bytes), m, size, key[s]) /\ Means(write(heap[o], e, bytes), size, path[s], c)
      BY <1>9, <2>4
    <2> QED BY <1>1, <1>4, <1>8, <2>2, <2>3, <2>5, ChangeKeeps
  <1>11. CASE ~Owns(s, o)
    <2> DEFINE new == Copied(heap[o], key[s])
    <2>1. /\ Room(1, 0, 0)
          /\ Commit(bindObject(objects, s, m, NewOS), Set(heap, NewOS, write(new, e, bytes)), mos, Unlisted)
      BY <1>3, <1>11 DEF Change
    <2>2. NewOS \in OS /\ NewOS # 1 /\ NewOS \notin DOMAIN heap
      BY <1>1, <2>1, NewPlaces
    <2>3. Own(objects, heap, key, s, m, NewOS)
      BY <2>2 DEF Own
    <2>4. Mine(new, m, size, key[s]) /\ Means(new, size, path[s], mem[s][m])
      BY <1>1, <1>4, WriteableMeaning
    <2> HIDE DEF o, new
    <2>5. Mine(write(new, e, bytes), m, size, key[s]) /\ Means(write(new, e, bytes), size, path[s], c)
      BY <1>9, <2>4
    <2> QED BY <1>1, <1>4, <1>8, <2>1, <2>2, <2>3, <2>5, ChangeKeeps
  <1> QED BY <1>10, <1>11

\* The expected contents change outside the path of the state, or not at all.
LEMMA SameContents ==
  ASSUME MemoryInv, NEW s \in Alive, NEW m \in DOMAIN objects[s], NEW c,
         Means(heap[objects[s][m]], mos[m].size, path[s], c)
  PROVE  Core(objects, heap, mos, key, native, path, [mem EXCEPT ![s] = Set(@, m, c)])
PROOF
  <1> DEFINE mm == [mem EXCEPT ![s] = Set(@, m, c)]
             d == Set(mem[s], m, c)
  <1>1. /\ Bindings(objects, heap, mos) /\ Owned(objects, heap, key)
        /\ Constants(objects, heap, mos, native) /\ Contents(objects, heap, mos, path, mem)
    BY DEF MemoryInv
  <1>2. /\ s \in DOMAIN objects /\ Holding(objects[s], heap, mos, path[s], mem[s])
        /\ DOMAIN mem = DOMAIN objects
    BY StateHere DEF Alive
  <1>3. /\ DOMAIN d = DOMAIN mem[s] \cup {m} /\ d[m] = c /\ d = [k \in DOMAIN d |-> d[k]]
        /\ \A k \in DOMAIN mem[s] : k # m => d[k] = mem[s][k]
    BY DEF Set
  <1>4. /\ DOMAIN mm = DOMAIN objects /\ mm[s] = d /\ mm = [t \in DOMAIN mm |-> mm[t]]
        /\ \A t \in DOMAIN objects \ {s} : mm[t] = mem[t]
    BY <1>2
  <1> HIDE DEF mm, d
  <1>5. Holding(objects[s], heap, mos, path[s], d)
    BY <1>2, <1>3 DEF Holding
  <1>6. \A t \in DOMAIN objects : Holding(objects[t], heap, mos, path[t], mm[t])
    BY <1>1, <1>4, <1>5 DEF Contents
  <1>7. Contents(objects, heap, mos, path, mm)
    BY <1>1, <1>4, <1>6 DEF Contents
  <1> QED BY <1>1, <1>7 DEF Core, mm

\* One byte of the concrete store changes: what native code did to it.
LEMMA TouchedMeaning ==
  ASSUME NEW size \in Nat, NEW os, NEW m, NEW k, Mine(os, m, size, k), NEW in, in \subseteq Input,
         NEW c, Means(os, size, in, c), NEW i \in Offsets(size), NEW v \in Nat,
         i \notin os.flushed \cap os.concrete
  PROVE  /\ Mine([os EXCEPT !.store[i] = v], m, size, k)
         /\ Means([os EXCEPT !.store[i] = v], size, in,
                  IF i \in os.concrete THEN [c EXCEPT ![i] = Constant(v).at] ELSE c)
PROOF
  <1> DEFINE st == [os.store EXCEPT ![i] = v]
             new == [os EXCEPT !.store = st]
             d == IF i \in os.concrete THEN [c EXCEPT ![i] = Constant(v).at] ELSE c
  <1>1. WellFormed(os, size) /\ os \in Shape(size)
    BY DEF Mine, WellFormed
  <1>2. os.store \in [Offsets(size) -> Nat]
    BY <1>1, ShapeFields
  <1>3. st \in [Offsets(size) -> Nat] /\ st[i] = v /\ \A j \in Offsets(size) \ {i} : st[j] = os.store[j]
    BY <1>2
  <1>4. [os EXCEPT !.store[i] = v] = new
    BY <1>1, <1>2 DEF Shape
  <1>5. \A j \in os.concrete \cap os.flushed : st[j] = os.store[j]
    BY <1>1, <1>3, ShapeFields
  <1> HIDE DEF st
  <1>6. /\ WellFormed(new, size)
        /\ new.object = os.object /\ new.owner = os.owner /\ new.readOnly = os.readOnly
        /\ \A j \in Offsets(size), n \in Input :
             ByteAt(new, j, n) = IF j \in os.concrete THEN st[j] ELSE ByteAt(os, j, n)
    BY <1>1, <1>3, <1>5, StoreChanged
  <1> HIDE DEF new
  <1>7. Mine(new, m, size, k)
    BY <1>6 DEF Mine
  <1>8. c \in [Offsets(size) -> [Input -> Nat]] /\ \A j \in Offsets(size), n \in in : c[j][n] = ByteAt(os, j, n)
    BY DEF Means
  <1>9. Constant(v).at \in [Input -> Nat] /\ \A n \in Input : Constant(v).at[n] = v
    BY DEF Constant
  <1>10. d \in [Offsets(size) -> [Input -> Nat]]
    BY <1>8, <1>9
  <1>11. ASSUME NEW j \in Offsets(size), NEW n \in in
         PROVE  d[j][n] = ByteAt(new, j, n)
    <2>1. n \in Input /\ c[j][n] = ByteAt(os, j, n)
      BY <1>8
    <2>2. j \in os.concrete => ByteAt(os, j, n) = os.store[j]
      BY DEF ByteAt
    <2>3. CASE j = i
      <3>1. CASE i \in os.concrete
        BY <1>3, <1>6, <1>8, <1>9, <2>1, <2>3, <3>1
      <3>2. CASE i \notin os.concrete
        BY <1>6, <2>1, <2>3, <3>2
      <3> QED BY <3>1, <3>2
    <2>4. CASE j # i
      <3>1. d[j] = c[j] /\ st[j] = os.store[j]
        BY <1>3, <1>8, <2>4
      <3> HIDE DEF d
      <3> QED BY <1>6, <2>1, <2>2, <3>1
    <2> QED BY <2>3, <2>4
  <1>12. Means(new, size, in, d)
    BY <1>10, <1>11 DEF Means
  <1> QED BY <1>4, <1>7, <1>12

\* A native function that changes nothing it should not.
LEMMA CallExternalKeeps ==
  ASSUME MemoryInv, Careful, NEW s, CallExternal(s)
  PROVE  MemoryInv'
PROOF
  <1>1. s \in Alive /\ Operation /\ UNCHANGED <<perState, symbolics, slot, fault>>
    BY DEF CallExternal, Ready
  <1>2. PICK t \in Touches :
       LET m == t[1]  i == t[2]  v == t[3]
           os == heap[objects[s][m]]
           nat == IF os.readOnly THEN [native EXCEPT ![m][i] = v] ELSE native
       IN  /\ m \in DOMAIN objects[s] /\ Allowed(os, i)
           /\ native' = nat
           /\ IF os.readOnly \/ os.store[i] = v \/ Stopped(s, nat, m)
              THEN Commit(objects, heap, mos, Unlisted)
              ELSE Changed(s, m, i, v)
           /\ mem' = IF i \in os.concrete /\ ~os.readOnly
                     THEN [mem EXCEPT ![s][m][i] = Constant(v).at] ELSE mem
    BY DEF CallExternal
  <1> DEFINE m == t[1]
             i == t[2]
             v == t[3]
             o == objects[s][m]
             os == heap[o]
             size == mos[m].size
             d == IF i \in os.concrete THEN [mem[s][m] EXCEPT ![i] = Constant(v).at] ELSE mem[s][m]
  <1>3. t \in MO \X (0 .. MaxSize - 1) \X Byte /\ m \in DOMAIN mos /\ i < size
    BY DEF Touches
  <1>4. v \in Nat /\ i \in Nat /\ m \in DOMAIN objects[s]
    BY <1>2, <1>3, Bounds DEF Byte
  <1>5. /\ o \in DOMAIN heap /\ o \in OS /\ os.object = m /\ size \in Nat /\ WellFormed(os, size)
        /\ (os.readOnly <=> o = 1) /\ (m = 1 <=> o = 1)
    BY <1>1, <1>4, Here
  <1>6. ~os.readOnly /\ i \notin os.flushed \cap os.concrete
    BY <1>2 DEF Allowed, Careful
  <1>7. native' = native
    BY <1>2, <1>6
  <1>8. ~Stopped(s, native, m)
    <2>1. SUFFICES ASSUME NEW k \in DOMAIN objects[s], heap[objects[s][k]].readOnly
                   PROVE  native[k] = heap[objects[s][k]].store
      BY DEF Stopped
    <2>2. k = 1 /\ objects[s][k] = 1
      BY <1>1, <2>1, Here
    <2>3. Constants(objects, heap, mos, native) /\ 1 \in DOMAIN heap
      BY <1>1, StateHere DEF MemoryInv
    <2> QED BY <2>2, <2>3 DEF Constants
  <1>9. s \in DOMAIN mem /\ m \in DOMAIN mem[s] /\ path[s] \subseteq Input /\ i \in Offsets(size)
    BY <1>1, <1>3, <1>4, <1>5, StateHere DEF Offsets
  <1>10. /\ mem = [u \in DOMAIN mem |-> mem[u]] /\ mem[s] = [k \in DOMAIN mem[s] |-> mem[s][k]]
    BY <1>1, <1>9, StateHere DEF MemoryInv, Contents, Holding, Alive
  <1>11. mem' = IF i \in os.concrete THEN [mem EXCEPT ![s][m][i] = Constant(v).at] ELSE mem
    BY <1>2, <1>6
  <1>12. IF os.store[i] = v THEN Commit(objects, heap, mos, Unlisted) ELSE Changed(s, m, i, v)
    BY <1>2, <1>6, <1>8
  <1>13. mem' = [mem EXCEPT ![s] = Set(@, m, d)]
    <2>1. CASE i \in os.concrete
      <3>1. mem' = [mem EXCEPT ![s] = [mem[s] EXCEPT ![m] = d]]
        BY <1>9, <1>11, <2>1
      <3>2. [mem[s] EXCEPT ![m] = d] = Set(mem[s], m, d)
        BY <1>9 DEF Set
      <3> HIDE DEF d
      <3> QED BY <1>9, <3>1, <3>2
    <2>2. CASE i \notin os.concrete
      <3>1. d = mem[s][m] /\ mem' = mem
        BY <1>11, <2>2
      <3>2. Set(mem[s], m, mem[s][m]) = mem[s]
        <4>1. DOMAIN mem[s] \cup {m} = DOMAIN mem[s]
          BY <1>9
        <4>2. Set(mem[s], m, mem[s][m]) = [k \in DOMAIN mem[s] |-> mem[s][k]]
          BY <4>1 DEF Set
        <4> QED BY <1>10, <4>2
      <3> HIDE DEF d
      <3> QED BY <1>9, <1>10, <3>1, <3>2
    <2> QED BY <2>1, <2>2
  <1> HIDE DEF m, i, v, o, os, size
  <1>14. ASSUME NEW x, Mine(x, m, size, key[s]), Means(x, size, path[s], mem[s][m]),
                x.concrete = os.concrete, x.flushed = os.flushed
         PROVE  /\ Mine([x EXCEPT !.store[i] = v], m, size, key[s])
                /\ Means([x EXCEPT !.store[i] = v], size, path[s], d)
    BY <1>4, <1>5, <1>6, <1>9, <1>14, TouchedMeaning
  <1>15. UNCHANGED <<perState, symbolics, slot, native, fault>>
    BY <1>1, <1>7
  <1>16. m # 1 /\ o # 1
    BY <1>5, <1>6
  <1>17. CASE os.store[i] = v
    <2>1. Commit(objects, heap, mos, Unlisted)
      BY <1>12, <1>17
    <2>2. Means(os, size, path[s], mem[s][m])
      BY <1>1, <1>4, <1>16, WriteableMeaning DEF os, size, o
    <2>3. Means(os, size, path[s], d)
      <3>1. CASE i \in os.concrete
        <4>1. \A n : ByteAt(os, i, n) = v
          BY <1>17, <3>1 DEF ByteAt
        <4>2. Constant(v).at \in [Input -> Nat] /\ \A n \in Input : Constant(v).at[n] = v
          BY <1>4 DEF Constant
        <4>3. /\ mem[s][m] \in [Offsets(size) -> [Input -> Nat]]
              /\ \A j \in Offsets(size), n \in path[s] : mem[s][m][j][n] = ByteAt(os, j, n)
          BY <2>2 DEF Means
        <4>4. d = [mem[s][m] EXCEPT ![i] = Constant(v).at]
          BY <3>1
        <4> HIDE DEF d
        <4>5. d \in [Offsets(size) -> [Input -> Nat]] /\ d[i] = Constant(v).at
              /\ \A j \in Offsets(size) \ {i} : d[j] = mem[s][m][j]
          BY <1>9, <4>2, <4>3, <4>4
        <4>6. \A j \in Offsets(size), n \in path[s] : d[j][n] = ByteAt(os, j, n)
          BY <1>9, <4>1, <4>2, <4>3, <4>5
        <4> QED BY <4>5, <4>6 DEF Means
      <3>2. CASE i \notin os.concrete
        BY <2>2, <3>2
      <3> QED BY <3>1, <3>2
    <2> HIDE DEF d
    <2>4. Core(objects, heap, mos, key, native, path, [mem EXCEPT ![s] = Set(@, m, d)])
      BY <1>1, <1>4, <2>3, SameContents DEF os, size, o
    <2>5. /\ key' = key /\ allocas' = allocas /\ path' = path /\ symbolics' = symbolics /\ slot' = slot
          /\ native' = native /\ fault' = fault
      BY <1>15 DEF perState
    <2>6. Core(objects, heap, mos, key', native', path', mem')
      BY <1>13, <2>4, <2>5
    <2>7. Frames(objects, mos, allocas') /\ Layout(mos, slot')
      BY <2>5 DEF MemoryInv
    <2> QED BY <1>1, <2>1, <2>5, <2>6, <2>7, GrowsItself, QuietCommit
  <1>18. CASE os.store[i] # v
    <2>1. Changed(s, m, i, v)
      BY <1>12, <1>18
    <2>2. CASE Owns(s, o)
      <3> DEFINE new == [os EXCEPT !.store[i] = v]
      <3>1. Commit(objects, [heap EXCEPT ![o] = new], mos, Unlisted)
        BY <2>1, <2>2 DEF Changed, Change, o, os
      <3>2. Mine(os, m, size, key[s]) /\ Means(os, size, path[s], mem[s][m])
        BY <1>1, <1>4, <1>16, <2>2, WriteableMeaning DEF o, os, size
      <3>3. Mine(new, m, size, key[s]) /\ Means(new, size, path[s], d)
        BY <1>14, <3>2
      <3> HIDE DEF new, d
      <3>4. Commit(bindObject(objects, s, m, o), Set(heap, o, new), mos, Unlisted)
        BY <1>1, <1>4, <3>1, BindsItself DEF o
      <3>5. Own(objects, heap, key, s, m, o)
        BY <1>4, <2>2 DEF Own, Owns, o
      <3> QED BY <1>1, <1>4, <1>5, <1>13, <1>15, <1>16, <3>3, <3>4, <3>5, ChangeKeeps DEF size
    <2>3. CASE ~Owns(s, o)
      <3> DEFINE x == Copied(os, key[s])
                 new == [x EXCEPT !.store[i] = v]
      <3>1. Room(1, 0, 0) /\ Commit(bindObject(objects, s, m, NewOS), Set(heap, NewOS, new), mos, Unlisted)
        BY <2>1, <2>3 DEF Changed, Change, o, os
      <3>2. Mine(x, m, size, key[s]) /\ Means(x, size, path[s], mem[s][m])
        BY <1>1, <1>4, <1>16, WriteableMeaning DEF o, os, size
      <3>3. x.concrete = os.concrete /\ x.flushed = os.flushed
        BY <1>5 DEF Copied, WellFormed, Shape
      <3> HIDE DEF x
      <3>4. Mine(new, m, size, key[s]) /\ Means(new, size, path[s], d)
        BY <1>14, <3>2, <3>3
      <3> HIDE DEF new, d
      <3>5. NewOS \in OS /\ NewOS # 1 /\ NewOS \notin DOMAIN heap
        BY <1>1, <3>1, NewPlaces
      <3>6. Own(objects, heap, key, s, m, NewOS)
        BY <3>5 DEF Own
      <3> QED BY <1>1, <1>4, <1>13, <1>15, <1>16, <3>1, <3>4, <3>5, <3>6, ChangeKeeps DEF size
    <2> QED BY <2>2, <2>3
  <1> QED BY <1>17, <1>18

(***************************************************************************)
(* Making objects symbolic, freeing them and returning from a function     *)
(***************************************************************************)

\* The entries of one state, and those of the others.
LEMMA ListsSplit ==
  ASSUME NEW syms, NEW s \in State, s \in DOMAIN syms, NEW S, syms[s] \in Seq(S),
         Len(syms[s]) <= MaxOps, NEW k
  PROVE  /\ Cardinality(Lists(syms, k)) = Cardinality(Lists(Drop(syms, {s}), k)) + Times(syms[s], k)
         /\ Times(syms[s], k) \in Nat
PROOF
  <1> DEFINE J == {j \in DOMAIN syms[s] : syms[s][j] = k}
             A == Lists(Drop(syms, {s}), k)
             B == {<<s, j>> : j \in J}
             f == [j \in J |-> <<s, j>>]
  <1>1. DOMAIN syms[s] = 1 .. Len(syms[s]) /\ Len(syms[s]) \in Nat
    OBVIOUS
  <1>2. IsFiniteSet(J)
    <2>1. J \in SUBSET (1 .. Len(syms[s])) /\ IsFiniteSet(1 .. Len(syms[s]))
      BY <1>1, FS_Interval
    <2> HIDE DEF J
    <2> QED BY <2>1, FS_Subset
  <1>3. J \subseteq 1 .. MaxOps
    BY <1>1, Bounds
  <1>4. Times(syms[s], k) = Cardinality(J)
    BY DEF Times
  <1>5. DOMAIN Drop(syms, {s}) = DOMAIN syms \ {s} /\ \A u \in DOMAIN syms \ {s} : Drop(syms, {s})[u] = syms[u]
    BY DropValues
  <1>6. Lists(syms, k) = A \cup B
    <2>1. ASSUME NEW x \in Lists(syms, k) PROVE x \in A \cup B
      <3>1. /\ x \in State \X (1 .. MaxOps) /\ x[1] \in DOMAIN syms
            /\ x[2] \in DOMAIN syms[x[1]] /\ syms[x[1]][x[2]] = k
        BY DEF Lists
      <3>2. CASE x[1] = s
        <4>1. x[2] \in J /\ x = <<s, x[2]>>
          BY <3>1, <3>2
        <4> QED BY <4>1
      <3>3. CASE x[1] # s
        BY <1>5, <3>1, <3>3 DEF Lists
      <3> QED BY <3>2, <3>3
    <2>2. ASSUME NEW x \in A PROVE x \in Lists(syms, k)
      BY <1>5 DEF Lists
    <2>3. ASSUME NEW j \in J PROVE <<s, j>> \in Lists(syms, k)
      BY <1>3 DEF Lists
    <2> HIDE DEF A, J
    <2> QED BY <2>1, <2>2, <2>3
  <1>7. A \cap B = {}
    <2>1. ASSUME NEW x \in A PROVE x[1] # s
      BY <1>5 DEF Lists
    <2>2. ASSUME NEW x \in B PROVE x[1] = s
      OBVIOUS
    <2> HIDE DEF A, B
    <2> QED BY <2>1, <2>2
  <1> HIDE DEF J, A
  <1>8. IsFiniteSet(B) /\ Cardinality(B) = Cardinality(J)
    <2>1. f \in [J -> B] /\ \A a, b \in J : f[a] = f[b] => a = b
      OBVIOUS
    <2>2. \A y \in B : \E j \in J : f[j] = y
      OBVIOUS
    <2> HIDE DEF f, B
    <2>3. f \in Bijection(J, B)
      BY <2>1, <2>2, Fun_IsBij
    <2>4. ExistsBijection(J, B)
      BY <2>3, Fun_ExistsBij
    <2> QED BY <1>2, <2>4, FS_Bijection
  <1> HIDE DEF B
  <1>9. IsFiniteSet(A) /\ Cardinality(A) \in Nat /\ Cardinality(J) \in Nat
    BY <1>2, ListsFinite, FS_CardinalityType DEF A
  <1>10. Cardinality(A \cup B) = Cardinality(A) + Cardinality(B) - Cardinality(A \cap B)
    BY <1>8, <1>9, FS_Union
  <1>11. Cardinality(A \cap B) = 0
    BY <1>7, FS_EmptySet
  <1> QED BY <1>4, <1>6, <1>8, <1>9, <1>10, <1>11 DEF A

\* addSymbolic: one more entry for the object, the same for the others.
LEMMA ListsAppended ==
  ASSUME NEW syms, NEW s \in State, s \in DOMAIN syms, NEW S, syms[s] \in Seq(S),
         Len(syms[s]) + 1 <= MaxOps, NEW m \in S, NEW k
  PROVE  Cardinality(Lists([syms EXCEPT ![s] = Append(@, m)], k))
           = Cardinality(Lists(syms, k)) + (IF k = m THEN 1 ELSE 0)
PROOF
  <1> DEFINE new == [syms EXCEPT ![s] = Append(@, m)]
             L == Len(syms[s]) + 1
  <1>1. /\ DOMAIN new = DOMAIN syms /\ new[s] = Append(syms[s], m)
        /\ \A u \in DOMAIN syms \ {s} : new[u] = syms[u]
    OBVIOUS
  <1>2. /\ Len(syms[s]) \in Nat /\ DOMAIN syms[s] = 1 .. Len(syms[s]) /\ DOMAIN new[s] = 1 .. L
        /\ new[s][L] = m /\ \A j \in 1 .. Len(syms[s]) : new[s][j] = syms[s][j]
    BY <1>1
  <1>3. L \in 1 .. MaxOps
    BY <1>2, Bounds
  <1> HIDE DEF new
  <1>4. ASSUME NEW x \in Lists(syms, k) PROVE x \in Lists(new, k)
    <2>1. /\ x \in State \X (1 .. MaxOps) /\ x[1] \in DOMAIN syms
          /\ x[2] \in DOMAIN syms[x[1]] /\ syms[x[1]][x[2]] = k
      BY DEF Lists
    <2>2. CASE x[1] = s
      <3>1. x[2] \in DOMAIN new[s] /\ new[s][x[2]] = k
        BY <1>2, <2>1, <2>2
      <3> QED BY <1>1, <2>1, <2>2, <3>1 DEF Lists
    <2>3. CASE x[1] # s
      BY <1>1, <2>1, <2>3 DEF Lists
    <2> QED BY <2>2, <2>3
  <1>5. ASSUME NEW x \in Lists(new, k), x # <<s, L>> PROVE x \in Lists(syms, k)
    <2>1. /\ x \in State \X (1 .. MaxOps) /\ x[1] \in DOMAIN syms
          /\ x[2] \in DOMAIN new[x[1]] /\ new[x[1]][x[2]] = k
      BY <1>1 DEF Lists
    <2>2. CASE x[1] = s
      <3>1. x[2] # L
        BY <1>5, <2>1, <2>2
      <3>2. x[2] \in DOMAIN syms[s] /\ syms[s][x[2]] = k
        BY <1>2, <2>1, <2>2, <3>1
      <3> QED BY <2>1, <2>2, <3>2 DEF Lists
    <2>3. CASE x[1] # s
      BY <1>1, <2>1, <2>3 DEF Lists
    <2> QED BY <2>2, <2>3
  <1>6. <<s, L>> \notin Lists(syms, k)
    BY <1>2 DEF Lists
  <1>7. <<s, L>> \in Lists(new, k) <=> k = m
    BY <1>1, <1>2, <1>3 DEF Lists
  <1>8. IsFiniteSet(Lists(syms, k)) /\ Cardinality(Lists(syms, k)) \in Nat
    BY ListsFinite
  <1>9. CASE k = m
    <2>1. Lists(new, k) = Lists(syms, k) \cup {<<s, L>>}
      BY <1>4, <1>5, <1>7, <1>9
    <2> QED BY <1>6, <1>8, <1>9, <2>1, FS_AddElement DEF new
  <1>10. CASE k # m
    <2>1. Lists(new, k) = Lists(syms, k)
      BY <1>4, <1>5, <1>7, <1>10
    <2> QED BY <1>8, <1>10, <2>1 DEF new
  <1> QED BY <1>9, <1>10

\* executeMakeSymbolic.
LEMMA MakeSymbolicKeeps ==
  ASSUME MemoryInv, NEW s, MakeSymbolic(s)
  PROVE  MemoryInv'
PROOF
  <1>1. s \in Alive /\ Operation /\ Room(1, 0, 0) /\ UNCHANGED <<perState, slot, native, fault>>
    BY DEF MakeSymbolic, Ready
  <1>2. PICK m \in DOMAIN objects[s] :
       /\ ~heap[objects[s][m]].readOnly
       /\ Commit(bindObject(objects, s, m, NewOS),
                 Set(heap, NewOS, [Symbolic(m, mos[m].size) EXCEPT !.owner = key[s]]),
                 mos, [Unlisted EXCEPT ![m] = 1])
       /\ symbolics' = [symbolics EXCEPT ![s] = Append(@, m)]
       /\ mem' = [mem EXCEPT ![s][m] = [i \in DOMAIN @ |-> [in \in Input |-> in.array[i]]]]
    BY DEF MakeSymbolic
  <1> DEFINE size == mos[m].size
             os == [Symbolic(m, size) EXCEPT !.owner = key[s]]
             c == [i \in Offsets(size) |-> [in \in Input |-> in.array[i]]]
             objs == bindObject(objects, s, m, NewOS)
             hp == Set(heap, NewOS, os)
             mm == [mem EXCEPT ![s] = Set(@, m, c)]
             listed == [Unlisted EXCEPT ![m] = 1]
  <1>3. /\ m \in DOMAIN mos /\ m \in MO /\ m # 1 /\ size \in Nat /\ size <= MaxSize
    BY <1>1, <1>2, Here
  <1>4. /\ s \in DOMAIN objects /\ s \in State /\ key[s] \in Nat /\ path[s] \subseteq Input
        /\ s \in DOMAIN mem /\ m \in DOMAIN mem[s]
        /\ Holding(objects[s], heap, mos, path[s], mem[s])
    BY <1>1, StateHere
  <1>5. NewOS \in OS /\ NewOS # 1 /\ NewOS \notin DOMAIN heap
    BY <1>1, NewPlaces
  <1>6. m \in Nat
    BY <1>3, Bounds
  <1>7. Mine(os, m, size, key[s]) /\ \A i \in Offsets(size), n \in Input : ByteAt(os, i, n) = n.array[i]
    <2> DEFINE f == Symbolic(m, size)
    <2>1. /\ WellFormed(f, size) /\ f.object = m /\ ~f.readOnly
          /\ \A i \in Offsets(size), n \in Input : ByteAt(f, i, n) = n.array[i]
      BY <1>3, <1>6, NewSymbolic
    <2> HIDE DEF f
    <2>2. f \in Shape(size) /\ f.readOnly \in BOOLEAN
      BY <2>1, ShapeFields DEF WellFormed
    <2>3. PICK r \in BOOLEAN : r = FALSE /\ f.readOnly = r
      BY <2>1, <2>2
    <2>4. os = Relabel(f, m, key[s], r)
      BY <2>1, <2>2, <2>3 DEF Relabel, Shape, f
    <2> HIDE DEF os
    <2>5. /\ WellFormed(os, size) /\ os.object = m /\ os.owner = key[s] /\ os.readOnly = r
          /\ \A i \in Offsets(size), n \in Input : ByteAt(os, i, n) = ByteAt(f, i, n)
      BY <1>3, <1>4, <1>6, <2>1, <2>4, Relabelled, SMTT(30)
    <2> QED BY <2>1, <2>3, <2>5 DEF Mine
  <1>8. Means(os, size, path[s], c)
    <2>1. \A i \in Offsets(size), n \in Input : n.array[i] \in Nat
      BY <1>3, Bounds DEF Input, Byte, Offsets
    <2> HIDE DEF os
    <2> QED BY <1>4, <1>7, <2>1 DEF Means
  <1>9. mem' = mm
    <2>1. mem[s][m] \in [Offsets(size) -> [Input -> Nat]]
      BY <1>4 DEF Holding, Means
    <2>2. mem' = [mem EXCEPT ![s] = [mem[s] EXCEPT ![m] = c]]
      BY <1>2, <1>4, <2>1
    <2>3. [mem[s] EXCEPT ![m] = c] = Set(mem[s], m, c)
      BY <1>4 DEF Set
    <2> HIDE DEF c
    <2> QED BY <1>4, <2>2, <2>3
  <1>10. /\ DOMAIN objs = DOMAIN objects /\ objs[s] = Set(objects[s], m, NewOS)
         /\ \A u \in DOMAIN objects \ {s} : objs[u] = objects[u]
    BY <1>4 DEF bindObject
  <1>11. DOMAIN objects[s] \subseteq DOMAIN objs[s]
    BY <1>10 DEF Set
  <1>12. Commit(objs, hp, mos, listed)
    BY <1>2
  <1>13. listed \in [MO -> Int] /\ \A k \in MO : listed[k] = IF k = m THEN 1 ELSE 0
    BY <1>3 DEF Unlisted
  <1> HIDE DEF os, c, listed
  <1>14. Own(objects, heap, key, s, m, NewOS)
    BY <1>5 DEF Own
  <1>15. Core(objects, heap, mos, key, native, path, mem) /\ Extends(mos, mos)
    BY InvCore, ExtendsItself
  <1>16. Core(objs, hp, mos, key, native, path, mm)
    BY <1>3, <1>4, <1>5, <1>7, <1>8, <1>14, <1>15, BoundOne
  <1>17. Grows(hp)
    BY <1>1, <1>7, <1>14, BoundOneGrows DEF Mine
  <1> HIDE DEF objs, hp, mm, size
  <1>18. /\ key' = key /\ allocas' = allocas /\ path' = path /\ slot' = slot
         /\ native' = native /\ fault' = fault
    BY <1>1 DEF perState
  <1>19. Core(objs, hp, mos, key', native', path', mem')
    BY <1>9, <1>16, <1>18
  <1>20. Layout(mos, slot')
    BY <1>18 DEF MemoryInv
  <1>21. Frames(objs, mos, allocas')
    <2>1. Frames(objects, mos, allocas)
      BY DEF MemoryInv
    <2> QED BY <1>10, <1>11, <1>18, <2>1 DEF Frames
  <1>22. /\ ops < MaxOps /\ ops' = ops + 1 /\ fault = "none" /\ determ' = determ
    BY <1>1 DEF Operation
  <1>23. /\ ops \in Nat /\ ops' \in 0 .. MaxOps /\ DOMAIN symbolics = DOMAIN objects
         /\ \A u \in DOMAIN objects : symbolics[u] \in Seq(DOMAIN mos) /\ Len(symbolics[u]) <= ops
    BY <1>22, Bounds DEF MemoryInv, Listing
  <1>24. /\ DOMAIN symbolics' = DOMAIN objects /\ symbolics'[s] = Append(symbolics[s], m)
         /\ \A u \in DOMAIN objects \ {s} : symbolics'[u] = symbolics[u]
    BY <1>2, <1>4, <1>23
  <1>25. Listing(objs, mos, symbolics', ops')
    <2>1. ASSUME NEW u \in DOMAIN objects
          PROVE  symbolics'[u] \in Seq(DOMAIN mos) /\ Len(symbolics'[u]) <= ops'
      <3>1. symbolics[u] \in Seq(DOMAIN mos) /\ Len(symbolics[u]) <= ops /\ Len(symbolics[u]) \in Nat
        BY <1>23
      <3>2. CASE u = s
        <4>1. /\ Append(symbolics[s], m) \in Seq(DOMAIN mos)
              /\ Len(Append(symbolics[s], m)) = Len(symbolics[s]) + 1
          BY <1>3, <3>1, <3>2
        <4> QED BY <1>22, <1>23, <1>24, <3>1, <3>2, <4>1
      <3>3. CASE u # s
        BY <1>22, <1>23, <1>24, <3>1, <3>3
      <3> QED BY <3>2, <3>3
    <2> QED BY <1>10, <1>23, <1>24, <2>1 DEF Listing
  <1>26. Tally(listed, symbolics')
    <2>1. symbolics[s] \in Seq(DOMAIN mos) /\ Len(symbolics[s]) + 1 <= MaxOps
      <3>1. symbolics[s] \in Seq(DOMAIN mos) /\ Len(symbolics[s]) <= ops /\ Len(symbolics[s]) \in Nat
        BY <1>4, <1>23
      <3> QED BY <1>22, <1>23, <3>1, Bounds
    <2>2. s \in DOMAIN symbolics
      BY <1>4, <1>23
    <2>3. ASSUME NEW k \in MO
          PROVE  listed[k] = Cardinality(Lists(symbolics', k)) - Cardinality(Lists(symbolics, k))
      <3>1. Cardinality(Lists([symbolics EXCEPT ![s] = Append(@, m)], k))
              = Cardinality(Lists(symbolics, k)) + (IF k = m THEN 1 ELSE 0)
        BY <1>3, <1>4, <2>1, <2>2, ListsAppended
      <3>2. Cardinality(Lists(symbolics', k)) = Cardinality(Lists(symbolics, k)) + listed[k]
        BY <1>2, <1>13, <3>1
      <3>3. Cardinality(Lists(symbolics, k)) \in Nat /\ listed[k] \in Int
        BY <1>13, ListsFinite
      <3> QED BY <3>2, <3>3
    <2> QED BY <2>3 DEF Tally
  <1>27. fault' = "none"
    BY <1>18, <1>22
  <1> QED BY <1>12, <1>17, <1>19, <1>20, <1>21, <1>22, <1>25, <1>26, <1>27, CommitKeeps

\* executeFree.
LEMMA FreeKeeps ==
  ASSUME MemoryInv, NEW s, Free(s)
  PROVE  MemoryInv'
PROOF
  <1>1. s \in Alive /\ Operation /\ UNCHANGED <<perState, symbolics, slot, native, fault>>
    BY DEF Free, Ready
  <1>2. PICK m \in DOMAIN objects[s] :
          /\ ~mos[m].local /\ ~mos[m].global
          /\ Commit(unbindObject(objects, s, {m}), heap, mos, Unlisted)
          /\ mem' = [mem EXCEPT ![s] = Drop(@, {m})]
    BY DEF Free
  <1> DEFINE objs == unbindObject(objects, s, {m})
             mm == [mem EXCEPT ![s] = Drop(@, {m})]
  <1>3. s \in DOMAIN objects /\ 1 \in DOMAIN mos
    BY <1>1, StateHere
  <1>4. m # 1
    BY <1>2, <1>3 DEF MemoryInv, Constants
  <1>5. /\ DOMAIN objs = DOMAIN objects /\ objs[s] = Drop(objects[s], {m})
        /\ \A u \in DOMAIN objects \ {s} : objs[u] = objects[u]
    BY <1>3 DEF unbindObject
  <1>6. DOMAIN objs[s] = DOMAIN objects[s] \ {m}
    BY <1>5 DEF Drop
  <1>7. Core(objects, heap, mos, key, native, path, mem) /\ 1 \notin {m}
    BY <1>4, InvCore
  <1>8. Core(objs, heap, mos, key, native, path, mm)
    BY <1>3, <1>7, Unbound
  <1>9. Commit(objs, heap, mos, Unlisted) /\ mem' = mm
    BY <1>2
  <1> HIDE DEF objs, mm
  <1>10. /\ key' = key /\ allocas' = allocas /\ path' = path /\ symbolics' = symbolics /\ slot' = slot
         /\ native' = native /\ fault' = fault
    BY <1>1 DEF perState
  <1>11. Core(objs, heap, mos, key', native', path', mem')
    BY <1>8, <1>9, <1>10
  <1>12. Layout(mos, slot')
    BY <1>10 DEF MemoryInv
  <1>13. Frames(objs, mos, allocas')
    <2>1. Frames(objects, mos, allocas)
      BY DEF MemoryInv
    <2> QED BY <1>2, <1>5, <1>6, <1>10, <2>1 DEF Frames
  <1> QED BY <1>1, <1>5, <1>9, <1>10, <1>11, <1>12, <1>13, GrowsItself, QuietCommit

\* popFrame: what the frame allocated is still there.
LEMMA ReturnKeeps ==
  ASSUME MemoryInv, NEW s, Return(s)
  PROVE  MemoryInv'
PROOF
  <1>1. s \in Alive /\ Operation
    BY DEF Return, Ready
  <1>2. s \in DOMAIN objects /\ 1 \in DOMAIN mos
    BY <1>1, StateHere
  <1>3. /\ Frames(objects, mos, allocas) /\ \A m \in allocas[s] : m \in DOMAIN objects[s] /\ mos[m].local
    BY <1>2 DEF MemoryInv, Frames
  <1>4. allocas[s] \subseteq DOMAIN mos
    BY <1>1, <1>3, Here
  <1>5. 1 \notin allocas[s]
    BY <1>2, <1>3 DEF MemoryInv, Constants
  <1> DEFINE objs == unbindObject(objects, s, allocas[s])
             mm == [mem EXCEPT ![s] = Drop(@, allocas[s])]
  <1>6. /\ Commit(objs, heap, mos, Unlisted) /\ mem' = mm /\ fault' = fault
        /\ allocas' = [allocas EXCEPT ![s] = {}]
        /\ key' = key /\ symbolics' = symbolics /\ path' = path /\ slot' = slot /\ native' = native
    BY <1>4 DEF Return
  <1>7. /\ DOMAIN objs = DOMAIN objects
        /\ \A u \in DOMAIN objects \ {s} : objs[u] = objects[u]
    BY <1>2 DEF unbindObject
  <1>8. Core(objects, heap, mos, key, native, path, mem)
    BY InvCore
  <1>9. Core(objs, heap, mos, key, native, path, mm)
    BY <1>2, <1>5, <1>8, Unbound
  <1> HIDE DEF objs, mm
  <1>10. Core(objs, heap, mos, key', native', path', mem')
    BY <1>6, <1>9
  <1>11. Layout(mos, slot')
    BY <1>6 DEF MemoryInv
  <1>12. Frames(objs, mos, allocas')
    BY <1>3, <1>6, <1>7 DEF Frames
  <1> QED BY <1>1, <1>6, <1>7, <1>10, <1>11, <1>12, GrowsItself, QuietCommit

(***************************************************************************)
(* Allocation                                                              *)
(***************************************************************************)

\* Rounding up to a multiple.
LEMMA Quotient ==
  ASSUME NEW x \in Nat, NEW n \in Nat, n > 0
  PROVE  x \div n \in Nat /\ (x \div n) * n \in Nat /\ (x \div n) * n >= x - n + 1
PROOF
  <1>1. (x \div n) * n >= x - n + 1
    OBVIOUS
  <1>2. x \div n \in Nat
    OBVIOUS
  <1> QED BY <1>1, <1>2

\* Rounding up goes to the next multiple.
LEMMA AlignedUp ==
  ASSUME NEW a \in Nat, NEW n \in Nat \ {0}
  PROVE  Aligned(a, n) \in Nat /\ Aligned(a, n) >= a
PROOF
  <1>1. PICK x \in Nat : x = a + n - 1
    OBVIOUS
  <1>2. (x \div n) * n \in Nat /\ (x \div n) * n >= x - n + 1
    BY Quotient
  <1>3. Aligned(a, n) = (x \div n) * n
    BY <1>1 DEF Aligned
  <1> QED BY <1>1, <1>2, <1>3

\* The address that allocate returns is apart from every object.
LEMMA CandidateFree ==
  ASSUME MemoryInv, NEW size \in Nat, NEW al \in Nat \ {0}, NEW a \in Candidates(size, al)
  PROVE  /\ a \in Nat /\ (determ => a >= slot) /\ slot \in Nat
         /\ ~determ => \A m \in DOMAIN mos : \/ a + Extent(size) <= mos[m].address
                                             \/ a >= mos[m].address + Extent(mos[m].size)
PROOF
  <1>1. slot \in Nat /\ SpaceSize \in Nat
    BY Bounds DEF MemoryInv, Layout
  <1>2. CASE determ
    <2> DEFINE b == slot + al - 1
    <2>1. b \in Nat /\ b >= slot
      BY <1>1
    <2>2. a = Aligned(b, al)
      BY <1>2 DEF Candidates
    <2> HIDE DEF b
    <2>3. Aligned(b, al) \in Nat /\ Aligned(b, al) >= b
      BY <2>1, AlignedUp
    <2> QED BY <1>1, <1>2, <2>1, <2>2, <2>3
  <1>3. CASE ~determ
    <2>1. /\ a \in 1 .. SpaceSize - Extent(size)
          /\ \A m \in DOMAIN mos : \/ a + Extent(size) <= mos[m].address
                                   \/ a >= mos[m].address + Extent(mos[m].size)
      BY <1>3 DEF Candidates
    <2>2. SpaceSize - Extent(size) \in Int
      BY <1>1 DEF Extent
    <2> QED BY <1>1, <1>3, <2>1, <2>2
  <1> QED BY <1>2, <1>3

\* allocate puts the new object apart from all others.
LEMMA LayoutExtended ==
  ASSUME MemoryInv, NEW size \in 0 .. MaxSize, NEW al \in Nat \ {0}, NEW a \in Candidates(size, al),
         NEW local \in BOOLEAN, NEW m \in MO, m \notin DOMAIN mos
  PROVE  LET ms == Set(mos, m, [address |-> a, size |-> size, local |-> local, global |-> FALSE])
         IN  /\ Extends(ms, mos) /\ m \in DOMAIN ms /\ ms[m].size = size /\ ms[m].local = local
             /\ Layout(ms, IF determ THEN NextSlot(a, size) ELSE slot)
PROOF
  <1> DEFINE mo == [address |-> a, size |-> size, local |-> local, global |-> FALSE]
             ms == Set(mos, m, mo)
             next == IF determ THEN NextSlot(a, size) ELSE slot
  <1>1. /\ DOMAIN ms = DOMAIN mos \cup {m} /\ ms[m] = mo /\ \A k \in DOMAIN mos : ms[k] = mos[k]
    BY DEF Set
  <1>2. size \in Nat
    BY Bounds
  <1>3. /\ a \in Nat /\ (determ => a >= slot) /\ slot \in Nat
        /\ ~determ => \A k \in DOMAIN mos : \/ a + Extent(size) <= mos[k].address
                                            \/ a >= mos[k].address + Extent(mos[k].size)
    BY <1>2, CandidateFree
  <1>4. mo \in MObject /\ mo.address = a /\ mo.size = size /\ mo.local = local
    BY <1>3 DEF MObject
  <1> HIDE DEF mo, ms
  <1>5. DOMAIN mos \subseteq MO /\ \A k \in DOMAIN mos : mos[k] \in MObject
    BY DEF MemoryInv, Bindings
  <1>6. Extends(ms, mos)
    BY <1>1, <1>4, <1>5 DEF Extends
  <1>7. /\ \A j, k \in DOMAIN mos : j # k => Apart(mos[j], mos[k])
        /\ determ => \A k \in DOMAIN mos : mos[k].address + Extent(mos[k].size) <= slot
    BY DEF MemoryInv, Layout
  <1>8. Extent(size) \in Nat
    BY <1>2 DEF Extent
  <1>9. ASSUME NEW k \in DOMAIN mos
        PROVE  /\ mos[k].address \in Nat /\ Extent(mos[k].size) \in Nat
               /\ Apart(mos[k], mo) /\ Apart(mo, mos[k])
    <2>1. mos[k].address \in Nat /\ mos[k].size \in Nat
      BY <1>5, Bounds DEF MObject
    <2>2. Extent(mos[k].size) \in Nat
      BY <2>1 DEF Extent
    <2>3. a >= mos[k].address + Extent(mos[k].size) \/ a + Extent(size) <= mos[k].address
      BY <1>3, <1>7, <2>1, <2>2
    <2> QED BY <1>4, <2>1, <2>2, <2>3, <1>3, <1>8 DEF Apart
  <1>10. next \in Nat
    BY <1>3, <1>8, Bounds DEF NextSlot
  <1>11. ASSUME NEW j \in DOMAIN ms, NEW k \in DOMAIN ms, j # k
         PROVE  Apart(ms[j], ms[k])
    BY <1>1, <1>7, <1>9, <1>11
  <1>12. ASSUME determ, NEW k \in DOMAIN ms
         PROVE  ms[k].address + Extent(ms[k].size) <= next
    <2>1. next = a + Extent(size) + RedzoneSize /\ RedzoneSize \in Nat
      BY <1>12, Bounds DEF NextSlot
    <2>2. CASE k = m
      BY <1>1, <1>3, <1>4, <1>8, <2>1, <2>2
    <2>3. CASE k # m
      <3>1. k \in DOMAIN mos /\ ms[k] = mos[k] /\ mos[k].address + Extent(mos[k].size) <= slot
        BY <1>1, <1>7, <1>12, <2>3
      <3>2. mos[k].address \in Nat /\ Extent(mos[k].size) \in Nat
        BY <1>9, <3>1
      <3> QED BY <1>3, <1>8, <1>12, <2>1, <3>1, <3>2
    <2> QED BY <2>2, <2>3
  <1> HIDE DEF next
  <1>13. Layout(ms, next)
    BY <1>10, <1>11, <1>12 DEF Layout
  <1> QED BY <1>1, <1>4, <1>6, <1>13 DEF ms, mo, next

\* the object state that bindObjectInState binds, one that may be written, and
\* one with the same bytes
Label(os, m, k) == [os EXCEPT !.object = m, !.owner = k]
Writing(os, size) == WellFormed(os, size) /\ os.readOnly = FALSE
SameBytes(new, os, size) == \A i \in Offsets(size), n \in Input : ByteAt(new, i, n) = ByteAt(os, i, n)

\* bindObjectInState makes an object state the state's own.
LEMMA Labelled ==
  ASSUME NEW size \in Nat, NEW os, Writing(os, size), NEW m \in Nat, NEW k \in Nat
  PROVE  Mine(Label(os, m, k), m, size, k) /\ SameBytes(Label(os, m, k), os, size)
PROOF
  <1>1. os \in Shape(size) /\ WellFormed(os, size) /\ os.readOnly = FALSE
    BY DEF Writing, WellFormed
  <1>2. PICK r \in BOOLEAN : r = os.readOnly
    BY <1>1, ShapeFields
  <1> DEFINE new == Label(os, m, k)
             rel == Relabel(os, m, k, r)
  <1>3. new = rel
    BY <1>1, <1>2 DEF Shape, Label, Relabel
  <1>4. /\ WellFormed(rel, size) /\ rel.object = m /\ rel.owner = k /\ rel.readOnly = r
        /\ \A i \in Offsets(size), n \in Input : ByteAt(rel, i, n) = ByteAt(os, i, n)
    BY <1>1, Relabelled
  <1> HIDE DEF new, rel
  <1>5. /\ Mine(new, m, size, k)
        /\ \A i \in Offsets(size), n \in Input : ByteAt(new, i, n) = ByteAt(os, i, n)
    BY <1>1, <1>2, <1>3, <1>4 DEF Mine
  <1> QED BY <1>5 DEF new, SameBytes

\* allocate and bindObjectInState, with the bindings as they are or without the
\* object that is reallocated.
LEMMA AllocatedKeeps ==
  ASSUME MemoryInv, Operation, Room(1, 1, 0), NEW s \in Alive, NEW size \in 0 .. MaxSize,
         NEW al \in Nat \ {0}, NEW a \in Candidates(size, al), NEW local \in BOOLEAN,
         NEW os, Writing(os, size), NEW objs, NEW mm,
         Core(objs, heap, mos, key, native, path, mm), DOMAIN objs = DOMAIN objects,
         Frames(objs, mos, allocas), NEW c, Means(os, size, path[s], c),
         Allocated(s, a, size, local, os, objs), mem' = [mm EXCEPT ![s] = Set(@, NewMO, c)],
         UNCHANGED <<key, symbolics, path, native, fault>>
  PROVE  MemoryInv'
PROOF
  <1> DEFINE m == NewMO
             o == NewOS
             mo == [address |-> a, size |-> size, local |-> local, global |-> FALSE]
             ms == Set(mos, m, mo)
             new == [os EXCEPT !.object = m, !.owner = key[s]]
             next == IF determ THEN NextSlot(a, size) ELSE slot
             objs2 == bindObject(objs, s, m, o)
             hp == Set(heap, o, new)
  <1>1. /\ slot' = next /\ Commit(objs2, hp, ms, Unlisted)
        /\ allocas' = IF local THEN [allocas EXCEPT ![s] = @ \cup {m}] ELSE allocas
    BY DEF Allocated
  <1>2. /\ o \in OS /\ o \notin DOMAIN heap /\ o # 1 /\ m \in MO /\ m \notin DOMAIN mos /\ m # 1
    BY NewPlaces
  <1>3. s \in DOMAIN objs /\ key[s] \in Nat /\ path[s] \subseteq Input
    BY StateHere
  <1>4. size \in Nat /\ m \in Nat
    BY <1>2, Bounds
  <1> HIDE DEF m, o
  <1>5. /\ Extends(ms, mos) /\ m \in DOMAIN ms /\ ms[m].size = size /\ ms[m].local = local
        /\ Layout(ms, next)
    BY <1>2, LayoutExtended
  <1>6. Mine(new, m, size, key[s]) /\ \A i \in Offsets(size), n \in Input : ByteAt(new, i, n) = ByteAt(os, i, n)
    <2>1. Mine(Label(os, m, key[s]), m, size, key[s]) /\ SameBytes(Label(os, m, key[s]), os, size)
      BY <1>3, <1>4, Labelled
    <2>2. new = Label(os, m, key[s])
      BY DEF Label
    <2> HIDE DEF new
    <2> QED BY <2>1, <2>2 DEF SameBytes
  <1> HIDE DEF new, mo
  <1>7. Means(new, ms[m].size, path[s], c) /\ Mine(new, m, ms[m].size, key[s])
    BY <1>3, <1>5, <1>6 DEF Means
  <1>8. Own(objs, heap, key, s, m, o) /\ Own(objects, heap, key, s, m, o)
    BY <1>2 DEF Own
  <1>9. Grows(hp)
    BY <1>6, <1>8, BoundOneGrows DEF Mine
  <1>10. DOMAIN mos \subseteq DOMAIN ms
    BY DEF Set
  <1> HIDE DEF ms
  <1>11. Core(objs2, hp, ms, key, native, path, [mm EXCEPT ![s] = Set(@, m, c)])
    BY <1>2, <1>3, <1>5, <1>7, <1>8, BoundOne
  <1>12. /\ DOMAIN objs2 = DOMAIN objs /\ objs2[s] = Set(objs[s], m, o)
         /\ \A u \in DOMAIN objs \ {s} : objs2[u] = objs[u]
    BY <1>3 DEF bindObject
  <1>13. DOMAIN objs2[s] = DOMAIN objs[s] \cup {m}
    BY <1>12 DEF Set
  <1> HIDE DEF hp, objs2, next
  <1>14. Core(objs2, hp, ms, key', native', path', mem')
    BY <1>11 DEF m
  <1>15. Frames(objs2, ms, allocas')
    <2>1. ASSUME NEW u \in DOMAIN objs, NEW k \in allocas[u]
          PROVE  k \in DOMAIN objs[u] /\ k \in DOMAIN mos /\ mos[k].local
      <3>1. k \in DOMAIN objs[u] /\ mos[k].local
        BY DEF Frames
      <3>2. objs[u][k] \in DOMAIN heap /\ heap[objs[u][k]].object = k
        BY <3>1 DEF Core, Bindings
      <3>3. k \in DOMAIN mos
        BY <3>2 DEF Core, Bindings
      <3> QED BY <3>1, <3>3
    <2>2. \A k \in DOMAIN mos : ms[k] = mos[k]
      BY <1>5 DEF Extends
    <2>3. DOMAIN allocas = DOMAIN objs
      BY DEF Frames
    <2>4. DOMAIN allocas' = DOMAIN objs2
      BY <1>1, <1>12, <2>3
    <2>5. ASSUME NEW u \in DOMAIN objs, NEW k \in allocas'[u]
          PROVE  k \in DOMAIN objs2[u] /\ ms[k].local
      <3>1. k \in allocas[u] \/ (local /\ u = s /\ k = m)
        BY <1>1, <1>3, <2>3, <2>5
      <3>2. CASE k \in allocas[u]
        <4>1. k \in DOMAIN objs[u] /\ ms[k].local
          BY <2>1, <2>2, <3>2
        <4> QED BY <1>12, <1>13, <4>1
      <3>3. CASE local /\ u = s /\ k = m
        BY <1>5, <1>13, <3>3
      <3> QED BY <3>1, <3>2, <3>3
    <2> QED BY <1>12, <2>4, <2>5 DEF Frames
  <1>16. symbolics' = symbolics /\ fault' = fault /\ Layout(ms, slot') /\ Commit(objs2, hp, ms, Unlisted)
    BY <1>1, <1>5
  <1>17. DOMAIN objs2 = DOMAIN objects
    BY <1>12
  <1> QED BY <1>9, <1>10, <1>14, <1>15, <1>16, <1>17, QuietCommit

\* executeAlloc.
LEMMA AllocKeeps ==
  ASSUME MemoryInv, NEW s, Alloc(s)
  PROVE  MemoryInv'
PROOF
  <1>1. s \in Alive /\ Operation /\ Room(1, 1, 0) /\ UNCHANGED <<key, symbolics, path, native, fault>>
    BY DEF Alloc, Ready
  <1>2. PICK size \in Sizes, al \in Alignments, local \in BOOLEAN, v \in Fill :
          \E a \in Candidates(size, al) :
            /\ Allocated(s, a, size, local, Filled(Fresh(NewMO, size, UseConstantArrays), v), objects)
            /\ mem' = [mem EXCEPT ![s] = Set(@, NewMO, [i \in Offsets(size) |-> Constant(v).at])]
    BY DEF Alloc
  <1>3. PICK a \in Candidates(size, al) :
            /\ Allocated(s, a, size, local, Filled(Fresh(NewMO, size, UseConstantArrays), v), objects)
            /\ mem' = [mem EXCEPT ![s] = Set(@, NewMO, [i \in Offsets(size) |-> Constant(v).at])]
    BY <1>2
  <1> DEFINE os == Filled(Fresh(NewMO, size, UseConstantArrays), v)
             c == [i \in Offsets(size) |-> Constant(v).at]
  <1>4. size \in 0 .. MaxSize /\ size \in Nat /\ al \in Nat \ {0} /\ v \in Nat /\ UseConstantArrays \in BOOLEAN
    BY Bounds, MemoryAssumption DEF Byte
  <1>5. NewMO \in Nat
    <2>1. NewMO \in MO
      BY <1>1, NewPlaces
    <2> QED BY <2>1, Bounds
  <1>6. /\ WellFormed(os, size) /\ ~os.readOnly
        /\ \A i \in Offsets(size), n \in Input : ByteAt(os, i, n) = v
    BY <1>4, <1>5, NewObject, SMTT(30)
  <1> HIDE DEF os
  <1>7. Writing(os, size)
    BY <1>6, ShapeFields DEF WellFormed, Writing
  <1>8. Means(os, size, path[s], c)
    <2>1. path[s] \subseteq Input
      BY <1>1, StateHere
    <2>2. Constant(v).at \in [Input -> Nat] /\ \A n \in Input : Constant(v).at[n] = v
      BY <1>4 DEF Constant
    <2> QED BY <1>6, <2>1, <2>2 DEF Means
  <1> HIDE DEF c
  <1>9. Core(objects, heap, mos, key, native, path, mem) /\ Frames(objects, mos, allocas)
    BY InvCore DEF MemoryInv
  <1>10. Allocated(s, a, size, local, os, objects) /\ mem' = [mem EXCEPT ![s] = Set(@, NewMO, c)]
    BY <1>3 DEF os, c
  <1> QED BY <1>1, <1>4, <1>6, <1>7, <1>8, <1>9, <1>10, AllocatedKeeps

\* executeAlloc with reallocFrom.
LEMMA ReallocKeeps ==
  ASSUME MemoryInv, Careful, NEW s, Realloc(s)
  PROVE  MemoryInv'
PROOF
  <1>1. s \in Alive /\ Operation /\ Room(1, 1, 0) /\ UNCHANGED <<key, symbolics, path, native, fault>>
    BY DEF Realloc, Ready
  <1>2. PICK m \in DOMAIN objects[s], size \in Sizes \ {0} : \E a \in Candidates(size, 1) :
       LET from == heap[objects[s][m]]
           count == IF mos[m].size < size THEN mos[m].size ELSE size
           os == write8Known(Filled(Fresh(NewMO, size, UseConstantArrays), 1),
                             [i \in Offsets(count) |-> read8(from, Constant(i))])
       IN  /\ ~mos[m].global /\ (mos[m].local => "realloc" \in Misuse)
           /\ Allocated(s, a, size, FALSE, os, unbindObject(objects, s, {m}))
           /\ mem' = [mem EXCEPT ![s] = Set(Drop(@, {m}), NewMO,
                        [i \in Offsets(size) |-> IF i < count THEN mem[s][m][i] ELSE Constant(1).at])]
    BY DEF Realloc
  <1> DEFINE from == heap[objects[s][m]]
             count == IF mos[m].size < size THEN mos[m].size ELSE size
             known == [i \in Offsets(count) |-> read8(from, Constant(i))]
             fresh == Filled(Fresh(NewMO, size, UseConstantArrays), 1)
             os == write8Known(fresh, known)
             c == [i \in Offsets(size) |-> IF i < count THEN mem[s][m][i] ELSE Constant(1).at]
             objs == unbindObject(objects, s, {m})
             mm == [mem EXCEPT ![s] = Drop(@, {m})]
  <1>3. PICK a \in Candidates(size, 1) :
          /\ ~mos[m].global /\ (mos[m].local => "realloc" \in Misuse)
          /\ Allocated(s, a, size, FALSE, os, objs)
          /\ mem' = [mem EXCEPT ![s] = Set(Drop(@, {m}), NewMO, c)]
    BY <1>2
  <1>4. size \in 0 .. MaxSize /\ size \in Nat /\ 1 \in Nat \ {0} /\ UseConstantArrays \in BOOLEAN
    BY Bounds, MemoryAssumption
  <1>5. NewMO \in Nat
    <2>1. NewMO \in MO
      BY <1>1, NewPlaces
    <2> QED BY <2>1, Bounds
  <1>6. /\ WellFormed(from, mos[m].size) /\ mos[m].size \in Nat /\ mos[m].size <= MaxSize
        /\ m \in DOMAIN mos /\ mos[m] \in MObject
    BY <1>1, Here
  <1>7. ~mos[m].local /\ ~mos[m].global
    BY <1>3 DEF Careful
  <1>8. s \in DOMAIN objects /\ s \in DOMAIN mem /\ 1 \in DOMAIN mos /\ path[s] \subseteq Input
        /\ Holding(objects[s], heap, mos, path[s], mem[s])
    BY <1>1, StateHere
  <1>9. m # 1
    BY <1>7, <1>8 DEF MemoryInv, Constants
  <1>10. count \in Nat /\ count <= size /\ count <= mos[m].size
    BY <1>4, <1>6
  <1> HIDE DEF count, from
  <1>11. ASSUME NEW i \in Offsets(count)
         PROVE  /\ known[i] \in Expr /\ i \in Offsets(mos[m].size)
                /\ \A n \in Input : known[i].at[n] = ByteAt(from, i, n)
    <2>1. i \in Nat /\ i \in Offsets(mos[m].size)
      BY <1>6, <1>10 DEF Offsets
    <2>2. Constant(i) \in Expr /\ \A n \in Input : Constant(i).at[n] = i
      BY <2>1, ConstantValue
    <2>3. OffsetOf(Constant(i), mos[m].size)
      BY <2>1, <2>2 DEF OffsetOf
    <2>4. /\ read8(from, Constant(i)) \in Expr
          /\ \A n \in Input : read8(from, Constant(i)).at[n] = ByteAt(from, Constant(i).at[n], n)
      BY <1>6, <2>3, ReadMeaning
    <2> QED BY <2>1, <2>2, <2>4
  <1>12. known \in [Offsets(count) -> Expr] /\ Offsets(count) \in SUBSET Offsets(size)
    <2>1. Offsets(count) \in SUBSET Offsets(size)
      BY <1>4, <1>10 DEF Offsets
    <2> QED BY <1>11, <2>1
  <1> HIDE DEF known
  <1>13. /\ WellFormed(fresh, size) /\ ~fresh.readOnly
         /\ \A i \in Offsets(size), n \in Input : ByteAt(fresh, i, n) = 1
    BY <1>4, <1>5, NewObject, SMTT(30)
  <1> HIDE DEF fresh
  <1>14. /\ WellFormed(os, size) /\ os.readOnly = fresh.readOnly
         /\ \A i \in Offsets(size), n \in Input :
              ByteAt(os, i, n) = IF i \in Offsets(count) THEN known[i].at[n] ELSE ByteAt(fresh, i, n)
    BY <1>4, <1>12, <1>13, WriteKnownMeaning
  <1> HIDE DEF os
  <1>15. Writing(os, size)
    BY <1>13, <1>14, ShapeFields DEF WellFormed, Writing
  <1>16. Means(os, size, path[s], c)
    <2>1. Means(from, mos[m].size, path[s], mem[s][m])
      BY <1>8 DEF Holding, from
    <2>2. /\ mem[s][m] \in [Offsets(mos[m].size) -> [Input -> Nat]]
          /\ \A i \in Offsets(mos[m].size), n \in path[s] : mem[s][m][i][n] = ByteAt(from, i, n)
      BY <2>1 DEF Means
    <2>3. Constant(1).at \in [Input -> Nat] /\ \A n \in Input : Constant(1).at[n] = 1
      BY DEF Constant
    <2>4. \A i \in Offsets(size) : i < count <=> i \in Offsets(count)
      BY <1>4, <1>10 DEF Offsets
    <2>5. ASSUME NEW i \in Offsets(size)
          PROVE  /\ c[i] \in [Input -> Nat]
                 /\ \A n \in path[s] : c[i][n] = ByteAt(os, i, n)
      <3>1. CASE i \in Offsets(count)
        <4>1. c[i] = mem[s][m][i] /\ i \in Offsets(mos[m].size)
          BY <1>11, <2>4, <3>1
        <4>2. \A n \in path[s] : ByteAt(os, i, n) = ByteAt(from, i, n)
          BY <1>8, <1>11, <1>14, <3>1
        <4> HIDE DEF c
        <4> QED BY <2>2, <4>1, <4>2
      <3>2. CASE i \notin Offsets(count)
        <4>1. c[i] = Constant(1).at
          BY <2>4, <3>2
        <4>2. \A n \in path[s] : ByteAt(os, i, n) = 1
          BY <1>8, <1>13, <1>14, <3>2
        <4> HIDE DEF c
        <4> QED BY <1>8, <2>3, <4>1, <4>2
      <3> QED BY <3>1, <3>2
    <2>6. c \in [Offsets(size) -> [Input -> Nat]]
      BY <2>5
    <2> HIDE DEF c
    <2> QED BY <2>5, <2>6 DEF Means
  <1> HIDE DEF c
  <1>17. Core(objects, heap, mos, key, native, path, mem) /\ 1 \notin {m}
    BY <1>9, InvCore
  <1>18. Core(objs, heap, mos, key, native, path, mm)
    BY <1>8, <1>17, Unbound
  <1>19. /\ DOMAIN objs = DOMAIN objects /\ objs[s] = Drop(objects[s], {m})
         /\ \A u \in DOMAIN objects \ {s} : objs[u] = objects[u]
    BY <1>8 DEF unbindObject
  <1>20. DOMAIN objs[s] = DOMAIN objects[s] \ {m}
    BY <1>19 DEF Drop
  <1> HIDE DEF objs
  <1>21. Frames(objs, mos, allocas)
    <2>1. Frames(objects, mos, allocas)
      BY DEF MemoryInv
    <2> QED BY <1>7, <1>19, <1>20, <2>1 DEF Frames
  <1>22. mem' = [mm EXCEPT ![s] = Set(@, NewMO, c)]
    <2>1. DOMAIN mm = DOMAIN mem /\ mm[s] = Drop(mem[s], {m}) /\ \A u \in DOMAIN mem \ {s} : mm[u] = mem[u]
      BY <1>8
    <2>2. mem' = [mem EXCEPT ![s] = Set(mm[s], NewMO, c)]
      BY <1>3, <1>8, <2>1
    <2> HIDE DEF mm
    <2> QED BY <1>8, <2>1, <2>2
  <1> HIDE DEF mm
  <1>23. FALSE \in BOOLEAN
    OBVIOUS
  <1>24. Allocated(s, a, size, FALSE, os, objs)
    BY <1>3
  <1> QED BY <1>1, <1>4, <1>14, <1>15, <1>16, <1>18, <1>19, <1>21, <1>22, <1>23, <1>24, AllocatedKeeps

\* ~ExecutionState, of a state whose memory is in order.
LEMMA DeleteKeeps ==
  ASSUME MemoryInv, Operation, NEW s \in Alive, NEW objs, NEW hp, NEW pth, NEW mm,
         Delete(s, objs, hp), Core(objs, hp, mos, key, native, pth, mm),
         DOMAIN objs = DOMAIN objects, Frames(objs, mos, allocas), Grows(hp),
         path' = Drop(pth, {s}), mem' = Drop(mm, {s}), UNCHANGED <<slot, native, fault>>
  PROVE  MemoryInv'
PROOF
  <1> DEFINE listed == [m \in MO |-> -Times(symbolics[s], m)]
             rest == Drop(objs, {s})
  <1>1. /\ Commit(rest, hp, mos, listed) /\ key' = Drop(key, {s})
        /\ symbolics' = Drop(symbolics, {s}) /\ allocas' = Drop(allocas, {s})
    BY DEF Delete
  <1>2. listed \in [MO -> {listed[m] : m \in MO}] /\ \A m \in MO : listed[m] = -Times(symbolics[s], m)
    OBVIOUS
  <1>3. /\ DOMAIN rest = DOMAIN objects \ {s} /\ \A u \in DOMAIN objects \ {s} : rest[u] = objs[u]
    BY DEF Drop
  <1>4. Core(rest, hp, mos, Drop(key, {s}), native, Drop(pth, {s}), Drop(mm, {s}))
    BY Deleted
  <1> HIDE DEF listed, rest
  <1>5. Core(rest, hp, mos, key', native', path', mem')
    BY <1>1, <1>4
  <1>6. Layout(mos, slot')
    BY DEF MemoryInv
  <1>7. Frames(rest, mos, allocas')
    <2>1. DOMAIN allocas' = DOMAIN objects \ {s} /\ \A u \in DOMAIN objects \ {s} : allocas'[u] = allocas[u]
      BY <1>1 DEF Drop, Frames
    <2> QED BY <1>3, <2>1 DEF Frames
  <1>8. /\ ops < MaxOps /\ ops' = ops + 1 /\ fault' = "none" /\ determ' = determ
    BY DEF Operation
  <1>9. /\ ops \in Nat /\ ops' \in 0 .. MaxOps /\ DOMAIN symbolics = DOMAIN objects /\ ops <= MaxOps
        /\ \A u \in DOMAIN objects :
             symbolics[u] \in Seq(DOMAIN mos) /\ Len(symbolics[u]) <= ops /\ Len(symbolics[u]) \in Nat
    BY <1>8, Bounds DEF MemoryInv, Listing
  <1>10. Listing(rest, mos, symbolics', ops')
    <2>1. /\ DOMAIN symbolics' = DOMAIN objects \ {s}
          /\ \A u \in DOMAIN objects \ {s} : symbolics'[u] = symbolics[u]
      BY <1>1, <1>9 DEF Drop
    <2>2. \A u \in DOMAIN objects \ {s} :
            symbolics'[u] \in Seq(DOMAIN mos) /\ Len(symbolics'[u]) <= ops'
      BY <1>8, <1>9, <2>1
    <2> QED BY <1>3, <1>9, <2>1, <2>2 DEF Listing
  <1>11. Tally(listed, symbolics')
    <2>1. s \in State /\ s \in DOMAIN symbolics /\ symbolics[s] \in Seq(DOMAIN mos)
      BY StateHere
    <2>2. Len(symbolics[s]) <= MaxOps
      BY <1>9, <2>1, Bounds
    <2>3. ASSUME NEW k \in MO
          PROVE  listed[k] = Cardinality(Lists(symbolics', k)) - Cardinality(Lists(symbolics, k))
      <3>1. /\ Cardinality(Lists(symbolics, k))
                 = Cardinality(Lists(Drop(symbolics, {s}), k)) + Times(symbolics[s], k)
            /\ Times(symbolics[s], k) \in Nat
        BY <2>1, <2>2, ListsSplit
      <3>2. Cardinality(Lists(symbolics', k)) = Cardinality(Lists(Drop(symbolics, {s}), k))
        BY <1>1
      <3>3. Cardinality(Lists(symbolics', k)) \in Nat
        BY ListsFinite
      <3> QED BY <1>2, <3>1, <3>2, <3>3
    <2> QED BY <2>3 DEF Tally
  <1> QED BY <1>1, <1>5, <1>6, <1>7, <1>8, <1>10, <1>11, CommitKeeps

\* The executor deletes a state.
LEMMA TerminateKeeps ==
  ASSUME MemoryInv, NEW s, Terminate(s)
  PROVE  MemoryInv'
PROOF
  <1>1. /\ s \in Alive /\ Operation /\ Delete(s, objects, heap) /\ path' = Drop(path, {s})
        /\ mem' = Drop(mem, {s}) /\ UNCHANGED <<slot, native, fault>>
    BY DEF Terminate, Ready
  <1>2. Core(objects, heap, mos, key, native, path, mem) /\ Frames(objects, mos, allocas)
    BY InvCore DEF MemoryInv
  <1> QED BY <1>1, <1>2, GrowsItself, DeleteKeeps

\* ExecutionState::branch: both sides have the entries of the one state.
LEMMA ForkKeeps ==
  ASSUME MemoryInv, NEW s, Fork(s)
  PROVE  MemoryInv'
PROOF
  <1> DEFINE t == NewState
             listed == [m \in MO |-> Times(symbolics[s], m)]
             objs == Set(objects, t, objects[s])
  <1>1. /\ s \in Alive /\ Operation /\ Room(0, 0, 1) /\ UNCHANGED <<slot, native, fault>>
        /\ Commit(objs, heap, mos, listed) /\ key' = Epochs(s, t)
        /\ symbolics' = Set(symbolics, t, symbolics[s]) /\ allocas' = Set(allocas, t, allocas[s])
        /\ mem' = Set(mem, t, mem[s])
    BY DEF Fork, Ready
  <1>2. PICK c \in Feasible(s) : path' = Set([path EXCEPT ![s] = @ \cap c], t, path[s] \ c)
    BY DEF Fork
  <1> DEFINE yes == path[s] \cap c
             no == path[s] \ c
  <1>3. /\ yes \subseteq path[s] /\ yes # {} /\ no \subseteq path[s] /\ no # {}
    BY DEF Feasible
  <1>4. /\ s \in DOMAIN objects /\ s \in State /\ t \in State /\ t \notin DOMAIN objects
    <2>1. s \in DOMAIN objects /\ s \in State
      BY <1>1, StateHere
    <2>2. t \in State /\ t \notin Alive
      BY <1>1, NewPlaces
    <2> QED BY <2>1, <2>2 DEF Alive
  <1> HIDE DEF t
  <1>5. \A m \in MO : listed[m] = Times(symbolics[s], m)
    OBVIOUS
  <1>6. /\ DOMAIN objs = DOMAIN objects \cup {t} /\ objs[t] = objects[s]
        /\ \A u \in DOMAIN objects : objs[u] = objects[u]
    BY <1>4 DEF Set
  <1>7. path' = Set([path EXCEPT ![s] = yes], t, no)
    BY <1>2
  <1> HIDE DEF yes, no, listed
  <1>8. Core(objs, heap, mos, Set([key EXCEPT ![s] = @ + 1], t, key[s] + 1), native,
             Set([path EXCEPT ![s] = yes], t, no), Set(mem, t, mem[s]))
    BY <1>3, <1>4, InvCore, Branched
  <1> HIDE DEF objs
  <1>9. Core(objs, heap, mos, key', native', path', mem')
    BY <1>1, <1>7, <1>8 DEF Epochs
  <1>10. Layout(mos, slot')
    BY <1>1 DEF MemoryInv
  <1>11. Frames(objs, mos, allocas')
    <2>1. Frames(objects, mos, allocas)
      BY DEF MemoryInv
    <2>2. /\ DOMAIN allocas' = DOMAIN objects \cup {t} /\ allocas'[t] = allocas[s]
          /\ \A u \in DOMAIN objects : allocas'[u] = allocas[u]
      BY <1>1, <1>4, <2>1 DEF Set, Frames
    <2> QED BY <1>4, <1>6, <2>1, <2>2 DEF Frames
  <1>12. /\ ops < MaxOps /\ ops' = ops + 1 /\ fault' = "none" /\ determ' = determ
    BY <1>1 DEF Operation
  <1>13. /\ ops \in Nat /\ ops' \in 0 .. MaxOps /\ DOMAIN symbolics = DOMAIN objects /\ ops <= MaxOps
         /\ \A u \in DOMAIN objects :
              symbolics[u] \in Seq(DOMAIN mos) /\ Len(symbolics[u]) <= ops /\ Len(symbolics[u]) \in Nat
    BY <1>12, Bounds DEF MemoryInv, Listing
  <1>14. /\ DOMAIN symbolics' = DOMAIN objects \cup {t} /\ symbolics'[t] = symbolics[s]
         /\ \A u \in DOMAIN objects : symbolics'[u] = symbolics[u]
    BY <1>1, <1>4, <1>13 DEF Set
  <1>15. \A u \in DOMAIN objects \cup {t} :
           symbolics'[u] \in Seq(DOMAIN mos) /\ Len(symbolics'[u]) <= ops /\ Len(symbolics'[u]) \in Nat
    BY <1>4, <1>13, <1>14
  <1>16. Listing(objs, mos, symbolics', ops')
    <2>1. \A u \in DOMAIN objs :
            symbolics'[u] \in Seq(DOMAIN mos) /\ Len(symbolics'[u]) <= ops'
      BY <1>6, <1>12, <1>13, <1>15
    <2> QED BY <1>6, <1>13, <1>14, <2>1 DEF Listing
  <1>17. Tally(listed, symbolics')
    <2>1. ASSUME NEW k \in MO
          PROVE  listed[k] = Cardinality(Lists(symbolics', k)) - Cardinality(Lists(symbolics, k))
      <3>1. PICK syms : syms = symbolics'
        OBVIOUS
      <3>2. t \in DOMAIN syms /\ syms[t] \in Seq(DOMAIN mos) /\ Len(syms[t]) <= MaxOps
        BY <1>13, <1>14, <1>15, <3>1, Bounds
      <3>3. /\ Cardinality(Lists(syms, k))
                 = Cardinality(Lists(Drop(syms, {t}), k)) + Times(syms[t], k)
            /\ Times(syms[t], k) \in Nat
        BY <1>4, <3>2, ListsSplit
      <3>4. Lists(Drop(syms, {t}), k) = Lists(symbolics, k)
        <4>1. /\ DOMAIN Drop(syms, {t}) = DOMAIN symbolics
              /\ \A u \in DOMAIN symbolics : Drop(syms, {t})[u] = symbolics[u]
          BY <1>4, <1>13, <1>14, <3>1 DEF Drop
        <4> QED BY <4>1 DEF Lists
      <3>5. Cardinality(Lists(symbolics, k)) \in Nat
        BY ListsFinite
      <3>6. listed[k] = Times(syms[t], k)
        BY <1>5, <1>14, <3>1
      <3>7. Cardinality(Lists(symbolics', k)) = Cardinality(Lists(symbolics, k)) + listed[k]
        BY <3>1, <3>3, <3>4, <3>6
      <3> QED BY <3>3, <3>5, <3>6, <3>7
    <2> QED BY <2>1 DEF Tally
  <1> QED BY <1>1, <1>9, <1>10, <1>11, <1>12, <1>16, <1>17, GrowsItself, CommitKeeps

\* A set has an injection into one that is not smaller.
LEMMA InjectionExists ==
  ASSUME NEW S, NEW T, IsFiniteSet(S), IsFiniteSet(T), Cardinality(S) <= Cardinality(T)
  PROVE  \E f \in [S -> T] : IsInjective(f)
PROOF
  <1>1. /\ Cardinality(S) \in Nat /\ ExistsBijection(1 .. Cardinality(S), S)
        /\ Cardinality(T) \in Nat /\ ExistsBijection(1 .. Cardinality(T), T)
    BY FS_CardinalityType
  <1>2. ExistsInjection(S, 1 .. Cardinality(S)) /\ ExistsInjection(1 .. Cardinality(T), T)
    BY <1>1, Fun_ExistsBijEquiv
  <1>3. ExistsInjection(1 .. Cardinality(S), 1 .. Cardinality(T))
    BY <1>1, Fun_NatInjLeq
  <1>4. ExistsInjection(S, 1 .. Cardinality(T))
    BY <1>2, <1>3, Fun_ExistsInjTransitive
  <1>5. ExistsInjection(S, T)
    BY <1>2, <1>4, Fun_ExistsInjTransitive
  <1> QED BY <1>5, Fun_ExistsInj DEF Injection

\* A merged object has the bytes of the first state for the inputs of its path,
\* and those of the second one for the others.
LEMMA MergedMeaning ==
  ASSUME MemoryInv, NEW a \in Alive, NEW b \in Alive, NEW m,
         m \in DOMAIN objects[a], m \in DOMAIN objects[b]
  PROVE  /\ Mine(MergedBytes(a, b, m), m, mos[m].size, key[a])
         /\ \A i \in Offsets(mos[m].size), n \in Input :
              ByteAt(MergedBytes(a, b, m), i, n)
                = IF n \in path[a] THEN ByteAt(heap[objects[a][m]], i, n)
                  ELSE ByteAt(heap[objects[b][m]], i, n)
PROOF
  <1> DEFINE size == mos[m].size
             oa == heap[objects[a][m]]
             ob == heap[objects[b][m]]
             base == Copied(oa, key[a])
             sel(i) == Select(path[a], read8(oa, Constant(i)), read8(ob, Constant(i)))
             new == [i \in Offsets(size) |-> sel(i)]
             w == write8Known(base, new)
  <1>1. /\ oa.object = m /\ WellFormed(oa, size) /\ WellFormed(ob, size)
        /\ size \in Nat /\ size <= MaxSize
    BY Here
  <1>2. key[a] \in Nat
    BY StateHere
  <1>3. MergedBytes(a, b, m) = w
    BY DEF MergedBytes
  <1> HIDE DEF oa, ob, size
  <1>4. Mine(base, m, size, key[a])
    BY <1>1, <1>2, CopiedMeaning
  <1> HIDE DEF base
  <1>5. ASSUME NEW i \in Offsets(size)
        PROVE  /\ sel(i) \in Expr
               /\ \A n \in Input : sel(i).at[n] = IF n \in path[a] THEN ByteAt(oa, i, n) ELSE ByteAt(ob, i, n)
    <2> DEFINE ra == read8(oa, Constant(i))
               rb == read8(ob, Constant(i))
    <2>1. i \in Nat
      BY <1>1 DEF Offsets
    <2>2. Constant(i) \in Expr /\ \A n \in Input : Constant(i).at[n] = i
      BY <2>1, ConstantValue
    <2>3. OffsetOf(Constant(i), size)
      BY <2>2 DEF OffsetOf
    <2>4. /\ ra \in Expr /\ \A n \in Input : ra.at[n] = ByteAt(oa, i, n)
          /\ rb \in Expr /\ \A n \in Input : rb.at[n] = ByteAt(ob, i, n)
      <3> HIDE DEF ra, rb
      <3>1. ra \in Expr /\ \A n \in Input : ra.at[n] = ByteAt(oa, Constant(i).at[n], n)
        BY <1>1, <2>3, ReadMeaning DEF ra
      <3>2. rb \in Expr /\ \A n \in Input : rb.at[n] = ByteAt(ob, Constant(i).at[n], n)
        BY <1>1, <2>3, ReadMeaning DEF rb
      <3> QED BY <2>2, <3>1, <3>2
    <2> HIDE DEF ra, rb
    <2>5. CASE ra = rb
      <3>1. sel(i) = ra
        BY <2>5 DEF Select, ra, rb
      <3>2. \A n \in Input : ByteAt(oa, i, n) = ByteAt(ob, i, n)
        BY <2>4, <2>5
      <3> HIDE DEF sel
      <3> QED BY <2>4, <3>1, <3>2
    <2>6. CASE ra # rb
      <3> DEFINE at == [n \in Input |-> IF n \in path[a] THEN ra.at[n] ELSE rb.at[n]]
      <3>1. sel(i) = [const |-> FALSE, at |-> at]
        BY <2>6 DEF Select, ra, rb
      <3>2. at \in [Input -> Nat]
        BY <2>4, ExprValue
      <3>3. \A n \in Input : at[n] = IF n \in path[a] THEN ByteAt(oa, i, n) ELSE ByteAt(ob, i, n)
        BY <2>4
      <3> HIDE DEF at, sel
      <3>4. sel(i) \in Expr /\ sel(i).at = at
        BY <3>1, <3>2 DEF Expr
      <3> QED BY <3>3, <3>4
    <2> QED BY <2>5, <2>6
  <1>6. new \in [Offsets(size) -> Expr] /\ \A i \in Offsets(size) : new[i] = sel(i)
    BY <1>5
  <1>7. /\ WellFormed(w, size) /\ w.object = base.object /\ w.owner = base.owner
        /\ w.readOnly = base.readOnly
        /\ \A i \in Offsets(size), n \in Input :
             ByteAt(w, i, n) = IF i \in Offsets(size) THEN new[i].at[n] ELSE ByteAt(base, i, n)
    <2> HIDE DEF new
    <2>1. PICK D \in SUBSET Offsets(size) : D = Offsets(size)
      OBVIOUS
    <2>2. new \in [D -> Expr] /\ WellFormed(base, size)
      BY <1>4, <1>6, <2>1 DEF Mine
    <2> QED BY <1>1, <2>1, <2>2, WriteKnownMeaning
  <1> HIDE DEF w, new, sel
  <1>8. Mine(w, m, size, key[a])
    BY <1>4, <1>7 DEF Mine
  <1>9. \A i \in Offsets(size), n \in Input :
          ByteAt(w, i, n) = IF n \in path[a] THEN ByteAt(oa, i, n) ELSE ByteAt(ob, i, n)
    BY <1>5, <1>6, <1>7
  <1> QED BY <1>3, <1>8, <1>9 DEF size, oa, ob

\* what Merge gives the first state: the object states that need a copy, where
\* its objects are then, the heap and the contents
Copies(a, b) == {m \in Mutated(a, b) : ~Writeable(a, m)}
Target(a, b, new) ==
  [m \in DOMAIN objects[a] |-> IF m \in Copies(a, b) THEN new[m] ELSE objects[a][m]]
MergedHeap(a, b, target) ==
  [o \in DOMAIN heap \cup {target[m] : m \in Copies(a, b)} |->
     IF \E m \in Mutated(a, b) : target[m] = o
     THEN MergedBytes(a, b, CHOOSE m \in Mutated(a, b) : target[m] = o)
     ELSE heap[o]]
MergedContents(a, b) ==
  [m \in DOMAIN mem[a] |-> [i \in DOMAIN mem[a][m] |-> [in \in Input |->
     IF in \in path[a] THEN mem[a][m][i][in] ELSE mem[b][m][i][in]]]]

\* Every object that differs is merged into a place of its own.
LEMMA MergeRebinds ==
  ASSUME MemoryInv, NEW a \in Alive, NEW b \in Alive \ {a}, DOMAIN objects[a] = DOMAIN objects[b],
         NEW new \in [Copies(a, b) -> OS \ DOMAIN heap], IsInjective(new)
  PROVE  LET target == Target(a, b, new)
             M == Mutated(a, b)
             hp == MergedHeap(a, b, target)
         IN  /\ Rebinds(objects, heap, key, a, target, M, hp, mos)
             /\ \A m \in M : hp[target[m]] = MergedBytes(a, b, m)
PROOF
  <1> DEFINE M == Mutated(a, b)
             C == Copies(a, b)
             target == Target(a, b, new)
             hp == MergedHeap(a, b, target)
  <1>1. /\ 1 \in DOMAIN objects[a] /\ objects[a][1] = 1 /\ objects[b][1] = 1 /\ 1 \in DOMAIN heap
        /\ a \in DOMAIN objects
    BY StateHere
  <1>2. /\ M \subseteq DOMAIN objects[a] /\ C \subseteq M /\ 1 \notin M
        /\ \A m \in M \ C : heap[objects[a][m]].owner = key[a]
    BY <1>1 DEF Mutated, Copies, Writeable
  <1>3. /\ DOMAIN target = DOMAIN objects[a] /\ \A m \in C : target[m] = new[m]
        /\ \A m \in DOMAIN objects[a] \ C : target[m] = objects[a][m]
        /\ target = [m \in DOMAIN target |-> target[m]]
    BY <1>2 DEF Target
  <1>4. \A m \in C : new[m] \in OS /\ new[m] \notin DOMAIN heap
    OBVIOUS
  <1>5. /\ DOMAIN hp = DOMAIN heap \cup {target[m] : m \in C}
        /\ \A o \in DOMAIN hp : hp[o] = IF \E m \in M : target[m] = o
                                        THEN MergedBytes(a, b, CHOOSE m \in M : target[m] = o)
                                        ELSE heap[o]
    BY DEF MergedHeap
  <1>6. \A m \in DOMAIN objects[a] : /\ objects[a][m] \in DOMAIN heap /\ objects[a][m] \in OS
                                     /\ heap[objects[a][m]].object = m /\ m \in DOMAIN mos
                                     /\ (m = 1 <=> objects[a][m] = 1)
    BY Here
  <1>7. \A m \in C, k \in C : new[m] = new[k] => m = k
    BY DEF IsInjective
  <1> HIDE DEF M, C, target, hp
  <1>8. ASSUME NEW m \in M, NEW k \in M, target[m] = target[k]
        PROVE  m = k
    <2>1. CASE m \in C /\ k \in C
      BY <1>3, <1>7, <1>8, <2>1
    <2>2. CASE m \in C /\ k \notin C
      BY <1>2, <1>3, <1>4, <1>6, <1>8, <2>2
    <2>3. CASE m \notin C /\ k \in C
      BY <1>2, <1>3, <1>4, <1>6, <1>8, <2>3
    <2>4. CASE m \notin C /\ k \notin C
      <3>1. target[m] = objects[a][m] /\ target[k] = objects[a][k]
        BY <1>2, <1>3, <2>4
      <3>2. heap[objects[a][m]].object = m /\ heap[objects[a][k]].object = k
        BY <1>2, <1>6
      <3>3. objects[a][m] = objects[a][k]
        BY <1>8, <3>1
      <3> QED BY <3>2, <3>3
    <2> QED BY <2>1, <2>2, <2>3, <2>4
  <1>9. ASSUME NEW m \in M
        PROVE  target[m] \in DOMAIN hp /\ hp[target[m]] = MergedBytes(a, b, m)
    <2>1. target[m] \in DOMAIN hp
      BY <1>2, <1>3, <1>5, <1>6
    <2>2. (CHOOSE k \in M : target[k] = target[m]) = m
      BY <1>8
    <2> QED BY <1>5, <2>1, <2>2
  <1>10. ASSUME NEW m \in M
         PROVE  /\ target[m] \in OS /\ target[m] # 1 /\ Own(objects, heap, key, a, m, target[m])
                /\ m \in DOMAIN mos /\ WellFormed(hp[target[m]], mos[m].size)
                /\ hp[target[m]].object = m /\ hp[target[m]].owner = key[a]
                /\ hp[target[m]].readOnly = FALSE
    <2>1. m \in DOMAIN objects[a] /\ m \in DOMAIN objects[b] /\ b \in Alive
      BY <1>2
    <2>2. Mine(MergedBytes(a, b, m), m, mos[m].size, key[a])
      BY <2>1, MergedMeaning
    <2>3. Mine(hp[target[m]], m, mos[m].size, key[a])
      BY <1>9, <2>2
    <2>4. target[m] \in OS /\ target[m] # 1 /\ Own(objects, heap, key, a, m, target[m])
      BY <1>1, <1>2, <1>3, <1>4, <1>6, <2>1 DEF Own
    <2> QED BY <1>6, <2>1, <2>3, <2>4 DEF Mine
  <1>11. DOMAIN hp = DOMAIN heap \cup {target[m] : m \in M}
    BY <1>2, <1>3, <1>5, <1>6
  <1>12. \A o \in DOMAIN heap : (\A m \in M : target[m] # o) => hp[o] = heap[o]
    BY <1>5
  <1>13. \A m \in DOMAIN target \ M : m \in DOMAIN objects[a] /\ target[m] = objects[a][m]
    BY <1>2, <1>3
  <1>14. a \in DOMAIN objects /\ M \subseteq DOMAIN target /\ 1 \in DOMAIN target /\ 1 \notin M
    BY <1>1, <1>2, <1>3
  <1>15. Rebinds(objects, heap, key, a, target, M, hp, mos)
    BY <1>3, <1>10, <1>11, <1>12, <1>13, <1>14 DEF Rebinds
  <1> QED BY <1>9, <1>15 DEF M, target, hp

\* The merged objects hold what either path left there.
LEMMA MergeHolding ==
  ASSUME MemoryInv, NEW a \in Alive, NEW b \in Alive \ {a}, DOMAIN objects[a] = DOMAIN objects[b],
         NEW target, NEW hp, DOMAIN target = DOMAIN objects[a],
         Rebinds(objects, heap, key, a, target, Mutated(a, b), hp, mos),
         \A m \in Mutated(a, b) : hp[target[m]] = MergedBytes(a, b, m)
  PROVE  Holding(target, hp, mos, path[a] \cup path[b], MergedContents(a, b))
PROOF
  <1> DEFINE in == path[a] \cup path[b]
             c == MergedContents(a, b)
             M == Mutated(a, b)
  <1>1. /\ Holding(objects[a], heap, mos, path[a], mem[a]) /\ path[a] \subseteq Input
        /\ Holding(objects[b], heap, mos, path[b], mem[b]) /\ path[b] \subseteq Input
        /\ DOMAIN mem[a] = DOMAIN objects[a]
    BY StateHere
  <1>2. path[a] # {}
    BY <1>1 DEF Holding
  <1>3. Bindings(objects, heap, mos) /\ Owned(objects, heap, key)
    BY DEF MemoryInv
  <1>4. \A m \in DOMAIN target \ M : hp[target[m]] = heap[target[m]]
    BY <1>3, RebindsRest
  <1>5. ASSUME NEW m \in DOMAIN target
        PROVE  Means(hp[target[m]], mos[m].size, in, c[m])
    <2> DEFINE size == mos[m].size
               oa == heap[objects[a][m]]
               ob == heap[objects[b][m]]
    <2>1. /\ m \in DOMAIN objects[a] /\ m \in DOMAIN objects[b]
          /\ Means(oa, size, path[a], mem[a][m]) /\ Means(ob, size, path[b], mem[b][m])
      BY <1>1 DEF Holding
    <2>2. /\ mem[a][m] \in [Offsets(size) -> [Input -> Nat]] /\ DOMAIN mem[a][m] = Offsets(size)
          /\ mem[b][m] \in [Offsets(size) -> [Input -> Nat]]
          /\ \A i \in Offsets(size), n \in path[a] : mem[a][m][i][n] = ByteAt(oa, i, n)
          /\ \A i \in Offsets(size), n \in path[b] : mem[b][m][i][n] = ByteAt(ob, i, n)
      BY <2>1 DEF Means
    <2>3. \A i \in Offsets(size) : \A n \in Input : mem[a][m][i][n] \in Nat /\ mem[b][m][i][n] \in Nat
      BY <2>2
    <2>4. c[m] = [i \in Offsets(size) |-> [n \in Input |->
                    IF n \in path[a] THEN mem[a][m][i][n] ELSE mem[b][m][i][n]]]
      BY <1>1, <2>1, <2>2 DEF MergedContents
    <2>5. /\ c[m] \in [Offsets(size) -> [Input -> Nat]]
          /\ \A i \in Offsets(size), n \in Input :
               c[m][i][n] = IF n \in path[a] THEN mem[a][m][i][n] ELSE mem[b][m][i][n]
      <3> HIDE DEF c, size
      <3> QED BY <2>3, <2>4
    <2>6. \A i \in Offsets(size), n \in Input :
            ByteAt(hp[target[m]], i, n) = IF n \in path[a] THEN ByteAt(oa, i, n) ELSE ByteAt(ob, i, n)
      <3>1. CASE m \in M
        <4>1. b \in Alive
          OBVIOUS
        <4>2. \A i \in Offsets(mos[m].size), n \in Input :
                ByteAt(MergedBytes(a, b, m), i, n)
                  = IF n \in path[a] THEN ByteAt(heap[objects[a][m]], i, n)
                    ELSE ByteAt(heap[objects[b][m]], i, n)
          BY <2>1, <4>1, MergedMeaning
        <4> QED BY <3>1, <4>2
      <3>2. CASE m \notin M
        <4>1. target[m] = objects[a][m] /\ objects[a][m] = objects[b][m]
          BY <2>1, <3>2 DEF Rebinds, Mutated
        <4>2. hp[target[m]] = oa /\ oa = ob
          BY <1>4, <3>2, <4>1
        <4> HIDE DEF oa, ob
        <4> QED BY <4>2
      <3> QED BY <3>1, <3>2
    <2> HIDE DEF c, size, oa, ob
    <2>7. \A i \in Offsets(size), n \in in : c[m][i][n] = ByteAt(hp[target[m]], i, n)
      BY <1>1, <2>2, <2>5, <2>6
    <2> HIDE DEF in
    <2> QED BY <2>5, <2>7 DEF Means, size
  <1>6. DOMAIN c = DOMAIN target /\ c = [m \in DOMAIN c |-> c[m]]
    BY <1>1 DEF MergedContents
  <1> HIDE DEF c
  <1> QED BY <1>1, <1>2, <1>5, <1>6 DEF Holding, c

\* ExecutionState::merge: both paths go on in the first state.
LEMMA MergeKeeps ==
  ASSUME MemoryInv, NEW a, NEW b, Merge(a, b)
  PROVE  MemoryInv'
PROOF
  <1> DEFINE new == CHOOSE f \in [Copies(a, b) -> OS \ DOMAIN heap] : IsInjective(f)
             target == Target(a, b, new)
             hp == MergedHeap(a, b, target)
             objs == [objects EXCEPT ![a] = target]
             pth == [path EXCEPT ![a] = path[a] \cup path[b]]
             mm == [mem EXCEPT ![a] = MergedContents(a, b)]
  <1>1. /\ a \in Alive /\ b \in Alive \ {a} /\ b \in Alive /\ Operation
        /\ DOMAIN objects[a] = DOMAIN objects[b] /\ UNCHANGED <<slot, native>>
    BY DEF Merge, Ready
  <1>2. /\ a \in DOMAIN objects /\ a \in DOMAIN path /\ DOMAIN mem = DOMAIN objects
        /\ 1 \in DOMAIN objects[a] /\ objects[a][1] = 1 /\ objects[b][1] = 1
    BY <1>1, StateHere DEF Alive
  <1>3. ~\E m \in Mutated(a, b) : heap[objects[a][m]].readOnly
    <2>1. ASSUME NEW m \in Mutated(a, b) PROVE ~heap[objects[a][m]].readOnly
      <3>1. m \in DOMAIN objects[a] /\ m # 1
        BY <1>2 DEF Mutated
      <3> QED BY <1>1, <3>1, Here
    <2> QED BY <2>1
  <1>4. /\ Room(Cardinality(Copies(a, b)), 0, 0) /\ Delete(b, objs, hp)
        /\ path' = [Drop(path, {b}) EXCEPT ![a] = path[a] \cup path[b]]
        /\ mem' = [Drop(mem, {b}) EXCEPT ![a] = [m \in DOMAIN @ |-> [i \in DOMAIN @[m] |->
                     [in \in Input |-> IF in \in path[a] THEN mem[a][m][i][in]
                                       ELSE mem[b][m][i][in]]]]]
        /\ UNCHANGED fault
    BY <1>3 DEF Merge, Copies, Target, MergedHeap
  <1>5. new \in [Copies(a, b) -> OS \ DOMAIN heap] /\ IsInjective(new)
    <2>1. IsFiniteSet(Copies(a, b))
      <3>1. Copies(a, b) \subseteq MO
        BY <1>1, Here DEF Copies, Mutated
      <3> QED BY <3>1, Bounds, FS_Subset
    <2>2. IsFiniteSet(OS \ DOMAIN heap)
      BY Bounds, FS_Subset
    <2>3. /\ Cardinality(Copies(a, b)) \in Nat /\ Cardinality(OS \ DOMAIN heap) \in Nat
          /\ Cardinality(Copies(a, b)) <= Cardinality(OS \ DOMAIN heap)
      BY <1>4, <2>1, <2>2, FS_CardinalityType DEF Room
    <2>4. \E f \in [Copies(a, b) -> OS \ DOMAIN heap] : IsInjective(f)
      BY <2>1, <2>2, <2>3, InjectionExists
    <2> QED BY <2>4
  <1> HIDE DEF new
  <1>6. /\ Rebinds(objects, heap, key, a, target, Mutated(a, b), hp, mos)
        /\ \A m \in Mutated(a, b) : hp[target[m]] = MergedBytes(a, b, m)
    BY <1>1, <1>5, MergeRebinds
  <1>7. DOMAIN target = DOMAIN objects[a]
    BY DEF Target
  <1> HIDE DEF target, hp
  <1>8. Holding(target, hp, mos, path[a] \cup path[b], MergedContents(a, b))
    BY <1>1, <1>6, <1>7, MergeHolding
  <1>9. Core(objects, heap, mos, key, native, path, mem) /\ Extends(mos, mos)
    BY InvCore, ExtendsItself
  <1>10. Core(objs, hp, mos, key, native, pth, mm)
    BY <1>6, <1>8, <1>9, Rebound
  <1>11. path' = Drop(pth, {b})
    BY <1>1, <1>2, <1>4 DEF Drop
  <1>12. mem' = Drop(mm, {b})
    <2>1. /\ DOMAIN Drop(mem, {b}) = DOMAIN mem \ {b} /\ Drop(mem, {b})[a] = mem[a]
          /\ \A u \in DOMAIN mem \ {b} : Drop(mem, {b})[u] = mem[u]
      BY <1>1, <1>2 DEF Drop
    <2>2. mem' = [Drop(mem, {b}) EXCEPT ![a] = MergedContents(a, b)]
      BY <1>4, <2>1 DEF MergedContents
    <2> QED BY <1>1, <1>2, <2>2 DEF Drop
  <1>13. /\ DOMAIN objs = DOMAIN objects /\ objs[a] = target
         /\ \A u \in DOMAIN objects \ {a} : objs[u] = objects[u]
    BY <1>2
  <1> HIDE DEF objs, pth, mm
  <1>14. Frames(objs, mos, allocas)
    <2>1. Frames(objects, mos, allocas)
      BY DEF MemoryInv
    <2> QED BY <1>7, <1>13, <2>1 DEF Frames
  <1>15. Grows(hp)
    <2>1. Bindings(objects, heap, mos) /\ Owned(objects, heap, key)
      BY DEF MemoryInv
    <2>2. \A o \in DOMAIN heap : hp[o].object = heap[o].object
      BY <1>6, <2>1, RebindsRest
    <2>3. DOMAIN heap \subseteq DOMAIN hp
      BY <1>6 DEF Rebinds
    <2> QED BY <2>2, <2>3 DEF Grows
  <1> QED BY <1>1, <1>4, <1>10, <1>11, <1>12, <1>13, <1>14, <1>15, DeleteKeeps

(***************************************************************************)
(* The initial state                                                       *)
(***************************************************************************)

\* an object that the program starts with, and what is known of it
InitialOS(m, size, r) ==
  [Filled(Fresh(m, size, UseConstantArrays), 1) EXCEPT !.owner = 1, !.readOnly = r]
Initial(os, m, size, r) ==
  /\ WellFormed(os, size) /\ os.object = m /\ os.owner = 1 /\ os.readOnly = r
  /\ DOMAIN os.known = {} /\ \A i \in Offsets(size), n \in Input : ByteAt(os, i, n) = 1

\* initializeGlobalObjects: the object is filled, and belongs to the first state.
LEMMA InitialObject ==
  ASSUME NEW size \in Nat, NEW m \in Nat, NEW r \in BOOLEAN
  PROVE  Initial(InitialOS(m, size, r), m, size, r)
PROOF
  <1> DEFINE os == InitialOS(m, size, r)
             f == Filled(Fresh(m, size, UseConstantArrays), 1)
  <1>1. UseConstantArrays \in BOOLEAN
    BY MemoryAssumption
  <1>2. PICK v \in Nat : v = 1
    OBVIOUS
  <1>3. /\ WellFormed(Filled(Fresh(m, size, UseConstantArrays), v), size)
        /\ Filled(Fresh(m, size, UseConstantArrays), v).known = << >>
        /\ Filled(Fresh(m, size, UseConstantArrays), v).object = m
        /\ \A i \in Offsets(size), n \in Input :
             ByteAt(Filled(Fresh(m, size, UseConstantArrays), v), i, n) = v
    BY <1>1, NewObject
  <1>4. /\ WellFormed(f, size) /\ f.known = << >> /\ f.object = m
        /\ \A i \in Offsets(size), n \in Input : ByteAt(f, i, n) = 1
    BY <1>2, <1>3
  <1>5. os = [f EXCEPT !.owner = 1, !.readOnly = r]
    BY DEF InitialOS
  <1> HIDE DEF f, os
  <1>6. f \in Shape(size)
    BY <1>4 DEF WellFormed
  <1>7. os = Relabel(f, m, v, r)
    BY <1>2, <1>4, <1>5, <1>6 DEF Relabel, Shape
  <1> DEFINE rel == Relabel(f, m, v, r)
  <1>8. /\ WellFormed(rel, size) /\ rel.object = m /\ rel.owner = v /\ rel.readOnly = r
        /\ rel.known = f.known
        /\ \A i \in Offsets(size), n \in Input : ByteAt(rel, i, n) = ByteAt(f, i, n)
    BY <1>4, Relabelled, SMTT(30)
  <1>9. os = rel /\ DOMAIN << >> = {}
    BY <1>7
  <1> HIDE DEF rel
  <1>10. DOMAIN os.known = {} /\ os.owner = 1
    BY <1>2, <1>4, <1>8, <1>9
  <1>11. Initial(os, m, size, r)
    BY <1>4, <1>8, <1>9, <1>10 DEF Initial
  <1> QED BY <1>11 DEF os

\* The first state has its memory in order.
LEMMA InitInv ==
  ASSUME Init
  PROVE  MemoryInv
PROOF
  <1> DEFINE size == <<1, 2>>
             one == [n \in Input |-> 1]
  <1>1. /\ MaxStates \in Nat /\ MaxObjects \in Nat /\ MaxObjectStates \in Nat /\ MaxSize \in Nat
        /\ RedzoneSize \in Nat /\ MaxOps \in Nat
        /\ MaxStates >= 1 /\ MaxObjects >= 2 /\ MaxObjectStates >= 2 /\ MaxSize >= 2
        /\ Modes \subseteq BOOLEAN
    BY MemoryAssumption
  <1>2. /\ key = [s \in {1} |-> 1] /\ objects = [s \in {1} |-> [m \in {1, 2} |-> m]]
        /\ symbolics = [s \in {1} |-> << >>] /\ allocas = [s \in {1} |-> {}]
        /\ path = [s \in {1} |-> Input]
        /\ refs = [Unlisted EXCEPT ![1] = 1, ![2] = 1]
        /\ determ \in Modes /\ native = [m \in {1} |-> heap[1].store]
        /\ ops = 0 /\ fault = "none"
    BY DEF Init
  <1>3. /\ DOMAIN mos = {1, 2}
        /\ mos[1] = [address |-> 1, size |-> 1, local |-> FALSE, global |-> TRUE]
        /\ mos[2] = [address |-> 2 + RedzoneSize, size |-> 2, local |-> FALSE, global |-> TRUE]
        /\ slot = NextSlot(2 + RedzoneSize, 2)
    <2>1. mos = [m \in {1, 2} |-> [address |-> IF m = 1 THEN 1 ELSE 2 + RedzoneSize,
                                  size |-> size[m], local |-> FALSE, global |-> TRUE]]
      BY DEF Init
    <2>2. slot = NextSlot(IF 2 = 1 THEN 1 ELSE 2 + RedzoneSize, 2)
      BY DEF Init
    <2>3. slot = NextSlot(2 + RedzoneSize, 2)
      BY <2>2
    <2>4. /\ mos[1] = [address |-> IF 1 = 1 THEN 1 ELSE 2 + RedzoneSize,
                       size |-> size[1], local |-> FALSE, global |-> TRUE]
          /\ mos[2] = [address |-> IF 2 = 1 THEN 1 ELSE 2 + RedzoneSize,
                       size |-> size[2], local |-> FALSE, global |-> TRUE]
          /\ DOMAIN mos = {1, 2}
      BY <2>1, Zenon
    <2>5. size[1] = 1 /\ size[2] = 2 /\ 2 # 1
      OBVIOUS
    <2> HIDE DEF size
    <2> QED BY <2>3, <2>4, <2>5
  <1>4. mem = [s \in {1} |-> [m \in {1, 2} |-> [i \in Offsets(size[m]) |-> one]]]
    BY DEF Init, Constant
  <1>5. /\ DOMAIN heap = {1, 2} /\ heap[1] = InitialOS(1, 1, TRUE) /\ heap[2] = InitialOS(2, 2, FALSE)
    <2>1. heap = [o \in {1, 2} |-> InitialOS(o, size[o], o = 1)]
      BY DEF Init, InitialOS
    <2>2. (1 = 1) = TRUE /\ (2 = 1) = FALSE /\ size[1] = 1 /\ size[2] = 2
      OBVIOUS
    <2> QED BY <2>1, <2>2
  <1>6. /\ WellFormed(heap[1], 1) /\ heap[1].object = 1 /\ heap[1].owner = 1 /\ heap[1].readOnly = TRUE
        /\ DOMAIN heap[1].known = {} /\ \A i \in Offsets(1), n \in Input : ByteAt(heap[1], i, n) = 1
    <2>1. PICK m \in Nat, r \in BOOLEAN : m = 1 /\ r = TRUE
      OBVIOUS
    <2>2. Initial(InitialOS(m, m, r), m, m, r)
      BY InitialObject
    <2>3. Initial(heap[1], 1, 1, TRUE)
      BY <1>5, <2>1, <2>2
    <2> QED BY <2>3 DEF Initial
  <1>7. /\ WellFormed(heap[2], 2) /\ heap[2].object = 2 /\ heap[2].owner = 1 /\ heap[2].readOnly = FALSE
        /\ \A i \in Offsets(2), n \in Input : ByteAt(heap[2], i, n) = 1
    <2>1. PICK m \in Nat, r \in BOOLEAN : m = 2 /\ r = FALSE
      OBVIOUS
    <2>2. Initial(InitialOS(m, m, r), m, m, r)
      BY InitialObject
    <2>3. Initial(heap[2], 2, 2, FALSE)
      BY <1>5, <2>1, <2>2
    <2> QED BY <2>3 DEF Initial
  <1>8. /\ {1, 2} \subseteq OS /\ {1, 2} \subseteq MO /\ {1} \subseteq State
    BY <1>1 DEF OS, MO, State
  <1>9. /\ DOMAIN objects = {1} /\ objects[1] = [m \in {1, 2} |-> m] /\ DOMAIN objects[1] = {1, 2}
        /\ objects[1][1] = 1 /\ objects[1][2] = 2
    BY <1>2
  <1>10. Bindings(objects, heap, mos)
    <2>1. \A m \in DOMAIN mos : mos[m] \in MObject
      <3>1. 1 \in 0 .. MaxSize /\ 2 \in 0 .. MaxSize /\ 2 + RedzoneSize \in Nat
        BY <1>1
      <3>2. mos[1] \in MObject /\ mos[2] \in MObject
        BY <1>3, <3>1 DEF MObject
      <3> QED BY <1>3, <3>2
    <2>2. \A o \in DOMAIN heap : /\ heap[o].object \in DOMAIN mos
                                 /\ WellFormed(heap[o], mos[heap[o].object].size)
      <3>1. mos[1].size = 1 /\ mos[2].size = 2
        BY <1>3
      <3> QED BY <1>3, <1>5, <1>6, <1>7, <3>1
    <2>3. objects = [s \in DOMAIN objects |-> objects[s]]
      BY <1>2
    <2>4. \A s \in DOMAIN objects : objects[s] \in [DOMAIN objects[s] -> DOMAIN heap]
      BY <1>5, <1>9
    <2>5. \A s \in DOMAIN objects : \A m \in DOMAIN objects[s] : heap[objects[s][m]].object = m
      BY <1>6, <1>7, <1>9
    <2> QED BY <1>3, <1>5, <1>8, <1>9, <2>1, <2>2, <2>3, <2>4, <2>5 DEF Bindings
  <1>11. DOMAIN heap = Bound(objects)
    BY <1>5, <1>9 DEF Bound
  <1>12. Owned(objects, heap, key)
    BY <1>2, <1>6, <1>7, <1>9 DEF Owned
  <1>13. Constants(objects, heap, mos, native)
    <2>1. \A o \in DOMAIN heap : heap[o].readOnly <=> o = 1
      BY <1>5, <1>6, <1>7
    <2>2. mos[1].global /\ ~mos[1].local
      BY <1>3
    <2> QED BY <1>2, <1>6, <1>9, <2>1, <2>2 DEF Constants
  <1>14. Contents(objects, heap, mos, path, mem)
    <2>1. one \in [Input -> Nat] /\ \A n \in Input : one[n] = 1
      OBVIOUS
    <2>2. /\ DOMAIN mem = {1} /\ mem = [s \in DOMAIN mem |-> mem[s]] /\ DOMAIN mem[1] = {1, 2}
          /\ mem[1] = [m \in DOMAIN mem[1] |-> mem[1][m]]
          /\ mem[1][1] = [i \in Offsets(1) |-> one] /\ mem[1][2] = [i \in Offsets(2) |-> one]
      BY <1>4
    <2> HIDE DEF one
    <2>3. mos[1].size = 1 /\ mos[2].size = 2
      BY <1>3
    <2>4. Means(heap[1], 1, Input, mem[1][1])
      BY <1>6, <2>1, <2>2 DEF Means
    <2>5. Means(heap[2], 2, Input, mem[1][2])
      BY <1>7, <2>1, <2>2 DEF Means
    <2>6. Input # {}
      BY InputExists
    <2>7. Holding(objects[1], heap, mos, Input, mem[1])
      BY <1>9, <2>2, <2>3, <2>4, <2>5, <2>6 DEF Holding
    <2>8. path \in [DOMAIN objects -> SUBSET Input] /\ path[1] = Input
      BY <1>2, <1>9
    <2> QED BY <1>9, <2>2, <2>7, <2>8 DEF Contents
  <1>15. Frames(objects, mos, allocas)
    BY <1>2, <1>9 DEF Frames
  <1>16. Listing(objects, mos, symbolics, ops)
    <2>1. symbolics[1] = << >> /\ DOMAIN symbolics = {1} /\ << >> \in Seq(DOMAIN mos) /\ Len(<< >>) = 0
      BY <1>2, EmptySeq
    <2> QED BY <1>1, <1>2, <1>9, <2>1 DEF Listing
  <1>17. Counted(heap, mos, symbolics, refs)
    <2>1. ASSUME NEW m \in MO PROVE Lists(symbolics, m) = {}
      <3>1. symbolics[1] = << >> /\ DOMAIN symbolics = {1} /\ DOMAIN << >> = {}
        BY <1>2
      <3> QED BY <3>1 DEF Lists
    <2>2. refs \in [MO -> Nat] /\ \A m \in MO : refs[m] = IF m \in {1, 2} THEN 1 ELSE 0
      BY <1>2, <1>8 DEF Unlisted
    <2>3. ASSUME NEW m \in MO
          PROVE  Holds(heap, m) = IF m \in {1, 2} THEN {m} ELSE {}
      <3>1. \A o \in DOMAIN heap : o \in {1, 2} /\ heap[o].object = o
        BY <1>5, <1>6, <1>7
      <3>2. Holds(heap, m) = {o \in {1, 2} : o = m}
        BY <1>5, <3>1 DEF Holds
      <3> QED BY <3>2
    <2>4. ASSUME NEW m \in MO
          PROVE  /\ refs[m] = Cardinality(Holds(heap, m)) + Cardinality(Lists(symbolics, m))
                 /\ m \in DOMAIN mos <=> refs[m] # 0
      <3>1. Cardinality({m}) = 1 /\ Cardinality({}) = 0
        BY FS_Singleton, FS_EmptySet
      <3>2. Cardinality(Holds(heap, m)) = IF m \in {1, 2} THEN 1 ELSE 0
        BY <2>3, <3>1
      <3>3. Cardinality(Lists(symbolics, m)) = 0
        BY <2>1, <3>1
      <3> QED BY <1>3, <2>2, <3>2, <3>3
    <2> QED BY <2>2, <2>4 DEF Counted
  <1>18. Layout(mos, slot)
    <2>1. /\ mos[1].address = 1 /\ Extent(mos[1].size) = 1
          /\ mos[2].address = 2 + RedzoneSize /\ Extent(mos[2].size) = 2
          /\ slot = 4 + RedzoneSize + RedzoneSize
      BY <1>1, <1>3 DEF Extent, NextSlot
    <2>2. Apart(mos[1], mos[2]) /\ Apart(mos[2], mos[1])
      BY <1>1, <2>1 DEF Apart
    <2>3. /\ mos[1].address + Extent(mos[1].size) <= slot
          /\ mos[2].address + Extent(mos[2].size) <= slot /\ slot \in Nat
      BY <1>1, <2>1
    <2> QED BY <1>3, <2>2, <2>3 DEF Layout
  <1> QED BY <1>2, <1>10, <1>11, <1>12, <1>13, <1>14, <1>15, <1>16, <1>17, <1>18 DEF MemoryInv

(***************************************************************************)
(* What the invariant says                                                 *)
(***************************************************************************)

\* Every step keeps the memory in order.
LEMMA StepInv ==
  ASSUME MemoryInv, Careful, Next
  PROVE  MemoryInv'
PROOF
  <1>1. ASSUME NEW s \in Alive, Alloc(s) PROVE MemoryInv'
    BY <1>1, AllocKeeps
  <1>2. ASSUME NEW s \in Alive, Realloc(s) PROVE MemoryInv'
    BY <1>2, ReallocKeeps
  <1>3. ASSUME NEW s \in Alive, Free(s) PROVE MemoryInv'
    BY <1>3, FreeKeeps
  <1>4. ASSUME NEW s \in Alive, Store(s) PROVE MemoryInv'
    BY <1>4, StoreKeeps
  <1>5. ASSUME NEW s \in Alive, Load(s) PROVE MemoryInv'
    BY <1>5, LoadKeeps
  <1>6. ASSUME NEW s \in Alive, MakeSymbolic(s) PROVE MemoryInv'
    BY <1>6, MakeSymbolicKeeps
  <1>7. ASSUME NEW s \in Alive, Return(s) PROVE MemoryInv'
    BY <1>7, ReturnKeeps
  <1>8. ASSUME NEW s \in Alive, Fork(s) PROVE MemoryInv'
    BY <1>8, ForkKeeps
  <1>9. ASSUME NEW s \in Alive, Terminate(s) PROVE MemoryInv'
    BY <1>9, TerminateKeeps
  <1>10. ASSUME NEW s \in Alive, CallExternal(s) PROVE MemoryInv'
    BY <1>10, CallExternalKeeps
  <1>11. ASSUME NEW s \in Alive, PassPointer(s) PROVE MemoryInv'
    BY <1>11, PassPointerKeeps
  <1>12. ASSUME NEW a \in Alive, NEW b \in Alive, Merge(a, b) PROVE MemoryInv'
    BY <1>12, MergeKeeps
  <1> QED BY <1>1, <1>2, <1>3, <1>4, <1>5, <1>6, <1>7, <1>8, <1>9, <1>10, <1>11, <1>12 DEF Next

\* The invariant of the memory of all states: bindings, owners, the meaning of
\* every byte, frames, reference counts and layout, whatever the states do with
\* it, if neither the program nor native code misuses it.
THEOREM MemoryInvariance == ASSUME Careful PROVE Spec => []MemoryInv
PROOF
  <1>1. Init => MemoryInv
    BY InitInv
  <1>2. MemoryInv /\ [Next]_vars => MemoryInv'
    <2>1. ASSUME MemoryInv, Next PROVE MemoryInv'
      BY <2>1, StepInv
    <2>2. ASSUME MemoryInv, UNCHANGED vars PROVE MemoryInv'
      BY <2>2 DEF vars, MemoryInv, Layout
    <2> QED BY <2>1, <2>2
  <1> QED BY <1>1, <1>2, PTL DEF Spec

\* A load gives what the last store of the path left, and the caches obey the
\* rules of Memory.cpp.
LEMMA ContentsFollow ==
  ASSUME MemoryInv
  PROVE  ContentsRight
PROOF
  <1>1. ASSUME NEW s \in Alive, NEW m \in DOMAIN objects[s], NEW e \in InBounds(m, 1), NEW in \in path[s]
        PROVE  read8(heap[objects[s][m]], e).at[in] = mem[s][m][e.at[in]][in]
    <2> DEFINE os == heap[objects[s][m]]
               size == mos[m].size
    <2>1. size \in Nat /\ size <= MaxSize /\ WellFormed(os, size)
      BY Here
    <2>2. path[s] \subseteq Input /\ Holding(objects[s], heap, mos, path[s], mem[s])
      BY StateHere
    <2>3. OffsetOf(e, size)
      <3>1. PICK n \in Nat \ {0} : n = 1
        OBVIOUS
      <3>2. m \in DOMAIN mos /\ e \in InBounds(m, n)
        BY <3>1, Here
      <3> QED BY <3>2, InBoundsOffset
    <2>4. Means(os, size, path[s], mem[s][m])
      BY <2>2 DEF Holding
    <2> HIDE DEF os, size
    <2>5. \A n \in Input : read8(os, e).at[n] = ByteAt(os, e.at[n], n)
      BY <2>1, <2>3, ReadMeaning
    <2>6. in \in Input /\ e.at[in] \in Offsets(size)
      BY <2>2, <2>3 DEF OffsetOf
    <2>7. mem[s][m][e.at[in]][in] = ByteAt(os, e.at[in], in)
      BY <2>4, <2>6 DEF Means
    <2>8. read8(os, e).at[in] = ByteAt(os, e.at[in], in)
      BY <2>5, <2>6
    <2> QED BY <2>7, <2>8 DEF os
  <1>2. LoadsRight
    BY <1>1 DEF LoadsRight
  <1>3. CacheInvariants
    <2>1. ASSUME NEW o \in DOMAIN heap
          PROVE  /\ heap[o].concrete \cap DOMAIN heap[o].known = {}
                 /\ DOMAIN heap[o].store \ heap[o].flushed \subseteq heap[o].concrete \cup DOMAIN heap[o].known
      <3>1. WellFormed(heap[o], mos[heap[o].object].size)
        BY DEF MemoryInv, Bindings
      <3>2. Coherent(heap[o])
        BY <3>1 DEF WellFormed
      <3> QED BY <3>2 DEF Coherent
    <2> QED BY <2>1 DEF CacheInvariants
  <1> QED BY <1>2, <1>3 DEF ContentsRight

\* ContentsRight in every reachable state: getWriteable, the flushes, merge and
\* native code keep, for every input, what the last store of the path left.
THEOREM MemoryContentsRight == ASSUME Careful PROVE Spec => []ContentsRight
PROOF
  <1>1. MemoryInv => ContentsRight
    BY ContentsFollow
  <1> QED BY <1>1, MemoryInvariance, PTL

\* OwnedAlone in every reachable state: copy on write never hands one object
\* state to two address spaces that may write to it.
THEOREM MemoryOwnedAlone == ASSUME Careful PROVE Spec => []OwnedAlone
PROOF
  <1>1. MemoryInv => OwnedAlone
    BY DEF MemoryInv, Owned, OwnedAlone, Alive
  <1> QED BY <1>1, MemoryInvariance, PTL

\* A count that is not zero has an owner that the count stands for.
LEMMA KeptFollows ==
  ASSUME MemoryInv
  PROVE  ObjectsKept
PROOF
  <1>1. fault = "none"
    BY DEF MemoryInv
  <1>2. ASSUME NEW s \in Alive
        PROVE  DOMAIN objects[s] \cup ToSet(symbolics[s]) \cup allocas[s] \subseteq DOMAIN mos
    <2>1. DOMAIN objects[s] \subseteq DOMAIN mos
      BY Here
    <2>2. symbolics[s] \in Seq(DOMAIN mos)
      BY StateHere
    <2>3. ToSet(symbolics[s]) \subseteq DOMAIN mos
      BY <2>2 DEF ToSet
    <2>4. allocas[s] \subseteq DOMAIN objects[s]
      BY DEF MemoryInv, Frames, Alive
    <2> QED BY <2>1, <2>3, <2>4
  <1>3. ASSUME NEW m \in DOMAIN mos
        PROVE  \E s \in Alive : m \in DOMAIN objects[s] \/ m \in ToSet(symbolics[s])
    <2>1. /\ m \in MO /\ refs[m] = Cardinality(Holds(heap, m)) + Cardinality(Lists(symbolics, m))
          /\ refs[m] # 0
      BY DEF MemoryInv, Counted, Bindings
    <2>2. Holds(heap, m) # {} \/ Lists(symbolics, m) # {}
      BY <2>1, FS_EmptySet
    <2>3. CASE Holds(heap, m) # {}
      <3>1. PICK o \in DOMAIN heap : heap[o].object = m
        BY <2>3 DEF Holds
      <3>2. o \in Bound(objects)
        BY DEF MemoryInv
      <3>3. PICK s \in Alive, k \in UNION {DOMAIN objects[u] : u \in Alive} :
              k \in DOMAIN objects[s] /\ objects[s][k] = o
        BY <3>2 DEF Bound, Alive
      <3>4. heap[objects[s][k]].object = k
        BY <3>3, Here
      <3> QED BY <3>1, <3>3, <3>4
    <2>4. CASE Lists(symbolics, m) # {}
      <3>1. PICK x \in State \X (1 .. MaxOps) :
              x[1] \in DOMAIN symbolics /\ x[2] \in DOMAIN symbolics[x[1]] /\ symbolics[x[1]][x[2]] = m
        BY <2>4 DEF Lists
      <3>2. x[1] \in Alive
        BY <3>1 DEF MemoryInv, Listing, Alive
      <3>3. m \in ToSet(symbolics[x[1]])
        BY <3>1 DEF ToSet
      <3> QED BY <3>2, <3>3
    <2> QED BY <2>2, <2>3, <2>4
  <1> QED BY <1>1, <1>2, <1>3 DEF ObjectsKept

\* ObjectsKept in every reachable state: the reference counts neither delete an
\* object too soon nor keep it too long, and no merge or return fails.
THEOREM MemoryObjectsKept == ASSUME Careful PROVE Spec => []ObjectsKept
PROOF
  <1>1. MemoryInv => ObjectsKept
    BY KeptFollows
  <1> QED BY <1>1, MemoryInvariance, PTL

\* NoOverlap in every reachable state, with either kind of allocation.
THEOREM MemoryNoOverlap == ASSUME Careful PROVE Spec => []NoOverlap
PROOF
  <1>1. MemoryInv => NoOverlap
    BY DEF MemoryInv, Layout, Apart, NoOverlap
  <1> QED BY <1>1, MemoryInvariance, PTL

(***************************************************************************)
(* Object resolution, for a pointer with any set of values                 *)
(***************************************************************************)

\* An object takes the addresses of its extent, and no two objects share one.
LEMMA Geometry ==
  ASSUME MemoryInv, NEW s \in Alive, NEW m \in DOMAIN objects[s]
  PROVE  /\ mos[m].address \in Nat /\ mos[m].size \in Nat /\ Extent(mos[m].size) \in Nat
         /\ Extent(mos[m].size) >= 1
         /\ \A p \in Nat : Within(m, p) <=> /\ mos[m].address <= p
                                            /\ p < mos[m].address + Extent(mos[m].size)
         /\ \A p \in Nat : mos[m].address <= p =>
              (Within(m, p) <=> \/ mos[m].size = 0 /\ p = mos[m].address
                                \/ p - mos[m].address < mos[m].size)
PROOF
  <1>1. mos[m] \in MObject /\ mos[m].size \in Nat
    BY Here
  <1>2. mos[m].address \in Nat
    BY <1>1 DEF MObject
  <1> DEFINE a == mos[m].address
             z == mos[m].size
  <1>3. a \in Nat /\ z \in Nat
    BY <1>1, <1>2
  <1>4. \A p : Within(m, p) <=> IF z = 0 THEN p = a ELSE p \in a .. a + z - 1
    BY DEF Within
  <1>5. Extent(z) = IF z = 0 THEN 1 ELSE z
    BY DEF Extent
  <1> HIDE DEF a, z
  <1>6. /\ Extent(z) \in Nat /\ Extent(z) >= 1
        /\ \A p \in Nat : Within(m, p) <=> a <= p /\ p < a + Extent(z)
        /\ \A p \in Nat : a <= p => (Within(m, p) <=> (z = 0 /\ p = a) \/ p - a < z)
    BY <1>3, <1>4, <1>5
  <1> QED BY <1>1, <1>2, <1>6 DEF a, z

\* Two objects of a state lie apart.
LEMMA Disjoint ==
  ASSUME MemoryInv, NEW s \in Alive, NEW m \in DOMAIN objects[s], NEW k \in DOMAIN objects[s], m # k
  PROVE  \/ mos[m].address + Extent(mos[m].size) <= mos[k].address
         \/ mos[k].address + Extent(mos[k].size) <= mos[m].address
PROOF
  <1>1. m \in DOMAIN mos /\ k \in DOMAIN mos
    BY Here
  <1> QED BY <1>1 DEF MemoryInv, Layout, Apart

\* An address is in one object at most, and the objects above start behind it.
LEMMA InOneObject ==
  ASSUME MemoryInv, NEW s \in Alive, NEW m \in DOMAIN objects[s], NEW k \in DOMAIN objects[s]
  PROVE  /\ mos[m].address = mos[k].address => m = k
         /\ \A p \in Nat : Within(m, p) /\ Within(k, p) => m = k
         /\ \A p \in Nat : Within(m, p) /\ mos[k].address <= p => mos[k].address <= mos[m].address
         /\ \A p \in Nat : Within(m, p) /\ mos[k].address > mos[m].address => p < mos[k].address
PROOF
  <1> DEFINE a == mos[m].address
             b == mos[k].address
             x == Extent(mos[m].size)
             y == Extent(mos[k].size)
  <1>1. /\ a \in Nat /\ b \in Nat /\ x \in Nat /\ y \in Nat /\ x >= 1 /\ y >= 1
        /\ \A p \in Nat : Within(m, p) <=> a <= p /\ p < a + x
        /\ \A p \in Nat : Within(k, p) <=> b <= p /\ p < b + y
    BY Geometry
  <1>2. m # k => a + x <= b \/ b + y <= a
    BY Disjoint
  <1> HIDE DEF a, b, x, y
  <1>3. a = b => m = k
    BY <1>1, <1>2
  <1>4. \A p \in Nat : Within(m, p) /\ Within(k, p) => m = k
    BY <1>1, <1>2
  <1>5. m = k => a = b
    BY DEF a, b
  <1>6. \A p \in Nat : Within(m, p) /\ b <= p => b <= a
    BY <1>1, <1>2, <1>5
  <1>7. \A p \in Nat : Within(m, p) /\ b > a => p < b
    BY <1>1, <1>2, <1>5
  <1> QED BY <1>3, <1>4, <1>6, <1>7 DEF a, b

\* resolveOne of a constant finds the object the address is in.
LEMMA ConstantResolved ==
  ASSUME MemoryInv, NEW s \in Alive, NEW p \in Nat
  PROVE  resolveOneConstant(s, p) = {m \in DOMAIN objects[s] : Within(m, p)}
PROOF
  <1>1. ASSUME NEW m \in DOMAIN objects[s]
        PROVE  m \in resolveOneConstant(s, p) <=> Within(m, p)
    <2>1. /\ mos[m].address \in Nat /\ (Within(m, p) => mos[m].address <= p)
          /\ (mos[m].address <= p =>
               (Within(m, p) <=> \/ mos[m].size = 0 /\ p = mos[m].address
                                 \/ p - mos[m].address < mos[m].size))
      BY Geometry
    <2>2. Within(m, p) => \A k \in Lower(s, p) : mos[k].address <= mos[m].address
      BY InOneObject DEF Lower
    <2> HIDE DEF Within
    <2> QED BY <2>1, <2>2 DEF resolveOneConstant, Lower
  <1>2. resolveOneConstant(s, p) \subseteq DOMAIN objects[s]
    BY DEF resolveOneConstant, Lower
  <1> QED BY <1>1, <1>2

\* The searches of resolve stop early, but not before the last object the pointer
\* may be in.
LEMMA AllVisited ==
  ASSUME MemoryInv, NEW s \in Alive, NEW P \in SUBSET Nat, NEW e \in P
  PROVE  {m \in Visited(s, P, e) : MayIn(m, P)} = {m \in DOMAIN objects[s] : MayIn(m, P)}
PROOF
  <1>1. Visited(s, P, e) \subseteq DOMAIN objects[s]
    BY DEF Visited, Backward, Forward, Lower, Higher
  <1>2. ASSUME NEW m \in DOMAIN objects[s], NEW p \in P, Within(m, p)
        PROVE  m \in Visited(s, P, e)
    <2>1. /\ p \in Nat /\ e \in Nat /\ mos[m].address \in Nat /\ mos[m].address <= p
      BY <1>2, Geometry
    <2>2. \A k \in DOMAIN objects[s] : mos[k].address \in Nat
      BY Geometry
    <2>3. CASE mos[m].address <= e
      <3>1. ASSUME NEW k \in DOMAIN objects[s], mos[k].address > mos[m].address
            PROVE  ~Above(k, P)
        <4>1. p < mos[k].address
          BY <1>2, <2>1, <3>1, InOneObject
        <4> QED BY <2>1, <2>2, <4>1 DEF Above
      <3>2. m \in Backward(s, P, e)
        BY <2>3, <3>1 DEF Backward, Lower
      <3> QED BY <3>2 DEF Visited
    <2>4. CASE mos[m].address > e
      <3>1. ASSUME NEW k \in DOMAIN objects[s], mos[k].address <= mos[m].address
            PROVE  ~Below(k, P)
        <4>1. p >= mos[k].address
          BY <2>1, <2>2, <3>1
        <4> QED BY <2>1, <2>2, <4>1 DEF Below
      <3>2. m \in Forward(s, P, e)
        BY <2>4, <3>1 DEF Forward, Higher
      <3> QED BY <3>2 DEF Visited
    <2> QED BY <2>1, <2>3, <2>4
  <1>3. ASSUME NEW m \in DOMAIN objects[s], MayIn(m, P)
        PROVE  m \in Visited(s, P, e)
    BY <1>2, <1>3 DEF MayIn
  <1> QED BY <1>1, <1>3

\* The first object found is one that the pointer may be in, if there is one.
LEMMA FirstFound ==
  ASSUME MemoryInv, NEW s \in Alive, NEW P \in SUBSET Nat, NEW e \in P
  PROVE  LET may == {m \in DOMAIN objects[s] : MayIn(m, P)}
         IN  IF may = {} THEN FirstHit(s, P, e) = {} ELSE \E m \in may : FirstHit(s, P, e) = {m}
PROOF
  <1> DEFINE may == {m \in DOMAIN objects[s] : MayIn(m, P)}
             low == may \cap Lower(s, e)
  <1>1. FirstHit(s, P, e) = IF low # {} THEN {m \in low : \A k \in low : mos[k].address <= mos[m].address}
                            ELSE {m \in may : \A k \in may : mos[k].address >= mos[m].address}
    BY AllVisited DEF FirstHit
  <1>2. \A m \in DOMAIN objects[s] : mos[m].address \in Nat
    BY Geometry
  <1>3. \A m, k \in may : mos[m].address = mos[k].address => m = k
    BY InOneObject
  <1>4. e \in Nat /\ low \subseteq may /\ (\A m \in low : mos[m].address <= e) /\ may \subseteq DOMAIN objects[s]
    BY DEF Lower
  <1> HIDE DEF may, low
  <1>5. CASE low # {}
    <2> DEFINE A == {mos[m].address : m \in low}
    <2>1. A \in SUBSET (0 .. e) /\ A # {}
      BY <1>2, <1>4, <1>5
    <2>2. PICK x \in A : \A y \in A : y <= x
      <3> HIDE DEF A
      <3> QED BY <1>4, <2>1, MaxOf
    <2>3. PICK m \in low : mos[m].address = x
      OBVIOUS
    <2>4. FirstHit(s, P, e) = {m}
      <3>1. \A k \in low : mos[k].address <= mos[m].address
        BY <2>2, <2>3
      <3>2. ASSUME NEW j \in low, \A k \in low : mos[k].address <= mos[j].address PROVE j = m
        <4>1. mos[m].address <= mos[j].address /\ mos[j].address <= mos[m].address
          BY <2>3, <3>1, <3>2
        <4>2. mos[m].address \in Nat /\ mos[j].address \in Nat /\ m \in may /\ j \in may
          BY <1>2, <1>4, <2>3, <3>2
        <4> QED BY <1>3, <4>1, <4>2
      <3> QED BY <1>1, <1>5, <2>3, <3>1, <3>2
    <2> QED BY <1>4, <2>3, <2>4 DEF may
  <1>6. CASE low = {} /\ may # {}
    <2> DEFINE A == {mos[m].address : m \in may}
    <2>1. A \subseteq Nat /\ A # {}
      BY <1>2, <1>4, <1>6
    <2>2. PICK x \in A : \A y \in A : x <= y
      <3> HIDE DEF A
      <3> QED BY <2>1, LeastNatural
    <2>3. PICK m \in may : mos[m].address = x
      OBVIOUS
    <2>4. FirstHit(s, P, e) = {m}
      <3>1. \A k \in may : mos[k].address >= mos[m].address
        BY <1>2, <1>4, <2>2, <2>3
      <3>2. ASSUME NEW j \in may, \A k \in may : mos[k].address >= mos[j].address PROVE j = m
        <4>1. mos[m].address >= mos[j].address /\ mos[j].address >= mos[m].address
          BY <2>3, <3>1, <3>2
        <4>2. mos[m].address \in Nat /\ mos[j].address \in Nat
          BY <1>2, <1>4, <2>3, <3>2
        <4> QED BY <1>3, <2>3, <3>2, <4>1, <4>2
      <3> QED BY <1>1, <1>6, <2>3, <3>1, <3>2
    <2> QED BY <2>3, <2>4 DEF may
  <1>7. CASE may = {}
    BY <1>1, <1>4, <1>7 DEF may
  <1> QED BY <1>5, <1>6, <1>7 DEF may

\* resolve finds exactly the objects a pointer may point to, and resolveOne one
\* of them.
LEMMA Resolved ==
  ASSUME MemoryInv, NEW s \in Alive, NEW P \in SUBSET Nat, NEW e \in P
  PROVE  LET may == {m \in DOMAIN objects[s] : MayIn(m, P)}
             one == resolveOne(s, P, e)
         IN  /\ resolve(s, P, e) = may
             /\ one \subseteq may /\ Cardinality(one) = (IF may = {} THEN 0 ELSE 1)
             /\ resolveOneConstant(s, e) = {m \in DOMAIN objects[s] : Within(m, e)}
PROOF
  <1> DEFINE may == {m \in DOMAIN objects[s] : MayIn(m, P)}
             first == FirstHit(s, P, e)
             near == {m \in resolveOneConstant(s, e) : mos[m].size > 0}
             one == resolveOne(s, P, e)
  <1>1. IF may = {} THEN first = {} ELSE \E m \in may : first = {m}
    BY FirstFound
  <1>2. e \in Nat
    OBVIOUS
  <1>3. resolveOneConstant(s, e) = {m \in DOMAIN objects[s] : Within(m, e)}
    BY <1>2, ConstantResolved
  <1>4. resolve(s, P, e) = may
    <2>1. CASE \E m \in first : MustIn(m, P)
      <3>1. PICK m \in first : MustIn(m, P)
        BY <2>1
      <3>2. first = {m} /\ m \in may
        BY <1>1, <3>1
      <3>3. ASSUME NEW k \in may PROVE k = m
        <4>1. PICK p \in P : Within(k, p)
          BY <3>3 DEF MayIn
        <4>2. Within(m, p) /\ p \in Nat
          BY <3>1 DEF MustIn
        <4> QED BY <3>2, <4>1, <4>2, InOneObject
      <3>4. resolve(s, P, e) = first
        BY <2>1 DEF resolve
      <3> QED BY <3>2, <3>3, <3>4
    <2>2. CASE ~\E m \in first : MustIn(m, P)
      BY <2>2, AllVisited DEF resolve
    <2> QED BY <2>1, <2>2
  <1>5. one = IF near # {} THEN near ELSE first
    BY DEF resolveOne
  <1>6. near \subseteq may
    BY <1>3 DEF MayIn
  <1>7. \A m, k \in near : m = k
    BY <1>2, <1>3, InOneObject
  <1> HIDE DEF may, first, near, one
  <1>8. one \subseteq may /\ (IF may = {} THEN one = {} ELSE \E m : one = {m})
    <2>1. CASE near # {}
      <3>1. PICK m : near = {m}
        BY <1>7, <2>1
      <3>2. one = {m}
        BY <1>5, <2>1, <3>1
      <3> QED BY <1>6, <3>1, <3>2
    <2>2. CASE near = {}
      <3>1. one = first
        BY <1>5, <2>2
      <3> QED BY <1>1, <3>1
    <2> QED BY <2>1, <2>2
  <1>9. Cardinality(one) = IF may = {} THEN 0 ELSE 1
    <2>1. CASE may = {}
      BY <1>8, <2>1, FS_EmptySet
    <2>2. CASE may # {}
      <3>1. PICK m : one = {m}
        BY <1>8, <2>2
      <3>2. Cardinality({m}) = 1
        BY FS_Singleton
      <3> QED BY <2>2, <3>1, <3>2
    <2> QED BY <2>1, <2>2
  <1> QED BY <1>3, <1>4, <1>8, <1>9 DEF may, one

\* ResolutionRight in every reachable state: resolve and resolveOne find the
\* objects of a pointer; Resolved is the same for a pointer with any values.
THEOREM MemoryResolutionRight == ASSUME Careful PROVE Spec => []ResolutionRight
PROOF
  <1>1. MemoryInv => ResolutionRight
    <2>1. Pointers \subseteq SUBSET Nat
      BY Bounds DEF Pointers, kSubset
    <2> SUFFICES ASSUME MemoryInv, NEW s \in Alive, NEW P \in Pointers, NEW e \in P
                 PROVE  LET may == {m \in DOMAIN objects[s] : MayIn(m, P)}
                            one == resolveOne(s, P, e)
                        IN  /\ resolve(s, P, e) = may
                            /\ one \subseteq may /\ Cardinality(one) = (IF may = {} THEN 0 ELSE 1)
                            /\ resolveOneConstant(s, e) = {m \in DOMAIN objects[s] : Within(m, e)}
      BY DEF ResolutionRight
    <2> QED BY <2>1, Resolved
  <1> QED BY <1>1, MemoryInvariance, PTL

\* TypeOK in every reachable state: no address space refers to an object state or
\* an object that is gone, and no state has a path without inputs.
THEOREM MemoryTypeOK == ASSUME Careful PROVE Spec => []TypeOK
PROOF
  <1>1. ASSUME MemoryInv PROVE TypeOK
    <2>1. /\ Alive \subseteq State /\ DOMAIN heap = Bound(objects) /\ DOMAIN heap \subseteq OS
          /\ DOMAIN mos \subseteq MO /\ refs \in [MO -> Nat]
      BY <1>1 DEF MemoryInv, Bindings, Counted, Alive
    <2>2. /\ DOMAIN key = Alive /\ DOMAIN path = Alive
      BY <1>1 DEF MemoryInv, Owned, Contents, Alive
    <2>3. ASSUME NEW s \in Alive
          PROVE  /\ objects[s] \in [DOMAIN objects[s] -> DOMAIN heap]
                 /\ path[s] \subseteq Input /\ path[s] # {}
      BY <1>1 DEF MemoryInv, Bindings, Contents, Holding, Alive
    <2> QED BY <2>1, <2>2, <2>3 DEF TypeOK
  <1> QED BY <1>1, MemoryInvariance, PTL
=============================================================================
