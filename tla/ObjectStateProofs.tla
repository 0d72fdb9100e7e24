-------------------------- MODULE ObjectStateProofs --------------------------
(* What the bytes of an ObjectState mean, and that none of its operations     *)
(* changes the meaning of a byte it is not asked to change: flushing, the     *)
(* lazily built constant array, reading at constant and at symbolic offsets,  *)
(* writing at both.  The lemmas hold for objects of every size and for every  *)
(* number of updates; module MemoryProofs rests on them.                      *)
EXTENDS ObjectState, Integers, FiniteSetTheorems, SequenceTheorems, WellFoundedInduction, TLAPS

(***************************************************************************)
(* Sets of naturals                                                        *)
(***************************************************************************)

\* Every nonempty set of naturals has a least element.
LEMMA LeastNatural ==
  ASSUME NEW T, T \subseteq Nat, T # {}
  PROVE  \E x \in T : \A y \in T : x <= y
PROOF
  <1>1. IsWellFoundedOn({ss \in Nat \X Nat : ss[1] < ss[2]}, Nat)
    BY NatLessThanWellFounded DEF OpToRel
  <1>2. PICK x \in T : \A y \in T : ~(<<y, x>> \in {ss \in Nat \X Nat : ss[1] < ss[2]})
    BY <1>1, WFMin, Zenon
  <1>3. \A y \in T : ~(y < x)
    BY <1>2
  <1> QED BY <1>3

\* Induction, for a set instead of a predicate.
LEMMA NatSetInduction ==
  ASSUME NEW S, 0 \in S, \A k \in Nat : k \in S => k + 1 \in S
  PROVE  Nat \subseteq S
PROOF
  <1> DEFINE T == {k \in Nat : k \notin S}
  <1>1. SUFFICES ASSUME T # {} PROVE FALSE
    OBVIOUS
  <1>2. T \subseteq Nat
    OBVIOUS
  <1> HIDE DEF T
  <1>3. PICK x \in T : \A y \in T : x <= y
    BY <1>1, <1>2, LeastNatural
  <1>4. x \in Nat /\ x \notin S /\ x # 0
    BY <1>3 DEF T
  <1>5. x - 1 \in Nat /\ x - 1 \notin T
    BY <1>3, <1>4, <1>2
  <1>6. x - 1 \in S
    BY <1>5 DEF T
  <1> QED BY <1>4, <1>5, <1>6

\* The maximum of a bounded set.
LEMMA MaxOf ==
  ASSUME NEW n \in Nat, NEW S \in SUBSET (0 .. n), S # {}
  PROVE  Max(S) \in S /\ \A y \in S : y <= Max(S)
PROOF
  <1> DEFINE T == {n - y : y \in S}
  <1>1. \A y \in S : y \in 0 .. n /\ n - y \in Nat
    OBVIOUS
  <1>2. T \subseteq Nat /\ T # {}
    BY <1>1
  <1>3. PICK z \in T : \A y \in T : z <= y
    BY <1>2, LeastNatural, Zenon
  <1>4. PICK x \in S : z = n - x
    OBVIOUS
  <1>5. \A y \in S : x >= y
    BY <1>3, <1>4
  <1>6. \A y \in S : Max(S) >= y /\ Max(S) \in S
    BY <1>5 DEF Max
  <1> QED BY <1>6

\* Nth counts through the elements of a bounded set: it gives elements, and every
\* one of them.
LEMMA NthEnumerates ==
  ASSUME NEW n \in Int, NEW S \in SUBSET (0 .. n)
  PROVE  /\ IsFiniteSet(S) /\ Cardinality(S) \in Nat
         /\ \A k \in 1 .. Cardinality(S) : Nth(S, k) \in S
         /\ \A i \in S : \E k \in 1 .. Cardinality(S) : Nth(S, k) = i
PROOF
  <1> DEFINE upTo(i) == {j \in S : j <= i}
             rank == [i \in S |-> Cardinality(upTo(i))]
             N == Cardinality(S)
  <1>1. IsFiniteSet(S) /\ N \in Nat /\ IsFiniteSet(1 .. N) /\ Cardinality(1 .. N) = N
    <2>1. IsFiniteSet(0 .. n)
      BY FS_Interval
    <2>2. IsFiniteSet(S)
      BY <2>1, FS_Subset
    <2>3. N \in Nat
      BY <2>2, FS_CardinalityType
    <2>4. IsFiniteSet(1 .. N) /\ Cardinality(1 .. N) = IF 1 > N THEN 0 ELSE N - 1 + 1
      BY <2>3, FS_Interval
    <2> QED BY <2>2, <2>3, <2>4
  <1>2. \A i \in S : Cardinality(upTo(i)) \in 1 .. N /\ IsFiniteSet(upTo(i))
    <2> SUFFICES ASSUME NEW i \in S PROVE Cardinality(upTo(i)) \in 1 .. N /\ IsFiniteSet(upTo(i))
      OBVIOUS
    <2>1. upTo(i) \in SUBSET S /\ i \in upTo(i)
      OBVIOUS
    <2> HIDE DEF upTo
    <2>2. IsFiniteSet(upTo(i)) /\ Cardinality(upTo(i)) <= N
      BY <2>1, <1>1, FS_Subset
    <2>3. Cardinality(upTo(i)) \in Nat
      BY <2>2, FS_CardinalityType
    <2>4. Cardinality(upTo(i)) # 0
      BY <2>1, <2>2, FS_EmptySet
    <2> QED BY <1>1, <2>2, <2>3, <2>4
  <1>3. \A i, j \in S : i < j => Cardinality(upTo(i)) # Cardinality(upTo(j))
    <2> SUFFICES ASSUME NEW i \in S, NEW j \in S, i < j
                 PROVE  Cardinality(upTo(i)) # Cardinality(upTo(j))
      OBVIOUS
    <2>0. j <= j /\ ~(j <= i) /\ \A k \in S : k <= i => k <= j
      <3>1. i \in Int /\ j \in Int /\ \A k \in S : k \in Int
        OBVIOUS
      <3> QED BY <3>1
    <2>1. upTo(i) \in SUBSET upTo(j) /\ j \in upTo(j) /\ j \notin upTo(i)
      BY <2>0, Zenon
    <2>2. IsFiniteSet(upTo(j))
      BY <1>2
    <2> HIDE DEF upTo
    <2> QED BY <2>1, <2>2, FS_Subset
  <1>4. \A i, j \in S : Cardinality(upTo(i)) = Cardinality(upTo(j)) => i = j
    <2> HIDE DEF upTo
    <2> SUFFICES ASSUME NEW i \in S, NEW j \in S, i # j
                 PROVE  Cardinality(upTo(i)) # Cardinality(upTo(j))
      OBVIOUS
    <2>1. i < j \/ j < i
      OBVIOUS
    <2> QED BY <2>1, <1>3
  <1>5. rank \in Injection(S, 1 .. N)
    <2> HIDE DEF upTo
    <2>1. rank \in [S -> 1 .. N]
      BY <1>2
    <2>2. IsInjective(rank)
      BY <1>4 DEF IsInjective
    <2> QED BY <2>1, <2>2 DEF Injection
  <1>6. rank \in Surjection(S, 1 .. N)
    <2>1. Cardinality(S) = Cardinality(1 .. N)
      BY <1>1
    <2> HIDE DEF rank, N
    <2> QED BY <1>1, <1>5, <2>1, FS_Injection
  <1>7. \A k \in 1 .. N : \E i \in S : Cardinality(upTo(i)) = k
    <2> HIDE DEF upTo
    <2>1. \A k \in 1 .. N : \E i \in S : rank[i] = k
      BY <1>6 DEF Surjection
    <2> QED BY <2>1
  <1>8. ASSUME NEW k \in 1 .. N
        PROVE  Nth(S, k) \in S /\ Cardinality(upTo(Nth(S, k))) = k
    <2>1. \E i \in S : Cardinality({j \in S : j <= i}) = k
      BY <1>7
    <2>2. Nth(S, k) \in S /\ Cardinality({j \in S : j <= Nth(S, k)}) = k
      BY <2>1 DEF Nth
    <2> QED BY <2>2
  <1>9. ASSUME NEW i \in S PROVE \E k \in 1 .. N : Nth(S, k) = i
    <2>1. Cardinality(upTo(i)) \in 1 .. N
      BY <1>2
    <2>2. /\ Nth(S, Cardinality(upTo(i))) \in S
          /\ Cardinality(upTo(Nth(S, Cardinality(upTo(i))))) = Cardinality(upTo(i))
      <3> HIDE DEF upTo
      <3> QED BY <2>1, <1>8
    <2>3. Nth(S, Cardinality(upTo(i))) = i
      <3> HIDE DEF upTo
      <3> QED BY <2>2, <1>4
    <2> HIDE DEF upTo
    <2> QED BY <2>1, <2>3
  <1> QED BY <1>1, <1>8, <1>9

(***************************************************************************)
(* Expressions, arrays and the meaning of a byte                           *)
(***************************************************************************)

\* What is flagged constant has the same value for every input.
ConstExpr == {Constant(v) : v \in Nat}
Expr == ConstExpr \cup [const : {FALSE}, at : [Input -> Nat]]
Update == [index : Expr, value : Expr]
Roots(size) == {Lazy, SymArray} \cup {ConstArray(c) : c \in [Offsets(size) -> ConstExpr]}

\* the element i of an array for input n: the last update, or what the root holds
Hits(writes, i, n) == {k \in 1 .. Len(writes) : writes[k].index.at[n] = i}
RootAt(root, i, n) ==
  IF root = SymArray THEN n.array[i] ELSE IF root = Lazy THEN 0 ELSE root.contents[i].at[n]
ArrayAt(root, writes, i, n) ==
  IF Hits(writes, i, n) # {} THEN writes[Max(Hits(writes, i, n))].value.at[n]
  ELSE RootAt(root, i, n)

\* the byte i of an object for input n: its cache, or the array
ByteAt(os, i, n) ==
  IF i \in os.concrete THEN os.store[i]
  ELSE IF i \in DOMAIN os.known THEN os.known[i].at[n]
  ELSE ArrayAt(os.root, os.writes, i, n)

Shape(size) ==
  [object : Nat, owner : Nat, readOnly : BOOLEAN, store : [Offsets(size) -> Nat],
   concrete : SUBSET Offsets(size), flushed : SUBSET Offsets(size),
   known : UNION {[K -> Expr] : K \in SUBSET Offsets(size)},
   root : Roots(size), writes : Seq(Update)]

\* The invariants of the caches: a byte is not cached in both ways, one that is
\* not cached is in the updates, and a cache that is flushed agrees with them.
Coherent(os) ==
  /\ os.concrete \cap DOMAIN os.known = {}
  /\ DOMAIN os.store \ os.flushed \subseteq os.concrete \cup DOMAIN os.known
  /\ \A i \in os.flushed : \A n \in Input :
       ByteAt(os, i, n) = ArrayAt(os.root, os.writes, i, n)

WellFormed(os, size) == os \in Shape(size) /\ Coherent(os)

\* There is an input.
LEMMA InputExists == (CHOOSE n \in Input : TRUE) \in Input
PROOF
  <1>1. [x |-> 0, array |-> [i \in 0 .. MaxSize - 1 |-> 0]] \in Input
    BY DEF Input, Byte
  <1> QED BY <1>1

\* A constant denotes its value for every input.
LEMMA ConstantValue ==
  ASSUME NEW v \in Nat
  PROVE  /\ Constant(v) \in ConstExpr /\ Constant(v) \in Expr /\ Constant(v).const
         /\ \A n \in Input : Constant(v).at[n] = v
PROOF BY DEF ConstExpr, Expr, Constant

\* Constants that are equal have the same value.
LEMMA ConstantInjective ==
  ASSUME NEW v \in Nat, NEW w \in Nat, Constant(v) = Constant(w)
  PROVE  v = w
PROOF
  <1>1. PICK n \in Input : TRUE
    BY InputExists
  <1> QED BY <1>1, ConstantValue

\* An expression denotes a number for every input; a constant one is a Constant.
LEMMA ExprValue ==
  ASSUME NEW e \in Expr
  PROVE  /\ e.const \in BOOLEAN
         /\ e.at \in [Input -> Nat] /\ \A n \in Input : e.at[n] \in Nat
         /\ e.const => e \in ConstExpr /\ \E v \in Nat : e = Constant(v)
PROOF
  <1>1. CASE e \in ConstExpr
    <2>1. PICK v \in Nat : e = Constant(v)
      BY <1>1 DEF ConstExpr
    <2> QED BY <1>1, <2>1 DEF Constant
  <1>2. CASE e \in [const : {FALSE}, at : [Input -> Nat]]
    BY <1>2
  <1> QED BY <1>1, <1>2 DEF Expr

(***************************************************************************)
(* Arrays                                                                  *)
(***************************************************************************)


NoHit(writes, i, n) == \A k \in 1 .. Len(writes) : writes[k].index.at[n] # i
LastHit(writes, i, n, k) ==
  /\ k \in 1 .. Len(writes) /\ writes[k].index.at[n] = i
  /\ \A j \in 1 .. Len(writes) : j > k => writes[j].index.at[n] # i

\* The last update at an index decides, and without one the root does.
LEMMA ArrayHit ==
  ASSUME NEW root, NEW writes \in Seq(Update), NEW i, NEW n, NEW k, LastHit(writes, i, n, k)
  PROVE  ArrayAt(root, writes, i, n) = writes[k].value.at[n]
PROOF
  <1>1. Len(writes) \in Nat
    BY LenProperties
  <1>2. k \in Hits(writes, i, n) /\ \A j \in Hits(writes, i, n) : j <= k /\ j \in Nat
    BY <1>1 DEF Hits, LastHit
  <1>3. Max(Hits(writes, i, n)) = k
    <2> DEFINE H == Hits(writes, i, n)
    <2>1. k \in H /\ \A y \in H : k >= y /\ y \in Nat
      BY <1>2
    <2>2. \A x \in H : (\A y \in H : x >= y) => x = k
      BY <2>1
    <2> HIDE DEF H
    <2>3. Max(H) = k
      BY <2>1, <2>2 DEF Max
    <2> QED BY <2>3 DEF H
  <1> QED BY <1>2, <1>3 DEF ArrayAt

\* An array that no update reaches at i gives what its root holds.
LEMMA ArrayMiss ==
  ASSUME NEW root, NEW writes, NEW i, NEW n, NoHit(writes, i, n)
  PROVE  ArrayAt(root, writes, i, n) = RootAt(root, i, n)
PROOF BY DEF ArrayAt, Hits, NoHit

\* Either no update reaches i, or there is a last one.
LEMMA ArrayCases ==
  ASSUME NEW writes \in Seq(Update), NEW i, NEW n
  PROVE  NoHit(writes, i, n) \/ \E k : LastHit(writes, i, n, k)
PROOF
  <1>1. Len(writes) \in Nat
    BY LenProperties
  <1>2. CASE Hits(writes, i, n) = {}
    BY <1>2 DEF Hits, NoHit
  <1>3. CASE Hits(writes, i, n) # {}
    <2> DEFINE H == Hits(writes, i, n)
    <2>1. H \in SUBSET (0 .. Len(writes)) /\ H # {}
      BY <1>1, <1>3 DEF Hits
    <2>2. Max(H) \in H /\ \A y \in H : y <= Max(H)
      <3> HIDE DEF H
      <3> QED BY <1>1, <2>1, MaxOf
    <2>3. LastHit(writes, i, n, Max(H))
      <3>1. Max(H) \in 1 .. Len(writes) /\ writes[Max(H)].index.at[n] = i
        BY <2>2 DEF Hits
      <3>2. \A j \in 1 .. Len(writes) : writes[j].index.at[n] = i => j \in H
        BY DEF Hits
      <3> HIDE DEF H
      <3> QED BY <3>1, <3>2, <2>2, <1>1 DEF LastHit
    <2> HIDE DEF H
    <2> QED BY <2>3
  <1> QED BY <1>2, <1>3

\* The updates of two lists, one behind the other.
LEMMA ConcatParts ==
  ASSUME NEW w1 \in Seq(Update), NEW w2 \in Seq(Update)
  PROVE  /\ w1 \o w2 \in Seq(Update) /\ Len(w1 \o w2) = Len(w1) + Len(w2)
         /\ Len(w1) \in Nat /\ Len(w2) \in Nat
         /\ \A k \in 1 .. Len(w1) : (w1 \o w2)[k] = w1[k]
         /\ \A k \in 1 .. Len(w2) : (w1 \o w2)[Len(w1) + k] = w2[k]
         /\ \A j \in 1 .. Len(w1 \o w2) :
              j > Len(w1) => j - Len(w1) \in 1 .. Len(w2) /\ (w1 \o w2)[j] = w2[j - Len(w1)]
PROOF
  <1> DEFINE w == w1 \o w2
  <1>1. /\ w \in Seq(Update) /\ Len(w) = Len(w1) + Len(w2)
        /\ Len(w1) \in Nat /\ Len(w2) \in Nat
        /\ \A k \in 1 .. Len(w1) : w[k] = w1[k]
        /\ \A k \in 1 .. Len(w2) : w[Len(w1) + k] = w2[k]
    <2>1. Len(w1) \in Nat /\ Len(w2) \in Nat
      BY LenProperties
    <2>2. /\ w \in Seq(Update) /\ Len(w) = Len(w1) + Len(w2)
          /\ \A k \in 1 .. Len(w1) + Len(w2) : w[k] = IF k <= Len(w1) THEN w1[k] ELSE w2[k - Len(w1)]
      BY ConcatProperties
    <2> HIDE DEF w
    <2>3. \A k \in 1 .. Len(w1) : k \in 1 .. Len(w1) + Len(w2) /\ k <= Len(w1)
      BY <2>1
    <2>4. \A k \in 1 .. Len(w2) : /\ Len(w1) + k \in 1 .. Len(w1) + Len(w2) /\ ~(Len(w1) + k <= Len(w1))
                                  /\ (Len(w1) + k) - Len(w1) = k
      BY <2>1
    <2> QED BY <2>1, <2>2, <2>3, <2>4, Zenon
  <1> HIDE DEF w
  <1>2. \A j \in 1 .. Len(w) : j > Len(w1) => j - Len(w1) \in 1 .. Len(w2) /\ w[j] = w2[j - Len(w1)]
    <2> SUFFICES ASSUME NEW j \in 1 .. Len(w), j > Len(w1)
                 PROVE  j - Len(w1) \in 1 .. Len(w2) /\ w[j] = w2[j - Len(w1)]
      OBVIOUS
    <2>1. j - Len(w1) \in 1 .. Len(w2) /\ Len(w1) + (j - Len(w1)) = j
      BY <1>1
    <2> QED BY <1>1, <2>1
  <1> QED BY <1>1, <1>2 DEF w

\* Newer updates hide older ones, and the root.
LEMMA NewerUpdates ==
  ASSUME NEW root, NEW other, NEW w1 \in Seq(Update), NEW w2 \in Seq(Update), NEW i, NEW n,
         ~NoHit(w2, i, n)
  PROVE  ArrayAt(root, w1 \o w2, i, n) = ArrayAt(other, w2, i, n)
PROOF
  <1> DEFINE w == w1 \o w2
  <1>1. /\ w \in Seq(Update) /\ Len(w) = Len(w1) + Len(w2)
        /\ Len(w1) \in Nat /\ Len(w2) \in Nat
        /\ \A k \in 1 .. Len(w1) : w[k] = w1[k]
        /\ \A k \in 1 .. Len(w2) : w[Len(w1) + k] = w2[k]
    BY ConcatParts
  <1>2. \A j \in 1 .. Len(w) : j > Len(w1) => j - Len(w1) \in 1 .. Len(w2) /\ w[j] = w2[j - Len(w1)]
    BY ConcatParts
  <1> HIDE DEF w
  <1>3.  ArrayAt(root, w, i, n) = ArrayAt(other, w2, i, n)
    <2>1. PICK k : LastHit(w2, i, n, k)
      BY ArrayCases
    <2>0. /\ k \in 1 .. Len(w2) /\ w2[k].index.at[n] = i
          /\ \A j \in 1 .. Len(w2) : j > k => w2[j].index.at[n] # i
      BY <2>1 DEF LastHit
    <2>2. Len(w1) + k \in 1 .. Len(w) /\ w[Len(w1) + k] = w2[k]
      BY <1>1, <2>0
    <2>3. \A j \in 1 .. Len(w) : j > Len(w1) + k => w[j].index.at[n] # i
      <3> SUFFICES ASSUME NEW j \in 1 .. Len(w), j > Len(w1) + k PROVE w[j].index.at[n] # i
        OBVIOUS
      <3>1. j > Len(w1) /\ j - Len(w1) > k
        BY <1>1, <2>0
      <3> QED BY <3>1, <1>2, <2>0
    <2>4. LastHit(w, i, n, Len(w1) + k)
      BY <2>0, <2>2, <2>3 DEF LastHit
    <2>5. ArrayAt(root, w, i, n) = w[Len(w1) + k].value.at[n] /\ ArrayAt(other, w2, i, n) = w2[k].value.at[n]
      BY <1>1, <2>1, <2>4, ArrayHit
    <2> QED BY <2>2, <2>5
  <1> QED BY <1>3 DEF w

\* Newer updates that do not reach i leave what the older ones say.
LEMMA OlderUpdates ==
  ASSUME NEW root, NEW w1 \in Seq(Update), NEW w2 \in Seq(Update), NEW i, NEW n, NoHit(w2, i, n)
  PROVE  ArrayAt(root, w1 \o w2, i, n) = ArrayAt(root, w1, i, n)
PROOF
  <1> DEFINE w == w1 \o w2
  <1>1. /\ w \in Seq(Update) /\ Len(w) = Len(w1) + Len(w2)
        /\ Len(w1) \in Nat /\ Len(w2) \in Nat
        /\ \A k \in 1 .. Len(w1) : w[k] = w1[k]
        /\ \A k \in 1 .. Len(w2) : w[Len(w1) + k] = w2[k]
    BY ConcatParts
  <1>2. \A j \in 1 .. Len(w) : j > Len(w1) => j - Len(w1) \in 1 .. Len(w2) /\ w[j] = w2[j - Len(w1)]
    BY ConcatParts
  <1> HIDE DEF w
  <1>3.  ArrayAt(root, w, i, n) = ArrayAt(root, w1, i, n)
    <2>1. CASE NoHit(w1, i, n)
      <3>1. NoHit(w, i, n)
        <4> SUFFICES ASSUME NEW j \in 1 .. Len(w) PROVE w[j].index.at[n] # i
          BY DEF NoHit
        <4>1. CASE j <= Len(w1)
          <5>1. j \in 1 .. Len(w1)
            BY <1>1, <4>1
          <5> QED BY <5>1, <1>1, <2>1 DEF NoHit
        <4>2. CASE j > Len(w1)
          BY <4>2, <1>2 DEF NoHit
        <4> QED BY <4>1, <4>2, <1>1
      <3> QED BY <3>1, <2>1, ArrayMiss
    <2>2. ASSUME NEW k, LastHit(w1, i, n, k)
          PROVE  ArrayAt(root, w, i, n) = ArrayAt(root, w1, i, n)
      <3>0. /\ k \in 1 .. Len(w1) /\ w1[k].index.at[n] = i
            /\ \A j \in 1 .. Len(w1) : j > k => w1[j].index.at[n] # i
        BY <2>2 DEF LastHit
      <3>1. k \in 1 .. Len(w) /\ w[k] = w1[k]
        BY <1>1, <3>0
      <3>2. \A j \in 1 .. Len(w) : j > k => w[j].index.at[n] # i
        <4> SUFFICES ASSUME NEW j \in 1 .. Len(w), j > k PROVE w[j].index.at[n] # i
          OBVIOUS
        <4>1. CASE j <= Len(w1)
          <5>1. j \in 1 .. Len(w1)
            BY <1>1, <4>1
          <5> QED BY <5>1, <1>1, <3>0
        <4>2. CASE j > Len(w1)
          BY <4>2, <1>2 DEF NoHit
        <4> QED BY <4>1, <4>2, <1>1
      <3>3. LastHit(w, i, n, k)
        BY <3>0, <3>1, <3>2 DEF LastHit
      <3>4. ArrayAt(root, w, i, n) = w[k].value.at[n] /\ ArrayAt(root, w1, i, n) = w1[k].value.at[n]
        BY <1>1, <2>2, <3>3, ArrayHit
      <3> QED BY <3>1, <3>4
    <2> QED BY <2>1, <2>2, ArrayCases
  <1> QED BY <1>3 DEF w

(***************************************************************************)
(* Flushing                                                                *)
(***************************************************************************)

\* The fields of an object state.
LEMMA ShapeFields ==
  ASSUME NEW size, NEW os \in Shape(size)
  PROVE  /\ os.object \in Nat /\ os.owner \in Nat /\ os.readOnly \in BOOLEAN
         /\ os.store \in [Offsets(size) -> Nat] /\ DOMAIN os.store = Offsets(size)
         /\ os.concrete \subseteq Offsets(size) /\ os.flushed \subseteq Offsets(size)
         /\ os.known \in [DOMAIN os.known -> Expr] /\ DOMAIN os.known \subseteq Offsets(size)
         /\ os.root \in Roots(size) /\ os.writes \in Seq(Update)
PROOF
  <1>1. PICK K \in SUBSET Offsets(size) : os.known \in [K -> Expr]
    BY DEF Shape
  <1> QED BY <1>1 DEF Shape

\* The updates of a flush hold the bytes that were not flushed, and no others.
LEMMA PendingMeaning ==
  ASSUME NEW size \in Nat, NEW os, WellFormed(os, size)
  PROVE  /\ Pending(os) \in Seq(Update)
         /\ \A i \in Offsets(size), n \in Input :
              /\ i \in os.flushed => NoHit(Pending(os), i, n)
              /\ i \notin os.flushed =>
                   /\ ~NoHit(Pending(os), i, n)
                   /\ \A root : ArrayAt(root, Pending(os), i, n) = ByteAt(os, i, n)
PROOF
  <1> DEFINE todo == DOMAIN os.store \ os.flushed
             P == Pending(os)
  <1>1. os \in Shape(size) /\ Coherent(os)
    BY DEF WellFormed
  <1>2. todo \subseteq Offsets(size) /\ todo \in SUBSET (0 .. size - 1) /\ size - 1 \in Int
    BY <1>1, ShapeFields DEF Offsets
  <1>3. /\ Cardinality(todo) \in Nat
        /\ \A k \in 1 .. Cardinality(todo) : Nth(todo, k) \in todo
        /\ \A i \in todo : \E k \in 1 .. Cardinality(todo) : Nth(todo, k) = i
    <2> HIDE DEF todo
    <2> QED BY <1>2, NthEnumerates
  <1>4. \A j \in todo : /\ CachedWrite(os, j) \in Update
                        /\ \A n \in Input : /\ CachedWrite(os, j).index.at[n] = j
                                            /\ CachedWrite(os, j).value.at[n] = ByteAt(os, j, n)
    <2> SUFFICES ASSUME NEW j \in todo
                 PROVE  /\ CachedWrite(os, j) \in Update
                        /\ \A n \in Input : /\ CachedWrite(os, j).index.at[n] = j
                                            /\ CachedWrite(os, j).value.at[n] = ByteAt(os, j, n)
      OBVIOUS
    <2>1. j \in Nat /\ j \in Offsets(size)
      BY <1>2 DEF Offsets
    <2>2. CASE j \in os.concrete
      <3>1. os.store[j] \in Nat
        BY <1>1, <2>1, ShapeFields
      <3> QED BY <2>1, <2>2, <3>1, ConstantValue DEF CachedWrite, Update, ByteAt
    <2>3. CASE j \notin os.concrete
      <3>1. j \in DOMAIN os.known
        BY <1>1, <2>3 DEF Coherent
      <3>2. os.known[j] \in Expr
        BY <1>1, <3>1, ShapeFields
      <3> QED BY <2>1, <2>3, <3>1, <3>2, ConstantValue DEF CachedWrite, Update, ByteAt
    <2> QED BY <2>2, <2>3
  <1>5. P = [k \in 1 .. Cardinality(todo) |-> CachedWrite(os, Nth(todo, k))]
    BY DEF Pending
  <1> HIDE DEF P, todo
  <1>6. P \in Seq(Update) /\ Len(P) = Cardinality(todo)
    <2>1. \A k \in 1 .. Cardinality(todo) : CachedWrite(os, Nth(todo, k)) \in Update
      BY <1>3, <1>4
    <2>2. P \in Seq(Update)
      BY <1>3, <1>5, <2>1, IsASeq
    <2>3. DOMAIN P = 1 .. Len(P) /\ DOMAIN P = 1 .. Cardinality(todo) /\ Len(P) \in Nat
      BY <2>2, <1>5, LenProperties
    <2> QED BY <2>2, <2>3, <1>3
  <1>7. \A k \in 1 .. Len(P), n \in Input :
          /\ P[k].index.at[n] = Nth(todo, k) /\ Nth(todo, k) \in todo
          /\ P[k].value.at[n] = ByteAt(os, Nth(todo, k), n)
    BY <1>3, <1>4, <1>5, <1>6
  <1>8. ASSUME NEW i \in Offsets(size), NEW n \in Input
        PROVE  /\ i \in os.flushed => NoHit(P, i, n)
               /\ i \notin os.flushed => /\ ~NoHit(P, i, n)
                                         /\ \A root : ArrayAt(root, P, i, n) = ByteAt(os, i, n)
    <2>1. CASE i \in os.flushed
      <3>1. i \notin todo
        BY <2>1 DEF todo
      <3> QED BY <1>7, <2>1, <3>1 DEF NoHit
    <2>2. CASE i \notin os.flushed
      <3>1. i \in todo
        BY <1>1, <2>2, ShapeFields DEF todo
      <3>2. ~NoHit(P, i, n)
        <4>1. PICK j \in 1 .. Len(P) : Nth(todo, j) = i
          BY <1>3, <1>6, <3>1
        <4>2. P[j].index.at[n] = i
          BY <1>7, <4>1
        <4> QED BY <4>1, <4>2 DEF NoHit
      <3>3. PICK k : LastHit(P, i, n, k)
        BY <1>6, <3>2, ArrayCases
      <3>4. k \in 1 .. Len(P) /\ P[k].index.at[n] = i
        BY <3>3 DEF LastHit
      <3>5. P[k].value.at[n] = ByteAt(os, i, n)
        BY <1>7, <3>4
      <3>6. \A root : ArrayAt(root, P, i, n) = P[k].value.at[n]
        BY <1>6, <3>3, ArrayHit
      <3> QED BY <2>2, <3>2, <3>5, <3>6
    <2> QED BY <2>1, <2>2
  <1> QED BY <1>6, <1>8 DEF P

\* After a flush the array holds every byte.
LEMMA FlushedArray ==
  ASSUME NEW size \in Nat, NEW os, WellFormed(os, size)
  PROVE  /\ os.writes \o Pending(os) \in Seq(Update)
         /\ \A i \in Offsets(size), n \in Input :
              ArrayAt(os.root, os.writes \o Pending(os), i, n) = ByteAt(os, i, n)
PROOF
  <1>1. os \in Shape(size) /\ Coherent(os)
    BY DEF WellFormed
  <1>2. os.writes \in Seq(Update) /\ Pending(os) \in Seq(Update)
    BY <1>1, ShapeFields, PendingMeaning
  <1>3. os.writes \o Pending(os) \in Seq(Update)
    BY <1>2, ConcatParts
  <1>4. ASSUME NEW i \in Offsets(size), NEW n \in Input
        PROVE  ArrayAt(os.root, os.writes \o Pending(os), i, n) = ByteAt(os, i, n)
    <2>1. CASE i \in os.flushed
      <3>1. NoHit(Pending(os), i, n)
        BY <2>1, PendingMeaning
      <3>2. ArrayAt(os.root, os.writes \o Pending(os), i, n) = ArrayAt(os.root, os.writes, i, n)
        BY <1>2, <3>1, OlderUpdates
      <3> QED BY <1>1, <2>1, <3>2 DEF Coherent
    <2>2. CASE i \notin os.flushed
      <3>1. ~NoHit(Pending(os), i, n) /\ ArrayAt(os.root, Pending(os), i, n) = ByteAt(os, i, n)
        BY <2>2, PendingMeaning
      <3>2. ArrayAt(os.root, os.writes \o Pending(os), i, n) = ArrayAt(os.root, Pending(os), i, n)
        BY <1>2, <3>1, NewerUpdates
      <3> QED BY <3>1, <3>2
    <2> QED BY <2>1, <2>2
  <1> QED BY <1>3, <1>4

\* what an operation leaves alone when it only moves bytes between the caches and
\* the array
SameMeaning(new, os, size) ==
  /\ WellFormed(new, size)
  /\ new.object = os.object /\ new.owner = os.owner /\ new.readOnly = os.readOnly
  /\ \A i \in Offsets(size), n \in Input : ByteAt(new, i, n) = ByteAt(os, i, n)

\* flushRangeForRead: the array is up to date, and no byte changes.
LEMMA FlushedForRead ==
  ASSUME NEW size \in Nat, NEW os, WellFormed(os, size)
  PROVE  LET new == flushRangeForRead(os)
         IN  /\ SameMeaning(new, os, size) /\ new.store = os.store /\ new.known = os.known
             /\ \A i \in Offsets(size), n \in Input :
                  ArrayAt(new.root, new.writes, i, n) = ByteAt(os, i, n)
PROOF
  <1> DEFINE new == flushRangeForRead(os)
  <1>1. os \in Shape(size) /\ Coherent(os)
    BY DEF WellFormed
  <1>2. /\ new.object = os.object /\ new.owner = os.owner /\ new.readOnly = os.readOnly
        /\ new.store = os.store /\ new.concrete = os.concrete /\ new.known = os.known
        /\ new.root = os.root /\ new.writes = os.writes \o Pending(os)
        /\ new.flushed = Offsets(size)
    BY <1>1, ShapeFields DEF flushRangeForRead, Shape
  <1>3. new \in Shape(size)
    <2>1. os.writes \o Pending(os) \in Seq(Update)
      BY FlushedArray
    <2> QED BY <1>1, <2>1, ShapeFields DEF flushRangeForRead, Shape
  <1> HIDE DEF new
  <1>4. \A i \in Offsets(size), n \in Input : ArrayAt(new.root, new.writes, i, n) = ByteAt(os, i, n)
    BY <1>2, FlushedArray
  <1>5. \A i \in Offsets(size), n \in Input : ByteAt(new, i, n) = ByteAt(os, i, n)
    <2> SUFFICES ASSUME NEW i \in Offsets(size), NEW n \in Input
                 PROVE  ByteAt(new, i, n) = ByteAt(os, i, n)
      OBVIOUS
    <2>1. CASE i \in os.concrete \cup DOMAIN os.known
      BY <1>2, <2>1 DEF ByteAt
    <2>2. CASE i \notin os.concrete \cup DOMAIN os.known
      <3>1. ByteAt(new, i, n) = ArrayAt(new.root, new.writes, i, n)
        BY <1>2, <2>2 DEF ByteAt
      <3> QED BY <3>1, <1>4
    <2> QED BY <2>1, <2>2
  <1>6. Coherent(new)
    <2>1. DOMAIN new.store \ new.flushed = {}
      BY <1>1, <1>2, ShapeFields
    <2> QED BY <1>1, <1>2, <1>4, <1>5, <2>1 DEF Coherent
  <1>7. SameMeaning(new, os, size)
    BY <1>2, <1>3, <1>5, <1>6 DEF SameMeaning, WellFormed
  <1> QED BY <1>2, <1>4, <1>7 DEF new

\* flushRangeForWrite: only the array is left, and it holds every byte.
LEMMA FlushedForWrite ==
  ASSUME NEW size \in Nat, NEW os, WellFormed(os, size)
  PROVE  LET new == flushRangeForWrite(os)
         IN  /\ new \in Shape(size)
             /\ new.object = os.object /\ new.owner = os.owner /\ new.readOnly = os.readOnly
             /\ new.concrete = {} /\ DOMAIN new.known = {} /\ new.flushed = Offsets(size)
             /\ \A i \in Offsets(size), n \in Input :
                  ArrayAt(new.root, new.writes, i, n) = ByteAt(os, i, n)
PROOF
  <1> DEFINE new == flushRangeForWrite(os)
  <1>1. os \in Shape(size) /\ Coherent(os)
    BY DEF WellFormed
  <1>2. /\ new.object = os.object /\ new.owner = os.owner /\ new.readOnly = os.readOnly
        /\ new.concrete = {} /\ new.known = << >> /\ DOMAIN new.known = {}
        /\ new.root = os.root /\ new.writes = os.writes \o Pending(os)
        /\ new.flushed = Offsets(size)
    BY <1>1, ShapeFields DEF flushRangeForWrite, Shape
  <1>3. new \in Shape(size)
    <2>1. os.writes \o Pending(os) \in Seq(Update)
      BY FlushedArray
    <2>2. << >> \in [{} -> Expr] /\ {} \in SUBSET Offsets(size)
      OBVIOUS
    <2>3. << >> \in UNION {[K -> Expr] : K \in SUBSET Offsets(size)}
      BY <2>2
    <2> QED BY <1>1, <2>1, <2>3, ShapeFields DEF flushRangeForWrite, Shape
  <1>4. \A i \in Offsets(size), n \in Input : ArrayAt(new.root, new.writes, i, n) = ByteAt(os, i, n)
    <2> HIDE DEF new
    <2> QED BY <1>2, FlushedArray
  <1> QED BY <1>2, <1>3, <1>4

(***************************************************************************)
(* The lazily built root array                                             *)
(***************************************************************************)

\* The three kinds of root are different.
LEMMA RootKinds ==
  /\ Lazy # SymArray /\ Lazy.kind = "lazy" /\ SymArray.kind = "symbolic"
  /\ \A c : /\ ConstArray(c) # Lazy /\ ConstArray(c) # SymArray
            /\ ConstArray(c).kind = "const" /\ ConstArray(c).contents = c
PROOF
  <1>1. Lazy.kind = "lazy" /\ SymArray.kind = "symbolic" /\ \A c : ConstArray(c).kind = "const"
    BY DEF Lazy, SymArray, ConstArray
  <1>2. \A c : ConstArray(c).contents = c
    BY DEF ConstArray
  <1> QED BY <1>1, <1>2

Latest(writes, first, i) == {k \in 1 .. first : \A in \in Input : writes[k].index.at[in] = i}
Collapsed(size, writes, first) ==
  [i \in Offsets(size) |-> IF Latest(writes, first, i) = {} THEN Constant(0)
                           ELSE writes[Max(Latest(writes, first, i))].value]

\* The array that takes the constant updates holds, together with the others,
\* what the updates held before: nothing else was behind them.
LEMMA CollapsedRoot ==
  ASSUME NEW size \in Nat, NEW writes \in Seq(Update), NEW first \in 0 .. Len(writes),
         \A j \in 1 .. first : writes[j].index.const /\ writes[j].value.const
  PROVE  LET contents == Collapsed(size, writes, first)
             rest == SubSeq(writes, first + 1, Len(writes))
         IN  /\ contents \in [Offsets(size) -> ConstExpr] /\ rest \in Seq(Update)
             /\ \A i \in Offsets(size), n \in Input :
                  ArrayAt(ConstArray(contents), rest, i, n) = ArrayAt(Lazy, writes, i, n)
PROOF
  <1> DEFINE w1 == SubSeq(writes, 1, first)
             w2 == SubSeq(writes, first + 1, Len(writes))
             contents == Collapsed(size, writes, first)
             latest(i) == Latest(writes, first, i)
  <1>1. Len(writes) \in Nat /\ first \in Nat /\ \A k \in 1 .. Len(writes) : writes[k] \in Update
    BY LenProperties
  <1>2. /\ w1 \in Seq(Update) /\ Len(w1) = first /\ \A k \in 1 .. first : w1[k] = writes[k]
        /\ w2 \in Seq(Update) /\ w1 \o w2 = writes
    <2>1. /\ \A k \in 1 .. first : writes[k] \in Update
          /\ \A k \in first + 1 .. Len(writes) : writes[k] \in Update
      BY <1>1
    <2>2. /\ w1 \in Seq(Update) /\ Len(w1) = (IF 1 <= first THEN first - 1 + 1 ELSE 0)
          /\ \A k \in 1 .. first - 1 + 1 : w1[k] = writes[1 + k - 1]
      BY <1>1, <2>1, SubSeqProperties
    <2>3. w2 \in Seq(Update)
      BY <1>1, <2>1, SubSeqProperties
    <2>4. \A k \in 1 .. first : k \in 1 .. first - 1 + 1 /\ 1 + k - 1 = k
      BY <1>1
    <2>5. w1 \o w2 = writes
      <3>1. /\ Len(w2) = (IF first + 1 <= Len(writes) THEN Len(writes) - (first + 1) + 1 ELSE 0)
            /\ \A k \in 1 .. Len(writes) - (first + 1) + 1 : w2[k] = writes[(first + 1) + k - 1]
        BY <1>1, <2>1, SubSeqProperties
      <3>2. Len(w1) = first /\ Len(w2) = Len(writes) - first
        BY <1>1, <2>2, <3>1
      <3>3. /\ w1 \o w2 \in Seq(Update) /\ Len(w1 \o w2) = Len(writes)
            /\ \A k \in 1 .. Len(w1) : (w1 \o w2)[k] = w1[k]
            /\ \A j \in 1 .. Len(w1 \o w2) :
                 j > Len(w1) => j - Len(w1) \in 1 .. Len(w2) /\ (w1 \o w2)[j] = w2[j - Len(w1)]
        <4> HIDE DEF w1, w2
        <4>1. /\ w1 \o w2 \in Seq(Update) /\ Len(w1 \o w2) = Len(w1) + Len(w2)
              /\ \A k \in 1 .. Len(w1) : (w1 \o w2)[k] = w1[k]
              /\ \A j \in 1 .. Len(w1 \o w2) :
                   j > Len(w1) => j - Len(w1) \in 1 .. Len(w2) /\ (w1 \o w2)[j] = w2[j - Len(w1)]
          BY <2>2, <2>3, ConcatParts
        <4> QED BY <4>1, <3>2, <1>1
      <3>4. ASSUME NEW j \in 1 .. Len(writes) PROVE (w1 \o w2)[j] = writes[j]
        <4> HIDE DEF w1, w2
        <4>1. CASE j <= first
          <5>1. j \in 1 .. Len(w1) /\ w1[j] = writes[j]
            BY <1>1, <2>2, <2>4, <3>2, <4>1
          <5> QED BY <5>1, <3>3
        <4>2. CASE j > first
          <5>1. j - first \in 1 .. Len(writes) - (first + 1) + 1 /\ (first + 1) + (j - first) - 1 = j
            BY <1>1, <4>2
          <5>2. w2[j - first] = writes[j]
            BY <5>1, <3>1
          <5>3. (w1 \o w2)[j] = w2[j - first]
            BY <3>2, <3>3, <4>2
          <5> QED BY <5>2, <5>3
        <4>3. j <= first \/ j > first
          BY <1>1
        <4> QED BY <4>1, <4>2, <4>3
      <3> HIDE DEF w1, w2
      <3> QED BY <3>3, <3>4, SeqEqual
    <2> HIDE DEF w1, w2
    <2> QED BY <1>1, <2>2, <2>3, <2>4, <2>5
  <1> HIDE DEF w1, w2
  <1>3. \A i \in Offsets(size) : contents[i] = IF latest(i) = {} THEN Constant(0) ELSE writes[Max(latest(i))].value
    BY DEF Collapsed
  <1>4. \A i : latest(i) # {} => Max(latest(i)) \in latest(i) /\ Max(latest(i)) \in 1 .. first
    <2> SUFFICES ASSUME NEW i, latest(i) # {}
                 PROVE  Max(latest(i)) \in latest(i) /\ Max(latest(i)) \in 1 .. first
      OBVIOUS
    <2>1. latest(i) \in SUBSET (0 .. first) /\ latest(i) \in SUBSET (1 .. first)
      BY <1>1 DEF Latest
    <2> HIDE DEF latest
    <2> QED BY <1>1, <2>1, MaxOf
  <1>5. DOMAIN contents = Offsets(size) /\ contents = [i \in Offsets(size) |-> contents[i]]
    BY DEF Collapsed
  <1> HIDE DEF latest, contents
  <1>6. contents \in [Offsets(size) -> ConstExpr]
    <2> SUFFICES ASSUME NEW i \in Offsets(size) PROVE contents[i] \in ConstExpr
      BY <1>5
    <2>1. CASE latest(i) = {}
      BY <1>3, <2>1, ConstantValue
    <2>2. CASE latest(i) # {}
      <3>1. Max(latest(i)) \in 1 .. first /\ Max(latest(i)) \in 1 .. Len(writes)
        BY <1>1, <1>4, <2>2
      <3>2. writes[Max(latest(i))].value \in Expr /\ writes[Max(latest(i))].value.const
        BY <3>1, <1>1 DEF Update
      <3> QED BY <1>3, <2>2, <3>2, ExprValue
    <2> QED BY <2>1, <2>2
  <1>7. ASSUME NEW i \in Offsets(size), NEW n \in Input
        PROVE  ArrayAt(ConstArray(contents), w2, i, n) = ArrayAt(Lazy, w1 \o w2, i, n)
    <2>0. w1 \in Seq(Update) /\ w2 \in Seq(Update)
      BY <1>2
    <2>1. CASE ~NoHit(w2, i, n)
      BY <2>0, <2>1, NewerUpdates
    <2>2. CASE NoHit(w2, i, n)
      <3>1. ArrayAt(Lazy, w1 \o w2, i, n) = ArrayAt(Lazy, w1, i, n)
        BY <2>0, <2>2, OlderUpdates
      <3>2. ArrayAt(ConstArray(contents), w2, i, n) = contents[i].at[n]
        <4>1. ArrayAt(ConstArray(contents), w2, i, n) = RootAt(ConstArray(contents), i, n)
          BY <2>2, ArrayMiss
        <4> QED BY <4>1, RootKinds DEF RootAt
      <3>3. latest(i) = Hits(w1, i, n)
        <4>1. ASSUME NEW k \in 1 .. first
              PROVE  (\A in \in Input : writes[k].index.at[in] = i) <=> w1[k].index.at[n] = i
          <5>1. writes[k].index \in Expr /\ writes[k].index.const
            BY <1>1 DEF Update
          <5>2. PICK v \in Nat : writes[k].index = Constant(v)
            BY <5>1, ExprValue
          <5>3. \A in \in Input : writes[k].index.at[in] = v
            BY <5>2, ConstantValue
          <5> QED BY <5>3, <1>2
        <4> QED BY <4>1, <1>2 DEF Hits, latest, Latest
      <3>4. CASE latest(i) = {}
        <4>1. contents[i].at[n] = 0
          BY <1>3, <3>4, ConstantValue
        <4>2. ArrayAt(Lazy, w1, i, n) = 0
          BY <3>3, <3>4, RootKinds DEF ArrayAt, RootAt
        <4> QED BY <3>1, <3>2, <4>1, <4>2
      <3>5. CASE latest(i) # {}
        <4>1. contents[i].at[n] = writes[Max(latest(i))].value.at[n]
          BY <1>3, <3>5
        <4>2. ArrayAt(Lazy, w1, i, n) = w1[Max(latest(i))].value.at[n]
          BY <3>3, <3>5 DEF ArrayAt
        <4>3. w1[Max(latest(i))] = writes[Max(latest(i))]
          BY <1>2, <1>4, <3>5
        <4> QED BY <3>1, <3>2, <4>1, <4>2, <4>3
      <3> QED BY <3>4, <3>5
    <2> QED BY <2>1, <2>2
  <1> QED BY <1>2, <1>6, <1>7 DEF w2, contents

\* getUpdates: the root exists, and no byte changes.
LEMMA UpdatesMeaning ==
  ASSUME NEW size \in Nat, NEW os, WellFormed(os, size)
  PROVE  LET new == getUpdates(os)
         IN  /\ SameMeaning(new, os, size) /\ new.root # Lazy
             /\ new.store = os.store /\ new.known = os.known /\ new.concrete = os.concrete
             /\ \A i \in Offsets(size), n \in Input :
                  ArrayAt(new.root, new.writes, i, n) = ArrayAt(os.root, os.writes, i, n)
PROOF
  <1>1. os \in Shape(size) /\ Coherent(os)
    BY DEF WellFormed
  <1>2. CASE os.root # Lazy
    <2>1. getUpdates(os) = os
      BY <1>2 DEF getUpdates
    <2> QED BY <1>2, <2>1 DEF SameMeaning
  <1>3. CASE os.root = Lazy
    <2> DEFINE N == Len(os.writes)
               plain == {k \in 0 .. N : \A j \in 1 .. k : /\ os.writes[j].index.const
                                                          /\ os.writes[j].value.const}
               first == Max(plain)
               contents == Collapsed(size, os.writes, first)
               rest == SubSeq(os.writes, first + 1, N)
               new == getUpdates(os)
    <2>1. new = [os EXCEPT !.root = ConstArray(contents), !.writes = rest]
      <3>1. DOMAIN os.store = Offsets(size)
        BY <1>1, ShapeFields
      <3> QED BY <1>3, <3>1 DEF getUpdates, Collapsed, Latest
    <2>2. os.writes \in Seq(Update) /\ N \in Nat
      BY <1>1, ShapeFields, LenProperties
    <2>3. first \in plain
      <3>1. plain \in SUBSET (0 .. N) /\ 0 \in plain
        BY <2>2
      <3> HIDE DEF plain
      <3> QED BY <2>2, <3>1, MaxOf
    <2>4. /\ first \in 0 .. Len(os.writes)
          /\ \A j \in 1 .. first : os.writes[j].index.const /\ os.writes[j].value.const
      <3> HIDE DEF first
      <3> QED BY <2>3
    <2>6. /\ contents \in [Offsets(size) -> ConstExpr] /\ rest \in Seq(Update)
          /\ \A i \in Offsets(size), n \in Input :
               ArrayAt(ConstArray(contents), rest, i, n) = ArrayAt(Lazy, os.writes, i, n)
      <3> DEFINE W == os.writes
      <3>1. /\ W \in Seq(Update) /\ first \in 0 .. Len(W)
            /\ \A j \in 1 .. first : W[j].index.const /\ W[j].value.const
        BY <2>2, <2>4
      <3> HIDE DEF first, W, plain
      <3>2. /\ Collapsed(size, W, first) \in [Offsets(size) -> ConstExpr]
            /\ SubSeq(W, first + 1, Len(W)) \in Seq(Update)
            /\ \A i \in Offsets(size), n \in Input :
                 ArrayAt(ConstArray(Collapsed(size, W, first)), SubSeq(W, first + 1, Len(W)), i, n)
                   = ArrayAt(Lazy, W, i, n)
        BY <3>1, CollapsedRoot
      <3> QED BY <3>2 DEF W
    <2> HIDE DEF contents, rest, first, plain, new
    <2>7. /\ new.object = os.object /\ new.owner = os.owner /\ new.readOnly = os.readOnly
          /\ new.store = os.store /\ new.concrete = os.concrete /\ new.known = os.known
          /\ new.flushed = os.flushed /\ new.root = ConstArray(contents) /\ new.writes = rest
      BY <2>1, <1>1 DEF Shape
    <2>8. new \in Shape(size)
      <3>1. ConstArray(contents) \in Roots(size)
        BY <2>6 DEF Roots
      <3> QED BY <2>1, <2>6, <3>1, <1>1 DEF Shape
    <2>9. \A i \in Offsets(size), n \in Input :
            ArrayAt(new.root, new.writes, i, n) = ArrayAt(os.root, os.writes, i, n)
      BY <1>3, <2>6, <2>7
    <2>10. \A i \in Offsets(size), n \in Input : ByteAt(new, i, n) = ByteAt(os, i, n)
      BY <2>7, <2>9 DEF ByteAt
    <2>11. Coherent(new)
      <3>1. os.flushed \subseteq Offsets(size)
        BY <1>1, ShapeFields
      <3> QED BY <1>1, <2>7, <2>9, <2>10, <3>1 DEF Coherent
    <2>12. SameMeaning(new, os, size)
      BY <2>7, <2>8, <2>10, <2>11 DEF SameMeaning, WellFormed
    <2> QED BY <2>7, <2>9, <2>12, RootKinds DEF new
  <1> QED BY <1>2, <1>3

(***************************************************************************)
(* Reading                                                                 *)
(***************************************************************************)

\* An element of an array is a number.
LEMMA ArrayType ==
  ASSUME NEW size \in Nat, size <= MaxSize, NEW root \in Roots(size), NEW writes \in Seq(Update),
         NEW i \in Offsets(size), NEW n \in Input
  PROVE  ArrayAt(root, writes, i, n) \in Nat
PROOF
  <1>1. CASE NoHit(writes, i, n)
    <2>1. ArrayAt(root, writes, i, n) = RootAt(root, i, n)
      BY <1>1, ArrayMiss
    <2>2. CASE root = SymArray
      <3>1. i \in 0 .. MaxSize - 1
        BY SizeAssumption DEF Offsets
      <3>2. n.array[i] \in Byte
        BY <3>1 DEF Input
      <3> QED BY <2>1, <2>2, <3>2 DEF RootAt, Byte
    <2>3. CASE root = Lazy
      BY <2>1, <2>3, RootKinds DEF RootAt
    <2>4. ASSUME NEW c \in [Offsets(size) -> ConstExpr], root = ConstArray(c)
          PROVE  ArrayAt(root, writes, i, n) \in Nat
      <3>1. RootAt(root, i, n) = c[i].at[n]
        BY <2>4, RootKinds DEF RootAt
      <3>2. c[i] \in Expr
        BY DEF Expr
      <3> QED BY <2>1, <3>1, <3>2, ExprValue
    <2> QED BY <2>2, <2>3, <2>4 DEF Roots
  <1>2. ASSUME NEW k, LastHit(writes, i, n, k)
        PROVE  ArrayAt(root, writes, i, n) \in Nat
    <2>1. ArrayAt(root, writes, i, n) = writes[k].value.at[n]
      BY <1>2, ArrayHit
    <2>2. k \in 1 .. Len(writes)
      BY <1>2 DEF LastHit
    <2>3. writes[k] \in Update
      BY <2>2, ElementOfSeq
    <2>4. writes[k].value \in Expr
      BY <2>3 DEF Update
    <2> QED BY <2>1, <2>4, ExprValue
  <1> QED BY <1>1, <1>2, ArrayCases

\* The offsets that expressions of an access may have.
OffsetOf(e, size) == e \in Expr /\ \A n \in Input : e.at[n] \in Offsets(size)

\* ReadAt evaluates the array, once its root is created.
LEMMA ReadAtMeaning ==
  ASSUME NEW size \in Nat, NEW os \in Shape(size), os.root # Lazy, NEW e, NEW n
  PROVE  ReadAt(os, e, n) = ArrayAt(os.root, os.writes, e.at[n], n)
PROOF
  <1>1. CASE os.root = SymArray
    BY <1>1, RootKinds DEF ReadAt, ArrayAt, RootAt, Hits
  <1>2. ASSUME NEW c \in [Offsets(size) -> ConstExpr], os.root = ConstArray(c)
        PROVE  ReadAt(os, e, n) = ArrayAt(os.root, os.writes, e.at[n], n)
    <2>1. os.root.kind # "symbolic" /\ os.root # SymArray /\ os.root # Lazy
      BY <1>2, RootKinds
    <2> QED BY <2>1 DEF ReadAt, ArrayAt, RootAt, Hits
  <1>3. os.root \in Roots(size)
    BY ShapeFields
  <1> QED BY <1>1, <1>2, <1>3 DEF Roots

\* ReadExpr::create gives the element of the array, and what it flags constant is.
LEMMA ReadExprMeaning ==
  ASSUME NEW size \in Nat, size <= MaxSize, NEW os \in Shape(size), os.root # Lazy,
         NEW e, OffsetOf(e, size)
  PROVE  /\ ReadExpr(os, e) \in Expr
         /\ \A n \in Input : ReadExpr(os, e).at[n] = ArrayAt(os.root, os.writes, e.at[n], n)
PROOF
  <1> DEFINE N == Len(os.writes)
             Same(k) == os.writes[k].index = e
             Differs(k) == e.const /\ os.writes[k].index.const /\ ~Same(k)
             exact == {k \in 1 .. N : Same(k) /\ \A j \in k + 1 .. N : Differs(j)}
             read == [n \in Input |-> ReadAt(os, e, n)]
             allDiffer == \A k \in 1 .. N : Differs(k)
             new == [const |-> e.const /\ os.root.kind = "const" /\ allDiffer, at |-> read]
  <1>1. /\ os.writes \in Seq(Update) /\ N \in Nat /\ os.root \in Roots(size)
        /\ \A k \in 1 .. N : os.writes[k].index \in Expr /\ os.writes[k].value \in Expr
    <2>1. os.writes \in Seq(Update) /\ os.root \in Roots(size)
      BY ShapeFields
    <2>2. N \in Nat /\ \A k \in 1 .. N : os.writes[k] \in Update
      BY <2>1, LenProperties
    <2> QED BY <2>1, <2>2 DEF Update
  <1>2. e \in Expr /\ \A n \in Input : e.at[n] \in Offsets(size) /\ e.at[n] \in Nat
    BY ExprValue DEF OffsetOf
  <1>3. \A k \in 1 .. N : Differs(k) => \A n \in Input : os.writes[k].index.at[n] # e.at[n]
    <2> SUFFICES ASSUME NEW k \in 1 .. N, Differs(k), NEW n \in Input
                 PROVE  os.writes[k].index.at[n] # e.at[n]
      OBVIOUS
    <2>1. PICK v \in Nat : e = Constant(v)
      BY <1>2, ExprValue
    <2>2. PICK w \in Nat : os.writes[k].index = Constant(w)
      BY <1>1, ExprValue
    <2>3. v # w
      BY <2>1, <2>2
    <2>4. os.writes[k].index.at[n] = w /\ e.at[n] = v
      BY <2>1, <2>2, ConstantValue
    <2> QED BY <2>3, <2>4
  <1>4. ReadExpr(os, e) = IF exact # {} THEN os.writes[Max(exact)].value ELSE new
    BY DEF ReadExpr
  <1>5. CASE exact # {}
    <2> DEFINE K == Max(exact)
    <2>1. K \in exact
      <3>1. exact \in SUBSET (0 .. N)
        BY <1>1
      <3> HIDE DEF exact
      <3> QED BY <1>1, <1>5, <3>1, MaxOf
    <2>2. K \in 1 .. N /\ Same(K) /\ \A j \in K + 1 .. N : Differs(j)
      <3> HIDE DEF K, Same, Differs
      <3> QED BY <2>1
    <2> HIDE DEF K, exact
    <2>3. ReadExpr(os, e) = os.writes[K].value
      BY <1>4, <1>5 DEF K
    <2>4. \A n \in Input : LastHit(os.writes, e.at[n], n, K)
      <3> SUFFICES ASSUME NEW n \in Input PROVE LastHit(os.writes, e.at[n], n, K)
        OBVIOUS
      <3>1. \A j \in 1 .. N : j > K => j \in K + 1 .. N
        BY <1>1, <2>2
      <3>2. \A j \in 1 .. N : j > K => os.writes[j].index.at[n] # e.at[n]
        <4> HIDE DEF Differs
        <4> QED BY <1>3, <2>2, <3>1
      <3> QED BY <2>2, <3>2 DEF LastHit
    <2>5. \A n \in Input : ArrayAt(os.root, os.writes, e.at[n], n) = os.writes[K].value.at[n]
      BY <1>1, <2>4, ArrayHit
    <2> QED BY <1>1, <2>2, <2>3, <2>5
  <1>6. CASE exact = {}
    <2>1. ReadExpr(os, e) = new
      BY <1>4, <1>6
    <2>2. \A n \in Input : ReadAt(os, e, n) = ArrayAt(os.root, os.writes, e.at[n], n)
      BY ReadAtMeaning
    <2>3. \A n \in Input : ReadAt(os, e, n) \in Nat
      BY <1>1, <1>2, <2>2, ArrayType
    <2>4. new \in Expr
      <3>1. CASE ~(e.const /\ os.root.kind = "const" /\ allDiffer)
        <4>1. new = [const |-> FALSE, at |-> read]
          <5> HIDE DEF allDiffer
          <5> QED BY <3>1
        <4>2. read \in [Input -> Nat]
          BY <2>3
        <4> HIDE DEF read, new
        <4> QED BY <4>1, <4>2 DEF Expr
      <3>2. CASE e.const /\ os.root.kind = "const" /\ allDiffer
        <4>1. PICK v \in Nat : e = Constant(v)
          BY <3>2, <1>2, ExprValue
        <4>2. v \in Offsets(size) /\ \A n \in Input : e.at[n] = v
          <5>1. \A n \in Input : e.at[n] = v
            BY <4>1, ConstantValue
          <5> QED BY <5>1, <1>2, InputExists
        <4>3. PICK c \in [Offsets(size) -> ConstExpr] : os.root = ConstArray(c)
          BY <1>1, <3>2, RootKinds DEF Roots
        <4>4. PICK u \in Nat : c[v] = Constant(u)
          BY <4>2 DEF ConstExpr
        <4>5. \A n \in Input : ReadAt(os, e, n) = u
          <5> SUFFICES ASSUME NEW n \in Input PROVE ReadAt(os, e, n) = u
            OBVIOUS
          <5>1. NoHit(os.writes, e.at[n], n)
            <6> HIDE DEF Differs
            <6> QED BY <3>2, <1>3 DEF NoHit
          <5>2. ArrayAt(os.root, os.writes, e.at[n], n) = RootAt(os.root, e.at[n], n)
            BY <5>1, ArrayMiss
          <5>3. RootAt(os.root, e.at[n], n) = c[v].at[n]
            BY <4>2, <4>3, RootKinds DEF RootAt
          <5>4. c[v].at[n] = u
            BY <4>4, ConstantValue
          <5> QED BY <2>2, <5>2, <5>3, <5>4
        <4>6. read = [n \in Input |-> u]
          BY <4>5
        <4>7. new = [const |-> TRUE, at |-> read]
          <5> HIDE DEF allDiffer
          <5> QED BY <3>2
        <4>8. new = Constant(u)
          <5> HIDE DEF new, read
          <5> QED BY <4>6, <4>7 DEF Constant
        <4> HIDE DEF new
        <4> QED BY <4>8, ConstantValue
      <3> QED BY <3>1, <3>2
    <2>5. \A n \in Input : new.at[n] = ReadAt(os, e, n)
      OBVIOUS
    <2> HIDE DEF new
    <2> QED BY <2>1, <2>2, <2>4, <2>5
  <1> QED BY <1>5, <1>6

\* getZExtValue of a constant offset in bounds.
LEMMA ConstantOffset ==
  ASSUME NEW size \in Nat, NEW os \in Shape(size), NEW e, OffsetOf(e, size), e.const
  PROVE  LET i == OffsetValue(os, e)
         IN  i \in Offsets(size) /\ e = Constant(i) /\ \A n \in Input : e.at[n] = i
PROOF
  <1>1. DOMAIN os.store = Offsets(size) /\ Offsets(size) \subseteq Nat
    BY ShapeFields DEF Offsets
  <1>2. PICK v \in Nat : e = Constant(v)
    BY ExprValue DEF OffsetOf
  <1>3. \A n \in Input : e.at[n] = v
    BY <1>2, ConstantValue
  <1>4. v \in Offsets(size)
    BY <1>3, InputExists DEF OffsetOf
  <1>5. OffsetValue(os, e) = v
    <2>1. \A j \in DOMAIN os.store : e = Constant(j) => j = v
      BY <1>1, <1>2, ConstantInjective
    <2> QED BY <2>1, <1>1, <1>2, <1>4 DEF OffsetValue
  <1> QED BY <1>2, <1>3, <1>4, <1>5

\* read8 gives the byte, at a constant or a symbolic offset, and what it does to
\* the object changes no byte.
LEMMA ReadMeaning ==
  ASSUME NEW size \in Nat, size <= MaxSize, NEW os, WellFormed(os, size), NEW e, OffsetOf(e, size)
  PROVE  /\ read8(os, e) \in Expr
         /\ \A n \in Input : read8(os, e).at[n] = ByteAt(os, e.at[n], n)
         /\ SameMeaning(AfterRead(os, e), os, size)
         /\ AfterRead(os, e).store = os.store /\ AfterRead(os, e).known = os.known
PROOF
  <1>1. os \in Shape(size) /\ Coherent(os)
    BY DEF WellFormed
  <1>2. CASE ~e.const
    <2> DEFINE f == flushRangeForRead(os)
               g == getUpdates(f)
    <2>1. /\ SameMeaning(f, os, size) /\ f.store = os.store /\ f.known = os.known
          /\ \A i \in Offsets(size), n \in Input : ArrayAt(f.root, f.writes, i, n) = ByteAt(os, i, n)
      BY FlushedForRead
    <2>2. WellFormed(f, size)
      BY <2>1 DEF SameMeaning
    <2> HIDE DEF f
    <2>3. /\ SameMeaning(g, f, size) /\ g.root # Lazy /\ g.store = f.store /\ g.known = f.known
          /\ \A i \in Offsets(size), n \in Input : ArrayAt(g.root, g.writes, i, n) = ArrayAt(f.root, f.writes, i, n)
      BY <2>2, UpdatesMeaning
    <2>4. AfterRead(os, e) = g /\ read8(os, e) = ReadExpr(g, e)
      BY <1>2 DEF AfterRead, read8, f
    <2> HIDE DEF g
    <2>5. g \in Shape(size)
      BY <2>3 DEF SameMeaning, WellFormed
    <2>6. /\ ReadExpr(g, e) \in Expr
          /\ \A n \in Input : ReadExpr(g, e).at[n] = ArrayAt(g.root, g.writes, e.at[n], n)
      BY <2>3, <2>5, ReadExprMeaning
    <2>7. \A n \in Input : ArrayAt(g.root, g.writes, e.at[n], n) = ByteAt(os, e.at[n], n)
      BY <2>1, <2>3 DEF OffsetOf
    <2>8. SameMeaning(g, os, size)
      BY <2>1, <2>3 DEF SameMeaning
    <2> QED BY <2>1, <2>3, <2>4, <2>6, <2>7, <2>8
  <1>3. CASE e.const
    <2> DEFINE i == OffsetValue(os, e)
               g == getUpdates(os)
    <2>1. i \in Offsets(size) /\ e = Constant(i) /\ \A n \in Input : e.at[n] = i
      BY <1>1, <1>3, ConstantOffset
    <2>2. /\ AfterRead(os, e) = IF i \in os.concrete \cup DOMAIN os.known THEN os ELSE g
          /\ read8(os, e) = IF i \in os.concrete THEN Constant(os.store[i])
                            ELSE IF i \in DOMAIN os.known THEN os.known[i] ELSE ReadExpr(g, e)
      BY <1>3 DEF AfterRead, read8
    <2>3. /\ SameMeaning(g, os, size) /\ g.root # Lazy /\ g.store = os.store /\ g.known = os.known
          /\ \A j \in Offsets(size), n \in Input : ArrayAt(g.root, g.writes, j, n) = ArrayAt(os.root, os.writes, j, n)
      BY UpdatesMeaning
    <2> HIDE DEF g, i
    <2>4. SameMeaning(os, os, size)
      BY DEF SameMeaning
    <2>5. CASE i \in os.concrete
      <3>1. os.store[i] \in Nat
        BY <1>1, <2>1, ShapeFields
      <3> QED BY <2>1, <2>2, <2>4, <2>5, <3>1, ConstantValue DEF ByteAt
    <2>6. CASE i \notin os.concrete /\ i \in DOMAIN os.known
      <3>1. os.known[i] \in Expr
        BY <1>1, <2>6, ShapeFields
      <3> QED BY <2>1, <2>2, <2>4, <2>6, <3>1 DEF ByteAt
    <2>7. CASE i \notin os.concrete /\ i \notin DOMAIN os.known
      <3>1. g \in Shape(size)
        BY <2>3 DEF SameMeaning, WellFormed
      <3>2. /\ ReadExpr(g, e) \in Expr
            /\ \A n \in Input : ReadExpr(g, e).at[n] = ArrayAt(g.root, g.writes, e.at[n], n)
        BY <2>3, <3>1, ReadExprMeaning
      <3>3. \A n \in Input : ByteAt(os, e.at[n], n) = ArrayAt(g.root, g.writes, e.at[n], n)
        BY <2>1, <2>3, <2>7 DEF ByteAt
      <3> QED BY <2>2, <2>3, <2>7, <3>2, <3>3
    <2> QED BY <2>5, <2>6, <2>7
  <1> QED BY <1>2, <1>3

(***************************************************************************)
(* New objects, copies and changes behind the caches                       *)
(***************************************************************************)

\* A new object state has the fields of one.
LEMMA FreshShape ==
  ASSUME NEW size \in Nat, NEW m \in Nat, NEW lazy \in BOOLEAN
  PROVE  /\ Fresh(m, size, lazy) \in Shape(size)
         /\ Fresh(m, size, lazy).object = m /\ ~Fresh(m, size, lazy).readOnly
         /\ Fresh(m, size, lazy).writes = << >>
         /\ << >> \in UNION {[K -> Expr] : K \in SUBSET Offsets(size)}
PROOF
  <1> DEFINE root == IF lazy THEN Lazy ELSE SymArray
             st == [i \in Offsets(size) |-> 0]
  <1>1. << >> \in UNION {[K -> Expr] : K \in SUBSET Offsets(size)}
    <2>1. << >> \in [{} -> Expr] /\ {} \in SUBSET Offsets(size)
      OBVIOUS
    <2> QED BY <2>1
  <1>2. << >> \in Seq(Update)
    BY EmptySeq
  <1>3. root \in Roots(size) /\ st \in [Offsets(size) -> Nat]
    BY DEF Roots
  <1>4. Fresh(m, size, lazy) =
          [object |-> m, owner |-> 0, readOnly |-> FALSE, store |-> st, concrete |-> Offsets(size),
           flushed |-> {}, known |-> << >>, root |-> root, writes |-> << >>]
    BY DEF Fresh
  <1> HIDE DEF root, st
  <1>5. /\ Fresh(m, size, lazy).object = m /\ ~Fresh(m, size, lazy).readOnly
        /\ Fresh(m, size, lazy).writes = << >>
    BY <1>4
  <1>6. Offsets(size) \in SUBSET Offsets(size) /\ {} \in SUBSET Offsets(size)
    OBVIOUS
  <1>7. Fresh(m, size, lazy) \in Shape(size)
    <2> DEFINE KN == UNION {[K -> Expr] : K \in SUBSET Offsets(size)}
               e == << >>
    <2>1. e \in KN /\ e \in Seq(Update) /\ m \in Nat /\ 0 \in Nat /\ FALSE \in BOOLEAN
      BY <1>1, <1>2
    <2>2. Shape(size) = [object : Nat, owner : Nat, readOnly : BOOLEAN, store : [Offsets(size) -> Nat],
            concrete : SUBSET Offsets(size), flushed : SUBSET Offsets(size), known : KN,
            root : Roots(size), writes : Seq(Update)]
      BY DEF Shape
    <2>3. Fresh(m, size, lazy) =
            [object |-> m, owner |-> 0, readOnly |-> FALSE, store |-> st, concrete |-> Offsets(size),
             flushed |-> {}, known |-> e, root |-> root, writes |-> e]
      BY <1>4
    <2> HIDE DEF KN, e
    <2> QED BY <1>3, <1>6, <2>1, <2>2, <2>3
  <1> QED BY <1>1, <1>5, <1>7

\* A new object, filled with a value.
LEMMA NewObject ==
  ASSUME NEW size \in Nat, NEW m \in Nat, NEW lazy \in BOOLEAN, NEW v \in Nat
  PROVE  LET os == Filled(Fresh(m, size, lazy), v)
         IN  /\ WellFormed(os, size) /\ os.known = << >> /\ ~os.readOnly /\ os.object = m
             /\ \A i \in Offsets(size), n \in Input : ByteAt(os, i, n) = v
PROOF
  <1> DEFINE f == Fresh(m, size, lazy)
             os == Filled(f, v)
             st == [i \in Offsets(size) |-> v]
  <1>1. f \in Shape(size) /\ f.object = m /\ ~f.readOnly
    BY FreshShape
  <1>2. DOMAIN f.store = Offsets(size) /\ st \in [Offsets(size) -> Nat]
    BY <1>1, ShapeFields
  <1>3. os = [f EXCEPT !.store = st, !.concrete = Offsets(size), !.flushed = {}, !.known = << >>]
    BY <1>2 DEF Filled
  <1> HIDE DEF st, f, os
  <1>4. os \in Shape(size)
    BY <1>1, <1>2, <1>3, FreshShape DEF Shape
  <1>5. /\ os.object = f.object /\ os.readOnly = f.readOnly
        /\ os.store = st /\ os.concrete = Offsets(size) /\ os.flushed = {} /\ os.known = << >>
    BY <1>1, <1>3 DEF Shape
  <1>6. \A i \in Offsets(size), n \in Input : ByteAt(os, i, n) = v
    BY <1>5 DEF ByteAt, st
  <1>7. DOMAIN os.store = Offsets(size) /\ DOMAIN os.known = {}
    BY <1>4, <1>5, ShapeFields
  <1>8. Coherent(os)
    BY <1>5, <1>7 DEF Coherent
  <1> QED BY <1>1, <1>4, <1>5, <1>6, <1>8 DEF WellFormed, os, f

\* The object state of a symbolic object.
LEMMA NewSymbolic ==
  ASSUME NEW size \in Nat, NEW m \in Nat
  PROVE  /\ WellFormed(Symbolic(m, size), size)
         /\ \A i \in Offsets(size), n \in Input : ByteAt(Symbolic(m, size), i, n) = n.array[i]
         /\ Symbolic(m, size).object = m /\ ~Symbolic(m, size).readOnly
PROOF
  <1> DEFINE f == Fresh(m, size, TRUE)
             os == Symbolic(m, size)
  <1>1. f \in Shape(size) /\ f.object = m /\ ~f.readOnly /\ f.writes = << >> /\ f.known = << >>
    <2>1. f.known = << >>
      BY DEF Fresh
    <2> HIDE DEF f
    <2> QED BY <2>1, FreshShape DEF f
  <1>2. os = [f EXCEPT !.root = SymArray, !.concrete = {}, !.flushed = Offsets(size)]
    BY DEF Symbolic
  <1> HIDE DEF f, os
  <1>3. os \in Shape(size)
    BY <1>1, <1>2 DEF Shape, Roots
  <1>4. /\ os.concrete = {} /\ os.flushed = Offsets(size) /\ os.known = f.known /\ os.root = SymArray
        /\ os.writes = f.writes /\ os.object = f.object /\ os.readOnly = f.readOnly
    BY <1>1, <1>2 DEF Shape
  <1>5. \A i \in Offsets(size), n \in Input : ArrayAt(os.root, os.writes, i, n) = n.array[i]
    <2> SUFFICES ASSUME NEW i \in Offsets(size), NEW n \in Input
                 PROVE  ArrayAt(os.root, os.writes, i, n) = n.array[i]
      OBVIOUS
    <2>1. Len(os.writes) = 0
      BY <1>1, <1>4, EmptySeq
    <2>2. NoHit(os.writes, i, n)
      BY <2>1 DEF NoHit
    <2>3. ArrayAt(os.root, os.writes, i, n) = RootAt(os.root, i, n)
      BY <2>2, ArrayMiss
    <2> QED BY <1>4, <2>3 DEF RootAt
  <1>6. DOMAIN os.known = {} /\ DOMAIN os.store = Offsets(size)
    BY <1>1, <1>3, <1>4, ShapeFields
  <1>7. \A i \in Offsets(size), n \in Input : ByteAt(os, i, n) = n.array[i]
    BY <1>4, <1>5, <1>6 DEF ByteAt
  <1>8. Coherent(os)
    BY <1>4, <1>5, <1>6, <1>7 DEF Coherent
  <1> QED BY <1>1, <1>3, <1>4, <1>7, <1>8 DEF WellFormed, os

Relabel(os, m, k, r) == [os EXCEPT !.object = m, !.owner = k, !.readOnly = r]

\* A copy, or an object state under another name: the contents are what they were.
LEMMA Relabelled ==
  ASSUME NEW size \in Nat, NEW os, WellFormed(os, size),
         NEW m \in Nat, NEW k \in Nat, NEW r \in BOOLEAN
  PROVE  LET new == Relabel(os, m, k, r)
         IN  /\ WellFormed(new, size) /\ new.object = m /\ new.owner = k /\ new.readOnly = r
             /\ new.known = os.known /\ new.store = os.store /\ new.concrete = os.concrete
             /\ \A i \in Offsets(size), n \in Input : ByteAt(new, i, n) = ByteAt(os, i, n)
PROOF
  <1> DEFINE new == Relabel(os, m, k, r)
  <1>1. os \in Shape(size) /\ Coherent(os)
    BY DEF WellFormed
  <1>2. new \in Shape(size)
    BY <1>1 DEF Shape, Relabel
  <1>3. /\ new.object = m /\ new.owner = k /\ new.readOnly = r /\ new.store = os.store
        /\ new.concrete = os.concrete /\ new.flushed = os.flushed /\ new.known = os.known
        /\ new.root = os.root /\ new.writes = os.writes
    BY <1>1 DEF Shape, Relabel
  <1> HIDE DEF new
  <1>4. \A i, n : ByteAt(new, i, n) = ByteAt(os, i, n)
    BY <1>3 DEF ByteAt
  <1>5. Coherent(new)
    BY <1>1, <1>3, <1>4 DEF Coherent
  <1> QED BY <1>2, <1>3, <1>4, <1>5 DEF WellFormed, new

\* The concrete store of a byte that is cached otherwise, or not at all, does not
\* matter; that of a concrete byte matters, and must not be flushed.
LEMMA StoreChanged ==
  ASSUME NEW size \in Nat, NEW os, WellFormed(os, size), NEW st \in [Offsets(size) -> Nat],
         \A i \in os.concrete \cap os.flushed : st[i] = os.store[i]
  PROVE  LET new == [os EXCEPT !.store = st]
         IN  /\ WellFormed(new, size) /\ new.known = os.known /\ new.concrete = os.concrete
             /\ new.object = os.object /\ new.owner = os.owner /\ new.readOnly = os.readOnly
             /\ \A i \in Offsets(size), n \in Input :
                  ByteAt(new, i, n) = IF i \in os.concrete THEN st[i] ELSE ByteAt(os, i, n)
PROOF
  <1> DEFINE new == [os EXCEPT !.store = st]
  <1>1. os \in Shape(size) /\ Coherent(os)
    BY DEF WellFormed
  <1>2. new \in Shape(size)
    BY <1>1 DEF Shape
  <1>3. /\ new.object = os.object /\ new.owner = os.owner /\ new.readOnly = os.readOnly
        /\ new.concrete = os.concrete /\ new.flushed = os.flushed /\ new.known = os.known
        /\ new.root = os.root /\ new.writes = os.writes /\ new.store = st
    BY <1>1 DEF Shape
  <1> HIDE DEF new
  <1>4. \A i, n : ByteAt(new, i, n) = IF i \in os.concrete THEN st[i] ELSE ByteAt(os, i, n)
    BY <1>3 DEF ByteAt
  <1>5. Coherent(new)
    <2>1. DOMAIN new.store = DOMAIN os.store
      BY <1>1, <1>3, ShapeFields
    <2>2. ASSUME NEW i \in new.flushed, NEW n \in Input
          PROVE  ByteAt(new, i, n) = ArrayAt(new.root, new.writes, i, n)
      <3>1. ByteAt(os, i, n) = ArrayAt(os.root, os.writes, i, n)
        BY <1>1, <1>3 DEF Coherent
      <3>2. i \in os.concrete => st[i] = ByteAt(os, i, n)
        BY <1>3 DEF ByteAt
      <3> QED BY <1>3, <1>4, <3>1, <3>2
    <2> QED BY <1>1, <1>3, <2>1, <2>2 DEF Coherent
  <1> QED BY <1>2, <1>3, <1>4, <1>5 DEF WellFormed, new

(***************************************************************************)
(* Writing                                                                 *)
(***************************************************************************)

\* write8 at constant offsets
LEMMA WriteKnownMeaning ==
  ASSUME NEW size \in Nat, NEW os, WellFormed(os, size),
         NEW D \in SUBSET Offsets(size), NEW new \in [D -> Expr]
  PROVE  LET w == write8Known(os, new)
         IN  /\ WellFormed(w, size)
             /\ w.object = os.object /\ w.owner = os.owner /\ w.readOnly = os.readOnly
             /\ \A i \in Offsets(size), n \in Input :
                  ByteAt(w, i, n) = IF i \in D THEN new[i].at[n] ELSE ByteAt(os, i, n)
PROOF
  <1> DEFINE w == write8Known(os, new)
             plain == {i \in D : new[i].const}
             any == CHOOSE n \in Input : TRUE
             st == [i \in Offsets(size) |-> IF i \in plain THEN new[i].at[any] ELSE os.store[i]]
             kn == [i \in (DOMAIN os.known \cup D) \ plain |->
                      IF i \in D THEN new[i] ELSE os.known[i]]
  <1>1. os \in Shape(size) /\ Coherent(os)
    BY DEF WellFormed
  <1>2. DOMAIN new = D /\ DOMAIN os.store = Offsets(size)
    BY <1>1, ShapeFields
  <1>3. w = [os EXCEPT !.store = st, !.known = kn, !.concrete = (@ \ D) \cup plain, !.flushed = @ \ D]
    BY <1>2 DEF write8Known
  <1>4. \A i \in plain : new[i] \in Expr /\ new[i].at[any] \in Nat /\ \A n \in Input : new[i].at[n] = new[i].at[any]
    <2> SUFFICES ASSUME NEW i \in plain
                 PROVE  /\ new[i] \in Expr /\ new[i].at[any] \in Nat
                        /\ \A n \in Input : new[i].at[n] = new[i].at[any]
      OBVIOUS
    <2>1. new[i] \in Expr /\ new[i].const
      OBVIOUS
    <2>2. PICK v \in Nat : new[i] = Constant(v)
      BY <2>1, ExprValue
    <2>3. any \in Input
      BY InputExists
    <2> HIDE DEF any
    <2> QED BY <2>1, <2>2, <2>3, ConstantValue
  <1>5. st \in [Offsets(size) -> Nat]
    <2>1. os.store \in [Offsets(size) -> Nat]
      BY <1>1, ShapeFields
    <2> HIDE DEF plain, any
    <2> QED BY <1>4, <2>1
  <1>6. kn \in UNION {[K -> Expr] : K \in SUBSET Offsets(size)} /\ DOMAIN kn = (DOMAIN os.known \cup D) \ plain
    <2>1. os.known \in [DOMAIN os.known -> Expr] /\ DOMAIN os.known \subseteq Offsets(size)
      BY <1>1, ShapeFields
    <2>2. kn \in [(DOMAIN os.known \cup D) \ plain -> Expr]
      BY <2>1
    <2>3. (DOMAIN os.known \cup D) \ plain \in SUBSET Offsets(size)
      BY <2>1
    <2> HIDE DEF kn
    <2> QED BY <2>2, <2>3
  <1>7. (os.concrete \ D) \cup plain \in SUBSET Offsets(size) /\ os.flushed \ D \in SUBSET Offsets(size)
    BY <1>1, ShapeFields
  <1> HIDE DEF st, w, any
  <1>8. /\ w.object = os.object /\ w.owner = os.owner /\ w.readOnly = os.readOnly
        /\ w.store = st /\ w.known = kn /\ w.concrete = (os.concrete \ D) \cup plain
        /\ w.flushed = os.flushed \ D /\ w.root = os.root /\ w.writes = os.writes
    <2> HIDE DEF kn, plain
    <2> QED BY <1>1, <1>3 DEF Shape
  <1>9. w \in Shape(size)
    <2> HIDE DEF kn, plain
    <2> QED BY <1>1, <1>3, <1>5, <1>6, <1>7 DEF Shape
  <1>10. ASSUME NEW i \in Offsets(size), NEW n \in Input
         PROVE  ByteAt(w, i, n) = IF i \in D THEN new[i].at[n] ELSE ByteAt(os, i, n)
    <2>1. CASE i \in plain
      <3>1. i \in w.concrete /\ w.store[i] = new[i].at[any]
        BY <1>8, <2>1 DEF st
      <3> QED BY <2>1, <3>1, <1>4 DEF ByteAt
    <2>2. CASE i \in D /\ i \notin plain
      <3>1. i \notin w.concrete /\ i \in DOMAIN w.known /\ w.known[i] = new[i]
        BY <1>8, <2>2
      <3> QED BY <2>2, <3>1 DEF ByteAt
    <2>3. CASE i \notin D
      <3>1. /\ i \in w.concrete <=> i \in os.concrete
            /\ i \in DOMAIN w.known <=> i \in DOMAIN os.known
            /\ w.store[i] = os.store[i] /\ (i \in DOMAIN os.known => w.known[i] = os.known[i])
        BY <1>8, <2>3 DEF st
      <3> QED BY <1>8, <2>3, <3>1 DEF ByteAt
    <2> QED BY <2>1, <2>2, <2>3
  <1>11. Coherent(w)
    <2>1. w.concrete \cap DOMAIN w.known = {}
      BY <1>1, <1>8, <1>6 DEF Coherent
    <2>2. DOMAIN w.store \ w.flushed \subseteq w.concrete \cup DOMAIN w.known
      <3>1. DOMAIN w.store = Offsets(size)
        BY <1>8 DEF st
      <3>2. Offsets(size) \ os.flushed \subseteq os.concrete \cup DOMAIN os.known
        BY <1>1, <1>2 DEF Coherent
      <3> QED BY <1>6, <1>8, <3>1, <3>2
    <2>3. ASSUME NEW i \in w.flushed, NEW n \in Input
          PROVE  ByteAt(w, i, n) = ArrayAt(w.root, w.writes, i, n)
      <3>1. i \in os.flushed /\ i \notin D /\ i \in Offsets(size)
        BY <1>1, <1>8, ShapeFields
      <3>2. ByteAt(w, i, n) = ByteAt(os, i, n)
        BY <3>1, <1>10
      <3> QED BY <3>1, <3>2, <1>1, <1>8 DEF Coherent
    <2> QED BY <2>1, <2>2, <2>3 DEF Coherent
  <1> QED BY <1>8, <1>9, <1>10, <1>11 DEF WellFormed, w

\* the byte i after bytes are stored at e, for input n
Written(os, e, bytes, i, n) ==
  IF i - e.at[n] + 1 \in DOMAIN bytes THEN bytes[i - e.at[n] + 1].at[n] ELSE ByteAt(os, i, n)

\* write8 at a symbolic offset: a byte is written where the offset points to it,
\* and nowhere else.
LEMMA WriteSymbolicMeaning ==
  ASSUME NEW size \in Nat, NEW os, WellFormed(os, size),
         NEW e \in Expr, ~e.const, NEW bytes \in Seq(Expr)
  PROVE  LET w == write8Symbolic(os, e, bytes)
         IN  /\ WellFormed(w, size)
             /\ w.object = os.object /\ w.owner = os.owner /\ w.readOnly = os.readOnly
             /\ \A i \in Offsets(size), n \in Input : ByteAt(w, i, n) = Written(os, e, bytes, i, n)
PROOF
  <1> DEFINE f == flushRangeForWrite(os)
             W == [k \in DOMAIN bytes |-> [index |-> Plus(e, k - 1), value |-> bytes[k]]]
             w == write8Symbolic(os, e, bytes)
  <1>1. /\ f \in Shape(size)
        /\ f.object = os.object /\ f.owner = os.owner /\ f.readOnly = os.readOnly
        /\ f.concrete = {} /\ DOMAIN f.known = {} /\ f.flushed = Offsets(size)
        /\ \A i \in Offsets(size), n \in Input : ArrayAt(f.root, f.writes, i, n) = ByteAt(os, i, n)
    BY FlushedForWrite
  <1>2. w = [f EXCEPT !.writes = @ \o W]
    BY DEF write8Symbolic
  <1>3. Len(bytes) \in Nat /\ DOMAIN bytes = 1 .. Len(bytes) /\ \A k \in 1 .. Len(bytes) : bytes[k] \in Expr
    BY LenProperties
  <1>4. e.at \in [Input -> Nat] /\ e \in [const : {FALSE}, at : [Input -> Nat]]
    <2>1. e \notin ConstExpr
      BY ConstantValue DEF ConstExpr
    <2> QED BY <2>1, ExprValue DEF Expr
  <1>5. \A k \in 1 .. Len(bytes) : /\ Plus(e, k - 1) \in Expr
                                   /\ \A n \in Input : Plus(e, k - 1).at[n] = e.at[n] + (k - 1)
    <2> SUFFICES ASSUME NEW k \in 1 .. Len(bytes)
                 PROVE  /\ Plus(e, k - 1) \in Expr
                        /\ \A n \in Input : Plus(e, k - 1).at[n] = e.at[n] + (k - 1)
      OBVIOUS
    <2> DEFINE at == [n \in Input |-> e.at[n] + (k - 1)]
    <2>1. k - 1 \in Nat
      BY <1>3
    <2>2. at \in [Input -> Nat]
      <3>1. \A n \in Input : e.at[n] + (k - 1) \in Nat
        BY <1>4, <2>1
      <3> QED BY <3>1
    <2>3. Plus(e, k - 1) = [e EXCEPT !.at = at]
      BY DEF Plus
    <2> HIDE DEF at
    <2>4. Plus(e, k - 1) \in [const : {FALSE}, at : [Input -> Nat]] /\ Plus(e, k - 1).at = at
      BY <1>4, <2>2, <2>3
    <2> QED BY <2>4 DEF Expr, at
  <1>6. /\ W \in Seq(Update) /\ Len(W) = Len(bytes)
        /\ \A k \in 1 .. Len(bytes) : W[k].index = Plus(e, k - 1) /\ W[k].value = bytes[k]
    <2>1. W = [k \in 1 .. Len(bytes) |-> [index |-> Plus(e, k - 1), value |-> bytes[k]]]
      BY <1>3
    <2>2. \A k \in 1 .. Len(bytes) : [index |-> Plus(e, k - 1), value |-> bytes[k]] \in Update
      BY <1>3, <1>5 DEF Update
    <2> HIDE DEF W
    <2>3. W \in Seq(Update)
      BY <1>3, <2>1, <2>2, IsASeq
    <2>4. DOMAIN W = 1 .. Len(W) /\ DOMAIN W = 1 .. Len(bytes) /\ Len(W) \in Nat
      BY <2>1, <2>3, LenProperties
    <2>5. Len(W) = Len(bytes)
      <3>1. \A k \in Nat : k \in 1 .. Len(W) <=> k \in 1 .. Len(bytes)
        BY <2>4
      <3>2. Len(W) \in Nat /\ Len(bytes) \in Nat
        BY <1>3, <2>4
      <3>3. Len(W) <= Len(bytes) /\ Len(bytes) <= Len(W)
        BY <3>1, <3>2
      <3> QED BY <3>2, <3>3
    <2> QED BY <2>1, <2>3, <2>5
  <1> HIDE DEF f, W, w
  <1>7. f.writes \in Seq(Update) /\ f.writes \o W \in Seq(Update)
    BY <1>1, <1>6, ShapeFields, ConcatParts
  <1>8. w \in Shape(size)
    BY <1>1, <1>2, <1>7 DEF Shape
  <1>9. /\ w.object = f.object /\ w.owner = f.owner /\ w.readOnly = f.readOnly
        /\ w.concrete = {} /\ w.known = f.known /\ w.flushed = Offsets(size)
        /\ w.root = f.root /\ w.writes = f.writes \o W
    BY <1>1, <1>2 DEF Shape
  <1>10. ASSUME NEW i \in Offsets(size), NEW n \in Input
         PROVE  ArrayAt(w.root, w.writes, i, n) = Written(os, e, bytes, i, n)
    <2> DEFINE K == i - e.at[n] + 1
    <2>1. i \in Int /\ e.at[n] \in Nat
      BY <1>4 DEF Offsets
    <2>2. \A k \in 1 .. Len(bytes) : W[k].index.at[n] = i <=> k = K
      <3> SUFFICES ASSUME NEW k \in 1 .. Len(bytes)
                   PROVE  W[k].index.at[n] = i <=> k = K
        OBVIOUS
      <3>1. W[k].index.at[n] = e.at[n] + (k - 1)
        BY <1>5, <1>6
      <3> QED BY <2>1, <3>1, SMTT(30)
    <2>3. CASE K \in DOMAIN bytes
      <3>1. ~NoHit(W, i, n) /\ LastHit(W, i, n, K)
        <4>1. K \in 1 .. Len(W) /\ W[K].index.at[n] = i
          BY <1>3, <1>6, <2>2, <2>3
        <4>2. \A j \in 1 .. Len(W) : j > K => W[j].index.at[n] # i
          <5> HIDE DEF K
          <5> QED BY <1>6, <1>3, <2>2, <4>1
        <4> QED BY <4>1, <4>2 DEF NoHit, LastHit
      <3>2. ArrayAt(f.root, W, i, n) = W[K].value.at[n]
        BY <1>6, <3>1, ArrayHit
      <3>3. ArrayAt(f.root, f.writes \o W, i, n) = ArrayAt(f.root, W, i, n)
        BY <1>6, <1>7, <3>1, NewerUpdates
      <3>4. W[K].value = bytes[K]
        BY <1>3, <1>6, <2>3
      <3> QED BY <1>9, <2>3, <3>2, <3>3, <3>4 DEF Written
    <2>4. CASE K \notin DOMAIN bytes
      <3>1. NoHit(W, i, n)
        <4> HIDE DEF K
        <4> QED BY <1>3, <1>6, <2>2, <2>4 DEF NoHit
      <3>2. ArrayAt(f.root, f.writes \o W, i, n) = ArrayAt(f.root, f.writes, i, n)
        BY <1>6, <1>7, <3>1, OlderUpdates
      <3> QED BY <1>1, <1>9, <2>4, <3>2 DEF Written
    <2> QED BY <2>3, <2>4
  <1>11. DOMAIN w.known = {} /\ DOMAIN w.store = Offsets(size)
    BY <1>1, <1>8, <1>9, ShapeFields
  <1>12. \A i \in Offsets(size), n \in Input : ByteAt(w, i, n) = Written(os, e, bytes, i, n)
    BY <1>9, <1>10, <1>11 DEF ByteAt
  <1>13. Coherent(w)
    BY <1>9, <1>10, <1>11, <1>12 DEF Coherent
  <1> QED BY <1>1, <1>8, <1>9, <1>12, <1>13 DEF WellFormed, w

\* write: bytes stored at an offset in the object are there, for the inputs that
\* put them there, and everything else is as before.
LEMMA WriteMeaning ==
  ASSUME NEW size \in Nat, NEW os, WellFormed(os, size), NEW bytes \in Seq(Expr), Len(bytes) >= 1,
         NEW e, OffsetOf(e, size), \A n \in Input : e.at[n] + Len(bytes) <= size
  PROVE  LET w == write(os, e, bytes)
         IN  /\ WellFormed(w, size)
             /\ w.object = os.object /\ w.owner = os.owner /\ w.readOnly = os.readOnly
             /\ \A i \in Offsets(size), n \in Input : ByteAt(w, i, n) = Written(os, e, bytes, i, n)
PROOF
  <1>1. e \in Expr /\ os \in Shape(size)
    BY DEF OffsetOf, WellFormed
  <1>2. CASE ~e.const
    <2>1. write(os, e, bytes) = write8Symbolic(os, e, bytes)
      BY <1>2 DEF write
    <2> QED BY <1>1, <1>2, <2>1, WriteSymbolicMeaning
  <1>3. CASE e.const
    <2> DEFINE o == OffsetValue(os, e)
               D == o .. o + Len(bytes) - 1
               new == [j \in D |-> bytes[j - o + 1]]
               w == write(os, e, bytes)
    <2>1. o \in Offsets(size) /\ \A n \in Input : e.at[n] = o
      BY <1>1, <1>3, ConstantOffset
    <2>2. Len(bytes) \in Nat /\ DOMAIN bytes = 1 .. Len(bytes) /\ \A k \in 1 .. Len(bytes) : bytes[k] \in Expr
      BY LenProperties
    <2>3. w = write8Known(os, new)
      BY <1>3 DEF write
    <2> HIDE DEF o, w
    <2>4. o \in Nat /\ o + Len(bytes) <= size
      BY <2>1, InputExists DEF Offsets
    <2>5. D \in SUBSET Offsets(size)
      BY <2>2, <2>4 DEF Offsets
    <2>6. \A j \in Int : j \in D <=> j - o + 1 \in 1 .. Len(bytes)
      BY <2>2, <2>4
    <2>7. new \in [D -> Expr]
      <3>1. \A j \in D : j - o + 1 \in 1 .. Len(bytes)
        BY <2>2, <2>4
      <3> QED BY <2>2, <3>1
    <2>8. /\ WellFormed(w, size)
          /\ w.object = os.object /\ w.owner = os.owner /\ w.readOnly = os.readOnly
          /\ \A i \in Offsets(size), n \in Input :
               ByteAt(w, i, n) = IF i \in D THEN new[i].at[n] ELSE ByteAt(os, i, n)
      <3> HIDE DEF D, new
      <3> QED BY <2>3, <2>5, <2>7, WriteKnownMeaning
    <2>9. ASSUME NEW i \in Offsets(size), NEW n \in Input
          PROVE  ByteAt(w, i, n) = Written(os, e, bytes, i, n)
      <3>1. i \in Int /\ e.at[n] = o
        BY <2>1 DEF Offsets
      <3>2. i \in D <=> i - e.at[n] + 1 \in DOMAIN bytes
        <4> HIDE DEF D
        <4> QED BY <2>2, <2>6, <3>1
      <3>3. i \in D => new[i] = bytes[i - e.at[n] + 1]
        <4> HIDE DEF D
        <4> QED BY <3>1
      <3> HIDE DEF D, new
      <3> QED BY <2>8, <3>2, <3>3 DEF Written
    <2> HIDE DEF D, new
    <2> QED BY <2>8, <2>9 DEF w
  <1> QED BY <1>2, <1>3
=============================================================================
