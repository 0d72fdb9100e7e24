----------------------------- MODULE ObjectState -----------------------------
(* The contents of one memory object (class ObjectState in Memory.cpp).  Each *)
(* byte is cached as a concrete value or as an expression, and the array      *)
(* updates behind the caches are brought up to date ("flushed") only when the *)
(* object is accessed at a symbolic offset.                                   *)
EXTENDS Naturals, Sequences, FiniteSets, SequencesExt, FiniteSetsExt

CONSTANTS
  MaxSize   \* bound: bytes of an object

ASSUME SizeAssumption == MaxSize \in Nat

Byte == {0, 1}

\* The input of the program: one symbolic value, used as a byte and as an offset,
\* and the contents of the array that klee_make_symbolic creates.
Input == [x : Byte, array : [0 .. MaxSize - 1 -> Byte]]

\* An expression: what it denotes for each input, and whether it is a ConstantExpr
Constant(v) == [const |-> TRUE, at |-> [n \in Input |-> v]]
Symbol == [const |-> FALSE, at |-> [n \in Input |-> n.x]]
Select(in, a, b) ==
  IF a = b THEN a
  ELSE [const |-> FALSE, at |-> [n \in Input |-> IF n \in in THEN a.at[n] ELSE b.at[n]]]

Offsets(size) == 0 .. size - 1

\* updates.root: not created yet (constant arrays are lazy), an array of
\* constants, or the symbolic array
Lazy == [kind |-> "lazy"]
ConstArray(c) == [kind |-> "const", contents |-> c]
SymArray == [kind |-> "symbolic"]

\* ObjectState(mo): zeroes, all concrete, nothing flushed.  concreteMask,
\* flushMask and knownSymbolics are the sets and the function they stand for.
Fresh(m, size, lazy) ==
  [object |-> m, owner |-> 0, readOnly |-> FALSE,
   store |-> [i \in Offsets(size) |-> 0], concrete |-> Offsets(size), flushed |-> {},
   known |-> << >>, root |-> IF lazy THEN Lazy ELSE SymArray, writes |-> << >>]

\* ObjectState(mo, array) and makeSymbolic
Symbolic(m, size) ==
  [Fresh(m, size, TRUE) EXCEPT !.root = SymArray, !.concrete = {}, !.flushed = Offsets(size)]

\* initializeToZero, initializeToRandom (which writes one fixed value)
Filled(os, v) ==
  [os EXCEPT !.store = [i \in DOMAIN @ |-> v], !.concrete = DOMAIN os.store,
             !.flushed = {}, !.known = << >>]

\* ObjectState(const ObjectState &), as getWriteable calls it
Copied(os, key) == [os EXCEPT !.owner = key, !.readOnly = FALSE]

(***************************************************************************)
(* Flushing                                                                *)
(***************************************************************************)

\* the update a byte's cache stands for
CachedWrite(os, i) ==
  [index |-> Constant(i),
   value |-> IF i \in os.concrete THEN Constant(os.store[i]) ELSE os.known[i]]

\* the k-th smallest element of a set of offsets
Nth(S, k) == CHOOSE i \in S : Cardinality({j \in S : j <= i}) = k

\* the updates of every byte that is not flushed, in the order of the bytes
Pending(os) ==
  LET todo == DOMAIN os.store \ os.flushed
  IN  [k \in 1 .. Cardinality(todo) |-> CachedWrite(os, Nth(todo, k))]

flushRangeForRead(os) ==
  [os EXCEPT !.writes = @ \o Pending(os), !.flushed = DOMAIN os.store]

\* Mutant of flushRangeForWrite: bytes that were flushed before keep their cache.
FlushKeepsFlushed(os) ==
  LET stale == os.flushed
  IN  [os EXCEPT !.writes = @ \o Pending(os), !.flushed = DOMAIN os.store,
                 !.concrete = @ \cap stale,
                 !.known = [i \in DOMAIN @ \cap stale |-> @[i]]]

\* every byte may be overwritten, so no cache stays valid
flushRangeForWrite(os) ==
  [os EXCEPT !.writes = @ \o Pending(os), !.flushed = DOMAIN os.store,
             !.concrete = {}, !.known = << >>]

\* getUpdates: the constant array takes the oldest writes, up to the first one
\* that is not constant
getUpdates(os) ==
  IF os.root # Lazy THEN os
  ELSE LET n == Len(os.writes)
           plain == {k \in 0 .. n : \A j \in 1 .. k : /\ os.writes[j].index.const
                                                      /\ os.writes[j].value.const}
           first == Max(plain)
           Latest(i) == {k \in 1 .. first : \A in \in Input : os.writes[k].index.at[in] = i}
           contents == [i \in DOMAIN os.store |->
                          IF Latest(i) = {} THEN Constant(0) ELSE os.writes[Max(Latest(i))].value]
       IN  [os EXCEPT !.root = ConstArray(contents), !.writes = SubSeq(@, first + 1, n)]

(***************************************************************************)
(* Reading and writing a byte                                              *)
(***************************************************************************)

\* what the updates say of index e for input n
ReadAt(os, e, n) ==
  LET hits == {k \in 1 .. Len(os.writes) : os.writes[k].index.at[n] = e.at[n]}
  IN  IF hits # {} THEN os.writes[Max(hits)].value.at[n]
      ELSE IF os.root.kind = "symbolic" THEN n.array[e.at[n]]
      ELSE os.root.contents[e.at[n]].at[n]

\* ReadExpr::create: the newest write whose index is equal for certain, as long
\* as the newer ones are certain not to be equal
ReadExpr(os, e) ==
  LET n == Len(os.writes)
      Same(k) == os.writes[k].index = e
      Differs(k) == e.const /\ os.writes[k].index.const /\ ~Same(k)
      exact == {k \in 1 .. n : Same(k) /\ \A j \in k + 1 .. n : Differs(j)}
  IN  IF exact # {} THEN os.writes[Max(exact)].value
      ELSE [const |-> /\ e.const /\ os.root.kind = "const"
                      /\ \A k \in 1 .. n : Differs(k),
            at |-> [in \in Input |-> ReadAt(os, e, in)]]

\* getZExtValue of a constant offset in the object
OffsetValue(os, e) == CHOOSE j \in DOMAIN os.store : e = Constant(j)

\* the object after a read at e: a symbolic offset flushes, and a byte without a
\* cache needs the root array
AfterRead(os, e) ==
  IF ~e.const THEN getUpdates(flushRangeForRead(os))
  ELSE LET i == OffsetValue(os, e)
       IN  IF i \in os.concrete \cup DOMAIN os.known THEN os ELSE getUpdates(os)

\* read8; "unflushed byte without cache value" is an assertion, see Readable
read8(os, e) ==
  IF ~e.const THEN ReadExpr(AfterRead(os, e), e)
  ELSE LET i == OffsetValue(os, e)
       IN  IF i \in os.concrete THEN Constant(os.store[i])
           ELSE IF i \in DOMAIN os.known THEN os.known[i]
           ELSE ReadExpr(getUpdates(os), e)

\* write8 at each of the constant offsets in the domain of new: the cache of a
\* byte is replaced, whatever happens to the others
write8Known(os, new) ==
  LET plain == {i \in DOMAIN new : new[i].const}
      Value(i) == new[i].at[CHOOSE n \in Input : TRUE]
  IN  [os EXCEPT !.store = [i \in DOMAIN @ |-> IF i \in plain THEN Value(i) ELSE @[i]],
                 !.known = [i \in (DOMAIN @ \cup DOMAIN new) \ plain |->
                              IF i \in DOMAIN new THEN new[i] ELSE @[i]],
                 !.concrete = (@ \ DOMAIN new) \cup plain, !.flushed = @ \ DOMAIN new]

\* write8 at a symbolic offset and the ones behind it: the first write leaves no
\* cache for the others to flush
Plus(e, k) == [e EXCEPT !.at = [n \in Input |-> @[n] + k]]
write8Symbolic(os, e, bytes) ==
  [flushRangeForWrite(os) EXCEPT
     !.writes = @ \o [k \in DOMAIN bytes |-> [index |-> Plus(e, k - 1), value |-> bytes[k]]]]

\* write: byte by byte, the least significant one first
write(os, e, bytes) ==
  IF e.const
  THEN LET i == OffsetValue(os, e)
       IN  write8Known(os, [j \in i .. i + Len(bytes) - 1 |-> bytes[j - i + 1]])
  ELSE write8Symbolic(os, e, bytes)
=============================================================================
