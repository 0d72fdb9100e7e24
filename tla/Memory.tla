------------------------------- MODULE Memory -------------------------------
(* The memory of the execution states: AddressSpace (copy on write, object    *)
(* resolution, passing memory to native code), MemoryManager (allocation),    *)
(* the reference counts that decide when an object goes away, and the         *)
(* operations of the Executor that use them.  States share ObjectStates until *)
(* one of them writes.                                                        *)
EXTENDS ObjectState, Integers, FiniteSets

CONSTANTS
  MaxStates, MaxObjects, MaxObjectStates,  \* bounds: what exists at one time
  MaxOps,                \* bound: memory operations of a run
  Sizes, Alignments,     \* what the program asks for
  Fill,                  \* the initial contents of an object: 0, or a fixed value
  SpaceSize,             \* the bytes of the allocation space
  RedzoneSize,           \* --redzone-size
  Modes,                 \* the values of --allocate-determ to consider
  UseConstantArrays,     \* --use-constant-arrays
  Misuse                 \* what the program or a native function may do:
                         \*   "flushed"   change bytes whose array is up to date
                         \*   "readOnly"  change a constant
                         \*   "realloc"   reallocate a local object

ASSUME MemoryAssumption ==
  /\ {MaxStates, MaxObjects, MaxObjectStates, MaxOps, MaxSize, SpaceSize, RedzoneSize} \subseteq Nat
  /\ MaxStates >= 1 /\ MaxObjects >= 2 /\ MaxObjectStates >= 2 /\ MaxSize >= 2  \* what Init needs
  /\ Sizes \subseteq 0 .. MaxSize
  /\ UseConstantArrays \in BOOLEAN /\ Modes \subseteq BOOLEAN
  /\ Fill \subseteq Byte /\ Alignments \subseteq Nat \ {0}
  /\ Misuse \subseteq {"flushed", "readOnly", "realloc"}

State == 1 .. MaxStates
MO == 1 .. MaxObjects
OS == 1 .. MaxObjectStates

VARIABLES
  key,        \* AddressSpace::cowKey of the states that exist
  objects,    \* AddressSpace::objects
  symbolics,  \* ExecutionState::symbolics: how often an object is listed
  allocas,    \* StackFrame::allocas
  path,       \* the inputs that satisfy the state's constraints
  heap,       \* the ObjectStates that exist
  mos,        \* the MemoryObjects that exist
  refs,       \* MemoryObject::refCount
  determ,     \* DeterministicAllocation
  slot,       \* MemoryManager::nextFreeSlot
  native,     \* what native code finds at the addresses of read-only objects
  mem,        \* the contents the program should see (not in the code)
  ops, fault

vars == <<key, objects, symbolics, allocas, path, heap, mos, refs, determ, slot, native,
          mem, ops, fault>>
perState == <<key, allocas, path>>

Alive == DOMAIN objects
NewOS == Min(OS \ DOMAIN heap)
NewMO == Min(MO \ DOMAIN mos)
NewState == Min(State \ Alive)
Room(os, mo, st) ==
  /\ Cardinality(OS \ DOMAIN heap) >= os /\ Cardinality(MO \ DOMAIN mos) >= mo
  /\ Cardinality(State \ Alive) >= st

Set(f, x, v) == [y \in DOMAIN f \cup {x} |-> IF y = x THEN v ELSE f[y]]
Drop(f, D) == [y \in DOMAIN f \ D |-> f[y]]

(***************************************************************************)
(* Reference counts.  objs and hp are the bindings and ObjectStates after a *)
(* step, syms the entries of symbolics, ms the MemoryObjects.  An ObjectState *)
(* that no address space refers to is destroyed and lets go of its object; an *)
(* object is deleted with its last reference.                              *)
(***************************************************************************)

Bound(objs) == UNION {{objs[s][m] : m \in DOMAIN objs[s]} : s \in DOMAIN objs}
Of(hp, D, m) == Cardinality({o \in D : hp[o].object = m})
Times(seq, m) == Cardinality({k \in DOMAIN seq : seq[k] = m})

\* listed: by how much the entries of symbolics change
Commit(objs, hp, ms, listed) ==
  LET count == [m \in MO |-> refs[m] + listed[m] + Of(hp, DOMAIN hp \ DOMAIN heap, m)
                               - Of(hp, DOMAIN hp \ Bound(objs), m)]
  IN  /\ objects' = objs
      /\ heap' = Drop(hp, DOMAIN hp \ Bound(objs))
      /\ refs' = count
      /\ mos' = Drop(ms, {m \in DOMAIN ms : count[m] = 0})

Unlisted == [m \in MO |-> 0]
Operation == ops < MaxOps /\ ops' = ops + 1 /\ fault = "none" /\ UNCHANGED determ

(***************************************************************************)
(* AddressSpace                                                            *)
(***************************************************************************)

\* bindObject: objs[s] binds m to the ObjectState o
bindObject(objs, s, m, o) == [objs EXCEPT ![s] = Set(@, m, o)]
unbindObject(objs, s, D) == [objs EXCEPT ![s] = Drop(@, D)]

\* the object state belongs to no other address space
Owns(s, o) == heap[o].owner = key[s]

\* getWriteable followed by a change of the object state to New(os): in place if
\* it is owned, else in a copy
Change(s, m, New(_)) ==
  LET o == objects[s][m]
  IN  IF Owns(s, o)
      THEN Commit(objects, [heap EXCEPT ![o] = New(heap[o])], mos, Unlisted)
      ELSE /\ Room(1, 0, 0)
           /\ Commit(bindObject(objects, s, m, NewOS),
                     Set(heap, NewOS, New(Copied(heap[o], key[s]))), mos, Unlisted)

(***************************************************************************)
(* MemoryManager                                                           *)
(***************************************************************************)

Extent(size) == IF size = 0 THEN 1 ELSE size
Aligned(a, n) == ((a + n - 1) \div n) * n

\* The address allocate returns.  Deterministic: the next one after the red zone,
\* if the space suffices.  Otherwise malloc's: the first free piece (external).
Candidates(size, alignment) ==
  LET next == Aligned(slot + alignment - 1, alignment)
      free == {a \in 1 .. SpaceSize - Extent(size) :
                 /\ a % alignment = 0
                 /\ \A m \in DOMAIN mos : \/ a + Extent(size) <= mos[m].address
                                          \/ a >= mos[m].address + Extent(mos[m].size)}
  IN  IF determ THEN IF next + Extent(size) < SpaceSize THEN {next} ELSE {}
      ELSE {a \in free : \A b \in free : a <= b}

\* Mutant of NextSlot: the size of the object is not added.
NextSlotAtStart(a, size) == a + RedzoneSize

NextSlot(a, size) == a + Extent(size) + RedzoneSize

\* allocate, bindObjectInState: os is the contents of the new object
Allocated(s, a, size, local, os, objs) ==
  /\ slot' = IF determ THEN NextSlot(a, size) ELSE slot
  /\ Commit(bindObject(objs, s, NewMO, NewOS),
            Set(heap, NewOS, [os EXCEPT !.object = NewMO, !.owner = key[s]]),
            Set(mos, NewMO, [address |-> a, size |-> size, local |-> local, global |-> FALSE]),
            Unlisted)
  /\ allocas' = IF local THEN [allocas EXCEPT ![s] = @ \cup {NewMO}] ELSE allocas

(***************************************************************************)
(* The operations of an execution state                                    *)
(***************************************************************************)

Ready(s) == s \in Alive /\ Operation

\* executeAlloc; with no space left the program gets a null pointer
Alloc(s) ==
  /\ Ready(s) /\ Room(1, 1, 0)
  /\ \E size \in Sizes, alignment \in Alignments, local \in BOOLEAN, v \in Fill :
     \E a \in Candidates(size, alignment) :
       /\ Allocated(s, a, size, local, Filled(Fresh(NewMO, size, UseConstantArrays), v), objects)
       /\ mem' = [mem EXCEPT ![s] = Set(@, NewMO, [i \in Offsets(size) |-> Constant(v).at])]
  /\ UNCHANGED <<key, symbolics, path, native, fault>>

\* executeAlloc with reallocFrom: the common bytes are copied, the old object is
\* unbound
Realloc(s) ==
  /\ Ready(s) /\ Room(1, 1, 0)
  /\ \E m \in DOMAIN objects[s], size \in Sizes \ {0} :
     \E a \in Candidates(size, 1) :
       LET from == heap[objects[s][m]]
           count == IF mos[m].size < size THEN mos[m].size ELSE size
           os == write8Known(Filled(Fresh(NewMO, size, UseConstantArrays), 1),
                             [i \in Offsets(count) |-> read8(from, Constant(i))])
       IN  /\ ~mos[m].global /\ (mos[m].local => "realloc" \in Misuse)
           /\ Allocated(s, a, size, FALSE, os, unbindObject(objects, s, {m}))
           /\ mem' = [mem EXCEPT ![s] = Set(Drop(@, {m}), NewMO,
                        [i \in Offsets(size) |-> IF i < count THEN mem[s][m][i] ELSE Constant(1).at])]
  /\ UNCHANGED <<key, symbolics, path, native, fault>>

\* executeFree of an object that is neither an alloca nor a global
Free(s) ==
  /\ Ready(s)
  /\ \E m \in DOMAIN objects[s] :
       /\ ~mos[m].local /\ ~mos[m].global
       /\ Commit(unbindObject(objects, s, {m}), heap, mos, Unlisted)
       /\ mem' = [mem EXCEPT ![s] = Drop(@, {m})]
  /\ UNCHANGED <<perState, symbolics, slot, native, fault>>

\* the offsets at which n bytes of an object are in bounds for every input
InBounds(m, n) ==
  {e \in {Constant(i) : i \in 0 .. MaxSize - 1} \cup {Symbol} :
     \A in \in Input : e.at[in] + n <= mos[m].size}

\* the contents after bytes are stored at e
Stored(c, e, bytes) ==
  [i \in DOMAIN c |-> [in \in Input |->
     LET k == i - e.at[in] + 1 IN IF k \in DOMAIN bytes THEN bytes[k].at[in] ELSE c[i][in]]]

Values == {Constant(0), Symbol}

\* executeMemoryOperation, a store; to a read-only object it terminates the state
Store(s) ==
  /\ Ready(s)
  /\ \E m \in DOMAIN objects[s], n \in 1 .. 2 : \E e \in InBounds(m, n), bytes \in [1 .. n -> Values] :
       /\ ~heap[objects[s][m]].readOnly
       /\ Change(s, m, LAMBDA os : write(os, e, bytes))
       /\ mem' = [mem EXCEPT ![s][m] = Stored(@, e, bytes)]
  /\ UNCHANGED <<perState, symbolics, slot, native, fault>>

\* executeMemoryOperation, a load: flushes the shared object state in place
Load(s) ==
  /\ Ready(s)
  /\ \E m \in DOMAIN objects[s] : \E e \in InBounds(m, 1) :
       LET o == objects[s][m]
       IN  Commit(objects, [heap EXCEPT ![o] = AfterRead(@, e)], mos, Unlisted)
  /\ UNCHANGED <<perState, symbolics, slot, native, mem, fault>>

\* Mutant of MakeSymbolic: addSymbolic does not count its reference.
MakeSymbolicUncounted(s) ==
  /\ Ready(s) /\ Room(1, 0, 0)
  /\ \E m \in DOMAIN objects[s] :
       /\ ~heap[objects[s][m]].readOnly
       /\ Commit(bindObject(objects, s, m, NewOS),
                 Set(heap, NewOS, [Symbolic(m, mos[m].size) EXCEPT !.owner = key[s]]), mos, Unlisted)
       /\ symbolics' = [symbolics EXCEPT ![s] = Append(@, m)]
       /\ mem' = [mem EXCEPT ![s][m] = [i \in DOMAIN @ |-> [in \in Input |-> in.array[i]]]]
  /\ UNCHANGED <<perState, slot, native, fault>>

\* executeMakeSymbolic: a new object state, and an entry that keeps the object
MakeSymbolic(s) ==
  /\ Ready(s) /\ Room(1, 0, 0)
  /\ \E m \in DOMAIN objects[s] :
       /\ ~heap[objects[s][m]].readOnly
       /\ Commit(bindObject(objects, s, m, NewOS),
                 Set(heap, NewOS, [Symbolic(m, mos[m].size) EXCEPT !.owner = key[s]]),
                 mos, [Unlisted EXCEPT ![m] = 1])
       /\ symbolics' = [symbolics EXCEPT ![s] = Append(@, m)]
       /\ mem' = [mem EXCEPT ![s][m] = [i \in DOMAIN @ |-> [in \in Input |-> in.array[i]]]]
  /\ UNCHANGED <<perState, slot, native, fault>>

\* popFrame: the objects of the frame are looked up and unbound
Return(s) ==
  /\ Ready(s) /\ allocas[s] # {}
  /\ IF allocas[s] \subseteq DOMAIN mos
     THEN /\ Commit(unbindObject(objects, s, allocas[s]), heap, mos, Unlisted)
          /\ mem' = [mem EXCEPT ![s] = Drop(@, allocas[s])] /\ UNCHANGED fault
     ELSE fault' = "deleted object in allocas" /\ UNCHANGED <<objects, heap, mos, refs, mem>>
  /\ allocas' = [allocas EXCEPT ![s] = {}]
  /\ UNCHANGED <<key, symbolics, path, slot, native>>

(***************************************************************************)
(* Forking, merging and deleting states                                    *)
(***************************************************************************)

\* Mutant of Epochs: only the copy starts a new epoch.
EpochOfCopy(s, t) == Set(key, t, key[s] + 1)

\* AddressSpace(const AddressSpace &): both sides start a new epoch
Epochs(s, t) == Set([key EXCEPT ![s] = @ + 1], t, key[s] + 1)

Condition == {{in \in Input : in.x = 0}, {in \in Input : in.array[0] = 0}}

\* Executor::fork: the conditions that split the state's inputs
Feasible(s) == {c \in Condition : path[s] \cap c # {} /\ path[s] \ c # {}}

\* ExecutionState::branch: everything is shared
Fork(s) ==
  /\ Ready(s) /\ Room(0, 0, 1)
  /\ \E c \in Feasible(s) :
          path' = Set([path EXCEPT ![s] = @ \cap c], NewState, path[s] \ c)
  /\ key' = Epochs(s, NewState)
  /\ Commit(Set(objects, NewState, objects[s]), heap, mos, [m \in MO |-> Times(symbolics[s], m)])
  /\ symbolics' = Set(symbolics, NewState, symbolics[s])
  /\ allocas' = Set(allocas, NewState, allocas[s])
  /\ mem' = Set(mem, NewState, mem[s])
  /\ UNCHANGED <<slot, native, fault>>

\* ~ExecutionState
Delete(s, objs, hp) ==
  /\ Commit(Drop(objs, {s}), hp, mos, [m \in MO |-> -Times(symbolics[s], m)])
  /\ key' = Drop(key, {s}) /\ symbolics' = Drop(symbolics, {s})
  /\ allocas' = Drop(allocas, {s})

Terminate(s) ==
  /\ Ready(s) /\ Cardinality(Alive) > 1
  /\ Delete(s, objects, heap)
  /\ path' = Drop(path, {s}) /\ mem' = Drop(mem, {s})
  /\ UNCHANGED <<slot, native, fault>>

\* every byte becomes the select of both states' bytes, on the constraints that
\* only the first one has
MergedBytes(a, b, m) ==
  write8Known(Copied(heap[objects[a][m]], key[a]),
              [i \in Offsets(mos[m].size) |->
                 Select(path[a], read8(heap[objects[a][m]], Constant(i)),
                                 read8(heap[objects[b][m]], Constant(i)))])

Mutated(a, b) == {m \in DOMAIN objects[a] : objects[a][m] # objects[b][m]}
Writeable(a, m) == heap[objects[a][m]].owner = key[a]

\* ExecutionState::merge at a common instruction: the address spaces bind the
\* same objects; the other state is terminated by the merge handler.  What has to
\* be copied goes to new object states.
Merge(a, b) ==
  /\ Ready(a) /\ b \in Alive \ {a}
  /\ symbolics[a] = symbolics[b] /\ DOMAIN objects[a] = DOMAIN objects[b]
  /\ LET mutated == Mutated(a, b)
         copies == {m \in mutated : ~Writeable(a, m)}
         new == CHOOSE f \in [copies -> OS \ DOMAIN heap] : IsInjective(f)
         target == [m \in DOMAIN objects[a] |-> IF m \in copies THEN new[m] ELSE objects[a][m]]
         merged == [o \in DOMAIN heap \cup {target[m] : m \in copies} |->
                      IF \E m \in mutated : target[m] = o
                      THEN MergedBytes(a, b, CHOOSE m \in mutated : target[m] = o)
                      ELSE heap[o]]
     IN  /\ Room(Cardinality(copies), 0, 0)
         /\ IF \E m \in mutated : heap[objects[a][m]].readOnly
            THEN /\ fault' = "objects mutated but not writable in merging state"
                 /\ UNCHANGED <<key, objects, symbolics, allocas, path, heap, mos, refs, mem>>
            ELSE /\ Delete(b, [objects EXCEPT ![a] = target], merged)
                 /\ path' = [Drop(path, {b}) EXCEPT ![a] = path[a] \cup path[b]]
                 /\ mem' = [Drop(mem, {b}) EXCEPT ![a] = [m \in DOMAIN @ |-> [i \in DOMAIN @[m] |->
                              [in \in Input |-> IF in \in path[a] THEN mem[a][m][i][in]
                                                ELSE mem[b][m][i][in]]]]]
                 /\ UNCHANGED fault
  /\ UNCHANGED <<slot, native>>

(***************************************************************************)
(* Native code: callExternalFunction copies the concrete bytes to the      *)
(* addresses of the objects, and what has changed back.                    *)
(***************************************************************************)

\* flushToConcreteStore for an argument that points to the object: the bytes
\* whose expression is cached get a value
flushToConcreteStore(os, in) ==
  [os EXCEPT !.store = [i \in DOMAIN @ |-> IF i \in DOMAIN os.known THEN os.known[i].at[in] ELSE @[i]]]

\* What the function may change: one byte of one object
Touches == {t \in MO \X (0 .. MaxSize - 1) \X Byte :
              t[1] \in DOMAIN mos /\ t[2] < mos[t[1]].size}
Allowed(os, i) ==
  /\ os.readOnly => "readOnly" \in Misuse
  /\ i \in os.flushed \cap os.concrete => "flushed" \in Misuse

\* copyInConcretes goes through the objects by address and stops at a read-only
\* one that differs from its memory
Stopped(s, nat, m) ==
  \E k \in DOMAIN objects[s] : /\ heap[objects[s][k]].readOnly
                               /\ nat[k] # heap[objects[s][k]].store
                               /\ mos[k].address < mos[m].address

\* copyInConcrete of an object one byte of which has changed
Changed(s, m, i, v) == Change(s, m, LAMBDA os : [os EXCEPT !.store[i] = v])

CallExternal(s) ==
  /\ Ready(s)
  /\ \E t \in Touches :
       LET m == t[1]  i == t[2]  v == t[3]
           os == heap[objects[s][m]]
           nat == IF os.readOnly THEN [native EXCEPT ![m][i] = v] ELSE native
       IN  /\ m \in DOMAIN objects[s] /\ Allowed(os, i)
           /\ native' = nat
           /\ IF os.readOnly \/ os.store[i] = v \/ Stopped(s, nat, m)
              THEN Commit(objects, heap, mos, Unlisted)
              ELSE Changed(s, m, i, v)
           /\ mem' = IF i \in os.concrete /\ ~os.readOnly
                     THEN [mem EXCEPT ![s][m][i] = Constant(v).at] ELSE mem
  /\ UNCHANGED <<perState, symbolics, slot, fault>>

\* --external-calls=all: an argument that points to an object of the state
PassPointer(s) ==
  /\ Ready(s)
  /\ \E m \in DOMAIN objects[s], in \in path[s] :
       Commit(objects, [heap EXCEPT ![objects[s][m]] = flushToConcreteStore(@, in)], mos, Unlisted)
  /\ UNCHANGED <<perState, symbolics, slot, native, mem, fault>>

(***************************************************************************)

\* one state, with a constant and a variable of the program
\* (initializeGlobalObjects)
Init ==
  LET os(m, size) == [Filled(Fresh(m, size, UseConstantArrays), 1) EXCEPT !.owner = 1, !.readOnly = m = 1]
      size == <<1, 2>>
      mo(m) == [address |-> IF m = 1 THEN 1 ELSE 2 + RedzoneSize, size |-> size[m], local |-> FALSE, global |-> TRUE]
  IN  /\ key = [s \in {1} |-> 1] /\ objects = [s \in {1} |-> [m \in {1, 2} |-> m]]
      /\ symbolics = [s \in {1} |-> << >>] /\ allocas = [s \in {1} |-> {}]
      /\ path = [s \in {1} |-> Input]
      /\ heap = [o \in {1, 2} |-> os(o, size[o])]
      /\ refs = [Unlisted EXCEPT ![1] = 1, ![2] = 1]
      /\ mos = [m \in {1, 2} |-> mo(m)]
      /\ determ \in Modes /\ slot = NextSlot(mo(2).address, 2)
      /\ native = [m \in {1} |-> heap[1].store]
      /\ mem = [s \in {1} |-> [m \in {1, 2} |-> [i \in Offsets(size[m]) |-> Constant(1).at]]]
      /\ ops = 0 /\ fault = "none"

Next ==
  \/ \E s \in Alive : \/ Alloc(s) \/ Realloc(s) \/ Free(s) \/ Store(s) \/ Load(s)
                      \/ MakeSymbolic(s) \/ Return(s) \/ Fork(s) \/ Terminate(s)
                      \/ CallExternal(s) \/ PassPointer(s)
  \/ \E a, b \in Alive : Merge(a, b)

Spec == Init /\ [][Next]_vars

(***************************************************************************)
(* Object resolution.  P is the set of values a pointer can have, e the    *)
(* example the solver gave.                                                *)
(***************************************************************************)

\* getBoundsCheckPointer
Within(m, p) == IF mos[m].size = 0 THEN p = mos[m].address
                ELSE p \in mos[m].address .. mos[m].address + mos[m].size - 1
MayIn(m, P) == \E p \in P : Within(m, p)
MustIn(m, P) == \A p \in P : Within(m, p)
Above(m, P) == \A p \in P : p >= mos[m].address
Below(m, P) == \A p \in P : p < mos[m].address

Lower(s, p) == {m \in DOMAIN objects[s] : mos[m].address <= p}
Higher(s, p) == {m \in DOMAIN objects[s] : mos[m].address > p}
\* resolveOne of a constant, by lookup_previous
resolveOneConstant(s, p) ==
  {m \in Lower(s, p) : /\ \A k \in Lower(s, p) : mos[k].address <= mos[m].address
                       /\ \/ mos[m].size = 0 /\ p = mos[m].address
                          \/ p - mos[m].address < mos[m].size}

\* the backward and the forward search visit objects until the pointer cannot
\* reach further
Backward(s, P, e) ==
  {m \in Lower(s, e) : \A k \in Lower(s, e) : mos[k].address > mos[m].address => ~Above(k, P)}
Forward(s, P, e) ==
  {m \in Higher(s, e) : \A k \in Higher(s, e) : mos[k].address <= mos[m].address => ~Below(k, P)}

\* Mutant of Visited: the search goes backwards only.
VisitedBackward(s, P, e) == Backward(s, P, e)

Visited(s, P, e) == Backward(s, P, e) \cup Forward(s, P, e)

\* the first of the visited objects the pointer may be in: the highest one not
\* above the example, else the lowest one above
FirstHit(s, P, e) ==
  LET hits == {m \in Visited(s, P, e) : MayIn(m, P)}
      low == hits \cap Lower(s, e)
  IN  IF low # {} THEN {m \in low : \A k \in low : mos[k].address <= mos[m].address}
      ELSE {m \in hits : \A k \in hits : mos[k].address >= mos[m].address}

\* resolveOne of a symbolic pointer: the object at the example, or the first one
\* the searches find
resolveOne(s, P, e) ==
  LET near == {m \in resolveOneConstant(s, e) : mos[m].size > 0}
  IN  IF near # {} THEN near ELSE FirstHit(s, P, e)

\* resolve, without a limit on the results, unless a query fails or the time is
\* up: the search ends at once if the first object is the only one possible
resolve(s, P, e) ==
  LET first == FirstHit(s, P, e)
  IN  IF \E m \in first : MustIn(m, P) THEN first
      ELSE {m \in Visited(s, P, e) : MayIn(m, P)}

(***************************************************************************)
(* Properties                                                              *)
(***************************************************************************)

\* Type correctness: references lead to things of the right kind.
TypeOK ==
  /\ Alive \subseteq State /\ DOMAIN key = Alive /\ DOMAIN path = Alive
  /\ \A s \in Alive : /\ objects[s] \in [DOMAIN objects[s] -> DOMAIN heap]
                      /\ path[s] \subseteq Input /\ path[s] # {}
  /\ DOMAIN heap = Bound(objects) /\ DOMAIN heap \subseteq OS /\ DOMAIN mos \subseteq MO
  /\ refs \in [MO -> Nat]

\* A load gives, for every input that takes the state's path, what the last store
\* of that path left there: whatever was forked, merged, copied, flushed or
\* written by native code in between, and whichever other states wrote to what
\* was shared (getWriteable, flushRangeForRead, flushRangeForWrite, merge).
LoadsRight ==
  \A s \in Alive : \A m \in DOMAIN objects[s] : \A e \in InBounds(m, 1) :
    LET r == read8(heap[objects[s][m]], e)
    IN  \A in \in path[s] : r.at[in] = mem[s][m][e.at[in]][in]

\* The cache invariants that Memory.cpp documents: a byte is not cached in both
\* ways, and one that is not cached is in the updates.
CacheInvariants ==
  \A o \in DOMAIN heap :
    LET os == heap[o]
    IN  /\ os.concrete \cap DOMAIN os.known = {}
        /\ DOMAIN os.store \ os.flushed \subseteq os.concrete \cup DOMAIN os.known

\* What an object holds is right, and so are the caches that the next access
\* relies on.
ContentsRight == LoadsRight /\ CacheInvariants

\* An object state that an address space owns is bound in no other; both sides of
\* a fork give up what they owned.
OwnedAlone ==
  \A s \in Alive : \A m \in DOMAIN objects[s] :
    /\ heap[objects[s][m]].owner <= key[s]
    /\ \A t \in Alive \ {s} :
         m \in DOMAIN objects[t] /\ objects[t][m] = objects[s][m]
           => heap[objects[s][m]].owner < key[s]

\* The reference counts delete an object with its last user, no sooner and no
\* later: what a state has bound, lists as symbolic or will unbind on return
\* exists, and neither a merge nor a return meets a deleted object.
ObjectsKept ==
  /\ fault = "none"
  /\ \A s \in Alive : DOMAIN objects[s] \cup ToSet(symbolics[s]) \cup allocas[s] \subseteq DOMAIN mos
  /\ \A m \in DOMAIN mos : \E s \in Alive : m \in DOMAIN objects[s] \/ m \in ToSet(symbolics[s])

\* Objects that exist at the same time never overlap, in whichever states they
\* are: neither the red zones nor a reused address bring two together.
NoOverlap ==
  \A m, k \in DOMAIN mos :
    m # k => \/ mos[m].address + Extent(mos[m].size) <= mos[k].address
             \/ mos[k].address + Extent(mos[k].size) <= mos[m].address

\* pointers with one or two values, or all up to a limit (bound)
Pointers == kSubset(2, 0 .. SpaceSize) \cup {0 .. p : p \in 0 .. SpaceSize}

\* Whatever values a pointer can have and whichever one the solver picks, the
\* searches find exactly the objects it may point to, although they stop early.
\* (Only the layout matters, so it is evaluated while there is one state and
\* nothing is stored: every layout can be reached that way.)
ResolutionRight ==
  Cardinality(Alive) = 1 /\ (\A o \in DOMAIN heap : heap[o].concrete = DOMAIN heap[o].store /\ heap[o].flushed = {}) =>
  \A s \in Alive : \A P \in Pointers : \A e \in P :
    LET may == {m \in DOMAIN objects[s] : MayIn(m, P)}
        one == resolveOne(s, P, e)
    IN  /\ resolve(s, P, e) = may
        /\ one \subseteq may /\ Cardinality(one) = (IF may = {} THEN 0 ELSE 1)
        /\ resolveOneConstant(s, e) = {m \in DOMAIN objects[s] : Within(m, e)}

=============================================================================
