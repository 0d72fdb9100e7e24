---------------------------- MODULE PosixFdProofs ----------------------------
(* Descriptors, files and injected failures of the POSIX runtime, for every    *)
(* number of descriptors, files, bytes, directory entries, failures and calls  *)
(* and every program.                                                          *)
EXTENDS PosixFd, FiniteSetTheorems, FunctionTheorems,
        WellFoundedInduction, SequenceTheorems, TLAPS

(***************************************************************************)
(* Injected failures                                                       *)
(***************************************************************************)

FsFields == {"max_failures", "umask", "total", "save_all_writes", "stdout_writes", "failAt"}
FailIndex == {"open", "this call", "an earlier call"}

\* The failures injected so far are one for each call whose index is fixed.
FailOK(s) ==
  /\ DOMAIN s = FsFields
  /\ s.max_failures \in Nat
  /\ s.failAt \in [Allocated -> FailIndex]
  /\ MaxFailures - s.max_failures = Cardinality({op \in Allocated : s.failAt[op] # "open"})

\* The calls with a failure index are finitely many.
LEMMA AllocatedFinite == \A S \in SUBSET Allocated : IsFiniteSet(S) /\ Cardinality(S) \in Nat
<1>1. IsFiniteSet(Allocated)
  <2>1. IsFiniteSet({})
    BY FS_EmptySet
  <2>2. IsFiniteSet({} \cup {"read"})
    BY <2>1, FS_AddElement
  <2>3. IsFiniteSet(({} \cup {"read"}) \cup {"write"})
    BY <2>2, FS_AddElement
  <2>4. IsFiniteSet((({} \cup {"read"}) \cup {"write"}) \cup {"close"})
    BY <2>3, FS_AddElement
  <2>5. IsFiniteSet(((({} \cup {"read"}) \cup {"write"}) \cup {"close"}) \cup {"ftruncate"})
    BY <2>4, FS_AddElement
  <2>6. IsFiniteSet((((({} \cup {"read"}) \cup {"write"}) \cup {"close"}) \cup {"ftruncate"}) \cup {"getcwd"})
    BY <2>5, FS_AddElement
  <2>7. Allocated = (((({} \cup {"read"}) \cup {"write"}) \cup {"close"}) \cup {"ftruncate"}) \cup {"getcwd"}
    BY DEF Allocated
  <2> QED BY <2>6, <2>7
<1> QED BY <1>1, FS_Subset, FS_CardinalityType

\* A change of the other counters, and n_calls++, leave the failures alone.
LEMMA CounterKeeps ==
  ASSUME NEW s, FailOK(s), NEW t, DOMAIN t = FsFields, t.max_failures = s.max_failures,
         t.failAt \in [Allocated -> FailIndex],
         \A op \in Allocated : t.failAt[op] = "open" <=> s.failAt[op] = "open"
  PROVE  FailOK(t)
<1>1. {op \in Allocated : t.failAt[op] # "open"} = {op \in Allocated : s.failAt[op] # "open"}
  OBVIOUS
<1> QED BY <1>1 DEF FailOK

\* A call that counts nothing.
LEMMA TickKeeps ==
  ASSUME NEW s, FailOK(s)
  PROVE  FailOK(Tick(s)) /\ Tick(s).failAt = s.failAt /\ Tick(s).max_failures = s.max_failures
<1> DEFINE t == Tick(s)
<1>1. DOMAIN t = FsFields /\ t.failAt = s.failAt /\ t.max_failures = s.max_failures
  BY DEF Tick, FailOK, FsFields
<1> HIDE DEF t
<1>2. FailOK(t)
  BY <1>1, CounterKeeps DEF FailOK
<1> QED BY <1>1, <1>2 DEF t

\* A call that counts itself leaves the index that was fixed behind.
LEMMA CountKeeps ==
  ASSUME NEW s, FailOK(s), NEW op \in Allocated
  PROVE  FailOK(Count(op, s)) /\ Count(op, s).failAt[op] # "this call"
<1> DEFINE t == Tick(s)
           u == Count(op, s)
           a == IF t.failAt[op] = "this call" THEN "an earlier call" ELSE t.failAt[op]
<1>1. FailOK(t) /\ t.failAt = s.failAt /\ t.max_failures = s.max_failures
  BY TickKeeps
<1>2. u = [t EXCEPT !.failAt = [@ EXCEPT ![op] = a]]
  BY DEF Count
<1> HIDE DEF t, u
<1>3. DOMAIN t = FsFields /\ t.failAt \in [Allocated -> FailIndex]
  BY <1>1 DEF FailOK
<1>4. DOMAIN u = FsFields /\ u.failAt = [t.failAt EXCEPT ![op] = a] /\ u.max_failures = t.max_failures
  BY <1>2, <1>3 DEF FsFields
<1>5. a \in FailIndex /\ a # "this call" /\ (a = "open" <=> t.failAt[op] = "open")
  BY <1>3 DEF FailIndex
<1> HIDE DEF a
<1>6. u.failAt \in [Allocated -> FailIndex]
  BY <1>3, <1>4, <1>5
<1>7. u.failAt[op] = a /\ \A q \in Allocated \ {op} : u.failAt[q] = t.failAt[q]
  BY <1>3, <1>4
<1>8. \A q \in Allocated : u.failAt[q] = "open" <=> t.failAt[q] = "open"
  BY <1>5, <1>7
<1>9. FailOK(u)
  BY <1>1, <1>4, <1>6, <1>8, CounterKeeps
<1> QED BY <1>5, <1>7, <1>9 DEF u

\* One failure less is allowed, one more has been injected.
LEMMA OneLess ==
  \A F, m, a \in Nat : m > 0 /\ F - m = a => F - (m - 1) = a + 1 /\ m - 1 \in Nat
OBVIOUS

\* An injected failure fixes an index that was open, and is one of those allowed.
LEMMA InjectKeeps ==
  ASSUME NEW s, FailOK(s), NEW op \in Allocated, s.failAt[op] # "this call", MayFail(op, s)
  PROVE  FailOK(Inject(op, s))
<1> DEFINE u == Inject(op, s)
           A == {q \in Allocated : s.failAt[q] # "open"}
           B == {q \in Allocated : u.failAt[q] # "open"}
<1>1. s.max_failures \in Nat /\ s.max_failures > 0 /\ s.failAt[op] = "open"
  BY DEF FailOK, MayFail, FailIndex
<1>2. DOMAIN s = FsFields /\ s.failAt \in [Allocated -> FailIndex]
  BY DEF FailOK
<1>3. /\ DOMAIN u = FsFields /\ u.max_failures = s.max_failures - 1
      /\ u.failAt = [s.failAt EXCEPT ![op] = "this call"]
  BY <1>2 DEF Inject, FsFields
<1> HIDE DEF u
<1>4. u.failAt \in [Allocated -> FailIndex]
  BY <1>2, <1>3 DEF FailIndex
<1>5. B = A \cup {op} /\ op \notin A
  BY <1>1, <1>2, <1>3
<1>6. IsFiniteSet(A) /\ Cardinality(A) \in Nat
  BY AllocatedFinite
<1>7. MaxFailures - s.max_failures = Cardinality(A)
  BY DEF FailOK
<1> HIDE DEF A, B
<1>8. Cardinality(B) = Cardinality(A) + 1
  BY <1>5, <1>6, FS_AddElement
<1>9. MaxFailures \in Nat
  BY PosixAssumption
<1>10. /\ MaxFailures - (s.max_failures - 1) = Cardinality(A) + 1
       /\ s.max_failures - 1 \in Nat
  BY <1>1, <1>6, <1>7, <1>9, OneLess
<1>11. MaxFailures - u.max_failures = Cardinality(B) /\ u.max_failures \in Nat
  BY <1>3, <1>8, <1>10, Zenon
<1>12. FailOK(u)
  BY <1>3, <1>4, <1>11 DEF FailOK, B
<1> QED BY <1>12 DEF u

\* close(fd), of the program and of dup2.
LEMMA CloseCounts ==
  ASSUME NEW s, FailOK(s), NEW t, NEW fd, NEW o \in close(fd, t, s)
  PROVE  FailOK(o.s)
<1> DEFINE u == Count("close", s)
<1>1. FailOK(u) /\ u.failAt["close"] # "this call"
  BY CountKeeps DEF Allocated
<1>2. o.s = u \/ (MayFail("close", u) /\ o.s = Inject("close", u))
  BY DEF close
<1>3. MayFail("close", u) => FailOK(Inject("close", u))
  BY <1>1, InjectKeeps DEF Allocated
<1> QED BY <1>1, <1>2, <1>3

\* The counted calls.
LEMMA CountedCounts ==
  ASSUME FailOK(fs), NEW op \in Allocated,
         fs' = Count(op, fs) \/ (MayFail(op, Count(op, fs)) /\ fs' = Inject(op, Count(op, fs)))
  PROVE  FailOK(fs')
<1>1. FailOK(Count(op, fs)) /\ Count(op, fs).failAt[op] # "this call"
  BY CountKeeps
<1> QED BY <1>1, InjectKeeps

\* The bytes written to stdout are counted beside the failures.
LEMMA StdoutCounts ==
  ASSUME NEW s, FailOK(s), NEW n
  PROVE  FailOK([s EXCEPT !.stdout_writes = @ + n])
<1> DEFINE t == [s EXCEPT !.stdout_writes = @ + n]
<1>1. DOMAIN t = FsFields /\ t.failAt = s.failAt /\ t.max_failures = s.max_failures
  BY DEF FailOK, FsFields
<1> HIDE DEF t
<1>2. FailOK(t)
  BY <1>1, CounterKeeps DEF FailOK
<1> QED BY <1>2 DEF t

\* umask changes the counters beside the failures.
LEMMA UmaskCounts ==
  ASSUME NEW s, FailOK(s), NEW mask
  PROVE  FailOK([s EXCEPT !.umask = mask])
<1> DEFINE t == [s EXCEPT !.umask = mask]
<1>1. DOMAIN t = FsFields /\ t.failAt = s.failAt /\ t.max_failures = s.max_failures
  BY DEF FailOK, FsFields
<1> HIDE DEF t
<1>2. FailOK(t)
  BY <1>1, CounterKeeps DEF FailOK
<1> QED BY <1>2 DEF t

\* dup2 counts a call of its own or the close of the descriptor it replaces.
LEMMA Dup2Counts ==
  ASSUME FailOK(fs), NEW oldfd, NEW newfd, Dup2(oldfd, newfd)
  PROVE  FailOK(fs')
<1>1. CASE ~Valid(oldfd)
  BY <1>1, TickKeeps DEF Dup2
<1>2. CASE Valid(oldfd)
  <2>1. PICK o \in (IF Valid(newfd) THEN close(newfd, fds, fs)
                    ELSE {[t |-> fds, s |-> Tick(fs), ret |-> 0, err |-> None]}) : fs' = o.s
    BY <1>2 DEF Dup2, CopyEntry
  <2>2. CASE Valid(newfd)
    BY <2>1, <2>2, CloseCounts
  <2>3. CASE ~Valid(newfd)
    <3>1. fs' = Tick(fs)
      BY <2>1, <2>3
    <3> QED BY <3>1, TickKeeps
  <2> QED BY <2>2, <2>3
<1> QED BY <1>1, <1>2

\* Every call keeps the count of the injected failures.
LEMMA NextCounts ==
  ASSUME FailOK(fs), Next
  PROVE  FailOK(fs')
<1>1. CASE open
  <2>1. fs' = Tick(fs)
    BY <1>1 DEF open, OpenAny
  <2> QED BY <2>1, TickKeeps
<1>2. CASE openat
  <2>1. fs' = Tick(fs)
    BY <1>2 DEF openat, OpenAny
  <2> QED BY <2>1, TickKeeps
<1>3. CASE Close
  <2>1. PICK fd \in FD : \E o \in close(fd, fds, fs) : fs' = o.s
    BY <1>3 DEF Close
  <2> QED BY <2>1, CloseCounts
<1>4. CASE dup2
  BY <1>4, Dup2Counts DEF dup2
<1>5. CASE dup
  <2>1. PICK oldfd \in FD :
          fs' = Tick(fs) \/ Dup2(oldfd, IF Free = {} THEN oldfd ELSE Min(Free))
    BY <1>5 DEF dup
  <2> QED BY <2>1, TickKeeps, Dup2Counts
<1>6. CASE read
  <2>1. \/ fs' = Count("read", fs)
        \/ MayFail("read", Count("read", fs)) /\ fs' = Inject("read", Count("read", fs))
    BY <1>6 DEF read, ReadSymbolic, ReadConcrete
  <2> QED BY <2>1, CountedCounts DEF Allocated
<1>7. CASE write
  <2> DEFINE s == Count("write", fs)
  <2>1. PICK fd \in FD, count \in Counts :
          \/ fs' = s
          \/ MayFail("write", s) /\ fs' = Inject("write", s)
          \/ WriteSymbolic(fd, count, s)
          \/ WriteConcrete(fd, count, s)
    BY <1>7 DEF write
  <2>2. FailOK(s)
    BY CountKeeps DEF Allocated
  <2>3. CASE fs' = s \/ (MayFail("write", s) /\ fs' = Inject("write", s))
    BY <2>3, CountedCounts DEF Allocated
  <2>4. CASE WriteConcrete(fd, count, s)
    <3>1. fs' = s
      BY <2>4 DEF WriteConcrete
    <3> QED BY <2>2, <3>1
  <2>5. CASE WriteSymbolic(fd, count, s)
    <3>1. \/ fs' = s
          \/ fs' = [s EXCEPT !.stdout_writes = @ + Written(fds[fd].off, count)]
      BY <2>5 DEF WriteSymbolic
    <3> QED BY <2>2, <3>1, StdoutCounts
  <2> QED BY <2>1, <2>3, <2>4, <2>5
<1>8. CASE __fd_lseek \/ __fd_getdents \/ Unlink \/ fcntl
  <2>1. fs' = Tick(fs)
    BY <1>8 DEF __fd_lseek, __fd_getdents, Unlink, fcntl
  <2> QED BY <2>1, TickKeeps
<1>9. CASE ChangeMode
  <2>1. fs' = Tick(fs)
    BY <1>9 DEF ChangeMode, chmod, fchmod, Chmod
  <2> QED BY <2>1, TickKeeps
<1>10. CASE umask
  <2>1. PICK mask : fs' = [Tick(fs) EXCEPT !.umask = mask]
    BY <1>10 DEF umask
  <2>2. FailOK(Tick(fs))
    BY TickKeeps
  <2> QED BY <2>1, <2>2, UmaskCounts
<1>11. CASE Truncate
  <2>1. \E op \in {"getcwd", "ftruncate"} :
          \/ fs' = Count(op, fs)
          \/ MayFail(op, Count(op, fs)) /\ fs' = Inject(op, Count(op, fs))
    BY <1>11 DEF Truncate, getcwd, __fd_ftruncate, CountedCall
  <2> QED BY <2>1, CountedCounts DEF Allocated
<1>12. CASE PathQuery \/ BaseQuery \/ FdQuery \/ ioctl \/ select
  <2>1. fs' = fs
    BY <1>12 DEF PathQuery, BaseQuery, FdQuery, ioctl, select
  <2> QED BY <2>1
<1> QED BY <1>1, <1>2, <1>3, <1>4, <1>5, <1>6, <1>7, <1>8, <1>9, <1>10, <1>11, <1>12 DEF Next

\* No failure has been injected when a program starts.
LEMMA InitCounts ==
  ASSUME Init
  PROVE  FailOK(fs)
<1>1. PICK save : fs = [max_failures |-> MaxFailures, umask |-> {}, total |-> 0, save_all_writes |-> save,
                        stdout_writes |-> 0, failAt |-> [op \in Allocated |-> "open"]]
  BY DEF Init
<1>2. {op \in Allocated : fs.failAt[op] # "open"} = {}
  BY <1>1
<1>3. MaxFailures \in Nat /\ MaxFailures - MaxFailures = 0
  BY PosixAssumption
<1>4. DOMAIN fs = FsFields /\ fs.max_failures = MaxFailures /\ fs.failAt \in [Allocated -> FailIndex]
  BY <1>1 DEF FsFields, FailIndex
<1> QED BY <1>2, <1>3, <1>4, FS_EmptySet DEF FailOK

\* InjectedOnce holds always: a kind of call fails by injection at most once on
\* a path, and all of them no more often than -max-fail says, whatever the
\* program calls and in whichever order.
THEOREM InjectedOnceAlways == Spec => []InjectedOnce
<1>1. Init => FailOK(fs)
  BY InitCounts
<1>2. FailOK(fs) /\ [Next]_vars => FailOK(fs)'
  BY NextCounts DEF vars
<1>3. FailOK(fs) => InjectedOnce
  BY DEF FailOK, InjectedOnce
<1> QED BY <1>1, <1>2, <1>3, PTL DEF Spec

(***************************************************************************)
(* Facts about the library's operators                                     *)
(***************************************************************************)

\* The smallest number of a set.
LEMMA MinOf ==
  ASSUME NEW T \in SUBSET Nat, T # {}
  PROVE  Min(T) \in T
<1> DEFINE R == OpToRel(<, Nat)
<1>1. IsWellFoundedOn(R, Nat)
  BY NatLessThanWellFounded
<1>2. PICK x \in T : \A y \in T : ~(<<y, x>> \in R)
  <2> HIDE DEF R
  <2> QED BY <1>1, WFMin
<1>3. \A y \in T : ~(y < x)
  BY <1>2 DEF OpToRel
<1>4. \E z \in T : \A y \in T : z =< y
  BY <1>3
<1> QED BY <1>4 DEF Min

\* The larger of two numbers.
LEMMA MaxOfTwo == \A a, b \in Int : Max({a, b}) = IF a >= b THEN a ELSE b
<1> SUFFICES ASSUME NEW a \in Int, NEW b \in Int
             PROVE  Max({a, b}) = IF a >= b THEN a ELSE b
  OBVIOUS
<1>1. \E z \in {a, b} : \A y \in {a, b} : z >= y
  OBVIOUS
<1>2. Max({a, b}) \in {a, b} /\ \A y \in {a, b} : Max({a, b}) >= y
  BY <1>1 DEF Max
<1> QED BY <1>2

\* The smaller of two numbers.
LEMMA MinOfTwo == \A a, b \in Int : Min({a, b}) = IF a =< b THEN a ELSE b
<1> SUFFICES ASSUME NEW a \in Int, NEW b \in Int
             PROVE  Min({a, b}) = IF a =< b THEN a ELSE b
  OBVIOUS
<1>1. \E z \in {a, b} : \A y \in {a, b} : z =< y
  OBVIOUS
<1>2. Min({a, b}) \in {a, b} /\ \A y \in {a, b} : Min({a, b}) =< y
  BY <1>1 DEF Min
<1> QED BY <1>2

\* A finite set in an order: every element at exactly one position.
LEMMA InOrder ==
  ASSUME NEW S, IsFiniteSet(S)
  PROVE  /\ Cardinality(S) \in Nat
         /\ SetToSeq(S) \in [1..Cardinality(S) -> S]
         /\ \A i, j \in 1..Cardinality(S) : SetToSeq(S)[i] = SetToSeq(S)[j] => i = j
         /\ \A e \in S : \E i \in 1..Cardinality(S) : SetToSeq(S)[i] = e
<1> DEFINE n == Cardinality(S)
           q == SetToSeq(S)
<1>1. n \in Nat
  BY FS_CardinalityType
<1>2. ExistsBijection(1..n, S)
  BY FS_CardinalityType
<1>3. PICK b \in [1..n -> S] : \A i, j \in 1..n : b[i] = b[j] => i = j
  <2>1. PICK b : b \in Bijection(1..n, S)
    BY <1>2, Fun_ExistsBij
  <2>2. b \in [1..n -> S]
    BY <2>1 DEF Bijection, Injection
  <2>3. \A i, j \in 1..n : b[i] = b[j] => i = j
    BY <2>1, <2>2 DEF Bijection, Injection, IsInjective
  <2> QED BY <2>2, <2>3
<1>4. IsInjective(b)
  BY <1>3 DEF IsInjective
<1>5. q \in [1..n -> S] /\ IsInjective(q)
  BY <1>3, <1>4 DEF SetToSeq
<1> HIDE DEF q
<1>6. \A i, j \in 1..n : q[i] = q[j] => i = j
  BY <1>5 DEF IsInjective
<1>7. q \in Injection(1..n, S)
  BY <1>5, <1>6, Fun_IsInj
<1>8. IsFiniteSet(1..n) /\ Cardinality(1..n) = n
  BY <1>1, FS_Interval
<1>9. q \in Surjection(1..n, S)
  BY <1>7, <1>8, FS_Injection
<1>10. \A e \in S : \E i \in 1..n : q[i] = e
  BY <1>9 DEF Surjection
<1> QED BY <1>1, <1>5, <1>6, <1>10 DEF q

\* The entries of a concrete directory and the symbolic files have an order.
LEMMA Orders ==
  /\ OsSize \in Nat /\ n_sym_files \in Nat
  /\ OsEntries \in [1..OsSize -> OsEntry]
  /\ \A i, j \in 1..OsSize : OsEntries[i] = OsEntries[j] => i = j
  /\ \A e \in OsEntry : \E i \in 1..OsSize : OsEntries[i] = e
  /\ \A e \in SymFile : \E i \in 1..n_sym_files : SymFiles[i] = e
<1>1. IsFiniteSet(SymFile) /\ IsFiniteSet(OsEntry)
  BY PosixAssumption
<1> QED BY <1>1, InOrder DEF OsSize, n_sym_files, OsEntries, SymFiles

(***************************************************************************)
(* Files, directories and what the program knows of them                   *)
(***************************************************************************)

FdEntry == [os : Nat, flags : SUBSET {"open", "cloexec"}, off : Nat, dfile : Disk \cup {None}]
Listing == [whole : BOOLEAN, seen : [Entry -> Nat]]
OsFile == [kind : {"tty", "file", "dir"}, pos : Int]
DiskFields == {"linked", "kind", "mode", "mine", "contents"}
ViewFields == {"pos", "list", "want", "file", "stale", "lost"}

\* A listing that has not begun.
AtStart(e, l) == e.off = 0 /\ \A x \in Entry : l.seen[x] = 0

\* A listing that has shown the symbolic files and the entries of the operating
\* system up to the offset.
Listed(e, l, d) ==
  /\ e.off \in DirBase..DirBase + OsSize
  /\ \A j \in 1..OsSize : l.seen[OsEntries[j]] = IF j =< e.off - DirBase THEN 1 ELSE 0
  /\ \A df \in SymFile : l.seen[df] = 1 \/ (l.seen[df] = 0 /\ ~d[df].linked)

\* A descriptor listed from the beginning is a concrete directory.
ListOK(e, l, d, o) ==
  /\ e.dfile = None /\ o[e.os].kind = "dir"
  /\ AtStart(e, l) \/ Listed(e, l, d)

\* Entry e of the table, with the listing l the program knows.
EntryOK(e, l, d, o) ==
  /\ e \in FdEntry /\ e.os \in DOMAIN o /\ l \in Listing
  /\ "open" \in e.flags /\ l.whole => ListOK(e, l, d, o)

TableOK(f, v, d, o) ==
  /\ DOMAIN v = ViewFields
  /\ f \in [FD -> FdEntry] /\ v.list \in [FD -> Listing]
  /\ \A fd \in FD : EntryOK(f[fd], v.list[fd], d, o)

\* The symbolic files and their parts.
DiskOK(d) == DOMAIN d = Disk /\ \A df \in Disk : DOMAIN d[df] = DiskFields

OsOK(o) == \E k \in Nat : DOMAIN o = 0..k /\ o \in [0..k -> OsFile]

FilesInv(f, v, d, o) == TableOK(f, v, d, o) /\ DiskOK(d) /\ OsOK(o)

\* What no call does to the operating system's files and to the symbolic ones:
\* a file changes its kind, or is linked again.
Keeps(d, o, d2, o2) ==
  /\ DOMAIN o \subseteq DOMAIN o2 /\ \A i \in DOMAIN o : o2[i].kind = o[i].kind
  /\ \A df \in SymFile : d2[df].linked => d[df].linked

\* An entry that is left alone stays right.
LEMMA EntryKept ==
  ASSUME NEW d, NEW o, NEW d2, NEW o2, Keeps(d, o, d2, o2),
         NEW e, NEW l, EntryOK(e, l, d, o)
  PROVE  EntryOK(e, l, d2, o2)
<1>1. e.os \in DOMAIN o /\ e.os \in DOMAIN o2 /\ o2[e.os].kind = o[e.os].kind
  BY DEF EntryOK, Keeps
<1>2. Listed(e, l, d) => Listed(e, l, d2)
  BY DEF Listed, Keeps
<1>3. ListOK(e, l, d, o) => ListOK(e, l, d2, o2)
  BY <1>1, <1>2 DEF ListOK
<1> QED BY <1>1, <1>3 DEF EntryOK

\* A call that leaves the table and the program's view of it alone.
LEMMA TableKept ==
  ASSUME NEW f, NEW v, NEW d, NEW o, TableOK(f, v, d, o), NEW d2, NEW o2, Keeps(d, o, d2, o2),
         NEW v2, DOMAIN v2 = ViewFields, v2.list = v.list
  PROVE  TableOK(f, v2, d2, o2)
<1>1. \A fd \in FD : EntryOK(f[fd], v.list[fd], d2, o2)
  BY EntryKept DEF TableOK
<1> QED BY <1>1 DEF TableOK

\* A call that changes one entry.
LEMMA OneEntry ==
  ASSUME NEW f, NEW v, NEW d, NEW o, TableOK(f, v, d, o), NEW d2, NEW o2, Keeps(d, o, d2, o2),
         NEW fd \in FD, NEW e, NEW l, EntryOK(e, l, d2, o2),
         NEW v2, DOMAIN v2 = ViewFields,
         v2.list = [v.list EXCEPT ![fd] = l]
  PROVE  TableOK([f EXCEPT ![fd] = e], v2, d2, o2)
<1> DEFINE f2 == [f EXCEPT ![fd] = e]
<1>1. e \in FdEntry /\ l \in Listing
  BY DEF EntryOK
<1>2. f \in [FD -> FdEntry] /\ v.list \in [FD -> Listing]
  BY DEF TableOK
<1>3. f2 \in [FD -> FdEntry] /\ v2.list \in [FD -> Listing]
  BY <1>1, <1>2
<1>4. f2[fd] = e /\ v2.list[fd] = l
  BY <1>2
<1>5. \A x \in FD \ {fd} : f2[x] = f[x] /\ v2.list[x] = v.list[x]
  BY <1>2
<1> HIDE DEF f2
<1>6. ASSUME NEW x \in FD PROVE EntryOK(f2[x], v2.list[x], d2, o2)
  <2>1. CASE x = fd
    BY <1>4, <2>1
  <2>2. CASE x # fd
    <3>1. EntryOK(f[x], v.list[x], d, o)
      BY DEF TableOK
    <3>2. EntryOK(f[x], v.list[x], d2, o2)
      BY <3>1, EntryKept
    <3> QED BY <1>5, <2>2, <3>2
  <2> QED BY <2>1, <2>2
<1>7. TableOK(f2, v2, d2, o2)
  BY <1>3, <1>6 DEF TableOK
<1> QED BY <1>7 DEF f2

\* Nothing is kept as it is by changing nothing.
LEMMA KeepsSame == \A d, o : Keeps(d, o, d, o)
BY DEF Keeps

\* Listings that show nothing yet.
LEMMA Empty ==
  /\ NoList \in Listing /\ ~NoList.whole
  /\ NewList \in Listing /\ NewList.whole /\ \A x \in Entry : NewList.seen[x] = 0
BY DEF NoList, NewList, Listing

\* A symbolic file is one of those on the disk.
LEMMA OnDisk ==
  ASSUME NEW e \in FdEntry, e.dfile # None
  PROVE  e.dfile \in Disk
BY DEF FdEntry

\* The name of a symbolic file is not the mark of a concrete one.
LEMMA NoneIsNoFile == None \notin Disk
BY PosixAssumption DEF Disk, None

\* A call that changes one entry and nothing the program knows.
LEMMA OnlyEntry ==
  ASSUME NEW f, NEW v, NEW d, NEW o, TableOK(f, v, d, o), NEW o2, Keeps(d, o, d, o2),
         NEW fd \in FD, NEW e, EntryOK(e, v.list[fd], d, o2)
  PROVE  TableOK([f EXCEPT ![fd] = e], v, d, o2)
<1>1. DOMAIN v = ViewFields
      /\ v.list = [v.list EXCEPT ![fd] = v.list[fd]]
  BY DEF TableOK
<1>2. PICK l : l = v.list[fd]
  OBVIOUS
<1>3. EntryOK(e, l, d, o2) /\ v.list = [v.list EXCEPT ![fd] = l]
  BY <1>1, <1>2
<1> QED BY <1>1, <1>3, OneEntry

\* What a table that is right says of one descriptor.
LEMMA EntryOf ==
  ASSUME NEW f, NEW v, NEW d, NEW o, TableOK(f, v, d, o), NEW fd \in FD
  PROVE  /\ EntryOK(f[fd], v.list[fd], d, o)
         /\ f[fd] \in FdEntry /\ v.list[fd] \in Listing
         /\ f[fd].os \in DOMAIN o
BY DEF TableOK, EntryOK

\* What the program knows of the offsets says nothing of its listings.
LEMMA ViewedOne ==
  ASSUME DOMAIN view = ViewFields, NEW fd
  PROVE  /\ \A new : DOMAIN Placed(fd, new) = ViewFields /\ Placed(fd, new).list = view.list
         /\ \A n : DOMAIN Moved(fd, n) = ViewFields /\ Moved(fd, n).list = view.list
         /\ \A list : Opened(fd, list) =>
              DOMAIN view' = ViewFields /\ view'.list = [view.list EXCEPT ![fd] = list]
         /\ Closed(fd) =>
              DOMAIN view' = ViewFields /\ view'.list = [view.list EXCEPT ![fd] = NoList]
<1>1. \A new : DOMAIN Placed(fd, new) = ViewFields /\ Placed(fd, new).list = view.list
  BY DEF Placed, ViewFields
<1>2. \A n : DOMAIN Moved(fd, n) = ViewFields /\ Moved(fd, n).list = view.list
  BY <1>1 DEF Moved
<1>3. \A list : Opened(fd, list) =>
        DOMAIN view' = ViewFields /\ view'.list = [view.list EXCEPT ![fd] = list]
  BY DEF Opened, ViewFields
<1>4. Closed(fd) => DOMAIN view' = ViewFields /\ view'.list = [view.list EXCEPT ![fd] = NoList]
  BY DEF Closed, ViewFields
<1> QED BY <1>1, <1>2, <1>3, <1>4

\* A file is never linked again.
LEMMA LinksKept ==
  ASSUME NEW d, NEW d2, \A x \in Disk : d2[x].linked => d[x].linked, NEW o
  PROVE  Keeps(d, o, d2, o)
BY DEF Keeps, Disk

\* A change of a position of the operating system.
LEMMA PosKept ==
  ASSUME NEW o, OsOK(o), NEW i \in DOMAIN o, NEW x \in OsFile, x.kind = o[i].kind, NEW d
  PROVE  OsOK([o EXCEPT ![i] = x]) /\ Keeps(d, o, d, [o EXCEPT ![i] = x])
<1> DEFINE o2 == [o EXCEPT ![i] = x]
<1>1. PICK k \in Nat : DOMAIN o = 0..k /\ o \in [0..k -> OsFile]
  BY DEF OsOK
<1>2. o2 \in [0..k -> OsFile] /\ \A j \in 0..k : o2[j].kind = o[j].kind
  BY <1>1
<1> HIDE DEF o2
<1>3. OsOK(o2)
  BY <1>2 DEF OsOK
<1>4. Keeps(d, o, d, o2)
  BY <1>1, <1>2 DEF Keeps
<1> QED BY <1>3, <1>4 DEF o2

\* A seek of the operating system's descriptor i.
LEMMA OsSeek ==
  ASSUME OsOK(os), NEW i \in DOMAIN os, NEW pos \in Int, os' = [os EXCEPT ![i].pos = pos]
  PROVE  OsOK(os') /\ \A d : Keeps(d, os, d, os')
<1>1. os[i] \in OsFile
  BY DEF OsOK
<1>2. PICK x : x = [os[i] EXCEPT !.pos = pos]
  OBVIOUS
<1>3. x \in OsFile /\ x.kind = os[i].kind
  BY <1>1, <1>2 DEF OsFile
<1>4. os' = [os EXCEPT ![i] = x]
  BY <1>2
<1>5. \A d : OsOK([os EXCEPT ![i] = x]) /\ Keeps(d, os, d, [os EXCEPT ![i] = x])
  BY <1>3, PosKept
<1> QED BY <1>4, <1>5

\* A slot that is free, or was just closed.
LEMMA FreeEntry ==
  ASSUME NEW o, OsOK(o), NEW df \in Disk \cup {None}, NEW l \in Listing, NEW d
  PROVE  EntryOK([Zero EXCEPT !.dfile = df], l, d, o) /\ EntryOK(Zero, l, d, o)
<1>1. 0 \in DOMAIN o
  BY DEF OsOK
<1>2. \A e \in {Zero, [Zero EXCEPT !.dfile = df]} : e \in FdEntry /\ e.os = 0 /\ e.flags = {}
  BY DEF Zero, FdEntry
<1> QED BY <1>1, <1>2 DEF EntryOK

\* A descriptor that was just opened at os_fd.
LEMMA OpenedEntry ==
  ASSUME NEW o, NEW df \in Disk \cup {None}, NEW os_fd \in Nat, os_fd \in DOMAIN o,
         NEW l \in {NoList, NewList}, l = NewList => df = None /\ o[os_fd].kind = "dir",
         NEW e \in FdEntry, e.os = os_fd, e.off = 0, e.dfile = df, NEW d
  PROVE  EntryOK(e, l, d, o)
<1>1. l.whole => ListOK(e, l, d, o)
  BY Empty DEF ListOK, AtStart
<1> QED BY <1>1, Empty DEF EntryOK

(***************************************************************************)
(* One call after the other                                                *)
(***************************************************************************)

\* The files as the program sees them agree with the runtime's.
Agree == FilesInv(fds, view, disk, os)

\* open of a symbolic file.
LEMMA OpenSymbolicKeeps ==
  ASSUME Agree, NEW fd \in FD, NEW df \in Disk, NEW acc, NEW creat, NEW excl, NEW mode,
         OpenSymbolic(fd, df, acc, creat, excl, mode)
  PROVE  Agree'
<1>1. TableOK(fds, view, disk, os) /\ DiskOK(disk) /\ OsOK(os)
  BY DEF Agree, FilesInv
<1>2. view.list[fd] \in Listing /\ DOMAIN view = ViewFields
  BY <1>1 DEF TableOK
<1>3. CASE /\ fds' = [fds EXCEPT ![fd] = [Zero EXCEPT !.dfile = df]]
           /\ UNCHANGED <<disk, os, view>>
  <2>1. PICK e : e = [Zero EXCEPT !.dfile = df]
    OBVIOUS
  <2>2. EntryOK(e, view.list[fd], disk, os)
    BY <1>1, <1>2, <2>1, FreeEntry
  <2>3. Keeps(disk, os, disk, os)
    BY KeepsSame
  <2>4. TableOK([fds EXCEPT ![fd] = e], view, disk, os)
    BY <1>1, <2>2, <2>3, OnlyEntry
  <2> QED BY <1>1, <1>3, <2>1, <2>4 DEF Agree, FilesInv
<1>4. CASE /\ fds' = [fds EXCEPT ![fd] = [Zero EXCEPT !.dfile = df, !.flags = {"open"}]]
           /\ disk' = [disk EXCEPT ![df].mode = IF creat THEN mode \ fs.umask ELSE {}]
           /\ Opened(fd, NoList) /\ UNCHANGED os
  <2>1. PICK m : disk' = [disk EXCEPT ![df].mode = m]
    BY <1>4
  <2>2. PICK e : fds' = [fds EXCEPT ![fd] = e] /\ e = [Zero EXCEPT !.dfile = df, !.flags = {"open"}]
    BY <1>4
  <2>3. e \in FdEntry /\ e.os = 0 /\ e.off = 0 /\ e.dfile = df
    BY <2>2 DEF Zero, FdEntry
  <2>4. /\ DOMAIN view' = ViewFields
        /\ view'.list = [view.list EXCEPT ![fd] = NoList]
    BY <1>2, <1>4, ViewedOne
  <2>5. DiskOK(disk') /\ \A x \in Disk : disk'[x].linked = disk[x].linked
    BY <1>1, <2>1 DEF DiskOK, DiskFields
  <2>6. Keeps(disk, os, disk', os)
    BY <2>5, LinksKept
  <2>7. 0 \in DOMAIN os /\ NoList # NewList
    BY <1>1, Empty DEF OsOK
  <2>8. EntryOK(e, NoList, disk', os)
    BY <2>3, <2>7, OpenedEntry
  <2>9. TableOK([fds EXCEPT ![fd] = e], view', disk', os)
    BY <1>1, <2>4, <2>6, <2>8, OneEntry
  <2> QED BY <1>1, <1>4, <2>2, <2>5, <2>9 DEF Agree, FilesInv
<1> QED BY <1>3, <1>4 DEF OpenSymbolic

\* open of a concrete file: a new descriptor of the operating system.
LEMMA OpenConcreteKeeps ==
  ASSUME Agree, NEW fd \in FD, NEW pathname, OpenConcrete(fd, pathname)
  PROVE  Agree'
<1>1. TableOK(fds, view, disk, os) /\ DiskOK(disk) /\ OsOK(os)
  BY DEF Agree, FilesInv
<1>2. view.list[fd] \in Listing /\ DOMAIN view = ViewFields
  BY <1>1 DEF TableOK
<1>3. CASE fds' = [fds EXCEPT ![fd] = Zero] /\ UNCHANGED <<disk, os, view>>
  <2>1. EntryOK(Zero, view.list[fd], disk, os)
    BY <1>1, <1>2, FreeEntry
  <2>2. Keeps(disk, os, disk, os)
    BY KeepsSame
  <2>3. TableOK([fds EXCEPT ![fd] = Zero], view, disk, os)
    BY <1>1, <2>1, <2>2, OnlyEntry
  <2> QED BY <1>1, <1>3, <2>3 DEF Agree, FilesInv
<1>4. PICK os_fd, kind : /\ os_fd = Cardinality(DOMAIN os)
                          /\ kind = IF pathname = Dir THEN "dir" ELSE "file"
  OBVIOUS
<1>5. CASE /\ os' = [i \in 0..os_fd |-> IF i = os_fd THEN [kind |-> kind, pos |-> 0] ELSE os[i]]
           /\ fds' = [fds EXCEPT ![fd] = [Zero EXCEPT !.os = os_fd, !.flags = {"open"}]]
           /\ Opened(fd, IF kind = "dir" THEN NewList ELSE NoList) /\ UNCHANGED disk
  <2>1. PICK k \in Nat : DOMAIN os = 0..k /\ os \in [0..k -> OsFile]
    BY <1>1 DEF OsOK
  <2>2. os_fd = k + 1
    <3>1. Cardinality(0..k) = k + 1
      BY FS_Interval
    <3> QED BY <1>4, <2>1, <3>1
  <2>3. PICK l : l = IF kind = "dir" THEN NewList ELSE NoList
    OBVIOUS
  <2>4. PICK e : fds' = [fds EXCEPT ![fd] = e] /\ e = [Zero EXCEPT !.os = os_fd, !.flags = {"open"}]
    BY <1>5
  <2>5. e \in FdEntry /\ e.os = os_fd /\ e.off = 0 /\ e.dfile = None
    <3>1. os_fd \in Nat
      BY <2>2
    <3> QED BY <2>4, <3>1 DEF Zero, FdEntry
  <2>6. /\ DOMAIN view' = ViewFields
        /\ view'.list = [view.list EXCEPT ![fd] = l]
    <3>1. Opened(fd, l)
      BY <1>5, <2>3
    <3> QED BY <1>2, <3>1, ViewedOne
  <2>7. [kind |-> kind, pos |-> 0] \in OsFile
    BY <1>4 DEF OsFile
  <2>8. os' \in [0..k + 1 -> OsFile] /\ DOMAIN os' = 0..k + 1 /\ os'[os_fd].kind = kind
    BY <1>5, <2>1, <2>2, <2>7
  <2>9. OsOK(os')
    BY <2>8 DEF OsOK
  <2>10. Keeps(disk, os, disk, os')
    BY <1>5, <2>1, <2>2, <2>8 DEF Keeps
  <2>11. l \in {NoList, NewList} /\ (l = NewList => os'[os_fd].kind = "dir")
    BY <2>3, <2>8, Empty
  <2>12. os_fd \in Nat /\ os_fd \in DOMAIN os'
    BY <2>2, <2>8
  <2>13. EntryOK(e, l, disk, os')
    BY <2>5, <2>11, <2>12, OpenedEntry
  <2>14. TableOK([fds EXCEPT ![fd] = e], view', disk, os')
    BY <1>1, <2>6, <2>10, <2>13, OneEntry
  <2>15. DiskOK(disk)
    BY <1>1, <2>6 DEF DiskOK
  <2> QED BY <1>5, <2>4, <2>9, <2>14, <2>15 DEF Agree, FilesInv
<1>6. \/ fds' = [fds EXCEPT ![fd] = Zero] /\ UNCHANGED <<disk, os, view>>
      \/ /\ os' = [i \in 0..os_fd |-> IF i = os_fd THEN [kind |-> kind, pos |-> 0] ELSE os[i]]
         /\ fds' = [fds EXCEPT ![fd] = [Zero EXCEPT !.os = os_fd, !.flags = {"open"}]]
         /\ Opened(fd, IF kind = "dir" THEN NewList ELSE NoList) /\ UNCHANGED disk
  BY <1>4, Zenon DEF OpenConcrete
<1> QED BY <1>3, <1>5, <1>6

\* open and openat use the first free slot.
LEMMA OpenKeeps ==
  ASSUME Agree, NEW pathname, NEW acc, NEW creat, NEW excl, NEW mode,
         OpenAny(pathname, acc, creat, excl, mode)
  PROVE  Agree'
<1>1. CASE UNCHANGED <<fds, disk, os, view>>
  BY <1>1 DEF Agree
<1>2. CASE Free # {} /\ OpenSlot(pathname, acc, creat, excl, mode)
  <2> DEFINE fd == Min(Free)
             df == __get_sym_file(pathname)
  <2>1. Free \subseteq FD /\ FD \subseteq Nat
    BY PosixAssumption DEF Free, FD
  <2>2. fd \in FD
    BY <1>2, <2>1, MinOf
  <2>3. df # None => df \in Disk
    BY DEF __get_sym_file, Found, Disk
  <2>4. IF df # None THEN OpenSymbolic(fd, df, acc, creat, excl, mode) ELSE OpenConcrete(fd, pathname)
    BY <1>2 DEF OpenSlot
  <2> HIDE DEF fd, df
  <2> QED BY <2>2, <2>3, <2>4, OpenSymbolicKeeps, OpenConcreteKeeps
<1> QED BY <1>1, <1>2 DEF OpenAny, OpenSlot

\* An entry of which only the flags changed; it is not opened by that.
LEMMA FlagsEntry ==
  ASSUME NEW x, NEW l, NEW d, NEW o, EntryOK(x, l, d, o),
         NEW e \in FdEntry, e.os = x.os, e.off = x.off, e.dfile = x.dfile,
         "open" \in e.flags => "open" \in x.flags
  PROVE  EntryOK(e, l, d, o)
<1>1. ListOK(x, l, d, o) => ListOK(e, l, d, o)
  BY DEF ListOK, AtStart, Listed
<1> QED BY <1>1 DEF EntryOK

\* An entry whose offset moved on; the offset of a directory stays.
LEMMA MovedEntry ==
  ASSUME NEW x, NEW l, NEW d, NEW o, EntryOK(x, l, d, o), NEW n \in Nat,
         n = 0 \/ x.dfile # None \/ o[x.os].kind # "dir",
         NEW e \in FdEntry, e.os = x.os, e.off = x.off + n, e.dfile = x.dfile, e.flags = x.flags
  PROVE  EntryOK(e, l, d, o)
<1>1. x.off \in Nat
  BY DEF EntryOK, FdEntry
<1>2. ASSUME "open" \in x.flags, l.whole PROVE ListOK(e, l, d, o)
  <2>1. ListOK(x, l, d, o)
    BY <1>2 DEF EntryOK
  <2>2. n = 0
    BY <2>1 DEF ListOK
  <2>3. e.off = x.off
    BY <1>1, <2>2
  <2> QED BY <2>1, <2>3 DEF ListOK, AtStart, Listed
<1> QED BY <1>1, <1>2 DEF EntryOK

\* An entry whose offset was set: a listing begins anew or is no longer whole.
LEMMA SeekEntry ==
  ASSUME NEW x, NEW l, NEW d, NEW o, EntryOK(x, l, d, o), NEW new \in Nat,
         NEW l2 \in {NoList, NewList},
         l2 = NewList => new = 0 /\ x.dfile = None /\ o[x.os].kind = "dir",
         NEW e \in FdEntry, e.os = x.os, e.off = new, e.dfile = x.dfile
  PROVE  EntryOK(e, l2, d, o)
<1>1. l2.whole => ListOK(e, l2, d, o)
  BY Empty DEF ListOK, AtStart
<1> QED BY <1>1, Empty DEF EntryOK

\* The parts of Agree after a call that changes one entry.
LEMMA ChangesOne ==
  ASSUME Agree, Keeps(disk, os, disk', os'), NEW fd \in FD, NEW e, NEW l,
         EntryOK(e, l, disk', os'), fds' = [fds EXCEPT ![fd] = e],
         DOMAIN view' = ViewFields,
         view'.list = [view.list EXCEPT ![fd] = l],
         DiskOK(disk'), OsOK(os')
  PROVE  Agree'
<1>1. TableOK(fds, view, disk, os)
  BY DEF Agree, FilesInv
<1>2. PICK d2, o2, v2 : d2 = disk' /\ o2 = os' /\ v2 = view'
  OBVIOUS
<1>3. TableOK([fds EXCEPT ![fd] = e], v2, d2, o2)
  BY <1>1, <1>2, OneEntry
<1>4. TableOK(fds', view', disk', os')
  BY <1>2, <1>3
<1> QED BY <1>4 DEF Agree, FilesInv

\* close empties a slot or leaves the table as it is.
LEMMA CloseKeeps ==
  ASSUME Agree, Close
  PROVE  Agree'
<1>1. PICK fd \in FD : \E c \in close(fd, fds, fs) :
        fds' = c.t /\ IF c.ret = 0 THEN Closed(fd) ELSE UNCHANGED view
  BY DEF Close
<1>2. disk' = disk /\ os' = os
  BY DEF Close
<1>3. PICK c \in close(fd, fds, fs) :
        fds' = c.t /\ IF c.ret = 0 THEN Closed(fd) ELSE UNCHANGED view
  BY <1>1
<1>4. CASE fds' = fds /\ view' = view
  BY <1>2, <1>4 DEF Agree
<1>5. CASE fds' = [fds EXCEPT ![fd] = Zero] /\ Closed(fd)
  <2>1. TableOK(fds, view, disk, os) /\ DiskOK(disk) /\ OsOK(os) /\ DOMAIN view = ViewFields
    BY DEF Agree, FilesInv, TableOK
  <2>2. /\ DOMAIN view' = ViewFields
        /\ view'.list = [view.list EXCEPT ![fd] = NoList]
    BY <1>5, <2>1, ViewedOne
  <2>3. EntryOK(Zero, NoList, disk, os)
    BY <2>1, FreeEntry, Empty
  <2>4. Keeps(disk, os, disk, os)
    BY KeepsSame
  <2>5. DiskOK(disk') /\ OsOK(os')
    BY <1>2, <2>1, <2>2 DEF DiskOK
  <2>6. Keeps(disk, os, disk', os') /\ EntryOK(Zero, NoList, disk', os')
    BY <1>2, <2>3, <2>4
  <2> QED BY <1>5, <2>2, <2>5, <2>6, ChangesOne
<1>6. (c.t = fds /\ c.ret = -1) \/ (c.t = [fds EXCEPT ![fd] = Zero] /\ c.ret = 0)
  BY <1>3 DEF close
<1>7. -1 # 0
  OBVIOUS
<1> QED BY <1>3, <1>4, <1>5, <1>6, <1>7

\* dup2, and dup to the first free slot.  A descriptor copied onto itself is
\* copied after it was closed.
LEMMA Dup2Keeps ==
  ASSUME Agree, NEW oldfd \in FD, NEW newfd \in FD, Dup2(oldfd, newfd)
  PROVE  Agree'
<1>1. TableOK(fds, view, disk, os) /\ DiskOK(disk) /\ OsOK(os) /\ DOMAIN view = ViewFields
  BY DEF Agree, FilesInv, TableOK
<1>2. disk' = disk /\ os' = os
  BY DEF Dup2
<1>3. CASE fds' = fds /\ view' = view
  BY <1>2, <1>3 DEF Agree
<1>4. CASE \E c : (c.t = fds \/ c.t = [fds EXCEPT ![newfd] = Zero]) /\ CopyEntry(oldfd, newfd, c)
  <2>1. PICK c : (c.t = fds \/ c.t = [fds EXCEPT ![newfd] = Zero]) /\ CopyEntry(oldfd, newfd, c)
    BY <1>4
  <2>2. fds \in [FD -> FdEntry] /\ fds[oldfd] \in FdEntry
    BY <1>1 DEF TableOK
  <2>3. Zero \in FdEntry /\ Zero.flags = {}
    BY DEF Zero, FdEntry
  <2>4. PICK x : x = c.t[oldfd]
    OBVIOUS
  <2>5. x = fds[oldfd] \/ x = Zero
    BY <2>1, <2>2, <2>4
  <2>6. PICK e : e = [x EXCEPT !.flags = @ \ {"cloexec"}]
    OBVIOUS
  <2>7. /\ e \in FdEntry /\ e.os = x.os /\ e.off = x.off /\ e.dfile = x.dfile
        /\ "open" \in e.flags <=> "open" \in x.flags
    BY <2>2, <2>3, <2>5, <2>6 DEF FdEntry
  <2>8. fds' = [fds EXCEPT ![newfd] = e]
    <3>1. fds' = [c.t EXCEPT ![newfd] = e]
      BY <2>1, <2>4, <2>6 DEF CopyEntry
    <3> QED BY <2>1, <2>2, <3>1
  <2>9. Keeps(disk, os, disk', os')
    BY <1>2, KeepsSame
  <2>10. EntryOK(fds[oldfd], view.list[oldfd], disk, os)
    BY <1>1, EntryOf
  <2>11. \A l \in Listing : EntryOK(Zero, l, disk, os)
    BY <1>1, FreeEntry
  <2>12. ASSUME NEW l, EntryOK(e, l, disk, os),
                DOMAIN view' = ViewFields, view'.list = [view.list EXCEPT ![newfd] = l]
        PROVE  Agree'
    <3>1. DiskOK(disk') /\ OsOK(os')
      BY <1>1, <1>2
    <3>2. EntryOK(e, l, disk', os')
      BY <1>2, <2>12
    <3> QED BY <2>8, <2>9, <2>12, <3>1, <3>2, ChangesOne
  <2>13. CASE "open" \in x.flags
    <3>1. DOMAIN view' = ViewFields /\ view'.list = [view.list EXCEPT ![newfd] = view.list[oldfd]]
      BY <1>1, <2>1, <2>4, <2>13 DEF CopyEntry, ViewFields
    <3>2. PICK l : l = view.list[oldfd]
      OBVIOUS
    <3>3. EntryOK(x, l, disk, os)
      BY <2>3, <2>5, <2>10, <2>13, <3>2
    <3>4. EntryOK(e, l, disk, os)
      BY <2>7, <3>3, FlagsEntry
    <3> QED BY <2>12, <3>1, <3>2, <3>4
  <2>14. CASE "open" \notin x.flags
    <3>1. DOMAIN view' = ViewFields /\ view'.list = [view.list EXCEPT ![newfd] = NoList]
      BY <1>1, <2>1, <2>4, <2>14, ViewedOne DEF CopyEntry
    <3>2. e.os \in DOMAIN os
      BY <1>1, <2>3, <2>5, <2>7, <2>10, <2>11, Empty DEF EntryOK
    <3>3. EntryOK(e, NoList, disk, os)
      BY <2>7, <2>14, <3>2, Empty DEF EntryOK
    <3> QED BY <2>12, <3>1, <3>3
  <2> QED BY <2>13, <2>14
<1>5. CASE Valid(oldfd)
  <2>1. PICK c \in (IF Valid(newfd) THEN close(newfd, fds, fs)
                    ELSE {[t |-> fds, s |-> Tick(fs), ret |-> 0, err |-> None]}) :
          CopyEntry(oldfd, newfd, c)
    BY <1>5 DEF Dup2
  <2>2. CASE Valid(newfd)
    <3>1. c \in close(newfd, fds, fs)
      BY <2>1, <2>2
    <3>2. c.t = fds \/ c.t = [fds EXCEPT ![newfd] = Zero]
      BY <3>1 DEF close
    <3> QED BY <1>4, <2>1, <3>2
  <2>3. CASE ~Valid(newfd)
    <3>1. c.t = fds
      BY <2>1, <2>3
    <3> QED BY <1>4, <2>1, <3>1
  <2> QED BY <2>2, <2>3
<1> QED BY <1>3, <1>5 DEF Dup2

\* dup2 and dup, whatever the slot.
LEMMA DupKeeps ==
  ASSUME Agree, dup2 \/ dup
  PROVE  Agree'
<1>1. CASE dup2
  BY <1>1, Dup2Keeps DEF dup2
<1>2. CASE dup
  <2>1. PICK oldfd \in FD :
          \/ UNCHANGED <<fds, disk, os, view>>
          \/ Dup2(oldfd, IF Free = {} THEN oldfd ELSE Min(Free))
    BY <1>2 DEF dup
  <2>2. Free \subseteq FD /\ FD \subseteq Nat
    BY PosixAssumption DEF Free, FD
  <2>3. PICK newfd : newfd = IF Free = {} THEN oldfd ELSE Min(Free)
    OBVIOUS
  <2>4. newfd \in FD
    BY <2>2, <2>3, MinOf
  <2>5. Dup2(oldfd, newfd) => Agree'
    BY <2>4, Dup2Keeps
  <2>6. (UNCHANGED <<fds, disk, os, view>>) => Agree'
    BY DEF Agree
  <2> QED BY <2>1, <2>3, <2>5, <2>6
<1> QED BY <1>1, <1>2

\* An offset that moves on.
LEMMA Moves ==
  ASSUME Agree, NEW fd \in FD, NEW n \in Nat,
         n = 0 \/ Symbolic(fd) \/ os[fds[fd].os].kind # "dir",
         fds' = [fds EXCEPT ![fd].off = @ + n], DOMAIN view' = ViewFields, view'.list = view.list,
         Keeps(disk, os, disk', os'), DiskOK(disk'), OsOK(os')
  PROVE  Agree'
<1>1. TableOK(fds, view, disk, os)
  BY DEF Agree, FilesInv
<1>2. PICK x, l : x = fds[fd] /\ l = view.list[fd]
  OBVIOUS
<1>3. x \in FdEntry /\ EntryOK(x, l, disk, os) /\ view.list \in [FD -> Listing]
  BY <1>1, <1>2, EntryOf DEF TableOK
<1>4. PICK e : e = [x EXCEPT !.off = @ + n]
  OBVIOUS
<1>5. e \in FdEntry /\ e.os = x.os /\ e.off = x.off + n /\ e.dfile = x.dfile /\ e.flags = x.flags
  BY <1>3, <1>4 DEF FdEntry
<1>6. fds' = [fds EXCEPT ![fd] = e]
  BY <1>2, <1>4
<1>7. n = 0 \/ x.dfile # None \/ os[x.os].kind # "dir"
  BY <1>2 DEF Symbolic
<1>8. EntryOK(e, l, disk, os)
  BY <1>3, <1>5, <1>7, MovedEntry
<1>9. PICK d2, o2 : d2 = disk' /\ o2 = os'
  OBVIOUS
<1>10. Keeps(disk, os, d2, o2)
  BY <1>9
<1>11. EntryOK(e, l, d2, o2)
  BY <1>8, <1>10, EntryKept
<1>12. EntryOK(e, l, disk', os')
  BY <1>9, <1>11
<1>13. view'.list = [view.list EXCEPT ![fd] = l]
  BY <1>2, <1>3
<1> QED BY <1>6, <1>12, <1>13, ChangesOne

\* read of a symbolic file moves on by the bytes there are.
LEMMA ReadSymbolicKeeps ==
  ASSUME Agree, NEW fd \in FD, NEW count \in Nat, NEW s, Symbolic(fd),
         UNCHANGED disk, ReadSymbolic(fd, count, s)
  PROVE  Agree'
<1>1. TableOK(fds, view, disk, os) /\ DiskOK(disk) /\ OsOK(os)
  BY DEF Agree, FilesInv
<1>2. fds[fd].off \in Nat /\ Size \in Nat
  BY <1>1, EntryOf, PosixAssumption DEF FdEntry
<1>3. PICK n : n = IF Size < fds[fd].off THEN 0
                   ELSE IF fds[fd].off + count > Size THEN Size - fds[fd].off ELSE count
  OBVIOUS
<1>4. n \in Nat
  BY <1>2, <1>3
<1>5. fds' = [fds EXCEPT ![fd].off = @ + n] /\ view' = Moved(fd, n) /\ os' = os
  BY <1>3 DEF ReadSymbolic
<1>6. DOMAIN view' = ViewFields /\ view'.list = view.list
  BY <1>1, <1>5, ViewedOne DEF TableOK
<1>7. Keeps(disk, os, disk', os') /\ DiskOK(disk') /\ OsOK(os')
  BY <1>1, <1>5, KeepsSame
<1> QED BY <1>4, <1>5, <1>6, <1>7, Moves

\* A position of the operating system that moved and nothing else did.
LEMMA OnlyPos ==
  ASSUME Agree, UNCHANGED <<fds, disk, view>>, OsOK(os'), Keeps(disk, os, disk, os')
  PROVE  Agree'
<1>1. TableOK(fds, view, disk, os) /\ DiskOK(disk) /\ DOMAIN view = ViewFields
  BY DEF Agree, FilesInv, TableOK
<1>2. PICK o2 : o2 = os'
  OBVIOUS
<1>3. TableOK(fds, view, disk, o2)
  BY <1>1, <1>2, TableKept
<1> QED BY <1>1, <1>2, <1>3 DEF Agree, FilesInv

\* read of a concrete file, of a standard stream or of a directory.
LEMMA ReadConcreteKeeps ==
  ASSUME Agree, NEW fd \in FD, NEW count \in Nat, NEW s, UNCHANGED disk, ReadConcrete(fd, count, s)
  PROVE  Agree'
<1>1. TableOK(fds, view, disk, os) /\ DiskOK(disk) /\ OsOK(os)
  BY DEF Agree, FilesInv
<1>2. fds[fd].off \in Nat /\ OsSize \in Nat
  BY <1>1, EntryOf, Orders DEF FdEntry
<1>3. 0 \in DOMAIN os /\ os[0].pos \in Int
  BY <1>1 DEF OsOK, OsFile
<1> DEFINE from == IF fds[fd].os = 0 THEN os[0].pos ELSE fds[fd].off
           most == IF os[fds[fd].os].kind = "dir" THEN -1
                   ELSE Max({0, Min({count, OsSize - from})})
<1>4. PICK r \in {-1, 0, most} :
        /\ os' = IF fds[fd].os = 0 /\ r > 0 THEN [os EXCEPT ![0].pos = @ + r] ELSE os
        /\ IF r = -1 \/ fds[fd].os = 0 THEN UNCHANGED <<fds, view>>
           ELSE /\ fds' = [fds EXCEPT ![fd].off = @ + r]
                /\ view' = Moved(fd, r)
  BY DEF ReadConcrete
<1>5. (r = -1 \/ r \in Nat) /\ (os[fds[fd].os].kind = "dir" => r = -1 \/ r = 0)
  <2>1. CASE os[fds[fd].os].kind = "dir"
    BY <1>4, <2>1
  <2>2. CASE os[fds[fd].os].kind # "dir"
    <3>1. from \in Int
      BY <1>2, <1>3
    <3> HIDE DEF from
    <3>2. Min({count, OsSize - from}) \in Int
      BY <1>2, <3>1, MinOfTwo
    <3>3. \A m \in Int : Max({0, m}) \in Nat
      BY MaxOfTwo
    <3>4. most \in Nat
      BY <2>2, <3>2, <3>3
    <3> QED BY <1>4, <2>2, <3>4
  <2> QED BY <2>1, <2>2
<1> HIDE DEF most
<1>6. OsOK(os') /\ Keeps(disk, os, disk, os')
  <2>1. CASE os' = os
    BY <1>1, <2>1, KeepsSame
  <2>2. CASE r > 0 /\ os' = [os EXCEPT ![0].pos = os[0].pos + r]
    <3>1. PICK i, q : i = 0 /\ q = os[0].pos + r
      OBVIOUS
    <3>2. i \in DOMAIN os /\ q \in Int /\ os' = [os EXCEPT ![i].pos = q]
      BY <1>3, <1>5, <2>2, <3>1
    <3> QED BY <1>1, <3>2, OsSeek
  <2> QED BY <1>4, <2>1, <2>2
<1>7. CASE UNCHANGED <<fds, view>>
  BY <1>6, <1>7, OnlyPos
<1>8. CASE r # -1 /\ fds' = [fds EXCEPT ![fd].off = @ + r] /\ view' = Moved(fd, r)
  <2>1. r \in Nat /\ (r = 0 \/ os[fds[fd].os].kind # "dir")
    BY <1>5, <1>8
  <2>2. DOMAIN view' = ViewFields /\ view'.list = view.list
    BY <1>1, <1>8, ViewedOne DEF TableOK
  <2>3. Keeps(disk, os, disk', os') /\ DiskOK(disk')
    BY <1>1, <1>6
  <2> QED BY <1>6, <1>8, <2>1, <2>2, <2>3, Moves
<1> QED BY <1>4, <1>7, <1>8

\* read, failing or not.
LEMMA ReadKeeps ==
  ASSUME Agree, read
  PROVE  Agree'
<1>1. PICK fd \in FD, count \in Counts :
        \/ UNCHANGED <<fds, disk, os, view>>
        \/ /\ UNCHANGED disk
           /\ \E s : IF Symbolic(fd) THEN ReadSymbolic(fd, count, s) ELSE ReadConcrete(fd, count, s)
  BY DEF read
<1>2. count \in Nat
  BY PosixAssumption
<1>3. CASE UNCHANGED <<fds, disk, os, view>>
  BY <1>3 DEF Agree
<1> QED BY <1>1, <1>2, <1>3, ReadSymbolicKeeps, ReadConcreteKeeps

\* write to a symbolic file: the offset moves on by all that was asked for.
LEMMA WriteSymbolicKeeps ==
  ASSUME Agree, NEW fd \in FD, NEW count \in Nat, NEW s, Symbolic(fd), WriteSymbolic(fd, count, s)
  PROVE  Agree'
<1>1. TableOK(fds, view, disk, os) /\ DiskOK(disk) /\ OsOK(os) /\ DOMAIN view = ViewFields
  BY DEF Agree, FilesInv, TableOK
<1>2. PICK df, n, want, lost :
        /\ df = fds[fd].dfile /\ n = Written(fds[fd].off, count)
        /\ want = IF fd \in view.stale THEN Moved(fd, count).want[df]
                  ELSE Put(Moved(fd, count).want[df], view.pos[fd], count)
        /\ lost = IF fd \in view.stale /\ count > 0 THEN Moved(fd, count).lost \cup {df}
                  ELSE Moved(fd, count).lost
  OBVIOUS
<1>3. CASE UNCHANGED <<fds, disk, os, view>>
  BY <1>3 DEF Agree
<1>4. CASE /\ disk' = [disk EXCEPT ![df].contents = Put(@, fds[fd].off, n)]
           /\ fds' = [fds EXCEPT ![fd].off = @ + count]
           /\ view' = [Moved(fd, count) EXCEPT !.want[df] = want, !.lost = lost]
           /\ os' = os
  <2>1. DOMAIN view' = ViewFields /\ view'.list = view.list
    <3>1. PICK w : w = Moved(fd, count)
      OBVIOUS
    <3>2. DOMAIN w = ViewFields /\ w.list = view.list
      BY <1>1, <3>1, ViewedOne
    <3> QED BY <1>4, <3>1, <3>2 DEF ViewFields
  <2>2. DiskOK(disk') /\ \A x \in Disk : disk'[x].linked = disk[x].linked
    BY <1>1, <1>4 DEF DiskOK, DiskFields
  <2>3. Keeps(disk, os, disk', os') /\ OsOK(os')
    BY <1>1, <1>4, <2>2, LinksKept
  <2> QED BY <1>4, <2>1, <2>2, <2>3, Moves
<1>5. \/ UNCHANGED <<fds, disk, os, view>>
      \/ /\ disk' = [disk EXCEPT ![df].contents = Put(@, fds[fd].off, n)]
         /\ fds' = [fds EXCEPT ![fd].off = @ + count]
         /\ view' = [Moved(fd, count) EXCEPT !.want[df] = want, !.lost = lost]
         /\ os' = os
  BY <1>2 DEF WriteSymbolic, Advance
<1> QED BY <1>3, <1>4, <1>5

\* write to a concrete file or a standard stream.
LEMMA WriteConcreteKeeps ==
  ASSUME Agree, NEW fd \in FD, NEW count \in Nat, NEW s, WriteConcrete(fd, count, s)
  PROVE  Agree'
<1>1. TableOK(fds, view, disk, os) /\ DiskOK(disk) /\ OsOK(os)
  BY DEF Agree, FilesInv
<1>2. PICK r \in IF os[fds[fd].os].kind = "dir" THEN {-1} ELSE {-1, 0, count} :
        IF r = -1 \/ fds[fd].os \in {1, 2} THEN UNCHANGED <<fds, view>>
        ELSE /\ fds' = [fds EXCEPT ![fd].off = @ + r]
             /\ view' = Moved(fd, r)
  BY DEF WriteConcrete
<1>3. disk' = disk /\ os' = os
  BY DEF WriteConcrete
<1>4. CASE UNCHANGED <<fds, view>>
  BY <1>3, <1>4 DEF Agree
<1>5. CASE r # -1 /\ fds' = [fds EXCEPT ![fd].off = @ + r] /\ view' = Moved(fd, r)
  <2>1. r \in Nat /\ os[fds[fd].os].kind # "dir"
    BY <1>2, <1>5
  <2>2. DOMAIN view' = ViewFields /\ view'.list = view.list
    BY <1>1, <1>5, ViewedOne DEF TableOK
  <2>3. Keeps(disk, os, disk', os') /\ DiskOK(disk') /\ OsOK(os')
    BY <1>1, <1>3, KeepsSame
  <2> QED BY <1>5, <2>1, <2>2, <2>3, Moves
<1> QED BY <1>2, <1>4, <1>5

\* write, failing or not.
LEMMA WriteKeeps ==
  ASSUME Agree, write
  PROVE  Agree'
<1>1. PICK fd \in FD, count \in Counts :
        \/ UNCHANGED <<fds, disk, os, view>>
        \/ /\ Valid(fd)
           /\ \E s : IF Symbolic(fd) THEN WriteSymbolic(fd, count, s) ELSE WriteConcrete(fd, count, s)
  BY DEF write
<1>2. count \in Nat
  BY PosixAssumption
<1>3. CASE UNCHANGED <<fds, disk, os, view>>
  BY <1>3 DEF Agree
<1> QED BY <1>1, <1>2, <1>3, WriteSymbolicKeeps, WriteConcreteKeeps

\* A descriptor that is set to a position: a listing begins anew or ends.
LEMMA SeekKeeps ==
  ASSUME Agree, NEW fd \in FD, NEW new \in Nat, NEW list \in {NoList, NewList},
         list = NewList => new = 0 /\ ~Symbolic(fd) /\ os[fds[fd].os].kind = "dir",
         NEW position, Seek(fd, new, position, list), UNCHANGED disk, OsOK(os'), Keeps(disk, os, disk, os')
  PROVE  Agree'
<1>1. TableOK(fds, view, disk, os) /\ DiskOK(disk) /\ OsOK(os) /\ DOMAIN view = ViewFields
  BY DEF Agree, FilesInv, TableOK
<1>2. PICK x, l, o2 : x = fds[fd] /\ l = view.list[fd] /\ o2 = os'
  OBVIOUS
<1>3. x \in FdEntry /\ EntryOK(x, l, disk, os)
  BY <1>1, <1>2, EntryOf
<1>4. PICK e : e = [x EXCEPT !.off = new]
  OBVIOUS
<1>5. e \in FdEntry /\ e.os = x.os /\ e.off = new /\ e.dfile = x.dfile
  BY <1>3, <1>4 DEF FdEntry
<1>6. list = NewList => new = 0 /\ x.dfile = None /\ os[x.os].kind = "dir"
  BY <1>2 DEF Symbolic
<1>7. EntryOK(e, list, disk, os)
  BY <1>3, <1>5, <1>6, SeekEntry
<1>8. EntryOK(e, list, disk, o2)
  BY <1>2, <1>7, EntryKept
<1>9. EntryOK(e, list, disk', os')
  BY <1>2, <1>8
<1>10. DOMAIN view' = ViewFields /\ view'.list = [view.list EXCEPT ![fd] = list]
  <2>1. PICK y : view' = [Placed(fd, y) EXCEPT !.stale = @ \ {fd}, !.list[fd] = list]
    BY DEF Seek
  <2>2. PICK w : w = Placed(fd, y)
    OBVIOUS
  <2>3. DOMAIN w = ViewFields /\ w.list = view.list
    BY <1>1, <2>2, ViewedOne
  <2> QED BY <2>1, <2>2, <2>3 DEF ViewFields
<1>11. fds' = [fds EXCEPT ![fd] = e]
  BY <1>2, <1>4 DEF Seek
<1>12. DiskOK(disk') /\ Keeps(disk, os, disk', os')
  BY <1>1
<1> QED BY <1>9, <1>10, <1>11, <1>12, ChangesOne

\* lseek of a symbolic file.
LEMMA LseekSymbolicKeeps ==
  ASSUME Agree, NEW fd \in FD, NEW offset \in Int, NEW whence, Symbolic(fd), UNCHANGED disk,
         LseekSymbolic(fd, offset, whence)
  PROVE  Agree'
<1>1. TableOK(fds, view, disk, os) /\ OsOK(os)
  BY DEF Agree, FilesInv
<1>2. fds[fd].off \in Nat /\ Size \in Nat
  BY <1>1, EntryOf, PosixAssumption DEF FdEntry
<1>3. PICK new : new = CASE whence = "SET" -> offset
                         [] whence = "CUR" -> fds[fd].off + offset
                         [] OTHER -> Size + offset
  OBVIOUS
<1>4. new \in Int
  BY <1>2, <1>3
<1>5. os' = os
  BY DEF LseekSymbolic
<1>6. \/ new < 0 /\ UNCHANGED <<fds, view>>
      \/ ~(new < 0) /\ \E position : Seek(fd, new, position, NoList)
  BY <1>3 DEF LseekSymbolic
<1>7. CASE UNCHANGED <<fds, view>>
  BY <1>5, <1>7 DEF Agree
<1>8. CASE ~(new < 0) /\ \E position : Seek(fd, new, position, NoList)
  <2>1. new \in Nat /\ NoList # NewList
    BY <1>4, <1>8, Empty
  <2>2. OsOK(os') /\ Keeps(disk, os, disk, os')
    BY <1>1, <1>5, KeepsSame
  <2> QED BY <1>8, <2>1, <2>2, SeekKeeps
<1> QED BY <1>6, <1>7, <1>8

\* lseek of a concrete file moves the operating system's position first.
LEMMA LseekConcreteKeeps ==
  ASSUME Agree, NEW fd \in FD, NEW offset \in Int, NEW whence, ~Symbolic(fd), UNCHANGED disk,
         LseekConcrete(fd, offset, whence)
  PROVE  Agree'
<1>1. TableOK(fds, view, disk, os) /\ OsOK(os)
  BY DEF Agree, FilesInv
<1>2. PICK i : i = fds[fd].os
  OBVIOUS
<1>3. fds[fd].off \in Nat /\ i \in DOMAIN os /\ os[i] \in OsFile
  BY <1>1, <1>2, EntryOf DEF FdEntry, OsOK
<1>4. PICK at : at = IF whence = "SET" THEN os[i].pos ELSE fds[fd].off
  OBVIOUS
<1>5. at \in Int
  BY <1>3, <1>4 DEF OsFile
<1>6. PICK new : new = CASE whence = "SET" -> offset
                         [] whence = "CUR" -> fds[fd].off + offset
                         [] OTHER -> OsSize + offset
  OBVIOUS
<1>7. PICK list : list = IF os[i].kind = "dir" /\ new = 0 THEN NewList ELSE NoList
  OBVIOUS
<1>8. \/ os' = [os EXCEPT ![i].pos = at] /\ UNCHANGED <<fds, view>>
      \/ /\ new \in 0..MaxOff /\ os' = [os EXCEPT ![i].pos = new]
         /\ \E position : Seek(fd, new, position, list)
  BY <1>2, <1>4, <1>6, <1>7 DEF LseekConcrete
<1>9. CASE os' = [os EXCEPT ![i].pos = at] /\ UNCHANGED <<fds, view>>
  <2>1. OsOK(os') /\ Keeps(disk, os, disk, os')
    BY <1>1, <1>3, <1>5, <1>9, OsSeek
  <2> QED BY <1>9, <2>1, OnlyPos
<1>10. CASE /\ new \in 0..MaxOff /\ os' = [os EXCEPT ![i].pos = new]
            /\ \E position : Seek(fd, new, position, list)
  <2>1. new \in Nat /\ new \in Int
    BY <1>10, PosixAssumption
  <2>2. OsOK(os') /\ Keeps(disk, os, disk, os')
    BY <1>1, <1>3, <1>10, <2>1, OsSeek
  <2>3. /\ list \in {NoList, NewList}
        /\ list = NewList => new = 0 /\ ~Symbolic(fd) /\ os[fds[fd].os].kind = "dir"
    BY <1>2, <1>7, Empty
  <2> QED BY <1>10, <2>1, <2>2, <2>3, SeekKeeps
<1> QED BY <1>8, <1>9, <1>10

\* lseek of any descriptor.
LEMMA LseekKeeps ==
  ASSUME Agree, __fd_lseek
  PROVE  Agree'
<1>1. PICK fd \in FD, offset \in {-1, 0, 1}, whence \in {"SET", "CUR", "END"} :
        \/ UNCHANGED <<fds, os, view>>
        \/ Symbolic(fd) /\ LseekSymbolic(fd, offset, whence)
        \/ ~Symbolic(fd) /\ LseekConcrete(fd, offset, whence)
  BY DEF __fd_lseek
<1>2. disk' = disk /\ offset \in Int
  BY DEF __fd_lseek
<1>3. CASE UNCHANGED <<fds, os, view>>
  BY <1>2, <1>3 DEF Agree
<1> QED BY <1>1, <1>2, <1>3, LseekSymbolicKeeps, LseekConcreteKeeps

\* What showing entries does to a listing.
LEMMA ShownOnce ==
  ASSUME NEW l \in Listing, NEW S
  PROVE  /\ Shown(l, S) \in Listing /\ Shown(l, S).whole = l.whole
         /\ \A x \in Entry : Shown(l, S).seen[x] = IF x \in S THEN l.seen[x] + 1 ELSE l.seen[x]
<1>1. l.seen \in [Entry -> Nat] /\ l.whole \in BOOLEAN
  BY DEF Listing
<1>2. PICK q : q = [x \in Entry |-> IF x \in S THEN l.seen[x] + 1 ELSE l.seen[x]]
  OBVIOUS
<1>3. q \in [Entry -> Nat]
  BY <1>1, <1>2
<1>4. Shown(l, S) = [l EXCEPT !.seen = q]
  BY <1>2 DEF Shown, Listing
<1>5. [l EXCEPT !.seen = q] \in Listing /\ [l EXCEPT !.seen = q].whole = l.whole
      /\ [l EXCEPT !.seen = q].seen = q
  BY <1>3 DEF Listing
<1> QED BY <1>2, <1>4, <1>5

\* The two kinds of entries are told apart.
LEMMA Disjoint ==
  /\ SymFile \cap OsEntry = {} /\ SymFile \subseteq Entry /\ OsEntry \subseteq Entry
  /\ DirBase \in Nat /\ DirBase > 0 /\ DirBase > n_sym_files
BY PosixAssumption, Orders DEF Entry

\* A directory of which the symbolic files were shown.
LEMMA SymbolicListed ==
  ASSUME NEW e, NEW l \in Listing, NEW e2, e.off = 0, AtStart(e, l), e2.off = DirBase
  PROVE  Listed(e2, Shown(l, SymEntries(0)), disk)
<1> DEFINE l2 == Shown(l, SymEntries(0))
<1>1. \A df \in SymFile : df \in SymEntries(0) <=> disk[df].linked
  BY Orders DEF SymEntries
<1>2. SymEntries(0) \subseteq SymFile
  BY DEF SymEntries
<1>3. \A x \in Entry : l.seen[x] = 0 /\ l2.seen[x] = IF x \in SymEntries(0) THEN l.seen[x] + 1 ELSE l.seen[x]
  BY ShownOnce DEF AtStart
<1> HIDE DEF l2
<1>4. \A x \in Entry : l2.seen[x] = IF x \in SymEntries(0) THEN 1 ELSE 0
  BY <1>3
<1>5. \A df \in SymFile : l2.seen[df] = 1 \/ (l2.seen[df] = 0 /\ ~disk[df].linked)
  BY <1>1, <1>4, Disjoint
<1>6. \A j \in 1..OsSize : OsEntries[j] \in OsEntry
  BY Orders
<1>7. \A j \in 1..OsSize : l2.seen[OsEntries[j]] = 0
  BY <1>2, <1>4, <1>6, Disjoint
<1>8. DirBase \in DirBase..DirBase + OsSize /\ \A j \in 1..OsSize : ~(j =< DirBase - DirBase)
  BY Disjoint, Orders
<1>9. Listed(e2, l2, disk)
  BY <1>5, <1>7, <1>8 DEF Listed
<1> QED BY <1>9 DEF l2

\* A directory of which n more entries of the operating system were shown.
LEMMA MoreListed ==
  ASSUME NEW e, e.off \in Nat, NEW l \in Listing, Listed(e, l, disk), NEW n \in Nat,
         e.off - DirBase + n =< OsSize, NEW e2, e2.off = e.off + n
  PROVE  Listed(e2, Shown(l, {OsEntries[j] : j \in e.off - DirBase + 1..e.off - DirBase + n}), disk)
<1> DEFINE from == e.off - DirBase
           S == {OsEntries[j] : j \in from + 1..from + n}
           l2 == Shown(l, S)
<1>1. from \in Nat /\ from + n =< OsSize /\ OsSize \in Nat /\ DirBase \in Nat
  BY Disjoint, Orders DEF Listed
<1>2. e2.off \in DirBase..DirBase + OsSize /\ e2.off - DirBase = from + n
  BY <1>1
<1>3. \A j \in 1..OsSize : l.seen[OsEntries[j]] = IF j =< from THEN 1 ELSE 0
  BY DEF Listed
<1>4. \A x \in Entry : l2.seen[x] = IF x \in S THEN l.seen[x] + 1 ELSE l.seen[x]
  BY ShownOnce
<1> HIDE DEF from, l2
<1>5. \A j \in 1..OsSize : OsEntries[j] \in OsEntry /\ OsEntries[j] \in Entry
  BY Orders, Disjoint
<1>6. \A j \in 1..OsSize : OsEntries[j] \in S <=> j \in from + 1..from + n
  <2>1. \A i \in from + 1..from + n : i \in 1..OsSize
    BY <1>1
  <2> QED BY <2>1, Orders
<1>7. S \cap SymFile = {}
  <2>1. \A i \in from + 1..from + n : i \in 1..OsSize
    BY <1>1
  <2> QED BY <1>5, <2>1, Disjoint
<1> HIDE DEF S
<1>8. \A j \in 1..OsSize : l2.seen[OsEntries[j]] = IF j =< from + n THEN 1 ELSE 0
  <2> SUFFICES ASSUME NEW j \in 1..OsSize
               PROVE  l2.seen[OsEntries[j]] = IF j =< from + n THEN 1 ELSE 0
    OBVIOUS
  <2>1. /\ l2.seen[OsEntries[j]] = IF OsEntries[j] \in S THEN l.seen[OsEntries[j]] + 1
                                   ELSE l.seen[OsEntries[j]]
        /\ l.seen[OsEntries[j]] = IF j =< from THEN 1 ELSE 0
        /\ OsEntries[j] \in S <=> j \in from + 1..from + n
    BY <1>3, <1>4, <1>5, <1>6
  <2> QED BY <1>1, <2>1
<1>9. \A df \in SymFile : l2.seen[df] = 1 \/ (l2.seen[df] = 0 /\ ~disk[df].linked)
  BY <1>4, <1>7, Disjoint DEF Listed
<1>10. Listed(e2, l2, disk)
  BY <1>2, <1>8, <1>9 DEF Listed
<1> QED BY <1>10 DEF l2, S, from

\* getdents of a directory shows the symbolic files first.
LEMMA ListSymbolicKeeps ==
  ASSUME Agree, NEW fd \in FD, Valid(fd), ~Symbolic(fd), fds[fd].off < DirBase,
         os[fds[fd].os].kind = "dir", UNCHANGED disk, ListSymbolic(fd)
  PROVE  Agree'
<1>1. TableOK(fds, view, disk, os) /\ DiskOK(disk) /\ OsOK(os) /\ DOMAIN view = ViewFields
  BY DEF Agree, FilesInv, TableOK
<1>2. os' = os /\ disk' = disk
  BY DEF ListSymbolic
<1>3. CASE UNCHANGED <<fds, view>>
  BY <1>2, <1>3 DEF Agree
<1>4. PICK x, l, i : x = fds[fd] /\ l = view.list[fd] /\ i = fds[fd].off
  OBVIOUS
<1>5. CASE /\ fds' = [fds EXCEPT ![fd].off = DirBase]
           /\ view' = [Placed(fd, DirBase) EXCEPT !.list[fd] = Shown(@, SymEntries(i))]
  <2>1. x \in FdEntry /\ EntryOK(x, l, disk, os) /\ l \in Listing
    BY <1>1, <1>4, EntryOf
  <2>2. PICK e, l2 : e = [x EXCEPT !.off = DirBase] /\ l2 = Shown(l, SymEntries(i))
    OBVIOUS
  <2>3. e \in FdEntry /\ e.os = x.os /\ e.off = DirBase /\ e.dfile = x.dfile
    BY <2>1, <2>2, Disjoint DEF FdEntry
  <2>4. l2 \in Listing /\ l2.whole = l.whole
    BY <2>1, <2>2, ShownOnce
  <2>5. ASSUME l2.whole PROVE ListOK(e, l2, disk, os)
    <3>1. ListOK(x, l, disk, os)
      BY <1>4, <2>1, <2>4, <2>5 DEF EntryOK, Valid
    <3>2. ~Listed(x, l, disk)
      BY <1>4, Disjoint, Orders DEF Listed
    <3>3. AtStart(x, l) /\ x.off = 0
      BY <3>1, <3>2 DEF ListOK, AtStart
    <3>4. i = 0
      BY <1>4, <3>3
    <3>5. Listed(e, l2, disk)
      BY <2>1, <2>2, <2>3, <3>3, <3>4, SymbolicListed
    <3> QED BY <2>3, <3>1, <3>5 DEF ListOK
  <2>6. EntryOK(e, l2, disk, os)
    BY <2>1, <2>3, <2>4, <2>5, Disjoint DEF EntryOK
  <2>7. DOMAIN view' = ViewFields /\ view'.list = [view.list EXCEPT ![fd] = l2]
    <3>1. DOMAIN Placed(fd, DirBase) = ViewFields /\ Placed(fd, DirBase).list = view.list
      BY <1>1, ViewedOne
    <3> QED BY <1>4, <1>5, <2>2, <3>1 DEF ViewFields
  <2>8. fds' = [fds EXCEPT ![fd] = e]
    BY <1>4, <1>5, <2>2
  <2>9. Keeps(disk, os, disk', os') /\ DiskOK(disk') /\ OsOK(os')
        /\ EntryOK(e, l2, disk', os')
    BY <1>1, <1>2, <2>6, KeepsSame
  <2> QED BY <2>7, <2>8, <2>9, ChangesOne
<1> QED BY <1>3, <1>4, <1>5 DEF ListSymbolic

\* Every entry of the operating system was shown once, and every symbolic file
\* that is still linked.
Complete(seen, d) ==
  /\ \A e \in OsEntry : seen[e] = 1
  /\ \A df \in SymFile : seen[df] = 1 \/ (seen[df] = 0 /\ ~d[df].linked)

\* After them come the operating system's entries.  A listing that got to the
\* last one is complete.
LEMMA ListConcreteKeeps ==
  ASSUME Agree, NEW fd \in FD, Valid(fd), ~Symbolic(fd), ~(fds[fd].off < DirBase),
         os[fds[fd].os].kind = "dir", UNCHANGED disk, ListConcrete(fd)
  PROVE  /\ Agree'
         /\ \/ res'.op = None
            \/ /\ res'.op = "getdents" /\ res'.fd = fd
               /\ res'.ret = 0 /\ view'.list[fd].whole => Complete(view'.list[fd].seen, disk')
<1>1. TableOK(fds, view, disk, os) /\ DiskOK(disk) /\ OsOK(os) /\ DOMAIN view = ViewFields
  BY DEF Agree, FilesInv, TableOK
<1>2. PICK x, l : x = fds[fd] /\ l = view.list[fd]
  OBVIOUS
<1>3. x \in FdEntry /\ EntryOK(x, l, disk, os) /\ l \in Listing /\ x.os \in DOMAIN os
  BY <1>1, <1>2, EntryOf
<1>4. PICK from : from = x.off - DirBase
  OBVIOUS
<1>5. /\ from \in Nat /\ x.off \in Nat /\ DirBase \in Nat /\ OsSize \in Nat
      /\ DirBase + from = x.off
  <2>1. x.off \in Nat
    BY <1>3 DEF FdEntry
  <2>2. DirBase \in Nat /\ OsSize \in Nat
    BY Disjoint, Orders
  <2>3. ~(x.off < DirBase)
    BY <1>2
  <2> QED BY <1>4, <2>1, <2>2, <2>3
<1>6. PICK rest : rest = Max({0, OsSize - from})
  OBVIOUS
<1>7. rest \in Nat /\ (rest = IF from =< OsSize THEN OsSize - from ELSE 0)
  <2>1. PICK z, m : z = 0 /\ m = OsSize - from
    OBVIOUS
  <2>2. z \in Int /\ m \in Int
    BY <1>5, <2>1
  <2>3. Max({z, m}) = IF z >= m THEN z ELSE m
    BY <2>2, MaxOfTwo
  <2> QED BY <1>5, <1>6, <2>1, <2>3
<1>8. \/ /\ res' = Quiet /\ os' = [os EXCEPT ![x.os].pos = from]
         /\ UNCHANGED <<fds, view>>
      \/ \E n \in Min({1, rest})..rest :
           /\ os' = [os EXCEPT ![x.os].pos = from + n]
           /\ fds' = [fds EXCEPT ![fd].off = DirBase + from + n]
           /\ Result("getdents", fd, n, <<>>, <<>>)
           /\ view' = [Moved(fd, n) EXCEPT
                !.list[fd] = Shown(@, {OsEntries[j] : j \in from + 1..from + n})]
  BY <1>2, <1>4, <1>6 DEF ListConcrete, ListFrom, Succeed
<1>9. CASE res' = Quiet /\ os' = [os EXCEPT ![x.os].pos = from] /\ UNCHANGED <<fds, view>>
  <2>1. OsOK(os') /\ Keeps(disk, os, disk, os')
    <3>1. PICK i : i = x.os
      OBVIOUS
    <3>2. i \in DOMAIN os /\ from \in Int /\ os' = [os EXCEPT ![i].pos = from]
      BY <1>3, <1>5, <1>9, <3>1
    <3> QED BY <1>1, <3>2, OsSeek
  <2>2. Agree'
    BY <1>9, <2>1, OnlyPos
  <2> QED BY <1>9, <2>2 DEF Quiet
<1>10. ASSUME NEW n \in Min({1, rest})..rest,
              os' = [os EXCEPT ![x.os].pos = from + n],
              fds' = [fds EXCEPT ![fd].off = DirBase + from + n],
              Result("getdents", fd, n, <<>>, <<>>),
              view' = [Moved(fd, n) EXCEPT
                         !.list[fd] = Shown(@, {OsEntries[j] : j \in from + 1..from + n})]
       PROVE  /\ Agree' /\ res'.op = "getdents" /\ res'.fd = fd
              /\ res'.ret = 0 /\ view'.list[fd].whole => Complete(view'.list[fd].seen, disk')
  <2>1. n \in Nat /\ n =< rest /\ (n = 0 => rest = 0)
    <3>1. PICK a : a = 1
      OBVIOUS
    <3>2. a \in Int /\ rest \in Int
      BY <1>7, <3>1
    <3>3. Min({a, rest}) = IF a =< rest THEN a ELSE rest
      BY <3>2, MinOfTwo
    <3> QED BY <1>7, <1>10, <3>1, <3>3
  <2>2. PICK pos, e, l2, q : /\ pos = from + n /\ q = x.off + n /\ e = [x EXCEPT !.off = x.off + n]
                             /\ l2 = Shown(l, {OsEntries[j] : j \in from + 1..from + n})
    OBVIOUS
  <2>3. pos \in Int /\ q \in Nat /\ DirBase + from + n = q
    BY <1>5, <2>1, <2>2
  <2>4. OsOK(os') /\ Keeps(disk, os, disk, os')
    BY <1>1, <1>3, <1>10, <2>2, <2>3, OsSeek
  <2>5. e \in FdEntry /\ e.os = x.os /\ e.off = q /\ e.dfile = x.dfile /\ e.flags = x.flags
    BY <1>3, <2>2, <2>3 DEF FdEntry
  <2>6. l2 \in Listing /\ l2.whole = l.whole
    BY <1>3, <2>2, ShownOnce
  <2>7. ASSUME l2.whole PROVE ListOK(e, l2, disk, os) /\ (n = 0 => Complete(l2.seen, disk))
    <3>1. ListOK(x, l, disk, os)
      BY <1>2, <1>3, <2>6, <2>7 DEF EntryOK, Valid
    <3>2. ~AtStart(x, l)
      BY <1>2, Disjoint DEF AtStart
    <3>3. Listed(x, l, disk)
      BY <3>1, <3>2 DEF ListOK
    <3>4. from =< OsSize
      BY <1>4, <1>5, <3>3 DEF Listed
    <3>5. from + n =< OsSize
      BY <1>5, <1>7, <2>1, <3>4
    <3>6. x.off - DirBase + n =< OsSize /\ e.off = x.off + n
      BY <1>4, <2>2, <2>5, <3>5
    <3>7. Listed(e, Shown(l, {OsEntries[j] : j \in x.off - DirBase + 1..x.off - DirBase + n}), disk)
      BY <1>3, <1>5, <2>1, <3>3, <3>6, MoreListed
    <3>8. Listed(e, l2, disk)
      BY <1>4, <2>2, <3>7
    <3>9. ListOK(e, l2, disk, os)
      BY <2>5, <3>1, <3>8 DEF ListOK
    <3>10. n = 0 => Complete(l2.seen, disk)
      <4> SUFFICES ASSUME n = 0 PROVE Complete(l2.seen, disk)
        OBVIOUS
      <4>1. from = OsSize
        BY <1>5, <1>7, <2>1, <3>4
      <4>2. e.off - DirBase = OsSize
        BY <1>4, <1>5, <2>2, <2>5, <4>1
      <4>3. \A j \in 1..OsSize : l2.seen[OsEntries[j]] = 1
        BY <1>5, <3>8, <4>2 DEF Listed
      <4>4. \A x2 \in OsEntry : l2.seen[x2] = 1
        BY <4>3, Orders
      <4> QED BY <3>8, <4>4 DEF Complete, Listed
    <3> QED BY <3>9, <3>10
  <2>8. EntryOK(e, l2, disk, os)
    BY <1>3, <2>3, <2>5, <2>6, <2>7 DEF EntryOK
  <2>9. PICK o2 : o2 = os'
    OBVIOUS
  <2>10. EntryOK(e, l2, disk, o2)
    BY <2>4, <2>8, <2>9, EntryKept
  <2>11. DOMAIN view' = ViewFields /\ view'.list = [view.list EXCEPT ![fd] = l2]
    <3>1. DOMAIN Moved(fd, n) = ViewFields /\ Moved(fd, n).list = view.list
      BY <1>1, ViewedOne
    <3> QED BY <1>2, <1>10, <2>2, <3>1 DEF ViewFields
  <2>12. fds' = [fds EXCEPT ![fd] = e]
    BY <1>2, <1>5, <1>10, <2>2, <2>3
  <2>13. Keeps(disk, os, disk', os') /\ DiskOK(disk') /\ EntryOK(e, l2, disk', os')
    BY <1>1, <2>4, <2>9, <2>10
  <2>14. Agree'
    BY <2>4, <2>11, <2>12, <2>13, ChangesOne
  <2>15. view'.list[fd] = l2
    BY <1>1, <2>11 DEF TableOK
  <2>16. res'.op = "getdents" /\ res'.fd = fd /\ res'.ret = n
    BY <1>10 DEF Result
  <2> QED BY <2>7, <2>14, <2>15, <2>16
<1> QED BY <1>8, <1>9, <1>10 DEF Quiet

\* A listing that the last call ended is complete.
Answered(r, v, d) ==
  r.op = "getdents" /\ r.ret = 0 /\ v.list[r.fd].whole => Complete(v.list[r.fd].seen, d)

\* A call that only succeeds or fails answers nothing the program could expect.
Mute == res'.op \in {None, "report", "select"}
Unlisted == Mute \/ res'.op \in {"read", "FIONREAD"}

\* Success, an error and the answer of select.
LEMMA MuteResults ==
  /\ Succeed => Mute
  /\ \A err : Report(err) => Mute
  /\ \A fd, ret, data, want : Result("select", fd, ret, data, want) => Mute
BY DEF Succeed, Quiet, Report, Result, Mute

\* They leave nothing to expect.
LEMMA MuteAnswers ==
  /\ Mute => Unlisted
  /\ Unlisted => Answered(res', view', disk')
BY DEF Mute, Unlisted, Answered, None

\* getdents of any descriptor.
LEMMA GetdentsKeeps ==
  ASSUME Agree, __fd_getdents
  PROVE  Agree' /\ Answered(res', view', disk')
<1>1. PICK fd \in FD :
        \/ Mute /\ UNCHANGED <<fds, os, view>>
        \/ /\ Valid(fd) /\ ~Symbolic(fd) /\ os[fds[fd].os].kind = "dir"
           /\ IF fds[fd].off < DirBase THEN ListSymbolic(fd) ELSE ListConcrete(fd)
  BY DEF __fd_getdents, Report, Result, Mute
<1>2. disk' = disk
  BY DEF __fd_getdents
<1>3. CASE Mute /\ UNCHANGED <<fds, os, view>>
  BY <1>2, <1>3, MuteAnswers DEF Agree
<1>4. CASE /\ Valid(fd) /\ ~Symbolic(fd) /\ os[fds[fd].os].kind = "dir"
           /\ fds[fd].off < DirBase /\ ListSymbolic(fd)
  <2>1. Mute
    BY <1>4 DEF ListSymbolic, Succeed, Quiet, Report, Result, Mute
  <2> QED BY <1>2, <1>4, <2>1, MuteAnswers, ListSymbolicKeeps
<1>5. CASE /\ Valid(fd) /\ ~Symbolic(fd) /\ os[fds[fd].os].kind = "dir"
           /\ ~(fds[fd].off < DirBase) /\ ListConcrete(fd)
  <2>1. /\ Agree'
        /\ \/ res'.op = None
           \/ /\ res'.op = "getdents" /\ res'.fd = fd
              /\ res'.ret = 0 /\ view'.list[fd].whole => Complete(view'.list[fd].seen, disk')
    BY <1>2, <1>5, ListConcreteKeeps
  <2> QED BY <2>1 DEF Answered, None
<1> QED BY <1>1, <1>3, <1>4, <1>5

\* unlink takes a name away, chmod changes a mode; both leave the contents.
LEMMA DiskKeeps ==
  ASSUME Agree, UNCHANGED <<fds, os, view>>, NEW df \in Disk,
         \/ disk' = [disk EXCEPT ![df].linked = FALSE]
         \/ \E mode : disk' = [disk EXCEPT ![df].mode = mode]
  PROVE  Agree'
<1>1. TableOK(fds, view, disk, os) /\ DiskOK(disk) /\ OsOK(os) /\ DOMAIN view = ViewFields
  BY DEF Agree, FilesInv, TableOK
<1>2. PICK d2 : d2 = disk'
  OBVIOUS
<1>3. DiskOK(d2)
  BY <1>1, <1>2 DEF DiskOK, DiskFields
<1>4. Keeps(disk, os, d2, os)
  <2>1. \A x \in Disk : d2[x].linked => disk[x].linked
    BY <1>1, <1>2 DEF DiskOK, DiskFields
  <2> QED BY <2>1, LinksKept
<1>5. TableOK(fds, view, d2, os)
  BY <1>1, <1>4, TableKept
<1> QED BY <1>1, <1>2, <1>3, <1>5 DEF Agree, FilesInv

\* rmdir, unlink and unlinkat take a name away.
LEMMA UnlinkKeeps ==
  ASSUME Agree, Unlink
  PROVE  Agree' /\ Mute
<1>1. PICK op, pathname : Unlinked(op, pathname)
  BY DEF Unlink
<1>2. PICK df : df = __get_sym_file(pathname)
  OBVIOUS
<1>3. df = None \/ df \in Disk
  BY <1>2 DEF __get_sym_file, Found, Disk
<1>4. UNCHANGED disk \/ (df # None /\ disk' = [disk EXCEPT ![df].linked = FALSE])
  BY <1>1, <1>2 DEF Unlinked
<1>5. UNCHANGED <<fds, os, view>>
  BY DEF Unlink
<1>6. Mute
  BY <1>1 DEF Unlinked, Succeed, Quiet, Report, Result, Mute
<1>7. CASE UNCHANGED disk
  BY <1>5, <1>6, <1>7 DEF Agree
<1>8. CASE df \in Disk /\ disk' = [disk EXCEPT ![df].linked = FALSE]
  BY <1>5, <1>6, <1>8, DiskKeeps
<1> QED BY <1>3, <1>4, <1>7, <1>8

\* chmod and fchmod change a mode, or read a failure index that is null.
LEMMA ChangeModeKeeps ==
  ASSUME Agree, ChangeMode
  PROVE  Agree' /\ (Mute \/ UNCHANGED <<res, view, disk>>)
<1>1. UNCHANGED <<fds, os, view>>
  BY DEF ChangeMode
<1>2. \/ \E op, df, mode : (df = None \/ df \in Disk) /\ Chmod(op, df, mode)
      \/ Report("EBADF") /\ UNCHANGED disk
  <2>1. CASE chmod
    <3>1. PICK pathname, mode : Chmod("chmod", __get_sym_file(pathname), mode)
      BY <2>1 DEF chmod
    <3>2. PICK df : df = __get_sym_file(pathname)
      OBVIOUS
    <3>3. df = None \/ df \in Disk
      BY <3>2 DEF __get_sym_file, Found, Disk
    <3> QED BY <3>1, <3>2, <3>3
  <2>2. CASE fchmod
    <3>1. PICK fd \in FD, mode \in AnyMode :
            \/ Chmod("fchmod", fds[fd].dfile, mode)
            \/ Report("EBADF") /\ UNCHANGED disk
      BY <2>2 DEF fchmod
    <3>2. PICK df : df = fds[fd].dfile
      OBVIOUS
    <3>3. df = None \/ df \in Disk
      <4>1. fds[fd] \in FdEntry
        BY EntryOf DEF Agree, FilesInv
      <4> QED BY <3>2, <4>1 DEF FdEntry
    <3> QED BY <3>1, <3>2, <3>3
  <2> QED BY <2>1, <2>2 DEF ChangeMode
<1>3. CASE Report("EBADF") /\ UNCHANGED disk
  BY <1>1, <1>3 DEF Agree, Report, Result, Mute
<1>4. ASSUME NEW op, NEW df, NEW mode, df = None \/ df \in Disk, Chmod(op, df, mode)
      PROVE  Agree' /\ (Mute \/ UNCHANGED <<res, view, disk>>)
  <2>1. \/ UNCHANGED disk
        \/ df # None /\ disk' = [disk EXCEPT ![df].mode = mode]
    BY <1>4 DEF Chmod, __df_chmod
  <2>2. Mute \/ UNCHANGED <<res, view, disk>>
    BY <1>1, <1>4 DEF Chmod, __df_chmod, Succeed, Quiet, Report, Result, Mute
  <2>3. CASE UNCHANGED disk
    BY <1>1, <2>2, <2>3 DEF Agree
  <2>4. CASE df \in Disk /\ disk' = [disk EXCEPT ![df].mode = mode]
    BY <1>1, <2>2, <2>4, DiskKeeps
  <2> QED BY <1>4, <2>1, <2>3, <2>4
<1> QED BY <1>2, <1>3, <1>4

\* F_SETFD changes the flags of an entry.
LEMMA FcntlKeeps ==
  ASSUME Agree, fcntl
  PROVE  Agree' /\ Mute
<1>1. disk' = disk /\ os' = os /\ view' = view
  BY DEF fcntl
<1>2. PICK fd \in FD : \/ UNCHANGED fds
                       \/ \E S \in SUBSET {"cloexec"} :
                            fds' = [fds EXCEPT ![fd].flags = (@ \ {"cloexec"}) \cup S]
  BY DEF fcntl
<1>3. Mute
  BY DEF fcntl, Succeed, Quiet, Report, Result, Mute
<1>4. CASE UNCHANGED fds
  BY <1>1, <1>3, <1>4 DEF Agree
<1>5. ASSUME NEW S \in SUBSET {"cloexec"},
             fds' = [fds EXCEPT ![fd].flags = (@ \ {"cloexec"}) \cup S]
      PROVE  Agree'
  <2>1. TableOK(fds, view, disk, os) /\ DiskOK(disk) /\ OsOK(os)
    BY DEF Agree, FilesInv
  <2>2. PICK x, l : x = fds[fd] /\ l = view.list[fd]
    OBVIOUS
  <2>3. x \in FdEntry /\ EntryOK(x, l, disk, os)
    BY <2>1, <2>2, EntryOf
  <2>4. PICK e : e = [x EXCEPT !.flags = (@ \ {"cloexec"}) \cup S]
    OBVIOUS
  <2>5. /\ e \in FdEntry /\ e.os = x.os /\ e.off = x.off /\ e.dfile = x.dfile
        /\ "open" \in e.flags => "open" \in x.flags
    BY <2>3, <2>4 DEF FdEntry
  <2>6. EntryOK(e, l, disk, os)
    BY <2>3, <2>5, FlagsEntry
  <2>7. EntryOK(e, view.list[fd], disk, os) /\ Keeps(disk, os, disk, os)
    BY <2>2, <2>6, KeepsSame
  <2>8. TableOK([fds EXCEPT ![fd] = e], view, disk, os)
    BY <2>1, <2>7, OnlyEntry
  <2>9. fds' = [fds EXCEPT ![fd] = e]
    BY <1>5, <2>2, <2>4
  <2> QED BY <1>1, <2>1, <2>8, <2>9 DEF Agree, FilesInv
<1> QED BY <1>2, <1>3, <1>4, <1>5

\* Every call keeps the agreement, and answers according to it.
LEMMA NextAgrees ==
  ASSUME Agree, Answered(res, view, disk), Next
  PROVE  Agree' /\ Answered(res', view', disk')
<1>1. CASE open \/ openat
  <2>1. \/ UNCHANGED <<fds, disk, os, view>>
        \/ \E pathname, acc, creat, excl, mode : OpenAny(pathname, acc, creat, excl, mode)
    BY <1>1 DEF open, openat
  <2>2. Agree'
    BY <2>1, OpenKeeps DEF Agree
  <2>3. Mute
    <3>1. \E pathname, acc, creat, excl, mode :
            Mute \/ OpenSlot(pathname, acc, creat, excl, mode)
      BY <1>1, MuteResults DEF open, openat, OpenAny
    <3>2. \A fd, df, acc, creat, excl, mode :
            OpenSymbolic(fd, df, acc, creat, excl, mode) => Mute
      BY MuteResults DEF OpenSymbolic
    <3>3. \A fd, pathname : OpenConcrete(fd, pathname) => Mute
      BY MuteResults DEF OpenConcrete
    <3> QED BY <3>1, <3>2, <3>3, MuteResults DEF OpenSlot
  <2> QED BY <2>2, <2>3, MuteAnswers
<1>2. CASE Close
  <2>1. Mute
    BY <1>2 DEF Close, Succeed, Quiet, Report, Result, Mute
  <2> QED BY <1>2, <2>1, CloseKeeps, MuteAnswers
<1>3. CASE dup2 \/ dup
  <2>1. Mute
    <3>1. \A oldfd, newfd, c : CopyEntry(oldfd, newfd, c) => Mute
      BY MuteResults DEF CopyEntry
    <3>2. \A oldfd, newfd : Dup2(oldfd, newfd) => Mute
      BY <3>1, MuteResults DEF Dup2
    <3> QED BY <1>3, <3>2, MuteResults DEF dup2, dup
  <2> QED BY <1>3, <2>1, DupKeeps, MuteAnswers
<1>4. CASE read
  <2>1. Unlisted
    BY <1>4 DEF read, ReadSymbolic, ReadConcrete, Succeed, Quiet, Report, Result, Mute, Unlisted
  <2> QED BY <1>4, <2>1, ReadKeeps, MuteAnswers
<1>5. CASE write
  <2>1. Mute \/ UNCHANGED <<res, view, disk>>
    BY <1>5 DEF write, WriteSymbolic, WriteConcrete, Succeed, Quiet, Report, Result, Mute
  <2> QED BY <1>5, <2>1, WriteKeeps, MuteAnswers
<1>6. CASE __fd_lseek
  <2>1. Mute
    BY <1>6 DEF __fd_lseek, LseekSymbolic, LseekConcrete, Seek, Succeed, Quiet, Report, Result, Mute
  <2> QED BY <1>6, <2>1, LseekKeeps, MuteAnswers
<1>7. CASE __fd_getdents
  BY <1>7, GetdentsKeeps
<1>8. CASE Unlink
  BY <1>8, UnlinkKeeps, MuteAnswers
<1>9. CASE ChangeMode
  BY <1>9, ChangeModeKeeps, MuteAnswers
<1>10. CASE fcntl
  BY <1>10, FcntlKeeps, MuteAnswers
<1>11. CASE umask \/ Truncate
  <2>1. UNCHANGED <<fds, disk, os, view>>
    BY <1>11 DEF umask, Truncate
  <2>2. Mute
    BY <1>11 DEF umask, Truncate, getcwd, __fd_ftruncate, CountedCall,
                 Succeed, Quiet, Report, Result, Mute
  <2> QED BY <2>1, <2>2, MuteAnswers DEF Agree
<1>12. CASE PathQuery \/ BaseQuery \/ FdQuery \/ select
  <2>1. UNCHANGED <<fds, disk, os, view>>
    BY <1>12 DEF PathQuery, BaseQuery, FdQuery, select
  <2>2. Mute
    <3>1. PathQuery \/ BaseQuery => Mute
      BY MuteResults DEF PathQuery, BaseQuery
    <3>2. FdQuery => Mute
      BY MuteResults DEF FdQuery
    <3>3. select => Mute
      BY MuteResults, Zenon DEF select
    <3> QED BY <1>12, <3>1, <3>2, <3>3
  <2> QED BY <2>1, <2>2, MuteAnswers DEF Agree
<1>13. CASE ioctl
  <2>1. UNCHANGED <<fds, disk, os, view>>
    BY <1>13 DEF ioctl
  <2>2. \A fd, ret, data, want : Result("FIONREAD", fd, ret, data, want) => Unlisted
    BY DEF Result, Unlisted
  <2>3. Unlisted
    BY <1>13, <2>2, MuteResults, MuteAnswers, Zenon DEF ioctl
  <2> QED BY <2>1, <2>3, MuteAnswers DEF Agree
<1> QED BY <1>1, <1>2, <1>3, <1>4, <1>5, <1>6, <1>7, <1>8, <1>9, <1>10, <1>11, <1>12, <1>13 DEF Next

\* A program starts with the standard descriptors and files that are zero.
LEMMA InitAgrees ==
  ASSUME Init
  PROVE  Agree /\ Answered(res, view, disk)
<1>1. FD \subseteq Nat /\ 0 \in Nat /\ 1 \in Nat /\ 2 \in Nat
  BY PosixAssumption DEF FD
<1>2. os = [i \in 0..2 |-> [kind |-> "tty", pos |-> 0]]
  BY DEF Init
<1>3. OsOK(os) /\ 0 \in DOMAIN os /\ 1 \in DOMAIN os /\ 2 \in DOMAIN os
  <2>1. [kind |-> "tty", pos |-> 0] \in OsFile
    BY DEF OsFile
  <2>2. os \in [0..2 -> OsFile] /\ DOMAIN os = 0..2
    BY <1>2, <2>1
  <2> QED BY <2>2 DEF OsOK
<1>4. DOMAIN view = ViewFields /\ view.list = [fd \in FD |-> NoList]
  BY DEF Init, ViewFields
<1>5. ASSUME NEW fd \in FD
      PROVE  fds[fd] \in FdEntry /\ fds[fd].os \in DOMAIN os /\ fds[fd].off = 0
  <2>1. fds[fd] = CASE fd = 0 -> [os |-> 0, flags |-> {"open"}, off |-> 0,
                                 dfile |-> IF SymStdin THEN "stdin" ELSE None]
                   [] fd = 1 -> [os |-> 1, flags |-> {"open"}, off |-> 0,
                                 dfile |-> IF SymStdout THEN "stdout" ELSE None]
                   [] fd = 2 -> [os |-> 2, flags |-> {"open"}, off |-> 0, dfile |-> None]
                   [] OTHER -> Zero
    BY DEF Init
  <2>2. /\ [os |-> 0, flags |-> {"open"}, off |-> 0,
            dfile |-> IF SymStdin THEN "stdin" ELSE None] \in FdEntry
        /\ [os |-> 1, flags |-> {"open"}, off |-> 0,
            dfile |-> IF SymStdout THEN "stdout" ELSE None] \in FdEntry
        /\ [os |-> 2, flags |-> {"open"}, off |-> 0, dfile |-> None] \in FdEntry
        /\ Zero \in FdEntry /\ Zero.os = 0 /\ Zero.off = 0
    BY DEF FdEntry, Zero, Disk
  <2> QED BY <1>3, <2>1, <2>2
<1>6. fds \in [FD -> FdEntry]
  <2>1. fds = [fd \in FD |-> fds[fd]]
    BY DEF Init
  <2> QED BY <1>5, <2>1
<1>7. view.list \in [FD -> Listing]
  BY <1>4, Empty
<1>8. ASSUME NEW fd \in FD
      PROVE  EntryOK(fds[fd], view.list[fd], disk, os)
  <2>1. view.list[fd] = NoList
    BY <1>4
  <2> QED BY <1>5, <2>1, Empty DEF EntryOK
<1>9. TableOK(fds, view, disk, os)
  BY <1>4, <1>6, <1>7, <1>8 DEF TableOK
<1>10. DiskOK(disk)
  <2>1. disk \in [Disk -> [linked : {TRUE}, kind : Kinds \cup {"chr"}, mode : Modes, mine : Owned,
                           contents : {[i \in 1..Size |-> 0]}]]
    BY DEF Init
  <2> QED BY <2>1 DEF DiskOK, DiskFields
<1>11. Answered(res, view, disk)
  BY DEF Init, Quiet, Answered, None
<1> QED BY <1>3, <1>9, <1>10, <1>11 DEF Agree, FilesInv

\* A directory listed from its beginning to its end has shown every entry of the
\* operating system and every symbolic file that is still linked exactly once,
\* whatever other descriptors, copies and files the program uses in between.
THEOREM ListingCompleteAlways == Spec => []ListingComplete
<1> DEFINE Inv == Agree /\ Answered(res, view, disk)
<1>1. Init => Inv
  BY InitAgrees
<1>2. Inv /\ [Next]_vars => Inv'
  <2>1. Inv /\ Next => Inv'
    BY NextAgrees
  <2>2. Inv /\ UNCHANGED vars => Inv'
    BY DEF vars, Agree
  <2> QED BY <2>1, <2>2
<1>3. Inv => ListingComplete
  BY DEF Answered, Complete, ListingComplete
<1> QED BY <1>1, <1>2, <1>3, PTL DEF Spec

(***************************************************************************)
(* What the program knows of offsets and bytes                             *)
(***************************************************************************)

\* The program knows the offset of every open descriptor that is not stale and
\* the bytes of every file that is not lost.
KnowsOffsets ==
  DOMAIN view.pos = FD /\ \A g \in FD \ view.stale : Valid(g) => fds[g].off = view.pos[g]
KnowsBytes ==
  /\ DOMAIN view.want = Disk
  /\ \A df \in Disk : disk[df].contents = [i \in 1..Size |-> disk[df].contents[i]]
  /\ \A df \in Disk \ view.lost : disk[df].contents = view.want[df]
Knows == KnowsOffsets /\ KnowsBytes

\* What a read and FIONREAD answered is what the program could expect.
Told ==
  /\ res.op = "read" /\ Known(res.fd) => res.data = res.want
  /\ res.op = "FIONREAD" /\ res.fd \notin view.stale => res.ret = Max({0, Size - view.pos[res.fd]})

\* A call that keeps what the program knows of the other descriptors.
Others(fd) ==
  \A g \in FD \ {fd} : g \notin view'.stale => g \notin view.stale /\ view'.pos[g] = view.pos[g]

\* An offset that moves leaves copies behind, of which nothing is known then.
LEMMA PlacedKnown ==
  ASSUME DOMAIN view = ViewFields, Knows, NEW fd \in FD, NEW new, NEW w, w = Placed(fd, new)
  PROVE  /\ DOMAIN w = ViewFields /\ DOMAIN w.pos = FD /\ w.pos[fd] = new
         /\ w.want = view.want /\ w.lost = view.lost /\ (fd \in w.stale <=> fd \in view.stale)
         /\ \A g \in FD \ {fd} : g \notin w.stale => g \notin view.stale /\ w.pos[g] = view.pos[g]
<1>1. CASE new = view.pos[fd]
  BY <1>1 DEF Placed, Knows, KnowsOffsets
<1>2. CASE new # view.pos[fd]
  <2> DEFINE C == Copies(fd)
  <2>1. fd \notin C
    BY DEF Copies
  <2>2. w = [view EXCEPT !.pos = [g \in FD |-> IF g \in C \cup {fd} THEN new ELSE view.pos[g]],
                         !.stale = view.stale \cup C]
    BY <1>2 DEF Placed
  <2> HIDE DEF C
  <2> QED BY <2>1, <2>2 DEF ViewFields
<1> QED BY <1>1, <1>2

\* A call that changes one entry.
LEMMA OneOffset ==
  ASSUME Agree, KnowsOffsets, NEW fd \in FD, NEW e, fds' = [fds EXCEPT ![fd] = e],
         fd \notin view'.stale /\ "open" \in e.flags => e.off = view'.pos[fd],
         DOMAIN view'.pos = FD, Others(fd)
  PROVE  KnowsOffsets'
<1>1. fds'[fd] = e /\ \A g \in FD \ {fd} : fds'[g] = fds[g]
  BY DEF Agree, FilesInv, TableOK
<1>2. ASSUME NEW g \in FD \ view'.stale, Valid(g)' PROVE fds'[g].off = view'.pos[g]
  BY <1>1, <1>2 DEF Others, KnowsOffsets, Valid
<1> QED BY <1>2 DEF KnowsOffsets

\* A call that changes one entry and no bytes.
LEMMA OneKnown ==
  ASSUME Agree, Knows, NEW fd \in FD, NEW e, fds' = [fds EXCEPT ![fd] = e],
         fd \notin view'.stale /\ "open" \in e.flags => e.off = view'.pos[fd],
         DOMAIN view'.pos = FD, Others(fd), view'.want = view.want, view'.lost = view.lost,
         \A df \in Disk : disk'[df].contents = disk[df].contents
  PROVE  Knows'
<1>1. KnowsOffsets'
  BY OneOffset DEF Knows
<1>2. KnowsBytes'
  BY DEF Knows, KnowsBytes
<1> QED BY <1>1, <1>2 DEF Knows

\* A descriptor that was just opened, or closed.
LEMMA OpenedKnown ==
  ASSUME DOMAIN view = ViewFields, Knows, NEW fd \in FD,
         Closed(fd) \/ \E list : Opened(fd, list)
  PROVE  /\ DOMAIN view'.pos = FD /\ view'.pos[fd] = 0 /\ Others(fd)
         /\ view'.want = view.want /\ view'.lost = view.lost
<1>1. PICK list, file : view' = [view EXCEPT !.pos[fd] = 0, !.list[fd] = list, !.file[fd] = file,
                                             !.stale = @ \ {fd}]
  BY DEF Opened, Closed
<1> QED BY <1>1 DEF ViewFields, Knows, KnowsOffsets, Others

\* open of a symbolic file.
LEMMA OpenSymbolicKnown ==
  ASSUME Agree, Knows, NEW fd \in FD, NEW df \in Disk, NEW acc, NEW creat, NEW excl, NEW mode,
         OpenSymbolic(fd, df, acc, creat, excl, mode)
  PROVE  Knows'
<1>1. DOMAIN view = ViewFields /\ DiskOK(disk)
  BY DEF Agree, FilesInv, TableOK
<1>2. CASE fds' = [fds EXCEPT ![fd] = [Zero EXCEPT !.dfile = df]] /\ UNCHANGED <<disk, os, view>>
  <2>1. PICK e : e = [Zero EXCEPT !.dfile = df]
    OBVIOUS
  <2>2. e.flags = {}
    BY <2>1 DEF Zero
  <2>3. DOMAIN view'.pos = FD /\ Others(fd)
    BY <1>2 DEF Knows, KnowsOffsets, Others
  <2> QED BY <1>2, <2>1, <2>2, <2>3, OneKnown
<1>3. CASE /\ fds' = [fds EXCEPT ![fd] = [Zero EXCEPT !.dfile = df, !.flags = {"open"}]]
           /\ disk' = [disk EXCEPT ![df].mode = IF creat THEN mode \ fs.umask ELSE {}]
           /\ Opened(fd, NoList) /\ UNCHANGED os
  <2>1. PICK e, m : /\ e = [Zero EXCEPT !.dfile = df, !.flags = {"open"}]
                    /\ disk' = [disk EXCEPT ![df].mode = m]
    BY <1>3
  <2>2. e.off = 0
    BY <2>1 DEF Zero
  <2>3. \A x \in Disk : disk'[x].contents = disk[x].contents
    BY <1>1, <2>1 DEF DiskOK, DiskFields
  <2>4. /\ DOMAIN view'.pos = FD /\ view'.pos[fd] = 0 /\ Others(fd)
        /\ view'.want = view.want /\ view'.lost = view.lost
    BY <1>1, <1>3, OpenedKnown
  <2> QED BY <1>3, <2>1, <2>2, <2>3, <2>4, OneKnown
<1> QED BY <1>2, <1>3 DEF OpenSymbolic

\* open of a concrete file.
LEMMA OpenConcreteKnown ==
  ASSUME Agree, Knows, NEW fd \in FD, NEW pathname, OpenConcrete(fd, pathname)
  PROVE  Knows'
<1>1. DOMAIN view = ViewFields /\ disk' = disk
  BY DEF Agree, FilesInv, TableOK, OpenConcrete
<1>2. CASE fds' = [fds EXCEPT ![fd] = Zero] /\ UNCHANGED view
  <2>1. Zero.flags = {} /\ DOMAIN view'.pos = FD /\ Others(fd)
    BY <1>2 DEF Zero, Knows, KnowsOffsets, Others
  <2> QED BY <1>1, <1>2, <2>1, OneKnown
<1>3. ASSUME NEW os_fd, NEW list, Opened(fd, list),
             fds' = [fds EXCEPT ![fd] = [Zero EXCEPT !.os = os_fd, !.flags = {"open"}]]
      PROVE  Knows'
  <2>1. PICK e : e = [Zero EXCEPT !.os = os_fd, !.flags = {"open"}]
    OBVIOUS
  <2>2. e.off = 0
    BY <2>1 DEF Zero
  <2>3. /\ DOMAIN view'.pos = FD /\ view'.pos[fd] = 0 /\ Others(fd)
        /\ view'.want = view.want /\ view'.lost = view.lost
    BY <1>1, <1>3, OpenedKnown
  <2> QED BY <1>1, <1>3, <2>1, <2>2, <2>3, OneKnown
<1>4. \/ fds' = [fds EXCEPT ![fd] = Zero] /\ UNCHANGED view
      \/ \E os_fd, list : /\ fds' = [fds EXCEPT ![fd] = [Zero EXCEPT !.os = os_fd, !.flags = {"open"}]]
                          /\ Opened(fd, list)
  BY Zenon DEF OpenConcrete
<1> QED BY <1>2, <1>3, <1>4

\* A call that changes neither a descriptor nor a file of the program.
LEMMA SameKnown ==
  ASSUME Knows, UNCHANGED <<fds, view>>, \A df \in Disk : disk'[df].contents = disk[df].contents
  PROVE  Knows'
BY DEF Knows, KnowsOffsets, KnowsBytes, Valid

\* open and openat use the first free slot.
LEMMA OpenKnown ==
  ASSUME Agree, Knows, NEW pathname, NEW acc, NEW creat, NEW excl, NEW mode,
         OpenAny(pathname, acc, creat, excl, mode)
  PROVE  Knows'
<1>1. CASE UNCHANGED <<fds, disk, os, view>>
  BY <1>1, SameKnown
<1>2. CASE Free # {} /\ OpenSlot(pathname, acc, creat, excl, mode)
  <2> DEFINE fd == Min(Free)
             df == __get_sym_file(pathname)
  <2>1. Free \subseteq FD /\ FD \subseteq Nat
    BY PosixAssumption DEF Free, FD
  <2>2. fd \in FD
    BY <1>2, <2>1, MinOf
  <2>3. df # None => df \in Disk
    BY DEF __get_sym_file, Found, Disk
  <2>4. IF df # None THEN OpenSymbolic(fd, df, acc, creat, excl, mode) ELSE OpenConcrete(fd, pathname)
    BY <1>2 DEF OpenSlot
  <2> HIDE DEF fd, df
  <2> QED BY <2>2, <2>3, <2>4, OpenSymbolicKnown, OpenConcreteKnown
<1> QED BY <1>1, <1>2 DEF OpenAny, OpenSlot

\* close empties a slot or leaves the table as it is.
LEMMA CloseKnown ==
  ASSUME Agree, Knows, Close
  PROVE  Knows'
<1>1. PICK fd \in FD : \E c \in close(fd, fds, fs) :
        fds' = c.t /\ IF c.ret = 0 THEN Closed(fd) ELSE UNCHANGED view
  BY DEF Close
<1>2. disk' = disk
  BY DEF Close
<1>3. PICK c \in close(fd, fds, fs) : fds' = c.t /\ IF c.ret = 0 THEN Closed(fd) ELSE UNCHANGED view
  BY <1>1
<1>4. CASE fds' = fds /\ view' = view
  BY <1>2, <1>4, SameKnown
<1>5. CASE fds' = [fds EXCEPT ![fd] = Zero] /\ Closed(fd)
  <2>1. /\ DOMAIN view'.pos = FD /\ Others(fd) /\ view'.want = view.want /\ view'.lost = view.lost
    BY <1>5, OpenedKnown DEF Agree, FilesInv, TableOK
  <2>2. Zero.flags = {}
    BY DEF Zero
  <2> QED BY <1>2, <1>5, <2>1, <2>2, OneKnown
<1>6. (c.t = fds /\ c.ret = -1) \/ (c.t = [fds EXCEPT ![fd] = Zero] /\ c.ret = 0)
  BY <1>3 DEF close
<1>7. -1 # 0
  OBVIOUS
<1> QED BY <1>3, <1>4, <1>5, <1>6, <1>7

\* dup2: a copy is known where the original is, and stale where it is.
LEMMA Dup2Known ==
  ASSUME Agree, Knows, NEW oldfd \in FD, NEW newfd \in FD, Dup2(oldfd, newfd)
  PROVE  Knows'
<1>1. fds \in [FD -> FdEntry] /\ DOMAIN view = ViewFields
  BY DEF Agree, FilesInv, TableOK
<1>2. disk' = disk
  BY DEF Dup2
<1>3. CASE fds' = fds /\ view' = view
  BY <1>2, <1>3, SameKnown
<1>4. CASE \E c : (c.t = fds \/ c.t = [fds EXCEPT ![newfd] = Zero]) /\ CopyEntry(oldfd, newfd, c)
  <2>1. PICK c : (c.t = fds \/ c.t = [fds EXCEPT ![newfd] = Zero]) /\ CopyEntry(oldfd, newfd, c)
    BY <1>4
  <2>2. PICK x, e : x = c.t[oldfd] /\ e = [x EXCEPT !.flags = @ \ {"cloexec"}]
    OBVIOUS
  <2>3. (x = fds[oldfd] /\ x \in FdEntry) \/ (x = Zero /\ x \in FdEntry)
    <3>1. Zero \in FdEntry
      BY DEF Zero, FdEntry
    <3> QED BY <1>1, <2>1, <2>2, <3>1
  <2>4. e.off = x.off /\ ("open" \in e.flags <=> "open" \in x.flags)
    BY <2>2, <2>3 DEF FdEntry
  <2>5. fds' = [fds EXCEPT ![newfd] = e]
    <3>1. fds' = [c.t EXCEPT ![newfd] = e]
      BY <2>1, <2>2 DEF CopyEntry
    <3> QED BY <1>1, <2>1, <3>1
  <2>6. CASE "open" \notin x.flags
    <3>1. Closed(newfd)
      BY <2>1, <2>2, <2>6 DEF CopyEntry
    <3>2. DOMAIN view'.pos = FD /\ Others(newfd) /\ view'.want = view.want /\ view'.lost = view.lost
      BY <1>1, <3>1, OpenedKnown
    <3> QED BY <1>2, <2>4, <2>5, <2>6, <3>2, OneKnown
  <2>7. CASE "open" \in x.flags
    <3>1. view' = [view EXCEPT !.pos[newfd] = view.pos[oldfd], !.list[newfd] = view.list[oldfd],
                     !.file[newfd] = view.file[oldfd],
                     !.stale = IF oldfd \in @ THEN @ \cup {newfd} ELSE @ \ {newfd}]
      BY <2>1, <2>2, <2>7 DEF CopyEntry
    <3>2. /\ DOMAIN view'.pos = FD /\ view'.pos[newfd] = view.pos[oldfd] /\ Others(newfd)
          /\ view'.want = view.want /\ view'.lost = view.lost
          /\ newfd \in view'.stale <=> oldfd \in view.stale
      BY <1>1, <3>1 DEF ViewFields, Knows, KnowsOffsets, Others
    <3>3. x = fds[oldfd]
      BY <2>3, <2>7 DEF Zero
    <3>4. newfd \notin view'.stale => e.off = view'.pos[newfd]
      BY <2>4, <2>7, <3>2, <3>3 DEF Knows, KnowsOffsets, Valid
    <3> QED BY <1>2, <2>5, <3>2, <3>4, OneKnown
  <2> QED BY <2>6, <2>7
<1>5. CASE Valid(oldfd)
  <2>1. PICK c \in (IF Valid(newfd) THEN close(newfd, fds, fs)
                    ELSE {[t |-> fds, s |-> Tick(fs), ret |-> 0, err |-> None]}) :
          CopyEntry(oldfd, newfd, c)
    BY <1>5 DEF Dup2
  <2>2. c.t = fds \/ c.t = [fds EXCEPT ![newfd] = Zero]
    BY <2>1 DEF close
  <2> QED BY <1>4, <2>1, <2>2
<1> QED BY <1>3, <1>5 DEF Dup2

\* dup2 and dup, whatever the slot.
LEMMA DupKnown ==
  ASSUME Agree, Knows, dup2 \/ dup
  PROVE  Knows'
<1>1. CASE dup2
  BY <1>1, Dup2Known DEF dup2
<1>2. CASE dup
  <2>1. PICK oldfd \in FD :
          \/ UNCHANGED <<fds, disk, os, view>>
          \/ Dup2(oldfd, IF Free = {} THEN oldfd ELSE Min(Free))
    BY <1>2 DEF dup
  <2>2. Free \subseteq FD /\ FD \subseteq Nat
    BY PosixAssumption DEF Free, FD
  <2>3. PICK newfd : newfd = IF Free = {} THEN oldfd ELSE Min(Free)
    OBVIOUS
  <2>4. newfd \in FD
    BY <2>2, <2>3, MinOf
  <2> QED BY <2>1, <2>3, <2>4, Dup2Known, SameKnown
<1> QED BY <1>1, <1>2

\* A call that moves one offset, with what the program knows of it.
LEMMA PlacedKeeps ==
  ASSUME Agree, Knows, NEW fd \in FD, NEW off, NEW new, fd \notin view.stale => off = new,
         fds' = [fds EXCEPT ![fd].off = off],
         view'.pos = Placed(fd, new).pos, view'.stale = Placed(fd, new).stale
  PROVE  KnowsOffsets'
<1>1. PICK w, e : w = Placed(fd, new) /\ e = [fds[fd] EXCEPT !.off = off]
  OBVIOUS
<1>2. DOMAIN view = ViewFields /\ fds[fd] \in FdEntry
  BY DEF Agree, FilesInv, TableOK
<1>3. /\ DOMAIN w.pos = FD /\ w.pos[fd] = new /\ (fd \in w.stale <=> fd \in view.stale)
      /\ \A g \in FD \ {fd} : g \notin w.stale => g \notin view.stale /\ w.pos[g] = view.pos[g]
  BY <1>1, <1>2, PlacedKnown
<1>4. e.off = off /\ fds' = [fds EXCEPT ![fd] = e]
  BY <1>1, <1>2 DEF FdEntry
<1>5. DOMAIN view'.pos = FD /\ view'.pos[fd] = new /\ view'.stale = w.stale /\ Others(fd)
  BY <1>1, <1>3 DEF Others
<1> QED BY <1>3, <1>4, <1>5, OneOffset DEF Knows

\* An offset that moves on by n, and nothing is written.
LEMMA MovedKeeps ==
  ASSUME Agree, Knows, NEW fd \in FD, Valid(fd), NEW n, NEW w, w = Moved(fd, n)
  PROVE  /\ fds' = [fds EXCEPT ![fd].off = @ + n] /\ view'.pos = w.pos /\ view'.stale = w.stale
         /\ view'.want = w.want /\ view'.lost = w.lost
         /\ \A df \in Disk : disk'[df].contents = disk[df].contents
         => Knows'
<1>1. PICK off, new : off = fds[fd].off + n /\ new = view.pos[fd] + n
  OBVIOUS
<1>2. w = Placed(fd, new)
  BY <1>1 DEF Moved
<1>3. fd \notin view.stale => off = new
  <2>1. fd \notin view.stale => fds[fd].off = view.pos[fd]
    BY DEF Knows, KnowsOffsets
  <2> QED BY <1>1, <2>1
<1>4. fds' = [fds EXCEPT ![fd].off = off] /\ view'.pos = w.pos /\ view'.stale = w.stale
        => KnowsOffsets'
  BY <1>2, <1>3, PlacedKeeps, ZenonT(120)
<1>5. DOMAIN view = ViewFields
  BY DEF Agree, FilesInv, TableOK
<1>6. w.want = view.want /\ w.lost = view.lost
  BY <1>2, <1>5, PlacedKnown
<1>7. fds' = [fds EXCEPT ![fd].off = @ + n] => fds' = [fds EXCEPT ![fd].off = off]
  BY <1>1
<1> QED BY <1>4, <1>6, <1>7 DEF Knows, KnowsBytes

\* read moves the offset on by what it returns.
LEMMA ReadKnown ==
  ASSUME Agree, Knows, read
  PROVE  Knows'
<1>1. disk' = disk
  BY DEF read
<1>2. \/ UNCHANGED <<fds, view>>
      \/ \E fd \in FD : \E n : Valid(fd) /\ fds' = [fds EXCEPT ![fd].off = @ + n] /\ view' = Moved(fd, n)
  BY Zenon DEF read, ReadSymbolic, ReadConcrete
<1>3. CASE UNCHANGED <<fds, view>>
  BY <1>1, <1>3, SameKnown
<1>4. ASSUME NEW fd \in FD, NEW n, Valid(fd), fds' = [fds EXCEPT ![fd].off = @ + n],
             view' = Moved(fd, n)
      PROVE  Knows'
  BY <1>1, <1>4, MovedKeeps
<1> QED BY <1>2, <1>3, <1>4

\* Bytes past the end of a file are dropped, and writing none changes none.
LEMMA PutWritten ==
  ASSUME NEW c, NEW off \in Nat, NEW count \in Nat
  PROVE  /\ Put(c, off, Written(off, count)) = Put(c, off, count)
         /\ count = 0 => Put(c, off, count) = [i \in 1..Size |-> c[i]]
<1>1. Size \in Nat
  BY PosixAssumption
<1>2. Max({0, Size - off}) = IF off =< Size THEN Size - off ELSE 0
  <2>1. PICK z, m : z = 0 /\ m = Size - off
    OBVIOUS
  <2>2. z \in Int /\ m \in Int
    BY <1>1, <2>1
  <2>3. Max({z, m}) = IF z >= m THEN z ELSE m
    BY <2>2, MaxOfTwo
  <2> QED BY <1>1, <2>1, <2>3
<1>3. \A i \in 1..Size : i \in off + 1..off + Written(off, count) <=> i \in off + 1..off + count
  BY <1>1, <1>2 DEF Written
<1>4. Put(c, off, Written(off, count)) = Put(c, off, count)
  BY <1>3 DEF Put
<1>5. ASSUME count = 0 PROVE Put(c, off, count) = [i \in 1..Size |-> c[i]]
  <2>1. \A i \in 1..Size : i \notin off + 1..off + count
    BY <1>5
  <2> QED BY <2>1 DEF Put
<1> QED BY <1>4, <1>5

\* write to a symbolic file, and to a stale descriptor, whose bytes are lost.
LEMMA WriteSymbolicKnown ==
  ASSUME Agree, Knows, NEW fd \in FD, NEW count \in Nat, NEW s, Valid(fd), Symbolic(fd),
         WriteSymbolic(fd, count, s)
  PROVE  Knows'
<1>1. /\ DOMAIN view = ViewFields /\ DiskOK(disk) /\ fds[fd] \in FdEntry
  BY DEF Agree, FilesInv, TableOK
<1>2. PICK df, off, n, w, want, lost :
        /\ df = fds[fd].dfile /\ off = fds[fd].off /\ n = Written(off, count) /\ w = Moved(fd, count)
        /\ want = IF fd \in view.stale THEN w.want[df] ELSE Put(w.want[df], view.pos[fd], count)
        /\ lost = IF fd \in view.stale /\ count > 0 THEN w.lost \cup {df} ELSE w.lost
  OBVIOUS
<1>3. df \in Disk /\ off \in Nat
  BY <1>1, <1>2 DEF FdEntry, Symbolic
<1>4. CASE UNCHANGED <<fds, disk, os, view>>
  BY <1>4, SameKnown
<1>5. CASE /\ disk' = [disk EXCEPT ![df].contents = Put(@, off, n)]
           /\ fds' = [fds EXCEPT ![fd].off = @ + count]
           /\ view' = [w EXCEPT !.want[df] = want, !.lost = lost]
  <2>1. PICK new, off2 : new = view.pos[fd] + count /\ off2 = off + count
    OBVIOUS
  <2>2. w = Placed(fd, new)
    BY <1>2, <2>1 DEF Moved
  <2>3. DOMAIN w = ViewFields /\ w.want = view.want /\ w.lost = view.lost
    BY <1>1, <2>2, PlacedKnown
  <2>4. /\ view'.pos = w.pos /\ view'.stale = w.stale /\ view'.lost = lost
        /\ view'.want = [view.want EXCEPT ![df] = want]
    BY <1>5, <2>3 DEF ViewFields
  <2>5. fd \notin view.stale => off = view.pos[fd]
    BY <1>2 DEF Knows, KnowsOffsets
  <2>6. KnowsOffsets'
    <3>1. fds' = [fds EXCEPT ![fd].off = off2] /\ (fd \notin view.stale => off2 = new)
      BY <1>2, <1>5, <2>1, <2>5
    <3> QED BY <2>2, <2>4, <3>1, PlacedKeeps
  <2>7. PICK c : c = Put(disk[df].contents, off, n)
    OBVIOUS
  <2>8. \A x \in Disk : disk'[x].contents = IF x = df THEN c ELSE disk[x].contents
    BY <1>1, <1>3, <1>5, <2>7 DEF DiskOK, DiskFields
  <2>9. c = [i \in 1..Size |-> c[i]]
    BY <2>7 DEF Put
  <2>10. /\ DOMAIN view.want = Disk
         /\ \A x \in Disk : disk[x].contents = [i \in 1..Size |-> disk[x].contents[i]]
         /\ \A x \in Disk \ view.lost : disk[x].contents = view.want[x]
    BY DEF Knows, KnowsBytes
  <2>11. df \notin lost => c = want
    <3> SUFFICES ASSUME df \notin lost PROVE c = want
      OBVIOUS
    <3>1. df \notin view.lost /\ disk[df].contents = view.want[df]
      BY <1>2, <1>3, <2>3, <2>10
    <3>2. c = Put(view.want[df], off, count)
      <4>1. Put(view.want[df], off, Written(off, count)) = Put(view.want[df], off, count)
        BY <1>3, PutWritten
      <4> QED BY <1>2, <2>7, <3>1, <4>1
    <3>3. CASE fd \notin view.stale
      BY <1>2, <2>3, <2>5, <3>2, <3>3
    <3>4. CASE fd \in view.stale
      <4>1. ~(count > 0) /\ want = view.want[df]
        BY <1>2, <2>3, <3>4
      <4>2. count = 0
        BY <4>1
      <4>3. Put(view.want[df], off, count) = [i \in 1..Size |-> view.want[df][i]]
        BY <1>3, <4>2, PutWritten
      <4> QED BY <1>3, <2>10, <3>1, <3>2, <4>1, <4>3
    <3> QED BY <3>3, <3>4
  <2>12. \A x \in Disk \ lost : x \notin view.lost
    BY <1>2, <2>3
  <2>13. \A x \in Disk : view'.want[x] = IF x = df THEN want ELSE view.want[x]
    BY <2>4, <2>10
  <2>14. \A x \in Disk : disk'[x].contents = [i \in 1..Size |-> disk'[x].contents[i]]
    BY <2>8, <2>9, <2>10
  <2>15. \A x \in Disk \ view'.lost : disk'[x].contents = view'.want[x]
    BY <2>4, <2>8, <2>10, <2>11, <2>12, <2>13
  <2>16. KnowsBytes'
    BY <2>4, <2>10, <2>14, <2>15 DEF KnowsBytes
  <2> QED BY <2>6, <2>16 DEF Knows
<1>6. \/ UNCHANGED <<fds, disk, os, view>>
      \/ /\ disk' = [disk EXCEPT ![df].contents = Put(@, off, n)]
         /\ fds' = [fds EXCEPT ![fd].off = @ + count]
         /\ view' = [w EXCEPT !.want[df] = want, !.lost = lost]
  BY <1>2 DEF WriteSymbolic, Advance
<1> QED BY <1>4, <1>5, <1>6

\* write, failing or not.
LEMMA WriteKnown ==
  ASSUME Agree, Knows, write
  PROVE  Knows'
<1>1. PICK fd \in FD, count \in Counts :
        \/ UNCHANGED <<fds, disk, os, view>>
        \/ /\ Valid(fd)
           /\ \E s : IF Symbolic(fd) THEN WriteSymbolic(fd, count, s) ELSE WriteConcrete(fd, count, s)
  BY DEF write
<1>2. count \in Nat
  BY PosixAssumption
<1>3. CASE UNCHANGED <<fds, disk, os, view>>
  BY <1>3, SameKnown
<1>4. ASSUME NEW s, Valid(fd), WriteConcrete(fd, count, s) PROVE Knows'
  <2>1. disk' = disk
    BY <1>4 DEF WriteConcrete
  <2>2. \/ UNCHANGED <<fds, view>>
        \/ \E n : fds' = [fds EXCEPT ![fd].off = @ + n] /\ view' = Moved(fd, n)
    BY <1>4, Zenon DEF WriteConcrete
  <2> QED BY <1>4, <2>1, <2>2, MovedKeeps, SameKnown
<1> QED BY <1>1, <1>2, <1>3, <1>4, WriteSymbolicKnown

\* lseek: what the program expects, or what it is told of a stale descriptor.
LEMMA SeekKnown ==
  ASSUME Agree, Knows, NEW fd \in FD, NEW new, NEW position, NEW list, Seek(fd, new, position, list),
         fd \notin view.stale => position = new, UNCHANGED disk
  PROVE  Knows'
<1>1. PICK y, w : y = (IF fd \in view.stale THEN new ELSE position) /\ w = Placed(fd, y)
  OBVIOUS
<1>2. DOMAIN view = ViewFields /\ fds[fd] \in FdEntry
  BY DEF Agree, FilesInv, TableOK
<1>3. /\ DOMAIN w = ViewFields /\ DOMAIN w.pos = FD /\ w.pos[fd] = y
      /\ w.want = view.want /\ w.lost = view.lost
      /\ \A g \in FD \ {fd} : g \notin w.stale => g \notin view.stale /\ w.pos[g] = view.pos[g]
  BY <1>1, <1>2, PlacedKnown
<1>4. fds' = [fds EXCEPT ![fd].off = new] /\ view' = [w EXCEPT !.stale = @ \ {fd}, !.list[fd] = list]
  BY <1>1 DEF Seek
<1>5. PICK e : e = [fds[fd] EXCEPT !.off = new]
  OBVIOUS
<1>6. e.off = new /\ fds' = [fds EXCEPT ![fd] = e]
  BY <1>2, <1>4, <1>5 DEF FdEntry
<1>7. y = new
  BY <1>1
<1>8. /\ DOMAIN view'.pos = FD /\ view'.pos[fd] = new /\ Others(fd)
      /\ view'.want = view.want /\ view'.lost = view.lost
  BY <1>3, <1>4, <1>7 DEF ViewFields, Others
<1> QED BY <1>6, <1>8, OneKnown

\* lseek of any descriptor.
LEMMA LseekKnown ==
  ASSUME Agree, Knows, __fd_lseek
  PROVE  Knows'
<1>1. disk' = disk
  BY DEF __fd_lseek
<1>2. PICK fd \in FD, offset \in {-1, 0, 1}, whence \in {"SET", "CUR", "END"} :
        \/ UNCHANGED <<fds, view>>
        \/ Valid(fd) /\ (LseekSymbolic(fd, offset, whence) \/ LseekConcrete(fd, offset, whence))
  BY DEF __fd_lseek
<1>3. CASE UNCHANGED <<fds, view>>
  BY <1>1, <1>3, SameKnown
<1>4. CASE Valid(fd) /\ (LseekSymbolic(fd, offset, whence) \/ LseekConcrete(fd, offset, whence))
  <2>1. fd \notin view.stale => fds[fd].off = view.pos[fd]
    BY <1>4 DEF Knows, KnowsOffsets
  <2>2. \/ UNCHANGED <<fds, view>>
        \/ \E new, position, list :
             Seek(fd, new, position, list) /\ (fd \notin view.stale => position = new)
    <3>1. CASE LseekSymbolic(fd, offset, whence)
      <4>1. PICK new, position :
              /\ new = CASE whence = "SET" -> offset
                          [] whence = "CUR" -> fds[fd].off + offset
                          [] OTHER -> Size + offset
              /\ position = IF whence = "CUR" THEN view.pos[fd] + offset ELSE new
        OBVIOUS
      <4>2. UNCHANGED <<fds, view>> \/ Seek(fd, new, position, NoList)
        BY <3>1, <4>1 DEF LseekSymbolic
      <4>3. fd \notin view.stale => position = new
        BY <2>1, <4>1
      <4> QED BY <4>2, <4>3
    <3>2. CASE LseekConcrete(fd, offset, whence)
      <4>1. PICK new, position :
              /\ new = CASE whence = "SET" -> offset
                          [] whence = "CUR" -> fds[fd].off + offset
                          [] OTHER -> OsSize + offset
              /\ position = IF whence = "CUR" THEN view.pos[fd] + offset ELSE new
        OBVIOUS
      <4>2. UNCHANGED <<fds, view>> \/ \E list : Seek(fd, new, position, list)
        BY <3>2, <4>1 DEF LseekConcrete
      <4>3. fd \notin view.stale => position = new
        BY <2>1, <4>1
      <4> QED BY <4>2, <4>3
    <3> QED BY <1>4, <3>1, <3>2
  <2> QED BY <1>1, <1>3, <2>2, SeekKnown
<1> QED BY <1>2, <1>3, <1>4

\* getdents moves the offset behind what it shows.
LEMMA GetdentsKnown ==
  ASSUME Agree, Knows, __fd_getdents
  PROVE  Knows'
<1>1. disk' = disk /\ DOMAIN view = ViewFields
  BY DEF __fd_getdents, Agree, FilesInv, TableOK
<1>2. PICK fd \in FD :
        \/ UNCHANGED <<fds, view>>
        \/ Valid(fd) /\ ListSymbolic(fd)
        \/ Valid(fd) /\ ~(fds[fd].off < DirBase) /\ ListConcrete(fd)
  BY DEF __fd_getdents
<1>3. fds[fd] \in FdEntry /\ DirBase \in Nat
  BY PosixAssumption DEF Agree, FilesInv, TableOK
<1>4. CASE UNCHANGED <<fds, view>>
  BY <1>1, <1>4, SameKnown
<1>5. ASSUME NEW off, NEW new, NEW list, NEW w, w = Placed(fd, new), fd \notin view.stale => off = new,
             fds' = [fds EXCEPT ![fd].off = off], view' = [w EXCEPT !.list[fd] = list]
      PROVE  Knows'
  <2>1. DOMAIN w = ViewFields /\ w.want = view.want /\ w.lost = view.lost
    BY <1>1, <1>5, PlacedKnown
  <2>2. /\ view'.pos = w.pos /\ view'.stale = w.stale
        /\ view'.want = view.want /\ view'.lost = view.lost
    BY <1>5, <2>1 DEF ViewFields
  <2>3. KnowsOffsets'
    BY <1>5, <2>2, PlacedKeeps
  <2> QED BY <1>1, <2>2, <2>3 DEF Knows, KnowsBytes
<1>6. CASE ListSymbolic(fd)
  <2>1. PICK new, list : new = DirBase /\ list = Shown(Placed(fd, DirBase).list[fd], SymEntries(fds[fd].off))
    OBVIOUS
  <2>2. \/ UNCHANGED <<fds, view>>
        \/ /\ fds' = [fds EXCEPT ![fd].off = new]
           /\ view' = [Placed(fd, new) EXCEPT !.list[fd] = list]
    BY <1>6, <2>1 DEF ListSymbolic
  <2> QED BY <1>4, <1>5, <2>2
<1>7. CASE Valid(fd) /\ ~(fds[fd].off < DirBase) /\ ListConcrete(fd)
  <2>1. \/ UNCHANGED <<fds, view>>
        \/ \E n \in Int : \E list :
             /\ fds' = [fds EXCEPT ![fd].off = DirBase + (fds[fd].off - DirBase) + n]
             /\ view' = [Moved(fd, n) EXCEPT !.list[fd] = list]
    <3>1. PICK from : from = fds[fd].off - DirBase
      OBVIOUS
    <3>2. PICK rest : rest = Max({0, OsSize - from})
      OBVIOUS
    <3>3. \/ UNCHANGED <<fds, view>>
          \/ \E n \in Min({1, rest})..rest :
               /\ fds' = [fds EXCEPT ![fd].off = DirBase + from + n]
               /\ view' = [Moved(fd, n) EXCEPT
                    !.list[fd] = Shown(@, {OsEntries[j] : j \in from + 1..from + n})]
      BY <1>7, <3>1, <3>2 DEF ListConcrete, ListFrom
    <3>4. \A n \in Min({1, rest})..rest : n \in Int
      OBVIOUS
    <3>5. CASE UNCHANGED <<fds, view>>
      BY <3>5
    <3>6. ASSUME NEW n \in Min({1, rest})..rest,
                 fds' = [fds EXCEPT ![fd].off = DirBase + from + n],
                 view' = [Moved(fd, n) EXCEPT
                    !.list[fd] = Shown(@, {OsEntries[j] : j \in from + 1..from + n})]
          PROVE  \E k \in Int : \E list :
                   /\ fds' = [fds EXCEPT ![fd].off = DirBase + (fds[fd].off - DirBase) + k]
                   /\ view' = [Moved(fd, k) EXCEPT !.list[fd] = list]
      <4>1. PICK list : list = Shown(Moved(fd, n).list[fd], {OsEntries[j] : j \in from + 1..from + n})
        OBVIOUS
      <4>2. n \in Int /\ fds' = [fds EXCEPT ![fd].off = DirBase + (fds[fd].off - DirBase) + n]
        BY <3>1, <3>4, <3>6
      <4>3. view' = [Moved(fd, n) EXCEPT !.list[fd] = list]
        BY <3>6, <4>1
      <4> QED BY <4>2, <4>3
    <3> QED BY <3>3, <3>5, <3>6
  <2>2. ASSUME NEW n \in Int, NEW list,
               fds' = [fds EXCEPT ![fd].off = DirBase + (fds[fd].off - DirBase) + n],
               view' = [Moved(fd, n) EXCEPT !.list[fd] = list]
        PROVE  Knows'
    <3>1. PICK off, new : off = DirBase + (fds[fd].off - DirBase) + n /\ new = view.pos[fd] + n
      OBVIOUS
    <3>2. fd \notin view.stale => fds[fd].off = view.pos[fd]
      BY <1>7 DEF Knows, KnowsOffsets
    <3>3. fds[fd].off \in Nat
      BY <1>3 DEF FdEntry
    <3>4. fd \notin view.stale => off = new
      BY <1>3, <3>1, <3>2, <3>3
    <3>5. fds' = [fds EXCEPT ![fd].off = off] /\ view' = [Placed(fd, new) EXCEPT !.list[fd] = list]
      BY <2>2, <3>1 DEF Moved
    <3> QED BY <1>5, <3>4, <3>5
  <2> QED BY <1>4, <2>1, <2>2
<1> QED BY <1>2, <1>4, <1>6, <1>7

\* A call that only succeeds or fails tells nothing.
LEMMA MuteTells == Mute => Told'
BY DEF Mute, Told, None

\* The bytes read from a symbolic file are those the program wrote.
LEMMA ReadAnswers ==
  ASSUME Agree, Knows, NEW fd \in FD, NEW count \in Nat, NEW s, Valid(fd), Symbolic(fd),
         Known(fd), ReadSymbolic(fd, count, s)
  PROVE  res'.data = res'.want
<1>1. fds[fd] \in FdEntry
  BY DEF Agree, FilesInv, TableOK
<1>2. fds[fd].off = view.pos[fd]
  BY DEF Knows, KnowsOffsets, Known
<1>3. PICK df, off, c : df = fds[fd].dfile /\ off = fds[fd].off /\ c = disk[fds[fd].dfile].contents
  OBVIOUS
<1>4. df \in Disk /\ off \in Nat /\ off = view.pos[fd] /\ Size \in Nat
  BY <1>1, <1>2, <1>3, PosixAssumption DEF FdEntry, Symbolic
<1>5. c = view.want[df]
  BY <1>3, <1>4 DEF Knows, KnowsBytes, Known
<1>6. PICK n, m : /\ n = IF Size < off THEN 0 ELSE IF off + count > Size THEN Size - off ELSE count
                  /\ m = Min({off + count, Size})
  OBVIOUS
<1>7. m = IF off + count =< Size THEN off + count ELSE Size
  <2>1. PICK a, b : a = off + count /\ b = Size
    OBVIOUS
  <2>2. a \in Int /\ b \in Int
    BY <1>4, <2>1
  <2>3. Min({a, b}) = IF a =< b THEN a ELSE b
    BY <2>2, MinOfTwo
  <2> QED BY <1>6, <2>1, <2>3
<1>8. /\ res'.data = SubSeq(c, off + 1, off + n)
      /\ res'.want = SubSeq(view.want[df], view.pos[fd] + 1, Min({view.pos[fd] + count, Size}))
  BY <1>3, <1>6 DEF ReadSymbolic, Result, Expected
<1>9. res'.want = SubSeq(c, off + 1, m)
  BY <1>4, <1>5, <1>6, <1>8
<1>10. CASE Size < off
  <2>1. off + n < off + 1 /\ m < off + 1 /\ off + 1 \in Int /\ off + n \in Int /\ m \in Int
    BY <1>4, <1>6, <1>7, <1>10
  <2>2. PICK a, b : a = off + 1 /\ b = off + n
    OBVIOUS
  <2>3. SubSeq(c, a, b) = <<>> /\ SubSeq(c, a, m) = <<>>
    BY <2>1, <2>2, SubSeqEmpty
  <2> QED BY <1>8, <1>9, <2>2, <2>3
<1>11. CASE ~(Size < off)
  <2>1. CASE off + count > Size
    <3>1. n = Size - off /\ m = Size
      BY <1>4, <1>6, <1>7, <1>11, <2>1
    <3>2. off + n = Size
      BY <1>4, <3>1
    <3> QED BY <1>8, <1>9, <3>1, <3>2
  <2>2. CASE ~(off + count > Size)
    <3>1. n = count
      BY <1>6, <1>11, <2>2
    <3>2. off + count =< Size
      BY <1>4, <2>2
    <3>3. m = off + count
      BY <1>7, <3>2
    <3> QED BY <1>8, <1>9, <3>1, <3>3
  <2> QED BY <2>1, <2>2
<1> QED BY <1>10, <1>11

\* read tells a program its own bytes.
LEMMA ReadTells ==
  ASSUME Agree, Knows, read
  PROVE  Told'
<1>1. PICK fd \in FD, count \in Counts :
        \/ Mute
        \/ Valid(fd) /\ Symbolic(fd) /\ \E s : ReadSymbolic(fd, count, s)
  BY DEF read, ReadConcrete, Succeed, Quiet, Report, Result, Mute
<1>2. CASE Mute
  BY <1>2, MuteTells
<1>3. ASSUME NEW s, Valid(fd), Symbolic(fd), ReadSymbolic(fd, count, s) PROVE Told'
  <2>1. DOMAIN view = ViewFields /\ fds \in [FD -> FdEntry]
    BY DEF Agree, FilesInv, TableOK
  <2>2. PICK n : view' = Moved(fd, n) /\ fds' = [fds EXCEPT ![fd].off = @ + n]
    BY <1>3 DEF ReadSymbolic
  <2>3. view'.lost = view.lost /\ (fd \in view'.stale <=> fd \in view.stale)
    <3>1. PICK new : view' = Placed(fd, new)
      BY <2>2 DEF Moved
    <3> QED BY <2>1, <3>1, PlacedKnown
  <2>4. fds'[fd].dfile = fds[fd].dfile
    BY <2>1, <2>2 DEF FdEntry
  <2>5. Known(fd)' => Known(fd)
    BY <2>3, <2>4 DEF Known
  <2>6. res'.op = "read" /\ res'.fd = fd
    BY <1>3 DEF ReadSymbolic, Result
  <2>7. count \in Nat
    BY PosixAssumption
  <2>8. Known(fd) => res'.data = res'.want
    BY <1>3, <2>7, ReadAnswers
  <2> QED BY <2>5, <2>6, <2>8 DEF Told, Known
<1> QED BY <1>1, <1>2, <1>3

\* FIONREAD tells how many bytes are left.
LEMMA IoctlTells ==
  ASSUME Agree, Knows, ioctl
  PROVE  Told'
<1>1. PICK fd \in FD :
        \/ Mute
        \/ Valid(fd) /\ Result("FIONREAD", fd, Max({0, Size - fds[fd].off}), <<>>, <<>>)
  BY MuteResults, Zenon DEF ioctl
<1>2. CASE Mute
  BY <1>2, MuteTells
<1>3. CASE Valid(fd) /\ Result("FIONREAD", fd, Max({0, Size - fds[fd].off}), <<>>, <<>>)
  <2>1. view' = view /\ (fd \notin view.stale => fds[fd].off = view.pos[fd])
    BY <1>3 DEF Knows, KnowsOffsets, ioctl
  <2>2. res'.op = "FIONREAD" /\ res'.fd = fd /\ res'.ret = Max({0, Size - fds[fd].off})
    BY <1>3 DEF Result
  <2> QED BY <2>1, <2>2 DEF Told
<1> QED BY <1>1, <1>2, <1>3

\* Every call keeps what the program knows, and tells it nothing else.
LEMMA NextKnows ==
  ASSUME Agree, Knows, Told, Next
  PROVE  Knows' /\ Told'
<1>1. CASE open \/ openat
  <2>1. \/ UNCHANGED <<fds, disk, os, view>>
        \/ \E pathname, acc, creat, excl, mode : OpenAny(pathname, acc, creat, excl, mode)
    BY <1>1 DEF open, openat
  <2>2. Knows'
    BY <2>1, OpenKnown, SameKnown
  <2>3. Mute
    <3>1. \E pathname, acc, creat, excl, mode :
            Mute \/ OpenSlot(pathname, acc, creat, excl, mode)
      BY <1>1, MuteResults DEF open, openat, OpenAny
    <3>2. \A fd, df, acc, creat, excl, mode :
            OpenSymbolic(fd, df, acc, creat, excl, mode) => Mute
      BY MuteResults DEF OpenSymbolic
    <3>3. \A fd, pathname : OpenConcrete(fd, pathname) => Mute
      BY MuteResults DEF OpenConcrete
    <3> QED BY <3>1, <3>2, <3>3, MuteResults DEF OpenSlot
  <2> QED BY <2>2, <2>3, MuteTells
<1>2. CASE Close
  <2>1. Mute
    BY <1>2 DEF Close, Succeed, Quiet, Report, Result, Mute
  <2> QED BY <1>2, <2>1, CloseKnown, MuteTells
<1>3. CASE dup2 \/ dup
  <2>1. Mute
    <3>1. \A oldfd, newfd, c : CopyEntry(oldfd, newfd, c) => Mute
      BY MuteResults DEF CopyEntry
    <3>2. \A oldfd, newfd : Dup2(oldfd, newfd) => Mute
      BY <3>1, MuteResults DEF Dup2
    <3> QED BY <1>3, <3>2, MuteResults DEF dup2, dup
  <2> QED BY <1>3, <2>1, DupKnown, MuteTells
<1>4. CASE read
  BY <1>4, ReadKnown, ReadTells
<1>5. CASE write
  <2>1. Mute \/ UNCHANGED <<res, fds, view, disk>>
    BY <1>5 DEF write, WriteSymbolic, WriteConcrete, Succeed, Quiet, Report, Result, Mute
  <2>2. (UNCHANGED <<res, fds, view, disk>>) => Told'
    BY DEF Told, Known
  <2> QED BY <1>5, <2>1, <2>2, WriteKnown, MuteTells
<1>6. CASE __fd_lseek
  <2>1. Mute
    BY <1>6 DEF __fd_lseek, LseekSymbolic, LseekConcrete, Seek, Succeed, Quiet, Report, Result, Mute
  <2> QED BY <1>6, <2>1, LseekKnown, MuteTells
<1>7. CASE __fd_getdents
  <2>1. Mute \/ res'.op = "getdents"
    <3>1. \A fd, n : Result("getdents", fd, n, <<>>, <<>>) => res'.op = "getdents"
      BY DEF Result
    <3>2. \A fd : ListSymbolic(fd) => Mute
      BY MuteResults DEF ListSymbolic
    <3>3. \A fd : ListConcrete(fd) => Mute \/ res'.op = "getdents"
      BY <3>1, MuteResults, Zenon DEF ListConcrete
    <3> QED BY <1>7, <3>2, <3>3, MuteResults, Zenon DEF __fd_getdents
  <2>2. res'.op = "getdents" => Told'
    BY DEF Told
  <2> QED BY <1>7, <2>1, <2>2, GetdentsKnown, MuteTells
<1>8. CASE Unlink \/ ChangeMode
  <2>1. UNCHANGED <<fds, view>> /\ DOMAIN disk = Disk /\ \A x \in Disk : DOMAIN disk[x] = DiskFields
    BY <1>8 DEF Unlink, ChangeMode, Agree, FilesInv, DiskOK
  <2>2. (UNCHANGED <<res, fds, view, disk>>) => Told'
    BY DEF Told, Known
  <2>3. ASSUME NEW df, disk' = [disk EXCEPT ![df].linked = FALSE]
        PROVE  \A x \in Disk : disk'[x].contents = disk[x].contents
    BY <2>1, <2>3 DEF DiskFields
  <2>4. ASSUME NEW df, NEW mode, disk' = [disk EXCEPT ![df].mode = mode]
        PROVE  \A x \in Disk : disk'[x].contents = disk[x].contents
    BY <2>1, <2>4 DEF DiskFields
  <2>5. CASE Unlink
    <3>1. PICK op, pathname : Unlinked(op, pathname)
      BY <2>5 DEF Unlink
    <3>2. Mute /\ (disk' = disk \/ \E df : disk' = [disk EXCEPT ![df].linked = FALSE])
      BY <3>1, MuteResults DEF Unlinked
    <3> QED BY <2>1, <2>3, <3>2, SameKnown, MuteTells
  <2>6. CASE ChangeMode
    <3>1. PICK op, df, mode : Chmod(op, df, mode) \/ (Report("EBADF") /\ UNCHANGED disk)
      BY <2>6 DEF ChangeMode, chmod, fchmod
    <3>2. \/ UNCHANGED <<disk, res>>
          \/ /\ Mute
             /\ disk' = disk \/ disk' = [disk EXCEPT ![df].mode = mode]
      BY <3>1, MuteResults DEF Chmod, __df_chmod
    <3> QED BY <2>1, <2>2, <2>4, <3>2, SameKnown, MuteTells
  <2> QED BY <1>8, <2>5, <2>6
<1>9. CASE fcntl
  <2>1. disk' = disk /\ view' = view /\ fds \in [FD -> FdEntry]
    BY <1>9 DEF fcntl, Agree, FilesInv, TableOK
  <2>2. Mute
    BY <1>9 DEF fcntl, Succeed, Quiet, Report, Result, Mute
  <2>3. PICK fd \in FD : \/ UNCHANGED fds
                         \/ Valid(fd) /\ \E S : fds' = [fds EXCEPT ![fd].flags = S]
    BY <1>9 DEF fcntl
  <2>4. CASE UNCHANGED fds
    BY <2>1, <2>2, <2>4, SameKnown, MuteTells
  <2>5. ASSUME NEW S, Valid(fd), fds' = [fds EXCEPT ![fd].flags = S] PROVE Knows'
    <3>1. \A g \in FD : fds'[g].off = fds[g].off /\ (Valid(g)' => Valid(g))
      BY <2>1, <2>5 DEF FdEntry, Valid
    <3> QED BY <2>1, <3>1 DEF Knows, KnowsOffsets, KnowsBytes
  <2> QED BY <2>2, <2>3, <2>4, <2>5, MuteTells
<1>10. CASE umask \/ Truncate
  <2>1. UNCHANGED <<fds, disk, os, view>>
    BY <1>10 DEF umask, Truncate
  <2>2. Mute
    BY <1>10 DEF umask, Truncate, getcwd, __fd_ftruncate, CountedCall,
                 Succeed, Quiet, Report, Result, Mute
  <2> QED BY <2>1, <2>2, SameKnown, MuteTells
<1>11. CASE PathQuery \/ BaseQuery \/ FdQuery \/ select
  <2>1. UNCHANGED <<fds, disk, os, view>>
    BY <1>11 DEF PathQuery, BaseQuery, FdQuery, select
  <2>2. Mute
    <3>1. PathQuery \/ BaseQuery => Mute
      BY MuteResults DEF PathQuery, BaseQuery
    <3>2. FdQuery => Mute
      BY MuteResults DEF FdQuery
    <3>3. select => Mute
      BY MuteResults, Zenon DEF select
    <3> QED BY <1>11, <3>1, <3>2, <3>3
  <2> QED BY <2>1, <2>2, SameKnown, MuteTells
<1>12. CASE ioctl
  <2>1. UNCHANGED <<fds, disk, os, view>>
    BY <1>12 DEF ioctl
  <2> QED BY <1>12, <2>1, IoctlTells, SameKnown
<1> QED BY <1>1, <1>2, <1>3, <1>4, <1>5, <1>6, <1>7, <1>8, <1>9, <1>10, <1>11, <1>12 DEF Next

\* A program starts with offset 0 everywhere and files that are zero.
LEMMA InitKnows ==
  ASSUME Init
  PROVE  Knows /\ Told
<1>1. /\ view.pos = [fd \in FD |-> 0] /\ view.want = [df \in Disk |-> disk[df].contents]
  BY DEF Init
<1>2. \A fd \in FD : fds[fd].off = 0
  BY DEF Init, Zero
<1>3. \A df \in Disk : disk[df].contents = [i \in 1..Size |-> 0]
  <2>1. PICK z : z = [i \in 1..Size |-> 0]
    OBVIOUS
  <2>2. disk \in [Disk -> [linked : {TRUE}, kind : Kinds \cup {"chr"}, mode : Modes, mine : Owned,
                           contents : {z}]]
    BY <2>1 DEF Init
  <2> QED BY <2>1, <2>2
<1>4. KnowsBytes
  <2>1. \A df \in Disk : disk[df].contents = [i \in 1..Size |-> disk[df].contents[i]]
    BY <1>3
  <2> QED BY <1>1, <2>1 DEF KnowsBytes
<1>5. Told
  BY DEF Init, Quiet, Told, None
<1> QED BY <1>1, <1>2, <1>4, <1>5 DEF Knows, KnowsOffsets

\* The offset of an open descriptor is that of the open file behind it, and a
\* program reads back the bytes it wrote, for every program: nothing is said only
\* of a descriptor whose copy moved since it was last known where it is, and of a
\* file that was written through one.
THEOREM ProgramViewAlways == Spec => []ProgramView
<1> DEFINE Inv == Agree /\ Answered(res, view, disk) /\ Knows /\ Told
<1>1. Init => Inv
  BY InitAgrees, InitKnows
<1>2. Inv /\ [Next]_vars => Inv'
  <2>1. Inv /\ Next => Inv'
    BY NextAgrees, NextKnows
  <2>2. Inv /\ UNCHANGED vars => Inv'
    BY DEF vars, Agree, Knows, KnowsOffsets, KnowsBytes, Told, Known, Valid
  <2> QED BY <2>1, <2>2
<1>3. Inv => ProgramView
  BY DEF Knows, KnowsOffsets, KnowsBytes, Told, ProgramView
<1> QED BY <1>1, <1>2, <1>3, PTL DEF Spec

====
