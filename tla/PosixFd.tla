------------------------------ MODULE PosixFd ------------------------------
(***************************************************************************)
(* The file descriptors of the POSIX runtime (runtime/POSIX/fd.c) on one   *)
(* path: the table __exe_env.fds, the symbolic files of __exe_fs and the   *)
(* failures it injects.  The operating system below (system calls on       *)
(* concrete files) is external and answers nondeterministically.           *)
(* view is what a program knows from the results it was given and from     *)
(* what POSIX promises of descriptors: the offset of the open file behind  *)
(* each of them, the bytes it wrote and how often each descriptor gave it  *)
(* each directory entry.                                                   *)
(***************************************************************************)
EXTENDS Integers, Sequences, FiniteSets, SequencesExt, FiniteSetsExt

CONSTANTS
  MaxFds,         \* MAX_FDS, scaled down
  SymFile,        \* the names of the symbolic files (-sym-files)
  OsEntry,        \* the entries of a concrete directory
  Size,           \* bytes of every symbolic file
  SymStdin, SymStdout,          \* -sym-stdin and -sym-stdout
  MaxFailures,    \* -max-fail
  SaveAllWrites,  \* a subset of BOOLEAN: -save-all-writes or not
  Kinds, Modes, Owned,  \* what the symbolic stat of a file may say
  Counts,         \* byte counts passed to read and write
  DirBase,        \* 4096: where the offsets of the OS's entries begin
  MaxOff,         \* bound on offsets
  MaxOpens,       \* bound on concrete opens (OS descriptors are not closed)
  MaxCalls,       \* bound on the calls a program makes
  Programs        \* the sets of calls that programs consist of

None == "none"
Dir == "."
Plain == "f"

\* the number of symbolic files, and of bytes of a concrete file and entries of a
\* concrete directory
n_sym_files == Cardinality(SymFile)
OsSize == Cardinality(OsEntry)

ASSUME PosixAssumption ==
  /\ {MaxFds, Size, MaxFailures, DirBase, MaxOff} \subseteq Nat /\ Counts \subseteq Nat
  /\ MaxFds >= 3 /\ Size >= 1 /\ SaveAllWrites \subseteq BOOLEAN
  /\ IsFiniteSet(SymFile) /\ IsFiniteSet(OsEntry) /\ SymFile \cap OsEntry = {}
  /\ SymFile \cap {None, Dir, Plain, "stdin", "stdout"} = {}
  /\ DirBase > n_sym_files /\ MaxOff >= DirBase + OsSize

VARIABLES program, fds, disk, fs, os, res, view, fault
vars == <<program, fds, disk, fs, os, res, view, fault>>

FD == 0..(MaxFds - 1)
SymFiles == SetToSeq(SymFile)
OsEntries == SetToSeq(OsEntry)
Disk == SymFile \cup {"stdin", "stdout"}
Zero == [os |-> 0, flags |-> {}, off |-> 0, dfile |-> None]
AT_FDCWD == -100
Paths == SymFile \cup {Dir, Plain}

\* The calls klee_init_fds allocates a failure index for; chmod and fchmod
\* count themselves too but have none.
Allocated == {"read", "write", "close", "ftruncate", "getcwd"}

----------------------------------------------------------------------------
\* Lookup

Found(pathname) == pathname \in SymFile /\ disk[pathname].linked
__get_sym_file(pathname) == IF Found(pathname) THEN pathname ELSE None
Valid(fd) == fd \in FD /\ "open" \in fds[fd].flags
Free == {fd \in FD : "open" \notin fds[fd].flags}
Symbolic(fd) == fds[fd].dfile # None

\* The result of a call.  A call that only reports an error or a fact leaves
\* everything else as it is, so that what can follow it can also follow
\* without it: the model does not continue after one.
Quiet == [op |-> None, fd |-> -1, ret |-> 0, data |-> <<>>, want |-> <<>>]
Result(op, fd, ret, data, want) ==
  res' = [op |-> op, fd |-> fd, ret |-> ret, data |-> data, want |-> want]
Succeed == res' = Quiet
Report(err) == Result("report", -1, IF err = None THEN 0 ELSE -1, <<err>>, <<>>)
Room == fs.total < MaxCalls /\ ~fault /\ res.op \in {None, "read", "getdents"}
Tick(s) == [s EXCEPT !.total = @ + 1]

\* The fail index of op is symbolic: `*op_fail == n_calls` is free until it
\* holds for one call, which fixes the index to that call; n_calls++ of the
\* next one leaves it behind.
CountNever(op, s) == Tick(s)
Count(op, s) ==
  [Tick(s) EXCEPT !.failAt[op] = IF @ = "this call" THEN "an earlier call" ELSE @]
MayFail(op, s) == s.max_failures > 0 /\ s.failAt[op] # "an earlier call"
MustFail(op, s) == s.max_failures > 0 /\ s.failAt[op] = "this call"
Inject(op, s) == [s EXCEPT !.max_failures = @ - 1, !.failAt[op] = "this call"]

\* What a descriptor has listed
Entry == SymFile \cup OsEntry
NoList == [whole |-> FALSE, seen |-> [e \in Entry |-> 0]]
NewList == [NoList EXCEPT !.whole = TRUE]
Shown(list, entries) ==
  [list EXCEPT !.seen = [e \in Entry |-> IF e \in entries THEN @[e] + 1 ELSE @[e]]]

\* POSIX: the descriptors dup made of each other share one open file, whose
\* offset moves for all of them.  The runtime copies the offset instead, so one
\* that moves leaves its copies behind: they are stale.
NewFile == Min(FD \ {view.file[g] : g \in {g \in FD : Valid(g)}})
Copies(fd) == {g \in FD : Valid(g) /\ view.file[g] = view.file[fd]} \ {fd}
Placed(fd, new) ==
  IF new = view.pos[fd] THEN view
  ELSE [view EXCEPT !.pos = [g \in FD |-> IF g \in Copies(fd) \cup {fd} THEN new ELSE @[g]],
                    !.stale = @ \cup Copies(fd)]
Moved(fd, n) == Placed(fd, view.pos[fd] + n)

\* A descriptor that was just opened, or closed
Opened(fd, list) ==
  view' = [view EXCEPT !.pos[fd] = 0, !.list[fd] = list, !.file[fd] = NewFile, !.stale = @ \ {fd}]
Closed(fd) ==
  view' = [view EXCEPT !.pos[fd] = 0, !.list[fd] = NoList, !.file[fd] = fd, !.stale = @ \ {fd}]

----------------------------------------------------------------------------
\* open, openat

\* O_RDONLY is 0, so flags & O_RDONLY never asks for read access.
has_permission(acc, mode) ==
  /\ ~(acc = "RDWR" /\ "r" \in mode)
  /\ ~(acc \in {"WRONLY", "RDWR"} /\ "w" \notin mode)

\* A symbolic file: f->dfile is set before the checks and stays in the free
\* slot when one of them fails.
OpenSymbolic(fd, df, acc, creat, excl, mode) ==
  LET denied == IF creat /\ excl THEN "EEXIST"
                ELSE IF excl \/ ~has_permission(acc, disk[df].mode) THEN "EACCES"
                ELSE None
  IN IF denied # None
     THEN /\ fds' = [fds EXCEPT ![fd] = [Zero EXCEPT !.dfile = df]]
          /\ Succeed
          /\ UNCHANGED <<disk, os, view>>
     ELSE /\ fds' = [fds EXCEPT ![fd] = [Zero EXCEPT !.dfile = df,
                                                     !.flags = {"open"}]]
          /\ disk' = [disk EXCEPT ![df].mode = IF creat THEN mode \ fs.umask ELSE {}]
          /\ Succeed
          /\ Opened(fd, NoList)
          /\ UNCHANGED os

OpenConcrete(fd, pathname) ==
  /\ UNCHANGED disk
  /\ \/ /\ fds' = [fds EXCEPT ![fd] = Zero]
        /\ Succeed
        /\ UNCHANGED <<os, view>>
     \/ /\ Cardinality(DOMAIN os) < 3 + MaxOpens
        /\ LET os_fd == Cardinality(DOMAIN os)
               kind == IF pathname = Dir THEN "dir" ELSE "file"
           IN /\ os' = [i \in 0..os_fd |->
                          IF i = os_fd THEN [kind |-> kind, pos |-> 0] ELSE os[i]]
              /\ fds' = [fds EXCEPT ![fd] = [Zero EXCEPT !.os = os_fd,
                                                         !.flags = {"open"}]]
              /\ Opened(fd, IF kind = "dir" THEN NewList ELSE NoList)
        /\ Succeed

OpenSlot(pathname, acc, creat, excl, mode) ==
  IF Free = {}
  THEN Report("EMFILE") /\ UNCHANGED <<fds, disk, os, view>>
  ELSE LET fd == Min(Free)
           df == __get_sym_file(pathname)
       IN IF df # None THEN OpenSymbolic(fd, df, acc, creat, excl, mode)
          ELSE OpenConcrete(fd, pathname)

OpenAny(pathname, acc, creat, excl, mode) ==
  Room /\ fs' = Tick(fs) /\ UNCHANGED fault /\ OpenSlot(pathname, acc, creat, excl, mode)

open ==
  \E pathname \in Paths, acc \in {"RDONLY", "WRONLY", "RDWR"}, creat \in BOOLEAN,
     excl \in BOOLEAN, mode \in {{"r", "w"}} :
    /\ pathname = Dir => acc = "RDONLY" /\ ~creat
    /\ OpenAny(pathname, acc, creat, excl, mode)

\* A descriptor that a path is relative to must be concrete.
Base(fd) == IF fd = AT_FDCWD THEN None
            ELSE IF ~Valid(fd) THEN "EBADF"
            ELSE IF Symbolic(fd) THEN "ENOENT" ELSE None

\* openat passes a symbolic name on to open, whatever the (concrete) base is.
openat ==
  \E basefd \in FD \cup {AT_FDCWD}, pathname \in Paths :
    IF Base(basefd) = None THEN OpenAny(pathname, "RDONLY", FALSE, FALSE, {})
    ELSE /\ Room /\ fs' = Tick(fs) /\ Report(Base(basefd))
         /\ UNCHANGED <<fds, disk, os, view, fault>>

----------------------------------------------------------------------------
\* close, dup2, dup

\* The outcomes of close(fd) from table t and counters s.  The descriptor of
\* the operating system is not closed.
close(fd, t, s0) ==
  LET s == Count("close", s0) IN
  IF "open" \notin t[fd].flags THEN {[t |-> t, s |-> s, ret |-> -1, err |-> "EBADF"]}
  ELSE (IF MayFail("close", s)
        THEN {[t |-> t, s |-> Inject("close", s), ret |-> -1, err |-> "EIO"]} ELSE {})
       \cup
       (IF MustFail("close", s) THEN {}
        ELSE {[t |-> [t EXCEPT ![fd] = Zero], s |-> s, ret |-> 0, err |-> None]})

Close ==
  /\ Room
  /\ \E fd \in FD : \E o \in close(fd, fds, fs) :
       /\ fds' = o.t /\ fs' = o.s
       /\ IF o.err = "EBADF" THEN Report(o.err) ELSE Succeed
       /\ IF o.ret = 0 THEN Closed(fd) ELSE UNCHANGED view
       /\ UNCHANGED <<disk, os, fault>>

\* dup2 copies the entry, offset included ("XXX Incorrect"), after a close whose
\* result it ignores.  With oldfd = newfd the close clears the entry that is copied.
CopyEntry(oldfd, newfd, o) ==
  /\ fds' = [o.t EXCEPT ![newfd] = [o.t[oldfd] EXCEPT !.flags = @ \ {"cloexec"}]]
  /\ fs' = o.s
  /\ Succeed
  /\ IF "open" \in o.t[oldfd].flags
     THEN view' = [view EXCEPT !.pos[newfd] = view.pos[oldfd], !.list[newfd] = view.list[oldfd],
                     !.file[newfd] = view.file[oldfd],
                     !.stale = IF oldfd \in @ THEN @ \cup {newfd} ELSE @ \ {newfd}]
     ELSE Closed(newfd)

Dup2(oldfd, newfd) ==
  /\ UNCHANGED <<disk, os, fault>>
  /\ IF ~Valid(oldfd)
     THEN fs' = Tick(fs) /\ Report("EBADF") /\ UNCHANGED <<fds, view>>
     ELSE \E o \in (IF Valid(newfd) THEN close(newfd, fds, fs)
                    ELSE {[t |-> fds, s |-> Tick(fs), ret |-> 0, err |-> None]}) :
            CopyEntry(oldfd, newfd, o)

dup2 == Room /\ \E oldfd, newfd \in FD : Dup2(oldfd, newfd)

dup ==
  /\ Room
  /\ \E oldfd \in FD :
       IF Valid(oldfd) /\ Free = {}
       THEN /\ fs' = Tick(fs) /\ Report("EMFILE")
            /\ UNCHANGED <<fds, disk, os, view, fault>>
       ELSE Dup2(oldfd, IF Free = {} THEN oldfd ELSE Min(Free))

----------------------------------------------------------------------------
\* read, write

\* What the program may expect of a read: the bytes it knows from its offset on.
Expected(fd, count) ==
  SubSeq(view.want[fds[fd].dfile], view.pos[fd] + 1, Min({view.pos[fd] + count, Size}))

ReadSymbolic(fd, count, s) ==
  LET f == fds[fd]
      n == IF Size < f.off THEN 0
           ELSE IF f.off + count > Size THEN Size - f.off ELSE count
  IN /\ fds' = [fds EXCEPT ![fd].off = @ + n]
     /\ Result("read", fd, n, SubSeq(disk[f.dfile].contents, f.off + 1, f.off + n),
               Expected(fd, count))
     /\ view' = Moved(fd, n)
     /\ fs' = s
     /\ UNCHANGED os

\* pread and pwrite at the offset of the entry; the standard streams use the
\* position of the operating system instead and leave the entry alone.
ReadConcrete(fd, count, s) ==
  LET f == fds[fd]
      from == IF f.os = 0 THEN os[0].pos ELSE f.off
      most == IF os[f.os].kind = "dir" THEN -1
              ELSE Max({0, Min({count, OsSize - from})})
  IN \E r \in {-1, 0, most} :
       /\ fs' = s
       /\ os' = IF f.os = 0 /\ r > 0 THEN [os EXCEPT ![0].pos = @ + r] ELSE os
       /\ IF r = -1 \/ f.os = 0 THEN UNCHANGED <<fds, view>>
          ELSE /\ fds' = [fds EXCEPT ![fd].off = @ + r]
               /\ view' = Moved(fd, r)
       /\ Succeed

read ==
  /\ Room
  /\ \E fd \in FD, count \in Counts :
       LET s == Count("read", fs) IN
       /\ UNCHANGED <<disk, fault>>
       /\ \/ /\ count = 0
             /\ fs' = s /\ Succeed /\ UNCHANGED <<fds, os, view>>
          \/ /\ count > 0 /\ ~Valid(fd)
             /\ fs' = s /\ Report("EBADF") /\ UNCHANGED <<fds, os, view>>
          \/ /\ count > 0 /\ Valid(fd) /\ MayFail("read", s)
             /\ fs' = Inject("read", s) /\ Succeed
             /\ UNCHANGED <<fds, os, view>>
          \/ /\ count > 0 /\ Valid(fd) /\ ~MustFail("read", s)
             /\ IF Symbolic(fd) THEN ReadSymbolic(fd, count, s)
                ELSE ReadConcrete(fd, count, s)

Put(contents, off, n) ==
  [i \in 1..Size |-> IF i \in off + 1..off + n THEN 1 ELSE contents[i]]

\* Bytes past the end are dropped but counted; with save_all_writes they
\* run into assert(0).
Written(off, count) == IF off + count <= Size THEN count ELSE Max({0, Size - off})
AdvanceByWritten(off, count) == off + Written(off, count)
Advance(off, count) == off + count

WriteSymbolic(fd, count, s) ==
  LET f == fds[fd]
      n == Written(f.off, count)
  IN IF n < count /\ s.save_all_writes
     THEN fault' = TRUE /\ fs' = s /\ UNCHANGED <<fds, disk, os, view, res>>
     ELSE /\ disk' = [disk EXCEPT ![f.dfile].contents = Put(@, f.off, n)]
          /\ fs' = IF f.dfile = "stdout" THEN [s EXCEPT !.stdout_writes = @ + n] ELSE s
          /\ fds' = [fds EXCEPT ![fd].off = Advance(@, count)]
          /\ Succeed
          /\ view' = [Moved(fd, count) EXCEPT
                        !.want[f.dfile] = IF fd \in view.stale THEN @ ELSE Put(@, view.pos[fd], count),
                        !.lost = IF fd \in view.stale /\ count > 0 THEN @ \cup {f.dfile} ELSE @]
          /\ UNCHANGED <<os, fault>>

WriteConcrete(fd, count, s) ==
  LET f == fds[fd] IN
  \E r \in IF os[f.os].kind = "dir" THEN {-1} ELSE {-1, 0, count} :
    /\ fs' = s
    /\ IF r = -1 \/ f.os \in {1, 2} THEN UNCHANGED <<fds, view>>
       ELSE /\ fds' = [fds EXCEPT ![fd].off = @ + r]
            /\ view' = Moved(fd, r)
    /\ Succeed
    /\ UNCHANGED <<disk, os, fault>>

write ==
  /\ Room
  /\ \E fd \in FD, count \in Counts :
       LET s == Count("write", fs) IN
       \/ /\ ~Valid(fd)
          /\ fs' = s /\ Report("EBADF")
          /\ UNCHANGED <<fds, disk, os, view, fault>>
       \/ /\ Valid(fd) /\ MayFail("write", s)
          /\ fs' = Inject("write", s) /\ Succeed
          /\ UNCHANGED <<fds, disk, os, view, fault>>
       \/ /\ Valid(fd) /\ ~MustFail("write", s) /\ fds[fd].off + count <= MaxOff
          /\ IF Symbolic(fd) THEN WriteSymbolic(fd, count, s)
             ELSE WriteConcrete(fd, count, s)

----------------------------------------------------------------------------
\* lseek

\* The program expects position; the result says where a stale descriptor is.
Seek(fd, new, position, list) ==
  /\ fds' = [fds EXCEPT ![fd].off = new]
  /\ Succeed
  /\ view' = [Placed(fd, IF fd \in view.stale THEN new ELSE position) EXCEPT
                !.stale = @ \ {fd}, !.list[fd] = list]

LseekSymbolic(fd, offset, whence) ==
  LET new_off == CASE whence = "SET" -> offset
                   [] whence = "CUR" -> fds[fd].off + offset
                   [] OTHER -> Size + offset
      position == IF whence = "CUR" THEN view.pos[fd] + offset ELSE new_off
  IN /\ UNCHANGED os
     /\ IF new_off < 0 THEN Report("EINVAL") /\ UNCHANGED <<fds, view>>
        ELSE new_off <= MaxOff /\ Seek(fd, new_off, position, NoList)

\* The operating system's position is moved to the entry's offset first.  A
\* directory is only ever seeked with SEEK_SET.
LseekConcrete(fd, offset, whence) ==
  LET f == fds[fd]
      at == IF whence = "SET" THEN os[f.os].pos ELSE f.off
      new_off == CASE whence = "SET" -> offset
                   [] whence = "CUR" -> f.off + offset
                   [] OTHER -> OsSize + offset
      position == IF whence = "CUR" THEN view.pos[fd] + offset ELSE new_off
      list == IF os[f.os].kind = "dir" /\ new_off = 0 THEN NewList ELSE NoList
  IN /\ os[f.os].kind = "dir" => whence = "SET"
     /\ \/ /\ os' = [os EXCEPT ![f.os].pos = at]
           /\ Succeed
           /\ UNCHANGED <<fds, view>>
        \/ /\ new_off \in 0..MaxOff /\ os[f.os].kind # "tty"
           /\ os' = [os EXCEPT ![f.os].pos = new_off]
           /\ Seek(fd, new_off, position, list)

__fd_lseek ==
  /\ Room /\ fs' = Tick(fs) /\ UNCHANGED <<disk, fault>>
  /\ \E fd \in FD, offset \in {-1, 0, 1}, whence \in {"SET", "CUR", "END"} :
       IF ~Valid(fd) THEN Report("EBADF") /\ UNCHANGED <<fds, os, view>>
       ELSE IF Symbolic(fd) THEN LseekSymbolic(fd, offset, whence)
       ELSE LseekConcrete(fd, offset, whence)

----------------------------------------------------------------------------
\* getdents: first the symbolic files, then, behind offset DirBase, the
\* entries of the operating system.  An entry of an unlinked file has d_ino 0
\* and is skipped by readdir.  The buffer holds DirBase bytes or more, and an
\* entry of a symbolic file counts 1.

SymEntries(i) ==
  {df \in SymFile : disk[df].linked /\ \E j \in i + 1..n_sym_files : SymFiles[j] = df}

ListSymbolic(fd) ==
  LET i == fds[fd].off IN
  /\ UNCHANGED os
  /\ IF i > n_sym_files THEN Report("EINVAL") /\ UNCHANGED <<fds, view>>
     ELSE /\ fds' = [fds EXCEPT ![fd].off = DirBase]
          /\ Succeed
          /\ view' = [Placed(fd, DirBase) EXCEPT !.list[fd] = Shown(@, SymEntries(i))]

\* The position the entries are read from, after the lseek
ListFromThere(f) == os[f.os].pos
ListFrom(f) == f.off - DirBase

ListConcrete(fd) ==
  LET f == fds[fd]
      from == ListFrom(f)
      rest == Max({0, OsSize - from})
  IN \/ /\ Succeed
        /\ os' = [os EXCEPT ![f.os].pos = from]
        /\ UNCHANGED <<fds, view>>
     \/ \E n \in Min({1, rest})..rest :
          /\ os' = [os EXCEPT ![f.os].pos = from + n]
          /\ fds' = [fds EXCEPT ![fd].off = DirBase + from + n]
          /\ Result("getdents", fd, n, <<>>, <<>>)
          /\ view' = [Moved(fd, n) EXCEPT
               !.list[fd] = Shown(@, {OsEntries[j] : j \in from + 1..from + n})]

__fd_getdents ==
  /\ Room /\ fs' = Tick(fs) /\ UNCHANGED <<disk, fault>>
  /\ \E fd \in FD :
       IF ~Valid(fd)
       THEN Report("EBADF") /\ UNCHANGED <<fds, os, view>>
       ELSE IF Symbolic(fd)
       THEN Report("EINVAL") /\ UNCHANGED <<fds, os, view>>
       ELSE /\ os[fds[fd].os].kind = "dir"
            /\ IF fds[fd].off < DirBase THEN ListSymbolic(fd) ELSE ListConcrete(fd)

----------------------------------------------------------------------------
\* Calls that change the symbolic file system

\* rmdir, unlink and unlinkat: an unlinked file has st_ino 0, and descriptors
\* that are open on it stay usable.  A concrete file is never removed.
Unlinked(op, pathname) ==
  LET df == __get_sym_file(pathname)
      wanted == IF op = "rmdir" THEN "dir" ELSE "reg"
  IN IF df = None THEN Report("EPERM") /\ UNCHANGED disk
     ELSE IF disk[df].kind = wanted
     THEN disk' = [disk EXCEPT ![df].linked = FALSE] /\ Succeed
     ELSE /\ Report(IF op = "rmdir" THEN "ENOTDIR"
                   ELSE IF disk[df].kind = "dir" THEN "EISDIR" ELSE "EPERM")
          /\ UNCHANGED disk

Unlink ==
  /\ Room /\ fs' = Tick(fs) /\ UNCHANGED <<fds, os, view, fault>>
  /\ \E op \in {"rmdir", "unlink", "unlinkat"}, pathname \in Paths : Unlinked(op, pathname)

__df_chmod(df, mode) ==
  IF disk[df].mine THEN disk' = [disk EXCEPT ![df].mode = mode] /\ Succeed
  ELSE Report("EPERM") /\ UNCHANGED disk

\* chmod_fail and fchmod_fail are null: the path ends where it looks at one.
ReadsFailIndex == fs.max_failures > 0

Chmod(op, df, mode) ==
  /\ fs' = Tick(fs)
  /\ IF ReadsFailIndex THEN fault' = TRUE /\ UNCHANGED <<disk, res>>
     ELSE /\ UNCHANGED fault
          /\ IF df # None THEN __df_chmod(df, mode) ELSE Succeed /\ UNCHANGED disk

AnyMode == SUBSET {"r", "w"}
chmod == \E pathname \in Paths, mode \in AnyMode : Chmod("chmod", __get_sym_file(pathname), mode)
fchmod ==
  \E fd \in FD, mode \in AnyMode :
    IF Valid(fd) THEN Chmod("fchmod", fds[fd].dfile, mode)
    ELSE fs' = Tick(fs) /\ Report("EBADF") /\ UNCHANGED <<disk, fault>>

ChangeMode == Room /\ UNCHANGED <<fds, os, view>> /\ (chmod \/ fchmod)

umask ==
  /\ Room
  /\ \E mask \in {{}, {"w"}} :
       fs' = [Tick(fs) EXCEPT !.umask = mask] /\ Succeed
  /\ UNCHANGED <<fds, disk, os, view, fault>>

\* F_SETFD on a symbolic file; the flags of a concrete one are the OS's.
fcntl ==
  /\ Room /\ fs' = Tick(fs) /\ UNCHANGED <<disk, os, view, fault>>
  /\ \E fd \in FD, cmd \in {"GETFD", "SETFD", "GETFL", "other"}, arg \in BOOLEAN :
       IF ~Valid(fd) THEN Report("EBADF") /\ UNCHANGED fds
       ELSE IF ~Symbolic(fd) THEN Succeed /\ UNCHANGED fds
       ELSE \/ /\ cmd = "SETFD"
               /\ fds' = [fds EXCEPT ![fd].flags =
                            (@ \ {"cloexec"}) \cup (IF arg THEN {"cloexec"} ELSE {})]
               /\ Succeed
            \/ cmd \in {"GETFD", "GETFL"} /\ UNCHANGED fds /\ Succeed
            \/ cmd = "other" /\ UNCHANGED fds /\ Report("EINVAL")

----------------------------------------------------------------------------
\* Calls that only answer.  For a symbolic file the answer is fixed; for any
\* other one it is the operating system's.

access(df) == IF df # None THEN None ELSE "OS"
utimes(df) == IF df # None THEN None ELSE "OS"
__fd_stat(df) == IF df # None THEN None ELSE "OS"
__fd_lstat(df) == IF df # None THEN None ELSE "OS"
chdir(df) == IF df # None THEN "ENOENT" ELSE "OS"
chown(df) == IF df # None THEN "EPERM" ELSE "OS"
lchown(df) == IF df # None THEN "EPERM" ELSE "OS"
__fd_statfs(df) == IF df # None THEN "ENOENT" ELSE "OS"
readlink(df) == IF df = None THEN "OS" ELSE IF disk[df].kind = "lnk" THEN None ELSE "EINVAL"

PathQuery ==
  /\ Room /\ UNCHANGED <<fds, disk, fs, os, view, fault>>
  /\ \E pathname \in Paths :
       LET df == __get_sym_file(pathname) IN
       \E err \in {access(df), utimes(df), __fd_stat(df), __fd_lstat(df), chdir(df), chown(df),
                   lchown(df), __fd_statfs(df), readlink(df)} : Report(err)

fstatat(fd, df) == IF Base(fd) # None THEN Base(fd) ELSE __fd_stat(df)
futimesat(fd, df) == IF Base(fd) # None THEN Base(fd) ELSE utimes(df)

BaseQuery ==
  /\ Room /\ UNCHANGED <<fds, disk, fs, os, view, fault>>
  /\ \E fd \in FD \cup {AT_FDCWD}, pathname \in Paths :
       LET df == __get_sym_file(pathname) IN
       \E err \in {fstatat(fd, df), futimesat(fd, df)} : Report(err)

__fd_fstat(fd) == IF ~Valid(fd) THEN "EBADF" ELSE IF Symbolic(fd) THEN None ELSE "OS"
fsync(fd) == IF ~Valid(fd) THEN "EBADF" ELSE IF Symbolic(fd) THEN None ELSE "OS"
fchdir(fd) == IF ~Valid(fd) THEN "EBADF" ELSE IF Symbolic(fd) THEN "ENOENT" ELSE "OS"
fchown(fd) == IF ~Valid(fd) THEN "EBADF" ELSE IF Symbolic(fd) THEN "EPERM" ELSE "OS"
fstatfs(fd) == IF ~Valid(fd) \/ Symbolic(fd) THEN "EBADF" ELSE "OS"

FdQuery ==
  /\ Room /\ UNCHANGED <<fds, disk, fs, os, view, fault>>
  /\ \E fd \in FD :
       \E err \in {__fd_fstat(fd), fsync(fd), fchdir(fd), fchown(fd), fstatfs(fd)} : Report(err)

\* The terminal requests answer for a character device, FIONREAD with the
\* number of bytes that are left.
TtyRequests == {"TCGETS", "TCSETS", "TCSETSF", "TIOCGWINSZ"}
ioctl ==
  /\ Room /\ UNCHANGED <<fds, disk, fs, os, view, fault>>
  /\ \E fd \in FD, request \in TtyRequests \cup {"TCSETSW", "TIOCSWINSZ", "FIONREAD", "MTIOCGET"} :
       IF ~Valid(fd) THEN Report("EBADF")
       ELSE IF ~Symbolic(fd) THEN Succeed
       ELSE LET chr == disk[fds[fd].dfile].kind = "chr"
                left == Max({0, Size - fds[fd].off})
            IN CASE request \in TtyRequests /\ chr -> Succeed
                 [] request = "TCSETSW" /\ fd = 0 -> Succeed
                 [] request = "FIONREAD" /\ chr -> Result("FIONREAD", fd, left, <<>>, <<>>)
                 [] request = "MTIOCGET" \/ (request = "TIOCSWINSZ" /\ chr) -> Report("EINVAL")
                 [] OTHER -> Report("ENOTTY")

\* getcwd and ftruncate: counted, and nothing changes for a symbolic file.
CountedCall(op, s, err) ==
  \/ MayFail(op, s) /\ fs' = Inject(op, s) /\ Succeed
  \/ ~MustFail(op, s) /\ fs' = s /\ Report(err)

getcwd == \E err \in {None, "OS"} : CountedCall("getcwd", Count("getcwd", fs), err)
__fd_ftruncate ==
  \E fd \in FD :
    LET s == Count("ftruncate", fs) IN
    IF ~Valid(fd) THEN fs' = s /\ Report("EBADF")
    ELSE CountedCall("ftruncate", s, IF Symbolic(fd) THEN "EIO" ELSE "OS")

Truncate == Room /\ UNCHANGED <<fds, disk, os, view, fault>> /\ (getcwd \/ __fd_ftruncate)

\* select: a symbolic descriptor is always ready; the OS is asked about the
\* others and its answer is given to every descriptor below nfds that shares
\* the OS descriptor, asked for or not.
select ==
  /\ Room /\ UNCHANGED <<fds, disk, fs, os, view, fault>>
  /\ \E in_read \in SUBSET FD :
       LET sym == {i \in in_read : Valid(i) /\ Symbolic(i)}
           asked == {fds[i].os : i \in in_read \ sym}
       IN IF \E i \in in_read : ~Valid(i) THEN Report("EBADF")
          ELSE \/ asked # {} /\ sym = {} /\ Succeed
               \/ \E os_read \in {{}, asked} :
                    LET back == {i \in FD : Valid(i) /\ ~Symbolic(i) /\ fds[i].os \in os_read}
                    IN Result("select", -1, Cardinality(sym) + Cardinality(os_read),
                              SetToSeq(sym \cup back), <<>>)

----------------------------------------------------------------------------
\* klee_init_env parses the options (the constants), klee_init_fds sets up

Init ==
  /\ program \in Programs
  /\ fds = [fd \in FD |->
       CASE fd = 0 -> [os |-> 0, flags |-> {"open"}, off |-> 0,
                       dfile |-> IF SymStdin THEN "stdin" ELSE None]
         [] fd = 1 -> [os |-> 1, flags |-> {"open"}, off |-> 0,
                       dfile |-> IF SymStdout THEN "stdout" ELSE None]
         [] fd = 2 -> [os |-> 2, flags |-> {"open"}, off |-> 0, dfile |-> None]
         [] OTHER -> Zero]
  /\ disk \in [Disk -> [linked : {TRUE}, kind : Kinds \cup {"chr"}, mode : Modes, mine : Owned,
                        contents : {[i \in 1..Size |-> 0]}]]
  /\ \A df \in Disk :
       IF df \in SymFile THEN disk[df].kind \in Kinds
       ELSE disk[df].kind = "chr" /\ disk[df].mine /\ disk[df].mode = {"r", "w"}
  /\ \E save \in IF "write" \in program THEN SaveAllWrites ELSE {FALSE} :
       fs = [max_failures |-> MaxFailures, umask |-> {}, total |-> 0, save_all_writes |-> save,
             stdout_writes |-> 0, failAt |-> [op \in Allocated |-> "open"]]
  /\ os = [i \in 0..2 |-> [kind |-> "tty", pos |-> 0]]
  /\ res = Quiet
  /\ view = [pos |-> [fd \in FD |-> 0], list |-> [fd \in FD |-> NoList],
             want |-> [df \in Disk |-> disk[df].contents],
             file |-> [fd \in FD |-> fd], stale |-> {}, lost |-> {}]
  /\ fault = FALSE

Call(name) == name \in program /\ UNCHANGED program

Next ==
  \/ Call("open") /\ open
  \/ Call("openat") /\ openat
  \/ Call("close") /\ Close
  \/ Call("dup2") /\ dup2
  \/ Call("dup") /\ dup
  \/ Call("read") /\ read
  \/ Call("write") /\ write
  \/ Call("lseek") /\ __fd_lseek
  \/ Call("getdents") /\ __fd_getdents
  \/ Call("unlink") /\ Unlink
  \/ Call("chmod") /\ ChangeMode
  \/ Call("umask") /\ umask
  \/ Call("fcntl") /\ fcntl
  \/ Call("ftruncate") /\ Truncate
  \/ Call("query") /\ (PathQuery \/ BaseQuery \/ FdQuery \/ ioctl \/ select)

Spec == Init /\ [][Next]_vars

----------------------------------------------------------------------------
\* Properties

\* The offset of every open descriptor is the one its program computes from
\* the results of open, dup, lseek, read and write, and the program reads back
\* exactly the bytes it wrote within the initial size of the file, through
\* whichever descriptor or name it reaches the file by.  Nothing is claimed of a
\* descriptor whose copy has moved since the program last knew where it is, nor
\* of what is written through one.
Known(fd) == fd \notin view.stale /\ fds[fd].dfile \notin view.lost
ProgramView ==
  /\ \A fd \in FD \ view.stale : Valid(fd) => fds[fd].off = view.pos[fd]
  /\ \A df \in Disk \ view.lost : disk[df].contents = view.want[df]
  /\ res.op = "read" /\ Known(res.fd) => res.data = res.want
  /\ res.op = "FIONREAD" /\ res.fd \notin view.stale => res.ret = Max({0, Size - view.pos[res.fd]})

\* Duplicates of a descriptor share the offset of one open file: what dup2 says
\* of the copy it makes instead, "XXX Incorrect, really we need another data
\* structure for open files".  DocDuplicateOffset.cfg shows that they do not.
DuplicatesShareOffset == \A fd \in FD : Valid(fd) => fds[fd].off = view.pos[fd]

\* A directory listed from its beginning to its end has shown every entry of
\* the operating system and every symbolic file that is still linked exactly
\* once, also when copies of the descriptor are listed in turns.  A copy is a
\* listing of its own, which goes on from where it was made.
ListingComplete ==
  (res.op = "getdents" /\ res.ret = 0 /\ view.list[res.fd].whole) =>
    LET seen == view.list[res.fd].seen IN
    /\ \A e \in OsEntry : seen[e] = 1
    /\ \A df \in SymFile : seen[df] = 1 \/ (seen[df] = 0 /\ ~disk[df].linked)

\* Each kind of call fails by injection at most once on a path, and all of
\* them together no more often than -max-fail allows.
InjectedOnce ==
  /\ fs.max_failures >= 0
  /\ MaxFailures - fs.max_failures = Cardinality({op \in Allocated : fs.failAt[op] # "open"})

=============================================================================
