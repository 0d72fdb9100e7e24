------------------------------ MODULE Formats -------------------------------
(* Queries on their way out of klee and back: a program makes expressions     *)
(* over two arrays, the solver chain is asked about them, the logging solver  *)
(* (lib/Solver/QueryLoggingSolver.cpp) writes the ones worth logging in       *)
(* KQuery form, and kleaver parses the log.                                   *)
EXTENDS SMTLIB

CONSTANTS
  printer(_),               \* printQuery of the logging solver in use
  commandParser(_, _),      \* the parser's reading of a query command
  scriptOf(_, _, _),        \* the SMT-LIB printer's script of a query
  MinQueryTimeToLog,        \* TRUE: only slow queries are logged
  DumpPartialQueriesEarly,  \* --log-partial-queries-early
  ClearArrayAfterQuery,     \* --clear-array-decls-after-query, of kleaver
  AnyBytes,                 \* TRUE: a word may be put together from any two bytes
  MaxWrites, MaxWork        \* bounds: writes to an array; steps of the program and queries

ASSUME FormatsAssumption ==
  /\ Int32 \in Nat \ {0, 1}
  /\ {MinQueryTimeToLog, DumpPartialQueriesEarly, ClearArrayAfterQuery, AnyBytes} \subseteq BOOLEAN
  /\ {MaxWrites, MaxWork} \subseteq Nat

VARIABLES
  made,        \* the expressions of the program
  mem,         \* the updates of each array
  steps,       \* how often the program made one
  asked,       \* the query being solved
  logBuffer,   \* its text, while it is not in the log
  log,         \* the declarations in the log
  logged,      \* the queries in the log
  pos,         \* how many declarations kleaver has parsed
  ArraySymTab, NumErrors,   \* of the parser
  parsed       \* the queries it returned

vars == <<made, mem, steps, asked, logBuffer, log, logged, pos, ArraySymTab, NumErrors, parsed>>
program == <<made, mem, steps>>
parser == <<pos, ArraySymTab, NumErrors, parsed>>

Buf == [name |-> "buf", size |-> 4, values |-> << >>]
Table == [name |-> "tab", size |-> 6,
          values |-> [n \in 1..6 |-> Const(Int8, IF n % 2 = 0 THEN 3 ELSE 1)]]
x == AllocRead(Buf, << >>, Zero(Int32))
NoQuery == [constraints |-> << >>, expr |-> False, values |-> << >>, objects |-> << >>]

\* a byte was stored through a symbolic index, and loaded through another
ix == AllocCast("ZExt", x, Int32)
stored == <<[i |-> ix, v |-> Zero(Int8)]>>
z == AllocRead(Buf, stored, Const(Int32, 3))
w == AllocRead(Table, stored, Create("Add", Const(Int32, 1), ix))

Init ==
  /\ \/ made = {x} /\ mem = [root \in {Buf, Table} |-> << >>]
     \/ /\ made = {x, z, Create("Ult", w, z)}
        /\ mem = [root \in {Buf, Table} |-> stored]
  /\ steps = 0
  /\ asked = NoQuery /\ logBuffer = << >> /\ log = << >> /\ logged = << >>
  /\ pos = 0 /\ ArraySymTab = << >> /\ NumErrors = 0 /\ parsed = << >>

(***************************************************************************)
(* The program                                                             *)
(***************************************************************************)

Makes(a) ==
  /\ asked = NoQuery /\ logged = << >> /\ steps + 1 < MaxWork
  /\ a \notin made /\ ~IsConst(a)
  /\ made' = made \cup {a} /\ steps' = steps + 1
  /\ UNCHANGED <<mem, asked, logBuffer, log, logged>> /\ UNCHANGED parser

Bytes == {a \in made : a.w = Int8}
Conditions == {a \in made : a.w = Bool}
\* what the program indexes with: a constant, or a byte
Indices == {Zero(Int32)} \cup {CastCreate("ZExt", a, Int32) : a \in Bytes}

Compute ==
  \/ \E a, b \in Bytes : Makes(Create("Add", a, b))
  \/ \E a \in Bytes : Makes(Create("Mul", Const(Int8, 3), a))
  \/ \E a \in made : a.w # Bool /\ Makes(Create("Ult", a, Const(a.w, 2)))
  \/ \E a \in made : Makes(Create("Eq", a, Zero(a.w)))
  \/ \E a \in Bytes : Makes(NotCreate(a))
  \/ \E a \in made : a.w = 2 * Int8 /\ Makes(ExtractCreate(a, 1, Int8))
  \/ \E a \in Bytes, op \in {"ZExt", "SExt"} : Makes(CastCreate(op, a, 2 * Int8))
  \/ \E c \in Conditions, a \in Bytes : Makes(SelectCreate(c, a, Const(Int8, 1)))
  \/ \E c, d \in Conditions : Makes(SelectCreate(c, d, Create("Eq", d, False)))
  \/ \E c, d \in Conditions, op \in {"And", "Or"} : c # d /\ Makes(Create(op, c, d))
  \/ \E c \in Conditions, a \in Bytes : Makes(Create("AShr", a, CastCreate("ZExt", c, Int8)))

\* A word is put together from its bytes.  The printer takes two bytes for an
\* ordered read whatever they are read from, and the parser has no width for a
\* constant before a byte: only if AnyBytes.
LoadWord(high, low) ==
  /\ \/ AnyBytes
     \/ /\ ~IsConst(high)
        /\ high.k = "Read" /\ low.k = "Read" =>
             high.root = low.root /\ high.updates = low.updates
  /\ Makes(ConcatCreate(high, low))

Load ==
  \E root \in DOMAIN mem, i \in Indices :
    LET first == ReadCreate(root, mem[root], i)
        second == ReadCreate(root, mem[root], Create("Add", i, Const(Int32, 1)))
    IN  \/ Makes(first)
        \/ LoadWord(second, first)     \* little endian
        \/ LoadWord(first, second)     \* big endian

\* bytes that were stored one by one
LoadMixed ==
  \E a, b \in Bytes \cup {Zero(Int8)} : LoadWord(a, b)

Store ==
  /\ asked = NoQuery /\ logged = << >> /\ steps + 1 < MaxWork
  /\ \E root \in DOMAIN mem, i \in Indices, v \in Bytes \cup {Zero(Int8)} :
       /\ Len(mem[root]) < MaxWrites
       /\ mem' = [mem EXCEPT ![root] = <<[i |-> i, v |-> v]>> \o @]
  /\ steps' = steps + 1
  /\ UNCHANGED <<made, asked, logBuffer, log, logged>> /\ UNCHANGED parser

(***************************************************************************)
(* The logging solver                                                      *)
(***************************************************************************)

\* the text of the query is in the log
Writes(q, text) == log' = log \o text /\ logged' = Append(logged, q)

\* computeTruth, computeValue and computeInitialValues
Queries ==
  LET cs == SetToSeq(Conditions)
  IN  {[constraints |-> cs, expr |-> a, values |-> << >>, objects |-> << >>] : a \in Conditions}
      \cup {[constraints |-> cs, expr |-> False, values |-> <<a>>, objects |-> << >>] :
            a \in (made \ Conditions) \cup {Const(Int8, 2)}}
      \cup {[constraints |-> cs, expr |-> a, values |-> << >>, objects |-> <<Buf>>] : a \in Conditions}

startQuery ==
  /\ asked = NoQuery /\ steps + Len(logged) < MaxWork /\ pos = 0
  /\ \E q \in Queries :
       /\ asked' = q
       /\ IF DumpPartialQueriesEarly
          THEN Writes(q, printer(q)) /\ logBuffer' = << >>
          ELSE logBuffer' = logBuffer \o printer(q) /\ UNCHANGED <<log, logged>>
  /\ UNCHANGED program /\ UNCHANGED parser

\* finishQuery and flushBuffer
finishQuery ==
  /\ asked # NoQuery
  /\ \E slow \in BOOLEAN :
       IF (~MinQueryTimeToLog \/ slow) /\ logBuffer # << >>
       THEN Writes(asked, logBuffer) ELSE UNCHANGED <<log, logged>>
  /\ asked' = NoQuery /\ logBuffer' = << >>
  /\ UNCHANGED program /\ UNCHANGED parser

(***************************************************************************)
(* kleaver                                                                 *)
(***************************************************************************)

ParseTopLevelDecl ==
  /\ asked = NoQuery /\ pos < Len(log)
  /\ LET decl == log[pos + 1]
         a == ParseArrayDecl(decl)
         q == commandParser(decl, ArraySymTab)
     IN  IF decl.t = "array"
         THEN /\ ArraySymTab' = (decl.id :> a.root) @@ ArraySymTab
              /\ NumErrors' = NumErrors + a.NumErrors
              /\ UNCHANGED parsed
         ELSE /\ parsed' = Append(parsed, q.query)
              /\ NumErrors' = NumErrors + q.NumErrors
              /\ ArraySymTab' = IF ClearArrayAfterQuery THEN << >> ELSE ArraySymTab
  /\ pos' = pos + 1
  /\ UNCHANGED <<made, mem, steps, asked, logBuffer, log, logged>>

Next == Compute \/ Load \/ Store \/ LoadMixed \/ startQuery \/ finishQuery \/ ParseTopLevelDecl

Spec == Init /\ [][Next]_vars

(***************************************************************************)
(* Properties                                                              *)
(***************************************************************************)

\* kleaver reads the log without an error, and what it reads are the queries
\* that were logged, in their order: labels stand for the nodes and the updates
\* they were given to, numbers get back their width, and a ReadLSB or ReadMSB
\* its bytes (ExprPPrinter.cpp, Parser.cpp; test/Feature/ExprLogging.c).
ReadBack ==
  /\ NumErrors = 0
  /\ Len(parsed) <= Len(logged)
  /\ \A n \in DOMAIN parsed : parsed[n] = logged[n]


\* the contents of the arrays, with the table's values or with others
Contents ==
  {[id \in {"buf", "tab"} |->
      [i \in 0..Pow2(Int32) - 1 |->
         IF id = "buf" THEN Trunc(b + 3 * i, Int8)
         ELSE IF b < Pow2(Int8) /\ i < Table.size THEN Table.values[i + 1].c ELSE 2]] :
   b \in 0..Pow2(Int8)}

\* In each of its forms the SMT-LIB script is well sorted, refers only to arrays
\* it declares and to terms it has bound, and holds for exactly those contents
\* of the arrays that satisfy the constraints and not the query
\* (ExprSMTLIBPrinter.cpp).
ScriptMeans(script) ==
  \A c \in Contents :
    LET holds == /\ \A n \in DOMAIN asked.constraints : Eval(asked.constraints[n], c["buf"]) = 1
                 /\ Eval(asked.expr, c["buf"]) = 0
        table == \A i \in 0..Table.size - 1 : c["tab"][i] = Table.values[i + 1].c
    IN  Satisfied(script, c) = Truth(holds /\ ("tab" \in script.declared => table))
ScriptsRight ==
  asked # NoQuery =>
    \A mode \in {"none", "let", "named"} : ScriptMeans(scriptOf(asked, mode, FALSE))
=============================================================================
