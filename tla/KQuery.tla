------------------------------- MODULE KQuery -------------------------------
(* The KQuery form of a query: what ExprPPrinter writes (lib/Expr/            *)
(* ExprPPrinter.cpp) and what the parser of kleaver makes of it               *)
(* (lib/Expr/Parser.cpp).  A text is the tree of its tokens; layout and       *)
(* comments are left out.  Nodes that occur more than once are printed once,  *)
(* with a label N<i>, updates with a label U<i>, and runs of byte reads as    *)
(* one ReadLSB or ReadMSB.                                                    *)
EXTENDS Expr, TLC

CONSTANT Int32     \* bits of an index, the domain of every array (32 in the code)

(***************************************************************************)
(* The text                                                                *)
(***************************************************************************)

Label(prefix, n) == prefix \o ToString(n)
NoLabel == ""

Number(digits, w) == [t |-> "number", digits |-> digits, w |-> w]     \* w = 0: no width
BoolText(v) == [t |-> "bool", v |-> v]
Name(id) == [t |-> "name", id |-> id]
Paren(label, id, w, args) == [t |-> "paren", label |-> label, id |-> id, w |-> w, args |-> args]
Version(label, writes, base) == [t |-> "version", label |-> label, writes |-> writes, base |-> base]

(***************************************************************************)
(* Printing                                                                *)
(***************************************************************************)

Kids(a) ==
  CASE a.k = "Read" -> <<a.index>>
    [] a.k = "Select" -> <<a.cond, a.l, a.r>>
    [] a.k \in {"Extract", "ZExt", "SExt", "Not", "NotOptimized"} -> <<a.e>>
    [] OTHER -> <<a.l, a.r>>

RECURSIVE scan1(_, _)
RECURSIVE scanUpdate(_, _, _)

scanUpdate(root, un, s) ==
  IF un = << >> THEN s
  ELSE IF <<root, un>> \in s.couldPrintUpdates
  THEN [s EXCEPT !.shouldPrintUpdates = @ \cup {<<root, un>>}]
  ELSE scan1(un[1].v, scan1(un[1].i,
         scanUpdate(root, Tail(un), [s EXCEPT !.couldPrintUpdates = @ \cup {<<root, un>>}])))

scan1(a, s) ==
  IF IsConst(a) THEN s
  ELSE IF a \in s.couldPrint THEN [s EXCEPT !.shouldPrint = @ \cup {a}]
  ELSE LET t == FoldLeft(LAMBDA acc, kid : scan1(kid, acc),
                         [s EXCEPT !.couldPrint = @ \cup {a}], Kids(a))
       IN  IF a.k = "Read"
           THEN scanUpdate(a.root, a.updates, [t EXCEPT !.usedArrays = @ \cup {a.root}])
           ELSE t

RECURSIVE Digits(_)
Digits(v) == IF v < 10 THEN <<v>> ELSE Append(Digits(v \div 10), v % 10)

printConst(a, printWidth) ==
  IF a.w = Bool THEN BoolText(a.c) ELSE Number(Digits(a.c), IF printWidth THEN a.w ELSE 0)

\* concat chains are unbalanced to the right
RECURSIVE Chain(_)
Chain(a) == IF a.k = "Concat" THEN <<a.l>> \o Chain(a.r) ELSE <<a>>

isReadExprAtOffset(a, base, offset) ==
  a.k = "Read" /\ Create("Sub", a.index, base.index) = offset

\* Mutant of hasOrderedReads: the offsets are not compared.
AnyReads(a, stride) ==
  LET kids == Chain(a) IN
  IF stride = 1 /\ \A n \in DOMAIN kids : kids[n].k = "Read" THEN <<kids[1]>> ELSE << >>

\* the read at the lowest index, or nothing
hasOrderedReads(a, stride) ==
  LET kids == Chain(a)
  IN  IF /\ kids[1].k = "Read"
         /\ \A n \in 2..Len(kids) :
              isReadExprAtOffset(kids[n], kids[1], Const(Int32, Trunc(stride * (n - 1), Int32)))
      THEN IF stride = 1 THEN <<kids[1]>> ELSE <<kids[Len(kids)]>>
      ELSE << >>

RECURSIVE print(_, _, _)
RECURSIVE printUpdateList(_, _, _)
RECURSIVE Segment(_, _, _, _, _)

\* printing threads the labels given so far; bindings[i + 1] is the node N<i>
Bound(seq, x) == \E i \in DOMAIN seq : seq[i] = x
LabelOf(seq, x) == CHOOSE i \in DOMAIN seq : seq[i] = x
Printed(text, p) == [text |-> text, p |-> p]

\* the writes from un on that go into one pair of brackets
Segment(root, un, p, writes, label) ==
  LET i == print(un[1].i, FALSE, p)
      v == print(un[1].v, FALSE, i.p)
      now == Append(writes, <<i.text, v.text>>)
      next == <<root, Tail(un)>>
  IN  IF \/ Tail(un) = << >>
         \/ Bound(v.p.updateBindings, next)
         \/ next \in v.p.shouldPrintUpdates
      THEN LET base == printUpdateList(root, Tail(un), v.p)
           IN  Printed(Version(label, now, base.text), base.p)
      ELSE Segment(root, Tail(un), v.p, now, label)

printUpdateList(root, un, p) ==
  IF un = << >> THEN Printed(Name(root.name), p)
  ELSE IF Bound(p.updateBindings, <<root, un>>)
  THEN Printed(Name(Label("U", LabelOf(p.updateBindings, <<root, un>>) - 1)), p)
  ELSE IF <<root, un>> \in p.shouldPrintUpdates
  THEN Segment(root, un, [p EXCEPT !.updateBindings = Append(@, <<root, un>>)], << >>,
               Label("U", Len(p.updateBindings)))
  ELSE Segment(root, un, p, << >>, NoLabel)

printRead(label, id, w, re, p) ==
  LET i == print(re.index, FALSE, p)
      u == printUpdateList(re.root, re.updates, i.p)
  IN  Printed(Paren(label, id, w, <<i.text, u.text>>), u.p)

\* the first argument is printed without its width
printExpr(label, a, p, printConstWidth) ==
  LET Step(acc, n) == LET r == print(Kids(a)[n], n > 1 /\ printConstWidth, acc.p)
                      IN  Printed(Append(acc.text, r.text), r.p)
      args == FoldLeft(Step, Printed(<< >>, p), [n \in DOMAIN Kids(a) |-> n])
  IN  Printed(Paren(label, a.k, a.w, args.text), args.p)

print(a, printConstWidth, p) ==
  IF IsConst(a) THEN Printed(printConst(a, printConstWidth), p)
  ELSE IF Bound(p.bindings, a) THEN Printed(Name(Label("N", LabelOf(p.bindings, a) - 1)), p)
  ELSE LET label == IF a \in p.shouldPrint THEN Label("N", Len(p.bindings)) ELSE NoLabel
           q == IF a \in p.shouldPrint THEN [p EXCEPT !.bindings = Append(@, a)] ELSE p
           lsb == IF a.k = "Concat" THEN hasOrderedReads(a, -1) ELSE << >>
           msb == IF a.k = "Concat" THEN hasOrderedReads(a, 1) ELSE << >>
       IN  CASE lsb # << >> -> printRead(label, "ReadLSB", a.w, lsb[1], q)
             [] lsb = << >> /\ msb # << >> -> printRead(label, "ReadMSB", a.w, msb[1], q)
             [] a.k = "Read" -> printRead(label, "Read", a.w, a, q)
             [] a.k = "Extract" ->
                  LET r == print(a.e, FALSE, q)
                  IN  Printed(Paren(label, "Extract", a.w, <<Number(Digits(a.off), 0), r.text>>), r.p)
             [] OTHER -> printExpr(label, a, q, a.k \in {"Concat", "SExt"})

\* a query: its constraints, its expression, the values and the arrays asked for
printQuery(q) ==
  LET all == q.constraints \o <<q.expr>> \o q.values
      s == FoldLeft(LAMBDA acc, a : scan1(a, acc),
                    [couldPrint |-> {}, shouldPrint |-> {}, couldPrintUpdates |-> {},
                     shouldPrintUpdates |-> {}, usedArrays |-> {}], all)
      Step(acc, n) == LET r == print(all[n], n > Len(q.constraints) + 1, acc.p)
                      IN  Printed(Append(acc.text, r.text), r.p)
      body == FoldLeft(Step, Printed(<< >>, [shouldPrint |-> s.shouldPrint,
                                             shouldPrintUpdates |-> s.shouldPrintUpdates,
                                             bindings |-> << >>, updateBindings |-> << >>]),
                       [n \in DOMAIN all |-> n]).text
      c == Len(q.constraints)
      Decl(arr) == [t |-> "array", id |-> arr.name, size |-> arr.size,
                    values |-> [n \in DOMAIN arr.values |-> printConst(arr.values[n], FALSE)]]
      arrays == SetToSeq(s.usedArrays \cup Range(q.objects))
  IN  [n \in DOMAIN arrays |-> Decl(arrays[n])] \o
      <<[t |-> "query", constraints |-> SubSeq(body, 1, c), expr |-> body[c + 1],
         values |-> SubSeq(body, c + 2, Len(body)), objects |-> [n \in DOMAIN q.objects |-> q.objects[n].name]]>>

(***************************************************************************)
(* Parsing                                                                 *)
(***************************************************************************)

NoType == 0
\* a result: valid or not, the expression, and the state of the parser
Valid(a, s) == [ok |-> TRUE, e |-> a, s |-> s]
Invalid(s) == [ok |-> FALSE, e |-> False, s |-> s]
Error(s) == [s EXCEPT !.NumErrors = @ + 1]
Insert(tab, key, value) == IF key \in DOMAIN tab THEN tab ELSE tab @@ (key :> value)

ParseNumberToken(w, digits) ==
  Const(w, Trunc(FoldLeft(LAMBDA v, d : 10 * v + d, 0, digits), w))

RECURSIVE ParseExpr(_, _, _)
RECURSIVE ParseVersionSpecifier(_, _)

IsNumber(text) == text.t = "number" /\ text.w = 0

\* a number gets the width w; an expression must have it
Coerced(text, w, s) ==
  IF IsNumber(text) THEN Valid(ParseNumberToken(w, text.digits), s)
  ELSE LET r == ParseExpr(text, NoType, s)
       IN  IF r.ok /\ r.e.w # w THEN Invalid(Error(r.s)) ELSE r

\* the writes are parsed first and typed, the base last
ParseVersion(text, s) ==
  LET Step(acc, n) == LET i == Coerced(text.writes[n][1], Int32, acc.s)
                          v == Coerced(text.writes[n][2], Int8, i.s)
                      IN  [ul |-> IF i.ok /\ v.ok THEN Append(acc.ul, [i |-> i.e, v |-> v.e]) ELSE acc.ul,
                           s |-> v.s]
      ws == FoldLeft(Step, [ul |-> << >>, s |-> s], [n \in DOMAIN text.writes |-> n])
      base == ParseVersionSpecifier(text.base, ws.s)
  IN  IF base.ok THEN Valid([base.e EXCEPT !.updates = ws.ul \o @], base.s) ELSE base

ParseVersionSpecifier(text, s) ==
  IF text.t = "name"
  THEN IF text.id \in DOMAIN s.VersionSymTab THEN Valid(s.VersionSymTab[text.id], s)
       ELSE Invalid(Error(s))
  ELSE LET dup == text.label \in DOMAIN s.VersionSymTab
           v == ParseVersion(text, IF dup THEN Error(s) ELSE s)
           r == IF v.ok THEN v
                ELSE Valid([root |-> [name |-> "", size |-> 0, values |-> << >>],
                            updates |-> << >>], v.s)
       IN  IF text.label = NoLabel \/ dup THEN r
           ELSE [r EXCEPT !.s.VersionSymTab = Insert(@, text.label, r.e)]

\* ConcatExpr::createN
createN(kids) == FoldRight(LAMBDA a, r : ConcatCreate(a, r), Front(kids), Last(kids))

ParseAnyRead(text, s) ==
  LET i == Coerced(text.args[1], Int32, s)
      u == ParseVersionSpecifier(text.args[2], i.s)
      reads == text.w \div Int8
      read(n) == AllocRead(u.e.root, u.e.updates,
                           IF n = 0 THEN i.e ELSE Create("Add", i.e, Const(Int32, n)))
  IN  IF ~u.ok \/ ~i.ok THEN Valid(Zero(text.w), u.s)
      ELSE IF text.id = "Read" THEN Valid(read(0), u.s)
      ELSE IF reads * Int8 # text.w THEN Valid(Zero(text.w), Error(u.s))
      ELSE Valid(createN([n \in 1..reads |->
                            read(IF text.id = "ReadLSB" THEN reads - n ELSE n - 1)]), u.s)

ParseConcat(text, s) ==
  LET Step(acc, arg) == IF ~acc.ok THEN acc
                        ELSE LET r == ParseExpr(arg, NoType, acc.s)
                             IN  [ok |-> r.ok, kids |-> Append(acc.kids, r.e), s |-> r.s]
      args == FoldLeft(Step, [ok |-> TRUE, kids |-> << >>, s |-> s], text.args)
      width == FoldLeft(LAMBDA n, kid : n + kid.w, 0, args.kids)
  IN  IF ~args.ok THEN Valid(Zero(text.w), args.s)
      ELSE IF width # text.w THEN Valid(Zero(text.w), Error(args.s))
      ELSE Valid(createN(args.kids), args.s)

ParseExtract(text, s) ==
  LET off == ParseNumberToken(Int32, text.args[1].digits).c
      child == ParseExpr(text.args[2], NoType, s)
  IN  IF ~child.ok THEN Valid(Zero(text.w), child.s)
      ELSE IF off + text.w > child.e.w THEN Valid(Zero(text.w), Error(child.s))
      ELSE Valid(AllocExtract(child.e, off, text.w), child.s)

ParseUnary(text, s) ==
  LET r == ParseExpr(text.args[1], IF text.id = "Not" THEN text.w ELSE NoType, s)
      arg == IF r.ok THEN r.e ELSE Zero(text.w)
  IN  Valid(IF text.id = "Not" THEN AllocNot(arg) ELSE AllocCast(text.id, arg, text.w), r.s)

\* two arguments of one type; a number takes it from the other argument
ParseMatchedBinaryArgs(left, right, type, s) ==
  LET both == type = NoType /\ IsNumber(left) /\ IsNumber(right)
      fromRight == type = NoType /\ IsNumber(left) /\ ~both
      l == ParseExpr(left, type, s)
      r == IF fromRight THEN ParseExpr(right, NoType, s)
           ELSE ParseExpr(right, IF type = NoType /\ l.ok THEN l.e.w ELSE type, l.s)
  IN  IF both THEN [ok |-> FALSE, l |-> False, r |-> False, s |-> Error(s)]
      ELSE IF fromRight
      THEN [ok |-> r.ok, l |-> ParseNumberToken(r.e.w, left.digits), r |-> r.e, s |-> r.s]
      ELSE [ok |-> l.ok /\ r.ok, l |-> l.e, r |-> r.e, s |-> r.s]

ParseBinary(text, s) ==
  LET a == ParseMatchedBinaryArgs(text.args[1], text.args[2],
                                  IF text.id \in Comparison THEN NoType ELSE text.w, s)
  IN  IF ~a.ok THEN Valid(Zero(text.w), a.s)
      ELSE IF a.l.w # a.r.w THEN Valid(Zero(text.w), Error(a.s))
      ELSE Valid(Alloc(text.id, a.l, a.r), a.s)

ParseSelect(text, s) ==
  LET c == ParseExpr(text.args[1], Bool, s)
      a == ParseMatchedBinaryArgs(text.args[2], text.args[3], text.w, c.s)
  IN  IF c.ok /\ a.ok THEN Valid(AllocSelect(c.e, a.l, a.r), a.s) ELSE Valid(Zero(text.w), a.s)

\* the kinds that LookupExprInfo knows
ParseParenExpr(text, s) ==
  CASE text.t = "number" -> Valid(ParseNumberToken(text.w, text.digits), s)
    [] text.t = "paren" /\ text.id \in {"Read", "ReadLSB", "ReadMSB"} -> ParseAnyRead(text, s)
    [] text.t = "paren" /\ text.id = "Concat" -> ParseConcat(text, s)
    [] text.t = "paren" /\ text.id = "Extract" -> ParseExtract(text, s)
    [] text.t = "paren" /\ text.id \in {"Not", "ZExt", "SExt"} -> ParseUnary(text, s)
    [] text.t = "paren" /\ text.id \in Binary -> ParseBinary(text, s)
    [] text.t = "paren" /\ text.id = "Select" -> ParseSelect(text, s)
    [] OTHER -> Invalid(Error(s))

ParseExpr(text, type, s) ==
  CASE text.t = "bool" -> Valid(Const(Bool, text.v), s)
    [] IsNumber(text) -> IF type = NoType THEN Invalid(Error(s))
                         ELSE Valid(ParseNumberToken(type, text.digits), s)
    [] text.t = "name" -> IF text.id \in DOMAIN s.ExprSymTab THEN Valid(s.ExprSymTab[text.id], s)
                          ELSE Invalid(Error(s))
    [] OTHER ->
         LET label == IF text.t = "paren" THEN text.label ELSE NoLabel
             dup == label \in DOMAIN s.ExprSymTab
             r == ParseParenExpr(text, IF dup THEN Error(s) ELSE s)
             Define(a) == IF label = NoLabel \/ dup THEN r.s
                          ELSE [r.s EXCEPT !.ExprSymTab = Insert(@, label, a)]
         IN  IF ~r.ok THEN Invalid(IF type = NoType THEN r.s ELSE Define(Zero(type)))
             ELSE IF type # NoType /\ r.e.w # type THEN Invalid(Error(r.s))
             ELSE Valid(r.e, Define(r.e))

\* the array that a declaration makes, and whether it is in error
ParseArrayDecl(decl) ==
  LET vals == [n \in DOMAIN decl.values |-> ParseNumberToken(Int8, decl.values[n].digits)]
      bad == vals # << >> /\ Len(vals) # decl.size
  IN  [root |-> [name |-> decl.id, size |-> decl.size, values |-> IF bad THEN << >> ELSE vals],
       NumErrors |-> IF bad THEN 1 ELSE 0]

\* Labels do not outlive a query; the arrays are versions from its start.
ParseQueryCommand(text, ArraySymTab) ==
  LET List(texts, type, s) ==
        FoldLeft(LAMBDA acc, u : LET r == ParseExpr(u, type, acc.s)
                                 IN  [es |-> IF r.ok THEN Append(acc.es, r.e) ELSE acc.es, s |-> r.s],
                 [es |-> << >>, s |-> s], texts)
      cs == List(text.constraints, Bool,
                 [ExprSymTab |-> << >>, NumErrors |-> 0,
                  VersionSymTab |-> [id \in DOMAIN ArraySymTab |->
                                       [root |-> ArraySymTab[id], updates |-> << >>]]])
      q == ParseExpr(text.expr, Bool, cs.s)
      vs == List(text.values, NoType, q.s)
      known == SelectSeq(text.objects, LAMBDA id : id \in DOMAIN ArraySymTab)
  IN  [query |-> [constraints |-> cs.es, expr |-> q.e, values |-> vs.es,
                  objects |-> [n \in DOMAIN known |-> ArraySymTab[known[n]]]],
       NumErrors |-> vs.s.NumErrors + Len(text.objects) - Len(known)]
=============================================================================
