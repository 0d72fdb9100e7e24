----------------------------- MODULE TreeStream -----------------------------
(* Path files (lib/Support/TreeStream.cpp).  The streams of all paths share   *)
(* one file, as a tree: a stream holds what its path took since it was        *)
(* forked off, and reading it back collects the parts of its ancestors.       *)
EXTENDS Integers, Sequences, SequencesExt

\* a record of the file: bytes of stream id, or the fork of child from it
Data(id, bytes) == [id |-> id, child |-> 0, bytes |-> bytes]
ForkOf(id, child) == [id |-> id, child |-> child, bytes |-> << >>]

NewWriter(size) ==
  [bufferSize |-> size, lastID |-> 0, buffer |-> << >>, output |-> << >>, ids |-> 1]

flushBuffer(w) ==
  IF w.buffer = << >> THEN w
  ELSE [w EXCEPT !.output = Append(@, Data(w.lastID, w.buffer)), !.buffer = << >>]

Forked(w, id) == [w EXCEPT !.output = Append(@, ForkOf(id, w.ids)), !.ids = @ + 1]

\* Mutant of openStream: what the parent wrote is still in the buffer.
OpenUnflushed(w, id) == Forked(w, id)

\* the new stream is number w.ids
openStream(w, id) == Forked(flushBuffer(w), id)

Buffered(w, id, s) ==
  IF w.buffer # << >> THEN [w EXCEPT !.buffer = @ \o s]
  ELSE IF Len(s) < w.bufferSize THEN [w EXCEPT !.lastID = id, !.buffer = s]
  ELSE [w EXCEPT !.output = Append(@, Data(id, s))]

writeStream(w, id, s) ==
  Buffered(IF id # w.lastID \/ Len(s) + Len(w.buffer) > w.bufferSize THEN flushBuffer(w) ELSE w,
           id, s)

\* the stream and its ancestors, the oldest last
RECURSIVE roots(_, _)
roots(output, id) ==
  IF id = 0 THEN << >>
  ELSE <<id>> \o roots(output, output[CHOOSE n \in DOMAIN output : output[n].child = id].id)

\* one record of the second pass: what the oldest root that is left wrote
\* counts, until it forks off the next one
Pass(acc, r) ==
  LET n == Len(acc.roots)
  IN  IF r.child # 0
      THEN IF n > 1 /\ r.id = acc.roots[n] /\ r.child = acc.roots[n - 1]
           THEN [acc EXCEPT !.roots = Front(@)] ELSE acc
      ELSE IF r.id = acc.roots[n] THEN [acc EXCEPT !.out = @ \o r.bytes] ELSE acc

\* the writer has been flushed
readStream(w, id) ==
  FoldLeft(Pass, [roots |-> roots(w.output, id), out |-> << >>], w.output).out
=============================================================================
