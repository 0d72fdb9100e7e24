------------------------------ MODULE Distances ------------------------------
(* How far a path is from code no path has covered                            *)
(* (StatsTracker::computeReachableUncovered), which the searchers that weigh  *)
(* states by md2u and covnew go by.  A program p has its instructions in      *)
(* p.code, in module order: a kind, the successors and, of a call, the        *)
(* functions it may reach; p.entry maps the defined functions to their first  *)
(* instructions, p.returns says which declared ones return.  A distance       *)
(* counts instructions, and 0 stands for unreachable.                         *)
EXTENDS Integers, Sequences, SequencesExt, FiniteSetsExt

Least(S) == IF S \ {0} = {} THEN 0 ELSE Min(S \ {0})
Plus(n, dist) == IF dist = 0 THEN 0 ELSE n + dist
Backwards(p) == [n \in DOMAIN p.code |-> Len(p.code) + 1 - n]

\* the shortest way through instruction i: a call takes its callee's along
bestThrough(p, shortest, i) ==
  IF p.code[i].k # "call" THEN 1 ELSE Least({Plus(1, shortest[f]) : f \in p.code[i].targets})

\* one instruction of the fixpoint of minDistToReturn
ReturnStep(p, acc, i) ==
  LET through == bestThrough(p, acc.shortest, i)
      best == Least({acc.dist[i]} \cup {Plus(through, acc.dist[j]) : j \in p.code[i].succ})
      mine == {f \in DOMAIN p.entry : p.entry[f] = i}
  IN  IF through = 0 \/ (best = acc.dist[i] /\ \A f \in mine : acc.shortest[f] = best) THEN acc
      ELSE [dist |-> [acc.dist EXCEPT ![i] = best], changed |-> TRUE,
            shortest |-> [f \in DOMAIN acc.shortest |-> IF f \in mine THEN best ELSE acc.shortest[f]]]

RECURSIVE ReturnLoop(_, _)
ReturnLoop(p, acc) ==
  LET next == FoldLeft(LAMBDA a, i : ReturnStep(p, a, i), [acc EXCEPT !.changed = FALSE], Backwards(p))
  IN  IF next.changed THEN ReturnLoop(p, next) ELSE next

\* minDistToReturn and functionShortestPath, computed once
minDistToReturn(p) ==
  ReturnLoop(p, [dist |-> [i \in DOMAIN p.code |-> IF p.code[i].k = "ret" THEN 1 ELSE 0],
                 shortest |-> [f \in DOMAIN p.entry \cup DOMAIN p.returns |->
                                 IF f \in DOMAIN p.returns /\ p.returns[f] THEN 1 ELSE 0],
                 changed |-> FALSE])

\* Mutant of UncoveredStep: a call that never returns is passed at no cost.
UncoveredStepPast(p, shortest, acc, i) ==
  LET best == Least({acc.dist[i]} \cup
                    {Plus(bestThrough(p, shortest, i), acc.dist[j]) : j \in p.code[i].succ})
  IN  [dist |-> [acc.dist EXCEPT ![i] = best], changed |-> acc.changed \/ best # acc.dist[i]]

\* one instruction of the fixpoint of minDistToUncovered.  The distance of a
\* callee is read at the id of the function, behind those of the instructions,
\* where none is ever stored: it is always 0, and does not count.
UncoveredStep(p, shortest, acc, i) ==
  LET through == bestThrough(p, shortest, i)
      best == Least({acc.dist[i]} \cup
                    {Plus(through, acc.dist[j]) : j \in IF through = 0 THEN {} ELSE p.code[i].succ})
  IN  [dist |-> [acc.dist EXCEPT ![i] = best], changed |-> acc.changed \/ best # acc.dist[i]]

RECURSIVE UncoveredLoop(_, _, _)
UncoveredLoop(p, shortest, acc) ==
  LET next == FoldLeft(LAMBDA a, i : UncoveredStep(p, shortest, a, i),
                       [acc EXCEPT !.changed = FALSE], Backwards(p))
  IN  IF next.changed THEN UncoveredLoop(p, shortest, next) ELSE next

minDistToUncovered(p, shortest, covered) ==
  UncoveredLoop(p, shortest, [dist |-> [i \in DOMAIN p.code |-> IF i \in covered THEN 0 ELSE 1],
                              changed |-> FALSE]).dist

\* from instruction i, in a frame whose return address is minDistAtRA away
computeMinDistToUncovered(t, i, minDistAtRA) ==
  LET distToReturn == t.toReturn[i]
      local == t.toUncovered[i]
  IN  IF minDistAtRA = 0 \/ distToReturn = 0 THEN local
      ELSE Least({local, distToReturn + minDistAtRA})

\* the frames of a state: each but the last goes on behind the call of the next
RECURSIVE UpdateFrames(_, _, _, _, _)
UpdateFrames(t, stack, pc, n, dist) ==
  IF n > Len(stack) THEN stack
  ELSE UpdateFrames(t, [stack EXCEPT ![n].minDistToUncoveredOnReturn = dist], pc, n + 1,
                    computeMinDistToUncovered(t, IF n = Len(stack) THEN pc ELSE stack[n + 1].caller + 1,
                                              dist))
=============================================================================
