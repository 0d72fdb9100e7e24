----------------------------- MODULE MCSearchers -----------------------------
(* Searchers for TLC.                                                         *)
EXTENDS Searchers

Options(searches, deepenings) ==
  [search : searches, branching : BOOLEAN, batching : BOOLEAN, deepening : deepenings]

\* one of each kind alone, the default pair, and pairs of lists; iterative
\* deepening only over searchers that have a list
SafeConfigs ==
  Options({<<"DFS">>, <<"BFS">>, <<"NURS">>, <<"ML">>, <<"BFS", "NURS_Depth">>}, BOOLEAN)
  \cup Options({<<"RandomPath", "NURS">>, <<"SGS", "RandomPath", "RandomState">>}, {FALSE})

\* the default searchers under iterative deepening
DefaultDeepening == Options({<<"RandomPath", "NURS">>}, {TRUE})
=============================================================================
