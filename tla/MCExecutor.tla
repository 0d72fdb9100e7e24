----------------------------- MODULE MCExecutor -----------------------------
(* Executor for TLC; the cfg files choose the options and the bounds.        *)
EXTENDS Executor

\* --max-forks=-1, the default: more forks than MaxStates allows
Unlimited == 1000

\* a program with every kind of instruction the life cycle depends on, none of
\* which meets one of the code's open problems
PlainProgram == {"br", "switch", "indirectbr", "call", "mem", "alloc", "free"}
=============================================================================
