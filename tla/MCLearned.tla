------------------------------ MODULE MCLearned ------------------------------
(* Learned with the branch conditions and the searcher lists to check.       *)
EXTENDS Learned

Leaf == [k |-> "Constant", kids |-> << >>]

\* a comparison of a byte of input with a constant
Conditions == {[k |-> "Ult", kids |-> <<[k |-> "Read", kids |-> <<Leaf>>], Leaf>>]}
\* what they and their negations are made of
Terms == Conditions \cup {Negated(c) : c \in Conditions}
         \cup {Leaf, [k |-> "Read", kids |-> <<Leaf>>]}
AllCores == {<<"ML">>, <<"SGS">>, <<"ML", "SGS">>}
Symmetry == Permutations(State)
====
