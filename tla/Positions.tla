-------------------------------- MODULE Positions ------------------------------
(* What is left of a list at some of its positions, in the order it had.   *)
EXTENDS Naturals, FiniteSets

\* The position of ps that has n others before it.
NthOf(ps, n) == CHOOSE i \in ps : Cardinality({h \in ps : h < i}) = n

Only(list, ps) == [j \in 1..Cardinality(ps) |-> list[NthOf(ps, j - 1)]]
================================================================================
