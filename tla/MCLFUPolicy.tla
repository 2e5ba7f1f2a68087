------------------------------ MODULE MCLFUPolicy ------------------------------
(* Small instances of LFUPolicy: see the cfg files for the values.         *)
EXTENDS LFUPolicy

\* Nothing distinguishes one key, or one value, from another.
Symmetry == Permutations(Keys) \cup Permutations(Values)
================================================================================
