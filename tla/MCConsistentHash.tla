---------------------------- MODULE MCConsistentHash ---------------------------
(* Small instances of ConsistentHash: see the cfg files for the values.    *)
EXTENDS ConsistentHash

\* Nothing distinguishes one node from another.
Symmetry == Permutations(Nodes)
================================================================================
