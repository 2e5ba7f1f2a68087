---------------------------- MODULE MCGhostCaches ------------------------------
(* Small instances of GhostCaches: see the cfg files for the values.       *)
EXTENDS GhostCaches

\* Bound: few elements once Close has begun, and fewer when it is over, since what the
\* operations do to the lists depends on neither.
FewOnceStopped ==
  LET elements == Len(c.recent) + Len(c.frequent)
  IN /\ stopped => elements <= 2
     /\ closed => elements <= 1

\* Nothing distinguishes one key from another.
Symmetry == Permutations(Keys)
================================================================================
