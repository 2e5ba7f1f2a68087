--------------------------- MODULE MCPartitionEngine ---------------------------
(* Small instances of PartitionEngine: see the cfg files for the values.   *)
EXTENDS PartitionEngine, TLC

With(type, size, partition, hashFunc) ==
  [Type |-> type, Size |-> size, Partition |-> partition, hashFunc |-> hashFunc]

\* Each type of cache with two engines, a share of Size for each and none, and 2Q with
\* three; the hash of the caller's own is the one that may miss.
MCArguments ==
  {With("lru", 2, 0, "given"), With("lru", 1, 0, "nil"),
   With("random", 2, 0, "nil"), With("random", 1, 0, "nil"),
   With("lfu", 2, 0, "nil"), With("lfu", 1, 0, "nil"),
   With("twoq", 2, 0, "nil"), With("twoq", 2, 3, "nil"),
   With("arc", 2, 0, "nil")}

\* Nothing distinguishes one thread, one rule, or one text of a rule from another.
Symmetry == Permutations(Threads) \cup Permutations(Rules) \cup Permutations(WellFormed)
================================================================================
