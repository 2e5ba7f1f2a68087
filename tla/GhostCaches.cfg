\* Three keys for two places.  A second list of two elements has one key twice, or two
\* keys, live or left over.  Panics of ARC stop the process.
CONSTANTS
  Keys = {k1, k2, k3}
  Values = {v1}
  Durations = {1}
  TTLs = {0}
  MaxEntries = 2
  Policies = {"2Q", "ARC"}
  MaxElements = 2
  MaxNow = 3
SPECIFICATION Spec
SYMMETRY Symmetry
CONSTRAINT FewOnceStopped
CHECK_DEADLOCK FALSE
INVARIANTS TypeOK MapMatchesLists TwoQKeepsLimit EvictFindsVictim
PROPERTIES ImplementsLossyCache SweepLeavesNothingStale
