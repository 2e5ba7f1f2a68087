\* Three keys for two places: a victim of two, after hits that reorder them.  Durations
\* above the default TTL and below it; an entry set at 1 is stale at 3.  No symmetry:
\* it is not sound for liveness.
CONSTANTS
  Keys = {k1, k2, k3}
  Values = {v1}
  Durations = {0, 2}
  TTLs = {0, 1}
  MaxEntries = 2
  MaxNow = 3
SPECIFICATION FairRSpec
INVARIANTS TypeOK MapMatchesList ListSortedByUse
PROPERTIES SweepLeavesNothingStale EvictsLeastRecentlyUsed ImplementsContract StaleEntriesGo CloseEndsCleaner
