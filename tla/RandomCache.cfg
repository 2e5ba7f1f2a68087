\* Three keys for two places: the key just added may be drawn, or an older one at
\* either end of the slice.  Close never returns, so the system may stop.  No
\* symmetry: it is not sound for liveness.
CONSTANTS
  Keys = {k1, k2, k3}
  Values = {v1}
  Durations = {0, 2}
  TTLs = {0, 1}
  MaxEntries = 2
  MaxNow = 3
SPECIFICATION FairSpec
CHECK_DEADLOCK FALSE
INVARIANTS TypeOK SliceMatchesMap
PROPERTIES ImplementsContract StaleEntriesGo
