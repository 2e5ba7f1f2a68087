\* Three keys for two places; frequencies 1 to 3, so that minFreq rises twice and is
\* reset by a removal while a higher frequency is in use.
CONSTANTS
  Keys = {k1, k2, k3}
  Values = {v1}
  Nil = nil
  Durations = {0, 2}
  TTLs = {0, 1}
  MaxEntries = 2
  MaxFreq = 3
  MaxNow = 3
SPECIFICATION PSpec
SYMMETRY Symmetry
INVARIANTS TypeOK ListsMatchEntries MinFreqIsLeast LimitRespected ListsSortedByUse
PROPERTIES ImplementsContract EvictsLeastFrequentlyUsed
