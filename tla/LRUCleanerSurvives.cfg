\* Two keys for one place are enough for a nil list and a tick.
CONSTANTS
  Keys = {k1, k2}
  Values = {v1}
  Durations = {0, 1}
  TTLs = {0}
  MaxEntries = 1
  MaxNow = 2
SPECIFICATION Spec
INVARIANT CleanerSurvives
