\* Two keys for two places: no eviction is due at all.
CONSTANTS
  Keys = {k1, k2}
  Values = {v1}
  Durations = {0}
  TTLs = {0}
  MaxEntries = 2
  Policies = {"2Q", "ARC"}
  MaxElements = 3
  MaxNow = 1
SPECIFICATION Spec
CHECK_DEADLOCK FALSE
PROPERTY EvictsAtLimitOnly
