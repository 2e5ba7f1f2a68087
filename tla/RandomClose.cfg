\* Close never returns, so the system may stop.
CONSTANTS
  Keys = {k1, k2}
  Values = {v1}
  Durations = {0, 1}
  TTLs = {0}
  MaxEntries = 1
  MaxNow = 3
SPECIFICATION FairSpec
CHECK_DEADLOCK FALSE
PROPERTY ClosePurges
