\* One thread is enough: the goroutine is the other.
CONSTANTS
  Threads = {t1}
  Rules = {r1, r2}
  Statements = {good}
  WellFormed = {good}
  NoOne = NoOne
  Durations = {0}
  TTLs = {0}
  MaxNow = 1
  MaxPending = 2
SPECIFICATION SpecWithPlaceForOne
INVARIANT CachedRuleIsInstalled
