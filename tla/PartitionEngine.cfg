\* Two threads, three rules, two texts of each; two or three engines.  MaxDigest lets the
\* default hash take every value there is with two engines and with three.
CONSTANTS
  Threads = {t1, t2}
  Rules = {r1, r2, r3}
  WellFormed = {good, better}
  NumCPU = 2
  Arguments <- MCArguments
  MaxDigest = 2
SPECIFICATION Spec
SYMMETRY Symmetry
CHECK_DEADLOCK FALSE
INVARIANTS TypeOK DefaultHashFindsEngine SizeKept ClosedEnginesAreEmpty
PROPERTIES ImplementsEngineContract
