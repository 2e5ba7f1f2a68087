\* Two threads, so that one evaluates while another waits; two rules, so that one is
\* dropped while the other stays; a statement that does not compile.  No symmetry: it
\* is not sound for liveness.
CONSTANTS
  Threads = {t1, t2}
  Rules = {r1, r2}
  Statements = {good, malformed}
  WellFormed = {good}
  NoOne = NoOne
  Durations = {1}
  TTLs = {0}
  MaxNow = 3
  MaxPending = 1
SPECIFICATION FairSpec
INVARIANTS TypeOK LockDiscipline NoOrphanLibrary
PROPERTIES ImplementsEngineContract CallsReturn ForgottenEventually
