------------------------------- MODULE LRUCache --------------------------------
(***************************************************************************)
(* internal/cache/lru: the map, the recency list, the clock and the        *)
(* cleaner goroutine.                                                      *)
(*                                                                         *)
(* Every exported operation runs under c.mu from its first to its last     *)
(* line, so it is one action, enabled when the cleaner does not hold the   *)
(* mutex.  Two do not take it: StopCleanup, which may run at any moment,   *)
(* and RemoveOldest, whose callers other than Set are assumed alone.  The  *)
(* cleaner holds the mutex exactly in the state "sweeping"; its sweep is   *)
(* one action per list element, since the clock goes on under the lock.    *)
(***************************************************************************)
EXTENDS CacheCommon, Integers, FiniteSets, Sequences

CONSTANTS
  Keys, Values,   \* what is stored
  Durations,      \* the durations a caller passes to Set
  TTLs,           \* the default TTLs a caller configures (0: none)
  MaxEntries,     \* maxEntries; 0: unlimited
  MaxNow          \* bound: the clock stops there

ASSUME LRUAssumption ==
  /\ MaxEntries \in Nat
  /\ MaxNow \in Nat
  /\ Durations \subseteq Nat
  /\ TTLs \subseteq Nat

VARIABLES
  entries,        \* c.entries, with the entry its element holds
  ll,             \* c.ll: the keys of its elements, front first
  allocated,      \* FALSE while c.ll and c.entries are nil
  now,            \* time.Now()
  defaultTTL,     \* c.defaultTTL
  onEvicted,      \* c.onEvicted # nil
  calls,          \* the callbacks made by the last step
  answer,         \* what the last Get found: {} or {value}
  stopped,        \* c.stopChan is closed
  cleaner,        \* where the goroutine of startCleanup stands
  cursor,         \* the position of ele in cleanupExpiredEntries, 0 for nil
  sweptAt,        \* now in cleanupExpiredEntries
  crashed         \* who panicked and took the process down

vars == <<entries, ll, allocated, now, defaultTTL, onEvicted, calls, answer,
          stopped, cleaner, cursor, sweptAt, crashed>>
config == <<now, defaultTTL, onEvicted>>
goroutine == <<cleaner, cursor, sweptAt>>

\* New starts the cleaner only for a positive cleanup interval.
Init ==
  /\ entries = <<>>
  /\ ll = <<>>
  /\ allocated = TRUE
  /\ now = 1
  /\ defaultTTL \in TTLs
  /\ onEvicted \in BOOLEAN
  /\ calls = {}
  /\ answer = {}
  /\ stopped = FALSE
  /\ cleaner \in {"off", "waiting"}
  /\ cursor = 0
  /\ sweptAt = 0
  /\ crashed = "none"

Running == crashed = "none"
Locked == cleaner = "sweeping"

Position(k) == CHOOSE i \in 1..Len(ll) : ll[i] = k
Without(i) == SubSeq(ll, 1, i - 1) \o SubSeq(ll, i + 1, Len(ll))
\* Mutant: PushFront in place of MoveToFront.
PushAgain(k) == <<k>> \o ll

MoveToFront(k) == <<k>> \o Without(Position(k))

Stale(k, time) == k \in DOMAIN entries /\ IsExpired(entries[k].expiration, time)

\* removeElement, of the element at position i.
RemoveElement(i, event) ==
  /\ ll' = Without(i)
  /\ entries' = Drop(entries, {ll[i]})
  /\ calls' = Called(onEvicted, entries, {ll[i]}, event)

--------------------------------------------------------------------------------
(* The operations.                                                         *)

Full == MaxEntries # 0 /\ Len(ll) >= MaxEntries

Update(k, entry) ==
  /\ k \in DOMAIN entries
  /\ ll' = MoveToFront(k)
  /\ entries' = Put(entries, k, entry)
  /\ calls' = {}

Insert(k, entry) ==
  /\ k \notin DOMAIN entries
  /\ ~Full
  /\ ll' = <<k>> \o ll
  /\ entries' = Put(entries, k, entry)
  /\ calls' = {}

\* Mutant: Front for Back.
EvictNewest(k, entry) ==
  /\ k \notin DOMAIN entries
  /\ Full
  /\ ll' = <<k>> \o Without(1)
  /\ entries' = Put(Drop(entries, {ll[1]}), k, entry)
  /\ calls' = Called(onEvicted, entries, {ll[1]}, "Eviction")

\* RemoveOldest takes the back element, then the new one goes to the front.
EvictAndInsert(k, entry) ==
  /\ k \notin DOMAIN entries
  /\ Full
  /\ ll' = <<k>> \o Without(Len(ll))
  /\ entries' = Put(Drop(entries, {ll[Len(ll)]}), k, entry)
  /\ calls' = Called(onEvicted, entries, {ll[Len(ll)]}, "Eviction")

Set(k, v, d) ==
  /\ Running /\ ~Locked
  /\ LET entry == [value |-> v, expiration |-> CappedDeadline(now, d, defaultTTL)]
     IN Update(k, entry) \/ Insert(k, entry) \/ EvictAndInsert(k, entry)
  /\ allocated' = TRUE
  /\ answer' = {}
  /\ UNCHANGED <<config, stopped, goroutine, crashed>>

Miss(k) ==
  /\ k \notin DOMAIN entries
  /\ calls' = {} /\ answer' = {}
  /\ UNCHANGED <<entries, ll>>

GetExpired(k) ==
  /\ Stale(k, now)
  /\ RemoveElement(Position(k), "Expiration")
  /\ answer' = {}

\* Mutants: the entry for its value; no MoveToFront; no look at the expiration.
HitReturnsEntry(k) ==
  /\ k \in DOMAIN entries /\ ~Stale(k, now)
  /\ ll' = MoveToFront(k)
  /\ answer' = {entries[k]}
  /\ calls' = {}
  /\ UNCHANGED entries
HitInPlace(k) ==
  /\ k \in DOMAIN entries /\ ~Stale(k, now)
  /\ answer' = {entries[k].value}
  /\ calls' = {}
  /\ UNCHANGED <<ll, entries>>
HitStale(k) ==
  /\ k \in DOMAIN entries
  /\ ll' = MoveToFront(k)
  /\ answer' = {entries[k].value}
  /\ calls' = {}
  /\ UNCHANGED entries

Hit(k) ==
  /\ k \in DOMAIN entries /\ ~Stale(k, now)
  /\ ll' = MoveToFront(k)
  /\ answer' = {entries[k].value}
  /\ calls' = {}
  /\ UNCHANGED entries

Get(k) ==
  /\ Running /\ ~Locked
  /\ Miss(k) \/ GetExpired(k) \/ Hit(k)
  /\ UNCHANGED <<allocated, config, stopped, goroutine, crashed>>

Delete(k) ==
  /\ Running /\ ~Locked
  /\ \/ Miss(k)
     \/ /\ k \in DOMAIN entries
        /\ RemoveElement(Position(k), "Delete")
        /\ answer' = {}
  /\ UNCHANGED <<allocated, config, stopped, goroutine, crashed>>

RemoveOldest ==
  /\ Running /\ ~Locked
  /\ ll # <<>>
  /\ RemoveElement(Len(ll), "Eviction")
  /\ answer' = {}
  /\ UNCHANGED <<allocated, config, stopped, goroutine, crashed>>

\* Both maps are nil afterwards: only Set allocates them again.
PurgeAll ==
  /\ calls' = Called(onEvicted, entries, DOMAIN entries, "Clear")
  /\ answer' = {}
  /\ entries' = <<>>
  /\ ll' = <<>>
  /\ allocated' = FALSE

Clear ==
  /\ Running /\ ~Locked
  /\ PurgeAll
  /\ UNCHANGED <<config, stopped, goroutine, crashed>>

\* Closing stopChan a second time panics, before anything is purged.
Close ==
  /\ Running /\ ~Locked
  /\ \/ /\ ~stopped
        /\ stopped' = TRUE
        /\ PurgeAll
        /\ UNCHANGED crashed
     \/ /\ stopped
        /\ crashed' = "caller"
        /\ UNCHANGED <<entries, ll, allocated, calls, answer, stopped>>
  /\ UNCHANGED <<config, goroutine>>

StopCleanup ==
  /\ Running
  /\ IF stopped THEN crashed' = "caller" /\ UNCHANGED stopped
                ELSE stopped' = TRUE /\ UNCHANGED crashed
  /\ UNCHANGED <<entries, ll, allocated, config, calls, answer, goroutine>>

\* An error, and no change, when a callback is already set; the new one may be nil.
SetEvictedFunc ==
  /\ Running /\ ~Locked
  /\ onEvicted' \in IF onEvicted THEN {TRUE} ELSE BOOLEAN
  /\ calls' = {} /\ answer' = {}
  /\ UNCHANGED <<entries, ll, allocated, now, defaultTTL, stopped, goroutine, crashed>>

SetDefaultTTL(ttl) ==
  /\ Running /\ ~Locked
  /\ defaultTTL' = ttl
  /\ calls' = {} /\ answer' = {}
  /\ UNCHANGED <<entries, ll, allocated, now, onEvicted, stopped, goroutine, crashed>>

--------------------------------------------------------------------------------
(* The cleaner goroutine.                                                  *)

unswept == <<entries, ll, allocated, config, calls, answer, stopped>>

\* select takes a tick, although stopChan may be closed as well.
CleanerWakes ==
  /\ Running /\ cleaner = "waiting"
  /\ cleaner' = "woken"
  /\ UNCHANGED <<unswept, cursor, sweptAt, crashed>>

\* Mutant: a select without the stopChan case.
CleanerNeverExits ==
  /\ Running /\ cleaner = "waiting" /\ stopped
  /\ UNCHANGED vars

CleanerExits ==
  /\ Running /\ cleaner = "waiting" /\ stopped
  /\ cleaner' = "exited"
  /\ UNCHANGED <<unswept, cursor, sweptAt, crashed>>

\* Mutant: the sweep starts one element too far.
CleanerSkipsBack ==
  /\ Running /\ cleaner = "woken" /\ allocated
  /\ cleaner' = "sweeping"
  /\ cursor' = IF ll = <<>> THEN 0 ELSE Len(ll) - 1
  /\ sweptAt' = now
  /\ UNCHANGED <<unswept, crashed>>

CleanerLocks ==
  /\ Running /\ cleaner = "woken" /\ allocated
  /\ cleaner' = "sweeping"
  /\ cursor' = Len(ll)
  /\ sweptAt' = now
  /\ UNCHANGED <<unswept, crashed>>

\* c.ll.Back() on the nil list that Clear or Close left.
CleanerPanics ==
  /\ Running /\ cleaner = "woken" /\ ~allocated
  /\ crashed' = "cleaner"
  /\ UNCHANGED <<unswept, goroutine>>

CleanerVisits ==
  /\ Running /\ Locked /\ cursor > 0
  /\ \/ /\ Stale(ll[cursor], sweptAt)
        /\ RemoveElement(cursor, "Expiration")
        /\ answer' = {}
     \/ /\ ~Stale(ll[cursor], sweptAt)
        /\ UNCHANGED <<entries, ll, calls, answer>>
  /\ cursor' = cursor - 1
  /\ UNCHANGED <<allocated, config, stopped, cleaner, sweptAt, crashed>>

\* Mutant: a one-shot timer for the ticker.
CleanerSweepsOnce ==
  /\ Running /\ Locked /\ cursor = 0
  /\ cleaner' = "exited"
  /\ sweptAt' = 0
  /\ UNCHANGED <<unswept, cursor, crashed>>

CleanerUnlocks ==
  /\ Running /\ Locked /\ cursor = 0
  /\ cleaner' = "waiting"
  /\ sweptAt' = 0
  /\ UNCHANGED <<unswept, cursor, crashed>>

--------------------------------------------------------------------------------

Tick ==
  /\ Running
  /\ now < MaxNow
  /\ now' = now + 1
  /\ UNCHANGED <<entries, ll, allocated, defaultTTL, onEvicted, calls, answer,
                 stopped, goroutine, crashed>>

\* The process is gone.
Halted == ~Running /\ UNCHANGED vars

Cleaner ==
  \/ CleanerWakes \/ CleanerExits \/ CleanerLocks
  \/ CleanerPanics \/ CleanerVisits \/ CleanerUnlocks

Next ==
  \/ \E k \in Keys, v \in Values, d \in Durations : Set(k, v, d)
  \/ \E k \in Keys : Get(k) \/ Delete(k)
  \/ RemoveOldest \/ Clear \/ Close \/ StopCleanup
  \/ SetEvictedFunc
  \/ \E ttl \in TTLs : SetDefaultTTL(ttl)
  \/ Cleaner
  \/ Tick
  \/ Halted

Spec == Init /\ [][Next]_vars

\* The Go scheduler runs the cleaner and gives it the mutex, which every other
\* holder releases; select takes a closed stopChan sooner or later.
Fairness == WF_vars(Cleaner) /\ SF_vars(CleanerExits)
FairSpec == Spec /\ Fairness

--------------------------------------------------------------------------------
(* Properties.                                                             *)

\* Every variable keeps the shape its Go counterpart has.
TypeOK ==
  /\ DOMAIN entries \subseteq Keys
  /\ entries \in [DOMAIN entries -> EntryOf(Values)]
  /\ ll \in Seq(Keys)
  /\ allocated \in BOOLEAN
  /\ now \in Nat
  /\ defaultTTL \in Nat
  /\ onEvicted \in BOOLEAN
  /\ calls \subseteq CallOf(Keys, Values)
  /\ answer \subseteq Values
  /\ stopped \in BOOLEAN
  /\ cleaner \in {"off", "waiting", "woken", "sweeping", "exited"}
  /\ cursor \in Nat
  /\ sweptAt \in Nat
  /\ crashed \in {"none", "caller", "cleaner"}

\* The map and the list of lru.go:17-18 hold the same keys, each of them once,
\* and the nil list of lru.go:194 and 285 is empty: were a key in one and not in
\* the other, Len and Keys would disagree and an eviction would remove nothing.
MapMatchesList ==
  /\ \A k \in Keys : k \in DOMAIN entries <=> \E i \in 1..Len(ll) : ll[i] = k
  /\ \A i, j \in 1..Len(ll) : ll[i] = ll[j] => i = j
  /\ ~allocated => ll = <<>>

\* A limited cache never holds more than maxEntries, whatever mix of insertions,
\* updates, expirations, sweeps and reallocations came before (lru.go:109-111).
CapacityRespected == MaxEntries # 0 => Len(ll) <= MaxEntries

\* While a sweep is under way the elements it has passed are not stale at the
\* time it read, and the element it stands on still exists: the removal of
\* lru.go:248 never moves prev (lru.go:245) past an unvisited element.
SweepOnCourse ==
  Locked =>
    /\ allocated
    /\ cursor <= Len(ll)
    /\ sweptAt <= now
    /\ \A i \in 1..Len(ll) : i > cursor => ~Stale(ll[i], sweptAt)

\* When the cleaner releases the mutex, nothing is left that was stale when it
\* read the clock (lru.go:242-251).
SweepLeavesNothingStale ==
  [][cleaner = "sweeping" /\ cleaner' # "sweeping"
       => \A k \in DOMAIN entries' : ~IsExpired(entries'[k].expiration, sweptAt)]_vars

\* lru.Cache does what the interface of cache.go:24-43 promises, one deadline for every
\* Set included: the default TTL is also the longest life (lru.go:88-99).
Contract ==
  INSTANCE CacheContract WITH store <- entries, Capped <- TRUE, ExpiredAnswer <- {}
ImplementsContract == Contract!Spec

\* A stale entry does not stay: the cleaner removes it, unless there is no
\* cleaner, it was told to stop, or the process has died (lru.go:224-229).
StaleEntriesGo ==
  \A k \in Keys :
    Stale(k, now) ~> ~Stale(k, now) \/ cleaner = "off" \/ stopped \/ ~Running

\* "Close purges all key-value pairs from the cache and stop cleanup"
\* (cache.go:37): the goroutine ends, or dies on a tick it had already taken.
CloseEndsCleaner == stopped ~> cleaner \in {"off", "exited"} \/ ~Running

\* "Clear purges all stored items from the cache" (lru.go:183), and no more than
\* that: the cleaner that goes on running must find a list it can walk.
CleanerSurvives == crashed # "cleaner"
================================================================================
