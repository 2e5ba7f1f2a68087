------------------------------ MODULE RandomCache ------------------------------
(***************************************************************************)
(* internal/cache/random: the map of entries and the slice c.keys that     *)
(* evictRandom draws from, which are changed by different code in Set, in  *)
(* evictRandom and in cleanup.                                             *)
(*                                                                         *)
(* An operation holds c.mu from its first to its last line and is one      *)
(* action, but for Close, which keeps it for good: the Clear it calls      *)
(* waits for the same mutex.  stopCleanup closes the channel and then sets *)
(* c.stopChan to nil; the cleaner reads the field anew, and without the    *)
(* mutex, each time it comes to its select.                                *)
(***************************************************************************)
EXTENDS CacheCommon, FiniteSets, SequencesExt

CONSTANTS
  Keys, Values,   \* what is stored
  Durations,      \* the durations a caller passes to Set
  TTLs,           \* the default TTLs a caller configures (0: none)
  MaxEntries,     \* maxEntries; 0: unlimited
  MaxNow          \* bound: the clock stops there

ASSUME RandomAssumption ==
  /\ MaxEntries \in Nat
  /\ MaxNow \in Nat
  /\ Durations \subseteq Nat
  /\ TTLs \subseteq Nat

VARIABLES
  entries,        \* c.entries
  keys,           \* c.keys
  now,            \* time.Now()
  defaultTTL,     \* c.defaultTTL
  onEvicted,      \* c.onEvicted # nil
  calls,          \* the callbacks made by the last step
  answer,         \* what the last Get found: {} or {value}
  holder,         \* who keeps c.mu between two steps: "none", "cleaner" or "Close"
  stopped,        \* c.stopChan is closed, and nil
  cleaner,        \* where the goroutine of startCleanup stands
  sweptAt         \* now in cleanup

tables == <<entries, keys>>
config == <<now, defaultTTL, onEvicted>>
goroutine == <<cleaner, sweptAt>>
vars == <<tables, config, calls, answer, holder, stopped, goroutine>>

\* New starts the goroutine for a positive interval; it has yet to reach its select.
Init ==
  /\ entries = <<>>
  /\ keys = <<>>
  /\ now = 1
  /\ defaultTTL \in TTLs
  /\ onEvicted \in BOOLEAN
  /\ calls = {}
  /\ answer = {}
  /\ holder = "none"
  /\ stopped = FALSE
  /\ cleaner \in {"off", "looping"}
  /\ sweptAt = 0

Unlocked == holder = "none"

Stale(k, time) == k \in DOMAIN entries /\ IsExpired(entries[k].expiration, time)

--------------------------------------------------------------------------------
(* The operations.                                                         *)

\* Mutant: the last key goes, whichever was drawn.
DropLast(s, i) == SubSeq(s, 1, Len(s) - 1)

\* The last element takes the place of element i.
SwapRemove(s, i) == SubSeq([s EXCEPT ![i] = s[Len(s)]], 1, Len(s) - 1)

Over(n) == MaxEntries > 0 /\ n > MaxEntries

Update(k, entry) ==
  /\ k \in DOMAIN entries
  /\ entries' = Put(entries, k, entry)
  /\ calls' = {}
  /\ UNCHANGED keys

Insert(k, entry) ==
  /\ k \notin DOMAIN entries
  /\ ~Over(Cardinality(DOMAIN entries) + 1)
  /\ entries' = Put(entries, k, entry)
  /\ keys' = Append(keys, k)
  /\ calls' = {}

\* evictRandom may draw the key just added.
InsertAndEvict(k, entry) ==
  /\ k \notin DOMAIN entries
  /\ Over(Cardinality(DOMAIN entries) + 1)
  /\ LET added == Append(keys, k)
         updated == Put(entries, k, entry)
     IN \E randomIndex \in 1..Len(added) :
          LET keyToEvict == added[randomIndex]
          IN /\ entries' = Drop(updated, {keyToEvict})
             /\ keys' = SwapRemove(added, randomIndex)
             /\ calls' = Called(onEvicted, updated, {keyToEvict}, "Eviction")

Set(k, v, d) ==
  /\ Unlocked
  /\ LET entry == [value |-> v, expiration |-> PlainDeadline(now, d, defaultTTL)]
     IN Update(k, entry) \/ Insert(k, entry) \/ InsertAndEvict(k, entry)
  /\ answer' = {}
  /\ UNCHANGED <<config, holder, stopped, goroutine>>

\* Mutants: no look at the expiration; the entry for its value.
FoundStale(k) == IF k \in DOMAIN entries THEN {entries[k].value} ELSE {}
FoundEntry(k) ==
  IF k \in DOMAIN entries /\ ~Stale(k, now) THEN {entries[k]} ELSE {}

Found(k) == IF k \in DOMAIN entries /\ ~Stale(k, now) THEN {entries[k].value} ELSE {}

\* A stale entry stays where it is.
Get(k) ==
  /\ Unlocked
  /\ answer' = Found(k)
  /\ calls' = {}
  /\ UNCHANGED <<tables, config, holder, stopped, goroutine>>

Clear ==
  /\ Unlocked
  /\ calls' = Called(onEvicted, entries, DOMAIN entries, "Clear")
  /\ answer' = {}
  /\ entries' = <<>>
  /\ keys' = <<>>
  /\ UNCHANGED <<config, holder, stopped, goroutine>>

\* Nothing to stop without a cleanup interval.
CloseChannel == stopped' = (stopped \/ cleaner # "off")

\* Clear waits for the mutex that Close holds: no step of Close follows.
Close ==
  /\ Unlocked
  /\ holder' = "Close"
  /\ CloseChannel
  /\ UNCHANGED <<tables, config, calls, answer, goroutine>>

StopCleanup ==
  /\ Unlocked
  /\ CloseChannel
  /\ UNCHANGED <<tables, config, calls, answer, holder, goroutine>>

\* A callback, or nil, replaces the one there is.
SetEvictedFunc ==
  /\ Unlocked
  /\ onEvicted' \in BOOLEAN
  /\ calls' = {} /\ answer' = {}
  /\ UNCHANGED <<tables, now, defaultTTL, holder, stopped, goroutine>>

SetDefaultTTL(ttl) ==
  /\ Unlocked
  /\ defaultTTL' = ttl
  /\ calls' = {} /\ answer' = {}
  /\ UNCHANGED <<tables, now, onEvicted, holder, stopped, goroutine>>

--------------------------------------------------------------------------------
(* The cleaner.                                                            *)

unswept == <<tables, config, calls, answer, stopped>>

\* select evaluates c.stopChan: nil, once it is stopped, is never ready.
CleanerSelects ==
  /\ cleaner = "looping"
  /\ cleaner' = IF stopped THEN "blind" ELSE "waiting"
  /\ UNCHANGED <<unswept, holder, sweptAt>>

CleanerWakes ==
  /\ cleaner \in {"waiting", "blind"}
  /\ cleaner' = "woken"
  /\ UNCHANGED <<unswept, holder, sweptAt>>

CleanerExits ==
  /\ cleaner = "waiting" /\ stopped
  /\ cleaner' = "exited"
  /\ UNCHANGED <<unswept, holder, sweptAt>>

CleanerLocks ==
  /\ cleaner = "woken" /\ Unlocked
  /\ cleaner' = "sweeping"
  /\ holder' = "cleaner"
  /\ sweptAt' = now
  /\ UNCHANGED unswept

CleanerRemoves(k) ==
  /\ cleaner = "sweeping" /\ Stale(k, sweptAt)
  /\ entries' = Drop(entries, {k})
  /\ keys' = LET i == CHOOSE j \in 1..Len(keys) : keys[j] = k IN RemoveAt(keys, i)
  /\ calls' = Called(onEvicted, entries, {k}, "Expiration")
  /\ answer' = {}
  /\ UNCHANGED <<config, holder, stopped, goroutine>>

\* Mutant: a cleaner that sweeps once.
CleanerSweepsOnce ==
  /\ cleaner = "sweeping"
  /\ \A k \in DOMAIN entries : ~Stale(k, sweptAt)
  /\ cleaner' = "exited"
  /\ holder' = "none"
  /\ sweptAt' = 0
  /\ UNCHANGED unswept

CleanerUnlocks ==
  /\ cleaner = "sweeping"
  /\ \A k \in DOMAIN entries : ~Stale(k, sweptAt)
  /\ cleaner' = "looping"
  /\ holder' = "none"
  /\ sweptAt' = 0
  /\ UNCHANGED unswept

--------------------------------------------------------------------------------

Tick ==
  /\ now < MaxNow
  /\ now' = now + 1
  /\ UNCHANGED <<tables, defaultTTL, onEvicted, calls, answer, holder, stopped, goroutine>>

Cleaner ==
  \/ CleanerSelects \/ CleanerWakes \/ CleanerLocks \/ CleanerUnlocks
  \/ \E k \in Keys : CleanerRemoves(k)

Next ==
  \/ \E k \in Keys, v \in Values, d \in Durations : Set(k, v, d)
  \/ \E k \in Keys : Get(k)
  \/ Clear \/ Close \/ StopCleanup
  \/ SetEvictedFunc
  \/ \E ttl \in TTLs : SetDefaultTTL(ttl)
  \/ Cleaner \/ CleanerExits
  \/ Tick

Spec == Init /\ [][Next]_vars

\* The goroutine is scheduled, gets the mutex whenever it keeps being released, and
\* its select takes a closed channel sooner or later.
Fairness == WF_vars(Cleaner) /\ SF_vars(CleanerLocks) /\ SF_vars(CleanerExits)
FairSpec == Spec /\ Fairness

--------------------------------------------------------------------------------
(* Properties.                                                             *)

\* Every variable keeps the shape its Go counterpart has.
TypeOK ==
  /\ DOMAIN entries \subseteq Keys
  /\ entries \in [DOMAIN entries -> EntryOf(Values)]
  /\ keys \in Seq(Keys)
  /\ now \in Nat
  /\ defaultTTL \in Nat
  /\ onEvicted \in BOOLEAN
  /\ calls \subseteq CallOf(Keys, Values)
  /\ answer \subseteq Values
  /\ holder \in {"none", "cleaner", "Close"}
  /\ stopped \in BOOLEAN
  /\ cleaner \in {"off", "looping", "waiting", "blind", "woken", "sweeping", "exited"}
  /\ sweptAt \in Nat

\* c.keys lists the keys of c.entries, each once, between any two operations: were a
\* key missing it could never be evicted, and one left over would be drawn in vain
\* and leave the cache over its limit (random.go:70-71, 206-219, 259-267).
SliceMatchesMap ==
  /\ ToSet(keys) = DOMAIN entries
  /\ Len(keys) = Cardinality(DOMAIN entries)

\* A limited cache never holds more than maxEntries (random.go:74-76).
CapacityRespected == MaxEntries # 0 => Cardinality(DOMAIN entries) <= MaxEntries

\* random.Cache does what cache.go:24-43 promises, as far as it returns; a duration
\* overrides the default TTL (random.go:52-57).
Contract ==
  INSTANCE CacheContract WITH store <- entries, Capped <- FALSE, ExpiredAnswer <- {}
ImplementsContract == Contract!Spec

\* A stale entry, which Get leaves in place, does not stay: the cleaner removes it
\* unless there is none, it was told to stop, or Close has taken the mutex
\* (random.go:81-92, 224-231).
StaleEntriesGo ==
  \A k \in Keys :
    Stale(k, now) ~> ~Stale(k, now) \/ cleaner = "off" \/ stopped \/ holder = "Close"

\* "Close purges all key-value pairs from the cache and stop cleanup"
\* (random.go:157).
ClosePurges == holder = "Close" ~> entries = <<>>
================================================================================
