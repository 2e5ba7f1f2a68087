------------------------------- MODULE LFUCache --------------------------------
(***************************************************************************)
(* internal/cache/lfu: the map of entries, one list of entries for every   *)
(* frequency, and minFreq, the frequency an eviction looks at.  minFreq is *)
(* kept by hand: an increment may raise it, an insertion sets it to 1, and *)
(* a removal that empties its list sets it to 1 whether or not an entry of *)
(* that frequency exists.                                                  *)
(*                                                                         *)
(* Every operation but StopCleanup holds c.mu from its first to its last   *)
(* line and is one action.  The cleaner holds it in the state "sweeping",  *)
(* and removes the expired entries one by one, in any order.               *)
(***************************************************************************)
EXTENDS CacheCommon, FiniteSets, SequencesExt

CONSTANTS
  Keys, Values,   \* what is stored
  Nil,            \* the zero value of any
  Durations,      \* the durations a caller passes to Set
  TTLs,           \* the default TTLs a caller configures (0: none)
  MaxEntries,     \* maxEntries
  MaxFreq,        \* bound: an entry of this frequency is not used again
  MaxNow          \* bound: the clock stops there

ASSUME LFUAssumption ==
  /\ Nil \notin Values
  /\ MaxEntries \in Nat
  /\ MaxFreq \in Nat \ {0}
  /\ MaxNow \in Nat
  /\ Durations \subseteq Nat
  /\ TTLs \subseteq Nat

VARIABLES
  entries,        \* c.entries
  freqList,       \* c.freqList: from a frequency to the keys of its list, front first
  minFreq,        \* c.minFreq
  allocated,      \* FALSE when c.entries and c.freqList are nil
  now,            \* time.Now()
  defaultTTL,     \* c.defaultTTL
  onEvicted,      \* c.onEvicted # nil
  calls,          \* the callbacks made by the last step
  answer,         \* what the last Get returned with true: {} or {value}
  stopped,        \* c.stopCleanup is closed
  cleaner,        \* where the goroutine of startCleanup stands
  sweptAt,        \* now in cleanupExpiredEntries
  crashed         \* what panicked, if anything did

tables == <<entries, freqList, minFreq>>
config == <<now, defaultTTL, onEvicted>>
goroutine == <<cleaner, sweptAt>>
vars == <<tables, allocated, config, calls, answer, stopped, goroutine, crashed>>

Init ==
  /\ entries = <<>>
  /\ freqList = <<>>
  /\ minFreq = 0
  /\ allocated = TRUE
  /\ now = 1
  /\ defaultTTL \in TTLs
  /\ onEvicted \in BOOLEAN
  /\ calls = {}
  /\ answer = {}
  /\ stopped = FALSE
  /\ cleaner \in {"off", "waiting"}
  /\ sweptAt = 0
  /\ crashed = "none"

Running == crashed = "none"
Locked == cleaner = "sweeping"
Unlocked == Running /\ ~Locked

Stale(k, time) == k \in DOMAIN entries /\ IsExpired(entries[k].expiration, time)

--------------------------------------------------------------------------------
(* The frequency lists.                                                    *)

\* The list of frequency f, nil and empty alike.
ListAt(lists, f) == IF f \in DOMAIN lists THEN lists[f] ELSE <<>>
PushBack(lists, f, k) == Put(lists, f, Append(ListAt(lists, f), k))

\* A list that becomes empty leaves the map.
Unlink(lists, f, k) ==
  LET node == CHOOSE i \in 1..Len(lists[f]) : lists[f][i] = k
      rest == RemoveAt(lists[f], node)
  IN IF rest = <<>> THEN Drop(lists, {f}) ELSE Put(lists, f, rest)

\* Mutant: minFreq is left behind when its list empties.
IncrementOnly(k, entry) ==
  LET freq == entries[k].freq
  IN /\ freq < MaxFreq
     /\ freqList' = PushBack(Unlink(freqList, freq, k), freq + 1, k)
     /\ entries' = Put(entries, k, [entry EXCEPT !.freq = freq + 1])
     /\ UNCHANGED minFreq

\* Mutant: the entry is pushed on the list of its old frequency.
IncrementInPlace(k, entry) ==
  LET freq == entries[k].freq
  IN /\ freq < MaxFreq
     /\ freqList' = PushBack(Unlink(freqList, freq, k), freq, k)
     /\ entries' = Put(entries, k, [entry EXCEPT !.freq = freq + 1])
     /\ UNCHANGED minFreq

\* Mutant: PushFront on the next list.
IncrementToFront(k, entry) ==
  LET freq == entries[k].freq
      left == Unlink(freqList, freq, k)
  IN /\ freq < MaxFreq
     /\ freqList' = Put(left, freq + 1, <<k>> \o ListAt(left, freq + 1))
     /\ entries' = Put(entries, k, [entry EXCEPT !.freq = freq + 1])
     /\ minFreq' = IF freq \notin DOMAIN left /\ minFreq = freq THEN minFreq + 1 ELSE minFreq

\* incrementFrequency, of the entry as Set or Get leaves it.
IncrementFrequency(k, entry) ==
  LET freq == entries[k].freq
      left == Unlink(freqList, freq, k)
  IN /\ freq < MaxFreq
     /\ freqList' = PushBack(left, freq + 1, k)
     /\ entries' = Put(entries, k, [entry EXCEPT !.freq = freq + 1])
     /\ minFreq' = IF freq \notin DOMAIN left /\ minFreq = freq THEN minFreq + 1 ELSE minFreq

\* removeEntry, and the delete from the map that follows it everywhere.
RemoveEntry(k, event) ==
  LET freq == entries[k].freq
      left == Unlink(freqList, freq, k)
  IN /\ freqList' = left
     /\ minFreq' = IF freq \notin DOMAIN left /\ minFreq = freq THEN 1 ELSE minFreq
     /\ entries' = Drop(entries, {k})
     /\ calls' = Called(onEvicted, entries, {k}, event)

--------------------------------------------------------------------------------
(* The operations.                                                         *)

\* Mutant: > for >=.
FullOneLate == Cardinality(DOMAIN entries) > MaxEntries

\* len(c.entries) >= c.maxEntries: 0 is not an exception.
Full == Cardinality(DOMAIN entries) >= MaxEntries

Update(k, v, expiration) ==
  /\ k \in DOMAIN entries
  /\ IncrementFrequency(k, [value |-> v, expiration |-> expiration, freq |-> 0])
  /\ calls' = {}

\* The tables of Set after evict, if it evicts.
InsertAfter(es, lists, k, v, expiration) ==
  /\ entries' = Put(es, k, [value |-> v, expiration |-> expiration, freq |-> 1])
  /\ freqList' = PushBack(lists, 1, k)
  /\ minFreq' = 1

\* evict finds no list for minFreq when nothing is stored.
Insert(k, v, expiration) ==
  /\ k \notin DOMAIN entries
  /\ ~Full \/ minFreq \notin DOMAIN freqList
  /\ InsertAfter(entries, freqList, k, v, expiration)
  /\ calls' = {}

\* Mutant: the back of the list, the newest of the entries that tie.
EvictNewest(k, v, expiration) ==
  /\ k \notin DOMAIN entries
  /\ Full /\ minFreq \in DOMAIN freqList
  /\ LET victim == Last(freqList[minFreq])
     IN /\ InsertAfter(Drop(entries, {victim}), Unlink(freqList, minFreq, victim),
                       k, v, expiration)
        /\ calls' = Called(onEvicted, entries, {victim}, "Eviction")

EvictAndInsert(k, v, expiration) ==
  /\ k \notin DOMAIN entries
  /\ Full /\ minFreq \in DOMAIN freqList
  /\ LET oldest == Head(freqList[minFreq])
     IN /\ InsertAfter(Drop(entries, {oldest}), Unlink(freqList, minFreq, oldest),
                       k, v, expiration)
        /\ calls' = Called(onEvicted, entries, {oldest}, "Eviction")

Set(k, v, d) ==
  /\ Unlocked /\ allocated
  /\ LET expiration == CappedDeadline(now, d, defaultTTL)
     IN \/ Update(k, v, expiration)
        \/ Insert(k, v, expiration)
        \/ EvictAndInsert(k, v, expiration)
  /\ answer' = {}
  /\ UNCHANGED <<allocated, config, stopped, goroutine, crashed>>

\* The assignment to the nil map that Clear left.
SetPanics ==
  /\ Unlocked /\ ~allocated
  /\ crashed' = "Set"
  /\ UNCHANGED <<tables, allocated, config, calls, answer, stopped, goroutine>>

Miss(k) ==
  /\ k \notin DOMAIN entries
  /\ calls' = {} /\ answer' = {}
  /\ UNCHANGED tables

\* ok is still the TRUE of the map lookup, and value the nil it was declared with.
GetExpired(k) ==
  /\ Stale(k, now)
  /\ RemoveEntry(k, "Expiration")
  /\ answer' = {Nil}

\* Mutants: no look at the expiration; a value that is not the entry's.
HitStale(k) ==
  /\ k \in DOMAIN entries
  /\ IncrementFrequency(k, entries[k])
  /\ answer' = {entries[k].value}
  /\ calls' = {}
HitReturnsKey(k) ==
  /\ k \in DOMAIN entries /\ ~Stale(k, now)
  /\ IncrementFrequency(k, entries[k])
  /\ answer' = {k}
  /\ calls' = {}

Hit(k) ==
  /\ k \in DOMAIN entries /\ ~Stale(k, now)
  /\ IncrementFrequency(k, entries[k])
  /\ answer' = {entries[k].value}
  /\ calls' = {}

Get(k) ==
  /\ Unlocked
  /\ Miss(k) \/ GetExpired(k) \/ Hit(k)
  /\ UNCHANGED <<allocated, config, stopped, goroutine, crashed>>

Delete(k) ==
  /\ Unlocked
  /\ Miss(k) \/ (k \in DOMAIN entries /\ RemoveEntry(k, "Delete") /\ answer' = {})
  /\ UNCHANGED <<allocated, config, stopped, goroutine, crashed>>

PurgeAll ==
  /\ calls' = Called(onEvicted, entries, DOMAIN entries, "Clear")
  /\ answer' = {}
  /\ entries' = <<>>
  /\ freqList' = <<>>
  /\ minFreq' = 0
  /\ allocated' = FALSE

Clear ==
  /\ Unlocked
  /\ PurgeAll
  /\ UNCHANGED <<config, stopped, goroutine, crashed>>

\* Closing the channel a second time panics, before anything is purged.
Close ==
  /\ Unlocked
  /\ \/ ~stopped /\ stopped' = TRUE /\ PurgeAll /\ UNCHANGED crashed
     \/ /\ stopped /\ crashed' = "Close"
        /\ UNCHANGED <<tables, allocated, calls, answer, stopped>>
  /\ UNCHANGED <<config, goroutine>>

StopCleanup ==
  /\ Running
  /\ \/ ~stopped /\ stopped' = TRUE /\ UNCHANGED crashed
     \/ stopped /\ crashed' = "Close" /\ UNCHANGED stopped
  /\ UNCHANGED <<tables, allocated, config, calls, answer, goroutine>>

\* An error, and no change, when a callback is already set; the new one may be nil.
SetEvictedFunc ==
  /\ Unlocked
  /\ onEvicted' \in IF onEvicted THEN {TRUE} ELSE BOOLEAN
  /\ calls' = {} /\ answer' = {}
  /\ UNCHANGED <<tables, allocated, now, defaultTTL, stopped, goroutine, crashed>>

SetDefaultTTL(ttl) ==
  /\ Unlocked
  /\ defaultTTL' = ttl
  /\ calls' = {} /\ answer' = {}
  /\ UNCHANGED <<tables, allocated, now, onEvicted, stopped, goroutine, crashed>>

--------------------------------------------------------------------------------
(* The cleaner.                                                            *)

\* It may take a tick although the channel is closed.  The range over a nil map is
\* empty.
CleanerLocks ==
  /\ Unlocked /\ cleaner = "waiting"
  /\ cleaner' = "sweeping"
  /\ sweptAt' = now
  /\ UNCHANGED <<tables, allocated, config, calls, answer, stopped, crashed>>

CleanerRemoves(k) ==
  /\ Running /\ Locked
  /\ Stale(k, sweptAt)
  /\ RemoveEntry(k, "Expiration")
  /\ answer' = {}
  /\ UNCHANGED <<allocated, config, stopped, goroutine, crashed>>

CleanerUnlocks ==
  /\ Running /\ Locked
  /\ \A k \in DOMAIN entries : ~Stale(k, sweptAt)
  /\ cleaner' = "waiting"
  /\ sweptAt' = 0
  /\ UNCHANGED <<tables, allocated, config, calls, answer, stopped, crashed>>

CleanerExits ==
  /\ Running /\ cleaner = "waiting" /\ stopped
  /\ cleaner' = "exited"
  /\ UNCHANGED <<tables, allocated, config, calls, answer, stopped, sweptAt, crashed>>

--------------------------------------------------------------------------------

Tick ==
  /\ Running
  /\ now < MaxNow
  /\ now' = now + 1
  /\ UNCHANGED <<tables, allocated, defaultTTL, onEvicted, calls, answer, stopped,
                 goroutine, crashed>>

\* The process is gone.
Halted == ~Running /\ UNCHANGED vars

Next ==
  \/ \E k \in Keys, v \in Values, d \in Durations : Set(k, v, d)
  \/ SetPanics
  \/ \E k \in Keys : Get(k) \/ Delete(k) \/ CleanerRemoves(k)
  \/ Clear \/ Close \/ StopCleanup
  \/ SetEvictedFunc
  \/ \E ttl \in TTLs : SetDefaultTTL(ttl)
  \/ CleanerLocks \/ CleanerUnlocks \/ CleanerExits
  \/ Tick
  \/ Halted

Spec == Init /\ [][Next]_vars

--------------------------------------------------------------------------------
(* Properties.                                                             *)

Frequencies == 1..MaxFreq

\* Every variable keeps the shape its Go counterpart has.
TypeOK ==
  /\ DOMAIN entries \subseteq Keys
  /\ entries \in [DOMAIN entries -> [value : Values, expiration : Nat, freq : Frequencies]]
  /\ DOMAIN freqList \subseteq Frequencies
  /\ \A f \in DOMAIN freqList : freqList[f] \in Seq(Keys)
  /\ minFreq \in Nat
  /\ allocated \in BOOLEAN
  /\ now \in Nat
  /\ defaultTTL \in Nat
  /\ onEvicted \in BOOLEAN
  /\ calls \subseteq CallOf(Keys, Values)
  /\ answer \subseteq Values \cup {Nil}
  /\ stopped \in BOOLEAN
  /\ cleaner \in {"off", "waiting", "sweeping", "exited"}
  /\ sweptAt \in Nat
  /\ crashed \in {"none", "Set", "Close"}

\* Each entry is in the list of its own frequency, once, and in no other, and no
\* list is empty: list.Front() of evict (lfu.go:180) and the removals of lfu.go:157
\* and 196 rely on it.
ListsMatchEntries ==
  /\ \A k \in DOMAIN entries : entries[k].freq \in DOMAIN freqList
  /\ \A f \in DOMAIN freqList :
       LET list == freqList[f]
       IN /\ list # <<>>
          /\ \A k \in Keys : (k \in DOMAIN entries /\ entries[k].freq = f)
                            <=> \E i \in 1..Len(list) : list[i] = k
          /\ \A i, j \in 1..Len(list) : list[i] = list[j] => i = j

\* When the cache is full, which is when evict looks, minFreq is the least
\* frequency there is, although a removal may have reset it to one that no entry
\* has (lfu.go:111-113, 160-162, 175, 199-201).
MinFreqIsLeast ==
  Full /\ entries # <<>> =>
    /\ minFreq \in DOMAIN freqList
    /\ \A f \in DOMAIN freqList : minFreq <= f

\* The limit holds after any mix of insertions, increments, removals and sweeps;
\* an evict that found no list would break it (lfu.go:111-113, 176-178).
LimitRespected == MaxEntries # 0 => Cardinality(DOMAIN entries) <= MaxEntries

\* lfu.Cache does what cache.go:24-43 promises, with one answer of its own: where the
\* entry has expired, Get finds nil (lfu.go:131-146).  The default TTL is also the
\* longest life (lfu.go:90-99).
Contract ==
  INSTANCE CacheContract
    WITH store <- [k \in DOMAIN entries |->
                     [value |-> entries[k].value, expiration |-> entries[k].expiration]],
         Capped <- TRUE, ExpiredAnswer <- {Nil}
ImplementsContract == Contract!Spec
================================================================================
