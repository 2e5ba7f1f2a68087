------------------------------- MODULE LossyCache ------------------------------
(***************************************************************************)
(* What the engine needs of cache.ICache, and all five caches give: Get    *)
(* answers what was set last, unless it has expired; an entry may be lost  *)
(* at any moment, and every loss is told to the callback.  2Q and ARC lose *)
(* entries in a cache that is not full, lose fresh ones in a sweep, and    *)
(* tell of keys that are gone already or have yet to enter; CacheContract  *)
(* is the stricter promise that LRU, LFU and random keep.                  *)
(***************************************************************************)
EXTENDS CacheCommon

CONSTANTS
  Keys, Values,   \* what is stored
  Durations,      \* the durations a caller passes to Set
  TTLs,           \* the default TTLs a caller configures (0: none)
  Cappings,       \* TRUE in it: an entry may be bound to the default TTL; FALSE: not
  MaxNow          \* bound: the clock stops there

VARIABLES
  store,          \* the entries, as a map from key to value and expiration
  now,            \* the clock
  defaultTTL,
  onEvicted,      \* whether an eviction callback is set
  calls,          \* the callbacks made by the last step
  answer          \* what the last Get found: {} or {value}

vars == <<store, now, defaultTTL, onEvicted, calls, answer>>
config == <<now, defaultTTL, onEvicted>>

Init ==
  /\ store = <<>>
  /\ now = 1
  /\ defaultTTL \in TTLs
  /\ onEvicted \in BOOLEAN
  /\ calls = {}
  /\ answer = {}

\* One call or more for each key of ks, possibly with the value of an older entry.
Reports(ks, event) ==
  {told \in SUBSET [key : ks, value : Values, event : {event}] :
     \A k \in ks : \E c \in told : c.key = k}

Tell(ks, event) == calls' \in IF onEvicted THEN Reports(ks, event) ELSE {{}}

\* The keys ks are not in the map afterwards, whether or not they were before.
Lose(ks, events) ==
  /\ UNCHANGED config
  /\ store' = Drop(store, ks)
  /\ \E event \in events : Tell(ks, event)

\* When an entry set now expires: the default TTL stands in for a duration of 0, and
\* may cut a longer one.
Deadline(d, capped) ==
  LET asked == IF d > 0 THEN d ELSE defaultTTL
      life == IF capped /\ defaultTTL > 0 /\ asked > defaultTTL THEN defaultTTL ELSE asked
  IN IF life > 0 THEN now + life ELSE Never

\* An update loses nothing; a new key may cost any entries, its own included.  What is
\* left over of the new key may go, and be told of, before it enters the map.
Set(k, v, d) ==
  /\ UNCHANGED config
  /\ answer' = {}
  /\ \E capped \in Cappings :
       LET updated == Put(store, k, [value |-> v, expiration |-> Deadline(d, capped)])
       IN \/ store' = updated /\ Tell({}, "Eviction")
          \/ /\ k \notin DOMAIN store
             /\ \E ks \in SUBSET Keys :
                  /\ store' = Drop(updated, ks)
                  /\ Tell(ks, "Eviction") \/ Tell(ks \cup {k}, "Eviction")

Stale(k) == k \in DOMAIN store /\ IsExpired(store[k].expiration, now)

Get(k) ==
  /\ \E ks \in IF Stale(k) THEN SUBSET {k} ELSE {{}} : Lose(ks, {"Expiration"})
  /\ answer' = IF k \in DOMAIN store /\ ~Stale(k) THEN {store[k].value} ELSE {}

\* Delete, the cleaner and RemoveOldest.
Remove(ks, events) == answer' = {} /\ Lose(ks, events)

Clear == Remove(DOMAIN store, {"Clear"})

\* The callback may be nil.
SetEvictedFunc ==
  /\ onEvicted' \in BOOLEAN
  /\ calls' = {} /\ answer' = {}
  /\ UNCHANGED <<store, now, defaultTTL>>

SetDefaultTTL(ttl) ==
  /\ defaultTTL' = ttl
  /\ calls' = {} /\ answer' = {}
  /\ UNCHANGED <<store, now, onEvicted>>

Tick ==
  /\ now < MaxNow
  /\ now' = now + 1
  /\ UNCHANGED <<store, defaultTTL, onEvicted, calls, answer>>

Next ==
  \/ \E k \in Keys, v \in Values, d \in Durations : Set(k, v, d)
  \/ \E k \in Keys : Get(k)
  \/ \E ks \in SUBSET Keys : Remove(ks, Events \ {"Clear"})
  \/ Clear
  \/ SetEvictedFunc
  \/ \E ttl \in TTLs : SetDefaultTTL(ttl)
  \/ Tick

Spec == Init /\ [][Next]_vars
================================================================================
