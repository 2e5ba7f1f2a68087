----------------------------- MODULE CacheContract -----------------------------
(***************************************************************************)
(* What a caller of cache.ICache is promised, whatever the policy: the     *)
(* entries as one map, and for each call what it may do to that map, which *)
(* callbacks it makes and what it answers.  The policy is the choice of    *)
(* the victim; the lock, the list and the cleaner goroutine are not here.  *)
(***************************************************************************)
EXTENDS CacheCommon, FiniteSets

CONSTANTS
  Keys, Values,   \* what is stored
  Durations,      \* the durations a caller passes to Set
  TTLs,           \* the default TTLs a caller configures (0: none)
  MaxEntries,     \* 0: unlimited
  Capped,         \* TRUE when no entry outlives the default TTL
  ExpiredAnswer,  \* what Get finds where an entry has expired: {}, or {nil}
  MaxNow          \* bound: the clock stops there

VARIABLES
  store,          \* the entries, as a map from key to value and expiration
  now,            \* the clock
  defaultTTL,
  onEvicted,      \* whether an eviction callback is set
  calls,          \* the callbacks made by the last step
  answer          \* what the last Get found: {} or {value}

vars == <<store, now, defaultTTL, onEvicted, calls, answer>>
config == <<now, defaultTTL, onEvicted>>

Init ==
  /\ store = <<>>
  /\ now = 1
  /\ defaultTTL \in TTLs
  /\ onEvicted \in BOOLEAN
  /\ calls = {}
  /\ answer = {}

Full == MaxEntries # 0 /\ Cardinality(DOMAIN store) >= MaxEntries

\* The entries ks leave the map, and the callback is told of each.
Purge(map, ks, event) ==
  /\ store' = Drop(map, ks)
  /\ calls' = Called(onEvicted, map, ks, event)

\* When an entry set now expires: the default TTL stands in for a duration of 0, and
\* cuts a longer one in a cache that is Capped.
Deadline(d) ==
  LET asked == IF d > 0 THEN d ELSE defaultTTL
      life == IF Capped /\ defaultTTL > 0 /\ asked > defaultTTL THEN defaultTTL ELSE asked
  IN IF life > 0 THEN now + life ELSE Never

\* A new key in a full cache costs exactly one entry, possibly the new one.
Set(k, v, d) ==
  /\ LET updated == Put(store, k, [value |-> v, expiration |-> Deadline(d)])
     IN \/ /\ k \in DOMAIN store \/ ~Full
           /\ Purge(updated, {}, "Eviction")
        \/ /\ k \notin DOMAIN store /\ Full
           /\ \E victim \in DOMAIN updated : Purge(updated, {victim}, "Eviction")
  /\ answer' = {}
  /\ UNCHANGED config

Stale(k) == k \in DOMAIN store /\ IsExpired(store[k].expiration, now)

\* The value of a stale entry is never returned; the call may or may not remove it.
Get(k) ==
  /\ \/ /\ Stale(k)
        /\ \E gone \in SUBSET {k} : Purge(store, gone, "Expiration")
        /\ answer' = ExpiredAnswer
     \/ /\ k \in DOMAIN store /\ ~Stale(k)
        /\ Purge(store, {}, "Expiration")
        /\ answer' = {store[k].value}
     \/ /\ k \notin DOMAIN store
        /\ Purge(store, {}, "Expiration")
        /\ answer' = {}
  /\ UNCHANGED config

Remove(ks, event) ==
  /\ Purge(store, ks, event)
  /\ answer' = {}
  /\ UNCHANGED config

Delete(k) == Remove({k} \cap DOMAIN store, "Delete")
Clear == Remove(DOMAIN store, "Clear")
EvictOne == \E k \in DOMAIN store : Remove({k}, "Eviction")
Expire(k) == Stale(k) /\ Remove({k}, "Expiration")

\* The callback may be nil; a cache may refuse to replace the one it has.
SetEvictedFunc ==
  /\ onEvicted' \in BOOLEAN
  /\ calls' = {} /\ answer' = {}
  /\ UNCHANGED <<store, now, defaultTTL>>

SetDefaultTTL(ttl) ==
  /\ defaultTTL' = ttl
  /\ calls' = {} /\ answer' = {}
  /\ UNCHANGED <<store, now, onEvicted>>

Tick ==
  /\ now < MaxNow
  /\ now' = now + 1
  /\ UNCHANGED <<store, defaultTTL, onEvicted, calls, answer>>

Next ==
  \/ \E k \in Keys, v \in Values, d \in Durations : Set(k, v, d)
  \/ \E k \in Keys : Get(k) \/ Delete(k) \/ Expire(k)
  \/ Clear \/ EvictOne
  \/ SetEvictedFunc
  \/ \E ttl \in TTLs : SetDefaultTTL(ttl)
  \/ Tick

Spec == Init /\ [][Next]_vars
================================================================================
