------------------------------ MODULE CacheCommon ------------------------------
(***************************************************************************)
(* What the five caches under internal/cache share: the events an eviction *)
(* callback is told, how a deadline is computed from a duration and the    *)
(* default TTL, and when an entry counts as expired.                       *)
(*                                                                         *)
(* Time is an absolute number of ticks.  A Go map is a function whose      *)
(* domain is the set of keys present; Put and Drop are m[k] = e and        *)
(* delete(m, k).                                                           *)
(***************************************************************************)
EXTENDS Naturals

Events == {"Expiration", "Eviction", "Delete", "Clear"}

\* An entry with this expiration never expires.
Never == 0

IsExpired(expiration, time) == expiration > Never /\ time > expiration

\* ARC, 2Q and random: the duration of the call wins over the default TTL.
PlainDeadline(time, duration, ttl) ==
  IF duration > 0 THEN time + duration
  ELSE IF ttl > 0 THEN time + ttl ELSE Never

\* LRU and LFU: the default TTL is also the longest life an entry may have.
CappedDeadline(time, duration, ttl) ==
  IF duration > 0 /\ ~(ttl > 0 /\ duration > ttl) THEN time + duration
  ELSE IF ttl > 0 THEN time + ttl ELSE Never

Put(map, k, e) == [x \in DOMAIN map \cup {k} |-> IF x = k THEN e ELSE map[x]]
Drop(map, ks) == [x \in DOMAIN map \ ks |-> map[x]]

\* The calls of the eviction callback for the entries of ks, in any order.
Called(hooked, map, ks, event) ==
  IF hooked THEN {[key |-> k, value |-> map[k].value, event |-> event] : k \in ks}
  ELSE {}

EntryOf(values) == [value : values, expiration : Nat]
CallOf(keys, values) == [key : keys, value : values, event : Events]
================================================================================
