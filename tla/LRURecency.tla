------------------------------ MODULE LRURecency -------------------------------
(***************************************************************************)
(* Is the entry lru.Cache evicts the least recently used one?  The list    *)
(* order is what the code keeps; what "used" means to a caller is recorded *)
(* here, beside the cache and without looking at the list, as the relation *)
(* between two keys "the last use of a is later than that of b".           *)
(***************************************************************************)
EXTENDS LRUCache

VARIABLE usedAfter  \* a set of pairs <<a, b>>

\* A key is used by a Set and by a Get that finds it.
Use(k) ==
  usedAfter' = {p \in usedAfter : k \notin {p[1], p[2]}} \cup {k} \X (Keys \ {k})

RInit == Init /\ usedAfter = {}

RNext ==
  \/ \E k \in Keys :
       /\ \E v \in Values, d \in Durations : Set(k, v, d)
       /\ Use(k)
  \/ \E k \in Keys :
       /\ Get(k)
       /\ IF answer' # {} THEN Use(k) ELSE UNCHANGED usedAfter
  \/ /\ \/ \E k \in Keys : Delete(k)
        \/ RemoveOldest \/ Clear \/ Close \/ StopCleanup
        \/ SetEvictedFunc
        \/ \E ttl \in TTLs : SetDefaultTTL(ttl)
        \/ Cleaner
        \/ Tick
        \/ Halted
     /\ UNCHANGED usedAfter

rvars == <<vars, usedAfter>>
RSpec == RInit /\ [][RNext]_rvars
FairRSpec == RSpec /\ Fairness

\* The list is sorted by last use, across expirations, sweeps, deletions and
\* reinsertions (lru.go:102, 118, 136).
ListSortedByUse ==
  \A i, j \in 1..Len(ll) : i < j => <<ll[i], ll[j]>> \in usedAfter

\* A key that an insertion or RemoveOldest pushes out was used before every
\* other key of the cache (lru.go:109-111, 199-207).
EvictsLeastRecentlyUsed ==
  [][\A k \in DOMAIN entries \ DOMAIN entries' :
       (\E j \in Keys \ DOMAIN entries, v \in Values, d \in Durations : Set(j, v, d))
         \/ RemoveOldest
       => \A other \in DOMAIN entries \ {k} : <<other, k>> \in usedAfter]_rvars
================================================================================
