------------------------------- MODULE LFUPolicy -------------------------------
(***************************************************************************)
(* Is the entry lfu.Cache evicts the least frequently used one, and of     *)
(* those the least recently used?  Beside the cache, and without looking   *)
(* at its lists, this module counts the uses of every key since it was     *)
(* inserted and records which of two keys was used last.                   *)
(***************************************************************************)
EXTENDS LFUCache

VARIABLES
  uses,       \* from a key to the number of its uses since its insertion
  usedAfter   \* the pairs <<a, b>> such that the last use of a is the later one

Use(k) ==
  /\ uses' = [uses EXCEPT ![k] = IF k \in DOMAIN entries THEN @ + 1 ELSE 1]
  /\ usedAfter' = {p \in usedAfter : k \notin {p[1], p[2]}} \cup {k} \X (Keys \ {k})

PInit == Init /\ uses = [k \in Keys |-> 0] /\ usedAfter = {}

Unused ==
  \/ \E k \in Keys : Get(k) /\ answer' \subseteq {Nil}
  \/ \E k \in Keys : Delete(k) \/ CleanerRemoves(k)
  \/ SetPanics \/ Clear \/ Close \/ StopCleanup
  \/ SetEvictedFunc
  \/ \E ttl \in TTLs : SetDefaultTTL(ttl)
  \/ CleanerLocks \/ CleanerUnlocks \/ CleanerExits
  \/ Tick
  \/ Halted

PNext ==
  \/ \E k \in Keys, v \in Values, d \in Durations : Set(k, v, d) /\ Use(k)
  \/ \E k \in Keys : Get(k) /\ ~(answer' \subseteq {Nil}) /\ Use(k)
  \/ Unused /\ UNCHANGED <<uses, usedAfter>>

pvars == <<vars, uses, usedAfter>>
PSpec == PInit /\ [][PNext]_pvars

\* The list of each frequency is sorted by last use, the front being the oldest,
\* across expirations, deletions and reinsertions (lfu.go:127, 169, 180).
ListsSortedByUse ==
  \A f \in DOMAIN freqList : \A i, j \in 1..Len(freqList[f]) :
    i < j => <<freqList[f][j], freqList[f][i]>> \in usedAfter

\* What an insertion evicts was used no more often than any other entry, and among
\* those used as often it is the one whose last use is the oldest (lfu.go:172).
EvictsLeastFrequentlyUsed ==
  [][\A k \in DOMAIN entries \ DOMAIN entries' :
       (\E j \in Keys \ DOMAIN entries, v \in Values, d \in Durations : Set(j, v, d))
       => \A other \in DOMAIN entries \ {k} :
            \/ uses[k] < uses[other]
            \/ uses[k] = uses[other] /\ <<other, k>> \in usedAfter]_pvars
================================================================================
