------------------------------- MODULE GhostCaches -----------------------------
(***************************************************************************)
(* internal/cache/twoq and internal/cache/arc.  Both keep a list of the    *)
(* keys that were used once and one of those used again (a1 and a2, t1 and *)
(* t2), ghost lists of keys that were evicted, and the same cleaner.       *)
(*                                                                         *)
(* list.Remove(e) returns e.Value also when e is an element of another     *)
(* list, so the branches "already in the second list" never run: every hit *)
(* pushes one more element on the second list, and nothing but an eviction *)
(* takes one off.  All elements of a key point to one entry, until that    *)
(* entry leaves the map; they point to it still when the key is set again. *)
(*                                                                         *)
(* An operation holds c.mu from its first to its last line and is one      *)
(* action.  Clear does not take it: it is assumed to overlap no call but   *)
(* the cleaner, as in the engine, which calls it under its own lock.       *)
(***************************************************************************)
EXTENDS CacheCommon, Positions, Integers, SequencesExt

CONSTANTS
  Keys, Values,   \* what is stored
  Durations,      \* the durations a caller passes to Set
  TTLs,           \* the default TTLs a caller configures (0: none)
  MaxEntries,     \* maxEntries
  Policies,       \* which of "2Q" and "ARC" to look at
  MaxElements,    \* bound: no hit when the second list has so many elements
  MaxNow          \* bound: the clock stops there

ASSUME GhostAssumption ==
  /\ MaxEntries \in Nat
  /\ Policies \subseteq {"2Q", "ARC"}
  /\ MaxElements \in Nat
  /\ MaxNow \in Nat
  /\ Durations \subseteq Nat
  /\ TTLs \subseteq Nat

VARIABLES
  policy,         \* which cache it is
  c,              \* the cache's fields, and the callbacks of the last step
  now,            \* time.Now()
  defaultTTL,     \* c.defaultTTL
  onEvicted,      \* c.onEvicted # nil
  answer,         \* what the last Get found: {} or {value}
  stopped,        \* c.stopChan is closed, and nil
  closed,         \* c.closed
  cleaner,        \* where the goroutine of startCleanup stands
  crashed         \* what took the process down, if anything did

config == <<policy, now, defaultTTL, onEvicted>>
control == <<stopped, closed, cleaner>>
vars == <<config, c, answer, control, crashed>>

\* recent and frequent are a1 and a2, or t1 and t2, front first; b1 and b2 the ghost
\* lists (2Q has the first only); p is ARC's target for t1.
Empty == [entries |-> <<>>, recent |-> <<>>, frequent |-> <<>>,
          b1 |-> <<>>, b2 |-> <<>>, p |-> 0, calls |-> {}]

Init ==
  /\ policy \in Policies
  /\ c = Empty
  /\ now = 1
  /\ defaultTTL \in TTLs
  /\ onEvicted \in BOOLEAN
  /\ answer = {}
  /\ stopped = FALSE
  /\ closed = FALSE
  /\ cleaner \in {"off", "starting"}
  /\ crashed = "none"

Running == crashed = "none"
Unlocked == Running /\ cleaner # "sweeping"

--------------------------------------------------------------------------------
(* The lists.  An element of the entry that the map holds for its key has  *)
(* old = {}, any other has the entry it points to in old.                  *)

Element(k) == [key |-> k, old |-> {}]
EntryOfElement(T, e) == IF e.old = {} THEN T.entries[e.key] ELSE CHOOSE ent \in e.old : TRUE

Told(T, es, event) ==
  IF onEvicted
  THEN {[key |-> e.key, value |-> EntryOfElement(T, e).value, event |-> event] : e \in es}
  ELSE {}

\* delete(c.entries, k): the elements go on pointing to the entry.
Detached(list, map, ks) ==
  [i \in DOMAIN list |->
     IF list[i].old = {} /\ list[i].key \in ks
     THEN [list[i] EXCEPT !.old = {map[list[i].key]}] ELSE list[i]]
Forget(T, ks) ==
  [T EXCEPT !.entries = Drop(@, ks), !.recent = Detached(@, T.entries, ks),
            !.frequent = Detached(@, T.entries, ks)]

TakeOff(list, x) ==
  IF \E i \in DOMAIN list : list[i] = x
  THEN RemoveAt(list, CHOOSE i \in DOMAIN list : list[i] = x) ELSE list

Capped(ghosts) == IF Len(ghosts) > MaxEntries THEN Front(ghosts) ELSE ghosts

\* The back element of a list goes; its key leaves the map, whatever the map has for
\* it, and becomes a ghost.
EvictFrom(T, list, ghosts) ==
  LET e == Last(T[list])
  IN [Forget([T EXCEPT ![list] = Front(@)], {e.key}) EXCEPT
        ![ghosts] = Capped(<<e.key>> \o @),
        !.calls = @ \cup Told(T, {e}, "Eviction")]

\* The list that evict and replace look at.  2Q's first list has at least the element
\* Set has just pushed.
VictimList(T) ==
  IF policy = "2Q" \/ Len(T.recent) >= (IF T.p > 1 THEN T.p ELSE 1)
  THEN "recent" ELSE "frequent"
Evict(T) == EvictFrom(T, VictimList(T), IF VictimList(T) = "recent" THEN "b1" ELSE "b2")

\* Mutant: the element stays on the first list.
PromoteOnly(T, k) == [T EXCEPT !.frequent = <<Element(k)>> \o @]

\* A hit, in Set or Get.
Promote(T, k) ==
  [T EXCEPT !.recent = TakeOff(@, Element(k)), !.frequent = <<Element(k)>> \o @]

--------------------------------------------------------------------------------
(* The operations.                                                         *)

InGhosts(T, k) == k \in ToSet(T.b1) \cup ToSet(T.b2)

\* Mutant: the target for t1 is kept in no bounds.
TargetUnbounded(T, k) ==
  IF k \in ToSet(T.b1) THEN T.p + 1 ELSE IF k \in ToSet(T.b2) THEN T.p - 1 ELSE T.p

\* The new p, from the ghost lists without k.
Target(T, k) ==
  LET n1 == Len(TakeOff(T.b1, k))
      n2 == Len(TakeOff(T.b2, k))
      Share(m, n) == IF n > 0 /\ m \div n > 1 THEN m \div n ELSE 1
      up == T.p + Share(n2, n1)
      down == T.p - Share(n1, n2)
  IN IF k \in ToSet(T.b1) THEN IF up < MaxEntries THEN up ELSE MaxEntries
     ELSE IF k \in ToSet(T.b2) THEN IF down > 0 THEN down ELSE 0
     ELSE T.p

\* checkGhost of both lists, and ARC's adaptation.
MeetGhosts(T, k) ==
  [T EXCEPT !.b1 = TakeOff(@, k), !.b2 = TakeOff(@, k),
            !.p = IF policy = "ARC" THEN Target(T, k) ELSE @]

Update(k, entry) ==
  /\ k \in DOMAIN c.entries
  /\ Len(c.frequent) < MaxElements
  /\ c' = Promote([c EXCEPT !.entries = Put(@, k, entry), !.calls = {}], k)

\* What a new key finds: ARC meets the ghosts, and replaces if it met one.
Replaces(k) == policy = "ARC" /\ InGhosts(c, k)
Prepared(k) ==
  LET T == [c EXCEPT !.calls = {}]
  IN IF policy = "ARC" THEN MeetGhosts(T, k) ELSE T
Arrived(k, entry) ==
  [(IF Replaces(k) THEN Evict(Prepared(k)) ELSE Prepared(k)) EXCEPT
     !.entries = Put(@, k, entry), !.recent = <<Element(k)>> \o @]

\* Mutant: one element too late.
OverOneLate(T) == Len(T.recent) + Len(T.frequent) > MaxEntries + 1

Over(T) == Len(T.recent) + Len(T.frequent) > MaxEntries

\* Remove(nil): replace and evict take the back of t2 although t2 may be empty.
ReplacePanics(k) == Replaces(k) /\ c[VictimList(Prepared(k))] = <<>>
EvictPanics(T) == Over(T) /\ T[VictimList(T)] = <<>>

Insert(k, entry) ==
  /\ k \notin DOMAIN c.entries
  /\ ~ReplacePanics(k)
  /\ LET T == Arrived(k, entry)
     IN ~EvictPanics(T) /\ c' = IF Over(T) THEN Evict(T) ELSE T

Set(k, v, d) ==
  /\ Unlocked
  /\ LET entry == [value |-> v, expiration |-> PlainDeadline(now, d, defaultTTL)]
     IN Update(k, entry) \/ Insert(k, entry)
  /\ answer' = {}
  /\ UNCHANGED <<config, control, crashed>>

SetPanics(k, v) ==
  /\ Unlocked
  /\ k \notin DOMAIN c.entries
  /\ crashed' = IF ReplacePanics(k) THEN "replace"
                ELSE IF EvictPanics(Arrived(k, [value |-> v, expiration |-> Never]))
                     THEN "evict" ELSE "none"
  /\ crashed' # "none"
  /\ UNCHANGED <<config, c, answer, control>>

Removed(T, k) ==
  [Forget([T EXCEPT !.recent = TakeOff(@, Element(k))], {k}) EXCEPT
     !.calls = Told(T, {Element(k)}, "Expiration")]

\* The elements that a removed entry has in the second list stay there.
GetExpired(k) ==
  /\ IsExpired(c.entries[k].expiration, now)
  /\ c' = Removed(c, k)
  /\ answer' = {}

\* Mutant: no look at the expiration.
HitStale(k) ==
  /\ Len(c.frequent) < MaxElements
  /\ c' = Promote([c EXCEPT !.calls = {}], k)
  /\ answer' = {c.entries[k].value}

Hit(k) ==
  /\ ~IsExpired(c.entries[k].expiration, now)
  /\ Len(c.frequent) < MaxElements
  /\ c' = Promote([c EXCEPT !.calls = {}], k)
  /\ answer' = {c.entries[k].value}

Get(k) ==
  /\ Unlocked
  /\ \/ k \in DOMAIN c.entries /\ (GetExpired(k) \/ Hit(k))
     \/ /\ k \notin DOMAIN c.entries
        /\ c' = MeetGhosts([c EXCEPT !.calls = {}], k)
        /\ answer' = {}
  /\ UNCHANGED <<config, control, crashed>>

Purge ==
  /\ c' = [Empty EXCEPT !.calls = Called(onEvicted, c.entries, DOMAIN c.entries, "Clear")]
  /\ answer' = {}

\* Without the mutex.  When the cleaner has it, both may change the map and the lists
\* at once, and what becomes of them then is not modelled; or Clear comes first.
Clear ==
  /\ Running
  /\ \/ Purge /\ UNCHANGED crashed
     \/ cleaner = "sweeping" /\ crashed' = "race" /\ UNCHANGED <<c, answer>>
  /\ UNCHANGED <<config, control>>

\* Close, before it asks for the mutex: close(c.stopChan), and the nil.
Stop ==
  /\ Running
  /\ stopped' = TRUE
  /\ UNCHANGED <<config, c, answer, closed, cleaner, crashed>>

\* The rest of Close.
Close ==
  /\ Unlocked /\ stopped
  /\ closed' = TRUE
  /\ Purge
  /\ UNCHANGED <<config, stopped, cleaner, crashed>>

\* A callback, or nil, replaces the one there is.
SetEvictedFunc ==
  /\ Unlocked
  /\ onEvicted' \in BOOLEAN
  /\ c' = [c EXCEPT !.calls = {}] /\ answer' = {}
  /\ UNCHANGED <<policy, now, defaultTTL, control, crashed>>

SetDefaultTTL(ttl) ==
  /\ Unlocked
  /\ defaultTTL' = ttl
  /\ c' = [c EXCEPT !.calls = {}] /\ answer' = {}
  /\ UNCHANGED <<policy, now, onEvicted, control, crashed>>

--------------------------------------------------------------------------------
(* The cleaner.                                                            *)

StaleIn(list) == {e \in ToSet(list) : IsExpired(EntryOfElement(c, e).expiration, now)}

Swept(list, stale) == Only(list, {i \in DOMAIN list : list[i] \notin stale})

\* Mutant: the second list is not swept.
SweepRecent ==
  LET stale == StaleIn(c.recent)
  IN [Forget([c EXCEPT !.recent = Swept(@, stale)], {e.key : e \in stale})
        EXCEPT !.calls = Told(c, stale, "Expiration")]

\* removeElement of every stale element, one left over from an earlier entry
\* included: it deletes the key of the entry there is now.
SweepLists ==
  LET stale == StaleIn(c.recent) \cup StaleIn(c.frequent)
  IN [Forget([c EXCEPT !.recent = Swept(@, stale)], {e.key : e \in stale})
        EXCEPT !.calls = Told(c, stale, "Expiration")]

CleanerMoves(from, to) ==
  /\ Running
  /\ cleaner \in from
  /\ cleaner' = to
  /\ UNCHANGED <<config, stopped, closed, crashed>>

\* select evaluates c.stopChan: nil, once Close has stopped the cleaner, is never
\* ready.  That comes at once after a tick that finds the cache closed.
Selecting == IF stopped THEN "blind" ELSE "waiting"

CleanerStarts == CleanerMoves({"starting"}, Selecting) /\ UNCHANGED <<c, answer>>

\* A tick: the mutex, unless the cache is closed.
CleanerLocks ==
  /\ CleanerMoves({"waiting", "blind"}, IF closed THEN Selecting ELSE "sweeping")
  /\ UNCHANGED <<c, answer>>

CleanerSweeps ==
  /\ CleanerMoves({"sweeping"}, Selecting)
  /\ c' = SweepLists
  /\ answer' = {}

CleanerExits == stopped /\ CleanerMoves({"waiting"}, "off") /\ UNCHANGED <<c, answer>>

--------------------------------------------------------------------------------

Tick ==
  /\ Running
  /\ now < MaxNow
  /\ now' = now + 1
  /\ UNCHANGED <<policy, defaultTTL, onEvicted, c, answer, control, crashed>>

Cleaner == CleanerStarts \/ CleanerLocks \/ CleanerSweeps

Next ==
  \/ \E k \in Keys, v \in Values, d \in Durations : Set(k, v, d) \/ SetPanics(k, v)
  \/ \E k \in Keys : Get(k)
  \/ Clear \/ Stop \/ Close
  \/ SetEvictedFunc
  \/ \E ttl \in TTLs : SetDefaultTTL(ttl)
  \/ Cleaner \/ CleanerExits
  \/ Tick

Spec == Init /\ [][Next]_vars

--------------------------------------------------------------------------------
(* Properties.                                                             *)

\* Every variable keeps the shape its Go counterpart has.
TypeOK ==
  /\ policy \in Policies
  /\ DOMAIN c.entries \subseteq Keys
  /\ c.entries \in [DOMAIN c.entries -> EntryOf(Values)]
  /\ \A e \in ToSet(c.recent) \cup ToSet(c.frequent) :
       e.key \in Keys /\ e.old \subseteq EntryOf(Values) /\ Cardinality(e.old) <= 1
  /\ c.b1 \in Seq(Keys) /\ c.b2 \in Seq(Keys)
  /\ c.p \in Nat
  /\ c.calls \subseteq CallOf(Keys, Values)
  /\ now \in Nat /\ defaultTTL \in Nat
  /\ onEvicted \in BOOLEAN
  /\ stopped \in BOOLEAN /\ closed \in BOOLEAN
  /\ answer \subseteq Values
  /\ cleaner \in {"off", "starting", "waiting", "blind", "sweeping"}
  /\ crashed \in {"none", "replace", "evict", "race"}

\* For all the elements left over, every entry of the map can be reached by eviction
\* and sweep: it has one element in the first list or some in the second, never
\* both, and no element points to an entry of the map for another key
\* (twoq.go:80-86, 92, 335-342; arc.go:77-82, 112, 396-403).
MapMatchesLists ==
  LET places(list, k) == {i \in DOMAIN list : list[i] = Element(k)}
  IN \A k \in Keys :
       LET once == Cardinality(places(c.recent, k))
           again == Cardinality(places(c.frequent, k))
       IN IF k \in DOMAIN c.entries THEN {once, again} # {0} /\ once <= 1 /\ (once = 0 \/ again = 0)
          ELSE once = 0 /\ again = 0

\* 2Q never holds more than maxEntries, whatever is left over in its lists: each
\* entry has an element of its own, and they all count (twoq.go:95).
TwoQKeepsLimit == policy = "2Q" => Cardinality(DOMAIN c.entries) <= MaxEntries

\* The eviction after an insertion always finds an element where it looks: the
\* target for t1 never leaves 0..maxEntries, so that a short t1 means a t2 that is
\* not empty (arc.go:94-105, 115-116, 262-277).  ARC's replace has no such luck.
EvictFindsVictim == crashed # "evict"

\* 2Q and ARC are caches as the engine needs them, as long as they run: an answer
\* is what was set last and has not expired, and no key goes untold.
LocalCache == INSTANCE LossyCache WITH store <- c.entries, calls <- c.calls, Cappings <- {FALSE}
ImplementsLossyCache == LocalCache!Spec

\* A sweep leaves no stale entry in the map, whichever list its elements are in, left
\* over or not (twoq.go:306-327, arc.go:367-388).
SweepLeavesNothingStale ==
  [][cleaner = "sweeping" /\ cleaner' # "sweeping" => \A k \in Keys : ~LocalCache!Stale(k)']_vars

\* "The maximum number of cache entries before an entry is evicted" (twoq.go:15,
\* arc.go:15): no entry is evicted to make room below it.
EvictsAtLimitOnly ==
  [][(\E told \in c'.calls : told.event = "Eviction")
       => Cardinality(DOMAIN c.entries) >= MaxEntries]_c
================================================================================
