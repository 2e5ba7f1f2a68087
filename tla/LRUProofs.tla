-------------------------------- MODULE LRUProofs ------------------------------
(* Theorems about LRUCache and LRURecency for every value of their         *)
(* constants, and about what CacheContract asks of any cache.              *)
EXTENDS LRURecency, CacheLemmas

--------------------------------------------------------------------------------
(* What the building blocks of the actions do to the map and the list.     *)

Agree == ll \in Seq(Keys) /\ DOMAIN entries \subseteq Keys /\ Matches(ll, DOMAIN entries)

\* The invariant of the runs says that the two agree.
LEMMA AgreeFromInvariant ==
  TypeOK /\ MapMatchesList => Agree
BY DEF TypeOK, MapMatchesList, Agree, Matches

\* Every key of the map has a position in the list.
LEMMA PositionFound ==
  ASSUME Agree, NEW k \in DOMAIN entries
  PROVE  Position(k) \in 1..Len(ll) /\ ll[Position(k)] = k
<1>1. \E i \in 1..Len(ll) : ll[i] = k
  BY DEF Agree, Matches
<1> QED
  BY <1>1 DEF Position

\* MoveToFront permutes the list.
LEMMA MoveToFrontAgrees ==
  ASSUME Agree, NEW k \in DOMAIN entries
  PROVE  /\ MoveToFront(k) \in Seq(Keys)
         /\ Len(MoveToFront(k)) = Len(ll)
         /\ Matches(MoveToFront(k), DOMAIN entries)
<1> DEFINE i == Position(k)
           s == Omit(ll, i)
<1>1. i \in 1..Len(ll) /\ ll[i] = k
  BY PositionFound
<1>2. ll \in Seq(Keys) /\ Matches(ll, DOMAIN entries) /\ k \in Keys
  BY DEF Agree
<1> HIDE DEF i
<1>3. s \in Seq(Keys) /\ Len(s) = Len(ll) - 1
  BY <1>1, <1>2, OmitProperties
<1>4. Matches(s, DOMAIN entries \ {k})
  BY <1>1, <1>2, OmitMatches
<1>5. MoveToFront(k) = <<k>> \o s
  BY DEF MoveToFront, Without, Omit, i
<1>6. DOMAIN entries = (DOMAIN entries \ {k}) \cup {k}
  OBVIOUS
<1> HIDE DEF s
<1>7. /\ <<k>> \o s \in Seq(Keys)
      /\ Len(<<k>> \o s) = Len(s) + 1
      /\ Matches(<<k>> \o s, (DOMAIN entries \ {k}) \cup {k})
  BY <1>2, <1>3, <1>4, PushMatches
<1>8. Len(ll) \in Nat
  BY <1>2
<1> QED
  BY <1>3, <1>5, <1>6, <1>7, <1>8

\* removeElement takes the same key from both.
LEMMA WithoutAgrees ==
  ASSUME Agree, NEW i \in 1..Len(ll)
  PROVE  /\ Without(i) \in Seq(Keys)
         /\ Len(Without(i)) = Len(ll) - 1
         /\ \A j \in 1..(Len(ll) - 1) : Without(i)[j] = IF j < i THEN ll[j] ELSE ll[j + 1]
         /\ Matches(Without(i), DOMAIN entries \ {ll[i]})
         /\ ll[i] \in DOMAIN entries
<1>1. ll \in Seq(Keys) /\ Matches(ll, DOMAIN entries) /\ ll[i] \in Keys
  BY DEF Agree
<1>2. Without(i) = Omit(ll, i)
  BY DEF Without, Omit
<1>3. ll[i] \in DOMAIN entries
  BY <1>1 DEF Matches
<1> QED
  BY <1>1, <1>2, <1>3, OmitProperties, OmitMatches

--------------------------------------------------------------------------------
(* The parts of the actions that touch the map and the list, one by one.   *)

\* The map and the list are well typed and hold the same keys.
Shape ==
  /\ ll \in Seq(Keys)
  /\ DOMAIN entries \subseteq Keys
  /\ entries \in [DOMAIN entries -> EntryOf(Values)]
  /\ calls \subseteq CallOf(Keys, Values)
  /\ Matches(ll, DOMAIN entries)

LEMMA ShapeFromInvariant ==
  TypeOK /\ MapMatchesList => Shape /\ Agree /\ onEvicted \in BOOLEAN /\ Len(ll) \in Nat
BY DEF TypeOK, MapMatchesList, Shape, Agree, Matches

LEMMA RemoveElementStep ==
  ASSUME TypeOK, MapMatchesList, NEW i \in 1..Len(ll), NEW event \in Events,
         RemoveElement(i, event)
  PROVE  /\ Shape'
         /\ Len(ll') = Len(ll) - 1
         /\ \A j \in 1..(Len(ll) - 1) : ll'[j] = IF j < i THEN ll[j] ELSE ll[j + 1]
         /\ DOMAIN entries' = DOMAIN entries \ {ll[i]}
         /\ \A k \in DOMAIN entries' : entries'[k] = entries[k]
<1>1. Shape /\ Agree /\ onEvicted \in BOOLEAN
  BY ShapeFromInvariant
<1>2. /\ ll' = Without(i)
      /\ entries' = Drop(entries, {ll[i]})
      /\ calls' = Called(onEvicted, entries, {ll[i]}, event)
  BY DEF RemoveElement
<1>3. /\ Without(i) \in Seq(Keys)
      /\ Len(Without(i)) = Len(ll) - 1
      /\ \A j \in 1..(Len(ll) - 1) : Without(i)[j] = IF j < i THEN ll[j] ELSE ll[j + 1]
      /\ Matches(Without(i), DOMAIN entries \ {ll[i]})
      /\ ll[i] \in DOMAIN entries
  BY <1>1, WithoutAgrees
<1>4. /\ entries' \in [DOMAIN entries' -> EntryOf(Values)]
      /\ DOMAIN entries' = DOMAIN entries \ {ll[i]}
      /\ \A k \in DOMAIN entries' : entries'[k] = entries[k]
  <2>1. entries \in [DOMAIN entries -> EntryOf(Values)]
    BY <1>1 DEF Shape
  <2>2. /\ Drop(entries, {ll[i]}) \in [DOMAIN Drop(entries, {ll[i]}) -> EntryOf(Values)]
        /\ DOMAIN Drop(entries, {ll[i]}) = DOMAIN entries \ {ll[i]}
        /\ \A k \in DOMAIN Drop(entries, {ll[i]}) : Drop(entries, {ll[i]})[k] = entries[k]
    BY <2>1 DEF Drop
  <2> QED BY <1>2, <2>2
<1>5. calls' \subseteq CallOf(Keys, Values)
  BY <1>1, <1>2, <1>3, CalledType DEF Shape
<1>6. DOMAIN entries' \subseteq Keys
  BY <1>1, <1>4 DEF Shape
<1>7. Shape'
  BY <1>2, <1>3, <1>4, <1>5, <1>6 DEF Shape, Matches
<1> QED
  BY <1>2, <1>3, <1>4, <1>7

LEMMA UpdateStep ==
  ASSUME TypeOK, MapMatchesList, NEW k \in Keys, NEW entry \in EntryOf(Values),
         Update(k, entry)
  PROVE  Shape' /\ Len(ll') = Len(ll) /\ DOMAIN entries' = DOMAIN entries
<1>1. Shape /\ Agree
  BY ShapeFromInvariant
<1>2. /\ k \in DOMAIN entries
      /\ ll' = MoveToFront(k)
      /\ entries' = Put(entries, k, entry)
      /\ calls' = {}
  BY DEF Update
<1>3. /\ ll' \in Seq(Keys)
      /\ Len(ll') = Len(ll)
      /\ Matches(MoveToFront(k), DOMAIN entries)
  BY <1>1, <1>2, MoveToFrontAgrees
<1>4. /\ entries' \in [DOMAIN entries' -> EntryOf(Values)]
      /\ DOMAIN entries' = DOMAIN entries
  <2>1. entries \in [DOMAIN entries -> EntryOf(Values)]
    BY <1>1 DEF Shape
  <2>2. /\ Put(entries, k, entry) \in [DOMAIN Put(entries, k, entry) -> EntryOf(Values)]
        /\ DOMAIN Put(entries, k, entry) = DOMAIN entries \cup {k}
    BY <2>1 DEF Put
  <2> QED BY <1>2, <2>2
<1> QED
  BY <1>1, <1>2, <1>3, <1>4 DEF Shape, Matches

LEMMA HitStep ==
  ASSUME TypeOK, MapMatchesList, NEW k \in Keys, Hit(k)
  PROVE  Shape' /\ Len(ll') = Len(ll) /\ entries' = entries /\ answer' \subseteq Values
<1>1. Shape /\ Agree
  BY ShapeFromInvariant
<1>2. /\ k \in DOMAIN entries
      /\ ll' = MoveToFront(k)
      /\ entries' = entries
      /\ calls' = {}
      /\ answer' = {entries[k].value}
  BY DEF Hit
<1>3. /\ ll' \in Seq(Keys)
      /\ Len(ll') = Len(ll)
      /\ Matches(MoveToFront(k), DOMAIN entries)
  BY <1>1, <1>2, MoveToFrontAgrees
<1>4. answer' \subseteq Values
  BY <1>1, <1>2 DEF Shape, EntryOf
<1> QED
  BY <1>1, <1>2, <1>3, <1>4 DEF Shape, Matches

LEMMA InsertStep ==
  ASSUME TypeOK, MapMatchesList, NEW k \in Keys, NEW entry \in EntryOf(Values),
         Insert(k, entry)
  PROVE  Shape' /\ Len(ll') = Len(ll) + 1
<1>1. Shape
  BY ShapeFromInvariant
<1>2. /\ k \notin DOMAIN entries
      /\ ll' = <<k>> \o ll
      /\ entries' = Put(entries, k, entry)
      /\ calls' = {}
  BY DEF Insert
<1>3. /\ ll' \in Seq(Keys)
      /\ Len(ll') = Len(ll) + 1
      /\ Matches(<<k>> \o ll, DOMAIN entries \cup {k})
  BY <1>1, <1>2, PushMatches DEF Shape
<1>4. /\ entries' \in [DOMAIN entries' -> EntryOf(Values)]
      /\ DOMAIN entries' = DOMAIN entries \cup {k}
  BY <1>1, <1>2 DEF Put, Shape
<1> QED
  BY <1>1, <1>2, <1>3, <1>4 DEF Shape, Matches

\* The eviction makes room for exactly the entry that comes in.
LEMMA EvictAndInsertStep ==
  ASSUME TypeOK, MapMatchesList, NEW k \in Keys, NEW entry \in EntryOf(Values),
         EvictAndInsert(k, entry)
  PROVE  Shape' /\ Len(ll') = Len(ll)
<1> DEFINE n == Len(ll)
           kept == Drop(entries, {ll[n]})
           rest == Without(n)
<1>1. Shape /\ Agree /\ onEvicted \in BOOLEAN /\ n \in Nat
  BY ShapeFromInvariant
<1>2. /\ k \notin DOMAIN entries
      /\ Full
      /\ ll' = <<k>> \o rest
      /\ entries' = Put(kept, k, entry)
      /\ calls' = Called(onEvicted, entries, {ll[n]}, "Eviction")
  BY DEF EvictAndInsert
<1>3. n \in 1..Len(ll)
  BY <1>1, <1>2, LRUAssumption DEF Full
<1>4. /\ rest \in Seq(Keys)
      /\ Len(rest) = n - 1
      /\ Matches(rest, DOMAIN entries \ {ll[n]})
      /\ ll[n] \in DOMAIN entries
  BY <1>1, <1>3, WithoutAgrees
<1>5. /\ kept \in [DOMAIN kept -> EntryOf(Values)]
      /\ DOMAIN kept = DOMAIN entries \ {ll[n]}
  BY <1>1 DEF Drop, Shape
<1> HIDE DEF rest, kept
<1>6. /\ <<k>> \o rest \in Seq(Keys)
      /\ Len(<<k>> \o rest) = Len(rest) + 1
      /\ Matches(<<k>> \o rest, DOMAIN kept \cup {k})
  BY <1>2, <1>4, <1>5, PushMatches
<1>7. /\ entries' \in [DOMAIN entries' -> EntryOf(Values)]
      /\ DOMAIN entries' = DOMAIN kept \cup {k}
  BY <1>2, <1>5 DEF Put
<1>8. calls' \subseteq CallOf(Keys, Values)
  <2>1. "Eviction" \in Events /\ {ll[n]} \in SUBSET DOMAIN entries
    BY <1>4 DEF Events
  <2> QED BY <1>1, <1>2, <2>1, CalledType DEF Shape
<1>9. DOMAIN entries' \subseteq Keys
  BY <1>1, <1>5, <1>7 DEF Shape
<1>10. Len(ll') = Len(ll)
  BY <1>1, <1>2, <1>4, <1>6
<1>11. Matches(ll', DOMAIN entries')
  BY <1>2, <1>6, <1>7
<1> QED
  BY <1>2, <1>6, <1>7, <1>8, <1>9, <1>10, <1>11 DEF Shape

\* What Clear and Close leave is empty on both sides.
LEMMA PurgeAllStep ==
  ASSUME TypeOK, MapMatchesList, PurgeAll
  PROVE  Shape' /\ ll' = <<>> /\ Len(ll') = 0 /\ answer' = {}
<1>1. Shape /\ onEvicted \in BOOLEAN
  BY ShapeFromInvariant
<1>2. /\ calls' = Called(onEvicted, entries, DOMAIN entries, "Clear")
      /\ entries' = <<>> /\ ll' = <<>> /\ answer' = {}
  BY DEF PurgeAll
<1>3. calls' \subseteq CallOf(Keys, Values)
  <2>1. "Clear" \in Events /\ DOMAIN entries \in SUBSET DOMAIN entries
    BY DEF Events
  <2> QED BY <1>1, <1>2, <2>1, CalledType DEF Shape
<1>4. DOMAIN entries' = {} /\ entries' \in [DOMAIN entries' -> EntryOf(Values)]
  BY <1>2
<1>5. Len(ll') = 0 /\ ll' \in Seq(Keys)
  BY <1>2
<1> QED
  BY <1>2, <1>3, <1>4, <1>5 DEF Shape, Matches

--------------------------------------------------------------------------------
(* The inductive invariant: the four invariants of the runs together.      *)

IInv == TypeOK /\ MapMatchesList /\ CapacityRespected /\ SweepOnCourse

\* A deadline is a point in time.
LEMMA DeadlineType ==
  ASSUME TypeOK, NEW v \in Values, NEW d \in Durations
  PROVE  [value |-> v, expiration |-> CappedDeadline(now, d, defaultTTL)] \in EntryOf(Values)
<1>1. d \in Nat /\ now \in Nat /\ defaultTTL \in Nat
  BY LRUAssumption DEF TypeOK
<1>2. CappedDeadline(now, d, defaultTTL) \in Nat
  BY <1>1 DEF CappedDeadline, Never
<1> QED
  BY <1>2 DEF EntryOf

\* The initial states satisfy it: an empty map and an empty list.
LEMMA InitIInv == Init => IInv
<1> SUFFICES ASSUME Init PROVE IInv
  OBVIOUS
<1>1. entries \in [DOMAIN entries -> EntryOf(Values)] /\ DOMAIN entries = {}
  BY DEF Init
<1>2. ll \in Seq(Keys) /\ Len(ll) = 0
  BY DEF Init
<1>3. TypeOK
  BY <1>1, <1>2, LRUAssumption DEF Init, TypeOK
<1>4. MapMatchesList
  BY <1>1, <1>2 DEF Init, MapMatchesList
<1>5. CapacityRespected
  BY <1>2, LRUAssumption DEF CapacityRespected
<1>6. SweepOnCourse
  BY DEF Init, SweepOnCourse, Locked
<1> QED
  BY <1>3, <1>4, <1>5, <1>6 DEF IInv

\* Outside a sweep, and across a step that starts none, it is enough that the
\* map and the list come out in agreement and not too long.
LEMMA OutsideSweep ==
  ASSUME Shape', (~allocated => ll = <<>>)', Len(ll') <= MaxEntries \/ MaxEntries = 0,
         UNCHANGED <<now, defaultTTL, onEvicted, goroutine>>,
         allocated' \in BOOLEAN, answer' \subseteq Values, stopped' \in BOOLEAN,
         crashed' \in {"none", "caller", "cleaner"},
         TypeOK, ~Locked
  PROVE  IInv'
<1>1. TypeOK'
  BY DEF TypeOK, Shape, goroutine
<1>2. MapMatchesList'
  BY DEF Shape, Matches, MapMatchesList
<1>3. CapacityRespected'
  BY DEF CapacityRespected
<1>4. SweepOnCourse'
  BY DEF SweepOnCourse, Locked, goroutine
<1> QED
  BY <1>1, <1>2, <1>3, <1>4 DEF IInv

\* Set: an update, an insertion below the limit, or one eviction for one entry.
LEMMA SetPreserves ==
  ASSUME IInv, NEW k \in Keys, NEW v \in Values, NEW d \in Durations, Set(k, v, d)
  PROVE  IInv'
<1> DEFINE entry == [value |-> v, expiration |-> CappedDeadline(now, d, defaultTTL)]
<1>1. TypeOK /\ MapMatchesList /\ CapacityRespected
  BY DEF IInv
<1>2. entry \in EntryOf(Values)
  BY <1>1, DeadlineType
<1> HIDE DEF entry
<1>3. /\ Update(k, entry) \/ Insert(k, entry) \/ EvictAndInsert(k, entry)
      /\ ~Locked /\ allocated' = TRUE /\ answer' = {}
      /\ UNCHANGED <<now, defaultTTL, onEvicted, stopped, goroutine, crashed>>
  BY DEF Set, config, entry
<1>4. Len(ll) \in Nat /\ MaxEntries \in Nat
  BY <1>1, ShapeFromInvariant, LRUAssumption
<1>5. Shape' /\ (Len(ll') <= MaxEntries \/ MaxEntries = 0)
  <2>1. CASE Update(k, entry)
    <3>1. Shape' /\ Len(ll') = Len(ll)
      BY <1>1, <1>2, <2>1, UpdateStep
    <3> QED BY <1>1, <3>1 DEF CapacityRespected
  <2>2. CASE Insert(k, entry)
    <3>1. Shape' /\ Len(ll') = Len(ll) + 1
      BY <1>1, <1>2, <2>2, InsertStep
    <3>2. ~Full
      BY <2>2 DEF Insert
    <3> QED BY <1>4, <3>1, <3>2 DEF Full
  <2>3. CASE EvictAndInsert(k, entry)
    <3>1. Shape' /\ Len(ll') = Len(ll)
      BY <1>1, <1>2, <2>3, EvictAndInsertStep
    <3> QED BY <1>1, <3>1 DEF CapacityRespected
  <2> QED BY <1>3, <2>1, <2>2, <2>3
<1>6. stopped \in BOOLEAN /\ crashed \in {"none", "caller", "cleaner"}
  BY <1>1 DEF TypeOK
<1> QED
  BY <1>1, <1>3, <1>5, <1>6, OutsideSweep

\* Removing one element leaves room.
LEMMA RemovalPreserves ==
  ASSUME IInv, NEW i \in 1..Len(ll), NEW event \in Events, RemoveElement(i, event),
         answer' = {}, ~Locked,
         UNCHANGED <<allocated, now, defaultTTL, onEvicted, stopped, goroutine, crashed>>
  PROVE  IInv'
<1>1. TypeOK /\ MapMatchesList /\ CapacityRespected
  BY DEF IInv
<1>2. Shape' /\ Len(ll') = Len(ll) - 1
  BY <1>1, RemoveElementStep
<1>3. Len(ll) \in Nat /\ MaxEntries \in Nat
  BY <1>1, ShapeFromInvariant, LRUAssumption
<1>4. Len(ll') <= MaxEntries \/ MaxEntries = 0
  BY <1>1, <1>2, <1>3 DEF CapacityRespected
<1>5. allocated'
  <2>1. Len(<<>>) = 0
    OBVIOUS
  <2>2. ll # <<>>
    BY <1>3, <2>1
  <2> QED BY <1>1, <2>2 DEF MapMatchesList, TypeOK
<1>6. /\ allocated \in BOOLEAN /\ stopped \in BOOLEAN
      /\ crashed \in {"none", "caller", "cleaner"}
  BY <1>1 DEF TypeOK
<1> QED
  BY <1>1, <1>2, <1>4, <1>5, <1>6, OutsideSweep

\* A step that leaves the map, the list and a running sweep alone.
LEMMA QuietPreserves ==
  ASSUME IInv, UNCHANGED <<entries, ll, allocated>>,
         calls' = calls \/ calls' = {}, answer' = answer \/ answer' = {},
         now' \in Nat, now' >= now, defaultTTL' \in Nat, onEvicted' \in BOOLEAN,
         stopped' \in BOOLEAN, crashed' \in {"none", "caller", "cleaner"},
         \/ UNCHANGED goroutine
         \/ /\ cleaner' \in {"waiting", "woken", "exited"}
            /\ cursor' \in Nat /\ sweptAt' \in Nat
  PROVE  IInv'
<1>1. TypeOK /\ MapMatchesList /\ CapacityRespected /\ SweepOnCourse
  BY DEF IInv
<1>2. TypeOK'
  BY <1>1 DEF TypeOK, goroutine
<1>3. MapMatchesList'
  BY <1>1 DEF MapMatchesList
<1>4. CapacityRespected'
  BY <1>1 DEF CapacityRespected
<1>5. SweepOnCourse'
  <2>1. CASE UNCHANGED goroutine
    <3>1. Locked' <=> Locked
      BY <2>1 DEF Locked, goroutine
    <3>2. sweptAt \in Nat /\ now \in Nat
      BY <1>1 DEF TypeOK
    <3> QED BY <1>1, <2>1, <3>1, <3>2 DEF SweepOnCourse, Stale, goroutine
  <2>2. CASE cleaner' \in {"waiting", "woken", "exited"}
    BY <2>2 DEF SweepOnCourse, Locked
  <2> QED BY <2>1, <2>2
<1> QED
  BY <1>2, <1>3, <1>4, <1>5 DEF IInv

LEMMA GetPreserves ==
  ASSUME IInv, NEW k \in Keys, Get(k)
  PROVE  IInv'
<1>1. TypeOK /\ MapMatchesList /\ CapacityRespected
  BY DEF IInv
<1>2. /\ Miss(k) \/ GetExpired(k) \/ Hit(k)
      /\ ~Locked
      /\ UNCHANGED <<allocated, now, defaultTTL, onEvicted, stopped, goroutine, crashed>>
  BY DEF Get, config
<1>3. CASE Miss(k)
  BY <1>1, <1>2, <1>3, QuietPreserves DEF Miss, TypeOK
<1>4. CASE GetExpired(k)
  <2>1. k \in DOMAIN entries /\ RemoveElement(Position(k), "Expiration") /\ answer' = {}
    BY <1>4 DEF GetExpired, Stale
  <2>2. Position(k) \in 1..Len(ll)
    BY <1>1, <2>1, AgreeFromInvariant, PositionFound
  <2> QED BY <1>2, <2>1, <2>2, RemovalPreserves DEF Events
<1>5. CASE Hit(k)
  <2>1. Shape' /\ Len(ll') = Len(ll) /\ entries' = entries /\ answer' \subseteq Values
    BY <1>1, <1>5, HitStep
  <2>2. allocated \in BOOLEAN /\ stopped \in BOOLEAN /\ crashed \in {"none", "caller", "cleaner"}
    BY <1>1 DEF TypeOK
  <2>3. allocated'
    <3>1. k \in DOMAIN entries
      BY <1>5 DEF Hit
    <3>2. ll # <<>>
      BY <1>1, <3>1 DEF MapMatchesList
    <3> QED BY <1>1, <1>2, <3>2 DEF MapMatchesList
  <2> QED BY <1>1, <1>2, <2>1, <2>2, <2>3, OutsideSweep DEF CapacityRespected
<1> QED
  BY <1>2, <1>3, <1>4, <1>5

LEMMA DeletePreserves ==
  ASSUME IInv, NEW k \in Keys, Delete(k)
  PROVE  IInv'
<1>1. TypeOK /\ MapMatchesList
  BY DEF IInv
<1>2. /\ ~Locked
      /\ UNCHANGED <<allocated, now, defaultTTL, onEvicted, stopped, goroutine, crashed>>
  BY DEF Delete, config
<1>3. CASE Miss(k)
  BY <1>1, <1>2, <1>3, QuietPreserves DEF Miss, TypeOK
<1>4. CASE k \in DOMAIN entries /\ RemoveElement(Position(k), "Delete") /\ answer' = {}
  <2>1. Position(k) \in 1..Len(ll)
    BY <1>1, <1>4, AgreeFromInvariant, PositionFound
  <2> QED BY <1>2, <1>4, <2>1, RemovalPreserves DEF Events
<1> QED
  BY <1>3, <1>4 DEF Delete

LEMMA PurgePreserves ==
  ASSUME IInv, PurgeAll, ~Locked, stopped' \in BOOLEAN,
         UNCHANGED <<now, defaultTTL, onEvicted, goroutine, crashed>>
  PROVE  IInv'
<1>1. TypeOK /\ MapMatchesList
  BY DEF IInv
<1>2. Shape' /\ ll' = <<>> /\ Len(ll') = 0 /\ answer' = {}
  BY <1>1, PurgeAllStep
<1>3. allocated' = FALSE /\ MaxEntries \in Nat /\ crashed \in {"none", "caller", "cleaner"}
  BY <1>1, LRUAssumption DEF PurgeAll, TypeOK
<1>4. Len(ll') <= MaxEntries
  <2>1. Len(ll') = 0 /\ MaxEntries \in Nat
    BY <1>2, <1>3
  <2> QED BY <2>1
<1>5. allocated' \in BOOLEAN /\ answer' \subseteq Values
  BY <1>2, <1>3
<1>6. crashed' \in {"none", "caller", "cleaner"}
  BY <1>3
<1> QED
  BY <1>1, <1>2, <1>3, <1>4, <1>5, <1>6, OutsideSweep

\* The sweep: the elements after the cursor keep their order and their entries
\* when the one at the cursor goes.
LEMMA CleanerVisitsPreserves ==
  ASSUME IInv, CleanerVisits
  PROVE  IInv'
<1>1. TypeOK /\ MapMatchesList /\ CapacityRespected /\ SweepOnCourse
  BY DEF IInv
<1>2. /\ Locked /\ cursor > 0 /\ cursor' = cursor - 1
      /\ UNCHANGED <<allocated, now, defaultTTL, onEvicted, stopped, cleaner, sweptAt, crashed>>
  BY DEF CleanerVisits, config
<1>3. Len(ll) \in Nat /\ cursor \in Nat /\ MaxEntries \in Nat /\ Locked'
  BY <1>1, <1>2, ShapeFromInvariant, LRUAssumption DEF TypeOK, Locked
<1>4. /\ allocated /\ cursor <= Len(ll) /\ sweptAt <= now
      /\ \A i \in 1..Len(ll) : i > cursor => ~Stale(ll[i], sweptAt)
  BY <1>1, <1>2 DEF SweepOnCourse
<1>5. CASE RemoveElement(cursor, "Expiration") /\ answer' = {}
  <2>1. cursor \in 1..Len(ll) /\ "Expiration" \in Events
    BY <1>2, <1>3, <1>4 DEF Events
  <2>2. /\ Shape' /\ Len(ll') = Len(ll) - 1
        /\ \A j \in 1..(Len(ll) - 1) : ll'[j] = IF j < cursor THEN ll[j] ELSE ll[j + 1]
        /\ DOMAIN entries' = DOMAIN entries \ {ll[cursor]}
        /\ \A k \in DOMAIN entries' : entries'[k] = entries[k]
    BY <1>1, <1>5, <2>1, RemoveElementStep
  <2>3. TypeOK'
    BY <1>1, <1>2, <1>3, <1>5, <2>2 DEF TypeOK, Shape
  <2>4. MapMatchesList'
    BY <1>2, <1>4, <2>2 DEF Shape, Matches, MapMatchesList
  <2>5. CapacityRespected'
    BY <1>1, <1>3, <2>2 DEF CapacityRespected
  <2>6. SweepOnCourse'
    <3>1. ASSUME NEW i \in 1..Len(ll'), i > cursor'
          PROVE  ~Stale(ll[i], sweptAt)'
      <4>1. ll'[i] = ll[i + 1] /\ i + 1 \in 1..Len(ll) /\ i + 1 > cursor
        BY <1>2, <1>3, <2>2, <3>1
      <4>2. ~Stale(ll[i + 1], sweptAt)
        BY <1>4, <4>1
      <4> QED BY <1>2, <2>2, <4>1, <4>2 DEF Stale
    <3> QED BY <1>2, <1>3, <1>4, <2>2, <3>1 DEF SweepOnCourse
  <2> QED BY <2>3, <2>4, <2>5, <2>6 DEF IInv
<1>6. CASE ~Stale(ll[cursor], sweptAt) /\ UNCHANGED <<entries, ll, calls, answer>>
  <2>1. TypeOK'
    BY <1>1, <1>2, <1>3, <1>6 DEF TypeOK
  <2>2. MapMatchesList' /\ CapacityRespected'
    BY <1>1, <1>2, <1>6 DEF MapMatchesList, CapacityRespected
  <2>3. SweepOnCourse'
    <3>1. ASSUME NEW i \in 1..Len(ll), i > cursor - 1
          PROVE  ~Stale(ll[i], sweptAt)
      BY <1>3, <1>4, <1>6, <3>1
    <3> QED BY <1>2, <1>3, <1>4, <1>6, <3>1 DEF SweepOnCourse, Stale
  <2> QED BY <2>1, <2>2, <2>3 DEF IInv
<1> QED
  BY <1>5, <1>6 DEF CleanerVisits

\* The sweep starts behind the last element: it has passed nothing yet.
LEMMA CleanerLocksPreserves ==
  ASSUME IInv, CleanerLocks
  PROVE  IInv'
<1>1. TypeOK /\ MapMatchesList /\ CapacityRespected /\ Len(ll) \in Nat
  BY ShapeFromInvariant DEF IInv
<1>2. /\ allocated /\ cleaner' = "sweeping" /\ cursor' = Len(ll) /\ sweptAt' = now
      /\ UNCHANGED <<entries, ll, allocated, now, defaultTTL, onEvicted, calls, answer,
                     stopped, crashed>>
  BY DEF CleanerLocks, unswept, config
<1>3. TypeOK'
  BY <1>1, <1>2 DEF TypeOK
<1>4. MapMatchesList' /\ CapacityRespected'
  BY <1>1, <1>2 DEF MapMatchesList, CapacityRespected
<1>5. SweepOnCourse'
  <2>1. now <= now
    BY <1>1 DEF TypeOK
  <2> QED BY <1>1, <1>2, <2>1 DEF SweepOnCourse
<1> QED
  BY <1>3, <1>4, <1>5 DEF IInv

LEMMA NextIInv == IInv /\ [Next]_vars => IInv'
<1> SUFFICES ASSUME IInv, [Next]_vars PROVE IInv'
  OBVIOUS
<1> USE DEF config, goroutine, unswept
<1>1. /\ TypeOK /\ MapMatchesList
      /\ now \in Nat /\ now >= now /\ defaultTTL \in Nat /\ onEvicted \in BOOLEAN
      /\ stopped \in BOOLEAN /\ crashed \in {"none", "caller", "cleaner"}
      /\ cursor \in Nat /\ sweptAt \in Nat
  BY DEF IInv, TypeOK
<1>2. CASE \E k \in Keys, v \in Values, d \in Durations : Set(k, v, d)
  BY <1>2, SetPreserves
<1>3. CASE \E k \in Keys : Get(k) \/ Delete(k)
  BY <1>3, GetPreserves, DeletePreserves
<1>4. CASE RemoveOldest
  <2>1. Len(ll) \in 1..Len(ll)
    BY <1>1, <1>4 DEF RemoveOldest, TypeOK
  <2> QED BY <1>4, <2>1, RemovalPreserves DEF RemoveOldest, Events
<1>5. CASE Clear
  BY <1>1, <1>5, PurgePreserves DEF Clear
<1>6. CASE Close
  <2>1. CASE ~stopped
    BY <1>6, <2>1, PurgePreserves DEF Close
  <2>2. CASE stopped
    BY <1>1, <1>6, <2>2, QuietPreserves DEF Close
  <2> QED BY <2>1, <2>2
<1>7. CASE StopCleanup
  BY <1>1, <1>7, QuietPreserves DEF StopCleanup
<1>8. CASE SetEvictedFunc
  BY <1>1, <1>8, QuietPreserves DEF SetEvictedFunc
<1>9. CASE \E ttl \in TTLs : SetDefaultTTL(ttl)
  BY <1>1, <1>9, QuietPreserves, LRUAssumption DEF SetDefaultTTL
<1>10. CASE CleanerWakes \/ CleanerExits \/ CleanerPanics \/ CleanerUnlocks
  BY <1>1, <1>10, QuietPreserves
     DEF CleanerWakes, CleanerExits, CleanerPanics, CleanerUnlocks
<1>11. CASE CleanerLocks
  BY <1>11, CleanerLocksPreserves
<1>12. CASE CleanerVisits
  BY <1>12, CleanerVisitsPreserves
<1>13. CASE Tick
  <2>1. now' \in Nat /\ now' >= now
    BY <1>1, <1>13 DEF Tick
  <2> QED BY <1>1, <1>13, <2>1, QuietPreserves DEF Tick
<1>14. CASE UNCHANGED vars
  BY <1>1, <1>14, QuietPreserves DEF vars
<1> QED
  BY <1>2, <1>3, <1>4, <1>5, <1>6, <1>7, <1>8, <1>9, <1>10, <1>11, <1>12, <1>13, <1>14
     DEF Next, Cleaner, Halted

\* In every reachable state the invariant of the runs holds: lru.go keeps its
\* map and its list in agreement and its limit, for every size and key set.
THEOREM Invariance == Spec => []IInv
BY InitIInv, NextIInv, PTL DEF Spec

\* Type correctness of the LRU cache.
THEOREM TypeCorrectness == Spec => []TypeOK
<1>1. IInv => TypeOK
  BY DEF IInv
<1> QED BY <1>1, Invariance, PTL

\* c.entries and c.ll always hold the same keys, each once.
THEOREM MapAndListAgree == Spec => []MapMatchesList
<1>1. IInv => MapMatchesList
  BY DEF IInv
<1> QED BY <1>1, Invariance, PTL

\* A limited cache never holds more than maxEntries.
THEOREM NeverOverCapacity == Spec => []CapacityRespected
<1>1. IInv => CapacityRespected
  BY DEF IInv
<1> QED BY <1>1, Invariance, PTL

\* A sweep never loses its place in the list it is changing.
THEOREM SweepKeepsItsPlace == Spec => []SweepOnCourse
<1>1. IInv => SweepOnCourse
  BY DEF IInv
<1> QED BY <1>1, Invariance, PTL

--------------------------------------------------------------------------------
(* The sweep.                                                              *)

\* Releasing the mutex is the only way out of a sweep, and by then the cursor has
\* passed every element of the list, hence every key of the map.
THEOREM SweepIsThorough == Spec => SweepLeavesNothingStale
<1> DEFINE P == cleaner = "sweeping" /\ cleaner' # "sweeping"
                  => \A k \in DOMAIN entries' : ~IsExpired(entries'[k].expiration, sweptAt)
<1>1. IInv /\ [Next]_vars => [P]_vars
  <2> SUFFICES ASSUME IInv, Next, cleaner = "sweeping", cleaner' # "sweeping",
                      NEW k \in DOMAIN entries'
               PROVE  ~IsExpired(entries'[k].expiration, sweptAt)
    BY DEF P
  <2>1. CleanerUnlocks
    BY DEF Next, Cleaner, Set, Get, Delete, RemoveOldest, Clear, Close, StopCleanup,
           SetEvictedFunc, SetDefaultTTL, CleanerWakes, CleanerExits, CleanerLocks,
           CleanerPanics, CleanerVisits, Tick, Halted, vars, goroutine, Locked
  <2>2. cursor = 0 /\ UNCHANGED <<entries, ll>>
    BY <2>1 DEF CleanerUnlocks, unswept
  <2>3. Agree /\ SweepOnCourse /\ Len(ll) \in Nat
    BY AgreeFromInvariant, ShapeFromInvariant DEF IInv
  <2>4. PICK i \in 1..Len(ll) : ll[i] = k
    BY <2>2, <2>3 DEF Agree, Matches
  <2>5. ~Stale(ll[i], sweptAt)
    BY <2>2, <2>3, <2>4 DEF SweepOnCourse, Locked
  <2> QED BY <2>2, <2>4, <2>5 DEF Stale
<1> QED BY <1>1, Invariance, PTL DEF Spec, SweepLeavesNothingStale

--------------------------------------------------------------------------------
(* The refinement.                                                         *)

\* The contract's copies of the shared definitions are those of LRUCache.
LEMMA SharedDefinitions ==
  /\ \A m, k, e : Contract!Put(m, k, e) = Put(m, k, e)
  /\ \A m, ks : Contract!Drop(m, ks) = Drop(m, ks)
  /\ \A h, m, ks, e : Contract!Called(h, m, ks, e) = Called(h, m, ks, e)
  /\ \A d : Contract!Deadline(d) = CappedDeadline(now, d, defaultTTL)
  /\ \A k : Contract!Stale(k) <=> Stale(k, now)
  /\ UNCHANGED Contract!config <=> UNCHANGED config
<1>1. \A d : Contract!Deadline(d) = CappedDeadline(now, d, defaultTTL)
  BY DEF Contract!Deadline, CappedDeadline, Contract!Never, Never
<1>2. \A k : Contract!Stale(k) <=> Stale(k, now)
  BY DEF Contract!Stale, Stale, Contract!IsExpired, IsExpired, Contract!Never, Never
<1>3. \A m, k, e : Contract!Put(m, k, e) = Put(m, k, e)
  BY DEF Contract!Put, Put
<1>4. \A m, ks : Contract!Drop(m, ks) = Drop(m, ks)
  BY DEF Contract!Drop, Drop
<1>5. \A h, m, ks, e : Contract!Called(h, m, ks, e) = Called(h, m, ks, e)
  BY DEF Contract!Called, Called
<1>6. UNCHANGED Contract!config <=> UNCHANGED config
  BY DEF Contract!config, config
<1> QED
  BY <1>1, <1>2, <1>3, <1>4, <1>5, <1>6

\* Removing no entry changes nothing and calls nobody.
LEMMA NothingRemoved ==
  ASSUME NEW E, NEW D, NEW map \in [D -> E], NEW hooked, NEW event
  PROVE  Drop(map, {}) = map /\ Called(hooked, map, {}, event) = {}
<1>1. Drop(map, {}) = map
  BY DEF Drop
<1>2. Called(hooked, map, {}, event) = {}
  BY DEF Called
<1> QED BY <1>1, <1>2

\* The list is as long as the map is large, so both agree on being full.
LEMMA FullAgrees ==
  ASSUME IInv
  PROVE  Contract!Full <=> Full
<1>1. Agree /\ Len(ll) \in Nat
  BY AgreeFromInvariant, ShapeFromInvariant DEF IInv
<1>2. Cardinality(DOMAIN entries) = Len(ll)
  BY <1>1, MatchesCounts DEF Agree
<1> QED
  BY <1>2 DEF Contract!Full, Full, Contract!Cardinality, Cardinality

\* What a step of the contract does to its map and its callbacks.
LEMMA PurgeMeans ==
  ASSUME NEW map, NEW ks, NEW event
  PROVE  Contract!Purge(map, ks, event)
           <=> entries' = Drop(map, ks) /\ calls' = Called(onEvicted, map, ks, event)
BY SharedDefinitions DEF Contract!Purge

LEMMA InitRefines == Init => Contract!Init
BY DEF Init, Contract!Init

\* removeElement is a removal the contract knows, whichever event it reports.
LEMMA RemoveRefines ==
  ASSUME NEW i \in 1..Len(ll), NEW event, RemoveElement(i, event), answer' = {},
         UNCHANGED config
  PROVE  Contract!Remove({ll[i]}, event)
BY PurgeMeans, SharedDefinitions DEF RemoveElement, Contract!Remove

\* A step without an effect on the map is the contract's removal of no entry.
LEMMA MissRefines ==
  ASSUME IInv, entries' = entries, calls' = {}, answer' = {}, UNCHANGED config, NEW event
  PROVE  Contract!Remove({}, event)
<1>1. entries \in [DOMAIN entries -> EntryOf(Values)]
  BY DEF IInv, TypeOK
<1>2. Drop(entries, {}) = entries /\ Called(onEvicted, entries, {}, event) = {}
  BY <1>1, NothingRemoved
<1> QED BY <1>2, PurgeMeans, SharedDefinitions DEF Contract!Remove

\* The victim of a Set into a full cache is one entry, and its callback reports
\* the value it had.
LEMMA SetRefines ==
  ASSUME IInv, NEW k \in Keys, NEW v \in Values, NEW d \in Durations, Set(k, v, d)
  PROVE  Contract!Set(k, v, d)
<1> DEFINE deadline == CappedDeadline(now, d, defaultTTL)
           entry == [value |-> v, expiration |-> deadline]
           updated == Put(entries, k, entry)
           victim == ll[Len(ll)]
<1>1. /\ TypeOK /\ MapMatchesList /\ entries \in [DOMAIN entries -> EntryOf(Values)]
      /\ entry \in EntryOf(Values) /\ Len(ll) \in Nat
  BY DeadlineType, ShapeFromInvariant DEF IInv, TypeOK
<1>2. /\ Update(k, entry) \/ Insert(k, entry) \/ EvictAndInsert(k, entry)
      /\ answer' = {} /\ UNCHANGED config
  BY DEF Set
<1> SUFFICES \/ /\ k \in DOMAIN entries \/ ~Contract!Full
                /\ Contract!Purge(updated, {}, "Eviction")
             \/ /\ k \notin DOMAIN entries /\ Contract!Full
                /\ \E x \in DOMAIN updated : Contract!Purge(updated, {x}, "Eviction")
  <2>1. deadline = Contract!Deadline(d)
    BY SharedDefinitions
  <2>2. updated = Contract!Put(entries, k, [value |-> v, expiration |-> deadline])
    BY SharedDefinitions
  <2> HIDE DEF deadline, updated
  <2> QED BY <1>2, <2>1, <2>2, SharedDefinitions DEF Contract!Set
<1> HIDE DEF deadline
<1>3. updated \in [DOMAIN updated -> EntryOf(Values)] /\ DOMAIN updated = DOMAIN entries \cup {k}
  BY <1>1 DEF Put
<1>4. CASE Update(k, entry) \/ Insert(k, entry)
  <2>1. /\ k \in DOMAIN entries \/ ~Full
        /\ entries' = updated /\ calls' = {}
    BY <1>4 DEF Update, Insert
  <2> HIDE DEF updated
  <2>2. Drop(updated, {}) = updated /\ Called(onEvicted, updated, {}, "Eviction") = {}
    BY <1>3, NothingRemoved
  <2> QED BY <2>1, <2>2, FullAgrees, PurgeMeans
<1>5. CASE EvictAndInsert(k, entry)
  <2>1. /\ k \notin DOMAIN entries /\ Full
        /\ entries' = Put(Drop(entries, {victim}), k, entry)
        /\ calls' = Called(onEvicted, entries, {victim}, "Eviction")
    BY <1>5 DEF EvictAndInsert
  <2>2. victim \in DOMAIN entries /\ victim # k
    <3>1. Len(ll) \in 1..Len(ll)
      BY <1>1, <2>1, LRUAssumption DEF Full
    <3>2. victim \in DOMAIN entries
      BY <1>1, <3>1, AgreeFromInvariant, WithoutAgrees
    <3> QED BY <2>1, <3>2
  <2> HIDE DEF entry, victim
  <2>3. Put(Drop(entries, {victim}), k, entry) = Drop(updated, {victim})
    BY <2>1, <2>2 DEF Put, Drop
  <2>4. Called(onEvicted, entries, {victim}, "Eviction")
          = Called(onEvicted, updated, {victim}, "Eviction")
    <3>1. updated[victim] = entries[victim]
      BY <2>2 DEF Put
    <3> HIDE DEF updated
    <3> QED BY <3>1 DEF Called
  <2>5. victim \in DOMAIN updated
    BY <1>3, <2>2
  <2> HIDE DEF updated
  <2> QED BY <2>1, <2>3, <2>4, <2>5, FullAgrees, PurgeMeans
<1> QED BY <1>2, <1>4, <1>5

LEMMA GetRefines ==
  ASSUME IInv, NEW k \in Keys, Get(k)
  PROVE  Contract!Get(k)
<1>1. /\ entries \in [DOMAIN entries -> EntryOf(Values)] /\ Agree
      /\ Drop(entries, {}) = entries /\ Called(onEvicted, entries, {}, "Expiration") = {}
  BY AgreeFromInvariant, NothingRemoved DEF IInv, TypeOK
<1>2. UNCHANGED config
  BY DEF Get
<1>3. CASE Miss(k)
  BY <1>1, <1>2, <1>3, PurgeMeans, SharedDefinitions DEF Miss, Stale, Contract!Get
<1>4. CASE GetExpired(k)
  <2>1. Stale(k, now) /\ answer' = {} /\ RemoveElement(Position(k), "Expiration")
    BY <1>4 DEF GetExpired
  <2>2. ll[Position(k)] = k
    BY <1>1, <2>1, PositionFound DEF Stale
  <2>3. Contract!Purge(entries, {k}, "Expiration") /\ {k} \in SUBSET {k}
    BY <2>1, <2>2, PurgeMeans DEF RemoveElement
  <2> QED BY <1>2, <2>1, <2>3, SharedDefinitions DEF Contract!Get
<1>5. CASE Hit(k)
  BY <1>1, <1>2, <1>5, PurgeMeans, SharedDefinitions DEF Hit, Contract!Get
<1> QED BY <1>3, <1>4, <1>5 DEF Get

LEMMA DeleteRefines ==
  ASSUME IInv, NEW k \in Keys, Delete(k)
  PROVE  Contract!Delete(k)
<1>1. UNCHANGED config
  BY DEF Delete
<1>2. CASE Miss(k)
  <2>1. {k} \cap DOMAIN entries = {} /\ entries' = entries /\ calls' = {} /\ answer' = {}
    BY <1>2 DEF Miss
  <2> QED BY <1>1, <2>1, MissRefines DEF Contract!Delete
<1>3. CASE k \in DOMAIN entries /\ RemoveElement(Position(k), "Delete") /\ answer' = {}
  <2>1. Position(k) \in 1..Len(ll) /\ ll[Position(k)] = k
    BY <1>3, AgreeFromInvariant, PositionFound DEF IInv
  <2>2. {k} \cap DOMAIN entries = {ll[Position(k)]}
    BY <1>3, <2>1
  <2> QED BY <1>1, <1>3, <2>1, <2>2, RemoveRefines DEF Contract!Delete
<1> QED BY <1>2, <1>3 DEF Delete

LEMMA PurgeAllRefines ==
  ASSUME PurgeAll, UNCHANGED config
  PROVE  Contract!Clear
<1>1. Drop(entries, DOMAIN entries) = <<>>
  BY DEF Drop
<1> QED BY <1>1, PurgeMeans, SharedDefinitions DEF PurgeAll, Contract!Clear, Contract!Remove

\* The element a sweep removes is stale now as well: the clock never goes back.
LEMMA CleanerVisitsRefines ==
  ASSUME IInv, CleanerVisits
  PROVE  (\E k \in Keys : Contract!Expire(k)) \/ UNCHANGED Contract!vars
<1>1. /\ Agree /\ SweepOnCourse /\ Len(ll) \in Nat
      /\ Locked /\ cursor > 0 /\ cursor \in Nat
      /\ now \in Nat /\ sweptAt \in Nat /\ UNCHANGED config
      /\ entries \in [DOMAIN entries -> EntryOf(Values)]
  BY AgreeFromInvariant, ShapeFromInvariant DEF IInv, TypeOK, CleanerVisits
<1>2. cursor \in 1..Len(ll) /\ sweptAt <= now
  BY <1>1 DEF SweepOnCourse
<1>3. CASE /\ Stale(ll[cursor], sweptAt)
           /\ RemoveElement(cursor, "Expiration") /\ answer' = {}
  <2>1. ll[cursor] \in Keys /\ ll[cursor] \in DOMAIN entries
    BY <1>1, <1>2, WithoutAgrees DEF Agree
  <2>2. entries[ll[cursor]].expiration \in Nat
    BY <1>1, <2>1 DEF EntryOf
  <2>3. Stale(ll[cursor], now)
    BY <1>1, <1>2, <1>3, <2>2 DEF Stale, IsExpired
  <2>4. Contract!Remove({ll[cursor]}, "Expiration")
    BY <1>1, <1>2, <1>3, RemoveRefines
  <2> QED BY <2>1, <2>3, <2>4, SharedDefinitions DEF Contract!Expire
<1>4. CASE UNCHANGED <<entries, ll, calls, answer>>
  BY <1>1, <1>4 DEF Contract!vars, config
<1> QED BY <1>3, <1>4 DEF CleanerVisits

LEMMA NextRefines == IInv /\ [Next]_vars => [Contract!Next]_(Contract!vars)
<1> SUFFICES ASSUME IInv, [Next]_vars PROVE Contract!Next \/ UNCHANGED Contract!vars
  OBVIOUS
<1>1. CASE \E k \in Keys, v \in Values, d \in Durations : Set(k, v, d)
  BY <1>1, SetRefines DEF Contract!Next
<1>2. CASE \E k \in Keys : Get(k) \/ Delete(k)
  BY <1>2, GetRefines, DeleteRefines DEF Contract!Next
<1>3. CASE RemoveOldest
  <2>1. Len(ll) \in 1..Len(ll)
    BY <1>3, ShapeFromInvariant DEF IInv, RemoveOldest, TypeOK
  <2>2. ll[Len(ll)] \in DOMAIN entries
    BY <2>1, AgreeFromInvariant, WithoutAgrees DEF IInv
  <2>3. Contract!Remove({ll[Len(ll)]}, "Eviction")
    BY <1>3, <2>1, RemoveRefines DEF RemoveOldest
  <2> QED BY <2>2, <2>3 DEF Contract!EvictOne, Contract!Next
<1>4. CASE Clear
  BY <1>4, PurgeAllRefines DEF Clear, Contract!Next
<1>5. CASE Close
  <2>1. CASE ~stopped
    BY <1>5, <2>1, PurgeAllRefines DEF Close, Contract!Next
  <2>2. CASE stopped
    BY <1>5, <2>2 DEF Close, Contract!vars, config
  <2> QED BY <2>1, <2>2
<1>6. CASE StopCleanup
  BY <1>6 DEF StopCleanup, Contract!vars, config
<1>7. CASE SetEvictedFunc
  BY <1>7 DEF SetEvictedFunc, Contract!SetEvictedFunc, Contract!Next
<1>8. CASE \E ttl \in TTLs : SetDefaultTTL(ttl)
  BY <1>8 DEF SetDefaultTTL, Contract!SetDefaultTTL, Contract!Next
<1>9. CASE CleanerWakes \/ CleanerExits \/ CleanerLocks \/ CleanerPanics \/ CleanerUnlocks
  BY <1>9 DEF CleanerWakes, CleanerExits, CleanerLocks, CleanerPanics, CleanerUnlocks,
              unswept, config, Contract!vars
<1>10. CASE CleanerVisits
  BY <1>10, CleanerVisitsRefines DEF Contract!Next
<1>11. CASE Tick
  BY <1>11 DEF Tick, Contract!Tick, Contract!Next
<1>12. CASE UNCHANGED vars
  BY <1>12 DEF vars, Contract!vars
<1> QED
  BY <1>1, <1>2, <1>3, <1>4, <1>5, <1>6, <1>7, <1>8, <1>9, <1>10, <1>11, <1>12
     DEF Next, Cleaner, Halted

\* lru.Cache implements the contract of cache.ICache: in particular a full cache
\* loses exactly one entry to a new key, a stale entry is never returned, and
\* every entry that leaves is reported to the callback once, with its event.
THEOREM Refinement == Spec => ImplementsContract
BY InitRefines, NextRefines, Invariance, PTL DEF Spec, ImplementsContract, Contract!Spec

--------------------------------------------------------------------------------
(* A cache that keeps CacheContract is one the engine can work with: of    *)
(* the LRU there is only the name of its map in what follows.              *)

Engine == INSTANCE LossyCache WITH store <- entries, Cappings <- BOOLEAN

\* A map of cache entries.
MapShape(map) ==
  /\ DOMAIN map \subseteq Keys
  /\ map = [x \in DOMAIN map |-> map[x]]
  /\ \A x \in DOMAIN map : map[x].value \in Values

\* Both modules mean the same by what they take from CacheCommon.
LEMMA SameDefinitions ==
  /\ \A map, ks : Engine!Drop(map, ks) = Contract!Drop(map, ks)
  /\ \A map, k, e : Engine!Put(map, k, e) = Contract!Put(map, k, e)
  /\ \A k \in Keys : Engine!Stale(k) = Contract!Stale(k)
  /\ Engine!Events = Contract!Events
BY DEF Engine!Drop, Contract!Drop, Engine!Put, Contract!Put, Engine!Stale, Contract!Stale,
       Engine!IsExpired, Contract!IsExpired, Engine!Never, Contract!Never, Engine!Events, Contract!Events

LEMMA DeadlinesAgree ==
  ASSUME NEW d
  PROVE  Contract!Deadline(d) = Engine!Deadline(d, TRUE)
BY DEF Contract!Deadline, Engine!Deadline, Engine!Never, Contract!Never

LEMMA PutShape ==
  ASSUME NEW map, MapShape(map), NEW k \in Keys, NEW e, e.value \in Values
  PROVE  MapShape(Contract!Put(map, k, e))
BY DEF MapShape, Contract!Put

LEMMA DropShape ==
  ASSUME NEW map, MapShape(map), NEW ks
  PROVE  MapShape(Contract!Drop(map, ks))
BY DEF MapShape, Contract!Drop

LEMMA DropNothing ==
  ASSUME NEW map, MapShape(map)
  PROVE  Contract!Drop(map, {}) = map
BY DEF MapShape, Contract!Drop

\* The callbacks of a removal are a report of it.
LEMMA PurgeTells ==
  ASSUME NEW map, MapShape(map), NEW ks \in SUBSET DOMAIN map, NEW event,
         Contract!Purge(map, ks, event)
  PROVE  entries' = Engine!Drop(map, ks) /\ Engine!Tell(ks, event)
<1> DEFINE C(k) == [key |-> k, value |-> map[k].value, event |-> event]
<1>1. CASE onEvicted
  <2>1. calls' = {C(k) : k \in ks}
    BY <1>1 DEF Contract!Purge, Contract!Called
  <2>2. \A k \in ks : C(k) \in [key : ks, value : Values, event : {event}]
    BY DEF MapShape
  <2>3. \A k \in ks : C(k) \in calls' /\ C(k).key = k
    BY <2>1
  <2> HIDE DEF C
  <2>4. calls' \in SUBSET [key : ks, value : Values, event : {event}]
    BY <2>1, <2>2
  <2> QED BY <1>1, <2>3, <2>4, SameDefinitions DEF Engine!Tell, Engine!Reports, Contract!Purge
<1>2. CASE ~onEvicted
  BY <1>2, SameDefinitions DEF Engine!Tell, Contract!Purge, Contract!Called
<1> QED BY <1>1, <1>2

\* What every call leaves behind.
LEMMA NextShape == MapShape(entries) /\ [Contract!Next]_(Contract!vars) => MapShape(entries)'
<1> SUFFICES ASSUME MapShape(entries), [Contract!Next]_(Contract!vars) PROVE MapShape(entries)'
  OBVIOUS
<1>1. ASSUME NEW map, NEW ks, NEW event, MapShape(map), Contract!Purge(map, ks, event)
      PROVE  MapShape(entries)'
  <2>1. entries' = Contract!Drop(map, ks)
    BY <1>1 DEF Contract!Purge
  <2>2. MapShape(Contract!Drop(map, ks))
    BY <1>1, DropShape
  <2> QED BY <2>1, <2>2 DEF MapShape
<1>2. ASSUME NEW k \in Keys, NEW v \in Values, NEW d \in Durations, Contract!Set(k, v, d)
      PROVE  MapShape(entries)'
  <2> DEFINE updated == Contract!Put(entries, k, [value |-> v, expiration |-> Contract!Deadline(d)])
  <2>1. \E ks : Contract!Purge(updated, ks, "Eviction")
    BY <1>2 DEF Contract!Set
  <2>2. MapShape(updated)
    BY PutShape
  <2> QED BY <1>1, <2>1, <2>2
<1>3. ASSUME NEW k \in Keys, Contract!Get(k) PROVE MapShape(entries)'
  BY <1>1, <1>3 DEF Contract!Get
<1>4. ASSUME NEW ks, NEW event, Contract!Remove(ks, event) PROVE MapShape(entries)'
  BY <1>1, <1>4 DEF Contract!Remove
<1>5. ASSUME UNCHANGED entries PROVE MapShape(entries)'
  BY <1>5 DEF MapShape
<1> QED BY <1>2, <1>3, <1>4, <1>5 DEF Contract!Next, Contract!Delete, Contract!Clear, Contract!EvictOne, Contract!Expire,
           Contract!SetEvictedFunc, Contract!SetDefaultTTL, Contract!Tick, Contract!vars

LEMMA SetLoses ==
  ASSUME MapShape(entries), NEW k \in Keys, NEW v \in Values, NEW d \in Durations, Contract!Set(k, v, d)
  PROVE  Engine!Set(k, v, d)
<1> DEFINE deadline == Contract!Deadline(d)
<1>1.   LET updated == Contract!Put(entries, k, [value |-> v, expiration |-> deadline])
        IN \/ Contract!Purge(updated, {}, "Eviction")
           \/ /\ k \notin DOMAIN entries
              /\ \E victim \in DOMAIN updated : Contract!Purge(updated, {victim}, "Eviction")
  BY DEF Contract!Set
<1> DEFINE updated == Contract!Put(entries, k, [value |-> v, expiration |-> deadline])
<1>2. MapShape(updated) /\ updated = Engine!Put(entries, k, [value |-> v, expiration |-> deadline])
  BY PutShape, SameDefinitions
<1>3. deadline = Engine!Deadline(d, TRUE) /\ TRUE \in BOOLEAN
  BY DeadlinesAgree
<1>4. (Contract!Purge(updated, {}, "Eviction"))
        \/ (k \notin DOMAIN entries /\ \E victim \in DOMAIN updated : Contract!Purge(updated, {victim}, "Eviction"))
  BY <1>1
<1> HIDE DEF updated, deadline
<1>5. \/ entries' = updated /\ Engine!Tell({}, "Eviction")
      \/ /\ k \notin DOMAIN entries
         /\ \E ks \in SUBSET Keys :
              /\ entries' = Engine!Drop(updated, ks)
              /\ Engine!Tell(ks, "Eviction")
  <2>1. CASE Contract!Purge(updated, {}, "Eviction")
    BY <1>2, <2>1, PurgeTells, DropNothing, SameDefinitions
  <2>2. CASE k \notin DOMAIN entries /\ \E victim \in DOMAIN updated : Contract!Purge(updated, {victim}, "Eviction")
    <3>1. PICK victim \in DOMAIN updated : Contract!Purge(updated, {victim}, "Eviction")
      BY <2>2
    <3>2. {victim} \in SUBSET Keys
      BY <1>2 DEF MapShape
    <3>3. entries' = Engine!Drop(updated, {victim}) /\ Engine!Tell({victim}, "Eviction")
      BY <1>2, <3>1, PurgeTells
    <3> QED BY <2>2, <3>2, <3>3
  <2> QED BY <1>4, <2>1, <2>2
<1>6. UNCHANGED Engine!config /\ answer' = {}
  BY DEF Contract!Set, Contract!config, Engine!config
<1> QED BY <1>2, <1>3, <1>5, <1>6 DEF Engine!Set

LEMMA RemoveLoses ==
  ASSUME MapShape(entries), NEW ks \in SUBSET DOMAIN entries, NEW event, Contract!Remove(ks, event),
         NEW events, event \in events
  PROVE  Engine!Remove(ks, events)
<1>1. entries' = Engine!Drop(entries, ks) /\ Engine!Tell(ks, event)
  BY PurgeTells DEF Contract!Remove
<1>2. UNCHANGED Engine!config /\ answer' = {}
  BY DEF Contract!Remove, Contract!config, Engine!config
<1> QED BY <1>1, <1>2 DEF Engine!Remove, Engine!Lose

LEMMA GetLoses ==
  ASSUME MapShape(entries), NEW k \in Keys, Contract!Get(k)
  PROVE  Engine!Get(k)
<1>1. PICK ks \in IF Contract!Stale(k) THEN SUBSET {k} ELSE {{}} : Contract!Purge(entries, ks, "Expiration")
  BY DEF Contract!Get
<1>2. ks \in SUBSET DOMAIN entries
  BY <1>1 DEF Contract!Stale
<1>3. entries' = Engine!Drop(entries, ks) /\ Engine!Tell(ks, "Expiration")
  BY <1>1, <1>2, PurgeTells
<1>4. UNCHANGED Engine!config
  BY DEF Contract!Get, Contract!config, Engine!config
<1>5. Engine!Lose(ks, {"Expiration"})
  BY <1>3, <1>4 DEF Engine!Lose
<1> QED BY <1>1, <1>5, SameDefinitions DEF Contract!Get, Engine!Get

LEMMA NextLoses == MapShape(entries) /\ [Contract!Next]_(Contract!vars) => [Engine!Next]_(Engine!vars)
<1> SUFFICES ASSUME MapShape(entries), [Contract!Next]_(Contract!vars) PROVE [Engine!Next]_(Engine!vars)
  OBVIOUS
<1>0. DOMAIN entries \subseteq Keys
  BY DEF MapShape
<1>1. ASSUME NEW k \in Keys, NEW v \in Values, NEW d \in Durations, Contract!Set(k, v, d)
      PROVE  Engine!Next
  BY <1>1, SetLoses DEF Engine!Next
<1>2. ASSUME NEW k \in Keys, Contract!Get(k) PROVE Engine!Next
  BY <1>2, GetLoses DEF Engine!Next
<1>3. ASSUME NEW ks \in SUBSET DOMAIN entries, NEW event \in {"Delete", "Eviction", "Expiration"},
             Contract!Remove(ks, event)
      PROVE  Engine!Next
  <2>1. ks \in SUBSET Keys
    BY <1>0
  <2>2. event \in Contract!Events \ {"Clear"}
    BY DEF Contract!Events
  <2>3. Engine!Remove(ks, Engine!Events \ {"Clear"})
    BY <1>3, <2>2, RemoveLoses, SameDefinitions
  <2> QED BY <2>1, <2>3 DEF Engine!Next
<1>4. ASSUME NEW k \in Keys, Contract!Delete(k) PROVE Engine!Next
  BY <1>3, <1>4 DEF Contract!Delete
<1>5. ASSUME NEW k \in Keys, Contract!Expire(k) PROVE Engine!Next
  BY <1>3, <1>5 DEF Contract!Expire, Contract!Stale
<1>6. ASSUME Contract!EvictOne PROVE Engine!Next
  BY <1>3, <1>6 DEF Contract!EvictOne
<1>7. ASSUME Contract!Clear PROVE Engine!Next
  BY <1>7, RemoveLoses DEF Contract!Clear, Engine!Clear, Engine!Next
<1>8. ASSUME Contract!SetEvictedFunc PROVE Engine!Next
  BY <1>8 DEF Contract!SetEvictedFunc, Engine!SetEvictedFunc, Engine!Next
<1>9. ASSUME NEW ttl \in TTLs, Contract!SetDefaultTTL(ttl) PROVE Engine!Next
  BY <1>9 DEF Contract!SetDefaultTTL, Engine!SetDefaultTTL, Engine!Next
<1>10. ASSUME Contract!Tick PROVE Engine!Next
  BY <1>10 DEF Contract!Tick, Engine!Tick, Engine!Next
<1>11. ASSUME UNCHANGED Contract!vars PROVE UNCHANGED Engine!vars
  BY <1>11 DEF Contract!vars, Engine!vars
<1> QED BY <1>1, <1>2, <1>4, <1>5, <1>6, <1>7, <1>8, <1>9, <1>10, <1>11 DEF Contract!Next

\* Whatever a cache that keeps CacheContract does, the engine can work with: the two
\* promises of cache.go:24-43, one for the callers of a cache, one for the engine, do
\* not contradict each other.
THEOREM ServesTheEngine == Contract!Spec => Engine!Spec
<1>1. Contract!Init => MapShape(entries) /\ Engine!Init
  BY DEF Contract!Init, MapShape, Engine!Init
<1>2. MapShape(entries) /\ [Contract!Next]_(Contract!vars) => MapShape(entries)'
  BY NextShape
<1>3. MapShape(entries) /\ [Contract!Next]_(Contract!vars) => [Engine!Next]_(Engine!vars)
  BY NextLoses
<1> QED BY <1>1, <1>2, <1>3, PTL DEF Contract!Spec, Engine!Spec

\* lru.Cache serves the engine: what CacheContract allows it, and hence what it does,
\* is what SingleEngine is modelled to work with.
THEOREM LRUServesTheEngine == Spec => Engine!Spec
BY Refinement, ServesTheEngine, PTL DEF ImplementsContract

--------------------------------------------------------------------------------
(* Recency.                                                                *)

\* The keys of a list come in the order of their last uses.
Sorted(list, uses) ==
  \A i, j \in 1..Len(list) : i < j => <<list[i], list[j]>> \in uses

\* The list and the uses together: IInv keeps each key in the list once.
RInv == IInv /\ ListSortedByUse

\* A list without one of its elements is still sorted.
LEMMA OmitSorted ==
  ASSUME NEW uses, NEW s \in Seq(Keys), Sorted(s, uses), NEW i \in 1..Len(s)
  PROVE  Sorted(Omit(s, i), uses)
<1> DEFINE r == Omit(s, i)
<1>1. /\ Len(r) = Len(s) - 1
      /\ \A j \in 1..(Len(s) - 1) : r[j] = IF j < i THEN s[j] ELSE s[j + 1]
  BY OmitProperties
<1> HIDE DEF r
<1>2. ASSUME NEW m \in 1..Len(r), NEW n \in 1..Len(r), m < n
      PROVE  <<r[m], r[n]>> \in uses
  <2>1. PICK m1 \in 1..Len(s) : r[m] = s[m1] /\ (m1 = IF m < i THEN m ELSE m + 1)
    BY <1>1
  <2>2. PICK n1 \in 1..Len(s) : r[n] = s[n1] /\ (n1 = IF n < i THEN n ELSE n + 1)
    BY <1>1
  <2>3. m1 < n1
    BY <1>2, <2>1, <2>2
  <2> QED BY <2>1, <2>2, <2>3 DEF Sorted
<1> QED BY <1>2 DEF Sorted, r

\* A key that goes to the front has been used after all others.
LEMMA PushSorted ==
  ASSUME NEW s \in Seq(Keys), Sorted(s, usedAfter), NEW k \in Keys,
         \A j \in 1..Len(s) : s[j] # k, Use(k), ll' = <<k>> \o s
  PROVE  ListSortedByUse'
<1>1. /\ Len(ll') = Len(s) + 1
      /\ ll'[1] = k
      /\ \A j \in 2..Len(ll') : ll'[j] = s[j - 1]
  OBVIOUS
<1>2. ASSUME NEW i \in 1..Len(ll'), NEW j \in 1..Len(ll'), i < j
      PROVE  <<ll'[i], ll'[j]>> \in usedAfter'
  <2>1. j - 1 \in 1..Len(s) /\ ll'[j] = s[j - 1]
    BY <1>1, <1>2
  <2>2. s[j - 1] \in Keys \ {k}
    BY <2>1
  <2>3. CASE i = 1
    BY <1>1, <2>1, <2>2, <2>3 DEF Use
  <2>4. CASE i > 1
    <3>1. i - 1 \in 1..Len(s) /\ i - 1 < j - 1 /\ ll'[i] = s[i - 1]
      BY <1>1, <1>2, <2>4
    <3>2. <<s[i - 1], s[j - 1]>> \in usedAfter /\ s[i - 1] # k
      BY <2>1, <3>1 DEF Sorted
    <3> DEFINE p == <<s[i - 1], s[j - 1]>>
    <3>3. p \in usedAfter /\ k \notin {p[1], p[2]}
      BY <2>2, <3>2
    <3>4. p \in usedAfter'
      <4> HIDE DEF p
      <4> QED BY <3>3 DEF Use
    <3> QED BY <2>1, <3>1, <3>4
  <2>5. i = 1 \/ i > 1
    <3>1. Len(s) \in Nat
      OBVIOUS
    <3> QED BY <1>1, <3>1
  <2> QED BY <2>3, <2>4, <2>5
<1> QED BY <1>2 DEF ListSortedByUse

\* What the list of the invariant is, in the words of the first section.
LEMMA ListFacts ==
  ASSUME RInv
  PROVE  /\ TypeOK /\ MapMatchesList /\ Agree
         /\ ll \in Seq(Keys) /\ Len(ll) \in Nat
         /\ Matches(ll, DOMAIN entries)
         /\ Sorted(ll, usedAfter)
<1>1. TypeOK /\ MapMatchesList
  BY DEF RInv, IInv
<1>2. Agree /\ Len(ll) \in Nat
  BY <1>1, ShapeFromInvariant
<1> QED BY <1>1, <1>2 DEF RInv, ListSortedByUse, Sorted, Agree

\* An update or a hit.
LEMMA MoveToFrontSorted ==
  ASSUME RInv, NEW k \in DOMAIN entries, Use(k), ll' = MoveToFront(k)
  PROVE  ListSortedByUse'
<1> DEFINE i == Position(k)
           s == Omit(ll, i)
<1>1. i \in 1..Len(ll) /\ ll[i] = k /\ k \in Keys
  BY ListFacts, PositionFound DEF Agree
<1> HIDE DEF i
<1>2. s \in Seq(Keys) /\ Sorted(s, usedAfter) /\ Matches(s, DOMAIN entries \ {k})
  BY <1>1, ListFacts, OmitProperties, OmitSorted, OmitMatches
<1>3. ll' = <<k>> \o s
  BY DEF MoveToFront, Without, Omit, i
<1> HIDE DEF s
<1>4. \A j \in 1..Len(s) : s[j] # k
  BY <1>1, <1>2 DEF Matches
<1> QED BY <1>1, <1>2, <1>3, <1>4, PushSorted

\* A removal.
LEMMA WithoutSorted ==
  ASSUME RInv, NEW i \in 1..Len(ll), ll' = Without(i), UNCHANGED usedAfter
  PROVE  ListSortedByUse'
<1>1. Sorted(Omit(ll, i), usedAfter)
  BY ListFacts, OmitSorted
<1>2. ll' = Omit(ll, i)
  BY DEF Without, Omit
<1> QED BY <1>1, <1>2 DEF Sorted, ListSortedByUse

LEMMA QuietSorted ==
  ASSUME ListSortedByUse, UNCHANGED <<ll, usedAfter>>
  PROVE  ListSortedByUse'
BY DEF ListSortedByUse

LEMMA EmptySorted ==
  ASSUME ll' = <<>>
  PROVE  ListSortedByUse'
BY DEF ListSortedByUse

\* A full cache has a back element.
LEMMA BackOfFull ==
  ASSUME RInv, Full
  PROVE  Len(ll) \in 1..Len(ll)
BY ListFacts, LRUAssumption DEF Full

LEMMA SetSorts ==
  ASSUME RInv, NEW k \in Keys, NEW v \in Values, NEW d \in Durations, Set(k, v, d), Use(k)
  PROVE  ListSortedByUse'
<1> DEFINE entry == [value |-> v, expiration |-> CappedDeadline(now, d, defaultTTL)]
<1>1. CASE Update(k, entry)
  BY <1>1, MoveToFrontSorted DEF Update
<1>2. CASE Insert(k, entry)
  <2>1. ll' = <<k>> \o ll /\ \A j \in 1..Len(ll) : ll[j] # k
    BY <1>2, ListFacts DEF Insert, Matches
  <2> QED BY <2>1, ListFacts, PushSorted
<1>3. CASE EvictAndInsert(k, entry)
  <2> DEFINE s == Omit(ll, Len(ll))
  <2>1. Len(ll) \in 1..Len(ll)
    BY <1>3, BackOfFull DEF EvictAndInsert
  <2>2. /\ s \in Seq(Keys) /\ Sorted(s, usedAfter)
        /\ Matches(s, DOMAIN entries \ {ll[Len(ll)]})
    BY <2>1, ListFacts, OmitProperties, OmitSorted, OmitMatches
  <2>3. ll' = <<k>> \o s /\ k \notin DOMAIN entries
    BY <1>3 DEF EvictAndInsert, Without, Omit
  <2> HIDE DEF s
  <2>4. \A j \in 1..Len(s) : s[j] # k
    BY <2>2, <2>3 DEF Matches
  <2> QED BY <2>2, <2>3, <2>4, PushSorted
<1> QED BY <1>1, <1>2, <1>3 DEF Set

\* Only a Get that finds the key uses it.
LEMMA GetSorts ==
  ASSUME RInv, NEW k \in Keys, Get(k),
         IF answer' # {} THEN Use(k) ELSE UNCHANGED usedAfter
  PROVE  ListSortedByUse'
<1>1. CASE Miss(k)
  BY <1>1, QuietSorted DEF Miss, RInv
<1>2. CASE GetExpired(k)
  <2>1. k \in DOMAIN entries /\ ll' = Without(Position(k)) /\ UNCHANGED usedAfter
    BY <1>2 DEF GetExpired, Stale, RemoveElement
  <2>2. Position(k) \in 1..Len(ll)
    BY <2>1, ListFacts, PositionFound
  <2> QED BY <2>1, <2>2, WithoutSorted
<1>3. CASE Hit(k)
  BY <1>3, MoveToFrontSorted DEF Hit
<1> QED BY <1>1, <1>2, <1>3 DEF Get

\* The steps that use no key take elements off the list or leave it alone.
LEMMA OtherStepsSort ==
  ASSUME RInv, UNCHANGED usedAfter,
         \/ \E k \in Keys : Delete(k)
         \/ RemoveOldest \/ Clear \/ Close \/ StopCleanup
         \/ SetEvictedFunc
         \/ \E ttl \in TTLs : SetDefaultTTL(ttl)
         \/ Cleaner \/ Tick \/ Halted
  PROVE  ListSortedByUse'
<1>1. ListSortedByUse /\ Len(ll) \in Nat
  BY ListFacts DEF RInv
<1>2. ASSUME NEW k \in Keys, Delete(k) PROVE ListSortedByUse'
  <2>1. CASE Miss(k)
    BY <1>1, <2>1, QuietSorted DEF Miss
  <2>2. CASE k \in DOMAIN entries /\ RemoveElement(Position(k), "Delete")
    <3>1. Position(k) \in 1..Len(ll)
      BY <2>2, ListFacts, PositionFound
    <3> QED BY <2>2, <3>1, WithoutSorted DEF RemoveElement
  <2> QED BY <1>2, <2>1, <2>2 DEF Delete
<1>3. CASE RemoveOldest
  <2>1. Len(ll) \in 1..Len(ll)
    BY <1>3, ListFacts DEF RemoveOldest
  <2> QED BY <1>3, <2>1, WithoutSorted DEF RemoveOldest, RemoveElement
<1>4. CASE Clear
  BY <1>4, EmptySorted DEF Clear, PurgeAll
<1>5. CASE Close
  BY <1>1, <1>5, EmptySorted, QuietSorted DEF Close, PurgeAll
<1>6. CASE CleanerVisits
  <2>1. CASE RemoveElement(cursor, "Expiration")
    <3>1. cursor \in 1..Len(ll)
      BY <1>1, <1>6 DEF CleanerVisits, RInv, IInv, TypeOK, SweepOnCourse
    <3> QED BY <2>1, <3>1, WithoutSorted DEF RemoveElement
  <2>2. CASE UNCHANGED ll
    BY <1>1, <2>2, QuietSorted
  <2> QED BY <1>6, <2>1, <2>2 DEF CleanerVisits
<1>7. CASE CleanerWakes \/ CleanerExits \/ CleanerLocks \/ CleanerPanics \/ CleanerUnlocks
  BY <1>1, <1>7, QuietSorted
     DEF CleanerWakes, CleanerExits, CleanerLocks, CleanerPanics, CleanerUnlocks, unswept
<1>8. CASE StopCleanup \/ SetEvictedFunc \/ \E ttl \in TTLs : SetDefaultTTL(ttl)
  BY <1>1, <1>8, QuietSorted DEF StopCleanup, SetEvictedFunc, SetDefaultTTL
<1>9. CASE Tick \/ Halted
  BY <1>1, <1>9, QuietSorted DEF Tick, Halted, vars
<1> QED BY <1>2, <1>3, <1>4, <1>5, <1>6, <1>7, <1>8, <1>9 DEF Cleaner

LEMMA InitRInv == RInit => RInv
BY InitIInv, EmptySorted DEF RInit, RInv, Init, ListSortedByUse

LEMMA NextRInv == RInv /\ [RNext]_rvars => RInv'
<1> SUFFICES ASSUME RInv, [RNext]_rvars PROVE RInv'
  OBVIOUS
<1>1. [Next]_vars
  BY DEF RNext, Next, rvars
<1>2. IInv'
  BY <1>1, NextIInv DEF RInv
<1>3. ListSortedByUse'
  <2>1. CASE UNCHANGED rvars
    BY <2>1, QuietSorted DEF RInv, rvars, vars
  <2>2. CASE RNext
    BY <2>2, SetSorts, GetSorts, OtherStepsSort DEF RNext
  <2> QED BY <2>1, <2>2
<1> QED BY <1>2, <1>3 DEF RInv

\* The back of a sorted list that holds each key of the map once was used before
\* every other key.
LEMMA BackIsOldest ==
  ASSUME RInv, NEW other \in DOMAIN entries, other # ll[Len(ll)]
  PROVE  <<other, ll[Len(ll)]>> \in usedAfter
<1>1. PICK i \in 1..Len(ll) : ll[i] = other
  BY ListFacts DEF Agree, Matches
<1>2. i < Len(ll) /\ Len(ll) \in 1..Len(ll)
  BY <1>1, ListFacts
<1> QED BY <1>1, <1>2, ListFacts DEF Sorted

\* lru.go keeps its list in the order of the last uses, for every size and key set.
THEOREM ListIsSorted == RSpec => []ListSortedByUse
<1>1. RInv => ListSortedByUse
  BY DEF RInv
<1> QED BY <1>1, InitRInv, NextRInv, PTL DEF RSpec

\* Whatever mix of hits, updates, expirations, sweeps and deletions came before, the
\* entry that an insertion or RemoveOldest pushes out is the one whose last use is
\* the longest ago (lru.go:109-111, 199-207).
THEOREM VictimIsLeastRecentlyUsed == RSpec => EvictsLeastRecentlyUsed
<1> DEFINE P == \A k \in DOMAIN entries \ DOMAIN entries' :
                  (\E j \in Keys \ DOMAIN entries, v \in Values, d \in Durations : Set(j, v, d))
                    \/ RemoveOldest
                  => \A other \in DOMAIN entries \ {k} : <<other, k>> \in usedAfter
<1>1. RInv /\ [RNext]_rvars => [P]_rvars
  <2> SUFFICES ASSUME RInv, NEW k \in DOMAIN entries \ DOMAIN entries',
                      (\E j \in Keys \ DOMAIN entries, v \in Values, d \in Durations : Set(j, v, d))
                        \/ RemoveOldest,
                      NEW other \in DOMAIN entries \ {k}
               PROVE  <<other, k>> \in usedAfter
    BY DEF P
  <2>1. k = ll[Len(ll)]
    <3>1. CASE RemoveOldest
      BY <3>1 DEF RemoveOldest, RemoveElement, Drop
    <3>2. CASE \E j \in Keys \ DOMAIN entries, v \in Values, d \in Durations : Set(j, v, d)
      <4>1. PICK j \in Keys \ DOMAIN entries, v \in Values, d \in Durations : Set(j, v, d)
        BY <3>2
      <4> DEFINE entry == [value |-> v, expiration |-> CappedDeadline(now, d, defaultTTL)]
      <4>2. CASE Insert(j, entry)
        BY <4>2 DEF Insert, Put
      <4>3. CASE EvictAndInsert(j, entry)
        BY <4>3 DEF EvictAndInsert, Put, Drop
      <4> QED BY <4>1, <4>2, <4>3 DEF Set, Update
    <3> QED BY <3>1, <3>2
  <2> QED BY <2>1, BackIsOldest
<1> QED BY <1>1, InitRInv, NextRInv, PTL DEF RSpec, EvictsLeastRecentlyUsed
================================================================================
