---------------------------- MODULE RandomCacheProofs --------------------------
(* Theorems about RandomCache for every value of its constants.            *)
EXTENDS RandomCache, CacheLemmas

\* What a draw may leave behind.
Limited == MaxEntries # 0 => Len(keys) <= MaxEntries

\* The inductive invariant: SliceMatchesMap counts, this says which keys and that
\* each is there once; the clock of a sweep is never ahead of the clock.
IInv == TypeOK /\ Matches(keys, DOMAIN entries) /\ Limited /\ sweptAt <= now

\* The element drawn leaves the slice, and nothing else does.
LEMMA SwapRemoveMatches ==
  ASSUME NEW S, NEW s \in Seq(S), NEW ks, Matches(s, ks), NEW i \in 1..Len(s)
  PROVE  /\ SwapRemove(s, i) \in Seq(S)
         /\ Len(SwapRemove(s, i)) = Len(s) - 1
         /\ Matches(SwapRemove(s, i), ks \ {s[i]})
<1> DEFINE n == Len(s)
           e == [s EXCEPT ![i] = s[n]]
           r == SubSeq(e, 1, n - 1)
<1>1. n \in Nat /\ n > 0 /\ i \in 1..n /\ n \in 1..n
  OBVIOUS
<1>2. /\ e \in Seq(S)
      /\ Len(e) = n
      /\ \A j \in 1..n : e[j] = IF j = i THEN s[n] ELSE s[j]
  BY <1>1
<1> HIDE DEF e
<1>3. /\ r \in Seq(S)
      /\ Len(r) = n - 1
      /\ \A j \in 1..(n - 1) : r[j] = e[j]
  BY <1>1, <1>2
<1>4. \A j \in 1..(n - 1) : r[j] = IF j = i THEN s[n] ELSE s[j]
  BY <1>1, <1>2, <1>3
<1>5. r = SwapRemove(s, i)
  BY DEF SwapRemove, e
<1> HIDE DEF r, n
<1>6. /\ \A j \in 1..n : s[j] \in ks
      /\ \A k \in ks : \E j \in 1..n : s[j] = k
      /\ \A j1, j2 \in 1..n : s[j1] = s[j2] => j1 = j2
  BY DEF Matches, n
<1>7. ASSUME NEW k \in ks \ {s[i]}
      PROVE  \E j \in 1..Len(r) : r[j] = k
  <2>1. PICK j \in 1..n : s[j] = k
    BY <1>6
  <2>2. j # i
    BY <1>7, <2>1
  <2>3. CASE j = n
    <3>1. i \in 1..(n - 1)
      BY <1>1, <2>2, <2>3
    <3>2. r[i] = k
      BY <1>4, <2>1, <2>3, <3>1
    <3> QED BY <1>3, <3>1, <3>2
  <2>4. CASE j # n
    <3>1. j \in 1..(n - 1)
      BY <1>1, <2>4
    <3>2. r[j] = k
      BY <1>4, <2>1, <2>2, <3>1
    <3> QED BY <1>3, <3>1, <3>2
  <2> QED BY <2>3, <2>4
<1>8. ASSUME NEW j \in 1..Len(r)
      PROVE  r[j] \in ks \ {s[i]}
  <2>1. j \in 1..(n - 1) /\ j \in 1..n /\ j # n
    BY <1>1, <1>3
  <2> QED BY <1>1, <1>4, <1>6, <2>1
<1>9. ASSUME NEW j1 \in 1..Len(r), NEW j2 \in 1..Len(r), r[j1] = r[j2]
      PROVE  j1 = j2
  <2>1. /\ j1 \in 1..(n - 1) /\ j1 \in 1..n /\ j1 # n
        /\ j2 \in 1..(n - 1) /\ j2 \in 1..n /\ j2 # n
    BY <1>1, <1>3
  <2> QED BY <1>1, <1>4, <1>6, <1>9, <2>1
<1> QED
  BY <1>3, <1>5, <1>7, <1>8, <1>9 DEF Matches, n

--------------------------------------------------------------------------------

LEMMA InvariantCounts ==
  IInv => Cardinality(DOMAIN entries) = Len(keys) /\ Len(keys) \in Nat
BY MatchesCounts DEF IInv, TypeOK

LEMMA DeadlineType ==
  ASSUME TypeOK, NEW d \in Durations
  PROVE  PlainDeadline(now, d, defaultTTL) \in Nat
BY RandomAssumption DEF TypeOK, PlainDeadline, Never

\* The two tables after a step: what the invariant says of them, and of the calls.
TablesOK ==
  /\ DOMAIN entries \subseteq Keys
  /\ entries \in [DOMAIN entries -> EntryOf(Values)]
  /\ keys \in Seq(Keys)
  /\ calls \subseteq CallOf(Keys, Values)
  /\ Matches(keys, DOMAIN entries)
  /\ Limited

LEMMA UpdateStep ==
  ASSUME IInv, NEW k \in Keys, NEW entry \in EntryOf(Values), Update(k, entry)
  PROVE  TablesOK'
<1>1. k \in DOMAIN entries /\ entries' = Put(entries, k, entry) /\ calls' = {} /\ keys' = keys
  BY DEF Update
<1>2. entries \in [DOMAIN entries -> EntryOf(Values)] /\ DOMAIN entries \subseteq Keys
  BY DEF IInv, TypeOK
<1>3. entries' \in [DOMAIN entries' -> EntryOf(Values)] /\ DOMAIN entries' = DOMAIN entries
  BY <1>1, <1>2 DEF Put
<1> QED BY <1>1, <1>2, <1>3 DEF IInv, TypeOK, TablesOK, Limited, Matches

LEMMA InsertStep ==
  ASSUME IInv, NEW k \in Keys, NEW entry \in EntryOf(Values), Insert(k, entry)
  PROVE  TablesOK'
<1>1. /\ k \notin DOMAIN entries
      /\ ~Over(Cardinality(DOMAIN entries) + 1)
      /\ entries' = Put(entries, k, entry) /\ calls' = {} /\ keys' = Append(keys, k)
  BY DEF Insert
<1>2. /\ entries \in [DOMAIN entries -> EntryOf(Values)] /\ DOMAIN entries \subseteq Keys
      /\ keys \in Seq(Keys) /\ Matches(keys, DOMAIN entries)
  BY DEF IInv, TypeOK
<1>3. /\ entries' \in [DOMAIN entries' -> EntryOf(Values)]
      /\ DOMAIN entries' = DOMAIN entries \cup {k}
  BY <1>1, <1>2 DEF Put
<1>4. /\ keys' \in Seq(Keys) /\ Len(keys') = Len(keys) + 1
      /\ Matches(keys', DOMAIN entries \cup {k})
  BY <1>1, <1>2, AppendMatches
<1>5. Limited'
  BY <1>1, <1>4, InvariantCounts, RandomAssumption DEF Over, Limited
<1>6. calls' \subseteq CallOf(Keys, Values) /\ DOMAIN entries' \subseteq Keys
  BY <1>1, <1>2, <1>3
<1> QED BY <1>3, <1>4, <1>5, <1>6 DEF TablesOK

LEMMA InsertAndEvictStep ==
  ASSUME IInv, NEW k \in Keys, NEW entry \in EntryOf(Values), InsertAndEvict(k, entry)
  PROVE  TablesOK'
<1> DEFINE added == Append(keys, k)
           updated == Put(entries, k, entry)
<1>1. /\ k \notin DOMAIN entries
      /\ \E randomIndex \in 1..Len(added) :
           /\ entries' = Drop(updated, {added[randomIndex]})
           /\ keys' = SwapRemove(added, randomIndex)
           /\ calls' = Called(onEvicted, updated, {added[randomIndex]}, "Eviction")
  BY DEF InsertAndEvict
<1>2. /\ entries \in [DOMAIN entries -> EntryOf(Values)] /\ DOMAIN entries \subseteq Keys
      /\ keys \in Seq(Keys) /\ Matches(keys, DOMAIN entries)
      /\ onEvicted \in BOOLEAN
  BY DEF IInv, TypeOK
<1>3. /\ updated \in [DOMAIN updated -> EntryOf(Values)]
      /\ DOMAIN updated = DOMAIN entries \cup {k}
      /\ DOMAIN updated \subseteq Keys
  BY <1>1, <1>2 DEF Put
<1>4. /\ added \in Seq(Keys) /\ Len(added) = Len(keys) + 1
      /\ Matches(added, DOMAIN entries \cup {k})
  BY <1>1, <1>2, AppendMatches
<1> HIDE DEF added, updated
<1>5. PICK randomIndex \in 1..Len(added) :
        /\ entries' = Drop(updated, {added[randomIndex]})
        /\ keys' = SwapRemove(added, randomIndex)
        /\ calls' = Called(onEvicted, updated, {added[randomIndex]}, "Eviction")
  BY <1>1
<1> DEFINE keyToEvict == added[randomIndex]
<1>6. keyToEvict \in DOMAIN updated
  BY <1>3, <1>4 DEF Matches
<1>7. /\ keys' \in Seq(Keys) /\ Len(keys') = Len(added) - 1
      /\ Matches(keys', DOMAIN updated \ {keyToEvict})
  BY <1>3, <1>4, <1>5, SwapRemoveMatches
<1> HIDE DEF keyToEvict
<1>8. /\ entries' \in [DOMAIN entries' -> EntryOf(Values)]
      /\ DOMAIN entries' = DOMAIN updated \ {keyToEvict}
  BY <1>3, <1>5 DEF Drop, keyToEvict
<1>9. calls' \subseteq CallOf(Keys, Values)
  <2>1. "Eviction" \in Events /\ {keyToEvict} \in SUBSET DOMAIN updated
    BY <1>6 DEF Events
  <2> QED BY <1>2, <1>3, <1>5, <2>1, CalledType DEF keyToEvict
<1>10. Limited'
  BY <1>4, <1>7, InvariantCounts DEF IInv, Limited
<1>11. DOMAIN entries' \subseteq Keys
  BY <1>3, <1>8
<1> QED BY <1>7, <1>8, <1>9, <1>10, <1>11 DEF TablesOK

LEMMA CleanerRemovesStep ==
  ASSUME IInv, NEW k \in Keys, CleanerRemoves(k)
  PROVE  TablesOK'
<1> DEFINE i == CHOOSE j \in 1..Len(keys) : keys[j] = k
<1>1. /\ k \in DOMAIN entries
      /\ entries' = Drop(entries, {k})
      /\ keys' = RemoveAt(keys, i)
      /\ calls' = Called(onEvicted, entries, {k}, "Expiration")
  BY DEF CleanerRemoves, Stale
<1>2. /\ entries \in [DOMAIN entries -> EntryOf(Values)] /\ DOMAIN entries \subseteq Keys
      /\ keys \in Seq(Keys) /\ Matches(keys, DOMAIN entries)
      /\ onEvicted \in BOOLEAN
  BY DEF IInv, TypeOK
<1>3. i \in 1..Len(keys) /\ keys[i] = k
  <2>1. \E j \in 1..Len(keys) : keys[j] = k
    BY <1>1, <1>2 DEF Matches
  <2> QED BY <2>1
<1> HIDE DEF i
<1>4. keys' = Omit(keys, i)
  BY <1>1 DEF RemoveAt, Omit
<1>5. keys' \in Seq(Keys) /\ Len(keys') = Len(keys) - 1
  BY <1>2, <1>3, <1>4, OmitProperties
<1>6. Matches(keys', DOMAIN entries \ {k})
  BY <1>2, <1>3, <1>4, OmitMatches
<1>7. /\ entries' \in [DOMAIN entries' -> EntryOf(Values)]
      /\ DOMAIN entries' = DOMAIN entries \ {k}
  BY <1>1, <1>2 DEF Drop
<1>8. calls' \subseteq CallOf(Keys, Values)
  <2>1. "Expiration" \in Events /\ {k} \in SUBSET DOMAIN entries
    BY <1>1 DEF Events
  <2> QED BY <1>1, <1>2, <2>1, CalledType
<1>9. Limited'
  BY <1>5, InvariantCounts, RandomAssumption DEF IInv, Limited
<1>10. DOMAIN entries' \subseteq Keys
  BY <1>2, <1>7
<1> QED BY <1>5, <1>6, <1>7, <1>8, <1>9, <1>10 DEF TablesOK

LEMMA ClearStep ==
  ASSUME IInv, Clear
  PROVE  TablesOK'
<1>1. /\ entries' = <<>> /\ keys' = <<>>
      /\ calls' = Called(onEvicted, entries, DOMAIN entries, "Clear")
  BY DEF Clear
<1>2. calls' \subseteq CallOf(Keys, Values)
  <2>1. "Clear" \in Events
    BY DEF Events
  <2> QED BY <1>1, <2>1, CalledType DEF IInv, TypeOK
<1>3. DOMAIN entries' = {} /\ entries' \in [{} -> EntryOf(Values)]
  BY <1>1
<1>4. keys' \in Seq(Keys) /\ Len(keys') = 0
  BY <1>1
<1>5. Matches(keys', DOMAIN entries')
  BY <1>3, <1>4 DEF Matches
<1>6. Limited'
  BY <1>4, RandomAssumption DEF Limited
<1> QED BY <1>2, <1>3, <1>4, <1>5, <1>6 DEF TablesOK

--------------------------------------------------------------------------------
(* The invariant is inductive.                                             *)

LEMMA InitIInv == Init => IInv
<1> SUFFICES ASSUME Init PROVE IInv
  OBVIOUS
<1>1. DOMAIN entries = {} /\ entries \in [{} -> EntryOf(Values)]
  BY DEF Init
<1>2. keys \in Seq(Keys) /\ Len(keys) = 0
  BY DEF Init
<1>3. Matches(keys, DOMAIN entries)
  BY <1>1, <1>2 DEF Matches
<1>4. Limited /\ sweptAt <= now
  BY <1>2, RandomAssumption DEF Init, Limited
<1>5. now \in Nat /\ defaultTTL \in Nat /\ sweptAt \in Nat
  BY RandomAssumption DEF Init
<1>6. calls \subseteq CallOf(Keys, Values) /\ answer \subseteq Values
  BY DEF Init
<1>7. /\ onEvicted \in BOOLEAN
      /\ holder \in {"none", "cleaner", "Close"}
      /\ stopped \in BOOLEAN
      /\ cleaner \in {"off", "looping", "waiting", "blind", "woken", "sweeping", "exited"}
  BY DEF Init
<1> QED BY <1>1, <1>2, <1>3, <1>4, <1>5, <1>6, <1>7 DEF IInv, TypeOK

\* What the invariant says of the variables beside the tables.
RestOK ==
  /\ now \in Nat /\ defaultTTL \in Nat /\ onEvicted \in BOOLEAN
  /\ answer \subseteq Values
  /\ holder \in {"none", "cleaner", "Close"} /\ stopped \in BOOLEAN
  /\ cleaner \in {"off", "looping", "waiting", "blind", "woken", "sweeping", "exited"}
  /\ sweptAt \in Nat /\ sweptAt <= now

LEMMA IInvParts == IInv <=> TablesOK /\ RestOK
BY DEF IInv, TypeOK, TablesOK, RestOK

LEMMA TablesStay ==
  ASSUME IInv, UNCHANGED tables, calls' = calls \/ calls' = {}
  PROVE  TablesOK'
<1>1. TablesOK /\ entries' = entries /\ keys' = keys /\ calls' \subseteq calls
  BY IInvParts DEF tables
<1> QED BY <1>1 DEF TablesOK, Limited, Matches

LEMMA NextIInv == IInv /\ [Next]_vars => IInv'
<1> SUFFICES ASSUME IInv, [Next]_vars PROVE TablesOK' /\ RestOK'
  BY DEF IInv, TypeOK, TablesOK, RestOK
<1>0. RestOK
  BY IInvParts
<1>1. ASSUME NEW k \in Keys, NEW v \in Values, NEW d \in Durations, Set(k, v, d)
      PROVE  TablesOK' /\ RestOK'
  <2> DEFINE entry == [value |-> v, expiration |-> PlainDeadline(now, d, defaultTTL)]
  <2>1. entry \in EntryOf(Values)
    BY DeadlineType DEF IInv, EntryOf
  <2>2. Update(k, entry) \/ Insert(k, entry) \/ InsertAndEvict(k, entry)
    BY <1>1 DEF Set
  <2> HIDE DEF entry
  <2>3. TablesOK'
    BY <2>1, <2>2, UpdateStep, InsertStep, InsertAndEvictStep
  <2>4. RestOK'
    BY <1>0, <1>1 DEF Set, config, goroutine, RestOK
  <2> QED BY <2>3, <2>4
<1>2. ASSUME NEW k \in Keys, Get(k) PROVE TablesOK' /\ RestOK'
  <2>1. Found(k) \subseteq Values
    BY DEF Found, IInv, TypeOK, EntryOf
  <2> QED BY <1>0, <1>2, <2>1, TablesStay DEF Get, config, goroutine, RestOK
<1>3. ASSUME Clear PROVE TablesOK' /\ RestOK'
  BY <1>0, <1>3, ClearStep DEF Clear, config, goroutine, RestOK
<1>4. ASSUME Close \/ StopCleanup PROVE TablesOK' /\ RestOK'
  <2>1. stopped' \in BOOLEAN
    BY <1>0, <1>4 DEF Close, StopCleanup, CloseChannel, RestOK
  <2> QED
    BY <1>0, <1>4, <2>1, TablesStay DEF Close, StopCleanup, config, goroutine, RestOK
<1>5. ASSUME SetEvictedFunc PROVE TablesOK' /\ RestOK'
  BY <1>0, <1>5, TablesStay DEF SetEvictedFunc, goroutine, RestOK
<1>6. ASSUME NEW ttl \in TTLs, SetDefaultTTL(ttl) PROVE TablesOK' /\ RestOK'
  BY <1>0, <1>6, TablesStay, RandomAssumption DEF SetDefaultTTL, goroutine, RestOK
<1>7. ASSUME CleanerSelects \/ CleanerWakes \/ CleanerExits PROVE TablesOK' /\ RestOK'
  BY <1>0, <1>7, TablesStay
     DEF CleanerSelects, CleanerWakes, CleanerExits, unswept, config, RestOK
<1>8. ASSUME CleanerLocks PROVE TablesOK' /\ RestOK'
  BY <1>0, <1>8, TablesStay DEF CleanerLocks, unswept, config, RestOK
<1>9. ASSUME CleanerUnlocks PROVE TablesOK' /\ RestOK'
  BY <1>0, <1>9, TablesStay DEF CleanerUnlocks, unswept, config, RestOK
<1>10. ASSUME NEW k \in Keys, CleanerRemoves(k) PROVE TablesOK' /\ RestOK'
  BY <1>0, <1>10, CleanerRemovesStep DEF CleanerRemoves, config, goroutine, RestOK
<1>11. ASSUME Tick PROVE TablesOK' /\ RestOK'
  BY <1>0, <1>11, TablesStay DEF Tick, goroutine, RestOK
<1>12. ASSUME UNCHANGED vars PROVE TablesOK' /\ RestOK'
  BY <1>0, <1>12, TablesStay DEF vars, config, goroutine, RestOK
<1> QED
  BY <1>1, <1>2, <1>3, <1>4, <1>5, <1>6, <1>7, <1>8, <1>9, <1>10, <1>11, <1>12
     DEF Next, Cleaner

\* The invariant holds in every behaviour.
THEOREM Invariance == Spec => []IInv
BY InitIInv, NextIInv, PTL DEF Spec

\* The cache's state keeps its shape.
THEOREM TypeCorrectness == Spec => []TypeOK
<1>1. IInv => TypeOK
  BY DEF IInv
<1> QED BY <1>1, Invariance, PTL

\* The slice evictRandom draws from lists the keys of the map, each once, whichever of
\* Set, evictRandom, cleanup and Clear changed the two last (random.go:70-78, 206-219,
\* 240-267).
THEOREM SliceAndMapAgree == Spec => []SliceMatchesMap
<1>1. ASSUME IInv PROVE SliceMatchesMap
  <2>1. keys \in Seq(Keys) /\ Matches(keys, DOMAIN entries)
    BY <1>1 DEF IInv, TypeOK
  <2>2. DOMAIN keys = 1..Len(keys)
    BY <2>1
  <2>3. ASSUME NEW k PROVE k \in ToSet(keys) <=> \E i \in 1..Len(keys) : keys[i] = k
    BY <2>2 DEF ToSet
  <2>4. ASSUME NEW k PROVE k \in ToSet(keys) <=> k \in DOMAIN entries
    BY <2>1, <2>3 DEF Matches
  <2>5. ToSet(keys) = DOMAIN entries
    BY <2>4
  <2> QED BY <1>1, <2>5, InvariantCounts DEF SliceMatchesMap
<1> QED BY <1>1, Invariance, PTL

\* A limited cache never holds more than maxEntries.
THEOREM NeverOverCapacity == Spec => []CapacityRespected
<1>1. IInv => CapacityRespected
  BY InvariantCounts DEF IInv, Limited, CapacityRespected
<1> QED BY <1>1, Invariance, PTL

--------------------------------------------------------------------------------
(* The refinement.                                                         *)

\* The contract's copies of the shared definitions are those of RandomCache.
LEMMA SharedDefinitions ==
  /\ \A m, k, e : Contract!Put(m, k, e) = Put(m, k, e)
  /\ \A m, ks : Contract!Drop(m, ks) = Drop(m, ks)
  /\ \A h, m, ks, e : Contract!Called(h, m, ks, e) = Called(h, m, ks, e)
  /\ \A d : Contract!Deadline(d) = PlainDeadline(now, d, defaultTTL)
  /\ \A k : Contract!Stale(k) <=> Stale(k, now)
  /\ UNCHANGED Contract!config <=> UNCHANGED config
<1>1. \A d : Contract!Deadline(d) = PlainDeadline(now, d, defaultTTL)
  BY DEF Contract!Deadline, PlainDeadline, Contract!Never, Never
<1>2. \A k : Contract!Stale(k) <=> Stale(k, now)
  BY DEF Contract!Stale, Stale, Contract!IsExpired, IsExpired, Contract!Never, Never
<1>3. \A m, k, e : Contract!Put(m, k, e) = Put(m, k, e)
  BY DEF Contract!Put, Put
<1>4. \A m, ks : Contract!Drop(m, ks) = Drop(m, ks)
  BY DEF Contract!Drop, Drop
<1>5. \A h, m, ks, e : Contract!Called(h, m, ks, e) = Called(h, m, ks, e)
  BY DEF Contract!Called, Called
<1>6. UNCHANGED Contract!config <=> UNCHANGED config
  BY DEF Contract!config, config
<1> QED
  BY <1>1, <1>2, <1>3, <1>4, <1>5, <1>6

\* Both count the same entries before an insertion.
LEMMA FullAgrees ==
  ASSUME IInv
  PROVE  Contract!Full <=> Over(Cardinality(DOMAIN entries) + 1)
BY InvariantCounts, RandomAssumption
   DEF Contract!Full, Over, Contract!Cardinality, Cardinality

LEMMA PurgeMeans ==
  ASSUME NEW map, NEW ks, NEW event
  PROVE  Contract!Purge(map, ks, event)
           <=> entries' = Drop(map, ks) /\ calls' = Called(onEvicted, map, ks, event)
BY SharedDefinitions DEF Contract!Purge

\* Removing no entry changes nothing and calls nobody.
LEMMA NothingPurged ==
  ASSUME NEW map, map \in [DOMAIN map -> EntryOf(Values)], entries' = map, calls' = {},
         NEW event
  PROVE  Contract!Purge(map, {}, event)
<1>1. Drop(map, {}) = map
  BY DEF Drop
<1>2. Called(onEvicted, map, {}, event) = {}
  BY DEF Called
<1> QED BY <1>1, <1>2, PurgeMeans

LEMMA SetRefines ==
  ASSUME IInv, NEW k \in Keys, NEW v \in Values, NEW d \in Durations, Set(k, v, d)
  PROVE  Contract!Set(k, v, d)
<1> DEFINE deadline == PlainDeadline(now, d, defaultTTL)
           entry == [value |-> v, expiration |-> deadline]
           updated == Put(entries, k, entry)
<1>1. Update(k, entry) \/ Insert(k, entry) \/ InsertAndEvict(k, entry)
  BY DEF Set
<1>2. entry \in EntryOf(Values)
  BY DeadlineType DEF IInv, EntryOf
<1>3. updated \in [DOMAIN updated -> EntryOf(Values)] /\ DOMAIN updated = DOMAIN entries \cup {k}
  BY <1>2 DEF IInv, TypeOK, Put
<1>4. keys \in Seq(Keys) /\ Matches(keys, DOMAIN entries)
  BY DEF IInv, TypeOK
<1> HIDE DEF entry
<1>5. \/ /\ k \in DOMAIN entries \/ ~Contract!Full
         /\ Contract!Purge(updated, {}, "Eviction")
      \/ /\ k \notin DOMAIN entries /\ Contract!Full
         /\ \E victim \in DOMAIN updated : Contract!Purge(updated, {victim}, "Eviction")
  <2>1. CASE Update(k, entry)
    <3>1. k \in DOMAIN entries /\ entries' = updated /\ calls' = {}
      BY <2>1 DEF Update
    <3> HIDE DEF updated
    <3> QED BY <1>3, <3>1, NothingPurged
  <2>2. CASE Insert(k, entry)
    <3>1. ~Contract!Full /\ entries' = updated /\ calls' = {}
      BY <2>2, FullAgrees DEF Insert
    <3> HIDE DEF updated
    <3> QED BY <1>3, <3>1, NothingPurged
  <2>3. CASE InsertAndEvict(k, entry)
    <3> DEFINE added == Append(keys, k)
    <3>1. k \notin DOMAIN entries /\ Contract!Full
      BY <2>3, FullAgrees DEF InsertAndEvict
    <3>2. PICK randomIndex \in 1..Len(added) :
            /\ entries' = Drop(updated, {added[randomIndex]})
            /\ calls' = Called(onEvicted, updated, {added[randomIndex]}, "Eviction")
      BY <2>3 DEF InsertAndEvict
    <3>3. Matches(added, DOMAIN updated)
      BY <1>3, <1>4, <3>1, AppendMatches
    <3> HIDE DEF added, updated
    <3>4. added[randomIndex] \in DOMAIN updated
      BY <3>3 DEF Matches
    <3>5. Contract!Purge(updated, {added[randomIndex]}, "Eviction")
      BY <3>2, PurgeMeans
    <3> QED BY <3>1, <3>4, <3>5
  <2> QED BY <1>1, <2>1, <2>2, <2>3
<1>6. updated = Contract!Put(entries, k, [value |-> v, expiration |-> deadline])
  BY SharedDefinitions DEF entry
<1>7. deadline = Contract!Deadline(d)
  BY SharedDefinitions DEF deadline
<1>8. answer' = {} /\ UNCHANGED Contract!config
  BY SharedDefinitions DEF Set
<1> HIDE DEF updated, deadline
<1> QED BY <1>5, <1>6, <1>7, <1>8 DEF Contract!Set

LEMMA GetRefines ==
  ASSUME IInv, NEW k \in Keys, Get(k)
  PROVE  Contract!Get(k)
<1>1. entries' = entries /\ calls' = {} /\ answer' = Found(k) /\ UNCHANGED Contract!config
  BY SharedDefinitions DEF Get, tables
<1>2. Contract!Purge(entries, {}, "Expiration")
  BY <1>1, NothingPurged DEF IInv, TypeOK
<1>3. {} \in SUBSET {k}
  OBVIOUS
<1> QED BY <1>1, <1>2, <1>3, SharedDefinitions DEF Contract!Get, Found

LEMMA NextRefines == IInv /\ [Next]_vars => [Contract!Next]_(Contract!vars)
<1> SUFFICES ASSUME IInv, [Next]_vars PROVE [Contract!Next]_(Contract!vars)
  OBVIOUS
<1>1. ASSUME NEW k \in Keys, NEW v \in Values, NEW d \in Durations, Set(k, v, d)
      PROVE  Contract!Next
  BY <1>1, SetRefines DEF Contract!Next
<1>2. ASSUME NEW k \in Keys, Get(k) PROVE Contract!Next
  BY <1>2, GetRefines DEF Contract!Next
<1>3. ASSUME Clear PROVE Contract!Next
  <2>1. Drop(entries, DOMAIN entries) = <<>>
    BY DEF Drop
  <2>2. Contract!Purge(entries, DOMAIN entries, "Clear")
    BY <1>3, <2>1, PurgeMeans DEF Clear
  <2>3. answer' = {} /\ UNCHANGED Contract!config
    BY <1>3, SharedDefinitions DEF Clear
  <2> QED BY <2>2, <2>3 DEF Contract!Remove, Contract!Clear, Contract!Next
<1>4. ASSUME NEW k \in Keys, CleanerRemoves(k) PROVE Contract!Next
  <2>1. Contract!Purge(entries, {k}, "Expiration")
    BY <1>4, PurgeMeans DEF CleanerRemoves
  <2>2. answer' = {} /\ UNCHANGED Contract!config
    BY <1>4, SharedDefinitions DEF CleanerRemoves
  <2>3. Stale(k, now)
    <3>1. Stale(k, sweptAt) /\ sweptAt <= now /\ sweptAt \in Nat /\ now \in Nat
      BY <1>4 DEF CleanerRemoves, IInv, TypeOK
    <3>2. entries[k].expiration \in Nat
      BY <3>1 DEF Stale, IInv, TypeOK, EntryOf
    <3> QED BY <3>1, <3>2 DEF Stale, IsExpired, Never
  <2> QED
    BY <2>1, <2>2, <2>3, SharedDefinitions DEF Contract!Expire, Contract!Remove, Contract!Next
<1>5. ASSUME SetEvictedFunc PROVE Contract!Next
  BY <1>5 DEF SetEvictedFunc, tables, Contract!SetEvictedFunc, Contract!Next
<1>6. ASSUME NEW ttl \in TTLs, SetDefaultTTL(ttl) PROVE Contract!Next
  BY <1>6 DEF SetDefaultTTL, tables, Contract!SetDefaultTTL, Contract!Next
<1>7. ASSUME Tick PROVE Contract!Next
  BY <1>7 DEF Tick, tables, Contract!Tick, Contract!Next
<1>8. ASSUME \/ Close \/ StopCleanup \/ CleanerSelects \/ CleanerWakes \/ CleanerExits
             \/ CleanerLocks \/ CleanerUnlocks \/ UNCHANGED vars
      PROVE  UNCHANGED Contract!vars
  BY <1>8 DEF Close, StopCleanup, CleanerSelects, CleanerWakes, CleanerExits, CleanerLocks,
     CleanerUnlocks, vars, unswept, tables, config, Contract!vars
<1> QED
  BY <1>1, <1>2, <1>3, <1>4, <1>5, <1>6, <1>7, <1>8 DEF Next, Cleaner

\* random.Cache keeps the contract of cache.ICache as far as it returns: whatever is
\* drawn, a full cache loses exactly one entry to a new key, no stale entry is
\* returned, and every entry that leaves is told to the callback once.
THEOREM Refinement == Spec => ImplementsContract
<1>1. Init => Contract!Init
  BY DEF Init, Contract!Init
<1> QED BY <1>1, NextRefines, Invariance, PTL DEF Spec, ImplementsContract, Contract!Spec
================================================================================
