-------------------------------- MODULE LFUProofs ------------------------------
(* Theorems about LFUCache and LFUPolicy for every value of their          *)
(* constants.                                                              *)
EXTENDS LFUPolicy, CacheLemmas

--------------------------------------------------------------------------------
(* The frequency lists as data.                                            *)

\* The keys whose entries have frequency f.
KeysAt(es, f) == {k \in DOMAIN es : es[k].freq = f}

\* What ListsMatchEntries says, of any map and any lists.
ListsOK(es, lists) ==
  /\ \A f \in DOMAIN lists :
       lists[f] \in Seq(Keys) /\ lists[f] # <<>> /\ Matches(lists[f], KeysAt(es, f))
  /\ \A k \in DOMAIN es : es[k].freq \in DOMAIN lists

\* A list holds a key of its own frequency.
LEMMA MemberAt ==
  ASSUME NEW es, NEW lists, ListsOK(es, lists), NEW f \in DOMAIN lists,
         NEW i \in 1..Len(lists[f])
  PROVE  lists[f][i] \in DOMAIN es /\ es[lists[f][i]].freq = f
BY DEF ListsOK, Matches, KeysAt

\* A key taken off its list: the other lists stay, and its own unless it is empty.
LEMMA UnlinkOK ==
  ASSUME NEW es, NEW lists, ListsOK(es, lists), NEW k \in DOMAIN es,
         NEW f, f = es[k].freq
  PROVE  /\ ListsOK(Drop(es, {k}), Unlink(lists, f, k))
         /\ DOMAIN lists \ {f} \subseteq DOMAIN Unlink(lists, f, k)
         /\ DOMAIN Unlink(lists, f, k) \subseteq DOMAIN lists
<1> DEFINE s == lists[f]
           node == CHOOSE i \in 1..Len(s) : s[i] = k
           rest == RemoveAt(s, node)
           left == Unlink(lists, f, k)
           fewer == Drop(es, {k})
<1>1. f \in DOMAIN lists /\ s \in Seq(Keys) /\ Matches(s, KeysAt(es, f))
  BY DEF ListsOK
<1>2. node \in 1..Len(s) /\ s[node] = k
  <2>1. \E i \in 1..Len(s) : s[i] = k
    BY <1>1 DEF Matches, KeysAt
  <2> QED BY <2>1
<1>3. left = IF rest = <<>> THEN Drop(lists, {f}) ELSE Put(lists, f, rest)
  BY DEF Unlink
<1> HIDE DEF s, node, left
<1>4. rest \in Seq(Keys) /\ Matches(rest, KeysAt(es, f) \ {k})
  <2>1. rest = Omit(s, node)
    BY DEF RemoveAt, Omit
  <2> QED BY <1>1, <1>2, <2>1, OmitProperties, OmitMatches
<1> HIDE DEF rest
<1>5. /\ DOMAIN fewer = DOMAIN es \ {k}
      /\ \A x \in DOMAIN fewer : fewer[x] = es[x]
  BY DEF Drop
<1> HIDE DEF fewer
<1>6. KeysAt(fewer, f) = KeysAt(es, f) \ {k}
  BY <1>5 DEF KeysAt
<1>7. ASSUME NEW g, g # f PROVE KeysAt(fewer, g) = KeysAt(es, g)
  BY <1>5, <1>7 DEF KeysAt
<1>8. CASE rest = <<>>
  <2>1. /\ DOMAIN left = DOMAIN lists \ {f}
        /\ \A g \in DOMAIN left : left[g] = lists[g]
    BY <1>3, <1>8 DEF Drop
  <2>2. ASSUME NEW x \in DOMAIN fewer PROVE fewer[x].freq \in DOMAIN left
    <3>1. fewer[x].freq \in DOMAIN lists
      BY <1>5, <2>2 DEF ListsOK
    <3>2. fewer[x].freq # f
      <4>1. ASSUME fewer[x].freq = f PROVE x \in KeysAt(fewer, f)
        BY <2>2, <4>1 DEF KeysAt
      <4> QED BY <1>4, <1>6, <1>8, <4>1 DEF Matches
    <3> QED BY <2>1, <3>1, <3>2
  <2>3. ASSUME NEW g \in DOMAIN left
        PROVE  left[g] \in Seq(Keys) /\ left[g] # <<>> /\ Matches(left[g], KeysAt(fewer, g))
    BY <1>7, <2>1, <2>3 DEF ListsOK
  <2> QED BY <2>1, <2>2, <2>3 DEF ListsOK, left, fewer
<1>9. CASE rest # <<>>
  <2>1. /\ DOMAIN left = DOMAIN lists
        /\ \A g \in DOMAIN left : left[g] = IF g = f THEN rest ELSE lists[g]
    BY <1>1, <1>3, <1>9 DEF Put
  <2>2. ASSUME NEW x \in DOMAIN fewer PROVE fewer[x].freq \in DOMAIN left
    BY <1>5, <2>1, <2>2 DEF ListsOK
  <2>3. ASSUME NEW g \in DOMAIN left
        PROVE  left[g] \in Seq(Keys) /\ left[g] # <<>> /\ Matches(left[g], KeysAt(fewer, g))
    BY <1>4, <1>6, <1>7, <1>9, <2>1, <2>3 DEF ListsOK
  <2> QED BY <2>1, <2>2, <2>3 DEF ListsOK, left, fewer
<1> QED BY <1>8, <1>9

\* A key that no list has goes to the back of the list of its frequency.
LEMMA PushBackOK ==
  ASSUME NEW es, NEW lists, ListsOK(es, lists), NEW k \in Keys, k \notin DOMAIN es,
         NEW e, NEW f, f = e.freq
  PROVE  /\ ListsOK(Put(es, k, e), PushBack(lists, f, k))
         /\ DOMAIN PushBack(lists, f, k) = DOMAIN lists \cup {f}
<1> DEFINE s == ListAt(lists, f)
           longer == Append(s, k)
           more == Put(es, k, e)
           pushed == PushBack(lists, f, k)
<1>1. s \in Seq(Keys) /\ Matches(s, KeysAt(es, f))
  <2>1. CASE f \in DOMAIN lists
    BY <2>1 DEF ListAt, ListsOK
  <2>2. CASE f \notin DOMAIN lists
    <3>1. s = <<>> /\ KeysAt(es, f) = {}
      BY <2>2 DEF ListAt, ListsOK, KeysAt
    <3>2. Len(s) = 0
      BY <3>1
    <3> QED BY <3>1, <3>2 DEF Matches
  <2> QED BY <2>1, <2>2
<1> HIDE DEF s
<1>2. k \notin KeysAt(es, f)
  BY DEF KeysAt
<1>3. longer \in Seq(Keys) /\ longer # <<>> /\ Matches(longer, KeysAt(es, f) \cup {k})
  <2>1. /\ longer \in Seq(Keys) /\ Len(longer) = Len(s) + 1
        /\ Matches(longer, KeysAt(es, f) \cup {k})
    BY <1>1, <1>2, AppendMatches
  <2>2. longer # <<>>
    BY <1>1, <2>1
  <2> QED BY <2>1, <2>2
<1> HIDE DEF longer
<1>4. /\ DOMAIN more = DOMAIN es \cup {k}
      /\ \A x \in DOMAIN more : more[x] = IF x = k THEN e ELSE es[x]
  BY DEF Put
<1>5. /\ DOMAIN pushed = DOMAIN lists \cup {f}
      /\ \A g \in DOMAIN pushed : pushed[g] = IF g = f THEN longer ELSE lists[g]
  BY DEF PushBack, Put, longer, s
<1> HIDE DEF more, pushed
<1>6. KeysAt(more, f) = KeysAt(es, f) \cup {k}
  BY <1>4 DEF KeysAt
<1>7. ASSUME NEW g, g # f PROVE KeysAt(more, g) = KeysAt(es, g)
  BY <1>4, <1>7 DEF KeysAt
<1>8. ASSUME NEW x \in DOMAIN more PROVE more[x].freq \in DOMAIN pushed
  BY <1>4, <1>5, <1>8 DEF ListsOK
<1>9. ASSUME NEW g \in DOMAIN pushed
      PROVE  pushed[g] \in Seq(Keys) /\ pushed[g] # <<>> /\ Matches(pushed[g], KeysAt(more, g))
  BY <1>3, <1>5, <1>6, <1>7, <1>9 DEF ListsOK
<1> QED BY <1>5, <1>8, <1>9 DEF ListsOK, more, pushed

--------------------------------------------------------------------------------
(* The invariant.                                                          *)

LFUEntry == [value : Values, expiration : Nat, freq : Frequencies]

\* The limit the code enforces: one entry when it is told 0 (lfu.go:111).
Limit == IF MaxEntries = 0 THEN 1 ELSE MaxEntries
WithinLimit == Cardinality(DOMAIN entries) <= Limit

\* The tables, and the callbacks of the last step.  minFreq is never above a frequency
\* in use; when the cache is full it is one.
TablesOK ==
  /\ DOMAIN entries \subseteq Keys
  /\ IsFiniteSet(DOMAIN entries)
  /\ entries \in [DOMAIN entries -> LFUEntry]
  /\ DOMAIN freqList \subseteq Frequencies
  /\ ListsOK(entries, freqList)
  /\ minFreq \in Nat
  /\ \A f \in DOMAIN freqList : minFreq <= f
  /\ Full /\ DOMAIN entries # {} => minFreq \in DOMAIN freqList
  /\ WithinLimit
  /\ calls \subseteq CallOf(Keys, Values)

\* The other variables; a sweep's clock is never ahead of the clock.
RestOK ==
  /\ allocated \in BOOLEAN
  /\ now \in Nat /\ defaultTTL \in Nat /\ onEvicted \in BOOLEAN
  /\ answer \subseteq Values \cup {Nil}
  /\ stopped \in BOOLEAN
  /\ cleaner \in {"off", "waiting", "sweeping", "exited"}
  /\ sweptAt \in Nat /\ sweptAt <= now
  /\ crashed \in {"none", "Set", "Close"}

IInv == TablesOK /\ RestOK

LEMMA DeadlineType ==
  ASSUME RestOK, NEW d \in Durations
  PROVE  CappedDeadline(now, d, defaultTTL) \in Nat
BY LFUAssumption DEF RestOK, CappedDeadline, Never

LEMMA CallsType ==
  ASSUME IInv, NEW ks \in SUBSET DOMAIN entries, NEW event \in Events
  PROVE  Called(onEvicted, entries, ks, event) \subseteq CallOf(Keys, Values)
BY DEF IInv, TablesOK, RestOK, LFUEntry, Called, CallOf

LEMMA LimitBounds ==
  /\ MaxEntries \in Nat /\ Limit \in Nat /\ Limit >= 1 /\ Limit >= MaxEntries
  /\ MaxEntries > 0 => Limit = MaxEntries
  /\ MaxEntries = 0 => Limit = 1
BY LFUAssumption DEF Limit

\* A use takes the entry from one list to the next, and minFreq with it if it was the
\* last of its list.
LEMMA IncrementStep ==
  ASSUME IInv, NEW k \in DOMAIN entries,
         NEW entry \in [value : Values, expiration : Nat, freq : Nat],
         IncrementFrequency(k, entry), calls' = {}
  PROVE  TablesOK'
<1> DEFINE freq == entries[k].freq
           left == Unlink(freqList, freq, k)
           fewer == Drop(entries, {k})
           e == [entry EXCEPT !.freq = freq + 1]
<1>1. /\ freq < MaxFreq
      /\ freqList' = PushBack(left, freq + 1, k)
      /\ entries' = Put(entries, k, e)
      /\ minFreq' = IF freq \notin DOMAIN left /\ minFreq = freq THEN minFreq + 1 ELSE minFreq
  BY DEF IncrementFrequency
<1>2. /\ ListsOK(fewer, left)
      /\ DOMAIN freqList \ {freq} \subseteq DOMAIN left
      /\ DOMAIN left \subseteq DOMAIN freqList
  BY UnlinkOK DEF IInv, TablesOK
<1>3. freq \in Nat /\ freq + 1 \in Frequencies /\ freq \in DOMAIN freqList /\ MaxFreq \in Nat
  BY <1>1, LFUAssumption DEF IInv, TablesOK, LFUEntry, Frequencies, ListsOK
<1>4. e \in LFUEntry /\ e.freq = freq + 1
  BY <1>3 DEF LFUEntry
<1>5. k \in Keys /\ k \notin DOMAIN fewer
  BY DEF IInv, TablesOK, Drop
<1> HIDE DEF freq, left, e
<1>6. /\ ListsOK(Put(fewer, k, e), freqList')
      /\ DOMAIN freqList' = DOMAIN left \cup {freq + 1}
  BY <1>1, <1>2, <1>4, <1>5, PushBackOK
<1>7. Put(fewer, k, e) = entries'
  BY <1>1 DEF Put, Drop
<1>8. DOMAIN entries' = DOMAIN entries /\ entries' \in [DOMAIN entries' -> LFUEntry]
  BY <1>1, <1>4 DEF Put, IInv, TablesOK
<1>9. DOMAIN freqList' \subseteq Frequencies
  BY <1>2, <1>3, <1>6 DEF IInv, TablesOK
<1>10. minFreq' \in Nat /\ \A f \in DOMAIN freqList' : minFreq' <= f
  <2>1. /\ minFreq \in Nat /\ DOMAIN freqList \subseteq Nat
        /\ \A f \in DOMAIN freqList : minFreq <= f
    BY DEF IInv, TablesOK, Frequencies
  <2> QED BY <1>1, <1>2, <1>3, <1>6, <2>1
<1>11. Full' /\ DOMAIN entries' # {} => minFreq' \in DOMAIN freqList'
  <2> SUFFICES ASSUME Full' PROVE minFreq' \in DOMAIN freqList'
    OBVIOUS
  <2>1. minFreq \in DOMAIN freqList
    BY <1>8 DEF Full, IInv, TablesOK
  <2> QED BY <1>1, <1>2, <1>6, <2>1
<1>12. WithinLimit'
  BY <1>8 DEF WithinLimit, IInv, TablesOK, Limit
<1> QED
  BY <1>6, <1>7, <1>8, <1>9, <1>10, <1>11, <1>12 DEF IInv, TablesOK

\* After a removal there is room, so that a minFreq that no entry has does no harm.
LEMMA RemovalStep ==
  ASSUME IInv, NEW k \in DOMAIN entries, NEW event \in Events, RemoveEntry(k, event)
  PROVE  TablesOK'
<1> DEFINE freq == entries[k].freq
           left == Unlink(freqList, freq, k)
<1>1. /\ freqList' = left
      /\ minFreq' = IF freq \notin DOMAIN left /\ minFreq = freq THEN 1 ELSE minFreq
      /\ entries' = Drop(entries, {k})
      /\ calls' = Called(onEvicted, entries, {k}, event)
  BY DEF RemoveEntry
<1>2. /\ ListsOK(entries', left)
      /\ DOMAIN freqList \ {freq} \subseteq DOMAIN left
      /\ DOMAIN left \subseteq DOMAIN freqList
  BY <1>1, UnlinkOK DEF IInv, TablesOK
<1> HIDE DEF freq, left
<1>3. /\ DOMAIN entries' = DOMAIN entries \ {k}
      /\ entries' \in [DOMAIN entries' -> LFUEntry]
  BY <1>1 DEF Drop, IInv, TablesOK
<1>4. /\ IsFiniteSet(DOMAIN entries')
      /\ Cardinality(DOMAIN entries') = Cardinality(DOMAIN entries) - 1
      /\ Cardinality(DOMAIN entries) \in Nat /\ Cardinality(DOMAIN entries') \in Nat
  BY <1>3, FS_RemoveElement, FS_CardinalityType DEF IInv, TablesOK
<1>5. minFreq' \in Nat /\ \A f \in DOMAIN freqList' : minFreq' <= f
  <2>1. /\ minFreq \in Nat /\ DOMAIN freqList \subseteq Nat \ {0}
        /\ \A f \in DOMAIN freqList : minFreq <= f
    BY LFUAssumption DEF IInv, TablesOK, Frequencies
  <2> QED BY <1>1, <1>2, <2>1
<1>6. WithinLimit'
  BY <1>4, LimitBounds DEF WithinLimit, IInv, TablesOK, Limit
<1>7. ~(Full' /\ DOMAIN entries' # {})
  <2>1. CASE MaxEntries = 0
    <3>1. Cardinality(DOMAIN entries') = 0
      BY <1>4, <2>1, LimitBounds DEF WithinLimit, IInv, TablesOK
    <3> QED BY <1>4, <3>1, FS_EmptySet
  <2>2. CASE MaxEntries > 0
    BY <1>4, <2>2, LimitBounds DEF WithinLimit, IInv, TablesOK, Full
  <2> QED BY <2>1, <2>2, LimitBounds
<1>8. calls' \subseteq CallOf(Keys, Values)
  BY <1>1, CallsType
<1> QED
  BY <1>1, <1>2, <1>3, <1>4, <1>5, <1>6, <1>7, <1>8 DEF IInv, TablesOK

\* An insertion into tables that have room for one.
LEMMA InsertionStep ==
  ASSUME IInv, NEW es, NEW lists, DOMAIN es \subseteq Keys, IsFiniteSet(DOMAIN es),
         es \in [DOMAIN es -> LFUEntry], DOMAIN lists \subseteq Frequencies, ListsOK(es, lists),
         Cardinality(DOMAIN es) + 1 <= Limit,
         NEW k \in Keys, k \notin DOMAIN es, NEW v \in Values, NEW expiration \in Nat,
         InsertAfter(es, lists, k, v, expiration), calls' \subseteq CallOf(Keys, Values)
  PROVE  TablesOK'
<1> DEFINE e == [value |-> v, expiration |-> expiration, freq |-> 1]
<1>1. entries' = Put(es, k, e) /\ freqList' = PushBack(lists, 1, k) /\ minFreq' = 1
  BY DEF InsertAfter
<1>2. 1 \in Frequencies /\ Frequencies \subseteq Nat \ {0}
  BY LFUAssumption DEF Frequencies
<1>3. e \in LFUEntry /\ e.freq = 1
  BY <1>2 DEF LFUEntry
<1> HIDE DEF e
<1>4. ListsOK(entries', freqList') /\ DOMAIN freqList' = DOMAIN lists \cup {1}
  <2> DEFINE f == e.freq
  <2> HIDE DEF f
  <2>1. /\ ListsOK(Put(es, k, e), PushBack(lists, f, k))
        /\ DOMAIN PushBack(lists, f, k) = DOMAIN lists \cup {f}
    BY PushBackOK DEF f
  <2>2. f = 1
    BY <1>3 DEF f
  <2> QED BY <1>1, <2>1, <2>2
<1>5. DOMAIN entries' = DOMAIN es \cup {k} /\ entries' \in [DOMAIN entries' -> LFUEntry]
  BY <1>1, <1>3 DEF Put
<1>6. IsFiniteSet(DOMAIN entries') /\ Cardinality(DOMAIN entries') = Cardinality(DOMAIN es) + 1
  BY <1>5, FS_AddElement
<1>7. WithinLimit'
  BY <1>6 DEF WithinLimit, Limit
<1>8. \A f \in DOMAIN freqList' : minFreq' <= f
  BY <1>1, <1>2, <1>4
<1> QED BY <1>1, <1>2, <1>4, <1>5, <1>6, <1>7, <1>8 DEF TablesOK

\* evict finds no list only where there is nothing to evict.
LEMMA InsertStep ==
  ASSUME IInv, NEW k \in Keys, NEW v \in Values, NEW expiration \in Nat, Insert(k, v, expiration)
  PROVE  TablesOK'
<1>1. /\ k \notin DOMAIN entries
      /\ ~Full \/ minFreq \notin DOMAIN freqList
      /\ InsertAfter(entries, freqList, k, v, expiration) /\ calls' = {}
  BY DEF Insert
<1>2. Cardinality(DOMAIN entries) \in Nat
  BY FS_CardinalityType DEF IInv, TablesOK
<1>3. Cardinality(DOMAIN entries) + 1 <= Limit
  <2>1. CASE ~Full
    BY <1>2, <2>1, LimitBounds DEF Full
  <2>2. CASE DOMAIN entries = {}
    BY <2>2, FS_EmptySet, LimitBounds
  <2> QED BY <1>1, <2>1, <2>2 DEF IInv, TablesOK
<1> QED BY <1>1, <1>3, InsertionStep DEF IInv, TablesOK

\* The victim has minFreq, and leaves room.
LEMMA VictimFound ==
  ASSUME IInv, minFreq \in DOMAIN freqList
  PROVE  /\ Head(freqList[minFreq]) \in DOMAIN entries
         /\ entries[Head(freqList[minFreq])].freq = minFreq
<1>1. freqList[minFreq] \in Seq(Keys) /\ freqList[minFreq] # <<>>
  BY DEF IInv, TablesOK, ListsOK
<1>2. 1 \in 1..Len(freqList[minFreq]) /\ Head(freqList[minFreq]) = freqList[minFreq][1]
  BY <1>1
<1> QED BY <1>2, MemberAt DEF IInv, TablesOK

LEMMA EvictionStep ==
  ASSUME IInv, NEW k \in Keys, NEW v \in Values, NEW expiration \in Nat,
         EvictAndInsert(k, v, expiration)
  PROVE  TablesOK'
<1> DEFINE oldest == Head(freqList[minFreq])
           es == Drop(entries, {oldest})
           lists == Unlink(freqList, minFreq, oldest)
<1>1. /\ k \notin DOMAIN entries /\ minFreq \in DOMAIN freqList
      /\ InsertAfter(es, lists, k, v, expiration)
      /\ calls' = Called(onEvicted, entries, {oldest}, "Eviction")
  BY DEF EvictAndInsert
<1>2. oldest \in DOMAIN entries /\ entries[oldest].freq = minFreq
  BY <1>1, VictimFound
<1> HIDE DEF oldest
<1>3. ListsOK(es, lists) /\ DOMAIN lists \subseteq Frequencies
  BY <1>2, UnlinkOK DEF IInv, TablesOK
<1>4. DOMAIN es = DOMAIN entries \ {oldest} /\ es \in [DOMAIN es -> LFUEntry]
  BY DEF Drop, IInv, TablesOK
<1> HIDE DEF es, lists
<1>5. IsFiniteSet(DOMAIN es) /\ Cardinality(DOMAIN es) + 1 <= Limit
  <2>1. /\ IsFiniteSet(DOMAIN es) /\ Cardinality(DOMAIN es) = Cardinality(DOMAIN entries) - 1
        /\ Cardinality(DOMAIN entries) \in Nat
    BY <1>2, <1>4, FS_RemoveElement, FS_CardinalityType DEF IInv, TablesOK
  <2> QED BY <2>1, LimitBounds DEF WithinLimit, IInv, TablesOK
<1>6. calls' \subseteq CallOf(Keys, Values)
  <2>1. "Eviction" \in Events
    BY DEF Events
  <2> QED BY <1>1, <1>2, <2>1, CallsType
<1> QED BY <1>1, <1>3, <1>4, <1>5, <1>6, InsertionStep DEF IInv, TablesOK

LEMMA PurgeStep ==
  ASSUME IInv, PurgeAll
  PROVE  TablesOK'
<1>1. /\ entries' = <<>> /\ freqList' = <<>> /\ minFreq' = 0
      /\ calls' = Called(onEvicted, entries, DOMAIN entries, "Clear")
  BY DEF PurgeAll
<1>2. /\ DOMAIN entries' = {} /\ entries' \in [{} -> LFUEntry]
      /\ DOMAIN freqList' = {}
  BY <1>1
<1>3. IsFiniteSet(DOMAIN entries') /\ WithinLimit'
  BY <1>2, FS_EmptySet, LimitBounds DEF WithinLimit, Limit
<1>4. ListsOK(entries', freqList')
  BY <1>2 DEF ListsOK
<1>5. calls' \subseteq CallOf(Keys, Values)
  <2>1. "Clear" \in Events
    BY DEF Events
  <2> QED BY <1>1, <2>1, CallsType
<1> QED BY <1>1, <1>2, <1>3, <1>4, <1>5 DEF TablesOK

LEMMA TablesStay ==
  ASSUME IInv, UNCHANGED tables, calls' = calls \/ calls' = {}
  PROVE  TablesOK'
<1>1. TablesOK /\ entries' = entries /\ freqList' = freqList /\ minFreq' = minFreq
      /\ calls' \subseteq calls
  BY DEF tables, IInv
<1> QED BY <1>1 DEF TablesOK, Full, WithinLimit, Limit

LEMMA InitIInv == Init => IInv
<1> SUFFICES ASSUME Init PROVE IInv
  OBVIOUS
<1>1. DOMAIN entries = {} /\ entries \in [{} -> LFUEntry] /\ DOMAIN freqList = {}
  BY DEF Init
<1>2. IsFiniteSet(DOMAIN entries) /\ WithinLimit
  BY <1>1, FS_EmptySet, LimitBounds DEF WithinLimit
<1>3. ListsOK(entries, freqList)
  BY <1>1 DEF ListsOK
<1>4. minFreq \in Nat /\ calls \subseteq CallOf(Keys, Values)
  BY DEF Init
<1>5. TablesOK
  BY <1>1, <1>2, <1>3, <1>4 DEF TablesOK
<1>6. /\ now \in Nat /\ defaultTTL \in Nat /\ onEvicted \in BOOLEAN
      /\ sweptAt \in Nat /\ sweptAt <= now
  BY LFUAssumption DEF Init
<1>7. /\ allocated \in BOOLEAN /\ stopped \in BOOLEAN
      /\ answer \subseteq Values \cup {Nil}
      /\ cleaner \in {"off", "waiting", "sweeping", "exited"}
      /\ crashed \in {"none", "Set", "Close"}
  BY DEF Init
<1> QED BY <1>5, <1>6, <1>7 DEF IInv, RestOK

LEMMA SetStep ==
  ASSUME IInv, NEW k \in Keys, NEW v \in Values, NEW d \in Durations, Set(k, v, d)
  PROVE  IInv'
<1> DEFINE expiration == CappedDeadline(now, d, defaultTTL)
<1>1. expiration \in Nat
  BY DeadlineType DEF IInv
<1>2. \/ Update(k, v, expiration)
      \/ Insert(k, v, expiration)
      \/ EvictAndInsert(k, v, expiration)
  BY DEF Set
<1> HIDE DEF expiration
<1>3. CASE Update(k, v, expiration)
  <2>1. [value |-> v, expiration |-> expiration, freq |-> 0]
          \in [value : Values, expiration : Nat, freq : Nat]
    BY <1>1
  <2> QED BY <1>3, <2>1, IncrementStep DEF Update, IInv, RestOK, Set, config, goroutine
<1>4. TablesOK'
  BY <1>1, <1>2, <1>3, InsertStep, EvictionStep DEF IInv
<1>5. RestOK'
  BY DEF Set, config, goroutine, IInv, RestOK
<1> QED BY <1>4, <1>5 DEF IInv

LEMMA GetStep ==
  ASSUME IInv, NEW k \in Keys, Get(k)
  PROVE  IInv'
<1>1. entries \in [DOMAIN entries -> LFUEntry]
  BY DEF IInv, TablesOK
<1>2. ASSUME Miss(k) PROVE TablesOK' /\ answer' = {}
  BY <1>2, TablesStay DEF Miss
<1>3. ASSUME GetExpired(k) PROVE TablesOK' /\ answer' = {Nil}
  <2>1. k \in DOMAIN entries /\ RemoveEntry(k, "Expiration") /\ answer' = {Nil}
    BY <1>3 DEF GetExpired, Stale
  <2>2. "Expiration" \in Events
    BY DEF Events
  <2> QED BY <2>1, <2>2, RemovalStep
<1>4. ASSUME Hit(k) PROVE TablesOK' /\ answer' \subseteq Values
  <2>1. /\ k \in DOMAIN entries /\ IncrementFrequency(k, entries[k])
        /\ answer' = {entries[k].value} /\ calls' = {}
    BY <1>4 DEF Hit
  <2>2. entries[k] \in [value : Values, expiration : Nat, freq : Nat] /\ entries[k].value \in Values
    BY <1>1, <2>1 DEF LFUEntry, Frequencies
  <2> QED BY <2>1, <2>2, IncrementStep
<1>5. TablesOK' /\ answer' \subseteq Values \cup {Nil}
  BY <1>2, <1>3, <1>4 DEF Get
<1>6. RestOK'
  BY <1>5 DEF Get, config, goroutine, IInv, RestOK
<1> QED BY <1>5, <1>6 DEF IInv

LEMMA NextIInv == IInv /\ [Next]_vars => IInv'
<1> SUFFICES ASSUME IInv, [Next]_vars PROVE IInv'
  OBVIOUS
<1>0. RestOK
  BY DEF IInv
<1>1. CASE \E k \in Keys, v \in Values, d \in Durations : Set(k, v, d)
  BY <1>1, SetStep
<1>2. CASE \E k \in Keys : Get(k)
  BY <1>2, GetStep
<1>3. ASSUME NEW k \in Keys, Delete(k) PROVE IInv'
  <2>1. TablesOK'
    <3>1. CASE Miss(k)
      BY <3>1, TablesStay DEF Miss
    <3>2. CASE k \in DOMAIN entries /\ RemoveEntry(k, "Delete")
      BY <3>2, RemovalStep DEF Events
    <3> QED BY <1>3, <3>1, <3>2 DEF Delete
  <2>2. RestOK'
    BY <1>0, <1>3 DEF Delete, Miss, config, goroutine, RestOK
  <2> QED BY <2>1, <2>2 DEF IInv
<1>4. ASSUME NEW k \in Keys, CleanerRemoves(k) PROVE IInv'
  <2>1. TablesOK'
    BY <1>4, RemovalStep DEF CleanerRemoves, Stale, Events
  <2>2. RestOK'
    BY <1>0, <1>4 DEF CleanerRemoves, config, goroutine, RestOK
  <2> QED BY <2>1, <2>2 DEF IInv
<1>5. CASE Clear
  <2>1. TablesOK' /\ answer' = {} /\ allocated' = FALSE
    BY <1>5, PurgeStep DEF Clear, PurgeAll
  <2> QED BY <1>0, <1>5, <2>1 DEF Clear, config, goroutine, RestOK, IInv
<1>6. CASE Close
  <2>1. CASE ~stopped
    <3>1. TablesOK' /\ answer' = {} /\ allocated' = FALSE
      BY <1>6, <2>1, PurgeStep DEF Close, PurgeAll
    <3> QED BY <1>0, <1>6, <2>1, <3>1 DEF Close, config, goroutine, RestOK, IInv
  <2>2. CASE stopped
    BY <1>0, <1>6, <2>2, TablesStay DEF Close, config, goroutine, RestOK, IInv
  <2> QED BY <2>1, <2>2
<1>7. CASE StopCleanup \/ SetPanics
  BY <1>0, <1>7, TablesStay DEF StopCleanup, SetPanics, config, goroutine, RestOK, IInv
<1>8. CASE SetEvictedFunc
  BY <1>0, <1>8, TablesStay DEF SetEvictedFunc, goroutine, RestOK, IInv
<1>9. CASE \E ttl \in TTLs : SetDefaultTTL(ttl)
  BY <1>0, <1>9, TablesStay, LFUAssumption DEF SetDefaultTTL, goroutine, RestOK, IInv
<1>10. CASE CleanerLocks \/ CleanerUnlocks \/ CleanerExits
  BY <1>0, <1>10, TablesStay DEF CleanerLocks, CleanerUnlocks, CleanerExits, config, RestOK, IInv
<1>11. CASE Tick
  BY <1>0, <1>11, TablesStay DEF Tick, goroutine, RestOK, IInv
<1>12. CASE UNCHANGED vars
  BY <1>0, <1>12, TablesStay DEF vars, config, goroutine, RestOK, IInv
<1> QED
  BY <1>1, <1>2, <1>3, <1>4, <1>5, <1>6, <1>7, <1>8, <1>9, <1>10, <1>11, <1>12
     DEF Next, Halted

\* The invariant holds in every behaviour.
THEOREM Invariance == Spec => []IInv
BY InitIInv, NextIInv, PTL DEF Spec

\* The cache's state keeps its shape.
THEOREM TypeCorrectness == Spec => []TypeOK
<1>1. IInv => TypeOK
  BY DEF IInv, TablesOK, RestOK, TypeOK, ListsOK, LFUEntry
<1> QED BY <1>1, Invariance, PTL

\* Each entry is in the list of its own frequency, once, and in no other, and no list
\* is empty, after any mix of uses, insertions, evictions, removals and sweeps
\* (lfu.go:157-170, 172-203).
THEOREM ListsAndMapAgree == Spec => []ListsMatchEntries
<1>1. ASSUME IInv PROVE ListsMatchEntries
  <2>1. ListsOK(entries, freqList) /\ DOMAIN entries \subseteq Keys
    BY <1>1 DEF IInv, TablesOK
  <2> QED BY <2>1 DEF ListsOK, ListsMatchEntries, Matches, KeysAt
<1> QED BY <1>1, Invariance, PTL

\* Whenever evict looks at minFreq, it is the least frequency there is
\* (lfu.go:111-113, 160-162, 175, 199-201).
THEOREM MinFreqIsRight == Spec => []MinFreqIsLeast
<1>1. ASSUME IInv PROVE MinFreqIsLeast
  <2>1. ASSUME DOMAIN entries = {} PROVE entries = <<>>
    <3>1. entries = [x \in DOMAIN entries |-> entries[x]]
      BY <1>1 DEF IInv, TablesOK
    <3>2. [x \in {} |-> entries[x]] = <<>>
      OBVIOUS
    <3> QED BY <2>1, <3>1, <3>2
  <2> QED BY <1>1, <2>1 DEF IInv, TablesOK, MinFreqIsLeast
<1> QED BY <1>1, Invariance, PTL

\* The LFU never holds more entries than a maxEntries other than 0.
THEOREM NeverOverLimit == Spec => []LimitRespected
<1>1. IInv => LimitRespected
  BY LimitBounds DEF IInv, TablesOK, WithinLimit, LimitRespected
<1> QED BY <1>1, Invariance, PTL

--------------------------------------------------------------------------------
(* The refinement: the contract's map is the code's without frequencies.   *)

Stored(es) == [k \in DOMAIN es |-> [value |-> es[k].value, expiration |-> es[k].expiration]]

LEMMA StoredPut ==
  ASSUME NEW es, NEW k, NEW e
  PROVE  Stored(Put(es, k, e))
           = Put(Stored(es), k, [value |-> e.value, expiration |-> e.expiration])
BY DEF Stored, Put

LEMMA StoredDrop ==
  ASSUME NEW es, NEW ks
  PROVE  Stored(Drop(es, ks)) = Drop(Stored(es), ks)
BY DEF Stored, Drop

LEMMA StoredCalled ==
  ASSUME NEW es, NEW ks \in SUBSET DOMAIN es, NEW h, NEW event
  PROVE  Called(h, Stored(es), ks, event) = Called(h, es, ks, event)
BY DEF Stored, Called

\* The contract's copies of the shared definitions are those of LFUCache.
LEMMA SharedDefinitions ==
  /\ \A m, k, e : Contract!Put(m, k, e) = Put(m, k, e)
  /\ \A d : Contract!Deadline(d) = CappedDeadline(now, d, defaultTTL)
  /\ \A k : Contract!Stale(k) <=> Stale(k, now)
  /\ UNCHANGED Contract!config <=> UNCHANGED config
<1>1. \A d : Contract!Deadline(d) = CappedDeadline(now, d, defaultTTL)
  BY DEF Contract!Deadline, CappedDeadline, Contract!Never, Never
<1>2. \A k : Contract!Stale(k) <=> Stale(k, now)
  BY DEF Contract!Stale, Stale, Contract!IsExpired, IsExpired, Contract!Never, Never
<1>3. \A m, k, e : Contract!Put(m, k, e) = Put(m, k, e)
  BY DEF Contract!Put, Put
<1>4. UNCHANGED Contract!config <=> UNCHANGED config
  BY DEF Contract!config, config
<1> QED
  BY <1>1, <1>2, <1>3, <1>4

LEMMA PurgeMeans ==
  ASSUME NEW map, NEW ks, NEW event
  PROVE  Contract!Purge(map, ks, event)
           <=> Stored(entries') = Drop(map, ks) /\ calls' = Called(onEvicted, map, ks, event)
BY DEF Contract!Purge, Contract!Drop, Drop, Contract!Called, Called, Stored

\* Removing no entry changes nothing and calls nobody.
LEMMA NothingPurged ==
  ASSUME NEW map, map = [x \in DOMAIN map |-> map[x]], Stored(entries') = map, calls' = {},
         NEW event
  PROVE  Contract!Purge(map, {}, event)
<1>1. Drop(map, {}) = map
  BY DEF Drop
<1>2. Called(onEvicted, map, {}, event) = {}
  BY DEF Called
<1> QED BY <1>1, <1>2, PurgeMeans

\* Both say alike whether a new key costs an entry, when there is a limit.
LEMMA FullMeans ==
  ASSUME IInv, MaxEntries # 0
  PROVE  /\ ~Full => ~Contract!Full
         /\ DOMAIN entries = {} => ~Contract!Full
         /\ Full /\ DOMAIN entries # {} => Contract!Full
<1>1. Contract!Full <=> Cardinality(DOMAIN entries) >= MaxEntries
  <2>1. Contract!Full <=> MaxEntries # 0 /\ Cardinality(DOMAIN Stored(entries)) >= MaxEntries
    BY DEF Contract!Full, Contract!Cardinality, Cardinality, Stored
  <2>2. DOMAIN Stored(entries) = DOMAIN entries
    BY DEF Stored
  <2> QED BY <2>1, <2>2
<1>2. Cardinality(DOMAIN entries) \in Nat /\ IsFiniteSet(DOMAIN entries)
  BY FS_CardinalityType DEF IInv, TablesOK
<1>3. Cardinality(DOMAIN entries) = 0 <=> DOMAIN entries = {}
  BY <1>2, FS_EmptySet
<1> QED BY <1>1, <1>2, <1>3, LimitBounds DEF Full

LEMMA SetRefines ==
  ASSUME IInv, MaxEntries # 0,
         NEW k \in Keys, NEW v \in Values, NEW d \in Durations, Set(k, v, d)
  PROVE  Contract!Set(k, v, d)
<1> DEFINE deadline == CappedDeadline(now, d, defaultTTL)
           entry == [value |-> v, expiration |-> deadline]
           updated == Put(Stored(entries), k, entry)
<1>1. Update(k, v, deadline) \/ Insert(k, v, deadline) \/ EvictAndInsert(k, v, deadline)
  BY DEF Set
<1>2. updated = [x \in DOMAIN updated |-> updated[x]] /\ DOMAIN updated = DOMAIN entries \cup {k}
  BY DEF Put, Stored
<1>3. DOMAIN Stored(entries) = DOMAIN entries
  BY DEF Stored
<1> HIDE DEF deadline
<1>4. \/ /\ k \in DOMAIN entries \/ ~Contract!Full
         /\ Contract!Purge(updated, {}, "Eviction")
      \/ /\ k \notin DOMAIN entries /\ Contract!Full
         /\ \E victim \in DOMAIN updated : Contract!Purge(updated, {victim}, "Eviction")
  <2>1. CASE Update(k, v, deadline)
    <3> DEFINE e == [[value |-> v, expiration |-> deadline, freq |-> 0]
                        EXCEPT !.freq = entries[k].freq + 1]
    <3>1. k \in DOMAIN entries /\ calls' = {} /\ entries' = Put(entries, k, e)
      BY <2>1 DEF Update, IncrementFrequency
    <3>2. e.value = v /\ e.expiration = deadline
      OBVIOUS
    <3> HIDE DEF e
    <3>3. Stored(entries') = updated
      BY <3>1, <3>2, StoredPut
    <3> HIDE DEF updated
    <3> QED BY <1>2, <3>1, <3>3, NothingPurged
  <2>2. CASE Insert(k, v, deadline)
    <3> DEFINE e == [value |-> v, expiration |-> deadline, freq |-> 1]
    <3>1. /\ k \notin DOMAIN entries
          /\ ~Full \/ minFreq \notin DOMAIN freqList
          /\ calls' = {} /\ entries' = Put(entries, k, e)
      BY <2>2 DEF Insert, InsertAfter
    <3>2. e.value = v /\ e.expiration = deadline
      OBVIOUS
    <3> HIDE DEF e
    <3>3. Stored(entries') = updated
      BY <3>1, <3>2, StoredPut
    <3>4. ~Full \/ DOMAIN entries = {}
      BY <2>2 DEF Insert, IInv, TablesOK
    <3>5. ~Contract!Full
      BY <3>4, FullMeans
    <3> HIDE DEF updated
    <3> QED BY <1>2, <3>1, <3>3, <3>5, NothingPurged
  <2>3. CASE EvictAndInsert(k, v, deadline)
    <3> DEFINE e == [value |-> v, expiration |-> deadline, freq |-> 1]
               oldest == Head(freqList[minFreq])
    <3>1. /\ k \notin DOMAIN entries /\ Full /\ minFreq \in DOMAIN freqList
          /\ calls' = Called(onEvicted, entries, {oldest}, "Eviction")
          /\ entries' = Put(Drop(entries, {oldest}), k, e)
      BY <2>3 DEF EvictAndInsert, InsertAfter
    <3>2. e.value = v /\ e.expiration = deadline
      OBVIOUS
    <3>3. oldest \in DOMAIN entries
      BY <3>1, VictimFound
    <3> HIDE DEF e, oldest
    <3>4. oldest # k /\ Contract!Full
      BY <3>1, <3>3, FullMeans
    <3>5. Stored(entries') = Put(Drop(Stored(entries), {oldest}), k, entry)
      BY <3>1, <3>2, StoredPut, StoredDrop
    <3>6. Put(Drop(Stored(entries), {oldest}), k, entry) = Drop(updated, {oldest})
      BY <3>4 DEF Put, Drop
    <3>7. Called(onEvicted, entries, {oldest}, "Eviction")
            = Called(onEvicted, updated, {oldest}, "Eviction")
      <4>1. Called(onEvicted, entries, {oldest}, "Eviction")
              = Called(onEvicted, Stored(entries), {oldest}, "Eviction")
        BY <3>3, StoredCalled
      <4>2. updated[oldest] = Stored(entries)[oldest]
        BY <1>3, <3>3, <3>4 DEF Put
      <4> QED BY <4>1, <4>2 DEF Called
    <3>8. oldest \in DOMAIN updated
      BY <1>2, <3>3
    <3> HIDE DEF updated, entry
    <3>9. Contract!Purge(updated, {oldest}, "Eviction")
      BY <3>1, <3>5, <3>6, <3>7, PurgeMeans
    <3> QED BY <3>1, <3>4, <3>8, <3>9
  <2> QED BY <1>1, <2>1, <2>2, <2>3
<1>5. updated = Contract!Put(Stored(entries), k, [value |-> v, expiration |-> deadline])
  BY SharedDefinitions
<1>6. deadline = Contract!Deadline(d)
  BY SharedDefinitions DEF deadline
<1>7. answer' = {} /\ UNCHANGED Contract!config
  BY SharedDefinitions DEF Set
<1> HIDE DEF updated
<1> QED BY <1>3, <1>4, <1>5, <1>6, <1>7 DEF Contract!Set, Stored

LEMMA StoredIsFunction ==
  Stored(entries) = [x \in DOMAIN Stored(entries) |-> Stored(entries)[x]]
BY DEF Stored

\* A removal, in the contract's words.
LEMMA RemovalMeans ==
  ASSUME NEW k \in DOMAIN entries, NEW event, RemoveEntry(k, event)
  PROVE  Contract!Purge(Stored(entries), {k}, event)
<1>1. entries' = Drop(entries, {k}) /\ calls' = Called(onEvicted, entries, {k}, event)
  BY DEF RemoveEntry
<1>2. Stored(entries') = Drop(Stored(entries), {k})
  BY <1>1, StoredDrop
<1>3. calls' = Called(onEvicted, Stored(entries), {k}, event)
  BY <1>1, StoredCalled
<1> QED BY <1>2, <1>3, PurgeMeans

LEMMA GetRefines ==
  ASSUME IInv, NEW k \in Keys, Get(k)
  PROVE  Contract!Get(k)
<1>1. UNCHANGED Contract!config
  BY SharedDefinitions DEF Get
<1>2. /\ DOMAIN Stored(entries) = DOMAIN entries
      /\ k \in DOMAIN entries => Stored(entries)[k].value = entries[k].value
  BY DEF Stored
<1>3. {k} \in SUBSET {k} /\ {} \in SUBSET {k}
  OBVIOUS
<1>4. \/ /\ Stale(k, now)
         /\ \E gone \in SUBSET {k} : Contract!Purge(Stored(entries), gone, "Expiration")
         /\ answer' = {Nil}
      \/ /\ k \in DOMAIN entries /\ ~Stale(k, now)
         /\ Contract!Purge(Stored(entries), {}, "Expiration")
         /\ answer' = {Stored(entries)[k].value}
      \/ /\ k \notin DOMAIN entries
         /\ Contract!Purge(Stored(entries), {}, "Expiration")
         /\ answer' = {}
  <2>1. CASE Miss(k)
    <3>1. k \notin DOMAIN entries /\ entries' = entries /\ calls' = {} /\ answer' = {}
      BY <2>1 DEF Miss, tables
    <3>2. Contract!Purge(Stored(entries), {}, "Expiration")
      BY <3>1, NothingPurged, StoredIsFunction
    <3> QED BY <3>1, <3>2
  <2>2. CASE GetExpired(k)
    <3>1. Stale(k, now) /\ RemoveEntry(k, "Expiration") /\ answer' = {Nil}
      BY <2>2 DEF GetExpired
    <3>2. Contract!Purge(Stored(entries), {k}, "Expiration")
      BY <3>1, RemovalMeans DEF Stale
    <3> QED BY <1>3, <3>1, <3>2
  <2>3. CASE Hit(k)
    <3> DEFINE e == [entries[k] EXCEPT !.freq = entries[k].freq + 1]
    <3>1. /\ k \in DOMAIN entries /\ ~Stale(k, now)
          /\ entries' = Put(entries, k, e)
          /\ answer' = {entries[k].value} /\ calls' = {}
      BY <2>3 DEF Hit, IncrementFrequency
    <3>2. entries[k] \in LFUEntry
      BY <3>1 DEF IInv, TablesOK
    <3>3. e.value = entries[k].value /\ e.expiration = entries[k].expiration
      BY <3>2 DEF LFUEntry
    <3> HIDE DEF e
    <3>4. Stored(entries') = Stored(entries)
      BY <3>1, <3>3 DEF Stored, Put
    <3>5. Contract!Purge(Stored(entries), {}, "Expiration")
      BY <3>1, <3>4, NothingPurged, StoredIsFunction
    <3> QED BY <1>2, <3>1, <3>5
  <2> QED BY <2>1, <2>2, <2>3 DEF Get
<1> QED BY <1>1, <1>2, <1>4, SharedDefinitions DEF Contract!Get, Stored

LEMMA NextRefines == MaxEntries # 0 /\ IInv /\ [Next]_vars => [Contract!Next]_(Contract!vars)
<1> SUFFICES ASSUME MaxEntries # 0, IInv, [Next]_vars PROVE [Contract!Next]_(Contract!vars)
  OBVIOUS
<1>0. DOMAIN Stored(entries) = DOMAIN entries
  BY DEF Stored
<1>1. ASSUME NEW k \in Keys, NEW v \in Values, NEW d \in Durations, Set(k, v, d)
      PROVE  Contract!Next
  BY <1>1, SetRefines DEF Contract!Next
<1>2. ASSUME NEW k \in Keys, Get(k) PROVE Contract!Next
  BY <1>2, GetRefines DEF Contract!Next
<1>3. ASSUME NEW k \in Keys, Delete(k) PROVE Contract!Next
  <2>1. Contract!Purge(Stored(entries), {k} \cap DOMAIN entries, "Delete") /\ answer' = {}
    <3>1. CASE Miss(k)
      <4>1. {k} \cap DOMAIN entries = {} /\ entries' = entries /\ calls' = {} /\ answer' = {}
        BY <3>1 DEF Miss, tables
      <4> QED BY <4>1, NothingPurged, StoredIsFunction
    <3>2. CASE k \in DOMAIN entries /\ RemoveEntry(k, "Delete") /\ answer' = {}
      <4>1. {k} \cap DOMAIN entries = {k}
        BY <3>2
      <4> QED BY <3>2, <4>1, RemovalMeans
    <3> QED BY <1>3, <3>1, <3>2 DEF Delete
  <2>2. UNCHANGED Contract!config
    BY <1>3, SharedDefinitions DEF Delete
  <2>3. answer' = {}
    BY <2>1
  <2>4. Contract!Delete(k)
    BY <1>0, <2>1, <2>2, <2>3 DEF Contract!Delete, Contract!Remove, Stored
  <2> QED BY <2>4 DEF Contract!Next
<1>4. ASSUME NEW k \in Keys, CleanerRemoves(k) PROVE Contract!Next
  <2>1. /\ Stale(k, sweptAt) /\ RemoveEntry(k, "Expiration") /\ answer' = {}
        /\ UNCHANGED config
    BY <1>4 DEF CleanerRemoves
  <2>2. Contract!Purge(Stored(entries), {k}, "Expiration")
    BY <2>1, RemovalMeans DEF Stale
  <2>3. Stale(k, now)
    <3>1. sweptAt <= now /\ sweptAt \in Nat /\ now \in Nat
      BY DEF IInv, RestOK
    <3>2. entries[k].expiration \in Nat
      BY <2>1 DEF Stale, IInv, TablesOK, LFUEntry
    <3> QED BY <2>1, <3>1, <3>2 DEF Stale, IsExpired, Never
  <2>4. answer' = {}
    BY <2>1
  <2>5. Contract!Expire(k)
    BY <2>1, <2>2, <2>3, <2>4, SharedDefinitions DEF Contract!Expire, Contract!Remove, Stored
  <2> QED BY <2>5 DEF Contract!Next
<1>5. ASSUME PurgeAll, UNCHANGED config PROVE Contract!Next
  <2>1. /\ entries' = <<>> /\ answer' = {}
        /\ calls' = Called(onEvicted, entries, DOMAIN entries, "Clear")
    BY <1>5 DEF PurgeAll
  <2>2. Stored(entries') = Drop(Stored(entries), DOMAIN entries)
    <3>1. Drop(Stored(entries), DOMAIN entries) = <<>> /\ Stored(<<>>) = <<>>
      BY <1>0 DEF Drop, Stored
    <3> QED BY <2>1, <3>1
  <2>3. calls' = Called(onEvicted, Stored(entries), DOMAIN entries, "Clear")
    BY <2>1, StoredCalled
  <2>4. Contract!Purge(Stored(entries), DOMAIN entries, "Clear")
    BY <2>2, <2>3, PurgeMeans
  <2>5. answer' = {} /\ UNCHANGED Contract!config
    BY <1>5, <2>1, SharedDefinitions
  <2>6. Contract!Clear
    BY <1>0, <2>4, <2>5 DEF Contract!Clear, Contract!Remove, Stored
  <2> QED BY <2>6 DEF Contract!Next
<1>6. ASSUME Clear PROVE Contract!Next
  BY <1>5, <1>6 DEF Clear
<1>7. ASSUME Close PROVE [Contract!Next]_(Contract!vars)
  <2>1. CASE PurgeAll
    BY <1>5, <1>7, <2>1 DEF Close
  <2>2. CASE UNCHANGED <<tables, allocated, calls, answer, stopped>>
    BY <1>7, <2>2 DEF Close, tables, config, Contract!vars
  <2> QED BY <1>7, <2>1, <2>2 DEF Close
<1>8. ASSUME SetEvictedFunc PROVE Contract!Next
  BY <1>8 DEF SetEvictedFunc, tables, Contract!SetEvictedFunc, Contract!Next
<1>9. ASSUME NEW ttl \in TTLs, SetDefaultTTL(ttl) PROVE Contract!Next
  BY <1>9 DEF SetDefaultTTL, tables, Contract!SetDefaultTTL, Contract!Next
<1>10. ASSUME Tick PROVE Contract!Next
  BY <1>10 DEF Tick, tables, Contract!Tick, Contract!Next
<1>11. ASSUME \/ SetPanics \/ StopCleanup \/ CleanerLocks \/ CleanerUnlocks \/ CleanerExits
              \/ UNCHANGED vars
       PROVE  UNCHANGED Contract!vars
  BY <1>11 DEF SetPanics, StopCleanup, CleanerLocks, CleanerUnlocks, CleanerExits,
     vars, tables, config, Contract!vars
<1> QED
  BY <1>1, <1>2, <1>3, <1>4, <1>6, <1>7, <1>8, <1>9, <1>10, <1>11 DEF Next, Halted

\* lfu.Cache with a limit keeps the contract of cache.ICache, the nil it finds in place of
\* an expired entry aside: a full cache loses exactly one entry to a new key, no stale
\* value is returned, and every entry that leaves is told to the callback once.
THEOREM Refinement == MaxEntries # 0 => (Spec => ImplementsContract)
<1> SUFFICES ASSUME MaxEntries # 0 PROVE Spec => ImplementsContract
  OBVIOUS
<1>1. Init => Contract!Init
  <2> SUFFICES ASSUME Init PROVE Contract!Init
    OBVIOUS
  <2>1. Stored(entries) = <<>>
    BY DEF Init, Stored
  <2> QED BY <2>1 DEF Init, Contract!Init, Stored
<1>2. IInv /\ [Next]_vars => [Contract!Next]_(Contract!vars)
  BY NextRefines
<1> QED BY <1>1, <1>2, Invariance, PTL DEF Spec, ImplementsContract, Contract!Spec

--------------------------------------------------------------------------------
(* The policy: LFUPolicy counts the uses and their order beside the cache. *)

\* The keys of a list come in the order of their last uses, the oldest in front.
Sorted(list, order) ==
  \A i, j \in 1..Len(list) : i < j => <<list[j], list[i]>> \in order

ListsSorted(lists, order) == \A f \in DOMAIN lists : Sorted(lists[f], order)

\* The lists are sorted, and an entry's frequency is the number of its uses.
PInv ==
  /\ IInv
  /\ ListsSorted(freqList, usedAfter)
  /\ uses \in [Keys -> Nat]
  /\ \A k \in DOMAIN entries : uses[k] = entries[k].freq

LEMMA UnlinkSorted ==
  ASSUME NEW es, NEW lists, ListsOK(es, lists), NEW order, ListsSorted(lists, order),
         NEW k \in DOMAIN es, NEW f, f = es[k].freq
  PROVE  ListsSorted(Unlink(lists, f, k), order)
<1> DEFINE s == lists[f]
           node == CHOOSE i \in 1..Len(s) : s[i] = k
           r == RemoveAt(s, node)
<1>1. f \in DOMAIN lists /\ s \in Seq(Keys) /\ Matches(s, KeysAt(es, f)) /\ Sorted(s, order)
  BY DEF ListsOK, ListsSorted
<1>2. node \in 1..Len(s)
  <2>1. \E i \in 1..Len(s) : s[i] = k
    BY <1>1 DEF Matches, KeysAt
  <2> QED BY <2>1
<1>3. \A g \in DOMAIN Unlink(lists, f, k) :
        Unlink(lists, f, k)[g] = r \/ (g \in DOMAIN lists /\ Unlink(lists, f, k)[g] = lists[g])
  BY <1>1 DEF Unlink, Put, Drop
<1> HIDE DEF s, node
<1>4. /\ Len(r) = Len(s) - 1 /\ Len(s) \in Nat
      /\ \A j \in 1..(Len(s) - 1) : r[j] = IF j < node THEN s[j] ELSE s[j + 1]
  <2>1. r = Omit(s, node)
    BY DEF RemoveAt, Omit
  <2> QED BY <1>1, <1>2, <2>1, OmitProperties
<1> HIDE DEF r
<1>5. ASSUME NEW m \in 1..Len(r), NEW n \in 1..Len(r), m < n
      PROVE  <<r[n], r[m]>> \in order
  <2>1. PICK m1 \in 1..Len(s) : r[m] = s[m1] /\ (m1 = IF m < node THEN m ELSE m + 1)
    BY <1>2, <1>4
  <2>2. PICK n1 \in 1..Len(s) : r[n] = s[n1] /\ (n1 = IF n < node THEN n ELSE n + 1)
    BY <1>2, <1>4
  <2>3. m1 < n1
    BY <1>2, <1>5, <2>1, <2>2
  <2> QED BY <1>1, <2>1, <2>2, <2>3 DEF Sorted
<1>6. Sorted(r, order)
  BY <1>5 DEF Sorted
<1> QED BY <1>3, <1>6 DEF ListsSorted

\* The key that goes to the back is the one just used.
LEMMA PushBackSorted ==
  ASSUME NEW es, NEW lists, ListsOK(es, lists), DOMAIN es \subseteq Keys,
         ListsSorted(lists, usedAfter),
         NEW k \in Keys, k \notin DOMAIN es, Use(k), NEW f
  PROVE  ListsSorted(PushBack(lists, f, k), usedAfter')
<1> DEFINE s == ListAt(lists, f)
           longer == Append(s, k)
<1>1. usedAfter' = {p \in usedAfter : k \notin {p[1], p[2]}} \cup {k} \X (Keys \ {k})
  BY DEF Use
<1>2. ASSUME NEW g \in DOMAIN lists PROVE Sorted(lists[g], usedAfter')
  <2>1. ASSUME NEW i \in 1..Len(lists[g]) PROVE lists[g][i] # k
    BY MemberAt
  <2>2. Sorted(lists[g], usedAfter)
    BY DEF ListsSorted
  <2> QED BY <1>1, <2>1, <2>2 DEF Sorted
<1>3. /\ s \in Seq(Keys) /\ Sorted(s, usedAfter')
      /\ \A i \in 1..Len(s) : s[i] \in Keys \ {k}
  <2>1. CASE f \in DOMAIN lists
    <3>1. s = lists[f]
      BY <2>1 DEF ListAt
    <3>2. \A i \in 1..Len(s) : s[i] \in DOMAIN es
      BY <2>1, <3>1, MemberAt
    <3> QED BY <1>2, <2>1, <3>1, <3>2 DEF ListsOK
  <2>2. CASE f \notin DOMAIN lists
    <3>1. s = <<>> /\ Len(s) = 0
      BY <2>2 DEF ListAt
    <3> QED BY <3>1 DEF Sorted
  <2> QED BY <2>1, <2>2
<1>4. \A g \in DOMAIN PushBack(lists, f, k) :
        PushBack(lists, f, k)[g] = longer \/ (g \in DOMAIN lists /\ PushBack(lists, f, k)[g] = lists[g])
  BY DEF PushBack, Put
<1> HIDE DEF s
<1>5. /\ Len(longer) = Len(s) + 1 /\ Len(s) \in Nat /\ longer[Len(s) + 1] = k
      /\ \A i \in 1..Len(s) : longer[i] = s[i]
  BY <1>3
<1> HIDE DEF longer
<1>6. ASSUME NEW i \in 1..Len(longer), NEW j \in 1..Len(longer), i < j
      PROVE  <<longer[j], longer[i]>> \in usedAfter'
  <2>1. i \in 1..Len(s) /\ longer[i] = s[i] /\ (j \in 1..Len(s) \/ j = Len(s) + 1)
    BY <1>5, <1>6
  <2>2. CASE j \in 1..Len(s)
    BY <1>3, <1>5, <1>6, <2>1, <2>2 DEF Sorted
  <2>3. CASE j = Len(s) + 1
    <3>1. longer[j] = k /\ longer[i] \in Keys \ {k}
      BY <1>3, <1>5, <2>1, <2>3
    <3> QED BY <1>1, <3>1
  <2> QED BY <2>1, <2>2, <2>3
<1>7. Sorted(longer, usedAfter')
  BY <1>6 DEF Sorted
<1> QED BY <1>2, <1>4, <1>7 DEF ListsSorted

\* What PInv says of the lists, without IInv.
PolicyOK ==
  /\ ListsSorted(freqList, usedAfter)
  /\ uses \in [Keys -> Nat]
  /\ \A k \in DOMAIN entries : uses[k] = entries[k].freq

LEMMA IncrementKeepsPolicy ==
  ASSUME PInv, NEW k \in DOMAIN entries, NEW entry \in [value : Values, expiration : Nat, freq : Nat],
         IncrementFrequency(k, entry), Use(k)
  PROVE  PolicyOK'
<1> DEFINE freq == entries[k].freq
           left == Unlink(freqList, freq, k)
           fewer == Drop(entries, {k})
           e == [entry EXCEPT !.freq = freq + 1]
<1>1. freqList' = PushBack(left, freq + 1, k) /\ entries' = Put(entries, k, e)
  BY DEF IncrementFrequency
<1>2. ListsOK(fewer, left) /\ ListsSorted(left, usedAfter)
  BY UnlinkOK, UnlinkSorted DEF PInv, IInv, TablesOK
<1>3. k \in Keys /\ k \notin DOMAIN fewer /\ DOMAIN fewer \subseteq Keys
  BY DEF PInv, IInv, TablesOK, Drop
<1>4. e.freq = freq + 1
  OBVIOUS
<1> HIDE DEF left, fewer, e
<1>5. ListsSorted(freqList', usedAfter')
  BY <1>1, <1>2, <1>3, PushBackSorted
<1>6. uses' = [uses EXCEPT ![k] = uses[k] + 1]
  BY DEF Use, PInv
<1>7. ASSUME NEW x \in DOMAIN entries' PROVE uses'[x] = entries'[x].freq
  <2>1. x \in DOMAIN entries /\ x \in Keys
    BY <1>1, <1>7 DEF Put, PInv, IInv, TablesOK
  <2> QED BY <1>1, <1>3, <1>4, <1>6, <2>1 DEF Put, PInv
<1> QED BY <1>3, <1>5, <1>6, <1>7 DEF PolicyOK, PInv

LEMMA InsertionKeepsPolicy ==
  ASSUME PInv, NEW es, NEW lists, ListsOK(es, lists), ListsSorted(lists, usedAfter),
         DOMAIN es \subseteq DOMAIN entries, \A x \in DOMAIN es : es[x] = entries[x],
         NEW k \in Keys, k \notin DOMAIN entries, NEW v, NEW expiration,
         InsertAfter(es, lists, k, v, expiration), Use(k)
  PROVE  PolicyOK'
<1> DEFINE e == [value |-> v, expiration |-> expiration, freq |-> 1]
<1>1. entries' = Put(es, k, e) /\ freqList' = PushBack(lists, 1, k) /\ e.freq = 1
  BY DEF InsertAfter
<1> HIDE DEF e
<1>2. ListsSorted(freqList', usedAfter')
  <2> DEFINE f == 1
  <2>1. DOMAIN es \subseteq Keys
    BY DEF PInv, IInv, TablesOK
  <2>2. freqList' = PushBack(lists, f, k)
    BY <1>1
  <2> HIDE DEF f
  <2> QED BY <2>1, <2>2, PushBackSorted
<1>3. uses' = [uses EXCEPT ![k] = 1]
  BY DEF Use, PInv
<1>4. ASSUME NEW x \in DOMAIN entries' PROVE uses'[x] = entries'[x].freq
  <2>1. CASE x = k
    BY <1>1, <1>3, <2>1 DEF Put, PInv
  <2>2. CASE x # k
    <3>1. x \in DOMAIN es /\ entries'[x] = entries[x] /\ x \in DOMAIN entries /\ x \in Keys
      BY <1>1, <1>4, <2>2 DEF Put, PInv, IInv, TablesOK
    <3> QED BY <1>3, <2>2, <3>1 DEF PInv
  <2> QED BY <2>1, <2>2
<1> QED BY <1>2, <1>3, <1>4 DEF PolicyOK, PInv

LEMMA RemovalKeepsPolicy ==
  ASSUME PInv, NEW k \in DOMAIN entries, NEW event, RemoveEntry(k, event),
         UNCHANGED <<uses, usedAfter>>
  PROVE  PolicyOK'
<1>1. entries' = Drop(entries, {k}) /\ freqList' = Unlink(freqList, entries[k].freq, k)
  BY DEF RemoveEntry
<1>2. ListsSorted(freqList', usedAfter')
  BY <1>1, UnlinkSorted DEF PInv, IInv, TablesOK
<1> QED BY <1>1, <1>2 DEF PolicyOK, PInv, Drop

LEMMA PurgeKeepsPolicy ==
  ASSUME PInv, PurgeAll, UNCHANGED <<uses, usedAfter>>
  PROVE  PolicyOK'
<1>1. DOMAIN entries' = {} /\ DOMAIN freqList' = {}
  BY DEF PurgeAll
<1> QED BY <1>1 DEF PolicyOK, PInv, ListsSorted

LEMMA QuietKeepsPolicy ==
  ASSUME PInv, UNCHANGED tables, UNCHANGED <<uses, usedAfter>>
  PROVE  PolicyOK'
BY DEF PolicyOK, PInv, tables

LEMMA SetKeepsPolicy ==
  ASSUME PInv, NEW k \in Keys, NEW v \in Values, NEW d \in Durations, Set(k, v, d), Use(k)
  PROVE  PolicyOK'
<1> DEFINE expiration == CappedDeadline(now, d, defaultTTL)
<1>1. expiration \in Nat
  BY DeadlineType DEF PInv, IInv
<1>2. \/ Update(k, v, expiration)
      \/ Insert(k, v, expiration)
      \/ EvictAndInsert(k, v, expiration)
  BY DEF Set
<1> HIDE DEF expiration
<1>3. CASE Update(k, v, expiration)
  <2>1. [value |-> v, expiration |-> expiration, freq |-> 0]
          \in [value : Values, expiration : Nat, freq : Nat]
    BY <1>1
  <2> QED BY <1>3, <2>1, IncrementKeepsPolicy DEF Update
<1>4. CASE Insert(k, v, expiration)
  BY <1>4, InsertionKeepsPolicy DEF Insert, PInv, IInv, TablesOK
<1>5. CASE EvictAndInsert(k, v, expiration)
  <2> DEFINE oldest == Head(freqList[minFreq])
             es == Drop(entries, {oldest})
             lists == Unlink(freqList, minFreq, oldest)
  <2>1. /\ k \notin DOMAIN entries /\ minFreq \in DOMAIN freqList
        /\ InsertAfter(es, lists, k, v, expiration)
    BY <1>5 DEF EvictAndInsert
  <2>2. oldest \in DOMAIN entries /\ entries[oldest].freq = minFreq
    BY <2>1, VictimFound DEF PInv
  <2> HIDE DEF oldest
  <2>3. ListsOK(es, lists) /\ ListsSorted(lists, usedAfter)
    BY <2>2, UnlinkOK, UnlinkSorted DEF PInv, IInv, TablesOK
  <2>4. DOMAIN es \subseteq DOMAIN entries /\ \A x \in DOMAIN es : es[x] = entries[x]
    BY DEF Drop
  <2> HIDE DEF es, lists
  <2> QED BY <2>1, <2>3, <2>4, InsertionKeepsPolicy
<1> QED BY <1>2, <1>3, <1>4, <1>5

\* A Get uses the key if it finds it.
LEMMA GetKeepsPolicy ==
  ASSUME PInv, NEW k \in Keys, Get(k),
         IF answer' \subseteq {Nil} THEN UNCHANGED <<uses, usedAfter>> ELSE Use(k)
  PROVE  PolicyOK'
<1>1. CASE Miss(k)
  BY <1>1, QuietKeepsPolicy DEF Miss
<1>2. CASE GetExpired(k)
  BY <1>2, RemovalKeepsPolicy DEF GetExpired, Stale
<1>3. CASE Hit(k)
  <2>1. /\ k \in DOMAIN entries /\ IncrementFrequency(k, entries[k])
        /\ answer' = {entries[k].value}
    BY <1>3 DEF Hit
  <2>2. entries[k] \in LFUEntry
    BY <2>1 DEF PInv, IInv, TablesOK
  <2>3. /\ entries[k] \in [value : Values, expiration : Nat, freq : Nat]
        /\ entries[k].value # Nil
    BY <2>2, LFUAssumption DEF LFUEntry, Frequencies
  <2> QED BY <2>1, <2>3, IncrementKeepsPolicy
<1> QED BY <1>1, <1>2, <1>3 DEF Get

LEMMA UnusedKeepsPolicy ==
  ASSUME PInv, Unused, UNCHANGED <<uses, usedAfter>>
  PROVE  PolicyOK'
<1>1. CASE \E k \in Keys : Get(k) /\ answer' \subseteq {Nil}
  BY <1>1, GetKeepsPolicy
<1>2. ASSUME NEW k \in Keys, Delete(k) \/ CleanerRemoves(k) PROVE PolicyOK'
  BY <1>2, QuietKeepsPolicy, RemovalKeepsPolicy DEF Delete, CleanerRemoves, Miss, Stale
<1>3. CASE Clear \/ Close
  BY <1>3, PurgeKeepsPolicy, QuietKeepsPolicy DEF Clear, Close
<1>4. CASE SetPanics \/ StopCleanup \/ SetEvictedFunc \/ \E ttl \in TTLs : SetDefaultTTL(ttl)
  BY <1>4, QuietKeepsPolicy DEF SetPanics, StopCleanup, SetEvictedFunc, SetDefaultTTL
<1>5. CASE CleanerLocks \/ CleanerUnlocks \/ CleanerExits \/ Tick \/ Halted
  BY <1>5, QuietKeepsPolicy DEF CleanerLocks, CleanerUnlocks, CleanerExits, Tick, Halted, vars
<1> QED BY <1>1, <1>2, <1>3, <1>4, <1>5 DEF Unused

LEMMA InitPInv == PInit => PInv
<1> SUFFICES ASSUME PInit PROVE PInv
  OBVIOUS
<1>1. DOMAIN entries = {} /\ DOMAIN freqList = {}
  BY DEF PInit, Init
<1> QED BY <1>1, InitIInv DEF PInit, PInv, ListsSorted

LEMMA NextPInv == PInv /\ [PNext]_pvars => PInv'
<1> SUFFICES ASSUME PInv, [PNext]_pvars PROVE PInv'
  OBVIOUS
<1>1. [Next]_vars
  BY DEF PNext, Unused, Next, pvars
<1>2. IInv'
  BY <1>1, NextIInv DEF PInv
<1>3. PolicyOK'
  <2>1. CASE UNCHANGED pvars
    BY <2>1, QuietKeepsPolicy DEF pvars, vars
  <2>2. CASE PNext
    BY <2>2, SetKeepsPolicy, GetKeepsPolicy, UnusedKeepsPolicy DEF PNext
  <2> QED BY <2>1, <2>2
<1> QED BY <1>2, <1>3 DEF PInv, PolicyOK

\* The list of each frequency stays sorted by last use.
THEOREM ListsAreSorted == PSpec => []ListsSortedByUse
<1>1. PInv => ListsSortedByUse
  BY DEF PInv, ListsSorted, Sorted, ListsSortedByUse
<1> QED BY <1>1, InitPInv, NextPInv, PTL DEF PSpec

\* What an insertion evicts is the least frequently used entry, and of those the one
\* whose last use is the longest ago, after any mix of uses, expirations, deletions
\* and reinsertions (lfu.go:172-190).
THEOREM VictimIsLeastFrequentlyUsed == PSpec => EvictsLeastFrequentlyUsed
<1> DEFINE P == \A k \in DOMAIN entries \ DOMAIN entries' :
                  (\E j \in Keys \ DOMAIN entries, v \in Values, d \in Durations : Set(j, v, d))
                  => \A other \in DOMAIN entries \ {k} :
                       \/ uses[k] < uses[other]
                       \/ uses[k] = uses[other] /\ <<other, k>> \in usedAfter
<1>1. PInv /\ [PNext]_pvars => [P]_pvars
  <2> SUFFICES ASSUME PInv, NEW k \in DOMAIN entries \ DOMAIN entries',
                      NEW j \in Keys \ DOMAIN entries, NEW v \in Values, NEW d \in Durations,
                      Set(j, v, d), NEW other \in DOMAIN entries \ {k}
               PROVE  \/ uses[k] < uses[other]
                      \/ uses[k] = uses[other] /\ <<other, k>> \in usedAfter
    BY DEF P
  <2> DEFINE expiration == CappedDeadline(now, d, defaultTTL)
             list == freqList[minFreq]
  <2>1. /\ minFreq \in DOMAIN freqList /\ k = Head(list)
    <3>1. CASE Insert(j, v, expiration)
      BY <3>1 DEF Insert, InsertAfter, Put
    <3>2. CASE EvictAndInsert(j, v, expiration)
      BY <3>2 DEF EvictAndInsert, InsertAfter, Put, Drop
    <3> QED BY <3>1, <3>2 DEF Set, Update
  <2>2. k \in DOMAIN entries /\ entries[k].freq = minFreq
    BY <2>1, VictimFound DEF PInv
  <2>3. /\ uses[k] = minFreq /\ uses[other] = entries[other].freq
        /\ entries[other].freq \in DOMAIN freqList
    BY <2>2 DEF PInv, IInv, TablesOK, ListsOK
  <2>4. minFreq \in Nat /\ uses[other] \in Nat /\ minFreq <= uses[other]
    BY <2>3 DEF PInv, IInv, TablesOK, Frequencies
  <2>5. CASE uses[other] = minFreq
    <3>1. list \in Seq(Keys) /\ Matches(list, KeysAt(entries, minFreq)) /\ Sorted(list, usedAfter)
      BY <2>1 DEF PInv, IInv, TablesOK, ListsOK, ListsSorted
    <3>2. PICK i \in 1..Len(list) : list[i] = other
      BY <2>3, <2>5, <3>1 DEF Matches, KeysAt
    <3>3. 1 \in 1..Len(list) /\ list[1] = k /\ i # 1
      BY <2>1, <3>1, <3>2
    <3>4. 1 < i
      BY <3>3
    <3>5. <<list[i], list[1]>> \in usedAfter
      BY <3>1, <3>3, <3>4 DEF Sorted
    <3> QED BY <2>3, <2>5, <3>2, <3>3, <3>5
  <2> QED BY <2>3, <2>4, <2>5
<1> QED BY <1>1, InitPInv, NextPInv, PTL DEF PSpec, EvictsLeastFrequentlyUsed
================================================================================
