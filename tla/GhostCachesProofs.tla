---------------------------- MODULE GhostCachesProofs --------------------------
(* Theorems about GhostCaches: what the elements that list.Remove leaves   *)
(* behind can and cannot do to the caches that hold them.                  *)
EXTENDS GhostCaches, CacheLemmas

ElementOf == [key : Keys, old : {{}} \cup {{ent} : ent \in EntryOf(Values)}]
Maps == UNION {[ks -> EntryOf(Values)] : ks \in SUBSET Keys}

\* The keys of the elements whose entry is the one in the map.
Live(list) == {list[i].key : i \in {j \in 1..Len(list) : list[j].old = {}}}

Once(list) ==
  \A i, j \in 1..Len(list) : list[i].old = {} /\ list[i] = list[j] => i = j

--------------------------------------------------------------------------------
(* Lists of elements.                                                      *)

LEMMA LiveMembers ==
  ASSUME NEW list, NEW k
  PROVE  k \in Live(list) <=> \E i \in 1..Len(list) : list[i].old = {} /\ list[i].key = k
BY DEF Live

LEMMA ElementIsLive ==
  ASSUME NEW k \in Keys
  PROVE  /\ Element(k) \in ElementOf /\ Element(k).key = k /\ Element(k).old = {}
         /\ \A e \in ElementOf : e.old = {} /\ e.key = k <=> e = Element(k)
BY DEF Element, ElementOf

LEMMA LiveIsKeys ==
  ASSUME NEW list \in Seq(ElementOf)
  PROVE  Live(list) \subseteq Keys
<1>1. \A i \in 1..Len(list) : list[i] \in ElementOf
  OBVIOUS
<1> QED BY <1>1 DEF Live, ElementOf

\* What is left without the back element.
LEMMA FrontProperties ==
  ASSUME NEW S, NEW list \in Seq(S), list # <<>>
  PROVE  /\ Len(list) \in Nat \ {0}
         /\ Front(list) \in Seq(S)
         /\ Len(Front(list)) = Len(list) - 1
         /\ \A j \in 1..(Len(list) - 1) : Front(list)[j] = list[j]
         /\ Last(list) \in S
<1>1. Len(list) \in Nat \ {0}
  BY EmptySeq
<1> DEFINE n == Len(list) - 1
<1>2. n \in Int /\ 1 \in Int /\ \A j \in 1..n : list[j] \in S
  BY <1>1
<1> HIDE DEF n
<1> DEFINE rest == SubSeq(list, 1, n)
<1>3. /\ rest \in Seq(S)
      /\ Len(rest) = IF 1 <= n THEN n - 1 + 1 ELSE 0
      /\ \A j \in 1..(n - 1 + 1) : rest[j] = list[1 + j - 1]
  BY <1>2, SubSeqProperties
<1>4. Front(list) = rest /\ Last(list) \in S
  BY <1>1 DEF Front, Last, n
<1> HIDE DEF rest
<1>5. n \in Nat /\ \A j \in 1..n : 1 + j - 1 = j /\ j \in 1..(n - 1 + 1)
  BY <1>1 DEF n
<1>6. Len(rest) = n /\ \A j \in 1..n : rest[j] = list[j]
  BY <1>3, <1>5
<1> QED BY <1>1, <1>3, <1>4, <1>6 DEF n

\* PushFront.
LEMMA PushElement ==
  ASSUME NEW list \in Seq(ElementOf), NEW k \in Keys
  PROVE  LET pushed == <<Element(k)>> \o list
         IN /\ pushed \in Seq(ElementOf)
            /\ Len(pushed) = Len(list) + 1
            /\ Live(pushed) = Live(list) \cup {k}
            /\ Once(list) /\ k \notin Live(list) => Once(pushed)
<1> DEFINE pushed == <<Element(k)>> \o list
<1>1. Element(k) \in ElementOf /\ Element(k).key = k /\ Element(k).old = {}
  BY ElementIsLive
<1>2. /\ pushed \in Seq(ElementOf)
      /\ Len(pushed) = Len(list) + 1 /\ Len(list) \in Nat
      /\ pushed[1] = Element(k)
      /\ \A i \in 2..Len(pushed) : pushed[i] = list[i - 1]
  BY <1>1
<1> HIDE DEF pushed
<1>3. ASSUME NEW x
      PROVE  x \in Live(pushed) <=> x \in Live(list) \cup {k}
  <2>1. ASSUME NEW i \in 1..Len(list), list[i].old = {}, list[i].key = x
        PROVE  x \in Live(pushed)
    <3>1. i + 1 \in 1..Len(pushed) /\ pushed[i + 1] = list[i]
      BY <1>2
    <3> QED BY <2>1, <3>1, LiveMembers
  <2>2. k \in Live(pushed)
    <3>1. 1 \in 1..Len(pushed)
      BY <1>2
    <3> QED BY <1>1, <1>2, <3>1, LiveMembers
  <2>3. ASSUME NEW i \in 1..Len(pushed), pushed[i].old = {}, pushed[i].key = x
        PROVE  x \in Live(list) \cup {k}
    <3>1. CASE i = 1
      BY <1>1, <1>2, <2>3, <3>1
    <3>2. CASE i # 1
      <4>1. i - 1 \in 1..Len(list) /\ pushed[i] = list[i - 1]
        BY <1>2, <3>2
      <4> QED BY <2>3, <4>1, LiveMembers
    <3> QED BY <3>1, <3>2
  <2>4. /\ x \in Live(list) <=> \E i \in 1..Len(list) : list[i].old = {} /\ list[i].key = x
        /\ x \in Live(pushed) <=> \E i \in 1..Len(pushed) : pushed[i].old = {} /\ pushed[i].key = x
    BY LiveMembers
  <2> QED BY <2>1, <2>2, <2>3, <2>4
<1>4. ASSUME Once(list), k \notin Live(list)
      PROVE  Once(pushed)
  <2> SUFFICES ASSUME NEW i \in 1..Len(pushed), NEW j \in 1..Len(pushed),
                      pushed[i].old = {}, pushed[i] = pushed[j]
               PROVE  i = j
    BY DEF Once
  <2>1. \A n \in 1..Len(list) : ~(list[n].old = {} /\ list[n].key = k)
    BY <1>4, LiveMembers
  <2>2. ASSUME NEW n \in 2..Len(pushed)
        PROVE  n - 1 \in 1..Len(list) /\ pushed[n] = list[n - 1] /\ (pushed[n].old = {} => pushed[n].key # k)
    <3>1. n - 1 \in 1..Len(list) /\ pushed[n] = list[n - 1]
      BY <1>2
    <3> QED BY <2>1, <3>1
  <2>3. (i = 1) <=> (j = 1)
    BY <1>1, <1>2, <2>2
  <2>4. CASE i # 1 /\ j # 1
    <3>1. i \in 2..Len(pushed) /\ j \in 2..Len(pushed)
      BY <1>2, <2>4
    <3>2. i - 1 = j - 1
      BY <1>4, <2>2, <3>1 DEF Once
    <3> QED BY <1>2, <3>2
  <2> QED BY <2>3, <2>4
<1> QED BY <1>2, <1>3, <1>4 DEF pushed

\* What an element is after its entry has left the map.
Loosened(e, map, ks) == IF e.old = {} /\ e.key \in ks THEN [e EXCEPT !.old = {map[e.key]}] ELSE e

LEMMA LoosenedType ==
  ASSUME NEW e \in ElementOf, NEW map \in Maps, NEW ks, e.old = {} => e.key \in DOMAIN map
  PROVE  /\ Loosened(e, map, ks) \in ElementOf
         /\ Loosened(e, map, ks).key = e.key
         /\ Loosened(e, map, ks).old = {} <=> e.old = {} /\ e.key \notin ks
         /\ Loosened(e, map, ks).old = {} => Loosened(e, map, ks) = e
<1>1. e.key \in DOMAIN map => map[e.key] \in EntryOf(Values)
  BY DEF Maps
<1>2. CASE e.old = {} /\ e.key \in ks
  <2>1. Loosened(e, map, ks) = [key |-> e.key, old |-> {map[e.key]}]
    BY <1>2 DEF Loosened, ElementOf
  <2> QED BY <1>1, <1>2, <2>1 DEF ElementOf
<1>3. CASE ~(e.old = {} /\ e.key \in ks)
  BY <1>3 DEF Loosened
<1> QED BY <1>2, <1>3

\* Elements go from a list, and the keys ks from the map, among them those of the
\* elements that go: the keys with a live element are the others.
LEMMA DetachedRest ==
  ASSUME NEW list \in Seq(ElementOf), NEW rest \in Seq(ElementOf), NEW map \in Maps,
         Live(list) \subseteq DOMAIN map, NEW ks,
         NEW at \in [1..Len(rest) -> 1..Len(list)],
         \A j \in 1..Len(rest) : rest[j] = list[at[j]],
         \A i, j \in 1..Len(rest) : at[i] = at[j] => i = j,
         \A i \in 1..Len(list) : list[i].key \in ks \/ \E j \in 1..Len(rest) : at[j] = i
  PROVE  LET d == Detached(rest, map, ks)
         IN /\ d \in Seq(ElementOf)
            /\ Len(d) = Len(rest)
            /\ Live(d) = Live(list) \ ks
            /\ Once(list) => Once(d)
<1> DEFINE d == Detached(rest, map, ks)
<1>1. Len(rest) \in Nat /\ DOMAIN rest = 1..Len(rest) /\ \A j \in 1..Len(rest) : rest[j] \in ElementOf
  OBVIOUS
<1>2. d = [j \in 1..Len(rest) |-> Loosened(rest[j], map, ks)]
  BY <1>1 DEF Detached, Loosened
<1>3. \A j \in 1..Len(rest) : rest[j].old = {} => rest[j].key \in DOMAIN map
  BY LiveMembers
<1>4. \A j \in 1..Len(rest) : /\ d[j] \in ElementOf
                              /\ d[j].key = rest[j].key
                              /\ d[j].old = {} <=> rest[j].old = {} /\ rest[j].key \notin ks
                              /\ d[j].old = {} => d[j] = rest[j]
  BY <1>1, <1>2, <1>3, LoosenedType
<1>5. d \in Seq(ElementOf) /\ Len(d) = Len(rest)
  <2>1. d \in [1..Len(rest) -> ElementOf]
    BY <1>2, <1>4
  <2> QED BY <1>1, <1>2, <2>1
<1> HIDE DEF d
<1>6. ASSUME NEW k
      PROVE  k \in Live(d) <=> k \in Live(list) \ ks
  <2>1. ASSUME NEW j \in 1..Len(d), d[j].old = {}, d[j].key = k
        PROVE  k \in Live(list) \ ks
    <3>1. j \in 1..Len(rest) /\ rest[j].old = {} /\ rest[j].key = k /\ k \notin ks
      BY <1>4, <1>5, <2>1
    <3>2. at[j] \in 1..Len(list) /\ list[at[j]].old = {} /\ list[at[j]].key = k
      BY <3>1
    <3> QED BY <3>1, <3>2, LiveMembers
  <2>2. ASSUME NEW i \in 1..Len(list), list[i].old = {}, list[i].key = k, k \notin ks
        PROVE  k \in Live(d)
    <3>1. PICK j \in 1..Len(rest) : at[j] = i
      BY <2>2
    <3>2. j \in 1..Len(d) /\ d[j].old = {} /\ d[j].key = k
      BY <1>4, <1>5, <2>2, <3>1
    <3> QED BY <3>2, LiveMembers
  <2>3. /\ k \in Live(list) <=> \E i \in 1..Len(list) : list[i].old = {} /\ list[i].key = k
        /\ k \in Live(d) <=> \E j \in 1..Len(d) : d[j].old = {} /\ d[j].key = k
    BY DEF Live
  <2> QED BY <2>1, <2>2, <2>3
<1>7. ASSUME Once(list)
      PROVE  Once(d)
  <2> SUFFICES ASSUME NEW i \in 1..Len(d), NEW j \in 1..Len(d), d[i].old = {}, d[i] = d[j]
               PROVE  i = j
    BY DEF Once
  <2>1. d[i] = rest[i] /\ d[j] = rest[j]
    BY <1>4, <1>5
  <2>2. at[i] \in 1..Len(list) /\ at[j] \in 1..Len(list)
        /\ list[at[i]].old = {} /\ list[at[i]] = list[at[j]]
    BY <1>5, <2>1
  <2>3. at[i] = at[j]
    BY <1>7, <2>2 DEF Once
  <2> QED BY <1>5, <2>3
<1> QED BY <1>5, <1>6, <1>7 DEF d

\* No element goes.
LEMMA DetachedAll ==
  ASSUME NEW list \in Seq(ElementOf), NEW map \in Maps, Live(list) \subseteq DOMAIN map, NEW ks
  PROVE  LET d == Detached(list, map, ks)
         IN /\ d \in Seq(ElementOf)
            /\ Len(d) = Len(list)
            /\ Live(d) = Live(list) \ ks
            /\ Once(list) => Once(d)
<1> DEFINE at == [j \in 1..Len(list) |-> j]
<1>1. at \in [1..Len(list) -> 1..Len(list)]
  OBVIOUS
<1>2. \A j \in 1..Len(list) : at[j] = j
  OBVIOUS
<1> HIDE DEF at
<1> QED BY <1>1, <1>2, DetachedRest

\* The back element goes.
LEMMA DetachedFront ==
  ASSUME NEW list \in Seq(ElementOf), list # <<>>, NEW map \in Maps,
         Live(list) \subseteq DOMAIN map, NEW ks, Last(list).key \in ks
  PROVE  LET d == Detached(Front(list), map, ks)
         IN /\ d \in Seq(ElementOf)
            /\ Len(d) = Len(list) - 1
            /\ Live(d) = Live(list) \ ks
            /\ Once(list) => Once(d)
<1> DEFINE rest == Front(list)
           at == [j \in 1..Len(rest) |-> j]
<1>1. /\ rest \in Seq(ElementOf) /\ Len(list) \in Nat \ {0} /\ Len(rest) = Len(list) - 1
      /\ \A j \in 1..Len(rest) : rest[j] = list[j]
  BY FrontProperties
<1> HIDE DEF rest
<1>2. at \in [1..Len(rest) -> 1..Len(list)] /\ \A j \in 1..Len(rest) : at[j] = j
  BY <1>1
<1> HIDE DEF at
<1>3. ASSUME NEW i \in 1..Len(list)
      PROVE  list[i].key \in ks \/ \E j \in 1..Len(rest) : at[j] = i
  <2>1. CASE i = Len(list)
    BY <2>1 DEF Last
  <2>2. CASE i # Len(list)
    <3>1. i \in 1..Len(rest)
      BY <1>1, <2>2
    <3> QED BY <1>2, <3>1
  <2> QED BY <2>1, <2>2
<1>4. /\ \A j \in 1..Len(rest) : rest[j] = list[at[j]]
      /\ \A i, j \in 1..Len(rest) : at[i] = at[j] => i = j
  BY <1>1, <1>2
<1>5. LET d == Detached(rest, map, ks)
      IN /\ d \in Seq(ElementOf)
         /\ Len(d) = Len(rest)
         /\ Live(d) = Live(list) \ ks
         /\ Once(list) => Once(d)
  BY <1>1, <1>2, <1>3, <1>4, DetachedRest
<1> QED BY <1>1, <1>5 DEF rest

\* The element of a key goes from a list of elements, if it is there.
LEMMA TakeOffProperties ==
  ASSUME NEW S, NEW list \in Seq(S), NEW x
  PROVE  /\ TakeOff(list, x) \in Seq(S)
         /\ Len(TakeOff(list, x)) \in Nat /\ Len(TakeOff(list, x)) <= Len(list)
         /\ \/ TakeOff(list, x) = list /\ ~\E i \in 1..Len(list) : list[i] = x
            \/ \E i \in 1..Len(list) : list[i] = x /\ TakeOff(list, x) = Omit(list, i)
<1>1. Len(list) \in Nat /\ DOMAIN list = 1..Len(list)
  OBVIOUS
<1>2. CASE \E i \in 1..Len(list) : list[i] = x
  <2>1. PICK i \in 1..Len(list) : list[i] = x /\ TakeOff(list, x) = Omit(list, i)
    BY <1>1, <1>2 DEF TakeOff, RemoveAt, Omit
  <2> HIDE DEF TakeOff
  <2>2. Omit(list, i) \in Seq(S) /\ Len(Omit(list, i)) = Len(list) - 1
    BY OmitProperties
  <2>3. Len(list) - 1 \in Nat /\ Len(list) - 1 <= Len(list)
    BY <1>1
  <2> QED BY <2>1, <2>2, <2>3
<1>3. CASE ~\E i \in 1..Len(list) : list[i] = x
  BY <1>1, <1>3 DEF TakeOff
<1> QED BY <1>2, <1>3

LEMMA TakeOffElement ==
  ASSUME NEW list \in Seq(ElementOf), NEW k \in Keys, Once(list)
  PROVE  LET rest == TakeOff(list, Element(k))
         IN /\ rest \in Seq(ElementOf)
            /\ Len(rest) = IF k \in Live(list) THEN Len(list) - 1 ELSE Len(list)
            /\ Live(rest) = Live(list) \ {k}
            /\ Once(rest)
<1> DEFINE rest == TakeOff(list, Element(k))
<1>1. rest \in Seq(ElementOf)
  BY TakeOffProperties
<1>2. \A i \in 1..Len(list) : list[i].old = {} /\ list[i].key = k <=> list[i] = Element(k)
  <2>1. \A i \in 1..Len(list) : list[i] \in ElementOf
    OBVIOUS
  <2> QED BY <2>1, ElementIsLive
<1>3. k \in Live(list) <=> \E i \in 1..Len(list) : list[i] = Element(k)
  BY <1>2 DEF Live
<1>4. CASE k \notin Live(list)
  <2>1. rest = list
    BY <1>3, <1>4, TakeOffProperties
  <2> QED BY <1>4, <2>1
<1>5. CASE k \in Live(list)
  <2>1. PICK i \in 1..Len(list) : list[i] = Element(k) /\ rest = Omit(list, i)
    BY <1>3, <1>5, TakeOffProperties
  <2>2. /\ Len(rest) = Len(list) - 1 /\ Len(list) \in Nat
        /\ \A j \in 1..(Len(list) - 1) : rest[j] = IF j < i THEN list[j] ELSE list[j + 1]
    BY <2>1, OmitProperties
  <2> HIDE DEF rest
  <2>3. \A j \in 1..Len(list) : list[j].old = {} /\ list[j].key = k => j = i
    BY <1>2, <2>1 DEF Once
  <2> DEFINE at(j) == IF j < i THEN j ELSE j + 1
  <2>4. \A j \in 1..Len(rest) : at(j) \in 1..Len(list) /\ at(j) # i /\ rest[j] = list[at(j)]
    BY <2>2
  <2>5. \A j, l \in 1..Len(rest) : at(j) = at(l) => j = l
    BY <2>2
  <2>6. ASSUME NEW n \in 1..Len(list), n # i
        PROVE  \E j \in 1..Len(rest) : at(j) = n
    <3>1. CASE n < i
      <4>1. n \in 1..Len(rest) /\ at(n) = n
        BY <2>2, <3>1
      <4> QED BY <4>1
    <3>2. CASE n > i
      <4>1. n - 1 \in 1..Len(rest) /\ at(n - 1) = n
        BY <2>2, <3>2
      <4> QED BY <4>1
    <3> QED BY <2>6, <3>1, <3>2
  <2> HIDE DEF at
  <2>7. ASSUME NEW x
        PROVE  x \in Live(rest) <=> x \in Live(list) \ {k}
    <3>1. ASSUME NEW j \in 1..Len(rest), rest[j].old = {}, rest[j].key = x
          PROVE  x \in Live(list) \ {k}
      <4>1. at(j) \in 1..Len(list) /\ list[at(j)].old = {} /\ list[at(j)].key = x /\ x # k
        BY <2>3, <2>4, <3>1
      <4> QED BY <4>1, LiveMembers
    <3>2. ASSUME NEW n \in 1..Len(list), list[n].old = {}, list[n].key = x, x # k
          PROVE  x \in Live(rest)
      <4>1. n # i
        BY <1>2, <2>1, <3>2
      <4>2. PICK j \in 1..Len(rest) : at(j) = n
        BY <2>6, <4>1
      <4>3. rest[j].old = {} /\ rest[j].key = x
        BY <2>4, <3>2, <4>2
      <4> QED BY <4>3, LiveMembers
    <3>3. /\ x \in Live(list) <=> \E n \in 1..Len(list) : list[n].old = {} /\ list[n].key = x
          /\ x \in Live(rest) <=> \E j \in 1..Len(rest) : rest[j].old = {} /\ rest[j].key = x
      BY DEF Live
    <3> QED BY <3>1, <3>2, <3>3
  <2>8. Once(rest)
    <3> SUFFICES ASSUME NEW j \in 1..Len(rest), NEW l \in 1..Len(rest),
                        rest[j].old = {}, rest[j] = rest[l]
                 PROVE  j = l
      BY DEF Once
    <3>1. at(j) = at(l)
      BY <2>4 DEF Once
    <3> QED BY <2>5, <3>1
  <2> QED BY <1>1, <1>5, <2>2, <2>7, <2>8 DEF rest
<1> QED BY <1>4, <1>5

\* The sweep of a list, and the keys of what it removes.
LEMMA DetachedSwept ==
  ASSUME NEW list \in Seq(ElementOf), NEW stale, NEW map \in Maps,
         Live(list) \subseteq DOMAIN map, NEW ks, \A e \in stale : e.key \in ks
  PROVE  LET d == Detached(Swept(list, stale), map, ks)
         IN /\ d \in Seq(ElementOf)
            /\ Len(d) <= Len(list)
            /\ Live(d) = Live(list) \ ks
            /\ Once(list) => Once(d)
<1> DEFINE ps == {i \in DOMAIN list : list[i] \notin stale}
           rest == Only(list, ps)
<1>1. ps \in SUBSET (1..Len(list)) /\ Len(list) \in Nat
  OBVIOUS
<1>2. \A i \in 1..Len(list) : i \notin ps => list[i].key \in ks
  OBVIOUS
<1> HIDE DEF ps
<1>3. rest \in Seq(ElementOf) /\ Len(rest) = Cardinality(ps) /\ Len(rest) <= Len(list)
  BY <1>1, OnlyProperties
<1>4. PICK at \in [1..Cardinality(ps) -> ps] :
         /\ \A j \in 1..Cardinality(ps) : rest[j] = list[at[j]]
         /\ \A i \in ps : \E j \in 1..Cardinality(ps) : at[j] = i
         /\ \A j, l \in 1..Cardinality(ps) : j < l => at[j] < at[l]
  BY <1>1, OnlyProperties
<1> HIDE DEF rest
<1>5. at \in [1..Len(rest) -> 1..Len(list)] /\ \A j \in 1..Len(rest) : rest[j] = list[at[j]]
  BY <1>1, <1>3, <1>4
<1>6. \A i, j \in 1..Len(rest) : at[i] = at[j] => i = j
  <2>1. Len(rest) \in Nat
    BY <1>3
  <2> QED BY <1>3, <1>4, <1>5, <2>1
<1>7. \A i \in 1..Len(list) : list[i].key \in ks \/ \E j \in 1..Len(rest) : at[j] = i
  BY <1>2, <1>3, <1>4
<1>8. LET d == Detached(rest, map, ks)
      IN /\ d \in Seq(ElementOf)
         /\ Len(d) = Len(rest)
         /\ Live(d) = Live(list) \ ks
         /\ Once(list) => Once(d)
  BY <1>3, <1>5, <1>6, <1>7, DetachedRest
<1> QED BY <1>3, <1>8 DEF rest, ps, Swept
--------------------------------------------------------------------------------
(* The cache.                                                              *)

StateOf == [entries : Maps, recent : Seq(ElementOf), frequent : Seq(ElementOf),
            b1 : Seq(Keys), b2 : Seq(Keys), p : 0..MaxEntries,
            calls : SUBSET CallOf(Keys, Values)]

\* Every entry has a live element, in one of the lists only, and one in the first.
Agree(T) ==
  /\ Live(T.recent) \cup Live(T.frequent) = DOMAIN T.entries
  /\ Live(T.recent) \cap Live(T.frequent) = {}
  /\ Once(T.recent)

Sound(T) == T \in StateOf /\ Agree(T)

LEMMA LiveIsFinite ==
  ASSUME NEW list \in Seq(ElementOf)
  PROVE  /\ IsFiniteSet(Live(list))
         /\ Cardinality(Live(list)) \in Nat
         /\ Cardinality(Live(list)) <= Len(list)
<1> DEFINE n == Len(list)
           ps == {i \in 1..n : list[i].old = {}}
           f == [i \in ps |-> list[i].key]
<1>1. n \in Nat
  OBVIOUS
<1>2. Live(list) = {list[i].key : i \in ps}
  BY DEF Live
<1>3. ps \in SUBSET (1..n)
  OBVIOUS
<1> HIDE DEF n, ps
<1>4. IsFiniteSet(1..n) /\ Cardinality(1..n) = n
  <2>1. IsFiniteSet(1..n) /\ Cardinality(1..n) = IF 1 > n THEN 0 ELSE n - 1 + 1
    BY <1>1, FS_Interval, 1 \in Int, n \in Int
  <2> QED BY <1>1, <2>1
<1>5. IsFiniteSet(ps) /\ Cardinality(ps) <= n /\ Cardinality(ps) \in Nat
  BY <1>3, <1>4, FS_Subset, FS_CardinalityType
<1>6. f \in [ps -> Live(list)] /\ \A k \in Live(list) : \E i \in ps : f[i] = k
  BY <1>2
<1>7. f \in Surjection(ps, Live(list))
  BY <1>6 DEF Surjection
<1>8. IsFiniteSet(Live(list)) /\ Cardinality(Live(list)) <= Cardinality(ps)
  BY <1>5, <1>7, FS_Surjection
<1>9. Cardinality(Live(list)) \in Nat
  BY <1>8, FS_CardinalityType
<1> QED BY <1>1, <1>5, <1>8, <1>9 DEF n

LEMMA DropType ==
  ASSUME NEW map \in Maps, NEW ks
  PROVE  Drop(map, ks) \in Maps /\ DOMAIN Drop(map, ks) = DOMAIN map \ ks
<1>1. PICK dom \in SUBSET Keys : map \in [dom -> EntryOf(Values)]
  BY DEF Maps
<1>2. Drop(map, ks) \in [dom \ ks -> EntryOf(Values)]
  BY <1>1 DEF Drop
<1> QED BY <1>1, <1>2 DEF Maps

LEMMA PutType ==
  ASSUME NEW map \in Maps, NEW k \in Keys, NEW ent \in EntryOf(Values)
  PROVE  Put(map, k, ent) \in Maps /\ DOMAIN Put(map, k, ent) = DOMAIN map \cup {k}
<1>1. PICK ks \in SUBSET Keys : map \in [ks -> EntryOf(Values)]
  BY DEF Maps
<1>2. Put(map, k, ent) \in [ks \cup {k} -> EntryOf(Values)]
  BY <1>1 DEF Put
<1> QED BY <1>1, <1>2 DEF Maps

\* An element points to an entry, and the callback can be told of it.
LEMMA ElementHasEntry ==
  ASSUME NEW T, Sound(T), NEW e \in ElementOf, e.old = {} => e.key \in DOMAIN T.entries
  PROVE  EntryOfElement(T, e) \in EntryOf(Values)
<1>1. T.entries \in Maps
  BY DEF Sound, StateOf
<1>2. CASE e.old = {}
  BY <1>1, <1>2 DEF Maps, EntryOfElement
<1>3. CASE e.old # {}
  <2>1. PICK ent \in EntryOf(Values) : e.old = {ent}
    BY <1>3 DEF ElementOf
  <2> QED BY <1>3, <2>1 DEF EntryOfElement
<1> QED BY <1>2, <1>3

LEMMA ToldType ==
  ASSUME NEW T, Sound(T), NEW es \in SUBSET ElementOf,
         \A e \in es : e.old = {} => e.key \in DOMAIN T.entries,
         NEW event \in Events
  PROVE  Told(T, es, event) \subseteq CallOf(Keys, Values)
<1>1. \A e \in es : e.key \in Keys /\ EntryOfElement(T, e).value \in Values
  <2> TAKE e \in es
  <2>1. e \in ElementOf /\ EntryOfElement(T, e) \in EntryOf(Values)
    BY ElementHasEntry
  <2> QED BY <2>1 DEF ElementOf, EntryOf
<1> QED BY <1>1 DEF Told, CallOf

LEMMA CappedType ==
  ASSUME NEW ghosts \in Seq(Keys)
  PROVE  Capped(ghosts) \in Seq(Keys)
<1>1. CASE ghosts = <<>>
  <2>1. Len(ghosts) = 0
    BY <1>1
  <2> QED BY <2>1, GhostAssumption DEF Capped
<1>2. CASE ghosts # <<>>
  BY <1>2, FrontProperties DEF Capped
<1> QED BY <1>1, <1>2

--------------------------------------------------------------------------------
(* Eviction.                                                               *)

\* The record of a cache's fields, and what EXCEPT makes of it.
Cache(en, re, fr, g1, g2, q, ca) ==
  [entries |-> en, recent |-> re, frequent |-> fr, b1 |-> g1, b2 |-> g2, p |-> q, calls |-> ca]

LEMMA StateIsCache ==
  ASSUME NEW T \in StateOf
  PROVE  /\ T = Cache(T.entries, T.recent, T.frequent, T.b1, T.b2, T.p, T.calls)
         /\ T.entries \in Maps /\ T.recent \in Seq(ElementOf) /\ T.frequent \in Seq(ElementOf)
         /\ T.b1 \in Seq(Keys) /\ T.b2 \in Seq(Keys) /\ T.p \in 0..MaxEntries
         /\ T.calls \in SUBSET CallOf(Keys, Values)
BY DEF StateOf, Cache

LEMMA CacheIsState ==
  ASSUME NEW en \in Maps, NEW re \in Seq(ElementOf), NEW fr \in Seq(ElementOf),
         NEW g1 \in Seq(Keys), NEW g2 \in Seq(Keys), NEW q \in 0..MaxEntries,
         NEW ca \in SUBSET CallOf(Keys, Values)
  PROVE  Cache(en, re, fr, g1, g2, q, ca) \in StateOf
BY DEF StateOf, Cache

LEMMA CacheFields ==
  ASSUME NEW en, NEW re, NEW fr, NEW g1, NEW g2, NEW q, NEW ca
  PROVE  LET T == Cache(en, re, fr, g1, g2, q, ca)
         IN /\ T.entries = en /\ T.recent = re /\ T.frequent = fr
            /\ T.b1 = g1 /\ T.b2 = g2 /\ T.p = q /\ T.calls = ca
            /\ T["recent"] = re /\ T["frequent"] = fr
            /\ T["b1"] = g1 /\ T["b2"] = g2
BY DEF Cache

LEMMA ForgetIs ==
  ASSUME NEW en, NEW re, NEW fr, NEW g1, NEW g2, NEW q, NEW ca, NEW ks
  PROVE  Forget(Cache(en, re, fr, g1, g2, q, ca), ks)
           = Cache(Drop(en, ks), Detached(re, en, ks), Detached(fr, en, ks), g1, g2, q, ca)
<1> DEFINE T == Cache(en, re, fr, g1, g2, q, ca)
           A == Drop(en, ks)
           B == Detached(re, en, ks)
           C == Detached(fr, en, ks)
<1>1. T.entries = en /\ T.recent = re /\ T.frequent = fr
  BY CacheFields
<1>2. Forget(T, ks) = [T EXCEPT !.entries = A, !.recent = B, !.frequent = C]
  BY ONLY <1>1 DEF Forget
<1> HIDE DEF A, B, C
<1>3. [T EXCEPT !.entries = A] = Cache(A, re, fr, g1, g2, q, ca)
  BY DEF Cache
<1>4. [Cache(A, re, fr, g1, g2, q, ca) EXCEPT !.recent = B] = Cache(A, B, fr, g1, g2, q, ca)
  BY DEF Cache
<1>5. [Cache(A, B, fr, g1, g2, q, ca) EXCEPT !.frequent = C] = Cache(A, B, C, g1, g2, q, ca)
  BY DEF Cache
<1> HIDE DEF T
<1>6. Forget(T, ks) = Cache(A, B, C, g1, g2, q, ca)
  BY ONLY <1>2, <1>3, <1>4, <1>5
<1> QED BY <1>6 DEF T, A, B, C

\* What an eviction of the back element leaves, from the first list or the second.
EvictedRecent(T, e) ==
  Cache(Drop(T.entries, {e.key}), Detached(Front(T.recent), T.entries, {e.key}),
        Detached(T.frequent, T.entries, {e.key}), Capped(<<e.key>> \o T.b1), T.b2, T.p,
        T.calls \cup Told(T, {e}, "Eviction"))
EvictedFrequent(T, e) ==
  Cache(Drop(T.entries, {e.key}), Detached(T.recent, T.entries, {e.key}),
        Detached(Front(T.frequent), T.entries, {e.key}), T.b1, Capped(<<e.key>> \o T.b2), T.p,
        T.calls \cup Told(T, {e}, "Eviction"))

LEMMA EvictFromIs ==
  ASSUME NEW en, NEW re, NEW fr, NEW g1, NEW g2, NEW q, NEW ca
  PROVE  LET T == Cache(en, re, fr, g1, g2, q, ca)
         IN /\ EvictFrom(T, "recent", "b1") = EvictedRecent(T, Last(re))
            /\ EvictFrom(T, "frequent", "b2") = EvictedFrequent(T, Last(fr))
<1> DEFINE T == Cache(en, re, fr, g1, g2, q, ca)
<1>1. /\ T.entries = en /\ T.recent = re /\ T.frequent = fr /\ T.b1 = g1 /\ T.b2 = g2
      /\ T.p = q /\ T.calls = ca /\ T["recent"] = re /\ T["frequent"] = fr
  BY CacheFields
<1> HIDE DEF T
<1>2. EvictFrom(T, "recent", "b1") = EvictedRecent(T, Last(re))
  <2> DEFINE e == Last(re)
             rest == Front(re)
             S == [T EXCEPT !["recent"] = rest]
             told == Told(T, {e}, "Eviction")
             F == Forget(S, {e.key})
             A == Drop(en, {e.key})
             B == Detached(rest, en, {e.key})
             C == Detached(fr, en, {e.key})
             D == Capped(<<e.key>> \o g1)
  <2>1. S = [T EXCEPT !["recent"] = Front(@)]
    BY ONLY <1>1 DEF S
  <2>2. EvictFrom(T, "recent", "b1")
          = [F EXCEPT !["b1"] = Capped(<<e.key>> \o @), !.calls = @ \cup told]
    BY ONLY <1>1, <2>1 DEF EvictFrom
  <2>3. S = Cache(en, rest, fr, g1, g2, q, ca)
    <3> HIDE DEF rest
    <3> QED BY DEF T, Cache
  <2>4. F = Cache(A, B, C, g1, g2, q, ca)
    <3> HIDE DEF rest, e, S
    <3> QED BY <2>3, ForgetIs
  <2> HIDE DEF F, A, B, C, e, told
  <2>5. F["b1"] = g1 /\ F.calls = ca
    BY <2>4, CacheFields
  <2>6. [F EXCEPT !["b1"] = Capped(<<e.key>> \o @), !.calls = @ \cup told]
          = [[F EXCEPT !["b1"] = D] EXCEPT !.calls = ca \cup told]
    BY ONLY <2>5, <2>4 DEF Cache
  <2> DEFINE G == ca \cup told
  <2> HIDE DEF D, G
  <2>7. [F EXCEPT !["b1"] = D] = Cache(A, B, C, D, g2, q, ca)
    BY <2>4 DEF Cache
  <2>8. [Cache(A, B, C, D, g2, q, ca) EXCEPT !.calls = G] = Cache(A, B, C, D, g2, q, G)
    BY DEF Cache
  <2>9. EvictFrom(T, "recent", "b1") = Cache(A, B, C, D, g2, q, G)
    BY ONLY <2>2, <2>6, <2>7, <2>8 DEF G
  <2> QED BY ONLY <1>1, <2>9 DEF EvictedRecent, A, B, C, D, G, e, told
<1>3. EvictFrom(T, "frequent", "b2") = EvictedFrequent(T, Last(fr))
  <2> DEFINE e == Last(fr)
             rest == Front(fr)
             S == [T EXCEPT !["frequent"] = rest]
             told == Told(T, {e}, "Eviction")
             F == Forget(S, {e.key})
             A == Drop(en, {e.key})
             B == Detached(re, en, {e.key})
             C == Detached(rest, en, {e.key})
             D == Capped(<<e.key>> \o g2)
  <2>1. S = [T EXCEPT !["frequent"] = Front(@)]
    BY ONLY <1>1 DEF S
  <2>2. EvictFrom(T, "frequent", "b2")
          = [F EXCEPT !["b2"] = Capped(<<e.key>> \o @), !.calls = @ \cup told]
    BY ONLY <1>1, <2>1 DEF EvictFrom
  <2>3. S = Cache(en, re, rest, g1, g2, q, ca)
    <3> HIDE DEF rest
    <3> QED BY DEF T, Cache
  <2>4. F = Cache(A, B, C, g1, g2, q, ca)
    <3> HIDE DEF rest, e, S
    <3> QED BY <2>3, ForgetIs
  <2> HIDE DEF F, A, B, C, e, told
  <2>5. F["b2"] = g2 /\ F.calls = ca
    BY <2>4, CacheFields
  <2>6. [F EXCEPT !["b2"] = Capped(<<e.key>> \o @), !.calls = @ \cup told]
          = [[F EXCEPT !["b2"] = D] EXCEPT !.calls = ca \cup told]
    BY ONLY <2>5, <2>4 DEF Cache
  <2> DEFINE G == ca \cup told
  <2> HIDE DEF D, G
  <2>7. [F EXCEPT !["b2"] = D] = Cache(A, B, C, g1, D, q, ca)
    BY <2>4 DEF Cache
  <2>8. [Cache(A, B, C, g1, D, q, ca) EXCEPT !.calls = G] = Cache(A, B, C, g1, D, q, G)
    BY DEF Cache
  <2>9. EvictFrom(T, "frequent", "b2") = Cache(A, B, C, g1, D, q, G)
    BY ONLY <2>2, <2>6, <2>7, <2>8 DEF G
  <2> QED BY ONLY <1>1, <2>9 DEF EvictedFrequent, A, B, C, D, G, e, told
<1> QED BY <1>2, <1>3 DEF T

\* An eviction that finds an element leaves a sound cache.
EvictionOf(T, R, e) ==
  /\ e \in ElementOf /\ (e.old = {} => e.key \in DOMAIN T.entries)
  /\ Sound(R)
  /\ R.entries = Drop(T.entries, {e.key})
  /\ R.p = T.p
  /\ R.calls = T.calls \cup Told(T, {e}, "Eviction")
  /\ Live(R.frequent) = Live(T.frequent) \ {e.key}

LEMMA EvictRecent ==
  ASSUME NEW T, Sound(T), T.recent # <<>>
  PROVE  LET R == EvictFrom(T, "recent", "b1")
         IN EvictionOf(T, R, Last(T.recent)) /\ Len(R.recent) = Len(T.recent) - 1
<1> DEFINE en == T.entries
           re == T.recent
           fr == T.frequent
           g1 == T.b1
           ca == T.calls
           e == Last(re)
           ks == {e.key}
           told == Told(T, {e}, "Eviction")
<1>1. /\ en \in Maps /\ re \in Seq(ElementOf) /\ fr \in Seq(ElementOf)
      /\ g1 \in Seq(Keys) /\ T.b2 \in Seq(Keys) /\ T.p \in 0..MaxEntries
      /\ ca \in SUBSET CallOf(Keys, Values) /\ T \in StateOf
      /\ T = Cache(en, re, fr, g1, T.b2, T.p, ca)
  BY StateIsCache DEF Sound
<1>2. /\ Live(re) \subseteq DOMAIN en /\ Live(fr) \subseteq DOMAIN en
      /\ Live(re) \cup Live(fr) = DOMAIN en /\ Live(re) \cap Live(fr) = {}
      /\ Once(re) /\ re # <<>>
  BY DEF Sound, Agree
<1>3. EvictFrom(T, "recent", "b1") = EvictedRecent(T, e)
  <2>1. EvictFrom(Cache(en, re, fr, g1, T.b2, T.p, ca), "recent", "b1")
          = EvictedRecent(Cache(en, re, fr, g1, T.b2, T.p, ca), Last(re))
    BY EvictFromIs
  <2> QED BY <1>1, <2>1
<1> DEFINE A == Drop(en, ks)
           B == Detached(Front(re), en, ks)
           C == Detached(fr, en, ks)
           D == Capped(<<e.key>> \o g1)
           G == ca \cup told
           R == Cache(A, B, C, D, T.b2, T.p, G)
<1>4. EvictedRecent(T, e) = R
  BY DEF EvictedRecent
<1> HIDE DEF en, re, fr, g1, ca
<1>5. e \in ElementOf /\ (e.old = {} => e.key \in DOMAIN en)
  <2>1. Len(re) \in 1..Len(re) /\ e \in ElementOf
    BY <1>1, <1>2, FrontProperties
  <2>2. e = re[Len(re)]
    BY DEF Last
  <2> QED BY <1>1, <1>2, <2>1, <2>2, LiveMembers
<1>6. e.key \in Keys /\ e.key \in ks /\ Last(re).key \in ks
  BY <1>5 DEF ElementOf
<1> HIDE DEF e
<1>7. D \in Seq(Keys)
  <2>1. <<e.key>> \o g1 \in Seq(Keys)
    BY <1>1, <1>6
  <2> QED BY <2>1, CappedType
<1>8. G \in SUBSET CallOf(Keys, Values)
  <2>1. told \subseteq CallOf(Keys, Values)
    BY <1>5, ToldType DEF Events, en
  <2> QED BY <1>1, <2>1
<1> HIDE DEF ks, told
<1>9. A \in Maps /\ DOMAIN A = DOMAIN en \ ks
  BY <1>1, DropType
<1>10. B \in Seq(ElementOf) /\ Len(B) = Len(re) - 1 /\ Live(B) = Live(re) \ ks /\ Once(B)
  BY <1>1, <1>2, <1>6, DetachedFront
<1>11. C \in Seq(ElementOf) /\ Live(C) = Live(fr) \ ks
  BY <1>1, <1>2, DetachedAll
<1> HIDE DEF A, B, C, D, G
<1>12. R \in StateOf
  BY <1>1, <1>7, <1>8, <1>9, <1>10, <1>11, CacheIsState
<1>13. /\ R.entries = A /\ R.recent = B /\ R.frequent = C /\ R.p = T.p /\ R.calls = G
  BY CacheFields
<1> HIDE DEF R
<1>14. Agree(R)
  BY <1>2, <1>9, <1>10, <1>11, <1>13 DEF Agree
<1>15. EvictionOf(T, R, e)
  BY <1>5, <1>11, <1>12, <1>13, <1>14 DEF EvictionOf, Sound, A, G, en, ca, ks, told, fr
<1>16. Len(R.recent) = Len(T.recent) - 1
  BY <1>10, <1>13 DEF re
<1> QED BY <1>3, <1>4, <1>15, <1>16 DEF e, re

LEMMA EvictFrequent ==
  ASSUME NEW T, Sound(T), T.frequent # <<>>
  PROVE  LET R == EvictFrom(T, "frequent", "b2")
         IN EvictionOf(T, R, Last(T.frequent)) /\ Len(R.recent) = Len(T.recent)
<1> DEFINE en == T.entries
           re == T.recent
           fr == T.frequent
           g2 == T.b2
           ca == T.calls
           e == Last(fr)
           ks == {e.key}
           told == Told(T, {e}, "Eviction")
<1>1. /\ en \in Maps /\ re \in Seq(ElementOf) /\ fr \in Seq(ElementOf)
      /\ T.b1 \in Seq(Keys) /\ g2 \in Seq(Keys) /\ T.p \in 0..MaxEntries
      /\ ca \in SUBSET CallOf(Keys, Values) /\ T \in StateOf
      /\ T = Cache(en, re, fr, T.b1, g2, T.p, ca)
  BY StateIsCache DEF Sound
<1>2. /\ Live(re) \subseteq DOMAIN en /\ Live(fr) \subseteq DOMAIN en
      /\ Live(re) \cup Live(fr) = DOMAIN en /\ Live(re) \cap Live(fr) = {}
      /\ Once(re) /\ fr # <<>>
  BY DEF Sound, Agree
<1>3. EvictFrom(T, "frequent", "b2") = EvictedFrequent(T, e)
  <2>1. EvictFrom(Cache(en, re, fr, T.b1, g2, T.p, ca), "frequent", "b2")
          = EvictedFrequent(Cache(en, re, fr, T.b1, g2, T.p, ca), Last(fr))
    BY EvictFromIs
  <2> QED BY <1>1, <2>1
<1> DEFINE A == Drop(en, ks)
           B == Detached(re, en, ks)
           C == Detached(Front(fr), en, ks)
           D == Capped(<<e.key>> \o g2)
           G == ca \cup told
           R == Cache(A, B, C, T.b1, D, T.p, G)
<1>4. EvictedFrequent(T, e) = R
  BY DEF EvictedFrequent
<1> HIDE DEF en, re, fr, g2, ca
<1>5. e \in ElementOf /\ (e.old = {} => e.key \in DOMAIN en)
  <2>1. Len(fr) \in 1..Len(fr) /\ e \in ElementOf
    BY <1>1, <1>2, FrontProperties
  <2>2. e = fr[Len(fr)]
    BY DEF Last
  <2> QED BY <1>1, <1>2, <2>1, <2>2, LiveMembers
<1>6. e.key \in Keys /\ e.key \in ks /\ Last(fr).key \in ks
  BY <1>5 DEF ElementOf
<1> HIDE DEF e
<1>7. D \in Seq(Keys)
  <2>1. <<e.key>> \o g2 \in Seq(Keys)
    BY <1>1, <1>6
  <2> QED BY <2>1, CappedType
<1>8. G \in SUBSET CallOf(Keys, Values)
  <2>1. told \subseteq CallOf(Keys, Values)
    BY <1>5, ToldType DEF Events, en
  <2> QED BY <1>1, <2>1
<1> HIDE DEF ks, told
<1>9. A \in Maps /\ DOMAIN A = DOMAIN en \ ks
  BY <1>1, DropType
<1>10. B \in Seq(ElementOf) /\ Len(B) = Len(re) /\ Live(B) = Live(re) \ ks /\ Once(B)
  BY <1>1, <1>2, DetachedAll
<1>11. C \in Seq(ElementOf) /\ Live(C) = Live(fr) \ ks
  BY <1>1, <1>2, <1>6, DetachedFront
<1> HIDE DEF A, B, C, D, G
<1>12. R \in StateOf
  BY <1>1, <1>7, <1>8, <1>9, <1>10, <1>11, CacheIsState
<1>13. /\ R.entries = A /\ R.recent = B /\ R.frequent = C /\ R.p = T.p /\ R.calls = G
  BY CacheFields
<1> HIDE DEF R
<1>14. Agree(R)
  BY <1>2, <1>9, <1>10, <1>11, <1>13 DEF Agree
<1>15. EvictionOf(T, R, e)
  BY <1>5, <1>11, <1>12, <1>13, <1>14 DEF EvictionOf, Sound, A, G, en, ca, ks, told, fr
<1>16. Len(R.recent) = Len(T.recent)
  BY <1>10, <1>13 DEF re
<1> QED BY <1>3, <1>4, <1>15, <1>16 DEF e, fr

--------------------------------------------------------------------------------
(* What the other operations leave.                                        *)

LEMMA PromoteIs ==
  ASSUME NEW en, NEW re, NEW fr, NEW g1, NEW g2, NEW q, NEW ca, NEW k
  PROVE  Promote(Cache(en, re, fr, g1, g2, q, ca), k)
           = Cache(en, TakeOff(re, Element(k)), <<Element(k)>> \o fr, g1, g2, q, ca)
<1> DEFINE T == Cache(en, re, fr, g1, g2, q, ca)
           B == TakeOff(re, Element(k))
           C == <<Element(k)>> \o fr
<1>1. T.recent = re /\ T.frequent = fr
  BY CacheFields
<1>2. Promote(T, k) = [T EXCEPT !.recent = B, !.frequent = C]
  BY ONLY <1>1 DEF Promote
<1> HIDE DEF B, C
<1>3. [T EXCEPT !.recent = B] = Cache(en, B, fr, g1, g2, q, ca)
  BY DEF Cache
<1>4. [Cache(en, B, fr, g1, g2, q, ca) EXCEPT !.frequent = C] = Cache(en, B, C, g1, g2, q, ca)
  BY DEF Cache
<1> HIDE DEF T
<1>5. Promote(T, k) = Cache(en, B, C, g1, g2, q, ca)
  BY ONLY <1>2, <1>3, <1>4
<1> QED BY <1>5 DEF T, B, C

LEMMA MeetGhostsIs ==
  ASSUME NEW en, NEW re, NEW fr, NEW g1, NEW g2, NEW q, NEW ca, NEW k
  PROVE  LET T == Cache(en, re, fr, g1, g2, q, ca)
         IN MeetGhosts(T, k)
              = Cache(en, re, fr, TakeOff(g1, k), TakeOff(g2, k),
                      IF policy = "ARC" THEN Target(T, k) ELSE q, ca)
<1> DEFINE T == Cache(en, re, fr, g1, g2, q, ca)
           B == TakeOff(g1, k)
           C == TakeOff(g2, k)
           D == IF policy = "ARC" THEN Target(T, k) ELSE q
<1>1. T.b1 = g1 /\ T.b2 = g2 /\ T.p = q
  BY CacheFields
<1> HIDE DEF T
<1>2. MeetGhosts(T, k) = [T EXCEPT !.b1 = B, !.b2 = C, !.p = D]
  BY ONLY <1>1 DEF MeetGhosts
<1> HIDE DEF B, C, D
<1>3. [T EXCEPT !.b1 = B] = Cache(en, re, fr, B, g2, q, ca)
  BY DEF Cache, T
<1>4. [Cache(en, re, fr, B, g2, q, ca) EXCEPT !.b2 = C] = Cache(en, re, fr, B, C, q, ca)
  BY DEF Cache
<1>5. [Cache(en, re, fr, B, C, q, ca) EXCEPT !.p = D] = Cache(en, re, fr, B, C, D, ca)
  BY DEF Cache
<1>6. MeetGhosts(T, k) = Cache(en, re, fr, B, C, D, ca)
  BY ONLY <1>2, <1>3, <1>4, <1>5
<1> QED BY <1>6 DEF T, B, C, D

\* The EXCEPTs of the operations.
Quiet(T) == [T EXCEPT !.calls = {}]
Updated(T, k, ent) == [T EXCEPT !.entries = Put(@, k, ent), !.calls = {}]
Entered(T, k, ent) == [T EXCEPT !.entries = Put(@, k, ent), !.recent = <<Element(k)>> \o @]

LEMMA QuietIs ==
  ASSUME NEW en, NEW re, NEW fr, NEW g1, NEW g2, NEW q, NEW ca
  PROVE  Quiet(Cache(en, re, fr, g1, g2, q, ca)) = Cache(en, re, fr, g1, g2, q, {})
BY DEF Quiet, Cache

LEMMA UpdatedIs ==
  ASSUME NEW en, NEW re, NEW fr, NEW g1, NEW g2, NEW q, NEW ca, NEW k, NEW ent
  PROVE  Updated(Cache(en, re, fr, g1, g2, q, ca), k, ent)
           = Cache(Put(en, k, ent), re, fr, g1, g2, q, {})
<1> DEFINE T == Cache(en, re, fr, g1, g2, q, ca)
           A == Put(en, k, ent)
<1>1. T.entries = en
  BY CacheFields
<1>2. Updated(T, k, ent) = [T EXCEPT !.entries = A, !.calls = {}]
  BY ONLY <1>1 DEF Updated
<1> HIDE DEF A
<1>3. [T EXCEPT !.entries = A] = Cache(A, re, fr, g1, g2, q, ca)
  BY DEF Cache
<1>4. [Cache(A, re, fr, g1, g2, q, ca) EXCEPT !.calls = {}] = Cache(A, re, fr, g1, g2, q, {})
  BY DEF Cache
<1> HIDE DEF T
<1>5. Updated(T, k, ent) = Cache(A, re, fr, g1, g2, q, {})
  BY ONLY <1>2, <1>3, <1>4
<1> QED BY ONLY <1>5 DEF T, A

LEMMA EnteredIs ==
  ASSUME NEW en, NEW re, NEW fr, NEW g1, NEW g2, NEW q, NEW ca, NEW k, NEW ent
  PROVE  Entered(Cache(en, re, fr, g1, g2, q, ca), k, ent)
           = Cache(Put(en, k, ent), <<Element(k)>> \o re, fr, g1, g2, q, ca)
<1> DEFINE T == Cache(en, re, fr, g1, g2, q, ca)
           A == Put(en, k, ent)
           B == <<Element(k)>> \o re
<1>1. T.entries = en /\ T.recent = re
  BY CacheFields
<1>2. Entered(T, k, ent) = [T EXCEPT !.entries = A, !.recent = B]
  BY ONLY <1>1 DEF Entered
<1> HIDE DEF A, B
<1>3. [T EXCEPT !.entries = A] = Cache(A, re, fr, g1, g2, q, ca)
  BY DEF Cache
<1>4. [Cache(A, re, fr, g1, g2, q, ca) EXCEPT !.recent = B] = Cache(A, B, fr, g1, g2, q, ca)
  BY DEF Cache
<1> HIDE DEF T
<1>5. Entered(T, k, ent) = Cache(A, B, fr, g1, g2, q, ca)
  BY ONLY <1>2, <1>3, <1>4
<1> QED BY ONLY <1>5 DEF T, A, B

LEMMA RemovedIs ==
  ASSUME NEW en, NEW re, NEW fr, NEW g1, NEW g2, NEW q, NEW ca, NEW k
  PROVE  LET T == Cache(en, re, fr, g1, g2, q, ca)
         IN Removed(T, k)
              = Cache(Drop(en, {k}), Detached(TakeOff(re, Element(k)), en, {k}),
                      Detached(fr, en, {k}), g1, g2, q, Told(T, {Element(k)}, "Expiration"))
<1> DEFINE T == Cache(en, re, fr, g1, g2, q, ca)
           A == Drop(en, {k})
           rest == TakeOff(re, Element(k))
           B == Detached(rest, en, {k})
           C == Detached(fr, en, {k})
           D == Told(T, {Element(k)}, "Expiration")
           S == [T EXCEPT !.recent = rest]
           F == Forget(S, {k})
<1>1. T.recent = re
  BY CacheFields
<1> HIDE DEF T
<1>2. S = [T EXCEPT !.recent = TakeOff(@, Element(k))]
  BY ONLY <1>1 DEF S
<1>3. Removed(T, k) = [F EXCEPT !.calls = D]
  BY ONLY <1>2 DEF Removed
<1>4. S = Cache(en, rest, fr, g1, g2, q, ca)
  <2> HIDE DEF rest
  <2> QED BY DEF Cache, T
<1>5. F = Cache(A, B, C, g1, g2, q, ca)
  <2> HIDE DEF rest, S
  <2> QED BY <1>4, ForgetIs
<1> HIDE DEF F, A, B, C, D
<1>6. [F EXCEPT !.calls = D] = Cache(A, B, C, g1, g2, q, D)
  BY <1>5 DEF Cache
<1>7. Removed(T, k) = Cache(A, B, C, g1, g2, q, D)
  BY ONLY <1>3, <1>6
<1> QED BY ONLY <1>7 DEF T, A, B, C, D, rest

SweptOf(T, stale, ks) ==
  [Forget([T EXCEPT !.recent = Swept(@, stale)], ks) EXCEPT !.calls = Told(T, stale, "Expiration")]

LEMMA SweptOfIs ==
  ASSUME NEW en, NEW re, NEW fr, NEW g1, NEW g2, NEW q, NEW ca, NEW stale, NEW ks
  PROVE  LET T == Cache(en, re, fr, g1, g2, q, ca)
         IN SweptOf(T, stale, ks)
              = Cache(Drop(en, ks), Detached(Swept(re, stale), en, ks),
                      Detached(fr, en, ks), g1, g2, q, Told(T, stale, "Expiration"))
<1> DEFINE T == Cache(en, re, fr, g1, g2, q, ca)
           A == Drop(en, ks)
           rest == Swept(re, stale)
           B == Detached(rest, en, ks)
           C == Detached(fr, en, ks)
           D == Told(T, stale, "Expiration")
           S == [T EXCEPT !.recent = rest]
           F == Forget(S, ks)
<1>1. T.recent = re
  BY CacheFields
<1> HIDE DEF T
<1>2. S = [T EXCEPT !.recent = Swept(@, stale)]
  BY ONLY <1>1 DEF S
<1>3. S = Cache(en, rest, fr, g1, g2, q, ca)
  <2> HIDE DEF rest
  <2> QED BY DEF Cache, T
<1>4. F = Cache(A, B, C, g1, g2, q, ca)
  <2> HIDE DEF rest, S
  <2> QED BY <1>3, ForgetIs
<1>5. SweptOf(T, stale, ks) = [F EXCEPT !.calls = D]
  BY ONLY <1>2 DEF F, SweptOf
<1> HIDE DEF F, A, B, C, D
<1>6. [F EXCEPT !.calls = D] = Cache(A, B, C, g1, g2, q, D)
  BY <1>4 DEF Cache
<1>7. SweptOf(T, stale, ks) = Cache(A, B, C, g1, g2, q, D)
  BY ONLY <1>5, <1>6
<1> QED BY ONLY <1>7 DEF A, B, C, D, rest, T

\* How many entries there can be at most.
Room(T) == Len(T.recent) + Cardinality(Live(T.frequent))

LEMMA RoomBoundsEntries ==
  ASSUME NEW T, Sound(T)
  PROVE  /\ Len(T.recent) \in Nat /\ Cardinality(Live(T.frequent)) \in Nat
         /\ IsFiniteSet(DOMAIN T.entries) /\ Cardinality(DOMAIN T.entries) \in Nat
         /\ Cardinality(DOMAIN T.entries) <= Room(T)
<1> DEFINE R == Live(T.recent)
           F == Live(T.frequent)
<1>1. T.recent \in Seq(ElementOf) /\ T.frequent \in Seq(ElementOf)
  BY DEF Sound, StateOf
<1>2. /\ IsFiniteSet(R) /\ Cardinality(R) \in Nat /\ Cardinality(R) <= Len(T.recent)
      /\ IsFiniteSet(F) /\ Cardinality(F) \in Nat /\ Len(T.recent) \in Nat
  BY <1>1, LiveIsFinite
<1>3. R \cup F = DOMAIN T.entries /\ R \cap F = {}
  BY DEF Sound, Agree
<1> HIDE DEF R, F
<1>4. IsFiniteSet(R \cup F) /\ Cardinality(R \cup F) = Cardinality(R) + Cardinality(F) - Cardinality(R \cap F)
  BY <1>2, FS_Union
<1>5. Cardinality(R \cap F) = 0
  BY <1>3, FS_EmptySet
<1>6. Cardinality(DOMAIN T.entries) = Cardinality(R) + Cardinality(F)
  <2>1. Cardinality(R \cup F) = Cardinality(R) + Cardinality(F)
    BY <1>2, <1>4, <1>5
  <2> QED BY ONLY <1>3, <2>1
<1>7. Room(T) = Len(T.recent) + Cardinality(F)
  BY DEF Room, F
<1> DEFINE n == Cardinality(DOMAIN T.entries)
           room == Room(T)
           len == Len(T.recent)
<1>8. n \in Nat /\ n <= room
  <2> HIDE DEF n, room, len
  <2>1. n = Cardinality(R) + Cardinality(F) /\ room = len + Cardinality(F) /\ len \in Nat /\ Cardinality(R) <= len
    BY <1>2, <1>6, <1>7 DEF n, room, len
  <2> QED BY <1>2, <2>1
<1> QED BY <1>2, <1>3, <1>4, <1>8 DEF F

\* A hit.
LEMMA PromoteSound ==
  ASSUME NEW T, Sound(T), NEW k \in DOMAIN T.entries
  PROVE  LET R == Promote(T, k)
         IN Sound(R) /\ R.entries = T.entries /\ R.calls = T.calls /\ Room(R) <= Room(T)
<1> DEFINE en == T.entries
           re == T.recent
           fr == T.frequent
<1>1. /\ en \in Maps /\ re \in Seq(ElementOf) /\ fr \in Seq(ElementOf)
      /\ T.b1 \in Seq(Keys) /\ T.b2 \in Seq(Keys) /\ T.p \in 0..MaxEntries
      /\ T.calls \in SUBSET CallOf(Keys, Values)
      /\ T = Cache(en, re, fr, T.b1, T.b2, T.p, T.calls)
  BY StateIsCache DEF Sound
<1>2. /\ Live(re) \cup Live(fr) = DOMAIN en /\ Live(re) \cap Live(fr) = {}
      /\ Once(re)
  BY DEF Sound, Agree
<1>3. k \in Keys /\ k \in DOMAIN en
  BY <1>1 DEF Maps
<1> DEFINE B == TakeOff(re, Element(k))
           C == <<Element(k)>> \o fr
           R == Cache(en, B, C, T.b1, T.b2, T.p, T.calls)
<1> HIDE DEF en, re, fr
<1>4. Promote(T, k) = R
  <2>1. Promote(Cache(en, re, fr, T.b1, T.b2, T.p, T.calls), k) = R
    BY PromoteIs
  <2> QED BY <1>1, <2>1
<1>5. /\ B \in Seq(ElementOf) /\ Live(B) = Live(re) \ {k} /\ Once(B)
      /\ Len(B) = IF k \in Live(re) THEN Len(re) - 1 ELSE Len(re)
  BY <1>1, <1>2, <1>3, TakeOffElement
<1>6. C \in Seq(ElementOf) /\ Live(C) = Live(fr) \cup {k}
  BY <1>1, <1>3, PushElement
<1> HIDE DEF B, C
<1>7. R \in StateOf
  BY <1>1, <1>5, <1>6, CacheIsState
<1>8. R.entries = en /\ R.recent = B /\ R.frequent = C /\ R.calls = T.calls
  BY CacheFields
<1> HIDE DEF R
<1>9. Agree(R)
  BY <1>2, <1>3, <1>5, <1>6, <1>8 DEF Agree
<1>10. Room(R) <= Room(T)
  <2>1. IsFiniteSet(Live(fr)) /\ Cardinality(Live(fr)) \in Nat /\ Len(re) \in Nat
    BY <1>1, LiveIsFinite
  <2>2. Cardinality(Live(fr) \cup {k})
          = IF k \in Live(fr) THEN Cardinality(Live(fr)) ELSE Cardinality(Live(fr)) + 1
    BY <2>1, FS_AddElement
  <2>3. k \in Live(re) \/ k \in Live(fr)
    BY <1>2, <1>3
  <2>4. Room(R) = Len(B) + Cardinality(Live(fr) \cup {k})
    BY <1>6, <1>8 DEF Room
  <2>5. Room(T) = Len(re) + Cardinality(Live(fr))
    BY DEF Room, re, fr
  <2>6. CASE k \in Live(fr)
    <3>1. k \notin Live(re)
      BY <1>2, <2>6
    <3> QED BY <1>5, <2>1, <2>2, <2>4, <2>5, <2>6, <3>1
  <2>7. CASE k \notin Live(fr)
    <3>1. k \in Live(re)
      BY <2>3, <2>7
    <3> QED BY <1>5, <2>1, <2>2, <2>4, <2>5, <2>7, <3>1
  <2> QED BY <2>6, <2>7
<1> QED BY <1>4, <1>7, <1>8, <1>9, <1>10 DEF Sound, en

\* No callback.
LEMMA QuietSound ==
  ASSUME NEW T, Sound(T)
  PROVE  LET R == Quiet(T)
         IN /\ Sound(R) /\ R.calls = {} /\ R.entries = T.entries
            /\ R.recent = T.recent /\ R.frequent = T.frequent
            /\ Room(R) = Room(T)
<1>1. /\ T.entries \in Maps /\ T.recent \in Seq(ElementOf) /\ T.frequent \in Seq(ElementOf)
      /\ T.b1 \in Seq(Keys) /\ T.b2 \in Seq(Keys) /\ T.p \in 0..MaxEntries
      /\ {} \in SUBSET CallOf(Keys, Values)
      /\ T = Cache(T.entries, T.recent, T.frequent, T.b1, T.b2, T.p, T.calls)
  BY StateIsCache DEF Sound
<1> DEFINE Q == Cache(T.entries, T.recent, T.frequent, T.b1, T.b2, T.p, {})
<1>2. Quiet(T) = Q
  <2> DEFINE U == Cache(T.entries, T.recent, T.frequent, T.b1, T.b2, T.p, T.calls)
  <2>1. Quiet(U) = Q
    BY QuietIs
  <2>2. T = U
    BY <1>1
  <2> HIDE DEF U, Q
  <2> QED BY ONLY <2>1, <2>2
<1>3. Q.entries = T.entries /\ Q.recent = T.recent /\ Q.frequent = T.frequent /\ Q.calls = {}
  BY CacheFields
<1>4. Q \in StateOf
  BY <1>1, CacheIsState
<1> HIDE DEF Q
<1>5. Agree(Q) /\ Room(Q) = Room(T)
  BY <1>3 DEF Sound, Agree, Room
<1> QED BY <1>2, <1>3, <1>4, <1>5 DEF Sound

\* A new value for a key that is there.
LEMMA UpdateSound ==
  ASSUME NEW T, Sound(T), NEW k \in DOMAIN T.entries, NEW ent \in EntryOf(Values)
  PROVE  LET R == Updated(T, k, ent)
         IN /\ Sound(R) /\ R.calls = {} /\ R.entries = Put(T.entries, k, ent)
            /\ R.recent = T.recent /\ R.frequent = T.frequent
            /\ Room(R) = Room(T)
<1>1. /\ T.entries \in Maps /\ T.recent \in Seq(ElementOf) /\ T.frequent \in Seq(ElementOf)
      /\ T.b1 \in Seq(Keys) /\ T.b2 \in Seq(Keys) /\ T.p \in 0..MaxEntries
      /\ {} \in SUBSET CallOf(Keys, Values)
      /\ T = Cache(T.entries, T.recent, T.frequent, T.b1, T.b2, T.p, T.calls)
  BY StateIsCache DEF Sound
<1> DEFINE map == T.entries
           A == Put(map, k, ent)
           R == Cache(A, T.recent, T.frequent, T.b1, T.b2, T.p, {})
<1>2. Updated(T, k, ent) = R
  <2> DEFINE U == Cache(T.entries, T.recent, T.frequent, T.b1, T.b2, T.p, T.calls)
  <2>1. Updated(U, k, ent) = R
    BY UpdatedIs
  <2>2. T = U
    BY <1>1
  <2> HIDE DEF U, R
  <2> QED BY ONLY <2>1, <2>2
<1>3. map \in Maps /\ k \in Keys /\ k \in DOMAIN map
  BY <1>1 DEF Maps
<1> HIDE DEF map
<1>4. A \in Maps /\ DOMAIN A = DOMAIN map
  <2>1. A \in Maps /\ DOMAIN A = DOMAIN map \cup {k}
    BY <1>3, PutType
  <2>2. DOMAIN map \cup {k} = DOMAIN map
    BY <1>3
  <2> QED BY ONLY <2>1, <2>2
<1> HIDE DEF A
<1>5. R.entries = A /\ R.recent = T.recent /\ R.frequent = T.frequent /\ R.calls = {}
  BY CacheFields
<1>6. R \in StateOf
  BY <1>1, <1>4, CacheIsState
<1> HIDE DEF R
<1>7. Agree(R) /\ Room(R) = Room(T)
  BY <1>4, <1>5 DEF Sound, Agree, Room, map
<1> QED BY <1>2, <1>5, <1>6, <1>7 DEF Sound, A, map

\* ARC's target stays between 0 and maxEntries.
LEMMA TargetInBounds ==
  ASSUME NEW T \in StateOf, NEW k
  PROVE  Target(T, k) \in 0..MaxEntries
<1> DEFINE n1 == Len(TakeOff(T.b1, k))
           n2 == Len(TakeOff(T.b2, k))
           Share(m, n) == IF n > 0 /\ m \div n > 1 THEN m \div n ELSE 1
           up == T.p + Share(n2, n1)
           down == T.p - Share(n1, n2)
<1>1. n1 \in Nat /\ n2 \in Nat /\ T.p \in 0..MaxEntries /\ MaxEntries \in Nat
  <2>1. T.b1 \in Seq(Keys) /\ T.b2 \in Seq(Keys) /\ T.p \in 0..MaxEntries
    BY DEF StateOf
  <2> QED BY <2>1, TakeOffProperties, GhostAssumption
<1>2. Target(T, k) = IF k \in ToSet(T.b1) THEN IF up < MaxEntries THEN up ELSE MaxEntries
                     ELSE IF k \in ToSet(T.b2) THEN IF down > 0 THEN down ELSE 0
                     ELSE T.p
  BY DEF Target
<1> HIDE DEF n1, n2
<1>3. \A m, n \in Nat : n > 0 => m \div n \in Nat
  OBVIOUS
<1>4. \A m, n \in Nat : Share(m, n) \in Nat /\ Share(m, n) >= 1
  BY <1>3
<1> DEFINE s2 == Share(n2, n1)
           s1 == Share(n1, n2)
<1>5. s1 \in Nat /\ s2 \in Nat
  BY <1>1, <1>4
<1> HIDE DEF s1, s2
<1>6. up \in Nat /\ down \in Int /\ down <= T.p
  <2>1. up = T.p + s2 /\ down = T.p - s1
    BY DEF s1, s2
  <2> QED BY <1>1, <1>5, <2>1
<1> HIDE DEF up, down
<1> QED BY <1>1, <1>2, <1>6

LEMMA MeetGhostsSound ==
  ASSUME NEW T, Sound(T), NEW k
  PROVE  LET R == MeetGhosts(T, k)
         IN /\ Sound(R) /\ R.entries = T.entries /\ R.calls = T.calls
            /\ R.recent = T.recent /\ R.frequent = T.frequent
<1>1. /\ T.entries \in Maps /\ T.recent \in Seq(ElementOf) /\ T.frequent \in Seq(ElementOf)
      /\ T.b1 \in Seq(Keys) /\ T.b2 \in Seq(Keys) /\ T.p \in 0..MaxEntries
      /\ T.calls \in SUBSET CallOf(Keys, Values) /\ T \in StateOf
      /\ T = Cache(T.entries, T.recent, T.frequent, T.b1, T.b2, T.p, T.calls)
  BY StateIsCache DEF Sound
<1> DEFINE B == TakeOff(T.b1, k)
           C == TakeOff(T.b2, k)
           D == IF policy = "ARC" THEN Target(T, k) ELSE T.p
           R == Cache(T.entries, T.recent, T.frequent, B, C, D, T.calls)
<1>2. MeetGhosts(T, k) = R
  <2> DEFINE U == Cache(T.entries, T.recent, T.frequent, T.b1, T.b2, T.p, T.calls)
  <2>1. MeetGhosts(U, k)
          = Cache(T.entries, T.recent, T.frequent, B, C,
                  IF policy = "ARC" THEN Target(U, k) ELSE T.p, T.calls)
    BY MeetGhostsIs
  <2>2. T = U
    BY <1>1
  <2> HIDE DEF U
  <2> QED BY ONLY <2>1, <2>2
<1>3. B \in Seq(Keys) /\ C \in Seq(Keys)
  BY <1>1, TakeOffProperties
<1>4. D \in 0..MaxEntries
  BY <1>1, TargetInBounds
<1> HIDE DEF B, C, D
<1>5. R \in StateOf
  BY <1>1, <1>3, <1>4, CacheIsState
<1>6. /\ R.entries = T.entries /\ R.calls = T.calls
      /\ R.recent = T.recent /\ R.frequent = T.frequent
  BY CacheFields
<1> HIDE DEF R
<1>7. Agree(R)
  BY <1>6 DEF Sound, Agree
<1> QED BY <1>2, <1>5, <1>6, <1>7 DEF Sound

\* A new key enters.
LEMMA EnterSound ==
  ASSUME NEW T, Sound(T), NEW k \in Keys, k \notin DOMAIN T.entries, NEW ent \in EntryOf(Values)
  PROVE  LET R == Entered(T, k, ent)
         IN /\ Sound(R) /\ R.entries = Put(T.entries, k, ent) /\ R.calls = T.calls
            /\ R.recent # <<>> /\ Len(R.recent) = Len(T.recent) + 1
            /\ R.frequent = T.frequent /\ R.p = T.p
<1> DEFINE en == T.entries
           re == T.recent
           fr == T.frequent
<1>1. /\ en \in Maps /\ re \in Seq(ElementOf) /\ fr \in Seq(ElementOf)
      /\ T.b1 \in Seq(Keys) /\ T.b2 \in Seq(Keys) /\ T.p \in 0..MaxEntries
      /\ T.calls \in SUBSET CallOf(Keys, Values)
      /\ T = Cache(en, re, fr, T.b1, T.b2, T.p, T.calls)
  BY StateIsCache DEF Sound
<1>2. /\ Live(re) \cup Live(fr) = DOMAIN en /\ Live(re) \cap Live(fr) = {}
      /\ Once(re) /\ k \notin DOMAIN en
  BY DEF Sound, Agree
<1> DEFINE A == Put(en, k, ent)
           B == <<Element(k)>> \o re
           R == Cache(A, B, fr, T.b1, T.b2, T.p, T.calls)
<1> HIDE DEF en, re, fr
<1>3. Entered(T, k, ent) = R
  <2> DEFINE U == Cache(en, re, fr, T.b1, T.b2, T.p, T.calls)
  <2>1. Entered(U, k, ent) = R
    BY EnteredIs
  <2>2. T = U
    BY <1>1
  <2> HIDE DEF U, R
  <2> QED BY ONLY <2>1, <2>2
<1>4. A \in Maps /\ DOMAIN A = DOMAIN en \cup {k}
  BY <1>1, PutType
<1>5. B \in Seq(ElementOf) /\ Len(B) = Len(re) + 1 /\ Live(B) = Live(re) \cup {k} /\ Once(B)
  BY <1>1, <1>2, PushElement
<1>6. B # <<>>
  BY <1>1, <1>5
<1> HIDE DEF A, B
<1>7. R \in StateOf
  BY <1>1, <1>4, <1>5, CacheIsState
<1>8. R.entries = A /\ R.recent = B /\ R.frequent = fr /\ R.calls = T.calls /\ R.p = T.p
  BY CacheFields
<1> HIDE DEF R
<1>9. Agree(R)
  BY <1>2, <1>4, <1>5, <1>8 DEF Agree
<1> QED BY <1>3, <1>5, <1>6, <1>7, <1>8, <1>9 DEF Sound, A, en, re, fr

\* An expired entry goes when Get finds it.
LEMMA RemovedSound ==
  ASSUME NEW T, Sound(T), NEW k \in DOMAIN T.entries
  PROVE  LET R == Removed(T, k)
         IN /\ Sound(R) /\ R.entries = Drop(T.entries, {k})
            /\ R.calls = Told(T, {Element(k)}, "Expiration")
            /\ Room(R) <= Room(T)
<1> DEFINE en == T.entries
           re == T.recent
           fr == T.frequent
           ks == {k}
           told == Told(T, {Element(k)}, "Expiration")
<1>1. /\ en \in Maps /\ re \in Seq(ElementOf) /\ fr \in Seq(ElementOf)
      /\ T.b1 \in Seq(Keys) /\ T.b2 \in Seq(Keys) /\ T.p \in 0..MaxEntries
      /\ T = Cache(en, re, fr, T.b1, T.b2, T.p, T.calls)
  BY StateIsCache DEF Sound
<1>2. /\ Live(re) \cup Live(fr) = DOMAIN en /\ Live(re) \cap Live(fr) = {}
      /\ Once(re)
  BY DEF Sound, Agree
<1>3. k \in Keys /\ k \in DOMAIN en
  BY <1>1 DEF Maps
<1>4. told \in SUBSET CallOf(Keys, Values)
  <2>1. Element(k) \in ElementOf /\ Element(k).key \in DOMAIN en
    BY <1>3, ElementIsLive
  <2> QED BY <2>1, ToldType DEF Events
<1> DEFINE rest == TakeOff(re, Element(k))
           A == Drop(en, ks)
           B == Detached(rest, en, ks)
           C == Detached(fr, en, ks)
           R == Cache(A, B, C, T.b1, T.b2, T.p, told)
<1> HIDE DEF en, re, fr, told
<1>5. Removed(T, k) = R
  <2> DEFINE U == Cache(en, re, fr, T.b1, T.b2, T.p, T.calls)
  <2>1. Removed(U, k) = Cache(A, B, C, T.b1, T.b2, T.p, Told(U, {Element(k)}, "Expiration"))
    BY RemovedIs
  <2>2. T = U
    BY <1>1
  <2> HIDE DEF U
  <2> QED BY ONLY <2>1, <2>2 DEF told
<1>6. /\ rest \in Seq(ElementOf) /\ Live(rest) = Live(re) \ {k} /\ Once(rest)
      /\ Len(rest) = IF k \in Live(re) THEN Len(re) - 1 ELSE Len(re)
  BY <1>1, <1>2, <1>3, TakeOffElement
<1>7. Live(re) \ {k} = Live(re) \ ks
  OBVIOUS
<1> HIDE DEF ks, rest
<1>8. B \in Seq(ElementOf) /\ Len(B) = Len(rest) /\ Live(B) = Live(rest) \ ks /\ Once(B)
  <2>1. Live(rest) \subseteq DOMAIN en
    BY <1>2, <1>6
  <2> QED BY <1>1, <1>6, <2>1, DetachedAll
<1>9. C \in Seq(ElementOf) /\ Live(C) = Live(fr) \ ks
  BY <1>1, <1>2, DetachedAll
<1>10. A \in Maps /\ DOMAIN A = DOMAIN en \ ks
  BY <1>1, DropType
<1> HIDE DEF A, B, C
<1>11. R \in StateOf
  BY <1>1, <1>4, <1>8, <1>9, <1>10, CacheIsState
<1>12. R.entries = A /\ R.recent = B /\ R.frequent = C /\ R.calls = told
  BY CacheFields
<1> HIDE DEF R
<1>13. Agree(R)
  BY <1>2, <1>6, <1>7, <1>8, <1>9, <1>10, <1>12 DEF Agree
<1>14. Room(R) <= Room(T)
  <2>1. IsFiniteSet(Live(fr)) /\ Cardinality(Live(fr)) \in Nat /\ Len(re) \in Nat
    BY <1>1, LiveIsFinite
  <2>2. Cardinality(Live(fr) \ ks) \in Nat /\ Cardinality(Live(fr) \ ks) <= Cardinality(Live(fr))
    <3>1. Live(fr) \ ks \in SUBSET Live(fr)
      OBVIOUS
    <3> QED BY <2>1, <3>1, FS_Subset, FS_CardinalityType
  <2>3. Room(R) = Len(B) + Cardinality(Live(fr) \ ks) /\ Room(T) = Len(re) + Cardinality(Live(fr))
    BY <1>9, <1>12 DEF Room, re, fr
  <2>4. Len(B) \in Nat /\ Len(B) <= Len(re)
    BY <1>6, <1>8, <2>1
  <2> QED BY <2>1, <2>2, <2>3, <2>4
<1> QED BY <1>5, <1>11, <1>12, <1>13, <1>14 DEF Sound, A, en, ks, told

\* A sweep.
LEMMA StaleElements ==
  ASSUME Sound(c), NEW stale, stale = StaleIn(c.recent) \cup StaleIn(c.frequent)
  PROVE  /\ stale \in SUBSET ElementOf
         /\ \A e \in stale : e.old = {} => e.key \in DOMAIN c.entries
<1>1. ASSUME NEW list \in Seq(ElementOf), Live(list) \subseteq DOMAIN c.entries, NEW e \in StaleIn(list)
      PROVE  e \in ElementOf /\ (e.old = {} => e.key \in DOMAIN c.entries)
  <2>1. PICK i \in 1..Len(list) : list[i] = e
    <3>1. DOMAIN list = 1..Len(list)
      OBVIOUS
    <3> QED BY <1>1, <3>1 DEF StaleIn, ToSet
  <2> QED BY <1>1, <2>1, LiveMembers
<1>2. /\ c.recent \in Seq(ElementOf) /\ Live(c.recent) \subseteq DOMAIN c.entries
      /\ c.frequent \in Seq(ElementOf) /\ Live(c.frequent) \subseteq DOMAIN c.entries
  BY DEF Sound, StateOf, Agree
<1> QED BY <1>1, <1>2

LEMMA SweepSound ==
  ASSUME Sound(c), NEW stale, stale = StaleIn(c.recent) \cup StaleIn(c.frequent),
         NEW ks, ks = {e.key : e \in stale}
  PROVE  LET R == SweepLists
         IN /\ Sound(R) /\ R.entries = Drop(c.entries, ks)
            /\ R.calls = Told(c, stale, "Expiration")
            /\ Room(R) <= Room(c)
<1> DEFINE en == c.entries
           re == c.recent
           fr == c.frequent
           told == Told(c, stale, "Expiration")
<1>1. /\ en \in Maps /\ re \in Seq(ElementOf) /\ fr \in Seq(ElementOf)
      /\ c.b1 \in Seq(Keys) /\ c.b2 \in Seq(Keys) /\ c.p \in 0..MaxEntries
      /\ c = Cache(en, re, fr, c.b1, c.b2, c.p, c.calls)
  BY StateIsCache DEF Sound
<1>2. /\ Live(re) \cup Live(fr) = DOMAIN en /\ Live(re) \cap Live(fr) = {}
      /\ Once(re)
  BY DEF Sound, Agree
<1>3. told \in SUBSET CallOf(Keys, Values)
  BY StaleElements, ToldType DEF Events
<1>4. \A e \in stale : e.key \in ks
  OBVIOUS
<1> DEFINE A == Drop(en, ks)
           B == Detached(Swept(re, stale), en, ks)
           C == Detached(fr, en, ks)
           R == Cache(A, B, C, c.b1, c.b2, c.p, told)
<1>5. SweepLists = R
  <2>1. SweepLists = SweptOf(c, stale, ks)
    BY DEF SweepLists, SweptOf
  <2> DEFINE U == Cache(en, re, fr, c.b1, c.b2, c.p, c.calls)
  <2> HIDE DEF en, re, fr
  <2>2. SweptOf(U, stale, ks)
          = Cache(A, B, C, c.b1, c.b2, c.p, Told(U, stale, "Expiration"))
    BY SweptOfIs
  <2>3. c = U
    BY <1>1
  <2> HIDE DEF U
  <2> QED BY ONLY <2>1, <2>2, <2>3 DEF told
<1> HIDE DEF en, re, fr, told
<1>6. B \in Seq(ElementOf) /\ Len(B) <= Len(re) /\ Live(B) = Live(re) \ ks /\ Once(B)
  BY ONLY <1>1, <1>2, <1>4, DetachedSwept
<1>7. C \in Seq(ElementOf) /\ Live(C) = Live(fr) \ ks
  BY <1>1, <1>2, DetachedAll
<1>8. A \in Maps /\ DOMAIN A = DOMAIN en \ ks
  BY <1>1, DropType
<1> HIDE DEF A, B, C
<1>9. R \in StateOf
  BY <1>1, <1>3, <1>6, <1>7, <1>8, CacheIsState
<1>10. R.entries = A /\ R.recent = B /\ R.frequent = C /\ R.calls = told
  BY CacheFields
<1> HIDE DEF R
<1>11. Agree(R)
  BY <1>2, <1>6, <1>7, <1>8, <1>10 DEF Agree
<1>12. Room(R) <= Room(c)
  <2>1. IsFiniteSet(Live(fr)) /\ Cardinality(Live(fr)) \in Nat /\ Len(re) \in Nat /\ Len(B) \in Nat
    BY <1>1, <1>6, LiveIsFinite
  <2>2. Cardinality(Live(fr) \ ks) \in Nat /\ Cardinality(Live(fr) \ ks) <= Cardinality(Live(fr))
    <3>1. Live(fr) \ ks \in SUBSET Live(fr)
      OBVIOUS
    <3> QED BY <2>1, <3>1, FS_Subset, FS_CardinalityType
  <2>3. Room(R) = Len(B) + Cardinality(Live(fr) \ ks) /\ Room(c) = Len(re) + Cardinality(Live(fr))
    BY <1>7, <1>10 DEF Room, re, fr
  <2> QED BY <1>6, <2>1, <2>2, <2>3
<1> QED BY <1>5, <1>9, <1>10, <1>11, <1>12 DEF Sound, A, en, told

\* An eviction, of whichever list.
LEMMA EvictSound ==
  ASSUME NEW T, Sound(T), T[VictimList(T)] # <<>>
  PROVE  \E e : /\ EvictionOf(T, Evict(T), e)
                /\ policy = "2Q" => Room(Evict(T)) <= Room(T) - 1
<1>1. CASE VictimList(T) = "recent"
  <2> DEFINE R == EvictFrom(T, "recent", "b1")
             e == Last(T.recent)
  <2>1. Evict(T) = R
    BY <1>1 DEF Evict
  <2>2. T.recent # <<>>
    BY <1>1
  <2>3. EvictionOf(T, R, e) /\ Len(R.recent) = Len(T.recent) - 1
    BY <2>2, EvictRecent
  <2> HIDE DEF R, e
  <2>4. Room(R) <= Room(T) - 1
    <3>1. Live(R.frequent) = Live(T.frequent) \ {e.key}
      BY <2>3 DEF EvictionOf
    <3> DEFINE F == Live(T.frequent)
               ks == {e.key}
               n == Len(T.recent)
               m == Cardinality(F)
    <3>2. IsFiniteSet(F) /\ m \in Nat /\ n \in Nat
      <4>1. T.frequent \in Seq(ElementOf) /\ T.recent \in Seq(ElementOf)
        BY DEF Sound, StateOf
      <4> QED BY <4>1, LiveIsFinite
    <3>3. Room(R) = (n - 1) + Cardinality(F \ ks) /\ Room(T) = n + m
      BY <2>3, <3>1 DEF Room
    <3> HIDE DEF F, ks, n
    <3>4. Cardinality(F \ ks) \in Nat /\ Cardinality(F \ ks) <= m
      <4>1. F \ ks \in SUBSET F
        OBVIOUS
      <4> QED BY <3>2, <4>1, FS_Subset, FS_CardinalityType
    <3> HIDE DEF m
    <3> QED BY <3>2, <3>3, <3>4
  <2> QED BY <2>1, <2>3, <2>4
<1>2. CASE VictimList(T) # "recent"
  <2>1. VictimList(T) = "frequent" /\ policy # "2Q"
    BY <1>2 DEF VictimList
  <2>2. Evict(T) = EvictFrom(T, "frequent", "b2") /\ T.frequent # <<>>
    BY <2>1 DEF Evict
  <2>3. EvictionOf(T, Evict(T), Last(T.frequent))
    BY <2>2, EvictFrequent
  <2> QED BY <2>1, <2>3
<1> QED BY <1>1, <1>2

\* With an element in the first list, a cache that holds too many has a victim.
LEMMA VictimFound ==
  ASSUME NEW T, Sound(T), T.recent # <<>>, Over(T)
  PROVE  T[VictimList(T)] # <<>>
<1> DEFINE n == Len(T.recent)
           m == Len(T.frequent)
           bound == IF T.p > 1 THEN T.p ELSE 1
<1>1. n \in Nat \ {0} /\ m \in Nat /\ T.p \in 0..MaxEntries /\ MaxEntries \in Nat /\ n + m > MaxEntries
  <2>1. T.recent \in Seq(ElementOf) /\ T.frequent \in Seq(ElementOf) /\ T.p \in 0..MaxEntries
    BY DEF Sound, StateOf
  <2>2. n \in Nat \ {0} /\ m \in Nat
    BY <2>1, FrontProperties
  <2>3. n + m > MaxEntries
    BY DEF Over
  <2> HIDE DEF n, m
  <2> QED BY <2>1, <2>2, <2>3, GhostAssumption
<1>2. VictimList(T) = IF policy = "2Q" \/ n >= bound THEN "recent" ELSE "frequent"
  BY DEF VictimList
<1>3. CASE policy = "2Q" \/ n >= bound
  BY <1>2, <1>3
<1>4. CASE ~(policy = "2Q" \/ n >= bound)
  <2> HIDE DEF n, m
  <2>1. m > 0
    BY <1>1, <1>4
  <2>2. Len(T.frequent) # 0
    BY <1>1, <2>1 DEF m
  <2>3. Len(<< >>) = 0
    OBVIOUS
  <2>4. T.frequent # <<>>
    BY <2>2, <2>3
  <2> QED BY <1>2, <1>4, <2>4
<1> QED BY <1>3, <1>4

--------------------------------------------------------------------------------
(* What an insertion does, evictions included.                             *)

\* What LossyCache lets the callback, if there is one, be told of ks.
Reports(ks, event) == IF onEvicted THEN LocalCache!Reports(ks, event) ELSE {{}}

\* The callbacks for a set of elements report their keys.
LEMMA ToldReports ==
  ASSUME NEW T, Sound(T), NEW es \in SUBSET ElementOf,
         \A e \in es : e.old = {} => e.key \in DOMAIN T.entries,
         NEW event \in Events
  PROVE  Told(T, es, event) \in Reports({e.key : e \in es}, event)
<1> DEFINE ks == {e.key : e \in es}
           C(e) == [key |-> e.key, value |-> EntryOfElement(T, e).value, event |-> event]
<1>0. CASE ~onEvicted
  BY <1>0 DEF Told, Reports
<1> SUFFICES ASSUME onEvicted PROVE Told(T, es, event) \in LocalCache!Reports(ks, event)
  BY <1>0 DEF Reports
<1>1. \A e \in es : e.key \in ks /\ EntryOfElement(T, e).value \in Values
  <2> TAKE e \in es
  <2>1. e \in ElementOf /\ EntryOfElement(T, e) \in EntryOf(Values)
    BY ElementHasEntry
  <2> QED BY <2>1 DEF EntryOf
<1>2. \A e \in es : C(e) \in [key : ks, value : Values, event : {event}] /\ C(e).key = e.key
  BY <1>1
<1>3. Told(T, es, event) = {C(e) : e \in es}
  BY DEF Told
<1>4. \A k \in ks : \E e \in es : k = e.key
  OBVIOUS
<1> HIDE DEF C, ks
<1>5. Told(T, es, event) \in SUBSET [key : ks, value : Values, event : {event}]
  BY <1>2, <1>3
<1>6. \A k \in ks : \E call \in Told(T, es, event) : call.key = k
  BY <1>2, <1>3, <1>4
<1> QED BY <1>5, <1>6 DEF LocalCache!Reports

LEMMA ReportsJoin ==
  ASSUME NEW event, NEW ks, NEW told \in Reports(ks, event),
         NEW ls, NEW more \in Reports(ls, event)
  PROVE  told \cup more \in Reports(ks \cup ls, event)
<1>0. CASE ~onEvicted
  BY <1>0 DEF Reports
<1> SUFFICES ASSUME onEvicted PROVE told \cup more \in LocalCache!Reports(ks \cup ls, event)
  BY <1>0 DEF Reports
<1>1. /\ told \subseteq [key : ks, value : Values, event : {event}]
      /\ more \subseteq [key : ls, value : Values, event : {event}]
      /\ \A k \in ks : \E call \in told : call.key = k
      /\ \A k \in ls : \E call \in more : call.key = k
  BY DEF Reports, LocalCache!Reports
<1>2. told \cup more \subseteq [key : ks \cup ls, value : Values, event : {event}]
  BY <1>1
<1>3. ASSUME NEW k \in ks \cup ls
      PROVE  \E call \in told \cup more : call.key = k
  <2>1. CASE k \in ks
    <3>1. PICK call \in told : call.key = k
      BY <1>1, <2>1
    <3> QED BY <3>1
  <2>2. CASE k \in ls
    <3>1. PICK call \in more : call.key = k
      BY <1>1, <2>2
    <3> QED BY <3>1
  <2> QED BY <2>1, <2>2
<1> QED BY <1>2, <1>3 DEF LocalCache!Reports

LEMMA NoReport ==
  ASSUME NEW event
  PROVE  {} \in Reports({}, event)
BY DEF Reports, LocalCache!Reports

\* One eviction, its key and its callback.
LEMMA EvictionReports ==
  ASSUME NEW T, Sound(T), NEW R, NEW e, EvictionOf(T, R, e),
         NEW ks, T.calls \in Reports(ks, "Eviction")
  PROVE  /\ e.key \in Keys
         /\ R.calls \in Reports(ks \cup {e.key}, "Eviction")
<1>1. e \in ElementOf /\ (e.old = {} => e.key \in DOMAIN T.entries)
      /\ R.calls = T.calls \cup Told(T, {e}, "Eviction")
  BY DEF EvictionOf
<1>2. Told(T, {e}, "Eviction") \in Reports({x.key : x \in {e}}, "Eviction")
  <2>1. {e} \in SUBSET ElementOf /\ \A x \in {e} : x.old = {} => x.key \in DOMAIN T.entries
    BY <1>1
  <2>2. "Eviction" \in Events
    BY DEF Events
  <2> QED BY <2>1, <2>2, ToldReports
<1>3. {x.key : x \in {e}} = {e.key}
  OBVIOUS
<1>4. Told(T, {e}, "Eviction") \in Reports({e.key}, "Eviction")
  BY <1>2, <1>3
<1>5. e.key \in Keys
  BY <1>1 DEF ElementOf
<1>6. T.calls \cup Told(T, {e}, "Eviction") \in Reports(ks \cup {e.key}, "Eviction")
  <2> DEFINE told == T.calls
             more == Told(T, {e}, "Eviction")
             ls == {e.key}
  <2>1. told \in Reports(ks, "Eviction") /\ more \in Reports(ls, "Eviction")
    BY <1>4
  <2> HIDE DEF told, more, ls
  <2>2. told \cup more \in Reports(ks \cup ls, "Eviction")
    BY <2>1, ReportsJoin
  <2> QED BY <2>2 DEF told, more, ls
<1> QED BY <1>1, <1>5, <1>6

\* Whatever is evicted before and after the new key enters, the map loses some keys,
\* and the callback is told of them, and perhaps of what was left of the new key.
LEMMA PutAfterDrop ==
  ASSUME NEW map, NEW k, k \notin DOMAIN map, NEW ent, NEW xs
  PROVE  Put(Drop(map, xs), k, ent) = Drop(Put(map, k, ent), xs \ {k})
BY DEF Put, Drop

LEMMA DropAfterDrop ==
  ASSUME NEW map, NEW ks, NEW ls
  PROVE  Drop(Drop(map, ks), ls) = Drop(map, ks \cup ls)
BY DEF Drop

LEMMA DropNone ==
  ASSUME NEW map \in Maps
  PROVE  Drop(map, {}) = map
BY DEF Drop, Maps

Inserted(k, entry) == IF Over(Arrived(k, entry)) THEN Evict(Arrived(k, entry)) ELSE Arrived(k, entry)

LEMMA ArrivedSound ==
  ASSUME Sound(c), NEW k \in Keys, k \notin DOMAIN c.entries, ~ReplacePanics(k),
         NEW entry \in EntryOf(Values)
  PROVE  LET A == Arrived(k, entry)
         IN /\ Sound(A) /\ A.recent # <<>>
            /\ policy = "2Q" => Room(A) = Room(c) + 1
            /\ \E ks \in SUBSET Keys, ls \in SUBSET Keys :
                 /\ A.entries = Drop(Put(c.entries, k, entry), ks)
                 /\ ls \in {ks, ks \cup {k}}
                 /\ A.calls \in Reports(ls, "Eviction")
<1> DEFINE P == Prepared(k)
           Q == IF Replaces(k) THEN Evict(P) ELSE P
           A == Arrived(k, entry)
<1>1. /\ Sound(P) /\ P.entries = c.entries /\ P.calls = {}
      /\ P.recent = c.recent /\ P.frequent = c.frequent
  <2> DEFINE S == Quiet(c)
  <2>1. /\ Sound(S) /\ S.calls = {} /\ S.entries = c.entries
        /\ S.recent = c.recent /\ S.frequent = c.frequent
    BY QuietSound
  <2>2. P = IF policy = "ARC" THEN MeetGhosts(S, k) ELSE S
    BY DEF Prepared, Quiet
  <2> HIDE DEF S
  <2>3. /\ Sound(MeetGhosts(S, k)) /\ MeetGhosts(S, k).entries = S.entries
        /\ MeetGhosts(S, k).calls = S.calls
        /\ MeetGhosts(S, k).recent = S.recent /\ MeetGhosts(S, k).frequent = S.frequent
    BY <2>1, MeetGhostsSound
  <2> HIDE DEF P
  <2> QED BY <2>1, <2>2, <2>3
<1>2. A = Entered(Q, k, entry)
  BY DEF Arrived, Entered
<1> DEFINE Reached(ks, ls) ==
             /\ Put(Q.entries, k, entry) = Drop(Put(c.entries, k, entry), ks)
             /\ ls \in {ks, ks \cup {k}}
             /\ Q.calls \in Reports(ls, "Eviction")
<1>3. c.entries \in Maps
  BY DEF Sound, StateOf
<1>4. /\ Sound(Q) /\ k \notin DOMAIN Q.entries
      /\ policy = "2Q" => Q.recent = c.recent /\ Q.frequent = c.frequent
      /\ \E ks \in SUBSET Keys, ls \in SUBSET Keys : Reached(ks, ls)
  <2>1. CASE ~Replaces(k)
    <3>1. Q = P
      BY <2>1
    <3> HIDE DEF P, Q
    <3>2. Reached({}, {})
      <4>1. Q.calls \in Reports({}, "Eviction")
        BY <1>1, <3>1, NoReport
      <4>2. Put(c.entries, k, entry) = Drop(Put(c.entries, k, entry), {})
        <5>1. Put(c.entries, k, entry) \in Maps
          BY <1>3, PutType
        <5> QED BY <5>1, DropNone
      <4>3. Q.entries = c.entries
        BY <1>1, <3>1
      <4> QED BY ONLY <4>1, <4>2, <4>3 DEF Reached
    <3> HIDE DEF Reached
    <3>3. {} \in SUBSET Keys
      OBVIOUS
    <3>4. \E ks \in SUBSET Keys, ls \in SUBSET Keys : Reached(ks, ls)
      BY <3>2, <3>3
    <3> QED BY <1>1, <3>1, <3>4
  <2>2. CASE Replaces(k)
    <3>1. Q = Evict(P) /\ policy # "2Q"
      BY <2>2 DEF Replaces
    <3>2. P[VictimList(P)] # <<>>
      <4>1. VictimList(P) \in {"recent", "frequent"}
        BY DEF VictimList
      <4>2. c[VictimList(P)] # <<>>
        BY <2>2 DEF ReplacePanics
      <4>3. P["recent"] = c["recent"] /\ P["frequent"] = c["frequent"]
        BY <1>1
      <4> HIDE DEF P
      <4> QED BY <4>1, <4>2, <4>3
    <3> HIDE DEF P, Q
    <3>3. PICK e : EvictionOf(P, Q, e)
      BY <1>1, <3>1, <3>2, EvictSound
    <3>4. P.calls \in Reports({}, "Eviction")
      BY <1>1, NoReport
    <3>5. e.key \in Keys /\ Q.calls \in Reports({} \cup {e.key}, "Eviction")
      BY <1>1, <3>3, <3>4, EvictionReports
    <3>6. {} \cup {e.key} = {e.key}
      OBVIOUS
    <3>7. Q.calls \in Reports({e.key}, "Eviction")
      BY <3>5, <3>6
    <3>8. Sound(Q) /\ Q.entries = Drop(c.entries, {e.key})
      BY <1>1, <3>3 DEF EvictionOf
    <3>9. k \notin DOMAIN Q.entries
      BY <3>8 DEF Drop
    <3>10. Put(Q.entries, k, entry) = Drop(Put(c.entries, k, entry), {e.key} \ {k})
      <4> DEFINE map == c.entries
                 xs == {e.key}
      <4>1. k \notin DOMAIN map
        OBVIOUS
      <4> HIDE DEF map, xs
      <4>2. Put(Drop(map, xs), k, entry) = Drop(Put(map, k, entry), xs \ {k})
        BY <4>1, PutAfterDrop
      <4> QED BY ONLY <3>8, <4>2 DEF map, xs
    <3>11. {e.key} \in {{e.key} \ {k}, ({e.key} \ {k}) \cup {k}}
      <4>1. CASE e.key = k
        BY <4>1
      <4>2. CASE e.key # k
        <5>1. {e.key} \ {k} = {e.key}
          BY <4>2
        <5> QED BY <5>1
      <4> QED BY <4>1, <4>2
    <3>12. Reached({e.key} \ {k}, {e.key})
      BY <3>7, <3>10, <3>11
    <3>13. {e.key} \ {k} \in SUBSET Keys /\ {e.key} \in SUBSET Keys
      BY <3>5
    <3> HIDE DEF Reached
    <3> QED BY <3>1, <3>8, <3>9, <3>12, <3>13
  <2> QED BY <2>1, <2>2
<1> HIDE DEF P, Q, Reached
<1>5. /\ Sound(A) /\ A.entries = Put(Q.entries, k, entry) /\ A.calls = Q.calls
      /\ A.recent # <<>> /\ Len(A.recent) = Len(Q.recent) + 1 /\ A.frequent = Q.frequent
  BY <1>2, <1>4, EnterSound
<1> HIDE DEF A
<1>6. ASSUME policy = "2Q" PROVE Room(A) = Room(c) + 1
  <2>1. Len(c.recent) \in Nat /\ Cardinality(Live(c.frequent)) \in Nat
    BY RoomBoundsEntries
  <2>2. Room(A) = (Len(c.recent) + 1) + Cardinality(Live(c.frequent))
    BY <1>4, <1>5, <1>6 DEF Room
  <2> QED BY <2>1, <2>2 DEF Room
<1>7. PICK ks \in SUBSET Keys, ls \in SUBSET Keys : Reached(ks, ls)
  BY <1>4
<1>8. /\ A.entries = Drop(Put(c.entries, k, entry), ks)
      /\ ls \in {ks, ks \cup {k}}
      /\ A.calls \in Reports(ls, "Eviction")
  BY <1>5, <1>7 DEF Reached
<1> QED BY <1>5, <1>6, <1>8 DEF A

LEMMA InsertedSound ==
  ASSUME Sound(c), policy = "2Q" => Room(c) <= MaxEntries,
         NEW k \in Keys, k \notin DOMAIN c.entries, ~ReplacePanics(k),
         NEW entry \in EntryOf(Values)
  PROVE  LET R == Inserted(k, entry)
         IN /\ ~EvictPanics(Arrived(k, entry))
            /\ Sound(R)
            /\ policy = "2Q" => Room(R) <= MaxEntries
            /\ \E ks \in SUBSET Keys, ls \in SUBSET Keys :
                 /\ R.entries = Drop(Put(c.entries, k, entry), ks)
                 /\ ls \in {ks, ks \cup {k}}
                 /\ R.calls \in Reports(ls, "Eviction")
<1> DEFINE A == Arrived(k, entry)
           R == Inserted(k, entry)
           Outcome(T, ks, ls) ==
             /\ T.entries = Drop(Put(c.entries, k, entry), ks)
             /\ ls \in {ks, ks \cup {k}}
             /\ T.calls \in Reports(ls, "Eviction")
<1>1. /\ Sound(A) /\ A.recent # <<>>
      /\ policy = "2Q" => Room(A) = Room(c) + 1
      /\ \E ks \in SUBSET Keys, ls \in SUBSET Keys : Outcome(A, ks, ls)
  BY ArrivedSound
<1>2. R = IF Over(A) THEN Evict(A) ELSE A
  BY DEF Inserted
<1> HIDE DEF A, R
<1>3. Over(A) => A[VictimList(A)] # <<>>
  BY <1>1, VictimFound
<1>4. ~EvictPanics(A)
  BY <1>3 DEF EvictPanics
<1>5. PICK ks \in SUBSET Keys, ls \in SUBSET Keys : Outcome(A, ks, ls)
  BY <1>1
<1>6. CASE ~Over(A)
  <2>1. R = A
    BY <1>2, <1>6
  <2>2. policy = "2Q" => Room(A) <= MaxEntries
    <3>1. A.frequent \in Seq(ElementOf) /\ A.recent \in Seq(ElementOf)
      BY <1>1 DEF Sound, StateOf
    <3> DEFINE n == Len(A.recent)
               m == Len(A.frequent)
               l == Cardinality(Live(A.frequent))
    <3>2. l \in Nat /\ l <= m /\ m \in Nat /\ n \in Nat
      BY <3>1, LiveIsFinite
    <3>3. Room(A) = n + l /\ ~(n + m > MaxEntries) /\ MaxEntries \in Nat
      BY <1>6, GhostAssumption DEF Room, Over
    <3> HIDE DEF n, m, l
    <3> QED BY <3>2, <3>3
  <2> HIDE DEF Outcome
  <2> QED BY <1>1, <1>4, <1>5, <2>1, <2>2 DEF A, R, Outcome
<1>7. CASE Over(A)
  <2>1. R = Evict(A)
    BY <1>2, <1>7
  <2>2. PICK e : EvictionOf(A, R, e) /\ (policy = "2Q" => Room(R) <= Room(A) - 1)
    BY <1>1, <1>3, <1>7, <2>1, EvictSound
  <2>3. e.key \in Keys /\ R.calls \in Reports(ls \cup {e.key}, "Eviction")
    BY <1>1, <1>5, <2>2, EvictionReports
  <2>4. Sound(R) /\ R.entries = Drop(A.entries, {e.key})
    BY <2>2 DEF EvictionOf
  <2>5. R.entries = Drop(Put(c.entries, k, entry), ks \cup {e.key})
    <3> DEFINE map == Put(c.entries, k, entry)
               xs == {e.key}
    <3>1. A.entries = Drop(map, ks) /\ R.entries = Drop(A.entries, xs)
      BY <1>5, <2>4
    <3> HIDE DEF map, xs
    <3>2. Drop(Drop(map, ks), xs) = Drop(map, ks \cup xs)
      BY DropAfterDrop
    <3> QED BY ONLY <3>1, <3>2 DEF map, xs
  <2>6. ls \cup {e.key} \in {ks \cup {e.key}, (ks \cup {e.key}) \cup {k}}
    <3>1. ls = ks \/ ls = ks \cup {k}
      BY <1>5
    <3>2. (ks \cup {k}) \cup {e.key} = (ks \cup {e.key}) \cup {k}
      OBVIOUS
    <3> QED BY <3>1, <3>2
  <2>7. Outcome(R, ks \cup {e.key}, ls \cup {e.key})
    BY <2>3, <2>5, <2>6
  <2>8. policy = "2Q" => Room(R) <= MaxEntries
    <3>1. Room(R) \in Int /\ Room(c) \in Int /\ MaxEntries \in Nat
      BY <2>4, RoomBoundsEntries, GhostAssumption DEF Room
    <3> QED BY <1>1, <2>2, <3>1
  <2>9. ks \cup {e.key} \in SUBSET Keys /\ ls \cup {e.key} \in SUBSET Keys
    BY <2>3
  <2> HIDE DEF Outcome
  <2> QED BY <1>4, <2>4, <2>7, <2>8, <2>9 DEF A, R, Outcome
<1> QED BY <1>6, <1>7

--------------------------------------------------------------------------------
(* The invariant.                                                          *)

ControlOK ==
  /\ policy \in Policies
  /\ now \in Nat /\ defaultTTL \in Nat
  /\ answer \subseteq Values
  /\ onEvicted \in BOOLEAN
  /\ stopped \in BOOLEAN /\ closed \in BOOLEAN
  /\ cleaner \in {"off", "starting", "waiting", "blind", "sweeping"}
  /\ crashed \in {"none", "replace", "race"}

RoomKept == policy = "2Q" => Room(c) <= MaxEntries

IInv == Sound(c) /\ RoomKept /\ ControlOK

\* The deadline a Set computes.
EntrySet(v, d) == [value |-> v, expiration |-> PlainDeadline(now, d, defaultTTL)]

LEMMA EntrySetType ==
  ASSUME ControlOK, NEW v \in Values, NEW d \in Durations
  PROVE  EntrySet(v, d) \in EntryOf(Values)
<1>1. d \in Nat /\ now \in Nat /\ defaultTTL \in Nat
  BY GhostAssumption DEF ControlOK
<1>2. PlainDeadline(now, d, defaultTTL) \in Nat
  BY <1>1 DEF PlainDeadline, Never
<1> QED BY <1>2 DEF EntrySet, EntryOf

LEMMA EmptySound == Sound(Empty) /\ Room(Empty) = 0 /\ Empty.calls = {} /\ Empty.entries = <<>>
<1> DEFINE R == Cache(<<>>, <<>>, <<>>, <<>>, <<>>, 0, {})
<1>1. Empty = R
  BY DEF Empty, Cache
<1>2. /\ R.entries = <<>> /\ R.recent = <<>> /\ R.frequent = <<>> /\ R.calls = {}
  BY CacheFields
<1>3. R \in StateOf
  <2>1. <<>> \in Maps /\ <<>> \in Seq(ElementOf) /\ <<>> \in Seq(Keys)
    <3>1. <<>> \in [{} -> EntryOf(Values)]
      OBVIOUS
    <3> QED BY <3>1 DEF Maps
  <2>2. 0 \in 0..MaxEntries
    BY GhostAssumption
  <2> QED BY <2>1, <2>2, CacheIsState
<1> HIDE DEF R
<1>4. Live(<<>>) = {} /\ Once(<<>>) /\ DOMAIN <<>> = {} /\ Len(<<>>) = 0
  BY DEF Live, Once
<1>5. Agree(R)
  BY <1>2, <1>4 DEF Agree
<1>6. Cardinality({}) = 0
  BY FS_EmptySet
<1>7. Room(R) = 0
  <2>1. Len(R.recent) = 0 /\ Cardinality(Live(R.frequent)) = 0
    BY <1>2, <1>4, <1>6
  <2> QED BY <2>1 DEF Room
<1> QED BY <1>1, <1>2, <1>3, <1>5, <1>7 DEF Sound

LEMMA InitInv == Init => IInv
<1> SUFFICES ASSUME Init PROVE IInv
  OBVIOUS
<1>1. c = Empty
  BY DEF Init
<1>2. Sound(c) /\ Room(c) = 0
  BY <1>1, EmptySound
<1>3. RoomKept
  BY <1>2, GhostAssumption DEF RoomKept
<1>4. ControlOK
  BY GhostAssumption DEF Init, ControlOK
<1> QED BY <1>2, <1>3, <1>4 DEF IInv

\* The cache's fields change, and the rest does not say how.
LEMMA ControlStays ==
  ASSUME ControlOK, UNCHANGED <<config, control>>, answer' \subseteq Values,
         crashed' \in {"none", "replace", "race"}
  PROVE  ControlOK'
BY DEF ControlOK, config, control

\* What a Set does to the cache.
LEMMA UpdateStep ==
  ASSUME Sound(c), NEW k \in Keys, NEW entry \in EntryOf(Values), Update(k, entry)
  PROVE  /\ Sound(c') /\ Room(c') <= Room(c)
         /\ c'.entries = Put(c.entries, k, entry) /\ c'.calls = {}
<1> DEFINE U == Updated(c, k, entry)
<1>1. k \in DOMAIN c.entries /\ c' = Promote(U, k)
  BY DEF Update, Updated
<1>2. /\ Sound(U) /\ U.calls = {} /\ U.entries = Put(c.entries, k, entry)
      /\ U.recent = c.recent /\ U.frequent = c.frequent
  BY <1>1, UpdateSound
<1>3. k \in DOMAIN U.entries
  BY <1>2 DEF Put
<1>4. Room(U) = Room(c)
  BY <1>2 DEF Room
<1> HIDE DEF U
<1>5. /\ Sound(Promote(U, k)) /\ Promote(U, k).entries = U.entries
      /\ Promote(U, k).calls = U.calls /\ Room(Promote(U, k)) <= Room(U)
  BY <1>2, <1>3, PromoteSound
<1> QED BY <1>1, <1>2, <1>4, <1>5

LEMMA HitStep ==
  ASSUME Sound(c), NEW k \in DOMAIN c.entries, Hit(k)
  PROVE  /\ Sound(c') /\ Room(c') <= Room(c)
         /\ c'.entries = c.entries /\ c'.calls = {}
<1> DEFINE U == Quiet(c)
<1>1. c' = Promote(U, k)
  BY DEF Hit, Quiet
<1>2. /\ Sound(U) /\ U.calls = {} /\ U.entries = c.entries
      /\ U.recent = c.recent /\ U.frequent = c.frequent
  BY QuietSound
<1>3. k \in DOMAIN U.entries
  BY <1>2
<1>4. Room(U) = Room(c)
  BY <1>2 DEF Room
<1> HIDE DEF U
<1>5. /\ Sound(Promote(U, k)) /\ Promote(U, k).entries = U.entries
      /\ Promote(U, k).calls = U.calls /\ Room(Promote(U, k)) <= Room(U)
  BY <1>2, <1>3, PromoteSound
<1> QED BY <1>1, <1>2, <1>4, <1>5

\* An operation that leaves the cache sound and no fuller keeps the invariant.
LEMMA KeepInv ==
  ASSUME IInv, Sound(c'), Room(c') <= Room(c), ControlOK', policy' = policy
  PROVE  IInv'
<1>1. Room(c) \in Int /\ Room(c') \in Int /\ MaxEntries \in Nat
  BY RoomBoundsEntries, GhostAssumption DEF IInv, Room
<1>2. RoomKept'
  <2> DEFINE before == Room(c)
             after == Room(c')
  <2>1. after <= before /\ (policy = "2Q" => before <= MaxEntries) /\ before \in Int /\ after \in Int
    BY <1>1 DEF IInv, RoomKept
  <2>2. RoomKept' <=> (policy' = "2Q" => after <= MaxEntries)
    BY DEF RoomKept
  <2> HIDE DEF before, after
  <2> QED BY <1>1, <2>1, <2>2
<1>3. Sound(c)'
  OBVIOUS
<1> QED BY <1>2, <1>3 DEF IInv

LEMMA InsertStep ==
  ASSUME IInv, NEW k \in Keys, NEW entry \in EntryOf(Values), Insert(k, entry)
  PROVE  /\ Sound(c') /\ (policy = "2Q" => Room(c') <= MaxEntries)
         /\ \E ks \in SUBSET Keys, ls \in SUBSET Keys :
              /\ c'.entries = Drop(Put(c.entries, k, entry), ks)
              /\ ls \in {ks, ks \cup {k}}
              /\ c'.calls \in Reports(ls, "Eviction")
<1>1. k \notin DOMAIN c.entries /\ ~ReplacePanics(k) /\ c' = Inserted(k, entry)
  BY DEF Insert, Inserted
<1>2. Sound(c) /\ (policy = "2Q" => Room(c) <= MaxEntries)
  BY DEF IInv, RoomKept
<1> DEFINE R == Inserted(k, entry)
<1>3. /\ Sound(R) /\ (policy = "2Q" => Room(R) <= MaxEntries)
      /\ \E ks \in SUBSET Keys, ls \in SUBSET Keys :
           /\ R.entries = Drop(Put(c.entries, k, entry), ks)
           /\ ls \in {ks, ks \cup {k}}
           /\ R.calls \in Reports(ls, "Eviction")
  BY <1>1, <1>2, InsertedSound
<1> HIDE DEF R
<1>4. c' = R
  BY <1>1 DEF R
<1> QED BY <1>3, <1>4

LEMMA SetInv ==
  ASSUME IInv, NEW k \in Keys, NEW v \in Values, NEW d \in Durations, Set(k, v, d)
  PROVE  IInv'
<1>1. Sound(c) /\ ControlOK /\ EntrySet(v, d) \in EntryOf(Values)
  BY EntrySetType DEF IInv
<1>2. UNCHANGED <<config, control, crashed>> /\ answer' = {}
  BY DEF Set
<1>3. ControlOK' /\ policy' = policy
  BY <1>1, <1>2, ControlStays DEF ControlOK, config
<1>4. Update(k, EntrySet(v, d)) \/ Insert(k, EntrySet(v, d))
  BY DEF Set, EntrySet
<1>5. CASE Update(k, EntrySet(v, d))
  BY <1>1, <1>3, <1>5, UpdateStep, KeepInv
<1>6. CASE Insert(k, EntrySet(v, d))
  <2>1. Sound(c') /\ (policy = "2Q" => Room(c') <= MaxEntries)
    BY <1>1, <1>6, InsertStep
  <2> QED BY <1>3, <2>1 DEF IInv, RoomKept
<1> QED BY <1>4, <1>5, <1>6

\* Nothing but an insertion can end in a panic of the eviction, and it does not.
LEMMA SetPanicsInv ==
  ASSUME IInv, NEW k \in Keys, NEW v \in Values, SetPanics(k, v)
  PROVE  IInv'
<1> DEFINE entry == [value |-> v, expiration |-> Never]
<1>1. entry \in EntryOf(Values)
  BY DEF EntryOf, Never
<1> HIDE DEF entry
<1>2. Sound(c) /\ (policy = "2Q" => Room(c) <= MaxEntries) /\ k \notin DOMAIN c.entries
  BY DEF IInv, RoomKept, SetPanics
<1>3. ~ReplacePanics(k) => ~EvictPanics(Arrived(k, entry))
  BY <1>1, <1>2, InsertedSound
<1>4. /\ crashed' = IF ReplacePanics(k) THEN "replace"
                    ELSE IF EvictPanics(Arrived(k, entry)) THEN "evict" ELSE "none"
      /\ UNCHANGED <<config, c, answer, control>>
  BY DEF SetPanics, entry
<1>5. ControlOK'
  BY <1>3, <1>4 DEF IInv, ControlOK, config, control
<1>6. RoomKept' /\ Sound(c)'
  BY <1>2, <1>4 DEF RoomKept, config
<1> QED BY <1>5, <1>6 DEF IInv

\* A miss.
LEMMA MissStep ==
  ASSUME Sound(c), NEW k, c' = MeetGhosts(Quiet(c), k)
  PROVE  /\ Sound(c') /\ Room(c') = Room(c)
         /\ c'.entries = c.entries /\ c'.calls = {}
<1> DEFINE U == Quiet(c)
<1>1. /\ Sound(U) /\ U.calls = {} /\ U.entries = c.entries
      /\ U.recent = c.recent /\ U.frequent = c.frequent
  BY QuietSound
<1>2. c' = MeetGhosts(U, k)
  OBVIOUS
<1> HIDE DEF U
<1> DEFINE R == MeetGhosts(U, k)
<1>3. /\ Sound(R) /\ R.entries = U.entries /\ R.calls = U.calls
      /\ R.recent = U.recent /\ R.frequent = U.frequent
  BY <1>1, MeetGhostsSound
<1> HIDE DEF R
<1>4. c' = R
  BY <1>2 DEF R
<1> QED BY <1>1, <1>3, <1>4 DEF Room

LEMMA QuietStep ==
  ASSUME Sound(c), c' = Quiet(c)
  PROVE  /\ Sound(c') /\ Room(c') = Room(c)
         /\ c'.entries = c.entries /\ c'.calls = {}
<1> DEFINE U == Quiet(c)
<1>1. Sound(U) /\ U.calls = {} /\ U.entries = c.entries /\ Room(U) = Room(c)
  BY QuietSound
<1> HIDE DEF U
<1>2. c' = U
  BY DEF U
<1> QED BY <1>1, <1>2

LEMMA ExpiredStep ==
  ASSUME Sound(c), NEW k \in DOMAIN c.entries, GetExpired(k)
  PROVE  /\ Sound(c') /\ Room(c') <= Room(c)
         /\ c'.entries = Drop(c.entries, {k})
         /\ c'.calls = Told(c, {Element(k)}, "Expiration")
<1> DEFINE R == Removed(c, k)
<1>1. /\ Sound(R) /\ R.entries = Drop(c.entries, {k})
      /\ R.calls = Told(c, {Element(k)}, "Expiration")
      /\ Room(R) <= Room(c)
  BY RemovedSound
<1> HIDE DEF R
<1>2. c' = R
  BY DEF GetExpired, R
<1> QED BY <1>1, <1>2

LEMMA GetInv ==
  ASSUME IInv, NEW k \in Keys, Get(k)
  PROVE  IInv'
<1>1. Sound(c) /\ ControlOK /\ Room(c) \in Int
  BY RoomBoundsEntries DEF IInv, Room
<1>2. UNCHANGED <<config, control, crashed>>
  BY DEF Get
<1>3. CASE k \in DOMAIN c.entries /\ GetExpired(k)
  <2>1. answer' = {}
    BY <1>3 DEF GetExpired
  <2>2. ControlOK' /\ policy' = policy
    BY <1>1, <1>2, <2>1, ControlStays DEF ControlOK, config
  <2> QED BY <1>1, <1>3, <2>2, ExpiredStep, KeepInv
<1>4. CASE k \in DOMAIN c.entries /\ Hit(k)
  <2>1. c.entries[k].value \in Values
    BY <1>1, <1>4 DEF Sound, StateOf, Maps, EntryOf
  <2>2. answer' \subseteq Values
    BY <1>4, <2>1 DEF Hit
  <2>3. ControlOK' /\ policy' = policy
    BY <1>1, <1>2, <2>2, ControlStays DEF ControlOK, config
  <2> QED BY <1>1, <1>4, <2>3, HitStep, KeepInv
<1>5. CASE k \notin DOMAIN c.entries /\ c' = MeetGhosts(Quiet(c), k) /\ answer' = {}
  <2>1. ControlOK' /\ policy' = policy
    BY <1>1, <1>2, <1>5, ControlStays DEF ControlOK, config
  <2>2. Sound(c') /\ Room(c') <= Room(c)
    BY <1>1, <1>5, MissStep
  <2> QED BY <2>1, <2>2, KeepInv
<1> QED BY <1>3, <1>4, <1>5 DEF Get, Quiet

LEMMA PurgeStep ==
  ASSUME Sound(c), Purge
  PROVE  /\ Sound(c') /\ Room(c') <= Room(c) /\ answer' = {}
         /\ c'.entries = <<>>
         /\ c'.calls \in Reports(DOMAIN c.entries, "Clear")
<1> DEFINE en == c.entries
           C(k) == [key |-> k, value |-> en[k].value, event |-> "Clear"]
           ca == IF onEvicted THEN {C(k) : k \in DOMAIN en} ELSE {}
           R == Cache(<<>>, <<>>, <<>>, <<>>, <<>>, 0, ca)
<1>1. c' = [Empty EXCEPT !.calls = ca] /\ answer' = {}
  BY DEF Purge, Called
<1>2. Empty = Cache(<<>>, <<>>, <<>>, <<>>, <<>>, 0, {})
  BY DEF Empty, Cache
<1>3. en \in Maps /\ DOMAIN en \subseteq Keys
  BY DEF Sound, StateOf, Maps
<1> HIDE DEF en
<1>4. \A k \in DOMAIN en : en[k].value \in Values
  BY <1>3 DEF Maps, EntryOf
<1>5. \A k \in DOMAIN en : C(k) \in [key : DOMAIN en, value : Values, event : {"Clear"}] /\ C(k).key = k
  BY <1>4
<1>6. ca \in SUBSET CallOf(Keys, Values)
  <2>1. \A k \in DOMAIN en : C(k) \in CallOf(Keys, Values)
    BY <1>3, <1>4 DEF CallOf, Events
  <2> HIDE DEF C
  <2> QED BY <2>1
<1>7. ca \in Reports(DOMAIN en, "Clear")
  <2> HIDE DEF C
  <2>1. CASE ~onEvicted
    BY <2>1 DEF Reports
  <2>2. CASE onEvicted
    <3>1. ca \in SUBSET [key : DOMAIN en, value : Values, event : {"Clear"}]
      BY <1>5
    <3>2. \A k \in DOMAIN en : \E call \in ca : call.key = k
      BY <1>5, <2>2
    <3> QED BY <2>2, <3>1, <3>2 DEF Reports, LocalCache!Reports
  <2> QED BY <2>1, <2>2
<1> HIDE DEF ca
<1>9. c' = R
  BY <1>1, <1>2 DEF Cache
<1>10. /\ R.entries = <<>> /\ R.recent = <<>> /\ R.frequent = <<>> /\ R.calls = ca
  BY CacheFields
<1>11. R \in StateOf
  <2>1. <<>> \in Maps /\ <<>> \in Seq(ElementOf) /\ <<>> \in Seq(Keys)
    <3>1. <<>> \in [{} -> EntryOf(Values)]
      OBVIOUS
    <3> QED BY <3>1 DEF Maps
  <2>2. 0 \in 0..MaxEntries
    BY GhostAssumption
  <2> QED BY <1>6, <2>1, <2>2, CacheIsState
<1> HIDE DEF R
<1>12. Live(<<>>) = {} /\ Once(<<>>) /\ DOMAIN <<>> = {} /\ Len(<<>>) = 0
  BY DEF Live, Once
<1>13. Agree(R)
  BY <1>10, <1>12 DEF Agree
<1>14. Room(R) = 0
  <2>1. Len(R.recent) = 0 /\ Cardinality(Live(R.frequent)) = 0
    BY <1>10, <1>12, FS_EmptySet
  <2> QED BY <2>1 DEF Room
<1>15. Room(c) \in Nat
  BY RoomBoundsEntries DEF Room
<1>16. Sound(c')
  BY <1>9, <1>11, <1>13 DEF Sound
<1>17. Room(c') <= Room(c)
  BY <1>9, <1>14, <1>15
<1>18. c'.entries = <<>> /\ c'.calls \in Reports(DOMAIN en, "Clear")
  BY <1>7, <1>9, <1>10
<1> QED BY <1>1, <1>16, <1>17, <1>18 DEF en

LEMMA SweepStep ==
  ASSUME Sound(c), c' = SweepLists
  PROVE  /\ Sound(c') /\ Room(c') <= Room(c)
         /\ \E ks \in SUBSET Keys :
              /\ c'.entries = Drop(c.entries, ks)
              /\ c'.calls \in Reports(ks, "Expiration")
              /\ ks = {e.key : e \in StaleIn(c.recent) \cup StaleIn(c.frequent)}
<1> DEFINE stale == StaleIn(c.recent) \cup StaleIn(c.frequent)
           ks == {e.key : e \in stale}
           R == SweepLists
<1>1. /\ stale \in SUBSET ElementOf
      /\ \A e \in stale : e.old = {} => e.key \in DOMAIN c.entries
  BY StaleElements
<1>2. /\ Sound(R) /\ R.entries = Drop(c.entries, ks)
      /\ R.calls = Told(c, stale, "Expiration")
      /\ Room(R) <= Room(c)
  BY SweepSound
<1>3. "Expiration" \in Events
  BY DEF Events
<1> HIDE DEF stale, R
<1>4. Told(c, stale, "Expiration") \in Reports(ks, "Expiration")
  BY <1>1, <1>3, ToldReports
<1>5. ks \in SUBSET Keys
  BY <1>1 DEF ElementOf
<1> HIDE DEF ks
<1>6. c' = R
  BY DEF R
<1>7. c'.entries = Drop(c.entries, ks) /\ c'.calls \in Reports(ks, "Expiration")
  BY <1>2, <1>4, <1>6
<1>8. Sound(c') /\ Room(c') <= Room(c)
  BY <1>2, <1>6
<1> QED BY <1>5, <1>7, <1>8 DEF ks, stale

\* One step per action.
LEMMA NextInv == IInv /\ [Next]_vars => IInv'
<1> SUFFICES ASSUME IInv, [Next]_vars PROVE IInv'
  OBVIOUS
<1>0. Sound(c) /\ ControlOK /\ RoomKept /\ Room(c) \in Int
  BY RoomBoundsEntries DEF IInv, Room
<1>1. ASSUME NEW k \in Keys, NEW v \in Values, NEW d \in Durations, Set(k, v, d)
      PROVE  IInv'
  BY <1>1, SetInv
<1>2. ASSUME NEW k \in Keys, NEW v \in Values, SetPanics(k, v)
      PROVE  IInv'
  BY <1>2, SetPanicsInv
<1>3. ASSUME NEW k \in Keys, Get(k)
      PROVE  IInv'
  BY <1>3, GetInv
<1>4. CASE Clear
  <2>1. CASE Purge /\ UNCHANGED crashed
    <3>1. Sound(c') /\ Room(c') <= Room(c) /\ answer' = {}
      BY <1>0, <2>1, PurgeStep
    <3>2. ControlOK' /\ policy' = policy
      BY <1>0, <1>4, <2>1, <3>1, ControlStays DEF Clear, ControlOK, config
    <3> QED BY <3>1, <3>2, KeepInv
  <2>2. CASE crashed' = "race" /\ UNCHANGED <<c, answer>>
    <3>1. ControlOK' /\ policy' = policy
      BY <1>0, <1>4, <2>2 DEF Clear, ControlOK, config, control
    <3> QED BY <1>0, <2>2, <3>1 DEF IInv, RoomKept
  <2> QED BY <1>4, <2>1, <2>2 DEF Clear
<1>5. CASE Close
  <2>1. Sound(c') /\ Room(c') <= Room(c) /\ answer' = {}
    BY <1>0, <1>5, PurgeStep DEF Close
  <2>2. ControlOK' /\ policy' = policy
    BY <1>0, <1>5, <2>1 DEF Close, ControlOK, config
  <2> QED BY <2>1, <2>2, KeepInv
<1>12. CASE Stop
  BY <1>0, <1>12 DEF Stop, IInv, RoomKept, ControlOK, config
<1>6. CASE SetEvictedFunc
  <2>1. c' = Quiet(c) /\ answer' = {}
    BY <1>6 DEF SetEvictedFunc, Quiet
  <2>2. ControlOK' /\ policy' = policy
    BY <1>0, <1>6, <2>1 DEF SetEvictedFunc, ControlOK, control
  <2>3. Sound(c') /\ Room(c') <= Room(c)
    BY <1>0, <2>1, QuietStep
  <2> QED BY <2>2, <2>3, KeepInv
<1>7. ASSUME NEW ttl \in TTLs, SetDefaultTTL(ttl)
      PROVE  IInv'
  <2>1. c' = Quiet(c) /\ answer' = {}
    BY <1>7 DEF SetDefaultTTL, Quiet
  <2>2. ControlOK' /\ policy' = policy
    <3>1. ttl \in Nat
      BY GhostAssumption
    <3> QED BY <1>0, <1>7, <2>1, <3>1 DEF SetDefaultTTL, ControlOK, control
  <2>3. Sound(c') /\ Room(c') <= Room(c)
    BY <1>0, <2>1, QuietStep
  <2> QED BY <2>2, <2>3, KeepInv
<1>8. CASE CleanerStarts \/ CleanerLocks \/ CleanerExits
  <2>1. UNCHANGED <<config, c, answer, stopped, closed, crashed>>
    BY <1>8 DEF CleanerStarts, CleanerLocks, CleanerExits, CleanerMoves
  <2>2. cleaner' \in {"off", "starting", "waiting", "blind", "sweeping"}
    BY <1>8 DEF CleanerStarts, CleanerLocks, CleanerExits, CleanerMoves, Selecting
  <2> QED BY <1>0, <2>1, <2>2 DEF IInv, RoomKept, ControlOK, config
<1>9. CASE CleanerSweeps
  <2>1. Sound(c') /\ Room(c') <= Room(c)
    BY <1>0, <1>9, SweepStep DEF CleanerSweeps
  <2>2. UNCHANGED <<config, stopped, closed, crashed>> /\ answer' = {}
    BY <1>9 DEF CleanerSweeps, CleanerMoves
  <2>3. cleaner' \in {"off", "starting", "waiting", "blind", "sweeping"}
    BY <1>9 DEF CleanerSweeps, CleanerMoves, Selecting
  <2>4. ControlOK' /\ policy' = policy
    BY <1>0, <2>2, <2>3 DEF ControlOK, config
  <2> QED BY <2>1, <2>4, KeepInv
<1>10. CASE Tick
  BY <1>0, <1>10 DEF Tick, IInv, RoomKept, ControlOK, control
<1>11. CASE UNCHANGED vars
  BY <1>0, <1>11 DEF vars, IInv, RoomKept, ControlOK, config, control
<1> QED BY <1>1, <1>2, <1>3, <1>4, <1>5, <1>12, <1>6, <1>7, <1>8, <1>9, <1>10, <1>11 DEF Next, Cleaner

\* What holds between any two operations, whatever came before: the lists and the map are
\* sound, 2Q counts an element for each entry, and the fields have their types.
THEOREM Invariance == Spec => []IInv
<1>1. Init => IInv
  BY InitInv
<1>2. IInv /\ [Next]_vars => IInv'
  BY NextInv
<1> QED BY <1>1, <1>2, PTL DEF Spec

--------------------------------------------------------------------------------
(* What the invariant says of the caches.                                  *)

LEMMA OldEntry ==
  ASSUME NEW e \in ElementOf
  PROVE  e.key \in Keys /\ e.old \subseteq EntryOf(Values) /\ Cardinality(e.old) <= 1
<1>1. CASE e.old = {}
  <2>1. Cardinality(e.old) = 0
    BY <1>1, FS_EmptySet
  <2> QED BY <1>1, <2>1 DEF ElementOf
<1>2. CASE e.old # {}
  <2>1. PICK ent \in EntryOf(Values) : e.old = {ent}
    BY <1>2 DEF ElementOf
  <2>2. Cardinality(e.old) = 1
    BY <2>1, FS_Singleton
  <2> QED BY <2>1, <2>2 DEF ElementOf
<1> QED BY <1>1, <1>2

\* The variables have the types of the Go fields they stand for.
THEOREM TypeCorrect == Spec => []TypeOK
<1>1. IInv => TypeOK
  <2> SUFFICES ASSUME IInv PROVE TypeOK
    OBVIOUS
  <2>1. /\ c.entries \in Maps /\ c.recent \in Seq(ElementOf) /\ c.frequent \in Seq(ElementOf)
        /\ c.b1 \in Seq(Keys) /\ c.b2 \in Seq(Keys) /\ c.p \in 0..MaxEntries
        /\ c.calls \in SUBSET CallOf(Keys, Values)
    BY StateIsCache DEF IInv, Sound
  <2>2. DOMAIN c.entries \subseteq Keys /\ c.entries \in [DOMAIN c.entries -> EntryOf(Values)]
    BY <2>1 DEF Maps
  <2>3. \A e \in ToSet(c.recent) \cup ToSet(c.frequent) : e \in ElementOf
    <3>1. \A list \in Seq(ElementOf) : \A e \in ToSet(list) : e \in ElementOf
      BY DEF ToSet
    <3> QED BY <2>1, <3>1
  <2>4. \A e \in ToSet(c.recent) \cup ToSet(c.frequent) :
          e.key \in Keys /\ e.old \subseteq EntryOf(Values) /\ Cardinality(e.old) <= 1
    BY <2>3, OldEntry
  <2>5. c.p \in Nat
    BY <2>1, GhostAssumption
  <2> QED BY <2>1, <2>2, <2>4, <2>5 DEF IInv, ControlOK, TypeOK
<1> QED BY <1>1, Invariance, PTL

\* How often the live element of a key is in a list.
LEMMA PlacesCount ==
  ASSUME NEW list \in Seq(ElementOf), NEW k \in Keys,
         NEW ps, ps = {i \in DOMAIN list : list[i] = Element(k)}
  PROVE  /\ Cardinality(ps) \in Nat
         /\ Cardinality(ps) = 0 <=> k \notin Live(list)
         /\ Once(list) => Cardinality(ps) <= 1
<1>1. DOMAIN list = 1..Len(list) /\ Len(list) \in Nat /\ \A i \in 1..Len(list) : list[i] \in ElementOf
  OBVIOUS
<1>2. \A i \in 1..Len(list) : list[i].old = {} /\ list[i].key = k <=> list[i] = Element(k)
  BY <1>1, ElementIsLive
<1>3. ps = {} <=> k \notin Live(list)
  <2>1. k \in Live(list) <=> \E i \in 1..Len(list) : list[i] = Element(k)
    BY <1>2 DEF Live
  <2> QED BY <1>1, <2>1
<1>4. IsFiniteSet(1..Len(list))
  BY <1>1, FS_Interval, 1 \in Int, Len(list) \in Int
<1>5. IsFiniteSet(ps) /\ Cardinality(ps) \in Nat
  <2>1. ps \in SUBSET (1..Len(list))
    BY <1>1
  <2> QED BY <1>4, <2>1, FS_Subset, FS_CardinalityType
<1>6. ASSUME Once(list) PROVE Cardinality(ps) <= 1
  <2>1. CASE ps = {}
    <3>1. Cardinality(ps) = 0
      BY <2>1, FS_EmptySet
    <3> QED BY <3>1
  <2>2. CASE ps # {}
    <3>1. PICK i \in ps : TRUE
      BY <2>2
    <3>2. \A j \in ps : j = i
      BY <1>1, <1>2, <1>6, <3>1 DEF Once
    <3>3. ps = {i}
      BY <3>1, <3>2
    <3>4. Cardinality(ps) = 1
      BY <3>3, FS_Singleton
    <3> QED BY <3>4
  <2> QED BY <2>1, <2>2
<1>7. Cardinality(ps) = 0 <=> ps = {}
  BY <1>5, FS_EmptySet
<1> QED BY <1>3, <1>5, <1>6, <1>7

\* However many elements are left over, in whatever order of hits, evictions and
\* sweeps: eviction and sweep can reach every entry, by one element of the first list or
\* by some of the second (twoq.go:80-86, 92, 335-342; arc.go:77-82, 112, 396-403).
THEOREM EveryEntryIsReachable == Spec => []MapMatchesLists
<1>1. IInv => MapMatchesLists
  <2> SUFFICES ASSUME IInv PROVE MapMatchesLists
    OBVIOUS
  <2>1. c.recent \in Seq(ElementOf) /\ c.frequent \in Seq(ElementOf)
    BY DEF IInv, Sound, StateOf
  <2>2. /\ Live(c.recent) \cup Live(c.frequent) = DOMAIN c.entries
        /\ Live(c.recent) \cap Live(c.frequent) = {}
        /\ Once(c.recent)
    BY DEF IInv, Sound, Agree
  <2>3. ASSUME NEW k \in Keys
        PROVE  LET once == Cardinality({i \in DOMAIN c.recent : c.recent[i] = Element(k)})
                   again == Cardinality({i \in DOMAIN c.frequent : c.frequent[i] = Element(k)})
               IN IF k \in DOMAIN c.entries
                  THEN {once, again} # {0} /\ once <= 1 /\ (once = 0 \/ again = 0)
                  ELSE once = 0 /\ again = 0
    <3> DEFINE once == Cardinality({i \in DOMAIN c.recent : c.recent[i] = Element(k)})
               again == Cardinality({i \in DOMAIN c.frequent : c.frequent[i] = Element(k)})
    <3>1. once \in Nat /\ (once = 0 <=> k \notin Live(c.recent)) /\ once <= 1
      BY <2>1, <2>2, PlacesCount
    <3>2. again \in Nat /\ (again = 0 <=> k \notin Live(c.frequent))
      BY <2>1, PlacesCount
    <3> HIDE DEF once, again
    <3>3. IF k \in DOMAIN c.entries
          THEN {once, again} # {0} /\ once <= 1 /\ (once = 0 \/ again = 0)
          ELSE once = 0 /\ again = 0
      BY <2>2, <3>1, <3>2
    <3> QED BY <3>3 DEF once, again
  <2> QED BY <2>3 DEF MapMatchesLists
<1> QED BY <1>1, Invariance, PTL

\* 2Q holds no more than maxEntries, for all the elements of old entries in its lists:
\* they count as well, so that it evicts early and never late (twoq.go:95).
THEOREM TwoQNeverOverfull == Spec => []TwoQKeepsLimit
<1>1. IInv => TwoQKeepsLimit
  <2> SUFFICES ASSUME IInv, policy = "2Q" PROVE Cardinality(DOMAIN c.entries) <= MaxEntries
    BY DEF TwoQKeepsLimit
  <2>1. /\ Cardinality(DOMAIN c.entries) \in Nat /\ Room(c) \in Int /\ MaxEntries \in Nat
        /\ Cardinality(DOMAIN c.entries) <= Room(c) /\ Room(c) <= MaxEntries
    BY RoomBoundsEntries, GhostAssumption DEF IInv, RoomKept, Room
  <2> QED BY <2>1
<1> QED BY <1>1, Invariance, PTL

\* The eviction after an insertion never takes the back of an empty list
\* (arc.go:115-116, 262-277): what it needs for that is the bound on ARC's target.
THEOREM EvictionHasVictim == Spec => []EvictFindsVictim
<1>1. IInv => EvictFindsVictim
  BY DEF IInv, ControlOK, EvictFindsVictim
<1> QED BY <1>1, Invariance, PTL

\* A sweep takes every stale entry, for the lists it goes through have an element of each.
THEOREM SweepIsThorough == Spec => SweepLeavesNothingStale
<1> DEFINE Thorough ==
             cleaner = "sweeping" /\ cleaner' # "sweeping" => \A k \in Keys : ~LocalCache!Stale(k)'
<1>1. IInv /\ [Next]_vars => [Thorough]_vars
  <2> SUFFICES ASSUME IInv, Next, cleaner = "sweeping", cleaner' # "sweeping",
                      NEW k \in Keys, LocalCache!Stale(k)'
               PROVE  FALSE
    OBVIOUS
  <2>1. CleanerSweeps
    BY DEF Next, Set, SetPanics, Get, Clear, Stop, Close, SetEvictedFunc, SetDefaultTTL, Cleaner,
           CleanerStarts, CleanerLocks, CleanerExits, CleanerMoves, Tick, control
  <2>2. c' = SweepLists /\ now' = now
    BY <2>1 DEF CleanerSweeps, CleanerMoves, config
  <2>3. Sound(c)
    BY DEF IInv
  <2> DEFINE ks == {e.key : e \in StaleIn(c.recent) \cup StaleIn(c.frequent)}
  <2>4. c'.entries = Drop(c.entries, ks)
    BY <2>2, <2>3, SweepStep
  <2>5. k \in DOMAIN c'.entries /\ IsExpired(c'.entries[k].expiration, now)
    BY <2>2 DEF LocalCache!Stale, LocalCache!IsExpired, LocalCache!Never, IsExpired, Never
  <2>6. k \in DOMAIN c.entries /\ k \notin ks /\ IsExpired(c.entries[k].expiration, now)
    BY <2>4, <2>5 DEF Drop
  <2>7. ASSUME NEW list \in Seq(ElementOf), k \in Live(list) PROVE k \in {e.key : e \in StaleIn(list)}
    <3>1. PICK i \in 1..Len(list) : list[i].old = {} /\ list[i].key = k
      BY <2>7, LiveMembers
    <3>2. list[i] \in ToSet(list)
      BY <3>1 DEF ToSet
    <3>3. EntryOfElement(c, list[i]) = c.entries[k]
      BY <3>1 DEF EntryOfElement
    <3>4. list[i] \in StaleIn(list)
      BY <2>6, <3>2, <3>3 DEF StaleIn
    <3> QED BY <3>1, <3>4
  <2>8. /\ c.recent \in Seq(ElementOf) /\ c.frequent \in Seq(ElementOf)
        /\ k \in Live(c.recent) \cup Live(c.frequent)
    BY <2>3, <2>6 DEF Sound, StateOf, Agree
  <2>9. k \in {e.key : e \in StaleIn(c.recent)} \/ k \in {e.key : e \in StaleIn(c.frequent)}
    BY <2>7, <2>8
  <2> QED BY <2>6, <2>9
<1>2. Spec => [][Thorough]_vars
  BY <1>1, Invariance, PTL DEF Spec
<1> QED BY <1>2 DEF SweepLeavesNothingStale

--------------------------------------------------------------------------------
(* The refinement.                                                         *)

\* Both modules mean the same by what they take from CacheCommon.
LEMMA SameMaps ==
  /\ \A map, ks : LocalCache!Drop(map, ks) = Drop(map, ks)
  /\ \A map, k, e : LocalCache!Put(map, k, e) = Put(map, k, e)
  /\ LocalCache!Events = Events
BY DEF LocalCache!Drop, Drop, LocalCache!Put, Put, LocalCache!Events, Events

LEMMA SameClock ==
  /\ \A d \in Nat : LocalCache!Deadline(d, FALSE) = PlainDeadline(now, d, defaultTTL)
  /\ \A k : LocalCache!Stale(k)
              <=> k \in DOMAIN c.entries /\ IsExpired(c.entries[k].expiration, now)
BY DEF LocalCache!Deadline, PlainDeadline, LocalCache!Never, Never,
       LocalCache!Stale, LocalCache!IsExpired, IsExpired

LEMMA TellIs ==
  ASSUME NEW ks, NEW event, c'.calls \in Reports(ks, event)
  PROVE  LocalCache!Tell(ks, event)
BY DEF LocalCache!Tell, Reports

LEMMA SetRefines ==
  ASSUME IInv, NEW k \in Keys, NEW v \in Values, NEW d \in Durations, Set(k, v, d)
  PROVE  LocalCache!Set(k, v, d)
<1> DEFINE entry == EntrySet(v, d)
           updated == Put(c.entries, k, entry)
<1>1. Sound(c) /\ entry \in EntryOf(Values)
  BY EntrySetType DEF IInv
<1>2. UNCHANGED LocalCache!config /\ answer' = {}
  BY DEF Set, config, LocalCache!config
<1>3. Update(k, entry) \/ Insert(k, entry)
  BY DEF Set, EntrySet
<1> HIDE DEF updated
<1>4. \/ c'.entries = updated /\ LocalCache!Tell({}, "Eviction")
      \/ /\ k \notin DOMAIN c.entries
         /\ \E ks \in SUBSET Keys :
              /\ c'.entries = Drop(updated, ks)
              /\ LocalCache!Tell(ks, "Eviction") \/ LocalCache!Tell(ks \cup {k}, "Eviction")
  <2>1. CASE Update(k, entry)
    <3>1. c'.entries = updated /\ c'.calls = {}
      BY <1>1, <2>1, UpdateStep DEF updated
    <3>2. LocalCache!Tell({}, "Eviction")
      BY <3>1, NoReport, TellIs
    <3> QED BY <3>1, <3>2
  <2>2. CASE Insert(k, entry)
    <3>1. PICK ks \in SUBSET Keys, ls \in SUBSET Keys :
            /\ c'.entries = Drop(updated, ks)
            /\ ls \in {ks, ks \cup {k}}
            /\ c'.calls \in Reports(ls, "Eviction")
      BY <1>1, <2>2, InsertStep DEF updated
    <3>2. LocalCache!Tell(ls, "Eviction")
      BY <3>1, TellIs
    <3>3. LocalCache!Tell(ks, "Eviction") \/ LocalCache!Tell(ks \cup {k}, "Eviction")
      BY <3>1, <3>2
    <3>4. k \notin DOMAIN c.entries
      BY <2>2 DEF Insert
    <3> QED BY <3>1, <3>3, <3>4
  <2> QED BY <1>3, <2>1, <2>2
<1>5. updated = LocalCache!Put(c.entries, k, [value |-> v,
                                              expiration |-> LocalCache!Deadline(d, FALSE)])
  <2>1. d \in Nat /\ now \in Nat /\ defaultTTL \in Nat
    BY GhostAssumption DEF IInv, ControlOK
  <2> QED BY <2>1, SameMaps, SameClock DEF updated, EntrySet
<1>6. \A ks : LocalCache!Drop(updated, ks) = Drop(updated, ks)
  BY SameMaps
<1> QED BY <1>2, <1>4, <1>5, <1>6 DEF LocalCache!Set

LEMMA GetRefines ==
  ASSUME IInv, NEW k \in Keys, Get(k)
  PROVE  LocalCache!Get(k)
<1>1. Sound(c) /\ c.entries \in Maps
  BY DEF IInv, Sound, StateOf
<1>2. UNCHANGED LocalCache!config
  BY DEF Get, config, LocalCache!config
<1>3. LocalCache!Drop(c.entries, {}) = c.entries
  BY <1>1, DropNone, SameMaps
<1>4. CASE k \in DOMAIN c.entries /\ GetExpired(k)
  <2>1. /\ c'.entries = Drop(c.entries, {k})
        /\ c'.calls = Told(c, {Element(k)}, "Expiration")
    BY <1>1, <1>4, ExpiredStep
  <2>2. LocalCache!Stale(k) /\ answer' = {}
    BY <1>4, SameClock DEF GetExpired
  <2>3. c'.calls \in Reports({k}, "Expiration")
    <3>1. Element(k) \in ElementOf /\ Element(k).key = k /\ Element(k).old = {}
      BY ElementIsLive
    <3>2. {Element(k)} \in SUBSET ElementOf
          /\ \A e \in {Element(k)} : e.old = {} => e.key \in DOMAIN c.entries
      BY <1>4, <3>1
    <3>3. {e.key : e \in {Element(k)}} = {k}
      BY <3>1
    <3>4. "Expiration" \in Events
      BY DEF Events
    <3>5. Told(c, {Element(k)}, "Expiration")
            \in Reports({e.key : e \in {Element(k)}}, "Expiration")
      BY <1>1, <3>2, <3>4, ToldReports
    <3> QED BY <2>1, <3>3, <3>5
  <2>4. LocalCache!Tell({k}, "Expiration")
    BY <2>3, TellIs
  <2>5. c'.entries = LocalCache!Drop(c.entries, {k})
    BY <2>1, SameMaps
  <2>6. LocalCache!Lose({k}, {"Expiration"})
    BY <1>2, <2>4, <2>5 DEF LocalCache!Lose
  <2> QED BY <2>2, <2>6 DEF LocalCache!Get
<1>5. ASSUME c'.entries = c.entries, c'.calls = {}
      PROVE  LocalCache!Lose({}, {"Expiration"})
  <2>1. LocalCache!Tell({}, "Expiration")
    BY <1>5, NoReport, TellIs
  <2> QED BY <1>2, <1>3, <1>5, <2>1 DEF LocalCache!Lose
<1>6. CASE k \in DOMAIN c.entries /\ Hit(k)
  <2>1. c'.entries = c.entries /\ c'.calls = {}
    BY <1>1, <1>6, HitStep
  <2>2. ~LocalCache!Stale(k) /\ answer' = {c.entries[k].value}
    BY <1>6, SameClock DEF Hit
  <2> QED BY <1>5, <1>6, <2>1, <2>2 DEF LocalCache!Get
<1>7. CASE k \notin DOMAIN c.entries /\ c' = MeetGhosts(Quiet(c), k) /\ answer' = {}
  <2>1. c'.entries = c.entries /\ c'.calls = {}
    BY <1>1, <1>7, MissStep
  <2>2. ~LocalCache!Stale(k)
    BY <1>7, SameClock
  <2> QED BY <1>5, <1>7, <2>1, <2>2 DEF LocalCache!Get
<1> QED BY <1>4, <1>6, <1>7 DEF Get, Quiet

LEMMA PurgeRefines ==
  ASSUME Sound(c), Purge, UNCHANGED config
  PROVE  LocalCache!Clear
<1>1. /\ c'.entries = <<>> /\ answer' = {}
      /\ c'.calls \in Reports(DOMAIN c.entries, "Clear")
  BY PurgeStep
<1>2. LocalCache!Tell(DOMAIN c.entries, "Clear")
  BY <1>1, TellIs
<1>3. c'.entries = LocalCache!Drop(c.entries, DOMAIN c.entries)
  BY <1>1 DEF LocalCache!Drop
<1>4. UNCHANGED LocalCache!config
  BY DEF config, LocalCache!config
<1> QED BY <1>1, <1>2, <1>3, <1>4 DEF LocalCache!Clear, LocalCache!Remove, LocalCache!Lose

LEMMA SweepRefines ==
  ASSUME IInv, CleanerSweeps
  PROVE  \E ks \in SUBSET Keys : LocalCache!Remove(ks, LocalCache!Events \ {"Clear"})
<1>1. Sound(c) /\ c' = SweepLists /\ answer' = {} /\ UNCHANGED LocalCache!config
  BY DEF IInv, CleanerSweeps, CleanerMoves, config, LocalCache!config
<1>2. PICK ks \in SUBSET Keys : /\ c'.entries = Drop(c.entries, ks)
                                /\ c'.calls \in Reports(ks, "Expiration")
  BY <1>1, SweepStep
<1>3. LocalCache!Tell(ks, "Expiration") /\ "Expiration" \in LocalCache!Events \ {"Clear"}
  BY <1>2, TellIs DEF LocalCache!Events
<1>4. c'.entries = LocalCache!Drop(c.entries, ks)
  BY <1>2, SameMaps
<1>5. LocalCache!Remove(ks, LocalCache!Events \ {"Clear"})
  BY <1>1, <1>3, <1>4 DEF LocalCache!Remove, LocalCache!Lose
<1> QED BY <1>5

LEMMA NextRefines == IInv /\ [Next]_vars => [LocalCache!Next]_(LocalCache!vars)
<1> SUFFICES ASSUME IInv, [Next]_vars PROVE [LocalCache!Next]_(LocalCache!vars)
  OBVIOUS
<1>0. Sound(c)
  BY DEF IInv
<1>1. ASSUME NEW k \in Keys, NEW v \in Values, NEW d \in Durations, Set(k, v, d)
      PROVE  LocalCache!Next
  BY <1>1, SetRefines DEF LocalCache!Next
<1>2. ASSUME NEW k \in Keys, Get(k) PROVE LocalCache!Next
  BY <1>2, GetRefines DEF LocalCache!Next
<1>3. ASSUME Purge, UNCHANGED config PROVE LocalCache!Next
  BY <1>0, <1>3, PurgeRefines DEF LocalCache!Next
<1>4. ASSUME UNCHANGED <<config, c, answer>> PROVE UNCHANGED LocalCache!vars
  BY <1>4 DEF config, LocalCache!vars
<1>5. ASSUME NEW k \in Keys, NEW v \in Values, SetPanics(k, v) PROVE UNCHANGED LocalCache!vars
  BY <1>4, <1>5 DEF SetPanics
<1>6. CASE Clear
  BY <1>3, <1>4, <1>6 DEF Clear
<1>7. CASE Stop \/ Close
  BY <1>3, <1>4, <1>7 DEF Stop, Close
<1>8. CASE SetEvictedFunc
  <2>1. c' = Quiet(c)
    BY <1>8 DEF SetEvictedFunc, Quiet
  <2>2. c'.entries = c.entries /\ c'.calls = {}
    BY <1>0, <2>1, QuietStep
  <2>3. LocalCache!SetEvictedFunc
    BY <1>8, <2>2 DEF SetEvictedFunc, LocalCache!SetEvictedFunc
  <2> QED BY <2>3 DEF LocalCache!Next
<1>9. ASSUME NEW ttl \in TTLs, SetDefaultTTL(ttl) PROVE LocalCache!Next
  <2>1. c' = Quiet(c)
    BY <1>9 DEF SetDefaultTTL, Quiet
  <2>2. c'.entries = c.entries /\ c'.calls = {}
    BY <1>0, <2>1, QuietStep
  <2>3. LocalCache!SetDefaultTTL(ttl)
    BY <1>9, <2>2 DEF SetDefaultTTL, LocalCache!SetDefaultTTL
  <2> QED BY <2>3 DEF LocalCache!Next
<1>10. CASE CleanerStarts \/ CleanerLocks \/ CleanerExits
  BY <1>4, <1>10 DEF CleanerStarts, CleanerLocks, CleanerExits, CleanerMoves
<1>11. CASE CleanerSweeps
  BY <1>11, SweepRefines DEF LocalCache!Next
<1>12. CASE Tick
  <2>1. LocalCache!Tick
    BY <1>12 DEF Tick, LocalCache!Tick
  <2> QED BY <2>1 DEF LocalCache!Next
<1>13. CASE UNCHANGED vars
  BY <1>4, <1>13 DEF vars
<1> QED BY <1>1, <1>2, <1>5, <1>6, <1>7, <1>8, <1>9, <1>10, <1>11, <1>12, <1>13 DEF Next, Cleaner

\* However many elements of old entries the lists hold, and whatever a replacement or an
\* eviction does to a key before it enters: 2Q and ARC answer what was set last, and
\* tell of every key they lose (cache.go:24-43 as the engine needs it).
THEOREM Refinement == Spec => ImplementsLossyCache
<1>1. Init => LocalCache!Init
  <2> SUFFICES ASSUME Init PROVE LocalCache!Init
    OBVIOUS
  <2>1. c.entries = <<>> /\ c.calls = {}
    BY EmptySound DEF Init
  <2> QED BY <2>1 DEF Init, LocalCache!Init
<1>2. IInv /\ [Next]_vars => [LocalCache!Next]_(LocalCache!vars)
  BY NextRefines
<1> QED BY <1>1, <1>2, Invariance, PTL DEF Spec, ImplementsLossyCache, LocalCache!Spec
================================================================================
