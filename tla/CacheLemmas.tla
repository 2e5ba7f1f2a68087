------------------------------- MODULE CacheLemmas -----------------------------
(* Facts about lists of keys and maps of entries that the proofs about the *)
(* caches share.                                                           *)
EXTENDS CacheCommon, Positions, SequenceTheorems, FiniteSetTheorems, TLAPS

\* What a map and a list agree on when they hold the same keys, each once.
Matches(list, ks) ==
  /\ \A i \in 1..Len(list) : list[i] \in ks
  /\ \A k \in ks : \E i \in 1..Len(list) : list[i] = k
  /\ \A i, j \in 1..Len(list) : list[i] = list[j] => i = j

Omit(s, i) == SubSeq(s, 1, i - 1) \o SubSeq(s, i + 1, Len(s))

\* What is left of a sequence without its element i.
LEMMA OmitProperties ==
  ASSUME NEW S, NEW s \in Seq(S), NEW i \in 1..Len(s)
  PROVE  /\ Omit(s, i) \in Seq(S)
         /\ Len(Omit(s, i)) = Len(s) - 1
         /\ \A j \in 1..(Len(s) - 1) : Omit(s, i)[j] = IF j < i THEN s[j] ELSE s[j + 1]
<1> DEFINE p == SubSeq(s, 1, i - 1)
           q == SubSeq(s, i + 1, Len(s))
<1>1. /\ p \in Seq(S)
      /\ Len(p) = i - 1
      /\ \A j \in 1..(i - 1) : p[j] = s[j]
  OBVIOUS
<1>2. /\ q \in Seq(S)
      /\ Len(q) = Len(s) - i
      /\ \A j \in 1..(Len(s) - i) : q[j] = s[i + j]
  OBVIOUS
<1> HIDE DEF p, q
<1>3. /\ p \o q \in Seq(S)
      /\ Len(p \o q) = Len(s) - 1
      /\ \A j \in 1..(Len(s) - 1) : (p \o q)[j] = IF j < i THEN p[j] ELSE q[j - (i - 1)]
  <2>1. /\ p \o q \in Seq(S)
        /\ Len(p \o q) = Len(p) + Len(q)
        /\ \A j \in 1..(Len(p) + Len(q)) :
             (p \o q)[j] = IF j <= Len(p) THEN p[j] ELSE q[j - Len(p)]
    BY <1>1, <1>2, ConcatProperties
  <2>2. /\ Len(p) \in Nat /\ Len(p) + Len(q) = Len(s) - 1
        /\ \A j \in Int : j <= Len(p) <=> j < i
    BY <1>1, <1>2
  <2> QED BY <1>1, <2>1, <2>2
<1>4. ASSUME NEW j \in 1..(Len(s) - 1), j >= i
      PROVE  q[j - (i - 1)] = s[j + 1]
  <2>1. j - (i - 1) \in 1..(Len(s) - i) /\ i + (j - (i - 1)) = j + 1
    BY <1>4
  <2> QED BY <1>2, <2>1
<1>5. \A j \in 1..(Len(s) - 1) : (p \o q)[j] = IF j < i THEN s[j] ELSE s[j + 1]
  BY <1>1, <1>3, <1>4
<1> QED
  BY <1>3, <1>5 DEF Omit, p, q

\* Removing an element and its key keeps the two in agreement.
LEMMA OmitMatches ==
  ASSUME NEW S, NEW s \in Seq(S), NEW ks, Matches(s, ks), NEW i \in 1..Len(s)
  PROVE  Matches(Omit(s, i), ks \ {s[i]})
<1> DEFINE r == Omit(s, i)
<1>1. /\ r \in Seq(S)
      /\ Len(r) = Len(s) - 1
      /\ \A j \in 1..(Len(s) - 1) : r[j] = IF j < i THEN s[j] ELSE s[j + 1]
  BY OmitProperties
<1> HIDE DEF r
<1>2. ASSUME NEW k \in ks \ {s[i]}
      PROVE  \E j \in 1..Len(r) : r[j] = k
  <2>1. PICK j \in 1..Len(s) : s[j] = k
    BY <1>2 DEF Matches
  <2>2. CASE j < i
    <3>1. j \in 1..Len(r) /\ r[j] = k
      BY <1>1, <2>1, <2>2
    <3> QED BY <3>1
  <2>3. CASE j > i
    <3>1. j - 1 \in 1..Len(r) /\ r[j - 1] = k
      BY <1>1, <2>1, <2>3
    <3> QED BY <3>1
  <2> QED BY <2>1, <2>2, <2>3, <1>2
<1>3. ASSUME NEW j \in 1..Len(r)
      PROVE  r[j] \in ks \ {s[i]}
  BY <1>1, <1>3 DEF Matches
<1>4. ASSUME NEW j1 \in 1..Len(r), NEW j2 \in 1..Len(r), r[j1] = r[j2]
      PROVE  j1 = j2
  BY <1>1, <1>4 DEF Matches
<1> QED
  BY <1>2, <1>3, <1>4 DEF Matches, r

\* So does pushing a new key.
LEMMA PushMatches ==
  ASSUME NEW S, NEW s \in Seq(S), NEW ks, Matches(s, ks), NEW k \in S, k \notin ks
  PROVE  /\ <<k>> \o s \in Seq(S)
         /\ Len(<<k>> \o s) = Len(s) + 1
         /\ Matches(<<k>> \o s, ks \cup {k})
<1> DEFINE r == <<k>> \o s
<1>1. /\ r \in Seq(S)
      /\ Len(r) = Len(s) + 1
      /\ r[1] = k
      /\ \A j \in 2..Len(r) : r[j] = s[j - 1]
  OBVIOUS
<1> HIDE DEF r
<1>2. ASSUME NEW x \in ks \cup {k}
      PROVE  \E j \in 1..Len(r) : r[j] = x
  <2>1. CASE x = k
    BY <1>1, <2>1
  <2>2. CASE x \in ks
    <3>1. PICK j \in 1..Len(s) : s[j] = x
      BY <2>2 DEF Matches
    <3>2. j + 1 \in 1..Len(r) /\ r[j + 1] = x
      BY <1>1, <3>1
    <3> QED BY <3>2
  <2> QED BY <1>2, <2>1, <2>2
<1>3. ASSUME NEW j \in 1..Len(r)
      PROVE  r[j] \in ks \cup {k}
  BY <1>1, <1>3 DEF Matches
<1>4. ASSUME NEW j1 \in 1..Len(r), NEW j2 \in 1..Len(r), r[j1] = r[j2]
      PROVE  j1 = j2
  <2>1. \A j \in 2..Len(r) : r[j] # k
    BY <1>1 DEF Matches
  <2> QED BY <1>1, <1>4, <2>1 DEF Matches
<1> QED
  BY <1>1, <1>2, <1>3, <1>4 DEF Matches, r

\* Appending a new key.
LEMMA AppendMatches ==
  ASSUME NEW S, NEW s \in Seq(S), NEW ks, Matches(s, ks), NEW k \in S, k \notin ks
  PROVE  /\ Append(s, k) \in Seq(S)
         /\ Len(Append(s, k)) = Len(s) + 1
         /\ Matches(Append(s, k), ks \cup {k})
<1> DEFINE r == Append(s, k)
<1>1. /\ r \in Seq(S)
      /\ Len(r) = Len(s) + 1
      /\ r[Len(r)] = k
      /\ \A j \in 1..Len(s) : r[j] = s[j]
      /\ Len(s) \in Nat
  OBVIOUS
<1> HIDE DEF r
<1>2. ASSUME NEW x \in ks \cup {k}
      PROVE  \E j \in 1..Len(r) : r[j] = x
  <2>1. CASE x = k
    BY <1>1, <2>1
  <2>2. CASE x \in ks
    <3>1. PICK j \in 1..Len(s) : s[j] = x
      BY <2>2 DEF Matches
    <3>2. j \in 1..Len(r) /\ r[j] = x
      BY <1>1, <3>1
    <3> QED BY <3>2
  <2> QED BY <1>2, <2>1, <2>2
<1>3. ASSUME NEW j \in 1..Len(r)
      PROVE  r[j] \in ks \cup {k}
  BY <1>1, <1>3 DEF Matches
<1>4. ASSUME NEW j1 \in 1..Len(r), NEW j2 \in 1..Len(r), r[j1] = r[j2]
      PROVE  j1 = j2
  <2>1. \A j \in 1..Len(s) : r[j] # k
    BY <1>1 DEF Matches
  <2> QED BY <1>1, <1>4, <2>1 DEF Matches
<1> QED
  BY <1>1, <1>2, <1>3, <1>4 DEF Matches, r

\* The list is as long as the set is large.
LEMMA MatchesCounts ==
  ASSUME NEW S, NEW s \in Seq(S), NEW ks, Matches(s, ks)
  PROVE  Cardinality(ks) = Len(s) /\ Len(s) \in Nat
<1>1. s \in [1..Len(s) -> ks]
  BY DEF Matches
<1>2. \A i, j \in DOMAIN s : s[i] = s[j] => i = j
  BY <1>1 DEF Matches
<1>3. \A k \in ks : \E i \in 1..Len(s) : s[i] = k
  BY DEF Matches
<1>4. s \in Bijection(1..Len(s), ks)
  BY <1>1, <1>2, <1>3 DEF Bijection, Injection, IsInjective, Surjection
<1> QED
  BY <1>4, FS_CountingElements DEF ExistsBijection

--------------------------------------------------------------------------------
(* Positions.                                                              *)

\* A set of numbers has a least one.
LEMMA LeastNatural ==
  ASSUME NEW ns \in SUBSET Nat, NEW n \in ns
  PROVE  \E m \in ns : \A l \in ns : m <= l
<1> DEFINE below == {0..m : m \in ns}
<1>1. IsWellFoundedOn(StrictSubsetOrdering(Nat), FiniteSubsetsOf(Nat))
  BY FS_StrictSubsetOrderingWellFounded
<1>2. below \subseteq FiniteSubsetsOf(Nat) /\ below # {}
  <2>1. \A m \in ns : IsFiniteSet(0..m)
    BY FS_Interval
  <2> QED BY <2>1 DEF FiniteSubsetsOf
<1> HIDE DEF below
<1>3. PICK low \in below : \A set \in below : <<set, low>> \notin StrictSubsetOrdering(Nat)
  BY <1>1, <1>2, WFMin
<1>4. PICK m \in ns : low = 0..m
  BY DEF below
<1>5. ASSUME NEW l \in ns, l < m
      PROVE  FALSE
  <2>1. 0..l \in below /\ 0..l \subseteq 0..m /\ m \in 0..m /\ m \notin 0..l
    BY <1>5 DEF below
  <2> QED BY <1>2, <1>3, <1>4, <2>1 DEF StrictSubsetOrdering, FiniteSubsetsOf
<1> QED BY <1>5

Before(ps, i) == {h \in ps : h < i}

\* How many positions come before one.
LEMMA BeforeCounts ==
  ASSUME NEW n \in Nat, NEW ps \in SUBSET (1..n)
  PROVE  /\ IsFiniteSet(ps) /\ Cardinality(ps) \in Nat
         /\ \A i \in Int : Cardinality(Before(ps, i)) \in 0..Cardinality(ps)
         /\ \A i \in Int : /\ i \in ps => Cardinality(Before(ps, i + 1)) = Cardinality(Before(ps, i)) + 1
                           /\ i \notin ps => Cardinality(Before(ps, i + 1)) = Cardinality(Before(ps, i))
         /\ \A i, j \in Int : i <= j => Cardinality(Before(ps, i)) <= Cardinality(Before(ps, j))
         /\ Cardinality(Before(ps, 0)) = 0
         /\ Cardinality(Before(ps, n + 1)) = Cardinality(ps)
<1>0. \A h \in ps : h \in Int /\ 1 <= h /\ h <= n
  OBVIOUS
<1>1. IsFiniteSet(ps) /\ Cardinality(ps) \in Nat
  <2>1. IsFiniteSet(1..n)
    BY FS_Interval, 1 \in Int, n \in Int
  <2> QED BY <2>1, FS_Subset, FS_CardinalityType
<1>2. \A i \in Int : IsFiniteSet(Before(ps, i))
                     /\ Cardinality(Before(ps, i)) \in 0..Cardinality(ps)
  BY <1>1, FS_Subset, FS_CardinalityType DEF Before
<1>3. ASSUME NEW i \in Int
      PROVE  /\ i \in ps => Cardinality(Before(ps, i + 1)) = Cardinality(Before(ps, i)) + 1
             /\ i \notin ps => Before(ps, i + 1) = Before(ps, i)
  <2>0. \A h \in Int : h < i + 1 <=> h < i \/ h = i
    OBVIOUS
  <2>1. ASSUME i \in ps
        PROVE  Before(ps, i + 1) = Before(ps, i) \cup {i} /\ i \notin Before(ps, i)
    <3>1. \A h : h \in Before(ps, i + 1) <=> h \in Before(ps, i) \cup {i}
      BY <1>0, <2>0, <2>1 DEF Before
    <3> QED BY <3>1 DEF Before
  <2>2. i \notin ps => Before(ps, i + 1) = Before(ps, i)
    BY <1>0, <2>0 DEF Before
  <2> QED BY <1>2, <2>1, <2>2, FS_AddElement
<1>4. ASSUME NEW i \in Int, NEW j \in Int, i <= j
      PROVE  Cardinality(Before(ps, i)) <= Cardinality(Before(ps, j))
  <2>0. \A h \in Int : h < i => h < j
    BY <1>4
  <2>1. Before(ps, i) \subseteq Before(ps, j)
    BY <1>0, <2>0 DEF Before
  <2> QED BY <1>2, <2>1, FS_Subset
<1>5. Before(ps, 0) = {} /\ Before(ps, n + 1) = ps
  <2>1. \A h \in ps : ~(h < 0) /\ h < n + 1
    BY <1>0
  <2> QED BY <2>1 DEF Before
<1> QED BY <1>1, <1>2, <1>3, <1>4, <1>5, FS_EmptySet

\* Every number of predecessors below the size is that of one position.
LEMMA NthOfProperties ==
  ASSUME NEW n \in Nat, NEW ps \in SUBSET (1..n)
  PROVE  /\ \A m \in 0..(Cardinality(ps) - 1) :
              NthOf(ps, m) \in ps /\ Cardinality(Before(ps, NthOf(ps, m))) = m
         /\ \A i \in ps : /\ Cardinality(Before(ps, i)) \in 0..(Cardinality(ps) - 1)
                          /\ NthOf(ps, Cardinality(Before(ps, i))) = i
<1> DEFINE C(i) == Cardinality(Before(ps, i))
<1>0. Cardinality(ps) \in Nat
  BY BeforeCounts
<1>1. ASSUME NEW m \in 0..(Cardinality(ps) - 1)
      PROVE  \E i \in ps : C(i) = m
  <2> DEFINE ns == {i \in 0..(n + 1) : C(i) > m}
  <2>1. n + 1 \in ns /\ ns \subseteq Nat
    BY <1>0, BeforeCounts
  <2> HIDE DEF ns
  <2>2. PICK i \in ns : \A l \in ns : i <= l
    BY <2>1, LeastNatural
  <2>3. i \in 0..(n + 1) /\ C(i) > m /\ i # 0
    BY BeforeCounts DEF ns
  <2>4. i - 1 \in 0..(n + 1) /\ ~(i <= i - 1) /\ i - 1 \in Int /\ (i - 1) + 1 = i
    BY <2>3
  <2>5. ~(C(i - 1) > m)
    BY <2>2, <2>4 DEF ns
  <2>6. C(i - 1) \in Nat /\ C(i) \in Nat
    BY <1>0, <2>3, <2>4, BeforeCounts
  <2>7. /\ i - 1 \in ps => C(i) = C(i - 1) + 1
        /\ i - 1 \notin ps => C(i) = C(i - 1)
    BY <2>4, BeforeCounts
  <2>8. i - 1 \in ps /\ C(i - 1) = m
    BY <2>3, <2>5, <2>6, <2>7
  <2> QED BY <2>8
<1>2. ASSUME NEW i \in ps, NEW j \in ps, C(i) = C(j)
      PROVE  i = j
  <2>1. ASSUME NEW a \in ps, NEW b \in ps, a < b
        PROVE  C(a) < C(b)
    <3>1. a \in Int /\ b \in Int /\ a + 1 \in Int /\ a + 1 <= b
      BY <2>1
    <3>2. C(a + 1) = C(a) + 1 /\ C(a + 1) <= C(b) /\ C(a) \in Nat /\ C(b) \in Nat
      BY <3>1, BeforeCounts, <1>0
    <3> QED BY <3>2
  <2>2. i \in Int /\ j \in Int /\ C(i) \in Nat /\ C(j) \in Nat
    BY <1>0, BeforeCounts
  <2> QED BY <1>2, <2>1, <2>2
<1>3. ASSUME NEW i \in ps
      PROVE  C(i) \in 0..(Cardinality(ps) - 1)
  <2>1. i \in Int /\ i + 1 \in Int
    OBVIOUS
  <2>2. C(i + 1) = C(i) + 1 /\ C(i + 1) \in 0..Cardinality(ps) /\ C(i) \in 0..Cardinality(ps)
    BY <2>1, BeforeCounts
  <2> QED BY <1>0, <2>2
<1>4. \A m : NthOf(ps, m) = CHOOSE i \in ps : C(i) = m
  BY DEF NthOf, Before
<1> HIDE DEF C
<1>5. \A m \in 0..(Cardinality(ps) - 1) : NthOf(ps, m) \in ps /\ C(NthOf(ps, m)) = m
  BY <1>1, <1>4
<1>6. \A i \in ps : NthOf(ps, C(i)) = i
  BY <1>2, <1>3, <1>5
<1> QED BY <1>3, <1>5, <1>6 DEF C

\* What is left of a list are its elements at the positions that are kept, once each
\* and in their order.
LEMMA OnlyProperties ==
  ASSUME NEW S, NEW list \in Seq(S), NEW ps \in SUBSET (1..Len(list))
  PROVE  /\ Only(list, ps) \in Seq(S)
         /\ Len(Only(list, ps)) = Cardinality(ps) /\ Cardinality(ps) <= Len(list)
         /\ \E at \in [1..Cardinality(ps) -> ps] :
              /\ \A j \in 1..Cardinality(ps) : Only(list, ps)[j] = list[at[j]]
              /\ \A i \in ps : \E j \in 1..Cardinality(ps) : at[j] = i
              /\ \A j, l \in 1..Cardinality(ps) : j < l => at[j] < at[l]
<1>0. Len(list) \in Nat /\ \A i \in 1..Len(list) : list[i] \in S
  OBVIOUS
<1>1. IsFiniteSet(ps) /\ Cardinality(ps) \in Nat
  BY <1>0, BeforeCounts
<1>2. Cardinality(ps) <= Len(list)
  <2>1. IsFiniteSet(1..Len(list)) /\ Cardinality(1..Len(list)) = Len(list)
    <3> DEFINE n == Len(list)
    <3>1. n \in Nat /\ 1 \in Int /\ n \in Int
      BY <1>0
    <3> HIDE DEF n
    <3>2. IsFiniteSet(1..n) /\ Cardinality(1..n) = IF 1 > n THEN 0 ELSE n - 1 + 1
      BY <3>1, FS_Interval
    <3>3. IsFiniteSet(1..n) /\ Cardinality(1..n) = n
      BY <3>1, <3>2
    <3> QED BY <3>3 DEF n
  <2> QED BY <2>1, FS_Subset
<1> DEFINE m == Cardinality(ps)
           at == [j \in 1..m |-> NthOf(ps, j - 1)]
<1>3. ASSUME NEW j \in 1..m
      PROVE  at[j] \in ps /\ Cardinality(Before(ps, at[j])) = j - 1 /\ Only(list, ps)[j] = list[at[j]]
  <2>1. j - 1 \in 0..(Cardinality(ps) - 1)
    BY <1>1
  <2> QED BY <1>0, <2>1, NthOfProperties DEF Only
<1>4. at \in [1..m -> ps]
  BY <1>3
<1>5. \A i \in ps : \E j \in 1..m : at[j] = i
  <2> TAKE i \in ps
  <2>1. Cardinality(Before(ps, i)) \in 0..(m - 1) /\ NthOf(ps, Cardinality(Before(ps, i))) = i
    BY <1>0, NthOfProperties
  <2> DEFINE j == Cardinality(Before(ps, i)) + 1
  <2>2. j \in 1..m /\ j - 1 = Cardinality(Before(ps, i))
    BY <1>1, <2>1
  <2>3. at[j] = i
    BY <2>1, <2>2
  <2> QED BY <2>2, <2>3
<1> HIDE DEF at
<1>6. ASSUME NEW j \in 1..m, NEW l \in 1..m, j < l
      PROVE  at[j] < at[l]
  <2>1. at[j] \in Int /\ at[l] \in Int /\ Cardinality(Before(ps, at[j])) = j - 1
        /\ Cardinality(Before(ps, at[l])) = l - 1
    <3>1. \A i \in ps : i \in Int
      BY <1>0
    <3> QED BY <1>3, <1>4, <3>1
  <2>2. at[l] <= at[j] => l - 1 <= j - 1
    BY <1>0, <2>1, BeforeCounts
  <2> QED BY <1>6, <2>1, <2>2, <1>1
<1>7. DOMAIN Only(list, ps) = 1..m /\ Only(list, ps) = [j \in 1..m |-> Only(list, ps)[j]]
  BY DEF Only
<1>8. \A j \in 1..m : Only(list, ps)[j] \in S
  BY <1>0, <1>3, <1>4
<1>9. Only(list, ps) \in [1..m -> S]
  BY <1>7, <1>8
<1>10. Only(list, ps) \in Seq(S) /\ Len(Only(list, ps)) = m
  BY <1>1, <1>7, <1>9
<1> QED BY <1>2, <1>3, <1>4, <1>5, <1>6, <1>10

--------------------------------------------------------------------------------
\* The calls made for keys of a well-typed map are well-typed calls.
LEMMA CalledType ==
  ASSUME NEW hooked \in BOOLEAN, NEW values, NEW map, map \in [DOMAIN map -> EntryOf(values)],
         NEW keys, DOMAIN map \subseteq keys, NEW ks \in SUBSET DOMAIN map, NEW event \in Events
  PROVE  Called(hooked, map, ks, event) \subseteq CallOf(keys, values)
BY DEF Called, CallOf, EntryOf
================================================================================
