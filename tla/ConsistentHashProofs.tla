-------------------------- MODULE ConsistentHashProofs -------------------------
(* Theorems about ConsistentHash: the ring depends on the nodes that are   *)
(* in it and on nothing else, every key has a node, and few keys move.     *)
EXTENDS ConsistentHash, CacheLemmas

--------------------------------------------------------------------------------
(* Sorting.                                                                *)

Rank(s, h) == Cardinality({j \in DOMAIN s : s[j] < h})

Increasing(s) == \A i, j \in DOMAIN s : i < j => s[i] < s[j]

LEMMA RankProperties ==
  ASSUME NEW s \in Seq(Hashes)
  PROVE  /\ \A h \in Nat : Rank(s, h) \in 0..Len(s)
         /\ \A h, g \in Nat : h <= g => Rank(s, h) <= Rank(s, g)
         /\ Rank(s, 0) = 0
         /\ Rank(s, MaxHash + 1) = Len(s)
         /\ \A h \in Nat : Rank(s, h) < Rank(s, h + 1) => h \in ToSet(s)
         /\ \A h \in ToSet(s) : Rank(s, h) < Rank(s, h + 1)
<1> DEFINE n == Len(s)
           Under(h) == {j \in DOMAIN s : s[j] < h}
<1>0. \A h : Rank(s, h) = Cardinality(Under(h))
  BY DEF Rank
<1>1. n \in Nat /\ DOMAIN s = 1..n /\ MaxHash \in Nat /\ \A j \in 1..n : s[j] \in 0..MaxHash
  BY ConsistentHashAssumption DEF Hashes
<1>2. \A j \in DOMAIN s : s[j] \in Nat /\ s[j] < MaxHash + 1
  BY <1>1
<1>3. IsFiniteSet(1..n) /\ Cardinality(1..n) = n
  <2>1. IsFiniteSet(1..n) /\ Cardinality(1..n) = IF 1 > n THEN 0 ELSE n - 1 + 1
    BY <1>1, FS_Interval, 1 \in Int, n \in Int
  <2> QED BY <1>1, <2>1
<1>4. \A h : Under(h) \in SUBSET (1..n)
  BY <1>1
<1>5. Under(0) = {} /\ Under(MaxHash + 1) = 1..n
  BY <1>1, <1>2
<1>6. \A h, g \in Nat : h <= g => Under(h) \subseteq Under(g)
  BY <1>2
<1>7. \A h \in Nat, j \in DOMAIN s : j \in Under(h + 1) \ Under(h) <=> s[j] = h
  BY <1>2
<1> HIDE DEF Under
<1>8. \A h : IsFiniteSet(Under(h)) /\ Cardinality(Under(h)) \in Nat /\ Cardinality(Under(h)) <= n
  <2> TAKE h
  <2>1. Under(h) \in SUBSET (1..n)
    BY <1>4
  <2> QED BY <1>3, <2>1, FS_Subset, FS_CardinalityType
<1>9. \A h, g \in Nat : h <= g => Cardinality(Under(h)) <= Cardinality(Under(g))
  <2> TAKE h, g \in Nat
  <2> HAVE h <= g
  <2>1. Under(h) \in SUBSET Under(g)
    BY <1>6
  <2> QED BY <1>8, <2>1, FS_Subset
<1>10. ASSUME NEW h \in Nat, Cardinality(Under(h)) < Cardinality(Under(h + 1))
       PROVE  h \in ToSet(s)
  <2>1. Under(h) # Under(h + 1)
    <3>1. Cardinality(Under(h)) # Cardinality(Under(h + 1))
      BY <1>8, <1>10
    <3> QED BY <3>1
  <2>2. Under(h) \subseteq Under(h + 1)
    BY <1>6
  <2>3. PICK j \in Under(h + 1) : j \notin Under(h)
    BY <2>1, <2>2
  <2>4. j \in DOMAIN s /\ s[j] = h
    BY <1>1, <1>4, <1>7, <2>3
  <2> QED BY <2>4 DEF ToSet
<1>11. ASSUME NEW h \in ToSet(s)
       PROVE  Cardinality(Under(h)) < Cardinality(Under(h + 1))
  <2>1. PICK j \in DOMAIN s : s[j] = h
    BY DEF ToSet
  <2>2. h \in Nat
    BY <1>2, <2>1
  <2>3. j \in Under(h + 1) \ Under(h) /\ Under(h) \subseteq Under(h + 1)
    BY <1>6, <1>7, <2>1, <2>2
  <2>4. Under(h) \in SUBSET Under(h + 1) /\ Under(h) # Under(h + 1)
    BY <2>3
  <2>5. Cardinality(Under(h)) <= Cardinality(Under(h + 1)) /\ Cardinality(Under(h)) # Cardinality(Under(h + 1))
    BY <1>8, <2>4, FS_Subset
  <2> QED BY <1>8, <2>5
<1>12. Rank(s, 0) = 0 /\ Rank(s, MaxHash + 1) = n
  BY <1>0, <1>3, <1>5, FS_EmptySet
<1> QED BY <1>0, <1>1, <1>8, <1>9, <1>10, <1>11, <1>12

\* What sort.Slice promises, and of distinct values a little more.
LEMMA SortedUpProperties ==
  ASSUME NEW s \in Seq(Hashes)
  PROVE  LET r == SortedUp(s)
         IN /\ r \in Seq(Hashes)
            /\ Len(r) = Len(s)
            /\ ToSet(r) = ToSet(s)
            /\ \A i, j \in DOMAIN r : i < j => r[i] <= r[j]
            /\ (\A i, j \in DOMAIN s : s[i] = s[j] => i = j) => Increasing(r)
<1> DEFINE n == Len(s)
           r == SortedUp(s)
           At(h, i) == Rank(s, h) < i /\ i <= Rank(s, h + 1)
<1>1. n \in Nat /\ DOMAIN s = 1..n /\ MaxHash \in Nat /\ \A j \in 1..n : s[j] \in 0..MaxHash
  BY ConsistentHashAssumption DEF Hashes
<1>2. \A h \in ToSet(s) : h \in Hashes /\ h \in Nat /\ h + 1 \in Nat
  BY <1>1 DEF ToSet, Hashes
<1>3. /\ \A h \in Nat : Rank(s, h) \in Nat /\ Rank(s, h) <= n
      /\ \A h, g \in Nat : h <= g => Rank(s, h) <= Rank(s, g)
      /\ Rank(s, 0) = 0 /\ Rank(s, MaxHash + 1) = n
      /\ \A h \in Nat : Rank(s, h) < Rank(s, h + 1) => h \in ToSet(s)
      /\ \A h \in ToSet(s) : Rank(s, h) < Rank(s, h + 1)
  BY <1>1, RankProperties
<1>4. ASSUME NEW i \in 1..n
      PROVE  \E h \in ToSet(s) : At(h, i)
  <2> DEFINE enough == {x \in Nat : Rank(s, x) >= i}
  <2>1. MaxHash + 1 \in enough
    BY <1>1, <1>3
  <2>2. PICK x \in enough : \A y \in enough : x <= y
    BY <2>1, LeastNatural
  <2>3. x \in Nat /\ Rank(s, x) >= i
    BY <2>2
  <2>4. x # 0
    BY <1>1, <1>3, <2>3
  <2>5. x - 1 \in Nat /\ x - 1 + 1 = x
    BY <2>3, <2>4
  <2>6. Rank(s, x - 1) < i
    <3>1. x - 1 \notin enough
      BY <2>2, <2>3, <2>5
    <3> QED BY <1>1, <1>3, <2>5, <3>1
  <2>7. x - 1 \in ToSet(s)
    BY <1>1, <1>3, <2>3, <2>5, <2>6
  <2> QED BY <2>3, <2>5, <2>6, <2>7
<1>5. r = [i \in 1..n |-> CHOOSE h \in ToSet(s) : At(h, i)]
  BY <1>1 DEF SortedUp, Rank
<1> HIDE DEF r
<1>6. \A i \in 1..n : r[i] \in ToSet(s) /\ At(r[i], i)
  BY <1>4, <1>5
<1>7. r \in Seq(Hashes) /\ Len(r) = n /\ DOMAIN r = 1..n
  <2>1. r \in [1..n -> Hashes]
    BY <1>2, <1>5, <1>6
  <2> QED BY <1>1, <2>1
<1>8. ASSUME NEW i \in 1..n, NEW h \in ToSet(s), At(h, i), NEW j \in 1..n, NEW g \in ToSet(s), At(g, j), i <= j
      PROVE  h <= g
  <2>1. h \in Nat /\ g \in Nat /\ h + 1 \in Nat /\ g + 1 \in Nat /\ Rank(s, h) \in Nat /\ Rank(s, g + 1) \in Nat
    BY <1>2, <1>3
  <2>2. SUFFICES ASSUME g < h PROVE FALSE
    BY <2>1
  <2>3. Rank(s, g + 1) <= Rank(s, h)
    BY <1>3, <2>1, <2>2
  <2>4. i \in Nat /\ j \in Nat
    BY <1>1
  <2> QED BY <1>8, <2>1, <2>3, <2>4
<1>9. \A i, j \in 1..n : i < j => r[i] <= r[j]
  <2> TAKE i, j \in 1..n
  <2> HAVE i < j
  <2>1. i <= j
    BY <1>1
  <2> QED BY <1>6, <1>8, <2>1
<1>10. ASSUME NEW h \in ToSet(s)
       PROVE  \E i \in 1..n : r[i] = h
  <2> DEFINE i == Rank(s, h) + 1
  <2>1. Rank(s, h) \in Nat /\ Rank(s, h + 1) \in Nat /\ Rank(s, h + 1) <= n /\ Rank(s, h) < Rank(s, h + 1)
    BY <1>2, <1>3
  <2>2. i \in 1..n /\ At(h, i)
    BY <1>1, <2>1
  <2>3. r[i] \in ToSet(s) /\ At(r[i], i)
    BY <1>6, <2>2
  <2> HIDE DEF i
  <2>4. i <= i
    BY <1>1, <2>2
  <2>5. h <= r[i] /\ r[i] <= h
    BY <1>8, <2>2, <2>3, <2>4
  <2>6. r[i] = h
    BY <1>2, <2>3, <2>5
  <2> QED BY <2>2, <2>6
<1>11. ToSet(r) = ToSet(s)
  BY <1>6, <1>7, <1>10 DEF ToSet
<1>12. ASSUME \A i, j \in 1..n : s[i] = s[j] => i = j
       PROVE  \A i, j \in 1..n : i < j => r[i] < r[j]
  <2> SUFFICES ASSUME NEW i \in 1..n, NEW j \in 1..n, i < j PROVE r[i] < r[j]
    OBVIOUS
  <2> DEFINE h == r[i]
             Under(x) == {l \in DOMAIN s : s[l] < x}
  <2>1. h \in ToSet(s) /\ At(h, i) /\ r[j] \in ToSet(s) /\ At(r[j], j) /\ h <= r[j]
    BY <1>6, <1>9
  <2>2. h \in Nat /\ r[j] \in Nat
    BY <1>2, <2>1
  <2> HIDE DEF h
  <2>3. SUFFICES ASSUME r[j] = h PROVE FALSE
    BY <2>1, <2>2 DEF h
  <2>4. PICK l \in 1..n : s[l] = h
    BY <1>1, <2>1 DEF ToSet
  <2>5. Under(h + 1) = Under(h) \cup {l}
    <3>1. \A m \in 1..n : s[m] < h + 1 <=> s[m] < h \/ s[m] = h
      BY <1>1, <2>2
    <3> QED BY <1>1, <1>12, <2>4, <3>1
  <2>6. Rank(s, h) = Cardinality(Under(h)) /\ Rank(s, h + 1) = Cardinality(Under(h + 1))
    BY DEF Rank
  <2>7. IsFiniteSet(Under(h))
    <3>1. IsFiniteSet(1..n)
      BY <1>1, FS_Interval, 1 \in Int, n \in Int
    <3>2. Under(h) \in SUBSET (1..n)
      BY <1>1
    <3> QED BY <3>1, <3>2, FS_Subset
  <2>8. l \notin Under(h)
    BY <2>2, <2>4
  <2> HIDE DEF Under
  <2>9. Rank(s, h + 1) = Rank(s, h) + 1
    BY <2>5, <2>6, <2>7, <2>8, FS_AddElement
  <2>10. Rank(s, h) \in Nat
    BY <1>3, <2>2
  <2>11. i \in Nat /\ j \in Nat
    BY <1>1
  <2> QED BY <2>1, <2>3, <2>9, <2>10, <2>11
<1> QED BY <1>1, <1>7, <1>9, <1>11, <1>12 DEF Increasing, r

\* A list in increasing order is the only one with its elements: what RingIsDetermined
\* says of the ring leaves no choice.
LEMMA IncreasingIsUnique ==
  ASSUME NEW s \in Seq(Nat), NEW t \in Seq(Nat),
         Increasing(s), Increasing(t), ToSet(s) = ToSet(t)
  PROVE  s = t
<1>1. /\ Len(s) \in Nat /\ DOMAIN s = 1..Len(s) /\ s \in [1..Len(s) -> Nat]
      /\ Len(t) \in Nat /\ DOMAIN t = 1..Len(t) /\ t \in [1..Len(t) -> Nat]
  OBVIOUS
<1>2. ASSUME NEW a \in Seq(Nat), NEW b \in Seq(Nat), Increasing(a), Increasing(b), ToSet(a) = ToSet(b),
             NEW i \in 1..Len(a), \A j \in 1..(i - 1) : j \in 1..Len(b) /\ a[j] = b[j]
      PROVE  i \in 1..Len(b) /\ b[i] <= a[i]
  <2>1. /\ Len(a) \in Nat /\ DOMAIN a = 1..Len(a) /\ Len(b) \in Nat /\ DOMAIN b = 1..Len(b)
        /\ \A j \in 1..Len(a) : a[j] \in Nat
        /\ \A j \in 1..Len(b) : b[j] \in Nat
    OBVIOUS
  <2>2. a[i] \in ToSet(b)
    BY <1>2, <2>1 DEF ToSet
  <2>3. PICK j \in 1..Len(b) : b[j] = a[i]
    BY <2>1, <2>2 DEF ToSet
  <2>4. i <= j
    <3>1. SUFFICES ASSUME j < i PROVE FALSE
      BY <2>1
    <3>2. j \in 1..(i - 1) /\ j \in 1..Len(a)
      BY <2>1, <3>1
    <3>3. a[j] = a[i]
      BY <1>2, <2>3, <3>2
    <3>4. a[j] < a[i]
      BY <1>2, <2>1, <3>1, <3>2 DEF Increasing
    <3> QED BY <2>1, <3>2, <3>3, <3>4
  <2>5. i \in 1..Len(b)
    BY <2>1, <2>4
  <2>6. CASE i = j
    BY <2>1, <2>3, <2>5, <2>6
  <2>7. CASE i # j
    <3>1. i \in Nat /\ j \in Nat
      BY <2>1
    <3>2. i < j
      BY <2>4, <2>7, <3>1
    <3>3. b[i] < b[j]
      BY <1>2, <2>1, <2>5, <3>2 DEF Increasing
    <3> QED BY <2>1, <2>3, <2>5, <3>3
  <2> QED BY <2>6, <2>7
<1> DEFINE Agrees(i) == i \in 1..Len(s) /\ i \in 1..Len(t) /\ s[i] = t[i]
           bad == {i \in Nat : (i \in 1..Len(s) \/ i \in 1..Len(t)) /\ ~Agrees(i)}
<1>3. bad = {}
  <2> SUFFICES ASSUME bad # {} PROVE FALSE
    OBVIOUS
  <2>1. bad \in SUBSET Nat
    OBVIOUS
  <2>2. PICK i \in bad : \A j \in bad : i <= j
    BY <2>1, LeastNatural
  <2>3. i \in Nat /\ (i \in 1..Len(s) \/ i \in 1..Len(t)) /\ ~Agrees(i)
    BY <2>2
  <2>4. \A j \in 1..(i - 1) : Agrees(j)
    <3> TAKE j \in 1..(i - 1)
    <3>1. j \in Nat /\ j < i /\ j \notin bad
      BY <2>2, <2>3
    <3>2. j \in 1..Len(s) \/ j \in 1..Len(t)
      BY <1>1, <2>3, <3>1
    <3> QED BY <3>1, <3>2
  <2>5. CASE i \in 1..Len(s)
    <3>1. i \in 1..Len(t) /\ t[i] <= s[i]
      BY <1>2, <2>4, <2>5
    <3>2. s[i] <= t[i]
      BY <1>2, <2>4, <3>1
    <3>3. s[i] \in Nat /\ t[i] \in Nat
      BY <1>1, <2>5, <3>1
    <3>4. s[i] = t[i]
      BY <3>1, <3>2, <3>3
    <3> QED BY <2>3, <2>5, <3>1, <3>4
  <2>6. CASE i \in 1..Len(t)
    <3>1. i \in 1..Len(s)
      BY <1>2, <2>4, <2>6
    <3> QED BY <2>5, <3>1
  <2> QED BY <2>3, <2>5, <2>6
<1>4. \A i \in Nat : i \in 1..Len(s) \/ i \in 1..Len(t) => Agrees(i)
  BY <1>3
<1>5. Len(s) = Len(t)
  <2>1. Len(s) <= Len(t)
    <3>1. CASE Len(s) = 0
      BY <1>1, <3>1
    <3>2. CASE Len(s) # 0
      <4>1. Len(s) \in 1..Len(s)
        BY <1>1, <3>2
      <4>2. Len(s) \in 1..Len(t)
        BY <1>1, <1>4, <4>1
      <4> QED BY <1>1, <4>2
    <3> QED BY <3>1, <3>2
  <2>2. Len(t) <= Len(s)
    <3>1. CASE Len(t) = 0
      BY <1>1, <3>1
    <3>2. CASE Len(t) # 0
      <4>1. Len(t) \in 1..Len(t)
        BY <1>1, <3>2
      <4>2. Len(t) \in 1..Len(s)
        BY <1>1, <1>4, <4>1
      <4> QED BY <1>1, <4>2
    <3> QED BY <3>1, <3>2
  <2>3. Len(s) \in Nat /\ Len(t) \in Nat
    BY <1>1
  <2> QED BY ONLY <2>1, <2>2, <2>3
<1>6. \A i \in 1..Len(s) : s[i] = t[i]
  BY <1>1, <1>4
<1> QED BY <1>1, <1>5, <1>6

--------------------------------------------------------------------------------
(* The invariant.                                                          *)

LEMMA HashesOfType ==
  ASSUME TypeOK, NEW n \in Nodes
  PROVE  /\ HashesOf(n) \in Seq(Hashes)
         /\ Len(HashesOf(n)) = Replicas
         /\ ToSet(HashesOf(n)) = {hashFunc[<<n, r>>] : r \in 0..(Replicas - 1)}
         /\ \A r \in 0..(Replicas - 1) : <<n, r>> \in VirtualNodes
<1>1. Replicas \in Nat
  BY ConsistentHashAssumption
<1>2. \A r \in 0..(Replicas - 1) : <<n, r>> \in VirtualNodes /\ hashFunc[<<n, r>>] \in Hashes
  BY DEF TypeOK, VirtualNodes
<1>3. HashesOf(n) = [i \in 1..Replicas |-> hashFunc[<<n, i - 1>>]]
  BY DEF HashesOf
<1>4. \A i \in 1..Replicas : i - 1 \in 0..(Replicas - 1)
  BY <1>1
<1>5. \A r \in 0..(Replicas - 1) : r + 1 \in 1..Replicas /\ (r + 1) - 1 = r
  BY <1>1
<1>6. HashesOf(n) \in [1..Replicas -> Hashes]
  BY <1>2, <1>3, <1>4
<1>7. HashesOf(n) \in Seq(Hashes) /\ Len(HashesOf(n)) = Replicas /\ DOMAIN HashesOf(n) = 1..Replicas
  BY <1>1, <1>6
<1>8. ToSet(HashesOf(n)) = {hashFunc[<<n, r>>] : r \in 0..(Replicas - 1)}
  <2>1. ASSUME NEW x \in ToSet(HashesOf(n)) PROVE x \in {hashFunc[<<n, r>>] : r \in 0..(Replicas - 1)}
    <3>1. PICK i \in 1..Replicas : x = HashesOf(n)[i]
      BY <1>7, <2>1 DEF ToSet
    <3> QED BY <1>3, <1>4, <3>1
  <2>2. ASSUME NEW r \in 0..(Replicas - 1) PROVE hashFunc[<<n, r>>] \in ToSet(HashesOf(n))
    <3>1. HashesOf(n)[r + 1] = hashFunc[<<n, r>>]
      BY <1>3, <1>5
    <3> QED BY <1>5, <1>7, <3>1 DEF ToSet
  <2> QED BY <2>1, <2>2
<1> QED BY <1>2, <1>7, <1>8

LEMMA TypeInv == TypeOK /\ [Next]_vars => TypeOK'
<1> SUFFICES ASSUME TypeOK, [Next]_vars PROVE TypeOK'
  OBVIOUS
<1>1. ASSUME NEW n \in Nodes, AddNode(n) PROVE TypeOK'
  <2> DEFINE H == HashesOf(n)
             hs == ToSet(H)
             D == DOMAIN nodeMap \cup hs
  <2>1. H \in Seq(Hashes) /\ hs \subseteq Hashes
    <3>1. H \in Seq(Hashes)
      BY HashesOfType
    <3> HIDE DEF H
    <3> QED BY <3>1 DEF ToSet
  <2>2. keys' = SortedUp(keys \o H) /\ nodes' = nodes \cup {n} /\ hashFunc' = hashFunc
    BY <1>1 DEF AddNode
  <2>3. nodeMap' = [h \in D |-> IF h \in hs THEN n ELSE nodeMap[h]]
    BY <1>1 DEF AddNode
  <2> HIDE DEF H
  <2>4. keys \o H \in Seq(Hashes)
    BY <2>1 DEF TypeOK
  <2>5. keys' \in Seq(Hashes)
    BY <2>2, <2>4, SortedUpProperties
  <2>6. DOMAIN nodeMap' \subseteq Hashes /\ nodeMap' \in [DOMAIN nodeMap' -> Nodes]
    BY <2>1, <2>3 DEF TypeOK
  <2> QED BY <2>2, <2>5, <2>6 DEF TypeOK
<1>2. ASSUME NEW n \in Nodes, RemoveNode(n) PROVE TypeOK'
  <2>1. keys' = Only(keys, Kept(n)) /\ nodes' = nodes \ {n} /\ hashFunc' = hashFunc
    BY <1>2 DEF RemoveNode
  <2>2. Kept(n) \in SUBSET (1..Len(keys)) /\ keys \in Seq(Hashes)
    BY DEF TypeOK, Kept
  <2>3. keys' \in Seq(Hashes)
    BY <2>1, <2>2, OnlyProperties
  <2>4. DOMAIN nodeMap' \subseteq Hashes /\ nodeMap' \in [DOMAIN nodeMap' -> Nodes]
    BY <1>2 DEF TypeOK, RemoveNode
  <2> QED BY <2>1, <2>3, <2>4 DEF TypeOK
<1>3. CASE UNCHANGED vars
  BY <1>3 DEF TypeOK, vars
<1> QED BY <1>1, <1>2, <1>3 DEF Next

\* The variables have the types of the Go fields they stand for, hashes that collide or not.
THEOREM TypeCorrect == Spec => []TypeOK
<1>1. Init => TypeOK
  BY DEF Init, TypeOK
<1>2. TypeOK /\ [Next]_vars => TypeOK'
  BY TypeInv
<1> QED BY <1>1, <1>2, PTL DEF Spec

--------------------------------------------------------------------------------
(* The ring is determined by the nodes, when no two hashes collide.        *)

ReplicaNumbers == 0..(Replicas - 1)

HashesOn(ns) == {hashFunc[p] : p \in ns \X ReplicaNumbers}

LEMMA HashesAreApart ==
  ASSUME TypeOK, IsInjective(hashFunc)
  PROVE  \A p, q \in VirtualNodes : hashFunc[p] = hashFunc[q] => p = q
BY DEF TypeOK, IsInjective

LEMMA AddKeepsRing ==
  ASSUME TypeOK, TypeOK', IsInjective(hashFunc), RingIsDetermined, NEW n \in Nodes, AddNode(n)
  PROVE  RingIsDetermined'
<1> DEFINE H == HashesOf(n)
           hs == ToSet(H)
           c == keys \o H
           old == HashesOn(nodes)
<1>1. /\ H \in Seq(Hashes) /\ Len(H) = Replicas
      /\ hs = {hashFunc[<<n, r>>] : r \in ReplicaNumbers}
      /\ \A r \in ReplicaNumbers : <<n, r>> \in VirtualNodes
  BY HashesOfType DEF ReplicaNumbers
<1>2. H = [i \in 1..Replicas |-> hashFunc[<<n, i - 1>>]] /\ Replicas \in Nat
  BY ConsistentHashAssumption DEF HashesOf
<1>3. /\ nodes' = nodes \cup {n} /\ n \notin nodes /\ hashFunc' = hashFunc
      /\ keys' = SortedUp(c)
      /\ nodeMap' = [h \in DOMAIN nodeMap \cup hs |-> IF h \in hs THEN n ELSE nodeMap[h]]
  BY DEF AddNode
<1>4. /\ keys \in Seq(Hashes) /\ ToSet(keys) = old /\ DOMAIN nodeMap = old
      /\ \A i, j \in DOMAIN keys : i < j => keys[i] < keys[j]
      /\ \A p \in nodes \X ReplicaNumbers : nodeMap[hashFunc[p]] = p[1]
  BY DEF RingIsDetermined, TypeOK, HashesOn, ReplicaNumbers
<1>5. \A p \in nodes \X ReplicaNumbers : p \in VirtualNodes /\ p[1] # n
  BY <1>3 DEF TypeOK, VirtualNodes, ReplicaNumbers
<1>6. \A x \in old : x \notin hs
  BY <1>1, <1>5, HashesAreApart DEF HashesOn
<1>7. \A i, j \in 1..Replicas : H[i] = H[j] => i = j
  <2> TAKE i, j \in 1..Replicas
  <2> HAVE H[i] = H[j]
  <2>1. i - 1 \in ReplicaNumbers /\ j - 1 \in ReplicaNumbers
    BY <1>2 DEF ReplicaNumbers
  <2>2. hashFunc[<<n, i - 1>>] = hashFunc[<<n, j - 1>>]
    BY <1>2
  <2>3. <<n, i - 1>> = <<n, j - 1>>
    BY <1>1, <2>1, <2>2, HashesAreApart
  <2>4. i - 1 = j - 1
    BY <2>3
  <2> QED BY <1>2, <2>4
<1> HIDE DEF H
<1>8. /\ c \in Seq(Hashes) /\ DOMAIN c = 1..(Len(keys) + Replicas) /\ DOMAIN keys = 1..Len(keys)
      /\ DOMAIN H = 1..Replicas /\ Len(keys) \in Nat
      /\ \A i \in 1..Len(keys) : c[i] = keys[i]
      /\ \A i \in 1..Replicas : c[Len(keys) + i] = H[i]
      /\ \A i \in 1..(Len(keys) + Replicas) :
           i \in 1..Len(keys) \/ \E j \in 1..Replicas : i = Len(keys) + j
  <2>1. c \in Seq(Hashes) /\ Len(c) = Len(keys) + Replicas /\ Len(keys) \in Nat
    BY <1>1, <1>4
  <2>2. DOMAIN c = 1..(Len(keys) + Replicas) /\ DOMAIN keys = 1..Len(keys) /\ DOMAIN H = 1..Replicas
    BY <1>1, <1>2, <1>4, <2>1
  <2>3. \A i \in 1..Len(keys) : c[i] = keys[i]
    BY <1>1, <1>4
  <2>4. \A i \in 1..Replicas : c[Len(keys) + i] = H[i]
    BY <1>1, <1>2, <1>4, <2>1
  <2>5. ASSUME NEW i \in 1..(Len(keys) + Replicas), i \notin 1..Len(keys)
        PROVE  \E j \in 1..Replicas : i = Len(keys) + j
    <3>1. i - Len(keys) \in 1..Replicas /\ i = Len(keys) + (i - Len(keys))
      BY <1>2, <2>1, <2>5
    <3> QED BY <3>1
  <2> QED BY <2>1, <2>2, <2>3, <2>4, <2>5
<1> HIDE DEF c
<1>9. ToSet(c) = old \cup hs
  <2>1. ASSUME NEW x \in ToSet(c) PROVE x \in old \cup hs
    BY <1>4, <1>8, <2>1 DEF ToSet
  <2>2. ASSUME NEW x \in old PROVE x \in ToSet(c)
    <3>1. PICK i \in 1..Len(keys) : keys[i] = x
      BY <1>4, <1>8, <2>2 DEF ToSet
    <3>2. i \in DOMAIN c
      BY <1>2, <1>8
    <3> QED BY <1>8, <3>1, <3>2 DEF ToSet
  <2>3. ASSUME NEW x \in hs PROVE x \in ToSet(c)
    <3>1. PICK i \in 1..Replicas : H[i] = x
      BY <1>8, <2>3 DEF ToSet
    <3>2. Len(keys) + i \in DOMAIN c
      BY <1>2, <1>8
    <3> QED BY <1>8, <3>1, <3>2 DEF ToSet
  <2> QED BY <2>1, <2>2, <2>3
<1>10. \A i, j \in 1..Len(keys) : keys[i] = keys[j] => i = j
  <2> TAKE i, j \in 1..Len(keys)
  <2>1. i < j \/ j < i \/ i = j
    BY <1>8
  <2>2. \A l \in 1..Len(keys) : keys[l] \in Nat
    BY <1>4, ConsistentHashAssumption DEF Hashes
  <2> QED BY <1>4, <1>8, <2>1, <2>2
<1>11. \A i, j \in DOMAIN c : c[i] = c[j] => i = j
  <2>1. \A i \in 1..Len(keys) : c[i] \in old
    BY <1>4, <1>8 DEF ToSet
  <2>2. \A i \in 1..Replicas : c[Len(keys) + i] \in hs
    BY <1>8 DEF ToSet
  <2> SUFFICES ASSUME NEW i \in DOMAIN c, NEW j \in DOMAIN c, c[i] = c[j] PROVE i = j
    OBVIOUS
  <2>3. CASE i \in 1..Len(keys) /\ j \in 1..Len(keys)
    BY <1>8, <1>10, <2>3
  <2>4. CASE i \in 1..Len(keys) /\ j \notin 1..Len(keys)
    BY <1>6, <1>8, <2>1, <2>2, <2>4
  <2>5. CASE i \notin 1..Len(keys) /\ j \in 1..Len(keys)
    BY <1>6, <1>8, <2>1, <2>2, <2>5
  <2>6. CASE i \notin 1..Len(keys) /\ j \notin 1..Len(keys)
    BY <1>7, <1>8, <2>6
  <2> QED BY <2>3, <2>4, <2>5, <2>6
<1>12. ToSet(keys') = old \cup hs /\ \A i, j \in DOMAIN keys' : i < j => keys'[i] < keys'[j]
  <2>1. ToSet(SortedUp(c)) = ToSet(c) /\ Increasing(SortedUp(c))
    BY <1>8, <1>11, SortedUpProperties
  <2> QED BY <1>3, <1>9, <2>1 DEF Increasing
<1>13. {hashFunc'[p] : p \in nodes' \X ReplicaNumbers} = old \cup hs
  <2>1. \A p \in nodes' \X ReplicaNumbers :
          p \in nodes \X ReplicaNumbers \/ \E r \in ReplicaNumbers : p = <<n, r>>
    BY <1>3
  <2>2. nodes \X ReplicaNumbers \subseteq nodes' \X ReplicaNumbers
    BY <1>3
  <2>3. \A r \in ReplicaNumbers : <<n, r>> \in nodes' \X ReplicaNumbers
    BY <1>3
  <2>4. ASSUME NEW p \in nodes' \X ReplicaNumbers PROVE hashFunc'[p] \in old \cup hs
    BY <1>1, <1>3, <2>1 DEF HashesOn
  <2>5. ASSUME NEW x \in old PROVE \E p \in nodes' \X ReplicaNumbers : x = hashFunc'[p]
    BY <1>3, <2>2 DEF HashesOn
  <2>6. ASSUME NEW x \in hs PROVE \E p \in nodes' \X ReplicaNumbers : x = hashFunc'[p]
    BY <1>1, <1>3, <2>3
  <2> HIDE DEF old, hs
  <2> QED BY <2>4, <2>5, <2>6
<1>14. DOMAIN nodeMap' = old \cup hs
  BY <1>3, <1>4
<1>15. ASSUME NEW p \in nodes' \X ReplicaNumbers PROVE nodeMap'[hashFunc'[p]] = p[1]
  <2>1. CASE p \in nodes \X ReplicaNumbers
    <3>1. hashFunc[p] \in old
      BY <2>1 DEF HashesOn
    <3> QED BY <1>3, <1>4, <1>6, <2>1, <3>1
  <2>2. CASE p \notin nodes \X ReplicaNumbers
    <3>1. PICK r \in ReplicaNumbers : p = <<n, r>>
      BY <1>3, <2>2
    <3>2. hashFunc[p] \in hs
      BY <1>1, <3>1
    <3> QED BY <1>3, <3>1, <3>2
  <2> QED BY <2>1, <2>2
<1> QED BY <1>12, <1>13, <1>14, <1>15 DEF RingIsDetermined, ReplicaNumbers

LEMMA RemoveKeepsRing ==
  ASSUME TypeOK, TypeOK', IsInjective(hashFunc), RingIsDetermined, NEW n \in Nodes, RemoveNode(n)
  PROVE  RingIsDetermined'
<1> DEFINE ps == Kept(n)
           r == Only(keys, ps)
<1>1. /\ nodes' = nodes \ {n} /\ hashFunc' = hashFunc /\ keys' = r
      /\ nodeMap' = [h \in {x \in DOMAIN nodeMap : nodeMap[x] # n} |-> nodeMap[h]]
  BY DEF RemoveNode
<1>2. /\ keys \in Seq(Hashes) /\ ToSet(keys) = HashesOn(nodes) /\ DOMAIN nodeMap = HashesOn(nodes)
      /\ \A i, j \in DOMAIN keys : i < j => keys[i] < keys[j]
      /\ \A p \in nodes \X ReplicaNumbers : nodeMap[hashFunc[p]] = p[1]
  BY DEF RingIsDetermined, TypeOK, HashesOn, ReplicaNumbers
<1>3. DOMAIN keys = 1..Len(keys) /\ Len(keys) \in Nat /\ \A i \in 1..Len(keys) : keys[i] \in Nat
  BY <1>2, ConsistentHashAssumption DEF Hashes
<1>4. ps = {i \in 1..Len(keys) : nodeMap[keys[i]] # n}
  <2>1. \A i \in 1..Len(keys) : \A j \in 1..(i - 1) : keys[j] # keys[i]
    <3> TAKE i \in 1..Len(keys)
    <3> TAKE j \in 1..(i - 1)
    <3>1. j \in 1..Len(keys) /\ j < i
      BY <1>3
    <3>2. keys[j] < keys[i] /\ keys[i] \in Nat
      BY <1>2, <1>3, <3>1
    <3> QED BY <1>3, <3>1, <3>2
  <2>2. \A i \in 1..Len(keys) : NodeAt(nodeMap, keys[i]) = nodeMap[keys[i]]
    <3> TAKE i \in 1..Len(keys)
    <3>1. keys[i] \in DOMAIN nodeMap
      BY <1>2, <1>3 DEF ToSet
    <3> QED BY <3>1 DEF NodeAt
  <2> QED BY <1>3, <2>1, <2>2 DEF Kept
<1> HIDE DEF ps, r
<1>5. ps \in SUBSET (1..Len(keys))
  BY <1>4
<1>6. r \in Seq(Hashes) /\ DOMAIN r = 1..Cardinality(ps)
  <2>1. r \in Seq(Hashes) /\ Len(r) = Cardinality(ps)
    BY <1>2, <1>5, OnlyProperties DEF r
  <2> QED BY <2>1
<1>7. PICK at \in [1..Cardinality(ps) -> ps] :
        /\ \A j \in 1..Cardinality(ps) : r[j] = keys[at[j]]
        /\ \A i \in ps : \E j \in 1..Cardinality(ps) : at[j] = i
        /\ \A j, l \in 1..Cardinality(ps) : j < l => at[j] < at[l]
  <2>1. keys \in Seq(Hashes)
    BY <1>2
  <2>2. \E at \in [1..Cardinality(ps) -> ps] :
          /\ \A j \in 1..Cardinality(ps) : Only(keys, ps)[j] = keys[at[j]]
          /\ \A i \in ps : \E j \in 1..Cardinality(ps) : at[j] = i
          /\ \A j, l \in 1..Cardinality(ps) : j < l => at[j] < at[l]
    BY ONLY <2>1, <1>5, OnlyProperties
  <2> QED BY <2>2 DEF r
<1>8. \A i, j \in DOMAIN r : i < j => r[i] < r[j]
  <2> SUFFICES ASSUME NEW i \in DOMAIN r, NEW j \in DOMAIN r, i < j PROVE r[i] < r[j]
    OBVIOUS
  <2>1. i \in 1..Cardinality(ps) /\ j \in 1..Cardinality(ps)
    BY <1>6
  <2>2. at[i] \in 1..Len(keys) /\ at[j] \in 1..Len(keys) /\ at[i] < at[j]
    BY <1>5, <1>7, <2>1
  <2> QED BY <1>2, <1>3, <1>7, <2>1, <2>2
<1>9. ToSet(r) = {keys[i] : i \in ps}
  <2>1. ASSUME NEW x \in ToSet(r) PROVE x \in {keys[i] : i \in ps}
    BY <1>6, <1>7, <2>1 DEF ToSet
  <2>2. ASSUME NEW i \in ps PROVE keys[i] \in ToSet(r)
    <3>1. PICK j \in 1..Cardinality(ps) : at[j] = i
      BY <1>7
    <3> QED BY <1>6, <1>7, <3>1 DEF ToSet
  <2> QED BY <2>1, <2>2
<1>10. {keys[i] : i \in ps} = {x \in HashesOn(nodes) : nodeMap[x] # n}
  <2>1. \A x \in HashesOn(nodes) : \E i \in 1..Len(keys) : keys[i] = x
    BY <1>2, <1>3 DEF ToSet
  <2>2. \A i \in 1..Len(keys) : keys[i] \in HashesOn(nodes)
    BY <1>2, <1>3 DEF ToSet
  <2> QED BY <1>4, <2>1, <2>2
<1>11. {x \in HashesOn(nodes) : nodeMap[x] # n} = {hashFunc'[p] : p \in nodes' \X ReplicaNumbers}
  <2>1. ASSUME NEW x \in HashesOn(nodes), nodeMap[x] # n
        PROVE  x \in {hashFunc'[p] : p \in nodes' \X ReplicaNumbers}
    <3>1. PICK p \in nodes \X ReplicaNumbers : x = hashFunc[p]
      BY DEF HashesOn
    <3>2. p[1] # n
      BY <1>2, <2>1, <3>1
    <3>3. p \in nodes' \X ReplicaNumbers
      BY <1>1, <3>1, <3>2
    <3> QED BY <1>1, <3>1, <3>3
  <2>2. ASSUME NEW p \in nodes' \X ReplicaNumbers
        PROVE  hashFunc'[p] \in {x \in HashesOn(nodes) : nodeMap[x] # n}
    <3>1. p \in nodes \X ReplicaNumbers /\ p[1] # n
      BY <1>1, <2>2
    <3> QED BY <1>1, <1>2, <3>1 DEF HashesOn
  <2> QED BY <2>1, <2>2
<1>12. ASSUME NEW p \in nodes' \X ReplicaNumbers PROVE nodeMap'[hashFunc'[p]] = p[1]
  <2>1. p \in nodes \X ReplicaNumbers /\ p[1] # n
    BY <1>1, <1>12
  <2>2. hashFunc[p] \in DOMAIN nodeMap /\ nodeMap[hashFunc[p]] = p[1]
    BY <1>2, <2>1 DEF HashesOn
  <2> QED BY <1>1, <2>1, <2>2
<1>13. DOMAIN nodeMap' = {x \in HashesOn(nodes) : nodeMap[x] # n}
  BY <1>1, <1>2
<1>14. ToSet(keys') = {hashFunc'[p] : p \in nodes' \X ReplicaNumbers}
  BY <1>1, <1>9, <1>10, <1>11
<1>15. DOMAIN nodeMap' = {hashFunc'[p] : p \in nodes' \X ReplicaNumbers}
  BY <1>11, <1>13
<1>16. \A i, j \in DOMAIN keys' : i < j => keys'[i] < keys'[j]
  BY <1>1, <1>8
<1> QED BY <1>12, <1>14, <1>15, <1>16 DEF RingIsDetermined, ReplicaNumbers

\* The inductive invariant.
IInv ==
  /\ TypeOK
  /\ CollisionFree => IsInjective(hashFunc) /\ RingIsDetermined

LEMMA InitIInv == Init => IInv
<1> SUFFICES ASSUME Init PROVE IInv
  OBVIOUS
<1>1. TypeOK
  BY DEF Init, TypeOK
<1>2. RingIsDetermined
  BY DEF Init, RingIsDetermined, ToSet
<1> QED BY <1>1, <1>2 DEF Init, IInv

LEMMA NextIInv == IInv /\ [Next]_vars => IInv'
<1> SUFFICES ASSUME IInv, [Next]_vars PROVE IInv'
  OBVIOUS
<1>1. TypeOK /\ TypeOK'
  BY TypeInv DEF IInv
<1>2. ASSUME CollisionFree PROVE IsInjective(hashFunc)' /\ RingIsDetermined'
  <2>1. IsInjective(hashFunc) /\ RingIsDetermined
    BY <1>2 DEF IInv
  <2>2. ASSUME NEW n \in Nodes, AddNode(n) PROVE RingIsDetermined' /\ hashFunc' = hashFunc
    BY <1>1, <2>1, <2>2, AddKeepsRing DEF AddNode
  <2>3. ASSUME NEW n \in Nodes, RemoveNode(n) PROVE RingIsDetermined' /\ hashFunc' = hashFunc
    BY <1>1, <2>1, <2>3, RemoveKeepsRing DEF RemoveNode
  <2>4. ASSUME UNCHANGED vars PROVE RingIsDetermined' /\ hashFunc' = hashFunc
    BY <2>1, <2>4 DEF RingIsDetermined, vars
  <2>5. RingIsDetermined' /\ hashFunc' = hashFunc
    BY <2>2, <2>3, <2>4 DEF Next
  <2> QED BY <2>1, <2>5
<1> QED BY <1>1, <1>2 DEF IInv

\* AddNode and RemoveNode keep the ring what its nodes make it, as long as no two
\* virtual nodes collide (consistenthash.go:44-86).
THEOREM Invariance == Spec => []IInv
<1> QED BY InitIInv, NextIInv, PTL DEF Spec

\* What the ring and the map hold follows from the nodes that are in, whatever the
\* history, when the hash function keeps the virtual nodes apart.
THEOREM RingDependsOnNodes == CollisionFree => (Spec => []RingIsDetermined)
<1> SUFFICES ASSUME CollisionFree PROVE Spec => []RingIsDetermined
  OBVIOUS
<1>1. IInv => RingIsDetermined
  BY DEF IInv
<1> QED BY <1>1, Invariance, PTL

\* RingIsDetermined leaves nothing open: any two states with the same nodes and hash
\* function have the same ring and the same map (consistenthash.go:54-63, 76-85).
THEOREM SameNodesSameRing ==
  ASSUME TypeOK, RingIsDetermined, TypeOK', RingIsDetermined', UNCHANGED <<hashFunc, nodes>>
  PROVE  UNCHANGED <<keys, nodeMap>>
<1>1. keys \in Seq(Nat) /\ keys' \in Seq(Nat)
  BY ConsistentHashAssumption DEF TypeOK, Hashes
<1>2. ToSet(keys) = ToSet(keys') /\ Increasing(keys) /\ Increasing(keys')
  BY DEF RingIsDetermined, Increasing
<1>3. keys' = keys
  BY <1>1, <1>2, IncreasingIsUnique
<1>4. DOMAIN nodeMap' = DOMAIN nodeMap /\ \A h \in DOMAIN nodeMap : nodeMap'[h] = nodeMap[h]
  BY DEF RingIsDetermined
<1>5. nodeMap' = nodeMap
  BY <1>4 DEF TypeOK
<1> QED BY <1>3, <1>5

--------------------------------------------------------------------------------
(* Looking keys up.                                                        *)

\* x is the hash in S that a key of hash h belongs to: the next one round the circle.
Owns(S, h, x) ==
  /\ x \in S
  /\ \/ x >= h /\ \A y \in S : y >= h => x <= y
     \/ (\A y \in S : y < h) /\ \A y \in S : x <= y

LEMMA OwnerIsUnique ==
  ASSUME NEW S \in SUBSET Nat, NEW h \in Nat, NEW x, Owns(S, h, x), NEW y, Owns(S, h, y)
  PROVE  x = y
<1>1. x \in S /\ y \in S /\ x \in Nat /\ y \in Nat
  BY DEF Owns
<1>2. x <= y
  BY <1>1 DEF Owns
<1>3. y <= x
  BY <1>1 DEF Owns
<1> QED BY <1>1, <1>2, <1>3

LEMMA OwnerStays ==
  ASSUME NEW S \in SUBSET Nat, NEW T \in SUBSET S, NEW h \in Nat, NEW x \in T, Owns(S, h, x)
  PROVE  Owns(T, h, x)
BY DEF Owns

LEMMA GetNodeProperties ==
  ASSUME NEW ring \in Seq(Hashes), Increasing(ring), ToSet(ring) # {}, NEW map, NEW h \in Hashes
  PROVE  \E x \in ToSet(ring) : Owns(ToSet(ring), h, x) /\ GetNodeOf(ring, map, h) = NodeAt(map, x)
<1> DEFINE n == Len(ring)
           above == {i \in DOMAIN ring : ring[i] >= h}
           idx == SearchIn(ring, h)
<1>1. n \in Nat /\ DOMAIN ring = 1..n /\ h \in Nat /\ \A i \in 1..n : ring[i] \in Nat
  BY ConsistentHashAssumption DEF Hashes
<1>2. ring # <<>> /\ 1 \in 1..n
  BY <1>1 DEF ToSet
<1>3. \A i, j \in 1..n : i <= j => ring[i] <= ring[j]
  BY <1>1 DEF Increasing
<1>4. GetNodeOf(ring, map, h) = NodeAt(map, ring[IF idx = n + 1 THEN 1 ELSE idx])
  BY <1>2 DEF GetNodeOf
<1>5. idx = IF above = {} THEN n + 1 ELSE CHOOSE i \in above : \A j \in above : i <= j
  BY DEF SearchIn
<1> HIDE DEF idx
<1>6. CASE above = {}
  <2>1. \A y \in ToSet(ring) : y < h /\ ring[1] <= y
    <3> TAKE y \in ToSet(ring)
    <3>1. PICK i \in 1..n : ring[i] = y
      BY <1>1 DEF ToSet
    <3>2. ~(ring[i] >= h)
      BY <1>1, <1>6
    <3>3. ring[1] <= ring[i]
      BY <1>1, <1>2, <1>3
    <3> QED BY <1>1, <3>1, <3>2, <3>3
  <2>2. ring[1] \in ToSet(ring)
    BY <1>1, <1>2 DEF ToSet
  <2>3. Owns(ToSet(ring), h, ring[1])
    BY <2>1, <2>2 DEF Owns
  <2> QED BY <1>4, <1>5, <1>6, <2>2, <2>3
<1>7. CASE above # {}
  <2>1. above \in SUBSET Nat
    BY <1>1
  <2>2. idx \in above /\ \A j \in above : idx <= j
    <3> HIDE DEF above
    <3> QED BY <1>5, <1>7, <2>1, LeastNatural
  <2>3. idx \in 1..n /\ ring[idx] >= h
    BY <1>1, <2>2
  <2>4. \A y \in ToSet(ring) : y >= h => ring[idx] <= y
    <3> TAKE y \in ToSet(ring)
    <3> HAVE y >= h
    <3>1. PICK i \in 1..n : ring[i] = y
      BY <1>1 DEF ToSet
    <3>2. idx <= i
      BY <1>1, <2>2, <3>1
    <3> QED BY <1>3, <2>3, <3>1, <3>2
  <2>5. ring[idx] \in ToSet(ring)
    BY <1>1, <2>3 DEF ToSet
  <2>6. idx # n + 1
    BY <1>1, <2>3
  <2>7. Owns(ToSet(ring), h, ring[idx])
    BY <2>3, <2>4, <2>5 DEF Owns
  <2> QED BY <1>4, <2>5, <2>6, <2>7
<1> QED BY <1>6, <1>7

LEMMA EmptyRing ==
  ASSUME NEW ring \in Seq(Hashes), ToSet(ring) = {}, NEW map, NEW h
  PROVE  GetNodeOf(ring, map, h) = NoNode
<1>1. Len(ring) = 0
  <2>1. Len(ring) \in Nat /\ DOMAIN ring = 1..Len(ring)
    OBVIOUS
  <2>2. 1 \notin DOMAIN ring
    BY DEF ToSet
  <2> QED BY <2>1, <2>2
<1> QED BY <1>1 DEF GetNodeOf

\* What RingIsDetermined and the types say of a ring, as a fact about values, for the
\* ring before a step and the one after it.
Determined(func, ns, ring, map) ==
  /\ ring \in Seq(Hashes) /\ Increasing(ring)
  /\ ToSet(ring) = {func[p] : p \in ns \X ReplicaNumbers}
  /\ \A p \in ns \X ReplicaNumbers : NodeAt(map, func[p]) = p[1]

LEMMA RingProperties ==
  ASSUME TypeOK, RingIsDetermined
  PROVE  Determined(hashFunc, nodes, keys, nodeMap)
<1>1. \A p \in nodes \X ReplicaNumbers : NodeAt(nodeMap, hashFunc[p]) = p[1]
  <2>1. \A p \in nodes \X ReplicaNumbers :
          nodeMap[hashFunc[p]] = p[1] /\ hashFunc[p] \in DOMAIN nodeMap
    BY DEF RingIsDetermined, ReplicaNumbers
  <2> QED BY <2>1 DEF NodeAt
<1> QED BY <1>1 DEF Determined, TypeOK, RingIsDetermined, Increasing, ReplicaNumbers

LEMMA RingPropertiesAfter ==
  ASSUME TypeOK', RingIsDetermined'
  PROVE  Determined(hashFunc', nodes', keys', nodeMap')
<1>1. \A p \in nodes' \X ReplicaNumbers : NodeAt(nodeMap', hashFunc'[p]) = p[1]
  <2>1. \A p \in nodes' \X ReplicaNumbers :
          nodeMap'[hashFunc'[p]] = p[1] /\ hashFunc'[p] \in DOMAIN nodeMap'
    BY DEF RingIsDetermined, ReplicaNumbers
  <2> QED BY <2>1 DEF NodeAt
<1> QED BY <1>1 DEF Determined, TypeOK, RingIsDetermined, Increasing, ReplicaNumbers

\* A lookup names the node of the hash that owns the key.
LEMMA LookupProperties ==
  ASSUME NEW func, NEW ns, NEW ring, NEW map, Determined(func, ns, ring, map), NEW h \in Hashes,
         ToSet(ring) # {}
  PROVE  \E p \in ns \X ReplicaNumbers :
            Owns(ToSet(ring), h, func[p]) /\ GetNodeOf(ring, map, h) = p[1]
<1>1. /\ ring \in Seq(Hashes) /\ Increasing(ring)
      /\ ToSet(ring) = {func[p] : p \in ns \X ReplicaNumbers}
      /\ \A p \in ns \X ReplicaNumbers : NodeAt(map, func[p]) = p[1]
  BY DEF Determined
<1>2. PICK x \in ToSet(ring) : Owns(ToSet(ring), h, x) /\ GetNodeOf(ring, map, h) = NodeAt(map, x)
  BY <1>1, GetNodeProperties
<1>3. PICK p \in ns \X ReplicaNumbers : x = func[p]
  BY <1>1, <1>2
<1> QED BY <1>1, <1>2, <1>3

\* Every key is given to a node of the ring.
THEOREM EveryKeyHasNode == CollisionFree => (Spec => []LookupFindsNode)
<1> SUFFICES ASSUME CollisionFree PROVE Spec => []LookupFindsNode
  OBVIOUS
<1>1. ASSUME IInv PROVE LookupFindsNode
  <2> SUFFICES ASSUME nodes # {}, Replicas > 0, NEW h \in Hashes PROVE GetNode(h) \in nodes
    BY DEF LookupFindsNode
  <2>1. Determined(hashFunc, nodes, keys, nodeMap)
    BY <1>1, RingProperties DEF IInv
  <2>2. 0 \in ReplicaNumbers
    BY ConsistentHashAssumption DEF ReplicaNumbers
  <2>3. ToSet(keys) # {}
    <3>1. PICK n \in nodes : TRUE
      OBVIOUS
    <3>2. <<n, 0>> \in nodes \X ReplicaNumbers
      BY <2>2, <3>1
    <3> QED BY <2>1, <3>2 DEF Determined
  <2>4. PICK p \in nodes \X ReplicaNumbers : GetNodeOf(keys, nodeMap, h) = p[1]
    BY <2>1, <2>3, LookupProperties
  <2> QED BY <2>4 DEF GetNode
<1>2. IInv => LookupFindsNode
  BY <1>1
<1> QED BY <1>2, Invariance, PTL

\* With a node more, a key belongs to that node or to the one it belonged to.
LEMMA OnlyToTheNewNode ==
  ASSUME NEW func, NEW ns, NEW n, NEW ring, NEW map, NEW ring2, NEW map2, NEW h \in Hashes,
         Determined(func, ns, ring, map), Determined(func, ns \cup {n}, ring2, map2)
  PROVE  GetNodeOf(ring2, map2, h) \in {GetNodeOf(ring, map, h), n}
<1> DEFINE S == ToSet(ring)
           S2 == ToSet(ring2)
<1>1. ring \in Seq(Hashes) /\ S = {func[p] : p \in ns \X ReplicaNumbers}
  BY DEF Determined
<1>2. ring2 \in Seq(Hashes) /\ S2 = {func[p] : p \in (ns \cup {n}) \X ReplicaNumbers}
  BY DEF Determined
<1>3. S2 \in SUBSET Nat /\ S \in SUBSET S2 /\ h \in Nat
  <2>1. S2 \subseteq Hashes
    BY <1>2 DEF ToSet
  <2> QED BY <1>1, <1>2, <2>1 DEF Hashes
<1> HIDE DEF S, S2
<1>4. CASE S2 = {}
  <2>1. S = {}
    BY <1>3, <1>4
  <2> QED BY <1>1, <1>2, <1>4, <2>1, EmptyRing DEF S, S2
<1>5. CASE S2 # {}
  <2>1. PICK p \in (ns \cup {n}) \X ReplicaNumbers : Owns(S2, h, func[p]) /\ GetNodeOf(ring2, map2, h) = p[1]
    BY <1>5, LookupProperties DEF S2
  <2>2. CASE p[1] = n
    BY <2>1, <2>2
  <2>3. CASE p[1] # n
    <3>1. p \in ns \X ReplicaNumbers /\ func[p] \in S
      <4>1. p \in ns \X ReplicaNumbers
        BY <2>1, <2>3
      <4> QED BY <1>1, <4>1 DEF S
    <3>2. Owns(S, h, func[p])
      BY <1>3, <2>1, <3>1, OwnerStays
    <3>3. PICK q \in ns \X ReplicaNumbers : Owns(S, h, func[q]) /\ GetNodeOf(ring, map, h) = q[1]
      BY <3>1, LookupProperties DEF S
    <3>4. func[q] = func[p]
      BY <1>3, <3>2, <3>3, OwnerIsUnique
    <3>5. q[1] = p[1]
      BY <3>1, <3>3, <3>4 DEF Determined
    <3> QED BY <2>1, <3>3, <3>5
  <2> QED BY <2>2, <2>3
<1> QED BY <1>4, <1>5

\* A new node takes keys from the others and moves none between them, and a node that
\* leaves hands on its own keys only.
THEOREM FewKeysMove == CollisionFree => (Spec => MinimalRemapping)
<1> DEFINE Moves(n, h) ==
             LET before == GetNode(h)
                 after == GetNodeOf(keys', nodeMap', h)
             IN /\ nodes' = nodes \cup {n} => after \in {before, n}
                /\ nodes = nodes' \cup {n} /\ before # n => after = before
<1> SUFFICES ASSUME CollisionFree PROVE Spec => MinimalRemapping
  OBVIOUS
<1>1. ASSUME IInv, IInv', [Next]_vars
      PROVE  [\A n \in Nodes, h \in Hashes : Moves(n, h)]_vars
  <2> SUFFICES ASSUME Next, NEW n \in Nodes, NEW h \in Hashes PROVE Moves(n, h)
    BY <1>1
  <2>1. Determined(hashFunc, nodes, keys, nodeMap) /\ Determined(hashFunc', nodes', keys', nodeMap')
    BY <1>1, RingProperties, RingPropertiesAfter DEF IInv
  <2>2. hashFunc' = hashFunc
    BY DEF Next, AddNode, RemoveNode
  <2>3. ASSUME nodes' = nodes \cup {n} PROVE GetNodeOf(keys', nodeMap', h) \in {GetNode(h), n}
    BY <2>1, <2>2, <2>3, OnlyToTheNewNode DEF GetNode
  <2>4. ASSUME nodes = nodes' \cup {n}, GetNode(h) # n PROVE GetNodeOf(keys', nodeMap', h) = GetNode(h)
    <3>1. GetNode(h) \in {GetNodeOf(keys', nodeMap', h), n}
      BY <2>1, <2>2, <2>4, OnlyToTheNewNode DEF GetNode
    <3> QED BY <2>4, <3>1
  <2> QED BY <2>3, <2>4
<1>2. IInv /\ IInv' /\ [Next]_vars => [\A n \in Nodes, h \in Hashes : Moves(n, h)]_vars
  BY <1>1
<1> HIDE DEF Moves
<1>3. Spec => [][\A n \in Nodes, h \in Hashes : Moves(n, h)]_vars
  BY <1>2, Invariance, PTL DEF Spec
<1> QED BY <1>3 DEF MinimalRemapping, Moves
================================================================================
