-------------------------- MODULE PartitionEngineProofs ------------------------
(* Theorems about PartitionEngine for every value of its constants.        *)
EXTENDS PartitionEngine, CacheLemmas

\* The caches that keep a limit, and the limit: LRU and random take a share of 0 for none,
\* LFU takes one rule whatever it is, and ARC keeps none.
Limited == cfg.Type \in {"twoq", "lfu"} \/ (cfg.Type \in {"lru", "random"} /\ SizeE > 0)
Share == IF cfg.Type = "lfu" THEN MaxInt(SizeE, 1) ELSE SizeE
Fits(rs) == Limited => IsFiniteSet(rs) /\ Cardinality(rs) <= Share

\* The default hash answers with the number of an engine.
HashInRange == cfg.hashFunc = "nil" => \A r \in Rules : hash[r] \in 1..PartitionOf(cfg)
HashOK == HashInRange /\ DefaultHashFindsEngine

\* An engine knows rules of its own only: those the hash sends to it.
EngineOK(E, e) ==
  /\ E = [libraries |-> E.libraries, cached |-> E.cached, pending |-> E.pending, cleared |-> E.cleared]
  /\ E.cleared \in BOOLEAN
  /\ E.libraries \in [DOMAIN E.libraries -> WellFormed]
  /\ DOMAIN E.libraries \subseteq {r \in Rules : hash[r] = e}
  /\ E.cached \subseteq {r \in Rules : hash[r] = e}
  /\ E.pending \subseteq {r \in Rules : hash[r] = e}
  /\ Fits(E.cached)

EnginesOK ==
  /\ engines = [e \in DOMAIN engines |-> engines[e]]
  /\ \A e \in DOMAIN engines : EngineOK(engines[e], e)

Calls ==
  [op : {"idle"}] \cup [op : {"executing"}, rule : Rules, library : WellFormed]
    \cup [op : {"closing"}, left : SUBSET DOMAIN engines]

\* The inductive invariant: what the runs check, and that no rule is known to an engine
\* it does not belong to; only then does the lock of one engine protect its libraries.
\* That each cache keeps its own limit is what SizeKept comes from.
IInv ==
  /\ TypeOK
  /\ EnginesOK
  /\ call \in [Threads -> Calls]
  /\ HashOK
  /\ ClosedEnginesAreEmpty

--------------------------------------------------------------------------------
(* A write to one engine.                                                  *)

\* Engine e becomes E, all others stay.
Becomes(e, E) ==
  /\ engines' = [engines EXCEPT ![e] = E]
  /\ UNCHANGED <<cfg, hash>>

LEMMA BecomesStep ==
  ASSUME EnginesOK, NEW e \in DOMAIN engines, NEW E, EngineOK(E, e), Becomes(e, E)
  PROVE  /\ EnginesOK'
         /\ DOMAIN engines' = DOMAIN engines
         /\ engines'[e] = E
         /\ \A f \in DOMAIN engines \ {e} : engines'[f] = engines[f]
<1>1. /\ DOMAIN engines' = DOMAIN engines
      /\ engines'[e] = E
      /\ \A f \in DOMAIN engines \ {e} : engines'[f] = engines[f]
      /\ engines' = [f \in DOMAIN engines' |-> engines'[f]]
  BY DEF Becomes
<1>2. ASSUME NEW f \in DOMAIN engines' PROVE EngineOK(engines[f], f)'
  <2>1. EngineOK(engines'[f], f)
    BY <1>1 DEF EnginesOK
  <2>2. UNCHANGED <<cfg, hash>> /\ SizeE' = SizeE
    BY DEF Becomes, SizeE, PartitionOf, MaxInt
  <2>3. Share' = Share /\ Limited' = Limited
    BY <2>2 DEF Share, Limited, MaxInt
  <2> QED BY <2>1, <2>2, <2>3 DEF EngineOK, Fits
<1> QED BY <1>1, <1>2 DEF EnginesOK

LEMMA SameEngines ==
  ASSUME EnginesOK, UNCHANGED <<cfg, hash, engines>>
  PROVE  EnginesOK'
<1>1. SizeE' = SizeE /\ Share' = Share /\ Limited' = Limited
  BY DEF SizeE, Share, Limited, PartitionOf, MaxInt
<1> QED BY <1>1 DEF EnginesOK, EngineOK, Fits

\* The parts of the invariant that speak of an engine's state follow from its shape.
LEMMA TypeFromParts ==
  /\ cfg \in Arguments
  /\ hash \in [Rules -> 0..PartitionOf(cfg)]
  /\ DOMAIN engines = 1..PartitionOf(cfg)
  /\ EnginesOK
  /\ fresh \in [Threads -> SUBSET Rules]
  /\ crashed \in BOOLEAN
  => TypeOK
BY DEF EnginesOK, EngineOK, TypeOK

\* An engine with another library.
LEMMA InstalledOK ==
  ASSUME NEW e, NEW E, EngineOK(E, e), NEW r \in Rules, hash[r] = e, NEW st \in WellFormed
  PROVE  /\ EngineOK(Installed(E, r, st), e)
         /\ Installed(E, r, st).libraries = Put(E.libraries, r, st)
<1> DEFINE I == Installed(E, r, st)
<1>1. /\ I = [libraries |-> Put(E.libraries, r, st), cached |-> E.cached, pending |-> E.pending,
            cleared |-> E.cleared]
  BY DEF Installed, EngineOK
<1>2. /\ I.libraries = Put(E.libraries, r, st)
      /\ I.cached = E.cached /\ I.pending = E.pending /\ I.cleared = E.cleared
      /\ I = [libraries |-> I.libraries, cached |-> I.cached, pending |-> I.pending,
              cleared |-> I.cleared]
  BY <1>1
<1>3. /\ Put(E.libraries, r, st) \in [DOMAIN Put(E.libraries, r, st) -> WellFormed]
      /\ DOMAIN Put(E.libraries, r, st) = DOMAIN E.libraries \cup {r}
  BY DEF Put, EngineOK
<1> HIDE DEF I
<1>4. EngineOK(I, e)
  BY <1>2, <1>3 DEF EngineOK
<1> QED BY <1>2, <1>4 DEF I

LEMMA SizeProperties ==
  ASSUME cfg \in Arguments
  PROVE  /\ SizeE \in Nat /\ Share \in Nat /\ cfg.Size \in Nat
         /\ PartitionOf(cfg) \in Nat /\ PartitionOf(cfg) > 0
         /\ PartitionOf(cfg) * SizeE <= cfg.Size
<1>1. /\ cfg.Size \in Nat /\ cfg.Partition \in Nat /\ NumCPU \in Nat /\ NumCPU > 0
  <2>1. cfg \in [Type : Types, Size : Nat, Partition : Nat, hashFunc : {"nil", "given"}]
    BY PartitionAssumption
  <2>2. NumCPU \in Nat /\ NumCPU # 0
    BY PartitionAssumption
  <2>3. NumCPU > 0
    BY ONLY <2>2
  <2>4. cfg.Size \in Nat /\ cfg.Partition \in Nat
    BY ONLY <2>1
  <2> QED BY <2>2, <2>3, <2>4
<1>2. PartitionOf(cfg) \in Nat /\ PartitionOf(cfg) > 0
  BY <1>1 DEF PartitionOf, MaxInt
<1>3. \A s, n \in Nat : n > 0 => s \div n \in Nat /\ n * (s \div n) <= s
  OBVIOUS
<1>4. SizeE \in Nat /\ PartitionOf(cfg) * SizeE <= cfg.Size
  BY <1>1, <1>2, <1>3 DEF SizeE
<1> QED BY <1>1, <1>2, <1>4 DEF Share, MaxInt

\* HashStringToRange answers between its bounds, whatever the digest.
LEMMA HashStringToRangeInBounds ==
  ASSUME NEW d \in Nat, NEW n \in Nat, n > 0
  PROVE  HashStringToRange(d, 1, n) \in 1..n
<1>1. n - 1 + 1 = n
  OBVIOUS
<1>2. d % n \in 0..n - 1
  OBVIOUS
<1>3. \A k \in 0..n - 1 : k + 1 \in 1..n
  OBVIOUS
<1> QED BY <1>1, <1>2, <1>3 DEF HashStringToRange

\* What stays within a cache.
LEMMA FitsSubset ==
  ASSUME NEW rs, Fits(rs), NEW fewer \in SUBSET rs, Share \in Nat
  PROVE  Fits(fewer)
<1> SUFFICES ASSUME Limited PROVE IsFiniteSet(fewer) /\ Cardinality(fewer) <= Share
  BY DEF Fits
<1>1. IsFiniteSet(rs) /\ Cardinality(rs) <= Share
  BY DEF Fits
<1>2. IsFiniteSet(fewer) /\ Cardinality(fewer) <= Cardinality(rs)
  BY <1>1, FS_Subset
<1>3. Cardinality(rs) \in Nat /\ Cardinality(fewer) \in Nat
  BY <1>1, <1>2, FS_CardinalityType
<1> QED BY ONLY <1>1, <1>2, <1>3, Share \in Nat

\* With a rule more, when there was room.
LEMMA FitsAdded ==
  ASSUME NEW rs, Fits(rs), NEW r, r \notin rs, Share \in Nat,
         Limited => Cardinality(rs) + 1 <= Share
  PROVE  Fits(rs \cup {r})
<1> DEFINE more == rs \cup {r}
<1> SUFFICES ASSUME Limited PROVE IsFiniteSet(more) /\ Cardinality(more) <= Share
  BY DEF Fits
<1>1. IsFiniteSet(rs)
  BY DEF Fits
<1>2. IsFiniteSet(more) /\ Cardinality(more) = Cardinality(rs) + 1
  BY <1>1, FS_AddElement
<1> HIDE DEF more
<1> QED BY <1>2

\* With a rule more and one less.
LEMMA FitsSwapped ==
  ASSUME NEW rs, Fits(rs), NEW r, NEW victim \in rs \cup {r}, Share \in Nat
  PROVE  Fits((rs \cup {r}) \ {victim})
<1> DEFINE more == rs \cup {r}
           left == more \ {victim}
<1> SUFFICES ASSUME Limited PROVE IsFiniteSet(left) /\ Cardinality(left) <= Share
  BY DEF Fits
<1>1. IsFiniteSet(rs) /\ Cardinality(rs) <= Share
  BY DEF Fits
<1>2. IsFiniteSet(more) /\ Cardinality(more) = IF r \in rs THEN Cardinality(rs) ELSE Cardinality(rs) + 1
  BY <1>1, FS_AddElement
<1>3. Cardinality(rs) \in Nat
  BY <1>1, FS_CardinalityType
<1>4. victim \in more
  OBVIOUS
<1> HIDE DEF more
<1>5. IsFiniteSet(left) /\ Cardinality(left) = Cardinality(more) - 1
  BY <1>2, <1>4, FS_RemoveElement
<1> HIDE DEF left
<1> QED BY <1>1, <1>2, <1>3, <1>5

LEMMA NothingFits == cfg \in Arguments => Fits({})
<1> SUFFICES ASSUME cfg \in Arguments PROVE Cardinality({}) <= Share
  BY FS_EmptySet DEF Fits
<1>1. Cardinality({}) = 0
  BY FS_EmptySet
<1> QED BY <1>1, SizeProperties

\* A new rule and the rules its policy drops: every cache that keeps a limit keeps it.
LEMMA EnteredFits ==
  ASSUME cfg \in Arguments, NEW E, Fits(E.cached), NEW r, r \notin E.cached,
         NEW told \in Victims(E, r), NEW kept \in Kept(E, r, told)
  PROVE  Fits(kept)
<1> DEFINE c == E.cached
<1> SUFFICES ASSUME Limited PROVE Fits(kept)
  BY DEF Fits
<1>1. SizeE \in Nat /\ Share \in Nat
  BY SizeProperties
<1>2. IsFiniteSet(c) /\ Cardinality(c) <= Share /\ Cardinality(c) \in Nat
  <2>1. IsFiniteSet(c) /\ Cardinality(c) <= Share
    BY DEF Fits
  <2> QED BY <2>1, FS_CardinalityType
<1>3. cfg.Type # "arc" /\ kept = (c \cup {r}) \ told
  BY DEF Limited, Kept
<1>4. ASSUME told = {}, Cardinality(c) + 1 <= Share PROVE Fits(kept)
  <2>1. kept = c \cup {r}
    BY <1>3, <1>4
  <2>2. Fits(c \cup {r})
    BY <1>1, <1>4, FitsAdded
  <2> QED BY <2>1, <2>2
<1>5. ASSUME NEW victim \in c \cup {r}, told = {victim} PROVE Fits(kept)
  <2>1. Fits((c \cup {r}) \ {victim})
    BY <1>1, FitsSwapped
  <2> QED BY <1>3, <1>5, <2>1
<1>6. CASE cfg.Type = "lru"
  <2>1. SizeE > 0 /\ Share = SizeE /\ told \in LRUVictims(E)
    BY <1>6 DEF Limited, Share, Victims
  <2>2. CASE Cardinality(c) >= SizeE
    BY <1>1, <1>5, <2>1, <2>2 DEF LRUVictims
  <2>3. CASE ~(Cardinality(c) >= SizeE)
    BY <1>1, <1>2, <1>4, <2>1, <2>3 DEF LRUVictims
  <2> QED BY <2>2, <2>3
<1>7. CASE cfg.Type = "random"
  <2>1. SizeE > 0 /\ Share = SizeE /\ told \in RandomVictims(E, r)
    BY <1>7 DEF Limited, Share, Victims
  <2>2. CASE Cardinality(c) + 1 > SizeE
    BY <1>1, <1>5, <2>1, <2>2 DEF RandomVictims
  <2>3. CASE ~(Cardinality(c) + 1 > SizeE)
    BY <1>1, <1>2, <1>4, <2>1, <2>3 DEF RandomVictims
  <2> QED BY <2>2, <2>3
<1>8. CASE cfg.Type = "lfu"
  <2>1. Share = MaxInt(SizeE, 1) /\ told \in LFUVictims(E)
    BY <1>8 DEF Share, Victims
  <2>2. CASE c # {} /\ Cardinality(c) >= SizeE
    BY <1>5, <2>1, <2>2 DEF LFUVictims
  <2>3. CASE c = {}
    <3>1. Cardinality(c) = 0
      BY <2>3, FS_EmptySet
    <3> QED BY <1>1, <1>4, <2>1, <2>3, <3>1 DEF LFUVictims, MaxInt
  <2>4. CASE ~(Cardinality(c) >= SizeE)
    BY <1>1, <1>2, <1>4, <2>1, <2>4 DEF LFUVictims, MaxInt
  <2> QED BY <2>2, <2>3, <2>4
<1>9. CASE cfg.Type = "twoq"
  <2>1. Share = SizeE /\ told \in TwoQVictims(E, r)
    BY <1>9 DEF Share, Victims
  <2>2. Cardinality(kept) <= Share
    BY <1>3, <2>1 DEF TwoQVictims
  <2>3. IsFiniteSet(c \cup {r})
    BY <1>2, FS_AddElement
  <2>4. IsFiniteSet(kept)
    BY <1>3, <2>3, FS_Subset
  <2> QED BY <2>2, <2>4 DEF Fits
<1> QED BY <1>6, <1>7, <1>8, <1>9 DEF Limited

\* What a cache tells of are rules that the hash sends to its engine.
LEMMA VictimsAreNeighbours ==
  ASSUME NEW E, NEW e, NEW r \in Rules, hash[r] = e, E.cached \subseteq {x \in Rules : hash[x] = e},
         cfg \in Arguments, NEW told \in Victims(E, r)
  PROVE  told \subseteq {x \in Rules : hash[x] = e}
<1> DEFINE R == {x \in Rules : hash[x] = e}
<1>1. cfg.Type \in Types
  BY PartitionAssumption
<1>2. told = {} \/ (\E victim \in E.cached \cup {r} : told = {victim}) \/ told \subseteq R
  <2>1. CASE cfg.Type = "lru"
    BY <2>1 DEF Victims, LRUVictims
  <2>2. CASE cfg.Type = "lfu"
    BY <2>2 DEF Victims, LFUVictims
  <2>3. CASE cfg.Type = "random"
    BY <2>3 DEF Victims, RandomVictims
  <2>4. CASE cfg.Type = "twoq"
    BY <2>4 DEF Victims, TwoQVictims, AtMost, Neighbours
  <2>5. CASE cfg.Type = "arc"
    BY <2>5 DEF Victims, ARCVictims, AtMost, Neighbours
  <2> QED BY <1>1, <2>1, <2>2, <2>3, <2>4, <2>5 DEF Types
<1> QED BY <1>2

\* The cache takes a rule and may drop others; the libraries stay.
LEMMA CachedOK ==
  ASSUME NEW e, NEW E, EngineOK(E, e), NEW r \in Rules, hash[r] = e, NEW after \in Cached(E, r),
         cfg \in Arguments
  PROVE  EngineOK(after, e) /\ after.libraries = E.libraries
<1> DEFINE R == {x \in Rules : hash[x] = e}
<1>1. CASE after = E
  BY <1>1
<1>2. CASE after # E
  <2>1. r \notin E.cached /\ after \in Entered(E, r)
    BY <1>2 DEF Cached
  <2>2. PICK told \in Victims(E, r) : \E kept \in Kept(E, r, told) :
          after = [E EXCEPT !.cached = kept, !.pending = @ \cup told]
    BY <2>1 DEF Entered
  <2>3. PICK kept \in Kept(E, r, told) :
          after = [E EXCEPT !.cached = kept, !.pending = @ \cup told]
    BY <2>2
  <2> DEFINE p == E.pending \cup told
  <2>4. after = [libraries |-> E.libraries, cached |-> kept, pending |-> p, cleared |-> E.cleared]
    BY <2>3 DEF EngineOK
  <2>5. told \subseteq R
    BY VictimsAreNeighbours DEF EngineOK
  <2>6. kept \subseteq R /\ p \subseteq R
    <3>1. kept \subseteq E.cached \cup {r}
      BY DEF Kept
    <3> QED BY <2>5, <3>1 DEF EngineOK
  <2>7. Fits(kept)
    BY <2>1, EnteredFits DEF EngineOK
  <2> HIDE DEF p
  <2> QED BY <2>4, <2>6, <2>7 DEF EngineOK
<1> QED BY <1>1, <1>2

\* What every write leaves of the parts of the invariant but ClosedEnginesAreEmpty.
LEMMA WriteStep ==
  ASSUME IInv, NEW e \in DOMAIN engines, NEW E, EngineOK(E, e), Becomes(e, E),
         fresh' \in [Threads -> SUBSET Rules], crashed' = crashed, call' \in [Threads -> Calls]
  PROVE  /\ TypeOK' /\ EnginesOK' /\ HashOK'
         /\ (call \in [Threads -> Calls])'
<1>1. EnginesOK' /\ DOMAIN engines' = DOMAIN engines
  BY BecomesStep DEF IInv
<1>2. /\ (cfg \in Arguments)'
      /\ (hash \in [Rules -> 0..PartitionOf(cfg)])'
      /\ (DOMAIN engines = 1..PartitionOf(cfg))'
      /\ (crashed \in BOOLEAN)'
  BY <1>1 DEF IInv, TypeOK, Becomes, PartitionOf, MaxInt
<1>3. TypeOK'
  BY <1>1, <1>2 DEF EnginesOK, EngineOK, TypeOK
<1>4. HashOK'
  BY DEF IInv, HashOK, HashInRange, DefaultHashFindsEngine, Becomes, PartitionOf, MaxInt
<1>5. (call \in [Threads -> Calls])'
  BY <1>1 DEF Calls
<1> QED BY <1>1, <1>3, <1>4, <1>5

\* A write that adds no library but one that every Close under way knows to be fresh.
LEMMA ClosedStep ==
  ASSUME IInv, NEW e \in DOMAIN engines, NEW E, EngineOK(E, e), Becomes(e, E),
         UNCHANGED call,
         \A t \in Threads : call[t].op = "closing" =>
           /\ fresh[t] \subseteq fresh'[t]
           /\ DOMAIN E.libraries \ DOMAIN engines[e].libraries \subseteq fresh'[t]
  PROVE  ClosedEnginesAreEmpty'
<1>1. /\ DOMAIN engines' = DOMAIN engines
      /\ engines'[e] = E
      /\ \A f \in DOMAIN engines \ {e} : engines'[f] = engines[f]
  BY BecomesStep DEF IInv
<1>2. ASSUME NEW t \in Threads, NEW f \in DOMAIN engines, call[t].op = "closing", f \notin call[t].left
      PROVE  DOMAIN engines'[f].libraries \subseteq fresh'[t]
  <2>1. DOMAIN engines[f].libraries \subseteq fresh[t]
    BY <1>2 DEF IInv, ClosedEnginesAreEmpty
  <2>2. CASE f = e
    BY <1>1, <1>2, <2>1, <2>2
  <2>3. CASE f # e
    BY <1>1, <1>2, <2>1, <2>3
  <2> QED BY <2>2, <2>3
<1> QED BY <1>1, <1>2 DEF ClosedEnginesAreEmpty

--------------------------------------------------------------------------------
(* The libraries of all engines together.                                  *)

\* Together without CHOOSE: a rule is where the hash sends it.
Home ==
  [r \in {r \in Rules : hash[r] \in DOMAIN engines /\ r \in DOMAIN engines[hash[r]].libraries} |->
     engines[hash[r]].libraries[r]]

LEMMA TogetherIsHome == EnginesOK => Together = Home
<1> SUFFICES ASSUME EnginesOK PROVE Together = Home
  OBVIOUS
<1> DEFINE Holding(r) == {e \in DOMAIN engines : r \in DOMAIN engines[e].libraries}
           Held == {r \in Rules : Holding(r) # {}}
<1>1. \A r \in Rules, e \in DOMAIN engines : r \in DOMAIN engines[e].libraries => hash[r] = e
  BY DEF EnginesOK, EngineOK
<1>2. Held = {r \in Rules : hash[r] \in DOMAIN engines /\ r \in DOMAIN engines[hash[r]].libraries}
  BY <1>1
<1>3. \A r \in Held : (CHOOSE e \in Holding(r) : TRUE) = hash[r]
  BY <1>1
<1>4. Together = [r \in Held |-> engines[CHOOSE e \in Holding(r) : TRUE].libraries[r]]
  BY DEF Together
<1> HIDE DEF Held, Holding
<1>5. Together = [r \in Held |-> engines[hash[r]].libraries[r]]
  BY <1>3, <1>4
<1> QED BY <1>2, <1>5 DEF Home

LEMMA TogetherIsHomeNext ==
  ASSUME EnginesOK'
  PROVE  Together' = Home'
<1>1. (EnginesOK => Together = Home)'
  BY TogetherIsHome, PTL
<1> QED BY <1>1

\* A write shows in the rules of its engine only.
LEMMA HomeStep ==
  ASSUME EnginesOK, NEW e \in DOMAIN engines, NEW E, EngineOK(E, e), Becomes(e, E)
  PROVE  /\ DOMAIN Home' \subseteq Rules
         /\ \A r \in Rules :
              /\ hash[r] = e => (r \in DOMAIN Home' <=> r \in DOMAIN E.libraries)
              /\ hash[r] # e => (r \in DOMAIN Home' <=> r \in DOMAIN Home)
         /\ \A r \in DOMAIN Home' :
              /\ hash[r] = e => Home'[r] = E.libraries[r]
              /\ hash[r] # e => Home'[r] = Home[r]
<1>1. /\ DOMAIN engines' = DOMAIN engines
      /\ engines'[e] = E
      /\ \A f \in DOMAIN engines \ {e} : engines'[f] = engines[f]
      /\ hash' = hash
  BY BecomesStep DEF Becomes
<1>2. DOMAIN Home' = {r \in Rules : hash[r] \in DOMAIN engines
                                 /\ r \in DOMAIN engines'[hash[r]].libraries}
  BY <1>1 DEF Home
<1>3. DOMAIN Home = {r \in Rules : hash[r] \in DOMAIN engines
                                /\ r \in DOMAIN engines[hash[r]].libraries}
  BY DEF Home
<1>4. ASSUME NEW r \in DOMAIN Home'
      PROVE  /\ hash[r] = e => Home'[r] = E.libraries[r]
             /\ hash[r] # e => Home'[r] = Home[r]
  <2>1. Home'[r] = engines'[hash[r]].libraries[r]
    BY <1>1, <1>2 DEF Home
  <2>2. ASSUME hash[r] # e PROVE Home'[r] = Home[r]
    <3>1. hash[r] \in DOMAIN engines \ {e} /\ engines'[hash[r]] = engines[hash[r]]
      BY <1>1, <1>2, <2>2
    <3>2. r \in DOMAIN Home
      BY <1>2, <1>3, <3>1
    <3> QED BY <2>1, <3>1, <3>2 DEF Home
  <2> QED BY <1>1, <2>1, <2>2
<1> QED BY <1>1, <1>2, <1>3, <1>4

LEMMA HomeOfEngine ==
  ASSUME EnginesOK, NEW e \in DOMAIN engines, NEW r \in Rules, hash[r] = e
  PROVE  /\ r \in DOMAIN Home <=> r \in DOMAIN engines[e].libraries
         /\ r \in DOMAIN Home => Home[r] = engines[e].libraries[r]
BY DEF Home

--------------------------------------------------------------------------------
(* What the contract sees of a write.                                      *)

ContractNext == [Contract!Next]_(Contract!vars)

\* Nobody evaluates a rule of an engine that is free for a writer.
LEMMA NoneInUse ==
  ASSUME NEW e, Writable(e)
  PROVE  \A r \in Rules : hash[r] = e => ~Contract!InUse(r)
BY DEF Writable, Contract!InUse, Evaluating

LEMMA SameEvaluating == UNCHANGED call => UNCHANGED Evaluating
BY DEF Evaluating

LEMMA InstallImplements ==
  ASSUME IInv, NEW e \in DOMAIN engines, NEW E, EngineOK(E, e), Becomes(e, E),
         UNCHANGED call, Writable(e),
         NEW r \in Rules, hash[r] = e, NEW st \in WellFormed,
         E.libraries = Put(engines[e].libraries, r, st)
  PROVE  ContractNext
<1>1. Together = Home /\ Together' = Home'
  <2>1. EnginesOK /\ EnginesOK'
    BY BecomesStep DEF IInv
  <2> QED BY <2>1, TogetherIsHome, TogetherIsHomeNext
<1>2. DOMAIN Put(engines[e].libraries, r, st) = DOMAIN engines[e].libraries \cup {r}
  BY DEF Put
<1>3. DOMAIN Home' = DOMAIN Home \cup {r}
  <2>1. DOMAIN Home \subseteq Rules
    BY DEF Home
  <2>2. /\ DOMAIN Home' \subseteq Rules
        /\ \A x \in Rules :
             /\ hash[x] = e => (x \in DOMAIN Home' <=> x \in DOMAIN E.libraries)
             /\ hash[x] # e => (x \in DOMAIN Home' <=> x \in DOMAIN Home)
    BY HomeStep DEF IInv
  <2>3. \A x \in Rules :
          hash[x] = e => (x \in DOMAIN Home <=> x \in DOMAIN engines[e].libraries)
    BY HomeOfEngine DEF IInv
  <2>4. \A x \in Rules : x \in DOMAIN Home' <=> x \in DOMAIN Home \cup {r}
    BY <1>2, <2>2, <2>3
  <2> QED BY <2>1, <2>2, <2>4
<1>4. \A x \in DOMAIN Home' : Home'[x] = IF x = r THEN st ELSE Home[x]
  <2> TAKE x \in DOMAIN Home'
  <2>1. /\ x \in Rules
        /\ hash[x] = e => Home'[x] = E.libraries[x]
        /\ hash[x] # e => Home'[x] = Home[x]
    BY HomeStep DEF IInv
  <2>2. CASE x = r
    BY <2>1, <2>2 DEF Put
  <2>3. CASE x # r
    <3>1. x \in DOMAIN Home
      BY <1>3, <2>3
    <3> QED BY <2>1, <2>3, <3>1, HomeOfEngine DEF Put, IInv
  <2> QED BY <2>2, <2>3
<1>5. Home' = [x \in DOMAIN Home' |-> Home'[x]]
  BY DEF Home
<1>6. Home' = Contract!Put(Home, r, st)
  BY <1>3, <1>4, <1>5 DEF Contract!Put
<1>7. ~Contract!InUse(r)
  BY NoneInUse
<1> QED BY <1>1, <1>6, <1>7, SameEvaluating DEF Contract!Install, Contract!Next, ContractNext

\* A write that takes rules of its engine away, and only those.
LEMMA ForgetImplements ==
  ASSUME IInv, NEW e \in DOMAIN engines, NEW E, EngineOK(E, e), Becomes(e, E),
         UNCHANGED Evaluating, Writable(e),
         NEW rs \in SUBSET {r \in Rules : hash[r] = e},
         E.libraries = Drop(engines[e].libraries, rs)
  PROVE  ContractNext
<1>1. Together = Home /\ Together' = Home'
  <2>1. EnginesOK /\ EnginesOK'
    BY BecomesStep DEF IInv
  <2> QED BY <2>1, TogetherIsHome, TogetherIsHomeNext
<1>2. /\ DOMAIN E.libraries = DOMAIN engines[e].libraries \ rs
      /\ \A x \in DOMAIN E.libraries : E.libraries[x] = engines[e].libraries[x]
  BY DEF Drop
<1>3. DOMAIN Home' = DOMAIN Home \ rs
  <2>1. DOMAIN Home \subseteq Rules
    BY DEF Home
  <2> QED BY <1>2, <2>1, HomeStep, HomeOfEngine DEF IInv
<1>4. \A x \in DOMAIN Home' : Home'[x] = Home[x]
  <2> TAKE x \in DOMAIN Home'
  <2>1. /\ x \in Rules /\ x \in DOMAIN Home
        /\ hash[x] = e => Home'[x] = E.libraries[x]
        /\ hash[x] # e => Home'[x] = Home[x]
    BY <1>3, HomeStep DEF IInv
  <2>2. CASE hash[x] = e
    <3>1. x \in DOMAIN E.libraries
      BY <2>1, <2>2, HomeStep DEF IInv
    <3> QED BY <1>2, <2>1, <2>2, <3>1, HomeOfEngine DEF IInv
  <2>3. CASE hash[x] # e
    BY <2>1, <2>3
  <2> QED BY <2>2, <2>3
<1>5. Home' = [x \in DOMAIN Home' |-> Home'[x]]
  BY DEF Home
<1>6. Home' = Contract!Drop(Home, rs)
  BY <1>3, <1>4, <1>5 DEF Contract!Drop
<1>7. \A r \in rs : ~Contract!InUse(r)
  BY NoneInUse
<1>8. rs \in SUBSET Rules
  OBVIOUS
<1> QED BY <1>1, <1>6, <1>7, <1>8 DEF Contract!Forget, Contract!Next, ContractNext

\* A write that leaves the libraries as they are.
LEMMA KeepStutters ==
  ASSUME IInv, NEW e \in DOMAIN engines, NEW E, EngineOK(E, e), Becomes(e, E),
         UNCHANGED call, E.libraries = engines[e].libraries
  PROVE  ContractNext
<1>1. Together = Home /\ Together' = Home'
  <2>1. EnginesOK /\ EnginesOK'
    BY BecomesStep DEF IInv
  <2> QED BY <2>1, TogetherIsHome, TogetherIsHomeNext
<1>2. /\ hash' = hash /\ DOMAIN engines' = DOMAIN engines
      /\ \A f \in DOMAIN engines : engines'[f].libraries = engines[f].libraries
  BY BecomesStep DEF IInv, Becomes
<1>3. Home' = Home
  BY <1>2 DEF Home
<1> QED BY <1>1, <1>3, SameEvaluating DEF Contract!vars, ContractNext

--------------------------------------------------------------------------------
(* The actions, one by one.                                                *)

\* What there is to show of a step.
Good == IInv' /\ ContractNext

\* Changing some of the fields of an engine.
LEMMA LibrariesAndPendingSet ==
  ASSUME NEW e, NEW E, EngineOK(E, e), NEW x, NEW y
  PROVE  [E EXCEPT !.libraries = x, !.pending = y] = [libraries |-> x, cached |-> E.cached, pending |-> y,
              cleared |-> E.cleared]
<1>1. ASSUME NEW A, A = [E EXCEPT !.libraries = x, !.pending = y]
      PROVE  A = [libraries |-> x, cached |-> E.cached, pending |-> y,
              cleared |-> E.cleared]
  BY <1>1 DEF EngineOK
<1> QED BY <1>1

LEMMA Emptied ==
  ASSUME NEW e, NEW E, EngineOK(E, e), NEW x, NEW y, NEW z
  PROVE  [E EXCEPT !.libraries = x, !.cached = y, !.cleared = z]
           = [libraries |-> x, cached |-> y, pending |-> E.pending, cleared |-> z]
<1>1. ASSUME NEW A, A = [E EXCEPT !.libraries = x, !.cached = y, !.cleared = z]
      PROVE  A = [libraries |-> x, cached |-> y, pending |-> E.pending, cleared |-> z]
  BY <1>1 DEF EngineOK
<1> QED BY <1>1

\* A call in engine e.
LEMMA RoutedFacts ==
  ASSUME IInv, NEW t, NEW r \in Rules, NEW e \in DOMAIN engines, Routed(t, r, e)
  PROVE  hash[r] = e /\ EngineOK(engines[e], e) /\ cfg \in Arguments
BY DEF Routed, IInv, EnginesOK, TypeOK

LEMMA WriteFacts ==
  ASSUME NEW t, NEW r, NEW e \in DOMAIN engines, NEW E, Write(t, r, e, E)
  PROVE  /\ Writable(e) /\ UNCHANGED <<call, crashed>>
         /\ \E after \in Cached(E, r) : Becomes(e, after)
BY DEF Write, Becomes

LEMMA InstallGood ==
  ASSUME IInv, NEW t \in Threads, NEW r \in Rules, NEW e \in DOMAIN engines, Routed(t, r, e),
         NEW st \in WellFormed, Write(t, r, e, Installed(engines[e], r, st)),
         Refresh(r)
  PROVE  Good
<1> DEFINE E == Installed(engines[e], r, st)
<1>1. hash[r] = e /\ EngineOK(engines[e], e) /\ cfg \in Arguments
  BY RoutedFacts
<1>2. EngineOK(E, e) /\ E.libraries = Put(engines[e].libraries, r, st)
  BY <1>1, InstalledOK
<1> HIDE DEF E
<1>3. PICK after \in Cached(E, r) : Becomes(e, after)
  BY WriteFacts DEF E
<1>4. Writable(e) /\ UNCHANGED <<call, crashed>>
  BY WriteFacts
<1>5. EngineOK(after, e) /\ after.libraries = Put(engines[e].libraries, r, st)
  BY <1>1, <1>2, CachedOK
<1>6. /\ fresh' \in [Threads -> SUBSET Rules]
      /\ \A u \in Threads : call[u].op = "closing" => fresh'[u] = fresh[u] \cup {r}
  BY DEF IInv, TypeOK, Refresh
<1>7. TypeOK' /\ EnginesOK' /\ HashOK' /\ (call \in [Threads -> Calls])'
  <2>1. call' \in [Threads -> Calls]
    BY <1>4 DEF IInv
  <2> QED BY <1>3, <1>4, <1>5, <1>6, <2>1, WriteStep
<1>8. ClosedEnginesAreEmpty'
  <2>1. DOMAIN after.libraries \ DOMAIN engines[e].libraries \subseteq {r}
    BY <1>5 DEF Put
  <2> QED BY <1>3, <1>4, <1>5, <1>6, <2>1, ClosedStep
<1>9. ContractNext
  BY <1>1, <1>3, <1>4, <1>5, InstallImplements
<1> QED BY <1>7, <1>8, <1>9 DEF Good, IInv

\* A write that installs nothing, or an expiration.
LEMMA KeepGood ==
  ASSUME IInv, NEW e \in DOMAIN engines, NEW E, EngineOK(E, e), Becomes(e, E),
         UNCHANGED <<call, fresh, crashed>>, E.libraries = engines[e].libraries
  PROVE  Good
<1>1. call' \in [Threads -> Calls] /\ fresh' \in [Threads -> SUBSET Rules]
  BY DEF IInv, TypeOK
<1>2. TypeOK' /\ EnginesOK' /\ HashOK' /\ (call \in [Threads -> Calls])'
  BY <1>1, WriteStep
<1>3. ClosedEnginesAreEmpty'
  BY ClosedStep
<1>4. ContractNext
  BY KeepStutters
<1> QED BY <1>2, <1>3, <1>4 DEF Good, IInv

LEMMA RefreshGood ==
  ASSUME IInv, NEW t \in Threads, NEW r \in Rules, NEW e \in DOMAIN engines, Routed(t, r, e),
         Write(t, r, e, engines[e]), UNCHANGED fresh
  PROVE  Good
<1>1. hash[r] = e /\ EngineOK(engines[e], e) /\ cfg \in Arguments
  BY RoutedFacts
<1>2. PICK after \in Cached(engines[e], r) : Becomes(e, after)
  BY WriteFacts
<1>3. UNCHANGED <<call, crashed>>
  BY WriteFacts
<1>4. EngineOK(after, e) /\ after.libraries = engines[e].libraries
  BY <1>1, CachedOK
<1> QED BY <1>2, <1>3, <1>4, KeepGood

LEMMA AddRuleGood ==
  ASSUME IInv, NEW t \in Threads, NEW r \in Rules, NEW st \in WellFormed,
         NEW e \in DOMAIN engines, AddRule(t, r, st, e)
  PROVE  Good
BY InstallGood DEF AddRule

LEMMA BuildRuleGood ==
  ASSUME IInv, NEW t \in Threads, NEW r \in Rules, NEW st \in WellFormed,
         NEW e \in DOMAIN engines, BuildRule(t, r, st, e)
  PROVE  Good
BY InstallGood, RefreshGood DEF BuildRule

LEMMA ExpireGood ==
  ASSUME IInv, NEW e \in DOMAIN engines, NEW r \in Rules, hash[r] = e, Expire(e, r)
  PROVE  Good
<1> DEFINE c == engines[e].cached \ {r}
           p == engines[e].pending \cup {r}
           E == [engines[e] EXCEPT !.cached = c, !.pending = p]
<1>1. UNCHANGED <<call, fresh, crashed>>
  BY DEF Expire
<1>2. EngineOK(engines[e], e)
  BY DEF IInv, EnginesOK
<1>3. /\ c \subseteq {x \in Rules : hash[x] = e} /\ p \subseteq {x \in Rules : hash[x] = e}
      /\ Fits(c)
  <2>1. Share \in Nat
    BY SizeProperties DEF IInv, TypeOK
  <2>2. Fits(c)
    BY <1>2, <2>1, FitsSubset DEF EngineOK
  <2> QED BY <1>2, <2>2 DEF EngineOK
<1>4. Becomes(e, E)
  <2>1. engines = [f \in DOMAIN engines |-> engines[f]]
    BY DEF IInv, EnginesOK
  <2> QED BY <2>1 DEF Expire, Becomes
<1> HIDE DEF c, p
<1>5. E = [libraries |-> engines[e].libraries, cached |-> c, pending |-> p,
           cleared |-> engines[e].cleared]
  <2>1. E = [engines[e] EXCEPT !.cached = c, !.pending = p]
    OBVIOUS
  <2> HIDE DEF E
  <2> QED BY <1>2, <2>1 DEF EngineOK
<1>6. EngineOK(E, e) /\ E.libraries = engines[e].libraries
  BY <1>2, <1>3, <1>5 DEF EngineOK
<1> HIDE DEF E
<1> QED BY <1>1, <1>4, <1>6, KeepGood

LEMMA RemoveRuleGood ==
  ASSUME IInv, NEW e \in DOMAIN engines, NEW r \in Rules, RemoveRule(e, r)
  PROVE  Good
<1>1. PICK left \in {engines[e].pending, engines[e].pending \ {r}} :
        engines' = [engines EXCEPT ![e].libraries = Drop(@, {r}), ![e].pending = left]
  BY DEF RemoveRule
<1> DEFINE E == [engines[e] EXCEPT !.libraries = Drop(@, {r}), !.pending = left]
<1>2. EngineOK(engines[e], e)
  BY DEF IInv, EnginesOK
<1>3. r \in engines[e].pending /\ hash[r] = e /\ Writable(e) /\ UNCHANGED <<call, fresh, crashed>>
  BY <1>2 DEF RemoveRule, EngineOK
<1>4. E = [libraries |-> Drop(engines[e].libraries, {r}), cached |-> engines[e].cached,
           pending |-> left, cleared |-> engines[e].cleared]
  BY <1>2, LibrariesAndPendingSet
<1>5. /\ Drop(engines[e].libraries, {r}) \in [DOMAIN Drop(engines[e].libraries, {r}) -> WellFormed]
      /\ DOMAIN Drop(engines[e].libraries, {r}) = DOMAIN engines[e].libraries \ {r}
  BY <1>2 DEF EngineOK, Drop
<1>6. EngineOK(E, e) /\ E.libraries = Drop(engines[e].libraries, {r})
  BY <1>2, <1>4, <1>5 DEF EngineOK
<1>7. Becomes(e, E)
  <2>1. engines = [f \in DOMAIN engines |-> engines[f]]
    BY DEF IInv, EnginesOK
  <2> QED BY <1>1, <2>1 DEF RemoveRule, Becomes
<1> HIDE DEF E
<1>8. TypeOK' /\ EnginesOK' /\ HashOK' /\ (call \in [Threads -> Calls])'
  <2>1. call' \in [Threads -> Calls] /\ fresh' \in [Threads -> SUBSET Rules]
    BY <1>3 DEF IInv, TypeOK
  <2> QED BY <1>3, <1>6, <1>7, <2>1, WriteStep
<1>9. ClosedEnginesAreEmpty'
  <2>1. DOMAIN E.libraries \ DOMAIN engines[e].libraries = {}
    BY <1>5, <1>6
  <2> QED BY <1>3, <1>6, <1>7, <2>1, ClosedStep
<1>10. ContractNext
  <2>1. {r} \in SUBSET {x \in Rules : hash[x] = e} /\ UNCHANGED Evaluating
    BY <1>3, SameEvaluating
  <2> QED BY <1>3, <1>6, <1>7, <2>1, ForgetImplements
<1> QED BY <1>8, <1>9, <1>10 DEF Good, IInv

\* CloseOne, whose thread has one engine less to do.
LEMMA CloseOneGood ==
  ASSUME IInv, NEW t \in Threads, NEW e \in DOMAIN engines, CloseOne(t, e)
  PROVE  Good
<1> DEFINE none == <<>>
           nobody == {}
           gone == (cfg.Type = "lfu")
           E == [engines[e] EXCEPT !.libraries = none, !.cached = nobody, !.cleared = gone]
<1>1. EngineOK(engines[e], e)
  BY DEF IInv, EnginesOK
<1>2. /\ none \in [DOMAIN none -> WellFormed] /\ DOMAIN none = {} /\ nobody = {}
      /\ Fits(nobody) /\ gone \in BOOLEAN
  BY NothingFits DEF IInv, TypeOK
<1>3. E.libraries = <<>> /\ EngineOK(E, e)
  <2> HIDE DEF none, nobody, gone
  <2>1. E = [libraries |-> none, cached |-> nobody, pending |-> engines[e].pending, cleared |-> gone]
    BY <1>1, Emptied
  <2>2. E.libraries = none /\ EngineOK(E, e)
    BY <1>1, <1>2, <2>1 DEF EngineOK
  <2> QED BY <2>2 DEF none
<1>4. Becomes(e, E)
  <2>1. engines = [f \in DOMAIN engines |-> engines[f]]
    BY DEF IInv, EnginesOK
  <2> QED BY <2>1 DEF CloseOne, Becomes
<1> HIDE DEF E
<1>5. /\ call[t].op = "closing" /\ call[t] \in Calls /\ Writable(e)
      /\ call' = [call EXCEPT ![t] = [call[t] EXCEPT !.left = @ \ {e}]]
      /\ UNCHANGED <<fresh, crashed>>
  BY DEF CloseOne, IInv
<1>6. call[t] \in [op : {"closing"}, left : SUBSET DOMAIN engines]
  BY <1>5 DEF Calls
<1> DEFINE step == [call[t] EXCEPT !.left = @ \ {e}]
<1>7. step \in [op : {"closing"}, left : SUBSET DOMAIN engines] /\ step.left = call[t].left \ {e}
  BY <1>6
<1> HIDE DEF step
<1>8. /\ call' \in [Threads -> Calls]
      /\ call'[t] = step
      /\ \A u \in Threads \ {t} : call'[u] = call[u]
  BY <1>5, <1>7 DEF IInv, Calls, step
<1>9. TypeOK' /\ EnginesOK' /\ HashOK' /\ (call \in [Threads -> Calls])'
  <2>1. fresh' \in [Threads -> SUBSET Rules]
    BY <1>5 DEF IInv, TypeOK
  <2> QED BY <1>3, <1>4, <1>5, <1>8, <2>1, WriteStep
<1>10. ClosedEnginesAreEmpty'
  <2>1. /\ DOMAIN engines' = DOMAIN engines /\ engines'[e] = E
        /\ \A f \in DOMAIN engines \ {e} : engines'[f] = engines[f]
    BY <1>3, <1>4, BecomesStep DEF IInv
  <2>2. DOMAIN engines'[e].libraries = {}
    BY <1>3, <2>1
  <2>3. ASSUME NEW u \in Threads, NEW f \in DOMAIN engines,
               call'[u].op = "closing", f \notin call'[u].left
        PROVE  DOMAIN engines'[f].libraries \subseteq fresh'[u]
    <3>1. CASE f = e
      BY <2>2, <3>1
    <3>2. CASE f # e
      <4>1. call[u].op = "closing" /\ f \notin call[u].left
        BY <1>5, <1>7, <1>8, <2>3, <3>2
      <4> QED BY <1>5, <2>1, <3>2, <4>1 DEF IInv, ClosedEnginesAreEmpty
    <3> QED BY <3>1, <3>2
  <2> QED BY <2>1, <2>3 DEF ClosedEnginesAreEmpty
<1>11. UNCHANGED Evaluating
  <2>1. call'[t].op # "executing" /\ call[t].op # "executing"
    BY <1>5, <1>7, <1>8
  <2>2. ASSUME NEW u \in Threads
        PROVE  /\ call'[u].op = "executing" <=> call[u].op = "executing"
               /\ call[u].op = "executing" => call'[u] = call[u]
    BY <1>8, <2>1
  <2> QED BY <2>2 DEF Evaluating
<1>12. ContractNext
  <2> DEFINE rs == {r \in Rules : hash[r] = e}
  <2>1. E.libraries = Drop(engines[e].libraries, rs)
    <3>1. DOMAIN engines[e].libraries \ rs = {}
      BY <1>1 DEF EngineOK
    <3>2. Drop(engines[e].libraries, rs) = <<>>
      BY <3>1 DEF Drop
    <3> QED BY <1>3, <3>2
  <2>2. rs \in SUBSET {r \in Rules : hash[r] = e}
    OBVIOUS
  <2> HIDE DEF rs
  <2> QED BY <1>3, <1>4, <1>5, <1>11, <2>1, <2>2, ForgetImplements
<1> QED BY <1>9, <1>10, <1>12 DEF Good, IInv

\* A thread goes on; the engines stay.
LEMMA CallStep ==
  ASSUME IInv, NEW t \in Threads, NEW step \in Calls, call' = [call EXCEPT ![t] = step],
         UNCHANGED <<cfg, hash, engines, crashed>>,
         fresh' \in [Threads -> SUBSET Rules],
         \A u \in Threads \ {t} : fresh'[u] = fresh[u],
         step.op = "closing" => step.left = DOMAIN engines
  PROVE  IInv'
<1>1. /\ (call \in [Threads -> Calls])'
      /\ call'[t] = step
      /\ \A u \in Threads \ {t} : call'[u] = call[u]
  BY DEF IInv, Calls
<1>2. EnginesOK' /\ HashOK'
  BY SameEngines DEF IInv, HashOK, HashInRange, DefaultHashFindsEngine, PartitionOf, MaxInt
<1>3. TypeOK'
  BY DEF IInv, TypeOK, PartitionOf, MaxInt
<1>4. ClosedEnginesAreEmpty'
  <2>1. ASSUME NEW u \in Threads, NEW f \in DOMAIN engines,
               call'[u].op = "closing", f \notin call'[u].left
        PROVE  u # t
    BY <1>1, <2>1
  <2> QED BY <1>1, <2>1 DEF IInv, ClosedEnginesAreEmpty
<1> QED BY <1>1, <1>2, <1>3, <1>4 DEF IInv

\* The engines as they were are the libraries as they were.
LEMMA SameTogether == UNCHANGED engines => UNCHANGED Together
BY DEF Together

LEMMA ExecuteGood ==
  ASSUME IInv, NEW t \in Threads, NEW r \in Rules, NEW e \in DOMAIN engines, Execute(t, r, e)
  PROVE  Good
<1> DEFINE step == [op |-> "executing", rule |-> r, library |-> engines[e].libraries[r]]
<1>1. /\ call[t] = Idle /\ hash[r] = e /\ r \in DOMAIN engines[e].libraries
      /\ call' = [call EXCEPT ![t] = step] /\ UNCHANGED <<cfg, hash, engines, fresh, crashed>>
  BY DEF Execute, Routed
<1>2. step \in Calls /\ step.op # "closing"
  BY <1>1 DEF IInv, EnginesOK, EngineOK, Calls
<1> HIDE DEF step
<1>3. IInv'
  <2>1. fresh' \in [Threads -> SUBSET Rules]
    BY <1>1 DEF IInv, TypeOK
  <2> QED BY <1>1, <1>2, <2>1, CallStep
<1>4. Together = Home
  BY TogetherIsHome DEF IInv
<1>5. r \in DOMAIN Together /\ Together[r] = engines[e].libraries[r]
  BY <1>1, <1>4, HomeOfEngine DEF IInv
<1>6. Evaluating[t] = {}
  BY <1>1 DEF Evaluating, Idle
<1>7. Evaluating' = [Evaluating EXCEPT ![t] = {[rule |-> r, library |-> Together[r]]}]
  <2>1. /\ call'[t] = step
        /\ \A u \in Threads \ {t} : call'[u] = call[u]
    BY <1>1 DEF IInv
  <2>2. step.op = "executing" /\ step.rule = r /\ step.library = Together[r]
    BY <1>5 DEF step
  <2>3. Evaluating'[t] = {[rule |-> r, library |-> Together[r]]}
    BY <2>1, <2>2 DEF Evaluating
  <2>4. \A u \in Threads \ {t} : Evaluating'[u] = Evaluating[u]
    BY <2>1 DEF Evaluating
  <2> QED BY <2>3, <2>4 DEF Evaluating
<1>8. ContractNext
  BY <1>1, <1>5, <1>6, <1>7, SameTogether DEF Contract!Begin, Contract!Next, ContractNext
<1> QED BY <1>3, <1>8 DEF Good

LEMMA IdleIsACall == Idle \in Calls /\ Idle.op = "idle"
BY DEF Idle, Calls

LEMMA ReturnGood ==
  ASSUME IInv, NEW t \in Threads, Return(t)
  PROVE  Good
<1>1. /\ call' = [call EXCEPT ![t] = Idle] /\ UNCHANGED <<cfg, hash, engines, fresh, crashed>>
  BY DEF Return
<1>2. IInv'
  <2>1. fresh' \in [Threads -> SUBSET Rules]
    BY <1>1 DEF IInv, TypeOK
  <2> QED BY <1>1, <2>1, CallStep, IdleIsACall
<1>3. Evaluating' = [Evaluating EXCEPT ![t] = {}]
  <2>1. /\ call'[t] = Idle
        /\ \A u \in Threads \ {t} : call'[u] = call[u]
    BY <1>1 DEF IInv
  <2> QED BY <2>1, IdleIsACall DEF Evaluating
<1>4. ContractNext
  BY <1>1, <1>3, SameTogether DEF Contract!End, Contract!Next, ContractNext
<1> QED BY <1>2, <1>4 DEF Good

LEMMA CloseGood ==
  ASSUME IInv, NEW t \in Threads, Close(t) \/ CloseReturns(t)
  PROVE  Good
<1>1. PICK step \in Calls :
        /\ call' = [call EXCEPT ![t] = step]
        /\ step.op # "executing"
        /\ step.op = "closing" => step.left = DOMAIN engines
  <2>1. CASE Close(t)
    <3> DEFINE step == [op |-> "closing", left |-> DOMAIN engines]
    <3>1. step \in Calls /\ step.op # "executing" /\ step.left = DOMAIN engines
      BY DEF Calls
    <3>2. call' = [call EXCEPT ![t] = step]
      BY <2>1 DEF Close, AllEngines
    <3> QED BY <3>1, <3>2
  <2>2. CASE CloseReturns(t)
    BY <2>2, IdleIsACall DEF CloseReturns
  <2> QED BY <2>1, <2>2
<1>2. /\ UNCHANGED <<cfg, hash, engines, crashed>>
      /\ fresh' \in [Threads -> SUBSET Rules]
      /\ \A u \in Threads \ {t} : fresh'[u] = fresh[u]
      /\ call[t].op # "executing"
  BY IdleIsACall DEF Close, CloseReturns, IInv, TypeOK
<1>3. IInv'
  BY <1>1, <1>2, CallStep
<1>4. UNCHANGED Evaluating
  <2>1. call'[t] = step /\ \A u \in Threads \ {t} : call'[u] = call[u]
    BY <1>1 DEF IInv
  <2>2. ASSUME NEW u \in Threads
        PROVE  /\ call'[u].op = "executing" <=> call[u].op = "executing"
               /\ call[u].op = "executing" => call'[u] = call[u]
    BY <1>1, <1>2, <2>1
  <2> QED BY <2>2 DEF Evaluating
<1> QED BY <1>2, <1>3, <1>4, SameTogether DEF Contract!vars, ContractNext, Good

LEMMA HashMissesGood ==
  ASSUME IInv, NEW t \in Threads, NEW r \in Rules, HashMisses(t, r)
  PROVE  Good
<1>1. /\ hash[r] \notin DOMAIN engines /\ crashed' = TRUE
      /\ UNCHANGED <<cfg, hash, engines, call, fresh>>
  BY DEF HashMisses
<1>2. DOMAIN engines = 1..PartitionOf(cfg)
  BY DEF IInv, TypeOK
<1>3. HashOK'
  <2>1. cfg.hashFunc # "nil"
    BY <1>1, <1>2 DEF IInv, HashOK, HashInRange
  <2> QED BY <1>1, <2>1 DEF HashOK, HashInRange, DefaultHashFindsEngine
<1>4. TypeOK'
  BY <1>1 DEF IInv, TypeOK, PartitionOf, MaxInt
<1>5. EnginesOK'
  BY <1>1, SameEngines DEF IInv
<1>6. ClosedEnginesAreEmpty' /\ (call \in [Threads -> Calls])'
  BY <1>1 DEF IInv, ClosedEnginesAreEmpty, Calls
<1>7. ContractNext
  BY <1>1, SameTogether, SameEvaluating DEF Contract!vars, ContractNext
<1> QED BY <1>3, <1>4, <1>5, <1>6, <1>7 DEF Good, IInv

LEMMA StutterGood ==
  ASSUME IInv, UNCHANGED vars
  PROVE  Good
<1>1. UNCHANGED <<cfg, hash, engines, call, fresh, crashed>>
  BY DEF vars
<1>2. TypeOK'
  BY <1>1 DEF IInv, TypeOK, PartitionOf, MaxInt
<1>3. EnginesOK'
  BY <1>1, SameEngines DEF IInv
<1>4. ClosedEnginesAreEmpty' /\ (call \in [Threads -> Calls])'
  BY <1>1 DEF IInv, ClosedEnginesAreEmpty, Calls
<1>5. HashOK'
  BY <1>1 DEF IInv, HashOK, HashInRange, DefaultHashFindsEngine, PartitionOf, MaxInt
<1>6. ContractNext
  BY <1>1, SameTogether, SameEvaluating DEF Contract!vars, ContractNext
<1> QED BY <1>2, <1>3, <1>4, <1>5, <1>6 DEF Good, IInv

--------------------------------------------------------------------------------
(* The theorems.                                                           *)

LEMMA InitIInv == Init => IInv
<1> SUFFICES ASSUME Init PROVE IInv
  OBVIOUS
<1> DEFINE new == [libraries |-> <<>>, cached |-> {}, pending |-> {}, cleared |-> FALSE]
<1>1. /\ DOMAIN engines = 1..PartitionOf(cfg)
      /\ engines = [e \in DOMAIN engines |-> new]
  BY DEF Init, Numbers
<1>2. \A e : EngineOK(new, e)
  <2>1. <<>> \in [{} -> WellFormed] /\ DOMAIN <<>> = {}
    OBVIOUS
  <2>2. Fits({})
    BY NothingFits DEF Init
  <2> QED BY <2>1, <2>2 DEF EngineOK
<1> HIDE DEF new
<1>3. EnginesOK
  BY <1>1, <1>2 DEF EnginesOK
<1>4. call \in [Threads -> Calls] /\ \A t \in Threads : call[t].op # "closing"
  BY IdleIsACall DEF Init
<1>5. /\ hash \in [Rules -> 0..PartitionOf(cfg)]
      /\ HashInRange
  <2>1. PartitionOf(cfg) \in Nat /\ PartitionOf(cfg) > 0
    BY SizeProperties DEF Init
  <2>2. CASE cfg.hashFunc = "nil"
    <3>1. PICK digest \in [Rules -> 0..MaxDigest] :
            hash = [r \in Rules |-> HashStringToRange(digest[r], 1, PartitionOf(cfg))]
      BY <2>2 DEF Init, HashFunctions
    <3>2. ASSUME NEW r \in Rules PROVE hash[r] \in 1..PartitionOf(cfg)
      <4>1. digest[r] \in Nat
        BY PartitionAssumption
      <4> QED BY <2>1, <3>1, <4>1, HashStringToRangeInBounds
    <3>3. 1..PartitionOf(cfg) \subseteq 0..PartitionOf(cfg)
      BY <2>1
    <3>4. hash = [r \in Rules |-> hash[r]]
      BY <3>1
    <3> QED BY <3>2, <3>3, <3>4 DEF HashInRange
  <2>3. CASE cfg.hashFunc # "nil"
    BY <2>3 DEF Init, HashFunctions, HashInRange
  <2> QED BY <2>2, <2>3
<1>6. HashOK /\ ClosedEnginesAreEmpty
  BY <1>4, <1>5 DEF Init, HashOK, DefaultHashFindsEngine, ClosedEnginesAreEmpty
<1>7. TypeOK
  BY <1>1, <1>3, <1>5, TypeFromParts DEF Init
<1> QED BY <1>3, <1>4, <1>6, <1>7 DEF IInv

LEMMA NextGood == IInv /\ [Next]_vars => Good
<1> SUFFICES ASSUME IInv, [Next]_vars PROVE Good
  OBVIOUS
<1>1. CASE \E t \in Threads, e \in DOMAIN engines, r \in Rules :
             \/ \E st \in WellFormed : AddRule(t, r, st, e) \/ BuildRule(t, r, st, e)
             \/ ContainsRule(t, r, e) \/ Execute(t, r, e)
  BY <1>1, AddRuleGood, BuildRuleGood, ExpireGood, ExecuteGood DEF ContainsRule, Routed
<1>2. CASE \E t \in Threads : Return(t) \/ Close(t) \/ CloseReturns(t)
  BY <1>2, ReturnGood, CloseGood
<1>3. CASE \E t \in Threads, e \in DOMAIN engines : CloseOne(t, e)
  BY <1>3, CloseOneGood
<1>4. CASE \E t \in Threads, r \in Rules : HashMisses(t, r)
  BY <1>4, HashMissesGood
<1>5. CASE \E e \in DOMAIN engines, r \in Rules : Sweep(e, r) \/ RemoveRule(e, r)
  BY <1>5, ExpireGood, RemoveRuleGood DEF Sweep
<1>6. CASE UNCHANGED vars
  BY <1>6, StutterGood
<1> QED BY <1>1, <1>2, <1>3, <1>4, <1>5, <1>6 DEF Next

\* The invariant holds in every behaviour.
THEOREM Invariance == Spec => []IInv
<1>1. IInv /\ [Next]_vars => IInv'
  BY NextGood DEF Good
<1> QED BY <1>1, InitIInv, PTL DEF Spec

\* The partition engine's state keeps its shape.
THEOREM TypeCorrectness == Spec => []TypeOK
<1>1. IInv => TypeOK
  BY DEF IInv
<1> QED BY <1>1, Invariance, PTL

\* Whatever the number of processors, the configuration and the digests, an engine made
\* without a hash function never calls a nil engine: HashStringToRange answers with one
\* of the numbers 1..partition (partition_engine.go:29-34, 45; hash.go:10-18).
THEOREM DefaultHashIsSafe == Spec => []DefaultHashFindsEngine
<1>1. IInv => DefaultHashFindsEngine
  BY DEF IInv, HashOK
<1> QED BY <1>1, Invariance, PTL

\* The caches of n engines with b rules or fewer each hold n * b rules or fewer.
LEMMA SumBound ==
  ASSUME NEW n \in Nat, NEW b \in Nat, NEW F,
         \A e \in 1..n : IsFiniteSet(F[e]) /\ Cardinality(F[e]) <= b,
         NEW ps, \A p \in ps : p = <<p[1], p[2]>> /\ p[1] \in 1..n /\ p[2] \in F[p[1]]
  PROVE  IsFiniteSet(ps) /\ Cardinality(ps) <= n * b
<1> DEFINE Upto(m) == {p \in ps : p[1] <= m}
           Bounded(m) == IsFiniteSet(Upto(m)) /\ Cardinality(Upto(m)) <= m * b
           bad == {m \in 0..n : ~Bounded(m)}
<1>1. Bounded(0)
  <2>1. Upto(0) = {}
    OBVIOUS
  <2>2. 0 * b = 0
    OBVIOUS
  <2>3. IsFiniteSet(Upto(0)) /\ Cardinality(Upto(0)) = 0
    BY <2>1, FS_EmptySet
  <2> HIDE DEF Upto
  <2> QED BY <2>2, <2>3
<1>2. ASSUME NEW m \in Nat, m + 1 <= n, Bounded(m) PROVE Bounded(m + 1)
  <2> DEFINE own == {m + 1} \X F[m + 1]
             some == Upto(m + 1) \ Upto(m)
  <2>1. Upto(m + 1) = Upto(m) \cup some /\ Upto(m) \cap some = {}
    OBVIOUS
  <2>2. some \in SUBSET own
    <3> SUFFICES ASSUME NEW p \in some PROVE p \in own
      OBVIOUS
    <3>1. p \in ps /\ p[1] \in 1..n /\ p[1] <= m + 1 /\ ~(p[1] <= m)
      OBVIOUS
    <3>2. p[1] = m + 1
      BY <3>1
    <3> QED BY <3>1, <3>2
  <2>3. IsFiniteSet(F[m + 1]) /\ Cardinality(F[m + 1]) <= b
    <3>1. m + 1 \in 1..n
      BY <1>2
    <3> QED BY <3>1
  <2> HIDE DEF Upto, some
  <2>4. IsFiniteSet({m + 1}) /\ Cardinality({m + 1}) = 1
    BY FS_Singleton
  <2>5. IsFiniteSet(own) /\ Cardinality(own) = Cardinality({m + 1}) * Cardinality(F[m + 1])
    BY <2>3, <2>4, FS_Product
  <2> HIDE DEF own
  <2>6. IsFiniteSet(some) /\ Cardinality(some) <= Cardinality(own)
    BY <2>2, <2>5, FS_Subset
  <2>7. /\ IsFiniteSet(Upto(m) \cup some)
        /\ Cardinality(Upto(m) \cup some) = Cardinality(Upto(m)) + Cardinality(some) - Cardinality(Upto(m) \cap some)
    BY <1>2, <2>6, FS_Union
  <2>8. Cardinality(Upto(m) \cap some) = 0
    BY <2>1, FS_EmptySet
  <2>9. /\ Cardinality(Upto(m)) \in Nat /\ Cardinality(some) \in Nat
        /\ Cardinality(own) \in Nat /\ Cardinality(F[m + 1]) \in Nat
    BY <1>2, <2>3, <2>5, <2>6, FS_CardinalityType
  <2>10. Cardinality(some) <= b
    BY <2>3, <2>4, <2>5, <2>6, <2>9
  <2>11. (m + 1) * b = m * b + b /\ m * b \in Nat
    OBVIOUS
  <2>12. IsFiniteSet(Upto(m + 1)) /\ Cardinality(Upto(m + 1)) = Cardinality(Upto(m)) + Cardinality(some)
    <3> DEFINE both == Upto(m) \cup some
    <3>1. both = Upto(m + 1)
      BY <2>1
    <3>2. IsFiniteSet(both) /\ Cardinality(both) = Cardinality(Upto(m)) + Cardinality(some)
      BY <2>7, <2>8, <2>9
    <3> HIDE DEF both
    <3> QED BY ONLY <3>1, <3>2
  <2> QED BY <1>2, <2>9, <2>10, <2>11, <2>12
<1> HIDE DEF Bounded
<1>3. bad = {}
  <2> SUFFICES ASSUME bad # {} PROVE FALSE
    OBVIOUS
  <2>1. bad \in SUBSET Nat
    OBVIOUS
  <2>2. PICK m \in bad : \A l \in bad : m <= l
    BY <2>1, LeastNatural
  <2>3. m \in Nat /\ m # 0 /\ m <= n /\ ~Bounded(m)
    BY <1>1, <2>2
  <2>4. m - 1 \in Nat /\ m - 1 + 1 = m /\ m - 1 \in 0..n /\ ~(m <= m - 1)
    BY <2>3
  <2>5. Bounded(m - 1)
    BY <2>2, <2>4
  <2> QED BY <1>2, <2>3, <2>4, <2>5
<1>4. Bounded(n)
  BY <1>3
<1>5. Upto(n) = ps
  OBVIOUS
<1> HIDE DEF Upto
<1> QED BY <1>4, <1>5 DEF Bounded

\* How far the engines together keep the Size of the configuration, for any number of
\* them, any Size and any hash: 2Q always, LRU and random when Size gives each engine a
\* share, LFU up to one rule for each engine (partition_engine.go:36-46).
THEOREM SizeIsDivided == Spec => []SizeKept
<1>1. ASSUME IInv PROVE SizeKept
  <2> DEFINE n == PartitionOf(cfg)
             ps == {p \in (DOMAIN engines) \X Rules : p[2] \in engines[p[1]].cached}
             F == [e \in 1..n |-> engines[e].cached]
  <2>1. /\ SizeE \in Nat /\ Share \in Nat /\ cfg.Size \in Nat
        /\ n \in Nat /\ n > 0 /\ n * SizeE <= cfg.Size
    BY <1>1, SizeProperties DEF IInv, TypeOK
  <2>2. DOMAIN engines = 1..n
    BY <1>1 DEF IInv, TypeOK
  <2>3. ASSUME Limited PROVE Cardinality(ps) \in Nat /\ Cardinality(ps) <= n * Share
    <3>1. \A e \in 1..n : IsFiniteSet(F[e]) /\ Cardinality(F[e]) <= Share
      BY <1>1, <2>2, <2>3 DEF IInv, EnginesOK, EngineOK, Fits
    <3>2. \A p \in ps : p = <<p[1], p[2]>> /\ p[1] \in 1..n /\ p[2] \in F[p[1]]
      <4> TAKE p \in ps
      <4>1. p \in (DOMAIN engines) \X Rules /\ p[2] \in engines[p[1]].cached
        OBVIOUS
      <4>2. p = <<p[1], p[2]>> /\ p[1] \in 1..n /\ p[2] \in engines[p[1]].cached
        <5>1. p = <<p[1], p[2]>> /\ p[1] \in DOMAIN engines
          BY ONLY <4>1
        <5>2. p[1] \in 1..n
          BY ONLY <2>2, <5>1
        <5> QED BY <4>1, <5>1, <5>2
      <4>3. F[p[1]] = engines[p[1]].cached
        BY <4>2
      <4> QED BY <4>2, <4>3
    <3> HIDE DEF n, ps, F
    <3>3. IsFiniteSet(ps) /\ Cardinality(ps) <= n * Share
      BY <2>1, <3>1, <3>2, SumBound
    <3> QED BY <3>3, FS_CardinalityType
  <2> HIDE DEF ps, F
  <2>4. ASSUME Limited, cfg.Type # "lfu" PROVE Cardinality(ps) <= cfg.Size
    <3>1. Share = SizeE
      BY <2>4 DEF Share
    <3>2. Cardinality(ps) \in Nat /\ Cardinality(ps) <= n * SizeE /\ n * SizeE \in Nat
      BY <2>1, <2>3, <2>4, <3>1
    <3> HIDE DEF n
    <3> QED BY ONLY <2>1, <3>2
  <2>5. cfg.Type = "twoq" => Cardinality(ps) <= cfg.Size
    BY <2>4 DEF Limited
  <2>6. cfg.Type = "lfu" => Cardinality(ps) <= MaxInt(cfg.Size, n)
    <3> SUFFICES ASSUME cfg.Type = "lfu" PROVE Cardinality(ps) <= MaxInt(cfg.Size, n)
      OBVIOUS
    <3>1. Cardinality(ps) \in Nat /\ Cardinality(ps) <= n * Share
      BY <2>3 DEF Limited
    <3>2. Share = MaxInt(SizeE, 1)
      BY DEF Share
    <3> HIDE DEF n
    <3>3. Share = SizeE \/ Share = 1
      BY <2>1, <3>2 DEF MaxInt
    <3>4. Cardinality(ps) <= cfg.Size \/ Cardinality(ps) <= n
      <4>1. n * 1 = n /\ n * SizeE \in Nat
        BY <2>1
      <4> QED BY <2>1, <3>1, <3>3, <4>1
    <3> QED BY <2>1, <3>1, <3>4 DEF MaxInt
  <2>7. cfg.Type \in {"lru", "random"} /\ cfg.Size >= n => Cardinality(ps) <= cfg.Size
    <3>1. \A s, m \in Nat : m > 0 /\ s >= m => s \div m > 0
      OBVIOUS
    <3>2. cfg.Size >= n => SizeE > 0
      BY <2>1, <3>1 DEF SizeE
    <3> QED BY <2>4, <3>2 DEF Limited
  <2> QED BY <2>5, <2>6, <2>7 DEF SizeKept, ps
<1>2. IInv => SizeKept
  BY <1>1
<1> QED BY <1>2, Invariance, PTL

\* Close leaves no older rule in an engine it has been to, however many threads add
\* rules and close meanwhile (partition_engine.go:86-92).
THEOREM CloseIsThorough == Spec => []ClosedEnginesAreEmpty
<1>1. IInv => ClosedEnginesAreEmpty
  BY DEF IInv
<1> QED BY <1>1, Invariance, PTL

\* A partition engine is an engine: a call evaluates the library of its rule
\* undisturbed, for any number of partitions, threads and rules, and any hash.
THEOREM EngineRefinement == Spec => ImplementsEngineContract
<1>1. Init => Contract!Init
  <2> SUFFICES ASSUME Init PROVE Contract!Init
    OBVIOUS
  <2>1. \A e \in DOMAIN engines : engines[e].libraries = <<>>
    BY DEF Init
  <2>2. Together = <<>>
    <3>1. \A r \in Rules : {e \in DOMAIN engines : r \in DOMAIN engines[e].libraries} = {}
      BY <2>1
    <3> QED BY <3>1 DEF Together
  <2>3. Evaluating = [t \in Threads |-> {}]
    BY DEF Init, Evaluating, Idle
  <2> QED BY <2>2, <2>3 DEF Contract!Init
<1>2. IInv /\ [Next]_vars => [Contract!Next]_(Contract!vars)
  BY NextGood DEF Good, ContractNext
<1> QED BY <1>1, <1>2, Invariance, PTL DEF Spec, ImplementsEngineContract, Contract!Spec
================================================================================
