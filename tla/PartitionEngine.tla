---------------------------- MODULE PartitionEngine ----------------------------
(***************************************************************************)
(* engine/partition_engine.go: one single engine per partition, a hash     *)
(* that sends a rule to its engine, and the Size of the configuration      *)
(* divided among them.  The partition engine has no lock of its own: calls *)
(* for different engines overlap freely, and Close closes one engine after *)
(* the other while calls go on.                                            *)
(*                                                                         *)
(* Of a single engine there is what the others can see: its libraries, the *)
(* rules its cache holds, and the rules a removal is under way for.  Its   *)
(* writers exclude its readers, and no step of a write is visible to them: *)
(* a write is one action.  What goes on inside is SingleEngine; which rules *)
(* a cache may drop is what the modules of the five caches show.           *)
(***************************************************************************)
EXTENDS CacheCommon, FiniteSets

CONSTANTS
  Threads,        \* goroutines that call the engine
  Rules,          \* rule names
  WellFormed,     \* the texts of a rule that the rule builder accepts
  NumCPU,         \* runtime.NumCPU()
  Arguments,      \* those of NewPartitionEngine to look at: cfg, and whether a hash
                  \* function is given
  MaxDigest       \* bound: the largest SHA-256 of a rule

Types == {"lru", "lfu", "random", "twoq", "arc"}

ASSUME PartitionAssumption ==
  /\ NumCPU \in Nat \ {0}
  /\ Arguments \subseteq [Type : Types, Size : Nat, Partition : Nat, hashFunc : {"nil", "given"}]
  /\ MaxDigest \in Nat

VARIABLES
  cfg,            \* the arguments of NewPartitionEngine
  hash,           \* the hash function; 0 stands for a number that no engine has
  engines,        \* from the number of an engine to the engine
  call,           \* for each thread, the call it is in
  fresh,          \* for each thread, the rules added since it began the Close it is in
  crashed         \* the nil engine of a hash that missed has been called

vars == <<cfg, hash, engines, call, fresh, crashed>>

MaxInt(a, b) == IF a > b THEN a ELSE b
PartitionOf(cf) == MaxInt(NumCPU, cf.Partition)

\* Mutant: each engine gets the whole Size.
SizeUndivided == cfg.Size

\* sizeE: the limit of each engine's cache, or 0 for none.
SizeE == cfg.Size \div PartitionOf(cfg)

\* Mutant: engines[i], not engines[i+1].
NumbersFromZero == 0..PartitionOf(cfg) - 1

Numbers == 1..PartitionOf(cfg)

Idle == [op |-> "idle"]

\* Mutant: min is not added.
HashFromZero(d, min, max) == d % (max - min + 1)

HashStringToRange(d, min, max) == (d % (max - min + 1)) + min

\* The default hash, and those a caller may give.
HashFunctions ==
  IF cfg.hashFunc = "nil"
  THEN {[r \in Rules |-> HashStringToRange(digest[r], 1, PartitionOf(cfg))] :
          digest \in [Rules -> 0..MaxDigest]}
  ELSE [Rules -> 0..PartitionOf(cfg)]

Init ==
  /\ cfg \in Arguments
  /\ hash \in HashFunctions
  /\ engines = [e \in Numbers |->
       [libraries |-> <<>>, cached |-> {}, pending |-> {}, cleared |-> FALSE]]
  /\ call = [t \in Threads |-> Idle]
  /\ fresh = [t \in Threads |-> {}]
  /\ crashed = FALSE

--------------------------------------------------------------------------------

\* A call for rule r that thread t may begin, in engine e.
Routed(t, r, e) == ~crashed /\ call[t] = Idle /\ e = hash[r] /\ e \in DOMAIN engines

\* s.mu of engine e is free for a writer.
Writable(e) == \A t \in Threads : call[t].op = "executing" => hash[call[t].rule] # e

\* The sets of rules a cache may drop, and tell the engine of, when rule r enters.
LRUVictims(E) ==
  IF SizeE # 0 /\ Cardinality(E.cached) >= SizeE THEN {{victim} : victim \in E.cached} ELSE {{}}
LFUVictims(E) ==
  IF E.cached # {} /\ Cardinality(E.cached) >= SizeE THEN {{victim} : victim \in E.cached} ELSE {{}}
RandomVictims(E, r) ==
  IF SizeE > 0 /\ Cardinality(E.cached) + 1 > SizeE THEN {{victim} : victim \in E.cached \cup {r}}
                                                  ELSE {{}}

\* 2Q and ARC may evict what is left over of a rule that has left the cache.
Neighbours(r) == {x \in Rules : hash[x] = hash[r]}
AtMost(n, rs) == {some \in SUBSET rs : Cardinality(some) <= n}
TwoQVictims(E, r) ==
  {told \in AtMost(1, Neighbours(r)) : Cardinality((E.cached \cup {r}) \ told) <= SizeE}
ARCVictims(r) == AtMost(2, Neighbours(r))

Victims(E, r) ==
  CASE cfg.Type = "lru" -> LRUVictims(E)
    [] cfg.Type = "lfu" -> LFUVictims(E)
    [] cfg.Type = "random" -> RandomVictims(E, r)
    [] cfg.Type = "twoq" -> TwoQVictims(E, r)
    [] cfg.Type = "arc" -> ARCVictims(r)

\* ARC's replace drops what is left over of r itself before r enters.
Kept(E, r, told) ==
  {(E.cached \cup {r}) \ told} \cup IF cfg.Type = "arc" THEN {(E.cached \ told) \cup {r}} ELSE {}

\* Set panics in replace of ARC, and on the nil map that Clear of LFU leaves: the caller
\* recovers, the locks are released, the rule is not in the cache.
Panics(E, r) == r \notin E.cached /\ (cfg.Type = "arc" \/ E.cleared)

Entered(E, r) ==
  UNION {{[E EXCEPT !.cached = kept, !.pending = @ \cup told] : kept \in Kept(E, r, told)} :
           told \in Victims(E, r)}

\* What s.localCache.Set makes of the engine.  An update drops nothing.
Cached(E, r) ==
  IF r \in E.cached THEN {E}
  ELSE (IF E.cleared THEN {} ELSE Entered(E, r)) \cup (IF Panics(E, r) THEN {E} ELSE {})

Installed(E, r, st) == [E EXCEPT !.libraries = Put(@, r, st)]

Write(t, r, e, E) ==
  /\ Writable(e)
  /\ \E after \in Cached(E, r) : engines' = [engines EXCEPT ![e] = after]
  /\ UNCHANGED <<cfg, hash, call, crashed>>

\* Rule r is newer than every Close under way.
Refresh(r) ==
  fresh' = [u \in Threads |-> IF call[u].op = "closing" THEN fresh[u] \cup {r} ELSE fresh[u]]

AddRule(t, r, st, e) ==
  /\ Routed(t, r, e)
  /\ Write(t, r, e, Installed(engines[e], r, st))
  /\ Refresh(r)

BuildRule(t, r, st, e) ==
  /\ Routed(t, r, e)
  /\ \/ /\ r \in DOMAIN engines[e].libraries
        /\ Write(t, r, e, engines[e])
        /\ UNCHANGED fresh
     \/ /\ r \notin DOMAIN engines[e].libraries
        /\ Write(t, r, e, Installed(engines[e], r, st))
        /\ Refresh(r)

\* The cache of engine e drops an expired rule, and tells of it.
Expire(e, r) ==
  /\ engines' = [engines EXCEPT ![e].cached = @ \ {r}, ![e].pending = @ \cup {r}]
  /\ UNCHANGED <<cfg, hash, call, fresh, crashed>>

ContainsRule(t, r, e) == Routed(t, r, e) /\ r \in engines[e].cached /\ Expire(e, r)

\* A sweep of 2Q or ARC also tells of what is left over of a rule that has gone.
Sweep(e, r) ==
  /\ hash[r] = e
  /\ r \in engines[e].cached \/ cfg.Type \in {"twoq", "arc"}
  /\ Expire(e, r)

\* Mutant: the removal does not wait for the calls that evaluate.
RemoveRuleAtOnce(e, r) ==
  /\ r \in engines[e].pending
  /\ \E left \in {engines[e].pending, engines[e].pending \ {r}} :
       engines' = [engines EXCEPT ![e].libraries = Drop(@, {r}), ![e].pending = left]
  /\ UNCHANGED <<cfg, hash, call, fresh, crashed>>

\* One of the removals under way for the rule, perhaps not the last.
RemoveRule(e, r) ==
  /\ r \in engines[e].pending
  /\ Writable(e)
  /\ \E left \in {engines[e].pending, engines[e].pending \ {r}} :
       engines' = [engines EXCEPT ![e].libraries = Drop(@, {r}), ![e].pending = left]
  /\ UNCHANGED <<cfg, hash, call, fresh, crashed>>

\* Execute and FetchMatching of a rule that is there.
Execute(t, r, e) ==
  /\ Routed(t, r, e)
  /\ r \in DOMAIN engines[e].libraries
  /\ call' = [call EXCEPT ![t] =
       [op |-> "executing", rule |-> r, library |-> engines[e].libraries[r]]]
  /\ UNCHANGED <<cfg, hash, engines, fresh, crashed>>

Return(t) ==
  /\ call[t].op = "executing"
  /\ call' = [call EXCEPT ![t] = Idle]
  /\ UNCHANGED <<cfg, hash, engines, fresh, crashed>>

\* Any call: s.engines[s.hash(rule)] is nil, and its mutex is read.
HashMisses(t, r) ==
  /\ ~crashed /\ call[t] = Idle
  /\ hash[r] \notin DOMAIN engines
  /\ crashed' = TRUE
  /\ UNCHANGED <<cfg, hash, engines, call, fresh>>

--------------------------------------------------------------------------------

\* Mutant: the first is left out.
EnginesButFirst == DOMAIN engines \ {1}

AllEngines == DOMAIN engines

Close(t) ==
  /\ ~crashed /\ call[t] = Idle
  /\ call' = [call EXCEPT ![t] = [op |-> "closing", left |-> AllEngines]]
  /\ UNCHANGED <<cfg, hash, engines, fresh, crashed>>

\* The engines come in any order: s.engines is a map.  Clear of LFU leaves nil maps.
CloseOne(t, e) ==
  /\ call[t].op = "closing" /\ e \in call[t].left
  /\ Writable(e)
  /\ engines' = [engines EXCEPT ![e].libraries = <<>>, ![e].cached = {},
                               ![e].cleared = (cfg.Type = "lfu")]
  /\ call' = [call EXCEPT ![t].left = @ \ {e}]
  /\ UNCHANGED <<cfg, hash, fresh, crashed>>

CloseReturns(t) ==
  /\ call[t].op = "closing" /\ call[t].left = {}
  /\ call' = [call EXCEPT ![t] = Idle]
  /\ fresh' = [fresh EXCEPT ![t] = {}]
  /\ UNCHANGED <<cfg, hash, engines, crashed>>

--------------------------------------------------------------------------------

Next ==
  \/ \E t \in Threads, e \in DOMAIN engines, r \in Rules :
       \/ \E st \in WellFormed : AddRule(t, r, st, e) \/ BuildRule(t, r, st, e)
       \/ ContainsRule(t, r, e) \/ Execute(t, r, e)
  \/ \E t \in Threads : Return(t) \/ Close(t) \/ CloseReturns(t)
  \/ \E t \in Threads, e \in DOMAIN engines : CloseOne(t, e)
  \/ \E t \in Threads, r \in Rules : HashMisses(t, r)
  \/ \E e \in DOMAIN engines, r \in Rules : Sweep(e, r) \/ RemoveRule(e, r)

Spec == Init /\ [][Next]_vars

--------------------------------------------------------------------------------
(* Properties.                                                             *)

\* Every variable keeps the shape its Go counterpart has.
TypeOK ==
  /\ cfg \in Arguments
  /\ hash \in [Rules -> 0..PartitionOf(cfg)]
  /\ DOMAIN engines = 1..PartitionOf(cfg)
  /\ \A e \in DOMAIN engines :
       LET E == engines[e]
       IN /\ DOMAIN E.libraries \subseteq Rules
          /\ E.libraries \in [DOMAIN E.libraries -> WellFormed]
          /\ E.cached \subseteq Rules /\ E.pending \subseteq Rules /\ E.cleared \in BOOLEAN
  /\ fresh \in [Threads -> SUBSET Rules]
  /\ crashed \in BOOLEAN

\* Without a hash function of its own, a caller never meets a nil engine: the range of
\* HashStringToRange is that of the numbers the engines are stored under
\* (partition_engine.go:29-34, 45; hash.go:10-18).
DefaultHashFindsEngine == cfg.hashFunc = "nil" => ~crashed

\* How far dividing Size among the engines keeps it for all of them together, however
\* the hash spreads the rules: always with 2Q; with LRU and random when each engine gets
\* a share, and not at all below that; with LFU up to one rule for each engine.  ARC
\* exceeds even the share (partition_engine.go:36-46, arc.go:275-280).
SizeKept ==
  LET total == Cardinality({p \in (DOMAIN engines) \X Rules : p[2] \in engines[p[1]].cached})
  IN /\ cfg.Type = "twoq" => total <= cfg.Size
     /\ cfg.Type = "lfu" => total <= MaxInt(cfg.Size, PartitionOf(cfg))
     /\ cfg.Type \in {"lru", "random"} /\ cfg.Size >= PartitionOf(cfg) => total <= cfg.Size

\* An engine that Close has been to holds no rule but those added since Close began:
\* calls that run meanwhile hide no older rule from it (partition_engine.go:86-92).
ClosedEnginesAreEmpty ==
  \A t \in Threads : \A e \in DOMAIN engines :
    call[t].op = "closing" /\ e \notin call[t].left
      => DOMAIN engines[e].libraries \subseteq fresh[t]

\* The engines together are an engine: a call evaluates the library of its rule
\* undisturbed, whatever happens in the other partitions (partition_engine.go:51-69).
Together ==
  LET holding(r) == {e \in DOMAIN engines : r \in DOMAIN engines[e].libraries}
  IN [r \in {r \in Rules : holding(r) # {}} |->
        engines[CHOOSE e \in holding(r) : TRUE].libraries[r]]
Evaluating ==
  [t \in Threads |-> IF call[t].op = "executing"
                     THEN {[rule |-> call[t].rule, library |-> call[t].library]} ELSE {}]
Contract == INSTANCE EngineContract WITH libraries <- Together, evaluating <- Evaluating
ImplementsEngineContract == Contract!Spec
================================================================================
