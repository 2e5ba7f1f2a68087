# A verification development of grule-plus

grule-plus keeps compiled Grule rules in memory and evaluates facts against them. A
rule lives in two places: its compiled library in a map of the engine, and its name
in a cache that decides how long the rule is kept. The cache has a replacement
policy, time-to-live and, if it is asked to, a goroutine that sweeps expired
entries; the engine has a reader-writer lock, and goroutines that the cache's
eviction callback starts. What can go wrong is in the order of these steps, and in
the bookkeeping each policy does by hand. The modules here model that part of the
code; TLC checks them on small instances; what they state of safety, TLAPS proves for all sizes.

All paths are relative to the root of the repository, which the tables of
PROJECT.json call `src/`.

## 1. The system

| part | state | operations | talks to |
|---|---|---|---|
| `internal/cache/cache.go`, `common` | configuration | the interface `ICache`; the factory `New` | chooses one of five caches |
| `internal/cache/lru` | map, recency list, TTL, callback, stop channel | Set, Get, Delete, RemoveOldest, Clear, Close, StopCleanup, setters, cleaner goroutine | callback under its mutex |
| `internal/cache/lfu` | map, a list per frequency, `minFreq` | the same, without RemoveOldest | the same |
| `internal/cache/random` | map, slice of keys | the same, without Delete; draws a victim | the same |
| `internal/cache/twoq` | map, lists a1 and a2, ghost list b | Set, Get, Clear, Close, setters, cleaner | the same |
| `internal/cache/arc` | map, lists t1 and t2, ghost lists b1 and b2, target p | the same | the same |
| `engine/single_engine.go` | `knowledgeLibraries`, `localCache`, `mu` | AddRule, BuildRule, ContainsRule, Execute, FetchMatching, RemoveRule, Debug, Close | calls the cache under `mu`; the cache calls back, the callback starts a goroutine that takes `mu` |
| `engine/partition_engine.go` | a map from a number to a single engine, a hash function | forwards each call to one engine | one engine per partition |
| `internal/consistenthash` | sorted slice of hashes, map from hash to node, set of nodes | AddNode, RemoveNode, GetNode | used by nothing but its tests |
| `internal/utils`, `internal/logger` | none that matters | hash of a name, statistics, output | |
| `benchmark`, `examples` | none | use the engine | |

The hard behaviours, each of them in the list of hazards of PROJECT.json with its
line and the properties that would catch it:

- *The cleaner against the operations.* It takes the mutex between any two of them,
  reads the clock once, and removes elements from the list it is walking; Clear and
  Close leave behind what it does not expect.
- *The callback's goroutine against the engine.* It acts on a name, later.
- *Two structures for one set.* Map and list, map and slice, map and frequency
  lists, libraries and cache: every path has to change both.
- *Hand-kept values.* `minFreq`, ARC's `p`, the position of `prev`.
- *Boundaries.* Size 0, size reached, duration against default TTL, the end of the
  hash ring, two virtual nodes with one hash.
- *Locks.* A lock taken twice, a channel closed twice, a channel field set to nil
  while a goroutine selects on it.

What makes each part correct:

- *A cache*: its structures agree; the limit holds; a stale entry is never returned
  and goes in the end; every entry that leaves is reported, once; the victim is the
  one the policy names; nothing an operation does kills or starves the others.
- *The engine*: a library that is in use stays; a library that left the cache goes;
  a rule that the cache still has is executable; calls return.
- *The ring*: it depends on the nodes present and not on the history; every key has
  a node; a change of nodes moves no more keys than it must.

## 2. The modules

`CacheCommon` holds what the caches share: deadlines (`CappedDeadline` of LRU and LFU,
`PlainDeadline` of the others), expiry, the callback's events, and Go's `m[k] = e` and
`delete(m, k)` as functions with a changing domain. Time is a number of ticks, from 1;
expiration 0 is "never", as in the code.

Three abstract specifications stand between the components:

- `CacheContract`: one map, and for each call of `ICache` what it may do to the map,
  which callbacks it makes and what it answers. A full cache gives up exactly one entry
  for a new key, which one is open; a stale entry may be removed by a Get, by the
  cleaner, or stay, but is never returned. `calls` holds the callbacks of the last step
  and `answer` the value of the last Get, so that the refinement compares what a caller
  sees and not only the map. LRU, LFU and random keep it, each with one rule for the
  deadline and one answer to an expired Get: `Capped` says that the default TTL cuts a
  longer duration (LRU and LFU; in random a duration wins, as docs/configuration.md:76
  has it), `ExpiredAnswer` that Get finds nothing, or, in LFU, nil with true. What the
  contract has of the two is what the code does; where a document differs is section 6.
- `LossyCache`: the weaker promise that all five keep and the engine is built on, with
  either rule for the deadline (`Cappings`). Get
  answers what was set last, unless it has expired; an entry may be lost at any moment;
  every loss is told. 2Q and ARC need the difference: they evict below the limit, lose
  fresh entries in a sweep, and tell of keys that are gone already.
- `EngineContract`: what a caller of `IGruleEngine` is promised, whatever the number of
  caches and locks. A call evaluates the library its rule had when it began, and until
  it ends that library is neither replaced nor removed.

`LRUCache` is `lru.go`. An exported operation runs under `c.mu` from first to last line
and is one action. The cleaner is `waiting` in its select, `woken` by a tick (and not
yet holding the mutex), `sweeping` with the mutex held, with `cursor` the position of
`ele`. `allocated` is FALSE while `c.ll` and `c.entries` are nil. A panic sets `crashed`,
after which nothing happens. Of the calls outside the mutex, StopCleanup may come at
any moment; RemoveOldest is assumed alone, its only caller in the repository being Set.

`LRURecency` composes LRUCache with a history variable that records, without looking
at the list, which of two keys was used last. Recency is then a statement about uses
and not about the list the code keeps to implement it.

`LFUCache` is `lfu.go`: `freqList` maps a frequency to its keys, `minFreq` is changed at
the very places where the code changes it. `LFUPolicy` counts uses beside it.

`RandomCache` is `random.go`. Its Close locks the mutex and then calls Clear, which
locks it again: in the model Close takes the mutex and no step of it follows. The
cleaner goes from `looping` to its select, where it evaluates `c.stopChan`; if the field
is nil by then it waits on nil (`blind`), from where only ticks move it.

`GhostCaches` is `twoq.go` and `arc.go`, with the policy chosen in Init: both have a list
of keys used once, one of keys used again, ghost lists and the same cleaner, and both
test `list.Remove(e) != nil`, which is true for an element of another list too. So the
branch "already in the second list" never runs: every hit pushes one more element
there, and only an eviction takes one off. The model keeps these left-over elements: an
element whose entry has left the map has that entry in `old`, and it is evicted, swept
and counted as the code does it, also after its key has been set again. `crashed` says
which call met an empty list (`replace`, `evict`) or that the unlocked Clear met the
cleaner (`race`). Close is two actions: `Stop` closes the channel and sets the field to
nil before the mutex is taken, `Close` does the rest under it, and the cleaner may tick
in between. SetEvictedFunc may set nil, and then nobody is told of what is lost.

`SingleEngine` is `single_engine.go` over `LossyCache`, so that what it shows holds with
each of the five caches. A call is cut where others can see it: it claims `mu` for
writing, is alone once the readers have left, changes the libraries, calls the cache,
returns. A caller that waits for a writer to leave counts as idle. The cache has its own
mutex: each call takes it and lets it go within one step (`CacheFree`), and the cleaner
keeps it from a tick (`CleanerLocks`) to the end of its sweep (`Sweep`), callbacks
included. `cleaner` is "off" where CleanupInterval is 0. Set may also panic in the cache
(`CacheSetPanics`: LFU after Clear, ARC in replace); the deferred unlocks run, a caller
may recover, and the library it had installed is then in `orphans`.
`pending` counts the callback's goroutines per rule that have not run.
Compilation by Grule and evaluation are external: a statement is well formed or not,
and a call that evaluates holds on to the library it read until it returns. The module
is shown to implement `EngineContract`. `MCSingleEngine` restricts its cache to one LRU
place, for the run that needs a particular cache.

`PartitionEngine` is `partition_engine.go`: the engines NewPartitionEngine makes, the hash
that picks one of them for each call, and Close going from one to the next while other
calls run. Of a single engine it has what the others can see: libraries, the rules in
its cache, and those a removal is under way for; since a writer excludes all others, a
write is one action. What a new rule pushes out of its cache depends on the type in the
configuration: `LRUVictims` and the others say how each policy treats its limit, 2Q's
and ARC's left-over elements, size 0 and panics included. Without a function of the
caller's the hash is `HashStringToRange` (`hash.go`) of the rule's digest, where only
SHA-256 is left open: any number for any rule. A hash of the caller's is any function,
including one that answers out of range, which 0 stands for. `Together`, the union of
the engines' libraries, is shown to implement `EngineContract` again: a caller cannot tell the partitions from one engine.

`ConsistentHash` is the ring. The hash function is a variable that Init chooses among
all functions from the virtual nodes to the hashes (injective ones only, if
`CollisionFree`), and that no action changes. The sort is what it computes: the i-th
value is the hash that fewer than i of the values lie below (`SortedUp`). RemoveNode
keeps the positions `Kept(n)`, the second occurrence of a hash that the slice holds twice
among them, because the first has already deleted the map entry that the loop looks at.
`Positions` says what is left of a list at some of its positions (`Only`); the ring and the
sweep of GhostCaches share it.

| module | code | variables against fields |
|---|---|---|
| LRUCache | `lru.go:14-287` | entries, ll, defaultTTL, onEvicted: the fields; stopped: stopChan closed; cleaner, cursor, sweptAt: the goroutine's position, ele and now |
| LFUCache | `lfu.go:22-334` | entries, freqList, minFreq: the fields; the rest as above |
| RandomCache | `random.go:12-270` | entries, keys: the fields; holder: who keeps mu between two steps |
| GhostCaches | `twoq.go`, `arc.go` | c: entries; recent and frequent, a1 and a2 or t1 and t2; b1, b2 (2Q's b is b1); p; the callbacks of the last step. stopped: stopChan closed and nil; closed: c.closed |
| SingleEngine | `single_engine.go:25-230` | knowledgeLibraries: the field; writer, readers: mu; store ... answer, cleaner: localCache; job: where each caller stands; pending: goroutines; orphans: rules the cache panicked on (history) |
| PartitionEngine | `partition_engine.go:14-92`, `hash.go` | cfg: Type, Size, Partition, and whether a hash is given; hash, engines: the fields; call: where each caller stands; fresh: rules added since its Close began (history) |
| ConsistentHash | `consistenthash.go:11-110` | keys, nodeMap, nodes, hashFunc: the fields |

`MC...` modules add the symmetry sets; the values of the constants are in the .cfg files.
Operators introduced by "Mutant:" are plausible mistakes in the definition that
follows. No specification uses them: they are there to show that each property fails
when its piece of code is wrong, as PROJECT.json pairs them.

## 3. What the runs show

| run | specification, size | shows |
|---|---|---|
| `lru` | `FairRSpec`: 3 keys, 2 places, clock to 3 | map and list agree, a sweep leaves nothing stale, the victim is the least recently used, all of it is a behaviour of the contract with the default TTL as the longest life; stale entries go and a closed cache ends its cleaner |
| `lfu` | `PSpec`: 3 keys, 2 places, frequencies to 3 | lists and map agree, `minFreq` is right whenever it is read, the limit holds, the victim is the least often used and the oldest of a tie, and it is a behaviour of the contract, its answer to an expired Get named |
| `random` | `FairSpec`: 3 keys, 2 places | slice and map agree, the contract is kept, its limit included, and stale entries go |
| `ghosts` | `Spec`: 2Q and ARC, 3 keys, 2 places, second list to 2 | eviction and sweep reach every entry, 2Q keeps the limit, the eviction after an insertion finds a victim, a sweep leaves nothing stale, and both are behaviours of `LossyCache` |
| `engine` | `FairSpec`: 2 threads, 2 rules | the lock is used correctly, no library is forgotten but where the cache panicked, `EngineContract` is kept; calls return, and libraries of dropped rules go |
| `partition` | `Spec`: 2 threads, 3 rules of 2 texts, 2 or 3 engines, 5 cache types, the default hash and any other | the default hash finds an engine, the divided Size is kept as far as each type keeps it (always by 2Q; by LRU and random when each engine has a share; by LFU up to one rule an engine; not by ARC), a closed engine keeps no old rule, and the engines together keep `EngineContract` |
| `ring` | `Spec`: 3 nodes of 2 replicas, 8 hashes | without collisions the ring depends on its nodes only, every lookup answers, remapping is minimal |
| `lru_cleaner_survives`, `random_close`, `engine_race`, `ring_collision`, `ghost_early_eviction` | | each finds the violation of a sentence of the documentation: section 6 |

*Bounds.* Keys outnumber places by one everywhere, so that an insertion evicts, and two
places make the victim a choice that hits have reordered. LFU has frequencies to 3, so
that `minFreq` rises twice and is reset while a higher frequency is in use (`MaxFreq`: an
entry of that frequency is not used again). The clock starts at 1 and ends at 3
(`MaxNow`), the durations are 0 and 2 and the TTLs 0 and 1 in LRU, LFU and random: there
are entries that live 1, 2 or for ever, a default TTL below a duration, and entries that
expire before the end, which a Get, a sweep or an update may meet. The clock's end
leaves every other action enabled. `MaxElements` stops the hits of 2Q and ARC once the
second list has two elements: one key twice, or two keys, live or left over, is what
tells the cases apart; with the element a new key adds to the first list that is over
the limit. `FewOnceStopped` keeps the lists short once Close has begun: what the
operations do to them does not depend on it. `MaxPending` is 1: no call claims the lock, and no sweep drops a fresh rule, while a
removal waits. A late removal still meets a rule added again, because a call that has
claimed the lock already goes on while a sweep drops a stale rule. Two threads are enough for a reader next to a writer; the
removal goroutines and the sweep come on top. Two CPUs and the configured partitions 0
and 3 give two engines and three; Size 2 is a share for each of two and for none of three, Size 1 for none of two.
`MaxDigest` 2 lets the default hash reach every number of either. Eight
hashes for six virtual nodes leave gaps on either side of the ends and every order of
the nodes' arcs. What these sizes cannot show, unlimited caches (`MaxEntries = 0`) among
them, the proofs of section 5 do for the modules they cover.

*Symmetry* among keys and values (nodes, threads and rules) is used for safety only;
the runs with a liveness property do without.

The run `ghosts` is the largest, 0.8 million distinct states; `engine`, `partition` and it
take about two minutes each.

*Deadlock* is checked except where the system may stop: RandomCache's Close never
returns, a GhostCaches process may have died, and so may a PartitionEngine whose hash
has missed. LRU and LFU stutter after a crash (`Halted`). In `engine` it is the question of
the two mutexes: with a callback that takes `mu` itself, instead of leaving it to a
goroutine, TLC reports a call and the cleaner waiting for each other.

## 4. Fairness

- `LRUCache!Fairness` (of `LRURecency!FairRSpec`): weak fairness of the cleaner's next step. Its goroutine is always
  ready, and the only lock it waits for is released by every holder within one
  action. Strong fairness of `CleanerExits`: select picks at random among ready cases,
  so a closed stopChan is chosen sooner or later, although ticks keep coming.
- `RandomCache!FairSpec`: the same, and strong fairness of `CleanerLocks`, because other
  callers, and StopCleanup, may hold the mutex in between: sync.RWMutex hands over to a
  waiter that has starved.
- `SingleEngine!FairSpec`: weak fairness of what a call does once it has claimed the
  lock, of a removal that has claimed it, and of the cleaner, if there is one: its tick
  and its sweep (each of the five cleaners looks at every entry, so no stale one is
  missed). Strong fairness of `ClaimRemoval`, since other writers may keep coming, and of
  `UseCache`, since sweeps may: sync.Mutex is handed over in order of arrival once
  somebody starves. (With `MaxPending` at 1 the run has few writers come in between;
  what is stated is the specification's.) Nothing makes a caller call: only work under
  way is fair.

The liveness properties name what defeats them: a stop, a cleared list or a dead process
in LRU; Close and a stop in the random cache; in `ForgottenEventually` a cleaner that is
off, for a rule that has expired and that nobody asks for, and a cache that panicked.

## 5. What is proved

For every value of the constants, from the ASSUME of each module (bounds are naturals,
durations and TTLs are sets of naturals, threads and rules are distinct):

- `CacheLemmas`: what the proofs share. `Matches(list, ks)`: a sequence has the members of
  `ks`, each once; the lemmas say what removing a position (`Omit`), pushing and appending
  do to it, and that its length is then the number of keys. Where an argument would be an
  induction on a natural number, it goes by the least one that fails (`LeastNatural`). So
  it is with `Only`, the list at some of its positions: the number of positions
  below i grows by one at each of them and passes every value below their number.
- `LRUProofs`: `TypeOK`, `MapMatchesList`, `CapacityRespected`, `SweepOnCourse`. They are
  proved together as `IInv`. None of the last three is inductive alone: a removal at
  a position keeps the map in step only if the key occurs once; the limit is kept by
  an eviction only because the removed key was in the list; and the cursor stays valid
  after a removal only if the list got shorter by exactly one. From it follow
  `SweepIsThorough` (with the cursor at 0, `SweepOnCourse` says that every element is
  fresh) and `Refinement`: every step of LRUCache is a step of CacheContract or leaves its
  variables alone. The insertion needs the cardinality of the map, which
  `MapMatchesList` makes the length of the list. `ListSortedByUse` and
  `EvictsLeastRecentlyUsed`: the order is kept by a use because the key goes to the front,
  and by a removal because what is left of a sorted list is sorted; that the evicted key
  is the last element, and no other, comes from the invariant. `ServesTheEngine`: a
  behaviour of CacheContract, with either rule for the deadline, is one of LossyCache.
  With `Refinement` this gives   `LRUServesTheEngine`: the LRU does nothing the cache of SingleEngine may not do. Only one
  step of it needs an argument, the insertion with an eviction, where the set of lost
  keys is the victim's.
- `RandomCacheProofs`: `TypeOK`, `SliceMatchesMap`, the limit and `Refinement`. The
  invariant adds that a sweep's clock is not ahead of the clock, so that what was stale
  when the cleaner looked is stale when it removes it.
- `LFUProofs`: `TypeOK`, `ListsMatchEntries`, `MinFreqIsLeast`, `LimitRespected`, `Refinement`
  (for any limit but 0, which the contract reads as none),
  `ListsSortedByUse` and `EvictsLeastFrequentlyUsed`. `MinFreqIsLeast` and `LimitRespected`
  need each other: a removal may set `minFreq` to a frequency nobody has, but leaves room,
  so that evict does not look; evict finds no list only in an empty cache, and that is
  why the insertion after it stays within the limit. The strengthening is that `minFreq`
  is at no time above a frequency in use. The policy adds that an entry's frequency is
  the number of its uses.
- `GhostCachesProofs`: `TypeOK`, `MapMatchesLists`, `TwoQKeepsLimit`, `EvictFindsVictim`,
  `SweepLeavesNothingStale` and the refinement of LossyCache, for 2Q and ARC, any limit and
  any number of elements left over. `Sound` is the core of the invariant: the live
  elements, those without `old`, are those of the keys of the map; a key has them in one
  list only, and one at most in the first; ARC's target is at most the limit. Each
  building block is given its effect on a record of the cache's fields, and each
  operation is a composition of them, so that one lemma a block is enough for two
  policies. 2Q's limit follows from `RoomKept`: the elements of the first list and the keys
  with a live element in the second are together no more than `maxEntries`. A hit moves a
  key from one count to the other, the left-over elements a1 has make it evict early,
  and no step but an insertion adds to the sum. That evict finds a victim is a
  property of an insertion alone: there is one element in the first list and the target
  is at most the limit, so if evict turns to the second list, the two exceeding the limit
  together, the second is not empty. The refinement has one hard step, an insertion: a
  replacement and an eviction may each delete the key of a left-over element, and even
  the key that is being set. Whatever they delete, what is lost is what the callbacks tell.
- `SingleEngineProofs`: `TypeOK`, `LockDiscipline`, `NoOrphanLibrary`, `LibraryStaysPut`, for
  any number of threads and rules and any cache that keeps `LossyCache`. Inductive is
  their conjunction: a library stays under a call because removal needs the lock
  alone, and that is what the discipline says about readers and writer; none is
  forgotten because a cache step reports every key it drops and a removal step
  deletes the library its counter stands for. The run has one well-formed text, so that a
  library *replaced* under a call shows in the proof (and in the run of the partitions, which
  has two). `EngineRefinement` follows: a step that
  changes the libraries has the lock alone, so that no rule is in use.
- `PartitionEngineProofs`: `TypeOK`, `DefaultHashFindsEngine`, `SizeKept`, `ClosedEnginesAreEmpty`
  and the refinement of `EngineContract`, for any number of CPUs, sizes, partitions and
  any hash. The default hash is safe because the remainder by the number of
  engines, plus 1, is one of their numbers, whatever the digest (`DefaultHashIsSafe`). The
  refinement needs that no engine knows a rule the hash sends elsewhere: then
  the one engine that holds a rule is its own (`TogetherIsHome`), and changing one engine
  changes `Together` at its own rules only. `SizeKept` needs that each engine fits its
  share (for LFU, or one rule), and that the first m engines have at most m shares
  (`SumBound`, by the least m that fails).
- `ConsistentHashProofs`: `TypeOK` for every hash function, and `RingIsDetermined`,
  `LookupFindsNode` and `MinimalRemapping` under `CollisionFree`, the case in which they
  hold: run `ring_collision` shows what is left of them without it. AddNode keeps the ring
  what its nodes make it, because `SortedUp` of distinct values is the increasing sequence
  of the same values (`SortedUpProperties`); RemoveNode, because a hash occurs once and so
  `Kept` has just the positions of other nodes. An increasing sequence is known by its
  members (`IncreasingIsUnique`, by the first position that differs), which gives
  `SameNodesSameRing`: the slice and the map are functions of the nodes and the hash. For
  the remapping, a lookup is described without the slice (`OwnerIsUnique`): the
  least hash of a present node not below the key's, or the least of all; a hash that stays
  the least when others come or go keeps its keys.

Every invariant, action property and refinement of a passing run is proved, but for the
five temporal properties under fairness, which are out of this prover's reach and
only model-checked: `StaleEntriesGo` and `CloseEndsCleaner` of the LRU, `StaleEntriesGo` of
the random cache, `CallsReturn` and `ForgottenEventually` of the engine. The refinements
are of the safety part, which is all the abstract specifications state. What the five
runs with a violation show (section 6) is theirs alone.

## 6. Where code and documentation part

Shown by a run, with the sentence it contradicts in PROJECT.json:

- `lru_cleaner_survives` (lru.go:243): after Clear the cleaner's next tick calls Back on a
  nil list and the process dies. `singleEngine.Close` clears its cache and never closes
  it, so an engine with a cleanup interval gets there by being closed.
- `random_close` (random.go:165): Close never returns.
- `engine_race` (single_engine.go:53): rule r is evicted, AddRule installs it again, and
  then the goroutine of the eviction deletes the new library: the cache lists r,
  ContainsRule says no and Execute fails until somebody adds it once more.
- `ring_collision` (consistenthash.go:79): two virtual nodes with one hash; after
  RemoveNode of the node that owns it a point remains that belongs to no node, and
  GetNode answers "" although there are nodes. `node1`+`11` and `node11`+`1` are the same
  string, so it takes no weakness of the hash function.
- `ghost_early_eviction` (twoq.go:80, arc.go:77): two hits of a key leave two elements in
  the second list, which count towards the limit: the next new key is evicted from a
  cache with room for it.

Seen while modelling, not given a run:

- lru.go:90, lfu.go:89: a duration above the default TTL is cut to it (`Capped` is TRUE in
  their contract); docs/configuration.md:76 says "Individual items can override this when
  added", and random, 2Q and ARC do it that way.
- lfu.go:111: size 0 means one entry, engine.go:31 says unlimited; arc.go:115 and
  twoq.go:95 evict at once for size 0. `LimitRespected` and the contract of LFU say nothing
  of size 0.
- lfu.go:123: Set after Clear or Close panics on the nil map (`SetPanics`).
- random.go:172: stopCleanup sets the channel field to nil, and a cleaner that evaluates
  it afterwards never ends (`blind`).
- single_engine.go:149: BuildRule of an installed rule keeps the old statement;
  engine.go:18 says it updates.
- single_engine.go:139: `time.Duration(duration)` counts nanoseconds; TTL is in seconds.
- lru.go:254, lfu.go:301: Close after StopCleanup closes a closed channel.
- lfu.go:146: Get of an expired entry answers `(nil, true)`, line 131 says `(nil,false)`; the
  contract of LFU has the answer of the code (`ExpiredAnswer`).
- single_engine.go:139: after a panic of the cache in Set (lfu.go:123, arc.go:309) that a
  caller recovers from, the library is installed and no cache entry will remove it
  (`orphans`).
- twoq.go:95: elements left over in a2 are never evicted, since evict takes from a1
  only; a2 grows with every hit.
- arc.go:309: replace takes the back of t2 although t2 may be empty, and panics
  (`SetPanics`); with left-over elements in t2 it may also free no entry, so that ARC
  holds more than `maxEntries` (no limit is stated for it).
- twoq.go:337, arc.go:398: the sweep removes a left-over element and with it the key
  of a newer, fresh entry.
- twoq.go:186, arc.go:216: Clear takes no lock, and the engine calls it while the cleaner
  may be sweeping (`race`).
- partition_engine.go:36, 52: a Size below the number of partitions leaves every engine
  unlimited with LRU and random, gives each one rule with LFU and none with 2Q; ARC
  exceeds even a share (arc.go:275-280): docs/configuration.md:48, "Maximum number of
  items to store in the cache", is kept as far as `SizeKept` says. A custom hash that answers 0, as the
  one of docs/configuration.md:171-176 can, finds no engine (`HashMisses`).

## 7. Not modelled

Logging, statistics and panic recovery, Has, Keys, Len and the other operations that
only read, the Grule compiler and interpreter (external), examples and benchmarks, the
distribution of random draws and of hashes.

What becomes of a map and lists that Clear and the cleaner change at once in 2Q and
ARC is undefined in Go, and the model stops there.
