------------------------------ MODULE SingleEngine -----------------------------
(***************************************************************************)
(* engine/single_engine.go: rules live twice, as a compiled library in     *)
(* knowledgeLibraries, protected by s.mu, and as a key of localCache, which *)
(* has a mutex of its own and may drop a key at any time.  The cache tells *)
(* the engine by a callback that starts a goroutine, which takes s.mu and   *)
(* deletes the library.  Nothing orders that goroutine with later calls.   *)
(*                                                                         *)
(* A call is cut where another goroutine can see the difference: it claims *)
(* s.mu if it is to write, reads or writes the libraries once it has the    *)
(* lock, uses the cache in a step of its own, and unlocks when it returns.  *)
(* The cache is LossyCache, which stands for any of the five, with its      *)
(* mutex: each of the calls takes it and lets it go within one step, the    *)
(* cleaner keeps it from CleanerLocks to Sweep.                             *)
(***************************************************************************)
EXTENDS CacheCommon, FiniteSets

CONSTANTS
  Threads,        \* goroutines that call the engine
  Rules,          \* rule names
  Statements,     \* texts of a rule
  WellFormed,     \* those the rule builder accepts
  NoOne,          \* neither a thread nor a rule
  Durations, TTLs, MaxNow,  \* as in LossyCache
  MaxPending      \* bound: no call claims s.mu, and no sweep drops a fresh rule, while so
                  \* many removals wait

ASSUME EngineAssumption ==
  /\ NoOne \notin Threads \cup Rules
  /\ Threads \cap Rules = {}
  /\ WellFormed \subseteq Statements
  /\ MaxNow \in Nat
  /\ MaxPending \in Nat
  /\ Durations \subseteq Nat
  /\ TTLs \subseteq Nat

VARIABLES
  store, now, defaultTTL, onEvicted, calls, answer,  \* the cache: LossyCache
  knowledgeLibraries,  \* map from a rule to the statement its library was built from
  writer,              \* s.mu: who holds it for writing or is the next to: a
                       \* thread, the rule of a RemoveRule goroutine, or NoOne
  readers,             \* s.mu: the threads that hold it for reading
  job,                 \* for each thread, the call it is in
  cleaner,             \* "off", or "waiting" for a tick, or "sweeping": it has the
                       \* mutex of the cache
  orphans,             \* rules whose library a panic of the cache left without an entry
  pending              \* for each rule, the RemoveRule goroutines not yet run

localCache == INSTANCE LossyCache WITH Keys <- Rules, Values <- {"nil"}, Cappings <- BOOLEAN

cache == <<store, now, defaultTTL, onEvicted, calls, answer>>
locks == <<writer, readers>>
vars == <<cache, knowledgeLibraries, locks, job, cleaner, orphans, pending>>

FewPending == Cardinality({p \in Rules \X (1..MaxPending) : p[2] <= pending[p[1]]}) < MaxPending

\* A step that leaves the cache alone.
Rest == UNCHANGED <<store, now, defaultTTL, onEvicted>> /\ calls' = {} /\ answer' = {}

Idle == [op |-> "idle"]
Installed == DOMAIN knowledgeLibraries

\* NewSingleEngine: the callback is set before any call, and there is a cleaner if
\* CleanupInterval is positive.
Init ==
  /\ localCache!Init
  /\ onEvicted = TRUE
  /\ knowledgeLibraries = <<>>
  /\ writer = NoOne
  /\ readers = {}
  /\ job = [t \in Threads |-> Idle]
  /\ cleaner \in {"off", "waiting"}
  /\ orphans = {}
  /\ pending = [r \in Rules |-> 0]

--------------------------------------------------------------------------------
(* The lock, and the callback.  Lock of sync.RWMutex keeps other writers   *)
(* and new readers out at once, then waits for the readers there are.      *)

Goto(t, step) == job' = [job EXCEPT ![t] = step]

Claim(p) ==
  /\ writer = NoOne
  /\ writer' = p
  /\ Rest /\ UNCHANGED <<knowledgeLibraries, readers, cleaner, orphans, pending>>

ClaimLock(t) ==
  /\ job[t] = Idle
  /\ FewPending
  /\ Claim(t)
  /\ Goto(t, [op |-> "locking"])

Locked(t) == job[t].op = "locking" /\ readers = {} /\ UNCHANGED locks

\* Mutant: a reader enters although a writer has claimed the lock.
RLockRegardless(t) ==
  /\ job[t] = Idle
  /\ readers' = readers \cup {t}
  /\ UNCHANGED writer

RLock(t) ==
  /\ job[t] = Idle
  /\ writer = NoOne
  /\ readers' = readers \cup {t}
  /\ UNCHANGED writer

\* go func() { ... s.RemoveRule(key) } for the two events the callback acts on.
Dropped == {r \in Rules : \E c \in calls' : c.key = r /\ c.event \in {"Expiration", "Eviction"}}

\* Mutant: the callback acts on evictions only.
OnEvictedOnly ==
  LET evicted == {r \in Rules : \E c \in calls' : c.key = r /\ c.event = "Eviction"}
  IN pending' = [r \in Rules |-> IF r \in evicted THEN pending[r] + 1 ELSE pending[r]]

OnEvicted == pending' = [r \in Rules |-> IF r \in Dropped THEN pending[r] + 1 ELSE pending[r]]

\* The goroutine: it takes s.mu, whatever has happened in the meantime.
ClaimRemoval(r) == pending[r] > 0 /\ Claim(r) /\ UNCHANGED job

\* Mutant: the goroutine takes the read lock.
RemoveRuleAmongReaders(r) ==
  /\ writer = r
  /\ knowledgeLibraries' = Drop(knowledgeLibraries, {r})
  /\ pending' = [pending EXCEPT ![r] = @ - 1]
  /\ orphans' = orphans \ {r}
  /\ writer' = NoOne
  /\ Rest /\ UNCHANGED <<readers, job, cleaner>>

RemoveRule(r) ==
  /\ writer = r /\ readers = {}
  /\ knowledgeLibraries' = Drop(knowledgeLibraries, {r})
  /\ pending' = [pending EXCEPT ![r] = @ - 1]
  /\ orphans' = orphans \ {r}
  /\ writer' = NoOne
  /\ Rest /\ UNCHANGED <<readers, job, cleaner>>

--------------------------------------------------------------------------------
(* The calls.                                                              *)

\* Mutant: the error of the rule builder is not looked at.
BuildAnything(r, st) == knowledgeLibraries' = Put(knowledgeLibraries, r, st)

\* addRule: nothing is installed when the statement does not compile.
Build(r, st) ==
  /\ st \in WellFormed
  /\ knowledgeLibraries' = Put(knowledgeLibraries, r, st)

Caching(r, d) == [op |-> "caching", rule |-> r, duration |-> d]
Returning == [op |-> "returning"]

AddRule(t, r, st, d) ==
  /\ Locked(t)
  /\ \/ Build(r, st) /\ Goto(t, Caching(r, d))
     \/ st \notin WellFormed /\ Goto(t, Returning) /\ UNCHANGED knowledgeLibraries
  /\ Rest /\ UNCHANGED <<cleaner, orphans, pending>>

\* A rule that is installed already is only put into the cache again.
BuildRule(t, r, st, d) ==
  /\ Locked(t)
  /\ \/ r \in Installed /\ Goto(t, Caching(r, d)) /\ UNCHANGED knowledgeLibraries
     \/ r \notin Installed /\ Build(r, st) /\ Goto(t, Caching(r, d))
     \/ /\ r \notin Installed /\ st \notin WellFormed
        /\ Goto(t, Returning) /\ UNCHANGED knowledgeLibraries
  /\ Rest /\ UNCHANGED <<cleaner, orphans, pending>>

\* The mutex of the cache is free.
CacheFree == cleaner # "sweeping"

\* s.localCache.Set, with the callbacks it makes.
CacheSet(t) ==
  /\ job[t].op = "caching" /\ CacheFree
  /\ localCache!Set(job[t].rule, "nil", job[t].duration)
  /\ OnEvicted
  /\ orphans' = orphans \ {job[t].rule}
  /\ Goto(t, Returning)
  /\ UNCHANGED <<knowledgeLibraries, locks, cleaner>>

\* Set of LFU panics on the nil map that Clear leaves, Set of ARC where replace finds no
\* element.  The deferred unlocks run, and a caller that recovers goes on.
CacheSetPanics(t) ==
  /\ job[t].op = "caching" /\ CacheFree
  /\ job[t].rule \notin DOMAIN store
  /\ orphans' = orphans \cup {job[t].rule}
  /\ Goto(t, Returning)
  /\ Rest /\ UNCHANGED <<knowledgeLibraries, locks, cleaner, pending>>

ContainsRule(t, r) ==
  /\ RLock(t)
  /\ Goto(t, [op |-> "looking", rule |-> r])
  /\ Rest /\ UNCHANGED <<knowledgeLibraries, cleaner, orphans, pending>>

\* The Get is for its effect on the cache; the answer is read under the lock.
CacheGet(t) ==
  /\ job[t].op = "looking" /\ CacheFree
  /\ localCache!Get(job[t].rule)
  /\ OnEvicted
  /\ Goto(t, Returning)
  /\ UNCHANGED <<knowledgeLibraries, locks, cleaner, orphans>>

\* Neither Execute nor FetchMatching looks at the cache.
Evaluate(t, r) ==
  /\ RLock(t)
  /\ \/ /\ r \in Installed
        /\ Goto(t, [op |-> "executing", rule |-> r, library |-> knowledgeLibraries[r]])
     \/ /\ r \notin Installed
        /\ Goto(t, Returning)
  /\ Rest /\ UNCHANGED <<knowledgeLibraries, cleaner, orphans, pending>>

Execute(t, r) == Evaluate(t, r)
FetchMatching(t, r) == Evaluate(t, r)

\* The keys of the cache and of the libraries.
Debug(t) ==
  /\ RLock(t) /\ CacheFree
  /\ Goto(t, Returning)
  /\ Rest /\ UNCHANGED <<knowledgeLibraries, cleaner, orphans, pending>>

Close(t) ==
  /\ Locked(t)
  /\ knowledgeLibraries' = <<>>
  /\ orphans' = {}
  /\ Goto(t, [op |-> "clearing"])
  /\ Rest /\ UNCHANGED <<cleaner, pending>>

\* s.localCache.Clear(): its callbacks report ClearEvent.
ClearCache(t) ==
  /\ job[t].op = "clearing" /\ CacheFree
  /\ localCache!Clear
  /\ OnEvicted
  /\ Goto(t, Returning)
  /\ UNCHANGED <<knowledgeLibraries, locks, cleaner, orphans>>

\* Mutant: no deferred RUnlock.
ReturnLocked(t) ==
  /\ job[t].op \in {"returning", "executing"}
  /\ writer' = IF writer = t THEN NoOne ELSE writer
  /\ Goto(t, Idle)
  /\ Rest /\ UNCHANGED <<readers, knowledgeLibraries, cleaner, orphans, pending>>

\* The deferred Unlock or RUnlock.
Return(t) ==
  /\ job[t].op \in {"returning", "executing"}
  /\ writer' = IF writer = t THEN NoOne ELSE writer
  /\ readers' = readers \ {t}
  /\ Goto(t, Idle)
  /\ Rest /\ UNCHANGED <<knowledgeLibraries, cleaner, orphans, pending>>

--------------------------------------------------------------------------------

\* A tick of the cleaner; it waits for the mutex of the cache, which the calls keep for
\* a step only.
CleanerLocks ==
  /\ cleaner = "waiting"
  /\ cleaner' = "sweeping"
  /\ Rest /\ UNCHANGED <<knowledgeLibraries, locks, job, orphans, pending>>

StaleRules == {r \in Rules : localCache!Stale(r)}

\* It drops every stale rule, and 2Q and ARC others too, behind the engine's back.
Sweep(ks) ==
  /\ cleaner = "sweeping" /\ cleaner' = "waiting"
  /\ StaleRules \subseteq ks
  /\ ks = StaleRules \/ FewPending
  /\ localCache!Remove(ks, {"Expiration"})
  /\ OnEvicted
  /\ UNCHANGED <<knowledgeLibraries, locks, job, orphans>>

Tick == localCache!Tick /\ UNCHANGED <<knowledgeLibraries, locks, job, cleaner, orphans, pending>>

Write(t) ==
  \/ \E r \in Rules, st \in Statements, d \in Durations :
       AddRule(t, r, st, d) \/ BuildRule(t, r, st, d)
  \/ Close(t)

Read(t) ==
  \/ \E r \in Rules : ContainsRule(t, r) \/ Execute(t, r) \/ FetchMatching(t, r)
  \/ Debug(t)

UseCache(t) == CacheSet(t) \/ CacheSetPanics(t) \/ CacheGet(t) \/ ClearCache(t)

Next ==
  \/ \E t \in Threads : ClaimLock(t) \/ Read(t) \/ Write(t) \/ UseCache(t) \/ Return(t)
  \/ \E r \in Rules : ClaimRemoval(r) \/ RemoveRule(r)
  \/ CleanerLocks
  \/ \E ks \in SUBSET Rules : Sweep(ks)
  \/ Tick

Spec == Init /\ [][Next]_vars

\* Calls under way, removals that have claimed the lock and the cleaner, if there is one,
\* are scheduled.  A removal gets to claim the lock although other writers keep coming,
\* and a call the mutex of the cache although sweeps do: a sync.Mutex on which somebody
\* starves is handed over in order of arrival.
Fairness ==
  /\ \A t \in Threads : WF_vars(Write(t) \/ Return(t)) /\ SF_vars(UseCache(t))
  /\ \A r \in Rules : WF_vars(RemoveRule(r)) /\ SF_vars(ClaimRemoval(r))
  /\ WF_vars(CleanerLocks) /\ WF_vars(\E ks \in SUBSET Rules : Sweep(ks))
FairSpec == Spec /\ Fairness

--------------------------------------------------------------------------------
(* Properties.                                                             *)

Job ==
  {Idle, Returning, [op |-> "locking"], [op |-> "clearing"]}
    \cup [op : {"looking"}, rule : Rules]
    \cup [op : {"caching"}, rule : Rules, duration : Durations]
    \cup [op : {"executing"}, rule : Rules, library : WellFormed]

\* Every variable keeps the shape its Go counterpart has.
TypeOK ==
  /\ DOMAIN store \subseteq Rules
  /\ store \in [DOMAIN store -> EntryOf({"nil"})]
  /\ now \in Nat
  /\ defaultTTL \in Nat
  /\ onEvicted = TRUE
  /\ calls \subseteq CallOf(Rules, {"nil"})
  /\ answer \subseteq {"nil"}
  /\ Installed \subseteq Rules
  /\ knowledgeLibraries \in [Installed -> WellFormed]
  /\ writer \in Threads \cup Rules \cup {NoOne}
  /\ readers \subseteq Threads
  /\ job \in [Threads -> Job]
  /\ cleaner \in {"off", "waiting", "sweeping"}
  /\ orphans \subseteq Rules
  /\ pending \in [Rules -> Nat]

\* s.mu admits one writer or any number of readers: a thread is in a call exactly
\* while it waits for the lock or holds it, only one that holds it alone is about
\* to change the cache or the libraries, and a removal that has claimed it has one
\* to do (the Lock and RLock of every method).
LockDiscipline ==
  /\ \A t \in Threads :
       /\ job[t] # Idle <=> writer = t \/ t \in readers
       /\ writer = t => t \notin readers
       /\ writer = t /\ job[t].op # "locking" => readers = {}
       /\ job[t].op \in {"locking", "caching", "clearing"} => writer = t
       /\ job[t].op \in {"executing", "looking"} => t \in readers
  /\ writer \in Rules => pending[writer] > 0

\* No library outlives its cache entry unnoticed: a rule that is installed but
\* not in the cache is about to be put there by the call that installed it, or a
\* RemoveRule for it is on its way, or the cache panicked on it.  Otherwise it would stay
\* in memory for good, whatever the size of the cache (single_engine.go:49-58, 115-158).
NoOrphanLibrary ==
  \A r \in Installed :
    \/ r \in DOMAIN store
    \/ pending[r] > 0
    \/ r \in orphans
    \/ \E t \in Threads : job[t].op = "caching" /\ job[t].rule = r

\* The library a call works with stays installed, and the same, until the call is
\* done, although removals may be waiting (single_engine.go:171-187, 64-69).
LibraryStaysPut ==
  \A t \in Threads :
    /\ job[t].op = "caching" => job[t].rule \in Installed
    /\ job[t].op = "executing" =>
         /\ job[t].rule \in Installed
         /\ knowledgeLibraries[job[t].rule] = job[t].library

\* The engine keeps what EngineContract promises of IGruleEngine: removals, evictions
\* and Close among calls disturb none that evaluates (single_engine.go:64-69, 95-194).
Evaluating ==
  [t \in Threads |-> IF job[t].op = "executing"
                     THEN {[rule |-> job[t].rule, library |-> job[t].library]} ELSE {}]
Contract == INSTANCE EngineContract
              WITH libraries <- knowledgeLibraries, evaluating <- Evaluating
ImplementsEngineContract == Contract!Spec

\* Every call that has begun returns: the engine waits for the cache under s.mu, the
\* cache's cleaner tells the engine under the mutex of the cache, and no circle comes of
\* it, because the callback leaves s.mu to a goroutine (single_engine.go:49-58).
CallsReturn == \A t \in Threads : job[t] # Idle ~> job[t] = Idle

\* A library whose rule has left the cache goes as well, and one whose rule has expired
\* if there is a cleaner, unless the rule comes back first, or the cache panicked on it
\* (single_engine.go:52-53).
Forgettable(r) ==
  /\ r \in Installed \ orphans
  /\ r \notin DOMAIN store \/ (localCache!Stale(r) /\ cleaner # "off")
ForgottenEventually == \A r \in Rules : Forgettable(r) ~> ~Forgettable(r)

\* "AddRule add rule if not exists, update if exists" (single_engine.go:129): once
\* the call is over, a rule that the cache holds and that has not expired is
\* installed.
CachedRuleIsInstalled ==
  writer = NoOne => \A r \in DOMAIN store : localCache!Stale(r) \/ r \in Installed
================================================================================
