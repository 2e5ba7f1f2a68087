--------------------------- MODULE SingleEngineProofs --------------------------
(* Theorems about SingleEngine for every value of its constants.           *)
EXTENDS SingleEngine, TLAPS

\* Close empties the libraries before it clears the cache, and holds the lock.
ClosedFirst == \A t \in Threads : job[t].op = "clearing" => Installed = {}

\* The inductive invariant: the invariants of the runs and ClosedFirst, without
\* which a Clear of the cache could leave libraries behind.
IInv == TypeOK /\ LockDiscipline /\ NoOrphanLibrary /\ LibraryStaysPut /\ ClosedFirst

--------------------------------------------------------------------------------
(* What a step of the cache does, seen from the engine.                    *)

CacheTypeOK ==
  /\ DOMAIN store \subseteq Rules
  /\ store \in [DOMAIN store -> EntryOf({"nil"})]
  /\ now \in Nat
  /\ defaultTTL \in Nat
  /\ onEvicted = TRUE
  /\ calls \subseteq CallOf(Rules, {"nil"})
  /\ answer \subseteq {"nil"}

\* A rule that leaves the cache, other than by Clear, is reported with an event
\* that starts a removal.
Reported == \A r \in DOMAIN store \ DOMAIN store' : r \in Dropped

LEMMA CacheTypeFromInvariant == TypeOK => CacheTypeOK
BY DEF TypeOK, CacheTypeOK

\* Every key of ks is told of, other than with ClearEvent: the callback acts on it.
LEMMA TellStep ==
  ASSUME onEvicted = TRUE, NEW ks \in SUBSET Rules, NEW event \in Events,
         localCache!Tell(ks, event)
  PROVE  /\ calls' \subseteq CallOf(Rules, {"nil"})
         /\ event \in {"Expiration", "Eviction"} => ks \subseteq Dropped
<1>1. /\ calls' \in SUBSET [key : ks, value : {"nil"}, event : {event}]
      /\ \A k \in ks : \E c \in calls' : c.key = k
  BY DEF localCache!Tell, localCache!Reports
<1>2. calls' \subseteq CallOf(Rules, {"nil"})
  BY <1>1 DEF CallOf
<1>3. ASSUME event \in {"Expiration", "Eviction"}, NEW k \in ks PROVE k \in Dropped
  <2>1. PICK c \in calls' : c.key = k
    BY <1>1
  <2>2. c.event = event /\ k \in Rules
    BY <1>1, <2>1
  <2> QED BY <1>3, <2>1, <2>2 DEF Dropped
<1> QED BY <1>2, <1>3

LEMMA LoseStep ==
  ASSUME CacheTypeOK, NEW ks \in SUBSET Rules, NEW events \in SUBSET Events,
         localCache!Lose(ks, events)
  PROVE  /\ store' \in [DOMAIN store' -> EntryOf({"nil"})]
         /\ DOMAIN store' = DOMAIN store \ ks
         /\ UNCHANGED <<now, defaultTTL, onEvicted>>
         /\ calls' \subseteq CallOf(Rules, {"nil"})
         /\ events \subseteq {"Expiration", "Eviction"} => ks \subseteq Dropped
<1>1. /\ store' = [x \in DOMAIN store \ ks |-> store[x]]
      /\ UNCHANGED <<now, defaultTTL, onEvicted>>
  BY DEF localCache!Lose, localCache!Drop, localCache!config
<1>2. PICK event \in events : localCache!Tell(ks, event)
  BY DEF localCache!Lose
<1>3. /\ calls' \subseteq CallOf(Rules, {"nil"})
      /\ event \in {"Expiration", "Eviction"} => ks \subseteq Dropped
  BY <1>2, TellStep DEF CacheTypeOK
<1> QED BY <1>1, <1>3 DEF CacheTypeOK

\* What every cache operation of the engine guarantees, whatever it chooses.
CacheStep ==
  /\ CacheTypeOK'
  /\ Reported

LEMMA SetStep ==
  ASSUME CacheTypeOK, NEW r \in Rules, NEW d \in Durations, localCache!Set(r, "nil", d)
  PROVE  CacheStep /\ (r \notin DOMAIN store' => r \in Dropped)
<1>1. PICK capped \in BOOLEAN :
        LET updated == localCache!Put(store, r, [value |-> "nil",
                                                 expiration |-> localCache!Deadline(d, capped)])
        IN \/ store' = updated /\ localCache!Tell({}, "Eviction")
           \/ /\ r \notin DOMAIN store
              /\ \E ks \in SUBSET Rules :
                   /\ store' = localCache!Drop(updated, ks)
                   /\ localCache!Tell(ks, "Eviction") \/ localCache!Tell(ks \cup {r}, "Eviction")
  BY DEF localCache!Set
<1> DEFINE deadline == localCache!Deadline(d, capped)
           updated == localCache!Put(store, r, [value |-> "nil", expiration |-> deadline])
<1>2. deadline \in Nat
  BY EngineAssumption DEF CacheTypeOK, localCache!Deadline, localCache!Never
<1>3. /\ DOMAIN updated = DOMAIN store \cup {r}
      /\ updated \in [DOMAIN updated -> EntryOf({"nil"})]
  BY <1>2 DEF localCache!Put, CacheTypeOK, EntryOf
<1> HIDE DEF updated, deadline
<1>4. PICK ks \in SUBSET Rules :
        /\ store' \in [DOMAIN store' -> EntryOf({"nil"})]
        /\ DOMAIN store' = DOMAIN updated \ ks
        /\ calls' \subseteq CallOf(Rules, {"nil"})
        /\ ks \subseteq Dropped
  <2>1. CASE store' = updated /\ localCache!Tell({}, "Eviction")
    <3>1. calls' \subseteq CallOf(Rules, {"nil"})
      BY <2>1, TellStep DEF CacheTypeOK, Events
    <3>2. {} \in SUBSET Rules /\ DOMAIN store' = DOMAIN updated \ {} /\ {} \subseteq Dropped
      BY <2>1
    <3> QED BY <1>3, <2>1, <3>1, <3>2
  <2>2. ASSUME NEW ks \in SUBSET Rules, store' = localCache!Drop(updated, ks),
               localCache!Tell(ks, "Eviction") \/ localCache!Tell(ks \cup {r}, "Eviction")
        PROVE  /\ store' \in [DOMAIN store' -> EntryOf({"nil"})]
               /\ DOMAIN store' = DOMAIN updated \ ks
               /\ calls' \subseteq CallOf(Rules, {"nil"})
               /\ ks \subseteq Dropped
    <3>1. store' = [x \in DOMAIN updated \ ks |-> updated[x]]
      BY <2>2 DEF localCache!Drop
    <3>2. PICK told \in {ks, ks \cup {r}} : localCache!Tell(told, "Eviction")
      BY <2>2
    <3>3. told \in SUBSET Rules /\ "Eviction" \in Events /\ onEvicted = TRUE
      BY DEF Events, CacheTypeOK
    <3>4. calls' \subseteq CallOf(Rules, {"nil"}) /\ told \subseteq Dropped
      BY <3>2, <3>3, TellStep
    <3> QED BY <1>3, <3>1, <3>2, <3>4
  <2> QED BY <1>1, <2>1, <2>2 DEF updated, deadline
<1>5. answer' = {} /\ UNCHANGED <<now, defaultTTL, onEvicted>>
  BY DEF localCache!Set, localCache!config
<1>6. DOMAIN store' \subseteq Rules
  BY <1>3, <1>4 DEF CacheTypeOK
<1>7. CacheTypeOK'
  BY <1>4, <1>5, <1>6 DEF CacheTypeOK
<1> QED BY <1>3, <1>4, <1>7 DEF CacheStep, Reported

\* Get and the cleaner: what goes is told of as expired.
LEMMA ExpireStep ==
  ASSUME CacheTypeOK, NEW ks \in SUBSET Rules, localCache!Lose(ks, {"Expiration"}),
         answer' \subseteq {"nil"}
  PROVE  CacheStep
<1>1. /\ store' \in [DOMAIN store' -> EntryOf({"nil"})]
      /\ DOMAIN store' = DOMAIN store \ ks
      /\ UNCHANGED <<now, defaultTTL, onEvicted>>
      /\ calls' \subseteq CallOf(Rules, {"nil"})
      /\ ks \subseteq Dropped
  BY LoseStep DEF Events
<1>2. CacheTypeOK'
  BY <1>1 DEF CacheTypeOK
<1> QED BY <1>1, <1>2 DEF CacheStep, Reported

LEMMA GetStep ==
  ASSUME CacheTypeOK, NEW r \in Rules, localCache!Get(r)
  PROVE  CacheStep
<1>1. PICK ks \in SUBSET Rules : localCache!Lose(ks, {"Expiration"})
  <2>1. CASE localCache!Stale(r)
    BY <2>1 DEF localCache!Get
  <2>2. CASE ~localCache!Stale(r)
    BY <2>2 DEF localCache!Get
  <2> QED BY <2>1, <2>2
<1>2. answer' \subseteq {"nil"}
  <2>1. r \in DOMAIN store => store[r].value = "nil"
    BY DEF CacheTypeOK, EntryOf
  <2> QED BY <2>1 DEF localCache!Get
<1> QED BY <1>1, <1>2, ExpireStep

LEMMA ClearStep ==
  ASSUME CacheTypeOK, localCache!Clear
  PROVE  CacheTypeOK'
<1>1. answer' = {} /\ localCache!Lose(DOMAIN store, {"Clear"})
  BY DEF localCache!Clear, localCache!Remove
<1>2. /\ store' \in [DOMAIN store' -> EntryOf({"nil"})]
      /\ DOMAIN store' = DOMAIN store \ DOMAIN store
      /\ UNCHANGED <<now, defaultTTL, onEvicted>>
      /\ calls' \subseteq CallOf(Rules, {"nil"})
  BY <1>1, LoseStep DEF CacheTypeOK, Events
<1> QED BY <1>1, <1>2 DEF CacheTypeOK

\* The callback starts a removal for every rule it is told of, and stops none.
LEMMA OnEvictedStep ==
  ASSUME pending \in [Rules -> Nat], OnEvicted
  PROVE  /\ pending' \in [Rules -> Nat]
         /\ \A r \in Rules : pending[r] > 0 \/ r \in Dropped => pending'[r] > 0
BY DEF OnEvicted

--------------------------------------------------------------------------------
(* The actions.                                                            *)

LEMMA InitIInv == Init => IInv
<1> SUFFICES ASSUME Init PROVE IInv
  OBVIOUS
<1>1. TypeOK
  <2>1. store \in [DOMAIN store -> EntryOf({"nil"})] /\ DOMAIN store = {}
    BY DEF Init, localCache!Init
  <2>2. knowledgeLibraries \in [Installed -> WellFormed] /\ Installed = {}
    BY DEF Init, Installed
  <2>3. job \in [Threads -> Job]
    BY DEF Init, Job
  <2>4. defaultTTL \in Nat
    BY EngineAssumption DEF Init, localCache!Init
  <2> QED BY <2>1, <2>2, <2>3, <2>4 DEF Init, localCache!Init, TypeOK
<1>2. LockDiscipline
  BY EngineAssumption DEF Init, LockDiscipline, Idle
<1>3. Installed = {}
  BY DEF Init, Installed
<1>4. LibraryStaysPut
  BY DEF Init, LibraryStaysPut, Idle
<1> QED BY <1>1, <1>2, <1>3, <1>4 DEF IInv, NoOrphanLibrary, ClosedFirst

LEMMA ClaimLockPreserves ==
  ASSUME IInv, NEW t \in Threads, ClaimLock(t)
  PROVE  IInv'
<1> DEFINE step == [op |-> "locking"]
<1>1. /\ TypeOK /\ LockDiscipline /\ NoOrphanLibrary /\ LibraryStaysPut /\ ClosedFirst
      /\ job[t] = Idle /\ writer = NoOne /\ writer' = t /\ job' = [job EXCEPT ![t] = step]
      /\ Rest /\ UNCHANGED <<knowledgeLibraries, readers, cleaner, orphans, pending>>
  BY DEF IInv, ClaimLock, Claim, Goto
<1>2. job \in [Threads -> Job] /\ step \in Job /\ t \notin Rules
  BY <1>1, EngineAssumption DEF TypeOK, Job
<1>3. TypeOK'
  BY <1>1, <1>2 DEF TypeOK, Installed, Rest
<1>4. LockDiscipline'
  BY <1>1, <1>2, EngineAssumption DEF LockDiscipline, Idle, TypeOK
<1>5. NoOrphanLibrary'
  BY <1>1, <1>2 DEF NoOrphanLibrary, Installed, Rest, Idle
<1>6. LibraryStaysPut'
  BY <1>1, <1>2 DEF LibraryStaysPut, Installed
<1>7. ClosedFirst'
  BY <1>1, <1>2 DEF ClosedFirst, Installed
<1> QED BY <1>3, <1>4, <1>5, <1>6, <1>7 DEF IInv

LEMMA ClaimRemovalPreserves ==
  ASSUME IInv, NEW r \in Rules, ClaimRemoval(r)
  PROVE  IInv'
<1>1. /\ TypeOK /\ LockDiscipline /\ NoOrphanLibrary /\ LibraryStaysPut /\ ClosedFirst
      /\ pending[r] > 0 /\ writer = NoOne /\ writer' = r /\ UNCHANGED job
      /\ Rest /\ UNCHANGED <<knowledgeLibraries, readers, cleaner, orphans, pending>>
  BY DEF IInv, ClaimRemoval, Claim
<1>2. TypeOK'
  BY <1>1 DEF TypeOK, Installed, Rest
<1>3. LockDiscipline'
  BY <1>1, EngineAssumption DEF LockDiscipline, TypeOK
<1>4. NoOrphanLibrary' /\ LibraryStaysPut' /\ ClosedFirst'
  BY <1>1 DEF NoOrphanLibrary, LibraryStaysPut, ClosedFirst, Installed, Rest
<1> QED BY <1>2, <1>3, <1>4 DEF IInv

\* A removal has the lock to itself: no thread evaluates or is about to use the
\* cache.
LEMMA RemoveRulePreserves ==
  ASSUME IInv, NEW r \in Rules, RemoveRule(r)
  PROVE  IInv'
<1>1. /\ TypeOK /\ LockDiscipline /\ NoOrphanLibrary /\ LibraryStaysPut /\ ClosedFirst
      /\ writer = r /\ readers = {} /\ writer' = NoOne
      /\ knowledgeLibraries' = [x \in Installed \ {r} |-> knowledgeLibraries[x]]
      /\ pending' = [pending EXCEPT ![r] = @ - 1]
      /\ orphans' = orphans \ {r}
      /\ Rest /\ UNCHANGED <<readers, job, cleaner>>
  BY DEF IInv, RemoveRule, Drop, Installed
<1>2. pending[r] > 0 /\ pending \in [Rules -> Nat]
  BY <1>1 DEF LockDiscipline, TypeOK
<1>3. \A t \in Threads : job[t] = Idle
  BY <1>1, EngineAssumption DEF LockDiscipline
<1>4. Installed' = Installed \ {r}
  BY <1>1 DEF Installed
<1>5. TypeOK'
  BY <1>1, <1>2, <1>4 DEF TypeOK, Rest
<1>6. LockDiscipline'
  BY <1>1, <1>3, EngineAssumption DEF LockDiscipline, Idle
<1>7. NoOrphanLibrary'
  BY <1>1, <1>2, <1>4 DEF NoOrphanLibrary, Rest, TypeOK
<1>8. LibraryStaysPut' /\ ClosedFirst'
  BY <1>1, <1>3 DEF LibraryStaysPut, ClosedFirst, Idle
<1> QED BY <1>5, <1>6, <1>7, <1>8 DEF IInv

\* A thread that has got the lock to itself is the only one in a call.
LEMMA Alone ==
  ASSUME LockDiscipline, NEW t \in Threads, writer = t, readers = {}
  PROVE  \A u \in Threads \ {t} : job[u] = Idle
BY DEF LockDiscipline

\* The first step of AddRule and BuildRule: at most one library is installed or
\* replaced, and its rule is the one about to be put into the cache.
LEMMA InstallPreserves ==
  ASSUME IInv, NEW t \in Threads, NEW r \in Rules, NEW d \in Durations, Locked(t),
         \/ /\ knowledgeLibraries' = knowledgeLibraries
            /\ r \in Installed
         \/ \E st \in WellFormed : knowledgeLibraries' = Put(knowledgeLibraries, r, st),
         Goto(t, Caching(r, d)), Rest, UNCHANGED <<cleaner, orphans, pending>>
  PROVE  IInv'
<1>1. /\ TypeOK /\ LockDiscipline /\ NoOrphanLibrary /\ LibraryStaysPut /\ ClosedFirst
      /\ job[t].op = "locking" /\ writer = t /\ readers = {} /\ UNCHANGED <<writer, readers>>
      /\ job' = [job EXCEPT ![t] = Caching(r, d)]
  BY DEF IInv, Locked, Goto, LockDiscipline, locks
<1>2. job \in [Threads -> Job] /\ Caching(r, d) \in Job
  BY <1>1 DEF TypeOK, Job, Caching
<1>3. \A u \in Threads \ {t} : job'[u] = Idle
  BY <1>1, <1>2, Alone
<1>4. /\ knowledgeLibraries' \in [Installed' -> WellFormed]
      /\ Installed' = Installed \cup {r}
  BY <1>1 DEF TypeOK, Installed, Put
<1>5. TypeOK'
  BY <1>1, <1>2, <1>4 DEF TypeOK, Rest
<1>6. LockDiscipline'
  BY <1>1, <1>2, <1>3, EngineAssumption DEF LockDiscipline, Idle, Caching
<1>7. NoOrphanLibrary'
  <2>1. job'[t].op = "caching" /\ job'[t].rule = r
    BY <1>1, <1>2 DEF Caching
  <2>2. \A u \in Threads : job[u].op # "caching"
    BY <1>1, Alone DEF Idle
  <2> QED BY <1>1, <1>4, <2>1, <2>2 DEF NoOrphanLibrary, Rest
<1>8. LibraryStaysPut' /\ ClosedFirst'
  <2>1. job'[t].op = "caching" /\ job'[t].rule = r
    BY <1>1, <1>2 DEF Caching
  <2> QED BY <1>3, <1>4, <2>1 DEF LibraryStaysPut, ClosedFirst, Idle
<1> QED BY <1>5, <1>6, <1>7, <1>8 DEF IInv

\* A step of one thread that leaves the libraries, the cache and the removals
\* alone, and after which it is about to return.
LEMMA ReturningPreserves ==
  ASSUME IInv, NEW t \in Threads, job[t].op \in {"idle", "locking"}, Goto(t, Returning),
         Rest, UNCHANGED <<knowledgeLibraries, cleaner, orphans, pending>>,
         Locked(t) \/ RLock(t)
  PROVE  IInv'
<1>1. /\ TypeOK /\ LockDiscipline /\ NoOrphanLibrary /\ LibraryStaysPut /\ ClosedFirst
      /\ job' = [job EXCEPT ![t] = Returning]
  BY DEF IInv, Goto
<1>2. job \in [Threads -> Job] /\ Returning \in Job
  BY <1>1 DEF TypeOK, Job
<1>3. UNCHANGED writer /\ readers' \subseteq Threads
  BY <1>1 DEF Locked, RLock, locks, TypeOK
<1>4. TypeOK'
  BY <1>1, <1>2, <1>3 DEF TypeOK, Rest, Installed
<1>5. LockDiscipline'
  <2>1. CASE Locked(t)
    BY <1>1, <1>2, <2>1 DEF LockDiscipline, Idle, Returning, Locked, locks
  <2>2. CASE RLock(t)
    BY <1>1, <1>2, <2>2, EngineAssumption DEF LockDiscipline, Idle, Returning, RLock
  <2> QED BY <2>1, <2>2
<1>6. NoOrphanLibrary' /\ LibraryStaysPut' /\ ClosedFirst'
  BY <1>1, <1>2 DEF NoOrphanLibrary, LibraryStaysPut, ClosedFirst, Installed, Rest, Returning
<1> QED BY <1>4, <1>5, <1>6 DEF IInv

LEMMA AddRulePreserves ==
  ASSUME IInv, NEW t \in Threads, NEW r \in Rules, NEW st \in Statements, NEW d \in Durations,
         AddRule(t, r, st, d)
  PROVE  IInv'
<1>1. Locked(t) /\ job[t].op = "locking" /\ Rest
      /\ UNCHANGED <<cleaner, orphans, pending>>
  BY DEF AddRule, Locked
<1>2. CASE Build(r, st) /\ Goto(t, Caching(r, d))
  BY <1>1, <1>2, InstallPreserves DEF Build
<1>3. CASE Goto(t, Returning) /\ UNCHANGED knowledgeLibraries
  BY <1>1, <1>3, ReturningPreserves
<1> QED BY <1>2, <1>3 DEF AddRule

LEMMA BuildRulePreserves ==
  ASSUME IInv, NEW t \in Threads, NEW r \in Rules, NEW st \in Statements, NEW d \in Durations,
         BuildRule(t, r, st, d)
  PROVE  IInv'
<1>1. Locked(t) /\ job[t].op = "locking" /\ Rest
      /\ UNCHANGED <<cleaner, orphans, pending>>
  BY DEF BuildRule, Locked
<1>2. CASE r \in Installed /\ Goto(t, Caching(r, d)) /\ UNCHANGED knowledgeLibraries
  BY <1>1, <1>2, InstallPreserves
<1>3. CASE Build(r, st) /\ Goto(t, Caching(r, d))
  BY <1>1, <1>3, InstallPreserves DEF Build
<1>4. CASE Goto(t, Returning) /\ UNCHANGED knowledgeLibraries
  BY <1>1, <1>4, ReturningPreserves
<1> QED BY <1>2, <1>3, <1>4 DEF BuildRule

\* What the cache may drop when the rule is put into it is reported, the rule
\* itself included.
LEMMA CacheSetPreserves ==
  ASSUME IInv, NEW t \in Threads, CacheSet(t)
  PROVE  IInv'
<1> DEFINE r == job[t].rule
           d == job[t].duration
<1>1. /\ TypeOK /\ LockDiscipline /\ NoOrphanLibrary /\ LibraryStaysPut /\ ClosedFirst
      /\ job[t].op = "caching" /\ localCache!Set(r, "nil", d) /\ OnEvicted
      /\ orphans' = orphans \ {r}
      /\ job' = [job EXCEPT ![t] = Returning]
      /\ UNCHANGED <<knowledgeLibraries, writer, readers, cleaner>>
  BY DEF IInv, CacheSet, Goto, locks
<1>2. /\ job \in [Threads -> Job] /\ Returning \in Job
      /\ r \in Rules /\ d \in Durations
  BY <1>1 DEF TypeOK, Job, Idle, Returning
<1>3. CacheStep /\ (r \notin DOMAIN store' => r \in Dropped)
  BY <1>1, <1>2, SetStep, CacheTypeFromInvariant
<1>4. /\ pending' \in [Rules -> Nat]
      /\ \A x \in Rules : pending[x] > 0 \/ x \in Dropped => pending'[x] > 0
  BY <1>1, OnEvictedStep DEF TypeOK
<1>5. TypeOK'
  BY <1>1, <1>2, <1>3, <1>4 DEF TypeOK, CacheStep, CacheTypeOK, Installed
<1>6. LockDiscipline'
  <2>1. writer = t /\ readers = {} /\ writer \notin Rules
    BY <1>1, EngineAssumption DEF LockDiscipline
  <2> QED BY <1>1, <1>2, <2>1 DEF LockDiscipline, Idle, Returning
<1>7. NoOrphanLibrary'
  <2>1. ASSUME NEW x \in Installed
        PROVE  x \in DOMAIN store' \/ pending'[x] > 0 \/ x \in orphans'
    <3>1. x \in Rules
      BY <1>1 DEF TypeOK
    <3>2. CASE x \in DOMAIN store
      BY <1>3, <1>4, <3>1, <3>2 DEF CacheStep, Reported
    <3>3. CASE pending[x] > 0
      BY <1>4, <3>1, <3>3
    <3>4. CASE x = r
      BY <1>3, <1>4, <3>1, <3>4
    <3>5. \A u \in Threads : job[u].op = "caching" => u = t
      BY <1>1, <1>2 DEF LockDiscipline
    <3>6. CASE x \in orphans /\ x # r
      BY <1>1, <3>6
    <3> QED BY <1>1, <3>2, <3>3, <3>4, <3>5, <3>6 DEF NoOrphanLibrary
  <2> QED BY <1>1, <2>1 DEF NoOrphanLibrary, Installed
<1>8. LibraryStaysPut' /\ ClosedFirst'
  BY <1>1, <1>2 DEF LibraryStaysPut, ClosedFirst, Installed, Returning
<1> QED BY <1>5, <1>6, <1>7, <1>8 DEF IInv

\* When the cache panics the library stays without an entry, and is noted.
LEMMA CacheSetPanicsPreserves ==
  ASSUME IInv, NEW t \in Threads, CacheSetPanics(t)
  PROVE  IInv'
<1> DEFINE r == job[t].rule
<1>1. /\ TypeOK /\ LockDiscipline /\ NoOrphanLibrary /\ LibraryStaysPut /\ ClosedFirst
      /\ job[t].op = "caching" /\ orphans' = orphans \cup {r}
      /\ job' = [job EXCEPT ![t] = Returning]
      /\ Rest /\ UNCHANGED <<knowledgeLibraries, writer, readers, cleaner, pending>>
  BY DEF IInv, CacheSetPanics, Goto, locks
<1>2. /\ job \in [Threads -> Job] /\ Returning \in Job /\ r \in Rules
  BY <1>1 DEF TypeOK, Job, Idle, Returning
<1>3. writer = t /\ readers = {} /\ writer \notin Rules
  BY <1>1, EngineAssumption DEF LockDiscipline
<1>4. TypeOK'
  BY <1>1, <1>2 DEF TypeOK, Rest, Installed
<1>5. LockDiscipline'
  BY <1>1, <1>2, <1>3 DEF LockDiscipline, Idle, Returning
<1>6. NoOrphanLibrary'
  <2>1. \A u \in Threads : job[u].op = "caching" => u = t
    BY <1>1 DEF LockDiscipline
  <2> QED BY <1>1, <2>1 DEF NoOrphanLibrary, Rest, Installed
<1>7. LibraryStaysPut' /\ ClosedFirst'
  BY <1>1, <1>2 DEF LibraryStaysPut, ClosedFirst, Installed, Returning
<1> QED BY <1>4, <1>5, <1>6, <1>7 DEF IInv

\* ContainsRule has the read lock before it looks at the cache.
LEMMA ContainsRulePreserves ==
  ASSUME IInv, NEW t \in Threads, NEW r \in Rules, ContainsRule(t, r)
  PROVE  IInv'
<1> DEFINE step == [op |-> "looking", rule |-> r]
<1>1. /\ TypeOK /\ LockDiscipline /\ NoOrphanLibrary /\ LibraryStaysPut /\ ClosedFirst
      /\ job[t] = Idle /\ job[t].op = "idle" /\ writer = NoOne
      /\ readers' = readers \cup {t} /\ job' = [job EXCEPT ![t] = step]
      /\ Rest /\ UNCHANGED <<knowledgeLibraries, cleaner, orphans, pending, writer>>
  BY DEF IInv, ContainsRule, RLock, Goto, Idle
<1>2. job \in [Threads -> Job] /\ step \in Job
  BY <1>1 DEF TypeOK, Job
<1>3. TypeOK'
  BY <1>1, <1>2 DEF TypeOK, Installed, Rest
<1>4. LockDiscipline'
  BY <1>1, <1>2, EngineAssumption DEF LockDiscipline, Idle
<1>5. NoOrphanLibrary' /\ LibraryStaysPut' /\ ClosedFirst'
  BY <1>1, <1>2 DEF NoOrphanLibrary, LibraryStaysPut, ClosedFirst, Installed, Rest
<1> QED BY <1>3, <1>4, <1>5 DEF IInv

\* A reader may look at the cache beside others, but no writer is about to.
LEMMA CacheGetPreserves ==
  ASSUME IInv, NEW t \in Threads, CacheGet(t)
  PROVE  IInv'
<1>1. /\ TypeOK /\ LockDiscipline /\ NoOrphanLibrary /\ LibraryStaysPut /\ ClosedFirst
      /\ job[t].op = "looking" /\ localCache!Get(job[t].rule) /\ OnEvicted
      /\ job' = [job EXCEPT ![t] = Returning]
      /\ UNCHANGED <<knowledgeLibraries, writer, readers, cleaner, orphans>>
  BY DEF IInv, CacheGet, Goto, locks
<1>2. /\ job \in [Threads -> Job] /\ Returning \in Job /\ job[t].rule \in Rules
      /\ t \in readers /\ writer # t
  BY <1>1 DEF TypeOK, Job, Idle, Returning, LockDiscipline
<1>3. CacheStep
  BY <1>1, <1>2, GetStep, CacheTypeFromInvariant
<1>4. /\ pending' \in [Rules -> Nat]
      /\ \A x \in Rules : pending[x] > 0 \/ x \in Dropped => pending'[x] > 0
  BY <1>1, OnEvictedStep DEF TypeOK
<1>5. TypeOK'
  BY <1>1, <1>2, <1>3, <1>4 DEF TypeOK, CacheStep, CacheTypeOK, Installed
<1>6. LockDiscipline'
  BY <1>1, <1>2, <1>4 DEF LockDiscipline, Idle, Returning, TypeOK
<1>7. NoOrphanLibrary'
  <2>1. ASSUME NEW x \in Installed
        PROVE  x \in DOMAIN store' \/ pending'[x] > 0 \/ x \in orphans'
    <3>1. x \in Rules
      BY <1>1 DEF TypeOK
    <3>2. \A u \in Threads : job[u].op # "caching"
      BY <1>1, <1>2 DEF LockDiscipline
    <3>3. x \in DOMAIN store \/ pending[x] > 0 \/ x \in orphans
      BY <1>1, <3>2 DEF NoOrphanLibrary
    <3> QED BY <1>1, <3>3, <1>3, <1>4, <3>1, <3>2 DEF CacheStep, Reported
  <2> QED BY <1>1, <2>1 DEF NoOrphanLibrary, Installed
<1>8. LibraryStaysPut' /\ ClosedFirst'
  BY <1>1, <1>2 DEF LibraryStaysPut, ClosedFirst, Installed, Returning
<1> QED BY <1>5, <1>6, <1>7, <1>8 DEF IInv

LEMMA EvaluatePreserves ==
  ASSUME IInv, NEW t \in Threads, NEW r \in Rules, Evaluate(t, r)
  PROVE  IInv'
<1> DEFINE step == [op |-> "executing", rule |-> r, library |-> knowledgeLibraries[r]]
<1>1. /\ TypeOK /\ LockDiscipline /\ NoOrphanLibrary /\ LibraryStaysPut /\ ClosedFirst
      /\ RLock(t) /\ job[t] = Idle /\ job[t].op = "idle" /\ writer = NoOne
      /\ readers' = readers \cup {t}
      /\ Rest /\ UNCHANGED <<knowledgeLibraries, cleaner, orphans, pending, writer>>
  BY DEF IInv, Evaluate, RLock, Idle
<1>2. CASE Goto(t, Returning)
  BY <1>1, <1>2, ReturningPreserves
<1>3. CASE r \in Installed /\ Goto(t, step)
  <2>1. step \in Job /\ job' = [job EXCEPT ![t] = step] /\ job \in [Threads -> Job]
    BY <1>1, <1>3 DEF Job, TypeOK, Goto
  <2>2. TypeOK'
    BY <1>1, <2>1 DEF TypeOK, Installed, Rest
  <2>3. LockDiscipline'
    BY <1>1, <2>1, EngineAssumption DEF LockDiscipline, Idle
  <2>4. NoOrphanLibrary'
    BY <1>1, <2>1 DEF NoOrphanLibrary, Installed, Rest
  <2>5. LibraryStaysPut' /\ ClosedFirst'
    BY <1>1, <1>3, <2>1 DEF LibraryStaysPut, ClosedFirst, Installed
  <2> QED BY <2>2, <2>3, <2>4, <2>5 DEF IInv
<1> QED BY <1>2, <1>3 DEF Evaluate

LEMMA DebugPreserves ==
  ASSUME IInv, NEW t \in Threads, Debug(t)
  PROVE  IInv'
<1>1. RLock(t) /\ job[t].op = "idle" /\ Goto(t, Returning)
      /\ Rest /\ UNCHANGED <<knowledgeLibraries, cleaner, orphans, pending>>
  BY DEF Debug, RLock, Idle
<1> QED BY <1>1, ReturningPreserves

LEMMA ClosePreserves ==
  ASSUME IInv, NEW t \in Threads, Close(t)
  PROVE  IInv'
<1> DEFINE step == [op |-> "clearing"]
<1>1. /\ TypeOK /\ LockDiscipline
      /\ job[t].op = "locking" /\ writer = t /\ readers = {} /\ UNCHANGED <<writer, readers>>
      /\ job' = [job EXCEPT ![t] = step] /\ knowledgeLibraries' = <<>>
      /\ orphans' = {} /\ Rest /\ UNCHANGED <<cleaner, pending>>
  BY DEF IInv, Close, Locked, Goto, LockDiscipline, locks
<1>2. job \in [Threads -> Job] /\ step \in Job
  BY <1>1 DEF TypeOK, Job
<1>3. \A u \in Threads \ {t} : job'[u] = Idle
  BY <1>1, <1>2, Alone
<1>4. knowledgeLibraries' \in [Installed' -> WellFormed] /\ Installed' = {}
  BY <1>1 DEF Installed
<1>5. TypeOK'
  BY <1>1, <1>2, <1>4 DEF TypeOK, Rest
<1>6. LockDiscipline'
  BY <1>1, <1>2, <1>3, EngineAssumption DEF LockDiscipline, Idle
<1>7. NoOrphanLibrary' /\ ClosedFirst'
  BY <1>4 DEF NoOrphanLibrary, ClosedFirst
<1>8. LibraryStaysPut'
  BY <1>1, <1>2, <1>3 DEF LibraryStaysPut, Idle
<1> QED BY <1>5, <1>6, <1>7, <1>8 DEF IInv

LEMMA ClearCachePreserves ==
  ASSUME IInv, NEW t \in Threads, ClearCache(t)
  PROVE  IInv'
<1>1. /\ TypeOK /\ LockDiscipline /\ NoOrphanLibrary /\ LibraryStaysPut /\ ClosedFirst
      /\ job[t].op = "clearing" /\ localCache!Clear /\ OnEvicted
      /\ job' = [job EXCEPT ![t] = Returning]
      /\ UNCHANGED <<knowledgeLibraries, writer, readers, cleaner, orphans>>
  BY DEF IInv, ClearCache, Goto, locks
<1>2. job \in [Threads -> Job] /\ Returning \in Job
  BY <1>1 DEF TypeOK, Job
<1>3. CacheTypeOK' /\ pending' \in [Rules -> Nat]
  BY <1>1, ClearStep, CacheTypeFromInvariant, OnEvictedStep DEF TypeOK
<1>4. Installed' = {}
  BY <1>1 DEF ClosedFirst, Installed
<1>5. TypeOK'
  BY <1>1, <1>2, <1>3 DEF TypeOK, CacheTypeOK, Installed
<1>6. LockDiscipline'
  <2>1. writer = t /\ readers = {} /\ writer \notin Rules
    BY <1>1, EngineAssumption DEF LockDiscipline
  <2> QED BY <1>1, <1>2, <2>1 DEF LockDiscipline, Idle, Returning
<1>7. LibraryStaysPut'
  BY <1>1, <1>2 DEF LibraryStaysPut, Installed, Returning
<1> QED BY <1>4, <1>5, <1>6, <1>7 DEF IInv, NoOrphanLibrary, ClosedFirst

LEMMA ReturnPreserves ==
  ASSUME IInv, NEW t \in Threads, Return(t)
  PROVE  IInv'
<1>1. /\ TypeOK /\ LockDiscipline /\ NoOrphanLibrary /\ LibraryStaysPut /\ ClosedFirst
      /\ job[t].op \in {"returning", "executing"}
      /\ writer' = IF writer = t THEN NoOne ELSE writer
      /\ readers' = readers \ {t}
      /\ job' = [job EXCEPT ![t] = Idle]
      /\ Rest /\ UNCHANGED <<knowledgeLibraries, cleaner, orphans, pending>>
  BY DEF IInv, Return, Goto
<1>2. job \in [Threads -> Job] /\ Idle \in Job
  BY <1>1 DEF TypeOK, Job
<1>3. TypeOK'
  BY <1>1, <1>2 DEF TypeOK, Rest, Installed
<1>4. LockDiscipline'
  BY <1>1, <1>2, EngineAssumption DEF LockDiscipline, Idle
<1>5. NoOrphanLibrary' /\ LibraryStaysPut' /\ ClosedFirst'
  BY <1>1, <1>2 DEF NoOrphanLibrary, LibraryStaysPut, ClosedFirst, Installed, Rest, Idle
<1> QED BY <1>3, <1>4, <1>5 DEF IInv

LEMMA CleanerLocksPreserves ==
  ASSUME IInv, CleanerLocks
  PROVE  IInv'
<1>1. /\ TypeOK /\ LockDiscipline /\ NoOrphanLibrary /\ LibraryStaysPut /\ ClosedFirst
      /\ cleaner' = "sweeping" /\ Rest
      /\ UNCHANGED <<knowledgeLibraries, writer, readers, job, orphans, pending>>
  BY DEF IInv, CleanerLocks, locks
<1>2. TypeOK'
  BY <1>1 DEF TypeOK, Installed, Rest
<1>3. LockDiscipline'
  BY <1>1 DEF LockDiscipline
<1>4. NoOrphanLibrary' /\ LibraryStaysPut' /\ ClosedFirst'
  BY <1>1 DEF NoOrphanLibrary, LibraryStaysPut, ClosedFirst, Installed, Rest
<1> QED BY <1>2, <1>3, <1>4 DEF IInv

LEMMA SweepPreserves ==
  ASSUME IInv, NEW ks \in SUBSET Rules, Sweep(ks)
  PROVE  IInv'
<1>1. /\ TypeOK /\ LockDiscipline /\ NoOrphanLibrary /\ LibraryStaysPut /\ ClosedFirst
      /\ answer' = {} /\ localCache!Lose(ks, {"Expiration"}) /\ OnEvicted
      /\ cleaner' = "waiting"
      /\ UNCHANGED <<knowledgeLibraries, writer, readers, job, orphans>>
  BY DEF IInv, Sweep, localCache!Remove, locks
<1>2. CacheStep
  BY <1>1, ExpireStep, CacheTypeFromInvariant
<1>3. /\ pending' \in [Rules -> Nat]
      /\ \A x \in Rules : pending[x] > 0 \/ x \in Dropped => pending'[x] > 0
  BY <1>1, OnEvictedStep DEF TypeOK
<1>4. TypeOK'
  BY <1>1, <1>2, <1>3 DEF TypeOK, CacheStep, CacheTypeOK, Installed
<1>5. LockDiscipline'
  BY <1>1, <1>3 DEF LockDiscipline
<1>6. NoOrphanLibrary'
  <2>1. ASSUME NEW x \in Installed
        PROVE  \/ x \in DOMAIN store' \/ pending'[x] > 0 \/ x \in orphans'
               \/ \E t \in Threads : job'[t].op = "caching" /\ job'[t].rule = x
    <3>1. x \in Rules
      BY <1>1 DEF TypeOK
    <3> QED BY <1>1, <1>2, <1>3, <3>1 DEF NoOrphanLibrary, CacheStep, Reported
  <2> QED BY <1>1, <2>1 DEF NoOrphanLibrary, Installed
<1>7. LibraryStaysPut' /\ ClosedFirst'
  BY <1>1 DEF LibraryStaysPut, ClosedFirst, Installed
<1> QED BY <1>4, <1>5, <1>6, <1>7 DEF IInv

LEMMA TickPreserves ==
  ASSUME IInv, Tick \/ UNCHANGED vars
  PROVE  IInv'
<1>1. /\ TypeOK /\ LockDiscipline /\ NoOrphanLibrary /\ LibraryStaysPut /\ ClosedFirst
      /\ now' \in Nat
      /\ UNCHANGED <<store, defaultTTL, onEvicted, calls, answer,
                     knowledgeLibraries, writer, readers, job, cleaner, orphans, pending>>
  <2>1. now \in Nat
    BY DEF IInv, TypeOK
  <2>2. CASE Tick
    BY <2>1, <2>2 DEF IInv, Tick, localCache!Tick, locks
  <2>3. CASE UNCHANGED vars
    BY <2>1, <2>3 DEF IInv, vars, cache, locks
  <2> QED BY <2>2, <2>3
<1>2. TypeOK'
  BY <1>1 DEF TypeOK, Installed
<1> QED BY <1>1, <1>2
        DEF IInv, LockDiscipline, NoOrphanLibrary, LibraryStaysPut, ClosedFirst, Installed

LEMMA NextIInv == IInv /\ [Next]_vars => IInv'
<1> SUFFICES ASSUME IInv, [Next]_vars PROVE IInv'
  OBVIOUS
<1>1. ASSUME NEW t \in Threads, Write(t) PROVE IInv'
  <2>1. CASE Close(t)
    BY <2>1, ClosePreserves
  <2>2. CASE \E r \in Rules, st \in Statements, d \in Durations :
               AddRule(t, r, st, d) \/ BuildRule(t, r, st, d)
    <3>1. PICK r \in Rules, st \in Statements, d \in Durations :
            AddRule(t, r, st, d) \/ BuildRule(t, r, st, d)
      BY <2>2
    <3> QED BY <3>1, AddRulePreserves, BuildRulePreserves
  <2> QED BY <1>1, <2>1, <2>2 DEF Write
<1>2. ASSUME NEW t \in Threads, Read(t) PROVE IInv'
  BY <1>2, ContainsRulePreserves, EvaluatePreserves, DebugPreserves
     DEF Read, Execute, FetchMatching
<1>3. ASSUME NEW t \in Threads, ClaimLock(t) \/ UseCache(t) \/ Return(t) PROVE IInv'
  BY <1>3, ClaimLockPreserves, CacheSetPreserves, CacheSetPanicsPreserves, CacheGetPreserves,
     ClearCachePreserves, ReturnPreserves DEF UseCache
<1>4. ASSUME NEW r \in Rules, ClaimRemoval(r) \/ RemoveRule(r) PROVE IInv'
  BY <1>4, ClaimRemovalPreserves, RemoveRulePreserves
<1>5. ASSUME NEW ks \in SUBSET Rules, Sweep(ks) PROVE IInv'
  BY <1>5, SweepPreserves
<1>6. CASE CleanerLocks \/ Tick \/ UNCHANGED vars
  BY <1>6, CleanerLocksPreserves, TickPreserves
<1> QED BY <1>1, <1>2, <1>3, <1>4, <1>5, <1>6 DEF Next

--------------------------------------------------------------------------------
(* The theorems.                                                           *)

\* The strengthened invariant holds in every reachable state of the engine.
THEOREM Invariance == Spec => []IInv
<1> QED BY InitIInv, NextIInv, PTL DEF Spec

\* The engine's state keeps its shape, whatever the calls of its threads and the
\* evictions of its cache.
THEOREM TypeCorrectness == Spec => []TypeOK
<1>1. IInv => TypeOK
  BY DEF IInv
<1> QED BY <1>1, Invariance, PTL

\* s.mu is used as sync.RWMutex asks: one writer or any number of readers, and
\* only a thread that holds it alone changes the cache or the libraries.
THEOREM LocksAreDisciplined == Spec => []LockDiscipline
<1>1. IInv => LockDiscipline
  BY DEF IInv
<1> QED BY <1>1, Invariance, PTL

\* For any number of threads, rules and waiting removals, and any cache that tells
\* of what it loses, no library is left that nobody will remove (single_engine.go:49-58).
THEOREM NoLibraryIsForgotten == Spec => []NoOrphanLibrary
<1>1. IInv => NoOrphanLibrary
  BY DEF IInv
<1> QED BY <1>1, Invariance, PTL

\* No removal takes away the library a call works with (single_engine.go:64-69,
\* 171-187).
THEOREM LibraryUnderCallStays == Spec => []LibraryStaysPut
<1>1. IInv => LibraryStaysPut
  BY DEF IInv
<1> QED BY <1>1, Invariance, PTL

--------------------------------------------------------------------------------
(* SingleEngine implements EngineContract: an evaluation holds the read    *)
(* lock, and whoever changes the libraries holds the lock alone.           *)

ContractNext == [Contract!Next]_<<knowledgeLibraries, Evaluating>>

\* Without readers no library is in use.
LEMMA NoneInUse ==
  ASSUME LockDiscipline, readers = {}
  PROVE  \A r \in Rules : ~Contract!InUse(r)
<1>1. \A t \in Threads : job[t].op # "executing"
  BY DEF LockDiscipline
<1>2. \A t \in Threads : Evaluating[t] = {}
  BY <1>1 DEF Evaluating
<1> QED BY <1>2 DEF Contract!InUse

\* A thread that goes from one step to another without an evaluation.
LEMMA NotEvaluating ==
  ASSUME TypeOK, NEW t \in Threads, NEW step, Goto(t, step),
         job[t].op # "executing", step.op # "executing"
  PROVE  UNCHANGED Evaluating
<1>1. job' = [job EXCEPT ![t] = step] /\ job \in [Threads -> Job]
  BY DEF Goto, TypeOK
<1>2. \A u \in Threads : /\ job'[u].op = "executing" <=> job[u].op = "executing"
                         /\ job[u].op = "executing" => job'[u] = job[u]
  BY <1>1
<1> QED BY <1>2 DEF Evaluating

\* A step that installs nothing, in a call that does not evaluate.
LEMMA QuietStep ==
  ASSUME TypeOK, NEW t \in Threads, NEW step, Goto(t, step),
         job[t].op # "executing", step.op # "executing", UNCHANGED knowledgeLibraries
  PROVE  ContractNext
BY NotEvaluating DEF ContractNext

LEMMA BuildImplements ==
  ASSUME IInv, NEW t \in Threads, NEW r \in Rules, NEW st \in Statements, NEW d \in Durations,
         Locked(t), Build(r, st), Goto(t, Caching(r, d))
  PROVE  ContractNext
<1>1. TypeOK /\ LockDiscipline /\ readers = {} /\ job[t].op = "locking"
  BY DEF IInv, Locked
<1>2. Caching(r, d).op = "caching"
  BY DEF Caching
<1>3. UNCHANGED Evaluating
  BY <1>1, <1>2, NotEvaluating
<1>4. /\ st \in WellFormed
      /\ knowledgeLibraries' = Contract!Put(knowledgeLibraries, r, st)
  BY DEF Build, Put, Contract!Put
<1>5. ~Contract!InUse(r)
  BY <1>1, NoneInUse
<1>6. Contract!Install(r, st)
  BY <1>3, <1>4, <1>5 DEF Contract!Install
<1> QED BY <1>4, <1>6 DEF ContractNext, Contract!Next

LEMMA AddRuleImplements ==
  ASSUME IInv, NEW t \in Threads, NEW r \in Rules, NEW st \in Statements, NEW d \in Durations,
         AddRule(t, r, st, d)
  PROVE  ContractNext
<1>1. TypeOK /\ Locked(t) /\ job[t].op = "locking"
  BY DEF IInv, AddRule, Locked
<1>2. CASE Build(r, st) /\ Goto(t, Caching(r, d))
  BY <1>1, <1>2, BuildImplements
<1>3. CASE Goto(t, Returning) /\ UNCHANGED knowledgeLibraries
  BY <1>1, <1>3, QuietStep DEF Returning
<1> QED BY <1>2, <1>3 DEF AddRule

LEMMA BuildRuleImplements ==
  ASSUME IInv, NEW t \in Threads, NEW r \in Rules, NEW st \in Statements, NEW d \in Durations,
         BuildRule(t, r, st, d)
  PROVE  ContractNext
<1>1. TypeOK /\ Locked(t) /\ job[t].op = "locking"
  BY DEF IInv, BuildRule, Locked
<1>2. CASE Build(r, st) /\ Goto(t, Caching(r, d))
  BY <1>1, <1>2, BuildImplements
<1>3. CASE Goto(t, Returning) /\ UNCHANGED knowledgeLibraries
  BY <1>1, <1>3, QuietStep DEF Returning
<1>4. CASE Goto(t, Caching(r, d)) /\ UNCHANGED knowledgeLibraries
  BY <1>1, <1>4, QuietStep DEF Caching
<1> QED BY <1>2, <1>3, <1>4 DEF BuildRule

LEMMA CloseImplements ==
  ASSUME IInv, NEW t \in Threads, Close(t)
  PROVE  ContractNext
<1> DEFINE step == [op |-> "clearing"]
<1>1. /\ TypeOK /\ LockDiscipline /\ readers = {} /\ job[t].op = "locking"
      /\ knowledgeLibraries' = <<>> /\ Goto(t, step)
  BY DEF IInv, Close, Locked
<1>2. UNCHANGED Evaluating
  BY <1>1, NotEvaluating
<1>3. knowledgeLibraries' = Contract!Drop(knowledgeLibraries, Rules)
  <2>1. DOMAIN knowledgeLibraries \ Rules = {}
    BY <1>1 DEF TypeOK, Installed
  <2>2. Contract!Drop(knowledgeLibraries, Rules) = [x \in {} |-> knowledgeLibraries[x]]
    BY <2>1 DEF Contract!Drop
  <2>3. [x \in {} |-> knowledgeLibraries[x]] = <<>>
    OBVIOUS
  <2> QED BY <1>1, <2>2, <2>3
<1>4. \A r \in Rules : ~Contract!InUse(r)
  BY <1>1, NoneInUse
<1>5. Contract!Forget(Rules)
  BY <1>2, <1>3, <1>4 DEF Contract!Forget
<1> QED BY <1>5 DEF ContractNext, Contract!Next

LEMMA RemoveRuleImplements ==
  ASSUME IInv, NEW r \in Rules, RemoveRule(r)
  PROVE  ContractNext
<1>1. /\ LockDiscipline /\ readers = {} /\ UNCHANGED job
      /\ knowledgeLibraries' = Contract!Drop(knowledgeLibraries, {r})
  BY DEF IInv, RemoveRule, Drop, Contract!Drop
<1>2. UNCHANGED Evaluating
  BY <1>1 DEF Evaluating
<1>3. \A x \in {r} : ~Contract!InUse(x)
  BY <1>1, NoneInUse
<1>4. Contract!Forget({r}) /\ {r} \in SUBSET Rules
  BY <1>1, <1>2, <1>3 DEF Contract!Forget
<1> QED BY <1>4 DEF ContractNext, Contract!Next

LEMMA EvaluateImplements ==
  ASSUME IInv, NEW t \in Threads, NEW r \in Rules, Evaluate(t, r)
  PROVE  ContractNext
<1> DEFINE step == [op |-> "executing", rule |-> r, library |-> knowledgeLibraries[r]]
<1>1. TypeOK /\ job[t] = Idle /\ job[t].op = "idle" /\ UNCHANGED knowledgeLibraries
  BY DEF IInv, Evaluate, RLock, Idle
<1>2. CASE Goto(t, Returning)
  BY <1>1, <1>2, QuietStep DEF Returning
<1>3. CASE r \in Installed /\ Goto(t, step)
  <2>1. job' = [job EXCEPT ![t] = step] /\ job \in [Threads -> Job]
    BY <1>1, <1>3 DEF Goto, TypeOK
  <2>2. Evaluating[t] = {}
    BY <1>1 DEF Evaluating
  <2>3. \A u \in Threads \ {t} : job'[u] = job[u]
    BY <2>1
  <2>4. /\ job'[t].op = "executing" /\ job'[t].rule = r
        /\ job'[t].library = knowledgeLibraries[r]
    BY <2>1
  <2>5. Evaluating' = [Evaluating EXCEPT ![t] = {[rule |-> r, library |-> knowledgeLibraries[r]]}]
    BY <2>3, <2>4 DEF Evaluating
  <2>6. Contract!Begin(t, r)
    BY <1>1, <1>3, <2>2, <2>5 DEF Contract!Begin, Installed
  <2> QED BY <2>6 DEF ContractNext, Contract!Next
<1> QED BY <1>2, <1>3 DEF Evaluate

LEMMA ReturnImplements ==
  ASSUME IInv, NEW t \in Threads, Return(t)
  PROVE  ContractNext
<1>1. /\ job' = [job EXCEPT ![t] = Idle] /\ job \in [Threads -> Job]
      /\ UNCHANGED knowledgeLibraries
  BY DEF IInv, Return, Goto, TypeOK
<1>2. (\A u \in Threads \ {t} : job'[u] = job[u]) /\ job'[t].op = "idle"
  BY <1>1 DEF Idle
<1>3. Evaluating' = [Evaluating EXCEPT ![t] = {}]
  BY <1>2 DEF Evaluating
<1>4. Contract!End(t)
  BY <1>1, <1>3 DEF Contract!End
<1> QED BY <1>4 DEF ContractNext, Contract!Next

\* The steps the contract does not see: waiting for the lock, the cache, the cleaner.
LEMMA ThreadStutters ==
  ASSUME IInv, NEW t \in Threads,
         \/ ClaimLock(t) \/ UseCache(t) \/ Debug(t)
         \/ \E r \in Rules : ContainsRule(t, r)
  PROVE  ContractNext
<1>1. TypeOK
  BY DEF IInv
<1>2. CASE ClaimLock(t)
  <2>1. /\ job[t].op = "idle" /\ Goto(t, [op |-> "locking"]) /\ UNCHANGED knowledgeLibraries
    BY <1>2 DEF ClaimLock, Claim, Idle
  <2> QED BY <1>1, <2>1, QuietStep
<1>3. CASE CacheSet(t) \/ CacheSetPanics(t)
  BY <1>1, <1>3, QuietStep DEF CacheSet, CacheSetPanics, Returning
<1>4. CASE CacheGet(t) \/ ClearCache(t)
  BY <1>1, <1>4, QuietStep DEF CacheGet, ClearCache, Returning
<1>5. CASE Debug(t)
  BY <1>1, <1>5, QuietStep DEF Debug, RLock, Idle, Returning
<1>6. CASE \E r \in Rules : ContainsRule(t, r)
  BY <1>1, <1>6, QuietStep DEF ContainsRule, RLock, Idle
<1> QED BY <1>2, <1>3, <1>4, <1>5, <1>6 DEF UseCache

LEMMA UnseenStutters ==
  ASSUME UNCHANGED <<knowledgeLibraries, job>>
  PROVE  ContractNext
BY DEF ContractNext, Evaluating

LEMMA InitImplements == Init => Contract!Init
<1> SUFFICES ASSUME Init PROVE Contract!Init
  OBVIOUS
<1>1. \A t \in Threads : job[t].op = "idle"
  BY DEF Init, Idle
<1>2. Evaluating = [t \in Threads |-> {}]
  BY <1>1 DEF Evaluating
<1> QED BY <1>2 DEF Init, Contract!Init

LEMMA NextImplements == IInv /\ [Next]_vars => ContractNext
<1> SUFFICES ASSUME IInv, [Next]_vars PROVE ContractNext
  OBVIOUS
<1>1. ASSUME NEW t \in Threads, Write(t) PROVE ContractNext
  <2>1. CASE Close(t)
    BY <2>1, CloseImplements
  <2>2. CASE \E r \in Rules, st \in Statements, d \in Durations :
               AddRule(t, r, st, d) \/ BuildRule(t, r, st, d)
    <3>1. PICK r \in Rules, st \in Statements, d \in Durations :
            AddRule(t, r, st, d) \/ BuildRule(t, r, st, d)
      BY <2>2
    <3> QED BY <3>1, AddRuleImplements, BuildRuleImplements
  <2> QED BY <1>1, <2>1, <2>2 DEF Write
<1>2. ASSUME NEW t \in Threads, Read(t) PROVE ContractNext
  BY <1>2, EvaluateImplements, ThreadStutters DEF Read, Execute, FetchMatching
<1>3. ASSUME NEW t \in Threads, ClaimLock(t) \/ UseCache(t) \/ Return(t) PROVE ContractNext
  BY <1>3, ThreadStutters, ReturnImplements
<1>4. ASSUME NEW r \in Rules, ClaimRemoval(r) \/ RemoveRule(r) PROVE ContractNext
  <2>1. CASE ClaimRemoval(r)
    BY <2>1, UnseenStutters DEF ClaimRemoval, Claim
  <2>2. CASE RemoveRule(r)
    BY <2>2, RemoveRuleImplements
  <2> QED BY <1>4, <2>1, <2>2
<1>5. ASSUME NEW ks \in SUBSET Rules, Sweep(ks) PROVE ContractNext
  BY <1>5, UnseenStutters DEF Sweep
<1>6. CASE CleanerLocks \/ Tick
  BY <1>6, UnseenStutters DEF CleanerLocks, Tick
<1>7. CASE UNCHANGED vars
  BY <1>7, UnseenStutters DEF vars
<1> QED BY <1>1, <1>2, <1>3, <1>4, <1>5, <1>6, <1>7 DEF Next

\* For any number of threads and rules and any cache that reports what it loses, a
\* call evaluates the library its rule had when the call began, and no eviction,
\* expiration, update or Close touches that library until the call is over
\* (single_engine.go:64-69, 95-102, 129-194).
THEOREM EngineRefinement == Spec => ImplementsEngineContract
<1>1. IInv /\ [Next]_vars => [Contract!Next]_<<knowledgeLibraries, Evaluating>>
  BY NextImplements DEF ContractNext
<1>2. Init => Contract!Init
  BY InitImplements
<1> QED BY <1>1, <1>2, Invariance, PTL DEF Spec, ImplementsEngineContract, Contract!Spec, Contract!vars
================================================================================
