----------------------------- MODULE EngineContract ----------------------------
(***************************************************************************)
(* What a caller of engine.IGruleEngine is promised, however many caches   *)
(* and locks there are: a call evaluates the library its rule had when it  *)
(* began, and until it ends that library is neither replaced nor removed.  *)
(* A rule may be forgotten at any other time.                              *)
(***************************************************************************)
EXTENDS CacheCommon

CONSTANTS
  Threads,        \* goroutines that call the engine
  Rules,          \* rule names
  WellFormed      \* the texts of a rule that the rule builder accepts

VARIABLES
  libraries,      \* map from a rule to the statement its library was built from
  evaluating      \* for each thread, {} or what it evaluates

vars == <<libraries, evaluating>>

Init ==
  /\ libraries = <<>>
  /\ evaluating = [t \in Threads |-> {}]

InUse(r) == \E t \in Threads : \E call \in evaluating[t] : call.rule = r

\* AddRule, or BuildRule of a rule that is not there.
Install(r, st) ==
  /\ ~InUse(r)
  /\ libraries' = Put(libraries, r, st)
  /\ UNCHANGED evaluating

\* An eviction, an expiration or Close.
Forget(rs) ==
  /\ \A r \in rs : ~InUse(r)
  /\ libraries' = Drop(libraries, rs)
  /\ UNCHANGED evaluating

\* Execute and FetchMatching.  A rule that is not there is an error.
Begin(t, r) ==
  /\ evaluating[t] = {}
  /\ r \in DOMAIN libraries
  /\ evaluating' = [evaluating EXCEPT ![t] = {[rule |-> r, library |-> libraries[r]]}]
  /\ UNCHANGED libraries

End(t) ==
  /\ evaluating' = [evaluating EXCEPT ![t] = {}]
  /\ UNCHANGED libraries

Next ==
  \/ \E r \in Rules, st \in WellFormed : Install(r, st)
  \/ \E rs \in SUBSET Rules : Forget(rs)
  \/ \E t \in Threads : End(t) \/ \E r \in Rules : Begin(t, r)

Spec == Init /\ [][Next]_vars
================================================================================
