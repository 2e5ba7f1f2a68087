----------------------------- MODULE MCSingleEngine ----------------------------
(* SingleEngine over one particular cache: see the cfg file for the values. *)
EXTENDS SingleEngine

\* An LRU cache with one place and no expiration: a rule leaves it when another
\* enters, and is told once, or when the cache is cleared.  It does not panic.
PlaceForOne ==
  /\ Cardinality(DOMAIN store') <= 1
  /\ \/ DOMAIN store' # {} \/ DOMAIN store = {}
     \/ \E t \in Threads : job[t].op = "clearing"
  /\ orphans' = {}
  /\ \A r \in Rules : pending'[r] > pending[r] => r \in DOMAIN store \ DOMAIN store'

SpecWithPlaceForOne == Init /\ [][Next /\ PlaceForOne]_vars
================================================================================
