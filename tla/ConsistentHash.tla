----------------------------- MODULE ConsistentHash ----------------------------
(***************************************************************************)
(* internal/consistenthash: a sorted slice of the hashes of the virtual    *)
(* nodes, and a map from a hash to the node it belongs to.  The slice may  *)
(* hold a hash twice, the map cannot.  Every method holds c.mu for its     *)
(* whole length and is one action, or an operator when it only reads.      *)
(***************************************************************************)
EXTENDS Positions, SequencesExt

CONSTANTS
  Nodes,          \* real nodes
  NoNode,         \* the empty string, which a map lookup that fails returns
  Replicas,       \* c.replicas
  MaxHash,        \* bound: hashes are 0 to MaxHash
  CollisionFree   \* whether no two virtual nodes have the same hash

ASSUME ConsistentHashAssumption ==
  /\ NoNode \notin Nodes
  /\ Replicas \in Nat
  /\ MaxHash \in Nat
  /\ CollisionFree \in BOOLEAN

VARIABLES
  hashFunc,       \* c.hashFunc, of the virtual nodes node + strconv.Itoa(i)
  keys,           \* c.keys
  nodeMap,        \* c.nodeMap
  nodes           \* c.nodes

vars == <<hashFunc, keys, nodeMap, nodes>>

Hashes == 0..MaxHash
VirtualNodes == Nodes \X (0..(Replicas - 1))

Init ==
  /\ hashFunc \in [VirtualNodes -> Hashes]
  /\ CollisionFree => IsInjective(hashFunc)
  /\ keys = <<>>
  /\ nodeMap = <<>>
  /\ nodes = {}

\* What a lookup of the Go map returns.
NodeAt(map, h) == IF h \in DOMAIN map THEN map[h] ELSE NoNode

\* The hashes AddNode appends, in the order of the replicas.
HashesOf(n) == [i \in 1..Replicas |-> hashFunc[<<n, i - 1>>]]

\* sort.Slice: the i-th value from below.
SortedUp(s) ==
  LET Rank(h) == Cardinality({j \in DOMAIN s : s[j] < h})
  IN [i \in DOMAIN s |-> CHOOSE h \in ToSet(s) : Rank(h) < i /\ i <= Rank(h + 1)]

\* Mutant: no sort.
AddUnsorted(n) ==
  /\ n \notin nodes
  /\ nodes' = nodes \cup {n}
  /\ keys' = keys \o HashesOf(n)
  /\ nodeMap' = [h \in DOMAIN nodeMap \cup ToSet(HashesOf(n)) |->
                   IF h \in ToSet(HashesOf(n)) THEN n ELSE nodeMap[h]]
  /\ UNCHANGED hashFunc

\* A node that is there already is not added again.
AddNode(n) ==
  /\ n \notin nodes
  /\ nodes' = nodes \cup {n}
  /\ keys' = SortedUp(keys \o HashesOf(n))
  /\ nodeMap' = [h \in DOMAIN nodeMap \cup ToSet(HashesOf(n)) |->
                   IF h \in ToSet(HashesOf(n)) THEN n ELSE nodeMap[h]]
  /\ UNCHANGED hashFunc

\* The first occurrence of a hash of the node is left out and deletes it from the
\* map, where a second occurrence then finds no node, and stays.
Kept(n) ==
  {i \in DOMAIN keys : NodeAt(nodeMap, keys[i]) # n \/ \E j \in 1..(i - 1) : keys[j] = keys[i]}

\* Mutants: the slice is rebuilt from its end; the map keeps the hashes with an
\* empty name.
KeepReversed(n) ==
  /\ n \in nodes
  /\ nodes' = nodes \ {n}
  /\ keys' = Reverse(Only(keys, Kept(n)))
  /\ nodeMap' = [h \in {x \in DOMAIN nodeMap : nodeMap[x] # n} |-> nodeMap[h]]
  /\ UNCHANGED hashFunc
BlankInMap(n) ==
  /\ n \in nodes
  /\ nodes' = nodes \ {n}
  /\ keys' = Only(keys, Kept(n))
  /\ nodeMap' = [h \in DOMAIN nodeMap |-> IF nodeMap[h] = n THEN NoNode ELSE nodeMap[h]]
  /\ UNCHANGED hashFunc

RemoveNode(n) ==
  /\ n \in nodes
  /\ nodes' = nodes \ {n}
  /\ keys' = Only(keys, Kept(n))
  /\ nodeMap' = [h \in {x \in DOMAIN nodeMap : nodeMap[x] # n} |-> nodeMap[h]]
  /\ UNCHANGED hashFunc

\* sort.Search: the first position whose hash is not below h, one past the end when
\* there is none.
SearchIn(ring, h) ==
  LET above == {i \in DOMAIN ring : ring[i] >= h}
  IN IF above = {} THEN Len(ring) + 1 ELSE CHOOSE i \in above : \A j \in above : i <= j

\* Mutant: no wrap around.
LastAtEnd(ring, map, h) ==
  IF ring = <<>> THEN NoNode
  ELSE LET idx == SearchIn(ring, h)
       IN IF idx = Len(ring) + 1 THEN NoNode ELSE NodeAt(map, ring[idx])

\* GetNode, of a key whose hash is h, on the ring and the map it is given.
GetNodeOf(ring, map, h) ==
  IF ring = <<>> THEN NoNode
  ELSE LET idx == SearchIn(ring, h)
       IN NodeAt(map, ring[IF idx = Len(ring) + 1 THEN 1 ELSE idx])

GetNode(h) == GetNodeOf(keys, nodeMap, h)

Next == \E n \in Nodes : AddNode(n) \/ RemoveNode(n)

Spec == Init /\ [][Next]_vars

--------------------------------------------------------------------------------
(* Properties.                                                             *)

\* Every variable keeps the shape its Go counterpart has.
TypeOK ==
  /\ hashFunc \in [VirtualNodes -> Hashes]
  /\ keys \in Seq(Hashes)
  /\ nodes \subseteq Nodes
  /\ DOMAIN nodeMap \subseteq Hashes
  /\ nodeMap \in [DOMAIN nodeMap -> Nodes]

\* The ring is a function of the nodes that are in it now, whatever was added and
\* removed before, in whatever order: two processes that agree on the nodes agree on
\* every key (consistenthash.go:54-63, 76-85).
RingIsDetermined ==
  LET present == nodes \X (0..(Replicas - 1))
  IN /\ ToSet(keys) = {hashFunc[p] : p \in present}
     /\ \A i, j \in DOMAIN keys : i < j => keys[i] < keys[j]
     /\ DOMAIN nodeMap = {hashFunc[p] : p \in present}
     /\ \A p \in present : nodeMap[hashFunc[p]] = p[1]

\* "GetNode returns the node responsible for the given key" (consistenthash.go:88):
\* one of the nodes, as long as there is any.  Names make collisions whatever the hash
\* function: replica 11 of "node1" and replica 1 of "node11" hash the same string.
LookupFindsNode ==
  nodes # {} /\ Replicas > 0 => \A h \in Hashes : GetNode(h) \in nodes

\* "Efficient key distribution across partitions with minimal remapping on node
\* changes" (README.md:17): a new node takes keys and moves none between the others,
\* and a node that leaves moves its own keys only.
MinimalRemapping ==
  [][\A n \in Nodes, h \in Hashes :
       LET before == GetNode(h)
           after == GetNodeOf(keys', nodeMap', h)
       IN /\ nodes' = nodes \cup {n} => after \in {before, n}
          /\ nodes = nodes' \cup {n} /\ before # n => after = before]_vars
================================================================================
