\* Three nodes of two replicas on eight hashes: every placement without a collision,
\* with arcs that wrap around and gaps on either side.  Nothing stops.
CONSTANTS
  Nodes = {n1, n2, n3}
  NoNode = NoNode
  Replicas = 2
  MaxHash = 7
  CollisionFree = TRUE
SPECIFICATION Spec
SYMMETRY Symmetry
INVARIANTS TypeOK RingIsDetermined LookupFindsNode
PROPERTY MinimalRemapping
