CONSTANTS
  Nodes = {n1, n2}
  NoNode = NoNode
  Replicas = 2
  MaxHash = 3
  CollisionFree = FALSE
SPECIFICATION Spec
INVARIANT LookupFindsNode
