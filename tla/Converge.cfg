SPECIFICATION FairSpec
CONSTANTS
  n1 = n1
  n2 = n2
  g1 = g1
  g2 = g2
  l1 = l1
  None = None
  Node = {n1, n2}
  Event = {g1, l1}
  GlobalEvent = {g1}
  Links <- MCMesh
  Trust <- MCTrustAll
  Snapshots <- MCSmallSnapshots
  MaxOps = 2
  MaxEpoch = 1
  MaxFaults = 1
  MaxDigests = 3
PROPERTY
  VectorsConverge
