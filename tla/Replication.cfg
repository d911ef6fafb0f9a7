SPECIFICATION Spec
SYMMETRY MCSymmetry
CONSTANTS
  n1 = n1
  n2 = n2
  g1 = g1
  g2 = g2
  l1 = l1
  None = None
  Node = {n1, n2}
  Event = {g1, g2, l1}
  GlobalEvent = {g1, g2}
  Links <- MCMesh
  Trust <- MCTrustAll
  Snapshots <- MCSnapshots
  MaxOps = 3
  MaxEpoch = 1
  MaxFaults = 1
  MaxDigests = 1
INVARIANTS
  TypeOK
  UniqueIds
  NoGaps
  VectorSurvivesRestart
  AlwaysOffered
  LogInOrder
