SPECIFICATION MCSpec
SYMMETRY MCSymmetry
CONSTANTS
  None = None
  a1 = a1
  a2 = a2
  Scenes = {"stale_password"}
  Exercises <- MCExercises
  Node = {1, 2}
  Name = {a1, a2}
  Chan = {"#c"}
  Cred = {"p1", "p2"}
  Time = {1, 2}
  Links <- MCMesh
  Trust <- MCTrustAll
  CompactRatio = 0
  CompactSlack = 0
  MaxOps = 6
  MaxEpoch = 1
  MaxFaults = 1
  MaxDigests = 1
INVARIANT
  AccountsAgree
CHECK_DEADLOCK FALSE
