SPECIFICATION Spec
SYMMETRY MCSymmetry
CONSTANTS
  None = None
  Name = {a1}
  Uid = {u1, u2}
  Cred = {p1, p2}
  CodeTries = 2
  FreeTries = 1
  MaxOps = 7
  Ops <- MCCommands
INVARIANTS SessionsStand PasswordForOwner
PROPERTIES NeverOverwritten FrozenMeansFrozen
CHECK_DEADLOCK FALSE
