SPECIFICATION FairSpec
CONSTANTS
  None = None
  Gone = Gone
  a1 = a1
  a2 = a2
  n1 = n1
  n2 = n2
  User = {u1, u2}
  Account = {a1, a2}
  RegNick = {n1, n2}
  PlainNick = {p1}
  Owner0 <- MCOwner
  NickServSeq = 3
  MaxSteps = 4
INVARIANTS
  TypeOK
  TimersAreCurrent
PROPERTIES
  OnlyTheUnidentified
  WarnedMoveOn
CHECK_DEADLOCK FALSE
