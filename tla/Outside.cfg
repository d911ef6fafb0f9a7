SPECIFICATION FairSpec
CONSTANTS
  None = None
  Name = {a1}
  Uid = {u1, u2}
  Cred = {p1, p2}
  CodeTries = 2
  FreeTries = 1
  MaxOps = 4
  Ops <- MCOutside
INVARIANTS TypeOK SuspendedLoggedOut
PROPERTIES LogoutsReachIrcd
CHECK_DEADLOCK FALSE
