SPECIFICATION Spec
CONSTANTS
  None = None
  Name = {a1}
  Uid = {u1}
  Cred = {p1}
  CodeTries = 2
  FreeTries = 1
  MaxOps = 4
  Ops <- MCLateLogin
INVARIANT SessionsBacked
CHECK_DEADLOCK FALSE
