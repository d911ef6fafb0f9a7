SPECIFICATION Spec
CONSTANTS
  None = None
  a1 = a1
  a2 = a2
  Scenes = {"logfile"}
INVARIANT DoneIsKept
CHECK_DEADLOCK FALSE
