SPECIFICATION Spec
SYMMETRY MCSymmetry
CONSTANTS
  None = None
  a1 = a1
  a2 = a2
  Scenes = {"memos", "bans", "desks", "standing", "vhosts", "expiry",
            "bots", "profile", "chess", "games", "boards", "logfile"}
INVARIANTS
  TypeOK
  StoresReplay NumbersStand NothingInherited OneHolder
  IrcdAgrees CountsHold RefereesAreRight
PROPERTIES
  TakesWhatItShould GivenByRight
CHECK_DEADLOCK FALSE
