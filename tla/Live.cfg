SPECIFICATION Spec
SYMMETRY MCSymmetry
CONSTANTS
  None = None
  u1 = u1
  u2 = u2
  Scenes = {"settings", "kickers", "status", "locks", "security", "limits"}
  MaxNow <- MCMaxNow
  MaxOps <- MCMaxOps
  Chan = {u1, u2}
  Mask = {"m1", "m2"}
  Pattern = {"p1", "p2"}
  MaxList = 1
  Speaker = {"alice", "bob", "carol"}
  Nick = {"n1", "n2", "n3"}
  Host <- Kickers_Host
  Nick0 <- Kickers_Nick
  Spared = {}
  Immune = {"carol"}
  FloodLines = 2
  FloodSecs = 1
  RepeatTimes = 1
  Ttb = 2
  BanExpire = 1
  Threshold = 2
  VoteTtl = 1
  User = {u1, u2}
  Account = {"alice", "bob"}
  Grouped = {"bob"}
  Plans <- Status_Plans
  Settable = {"secureops"}
  MaxQueue = 2
  Suspect = {"alice"}
  Ip <- Security_Ip
  Subnet <- Security_Subnet
  Exempt = {}
  Permit = 1
  Life = 1
  AnnouncePermit = 0
  AnnounceLife = 1
  EvadeTtl = 2
  Grace = 1
  Hour = 2
  GcEvery = 2
  Caller = {"h1"}
  Cost = 2
  CmdBurst = 4
  CmdRefill = 1
  RegBurst = 4
  RegRefill = 1
  DictBurst = 2
  DictRefill = 2
  WarnEvery = 4
  SweepEvery = 4
INVARIANTS
  TypeOK
  SettingsHold PictureAgrees RulesHold EveryBanHasItsEnd CountedRight
PROPERTY
  DoneForCause
CHECK_DEADLOCK FALSE
