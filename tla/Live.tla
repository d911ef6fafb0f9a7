--------------------------------- MODULE Live ---------------------------------
(***************************************************************************)
(* What the engine watches as it happens, each part by itself: a behaviour *)
(* looks at one module, which its scene names.  A module's state is under  *)
(* its own names, so that some names are of more than one module; what a   *)
(* scene does not look at is 0.                                            *)
(***************************************************************************)
EXTENDS Naturals, FiniteSets, Sequences

CONSTANTS
    Scenes,        \* which of the modules a run looks at
    None,
    MaxNow, MaxOps,    \* bounds, by scene

    Chan, Mask, Pattern, MaxList,                      \* ChanSettings

    Speaker, Nick, Host, Nick0, Spared, Immune,  \* Kickers
    FloodLines, FloodSecs, RepeatTimes, Ttb, BanExpire, Threshold, VoteTtl,

    User, Account, Grouped, Plans, Settable, MaxQueue, \* Status

    Suspect, Ip, Subnet, Exempt, Permit, Life,   \* Security
    AnnouncePermit, AnnounceLife, EvadeTtl, Grace, Hour, GcEvery,

    Caller, Cost, CmdBurst, CmdRefill, RegBurst, RegRefill,   \* Limits
    DictBurst, DictRefill, WarnEvery, SweepEvery

\* Where a None may stand, nothing else is one.
ASSUME NoneAssumption ==
    /\ None \notin {"caps", "flood", "repeat", "warn", "kick", "ban", "CAPS", "t", "vote"}
    /\ None \notin Nick
    /\ None \notin [start : Nat, lines : Nat, last : {None, "CAPS", "t", "vote"}, repeats : Nat, kicks : Nat, warned : BOOLEAN]
    /\ None \notin [voters : SUBSET Speaker, started : Nat]
    /\ None \notin [lock : [n : {"", "+", "-"}, f : {"", "-", "p", "q"}], keep : BOOLEAN, tlock : BOOLEAN, topic : Nat]

ASSUME KickersAssumption ==
    /\ IsFiniteSet(Speaker)
    /\ Nick0 \in [Speaker -> Nick] /\ \A u, v \in Speaker : Nick0[u] = Nick0[v] => u = v
    /\ {FloodLines, Ttb, Threshold} \subseteq Nat \ {0}
    /\ {FloodSecs, RepeatTimes, BanExpire, VoteTtl} \subseteq Nat
    /\ MaxNow["kickers"] \in Nat /\ FloodSecs < MaxNow["kickers"]
    /\ MaxOps["kickers"] \in Nat

ASSUME StatusAssumption ==
    /\ IsFiniteSet(User)
    /\ Settable \subseteq {"secureops", "securevoices", "restricted", "noautoop", "peace"}
    /\ \A p \in Plans : p.ops \in Nat
    /\ MaxQueue \in Nat

ASSUME LocksAssumption == MaxOps["locks"] \in Nat

\* "Detector windows are all far shorter than an hour" (counter.rs:54).
ASSUME SecurityAssumption ==
    /\ {Permit, Life, AnnouncePermit, AnnounceLife, EvadeTtl, Grace, Hour, MaxNow["security"]} \subseteq Nat
    /\ Life <= Hour /\ AnnounceLife <= Hour
    /\ None \notin Suspect

ASSUME LimitsAssumption ==
    /\ {Cost, CmdBurst, CmdRefill, RegBurst, RegRefill, DictBurst, DictRefill, WarnEvery, SweepEvery} \subseteq Nat
    /\ Cost <= CmdBurst
    /\ Caller \cap {"register", "lookup"} = {} /\ None \notin Nat

VARIABLES
    scene,
    \* of more than one
    now, ops, nick, account, seen, up, down, lines, reg, spent,
    \* ChanSettings
    mem, disk, lockdown, cache, copied, drifted, born, hurried,
    \* Kickers
    there, banned, members, chatter, votes, pending, ladder, ballots, inherited, voted, lost,
    \* Status
    chan, knick, on, voices, bans, touched, illicit, unwelcome, plan,
    \* Locks
    modes, topic, stray, bad, astray,
    \* Security
    mode, windows, hits, quiet, evaded, online, events, acted, split,
    \* Limits
    cmd, swept, dict, calls, ran, told

ofSettings == <<mem, disk, lockdown, cache, copied, drifted, born, hurried>>
ofKickers == <<there, banned, members, chatter, votes, pending, ladder, ballots, inherited, voted, lost>>
ofStatus == <<chan, knick, on, voices, bans, touched, illicit, unwelcome, plan>>
ofLocks == <<modes, topic, stray, bad, astray>>
ofSecurity == <<mode, windows, hits, quiet, evaded, online, events, acted, split>>
ofLimits == <<cmd, swept, dict, calls, ran, told>>

vars == <<scene, now, ops, nick, account, seen, up, down, lines, reg, spent,
          ofSettings, ofKickers, ofStatus, ofLocks, ofSecurity, ofLimits>>

-----------------------------------------------------------------------------
HostOf(u) == Host[u]
NickOf(u) == Nick0[u]
IpOf(u) == Ip[u]
SubnetOf(u) == Subnet[u]

Sett == INSTANCE ChanSettings WITH
        MaxNow <- MaxNow["settings"], MaxOps <- MaxOps["settings"]

ASSUME SettingsAssumption ==
    /\ Mask # {} /\ Pattern # {} /\ MaxList \in Nat \ {0}
    /\ MaxNow["settings"] \in Nat /\ MaxOps["settings"] \in Nat
    /\ None \notin Sett!Rec

Kick == INSTANCE Kickers WITH
        User <- Speaker, Here <- Speaker, Host <- HostOf, Nick0 <- NickOf,
        MaxNow <- MaxNow["kickers"], MaxOps <- MaxOps["kickers"]

Stat == INSTANCE Status

Lock == INSTANCE Locks WITH MaxOps <- MaxOps["locks"]

Sec == INSTANCE Security WITH
        Account <- Suspect, Ip <- IpOf, Subnet <- SubnetOf,
        MaxNow <- MaxNow["security"], MaxEvents <- MaxOps["security"]

Limit == INSTANCE Limits WITH
        Host <- Caller,
        MaxNow <- MaxNow["limits"], MaxCalls <- MaxOps["limits"]

-----------------------------------------------------------------------------
NoSettings == mem = 0 /\ disk = 0 /\ lockdown = 0 /\ cache = 0 /\ copied = 0 /\ drifted = 0 /\ born = 0 /\ hurried = 0

NoKickers ==
    /\ there = 0 /\ banned = 0 /\ members = 0 /\ chatter = 0 /\ votes = 0 /\ pending = 0
    /\ ladder = 0 /\ ballots = 0 /\ inherited = 0 /\ voted = 0 /\ lost = 0

NoStatus ==
    /\ chan = 0 /\ knick = 0 /\ on = 0 /\ voices = 0 /\ bans = 0 /\ touched = 0
    /\ illicit = 0 /\ unwelcome = 0 /\ plan = 0

NoLocks == modes = 0 /\ topic = 0 /\ stray = 0 /\ bad = 0 /\ astray = 0

NoSecurity ==
    /\ mode = 0 /\ windows = 0 /\ hits = 0 /\ quiet = 0 /\ evaded = 0 /\ online = 0
    /\ events = 0 /\ acted = 0 /\ split = 0

NoLimits == cmd = 0 /\ swept = 0 /\ dict = 0 /\ calls = 0 /\ ran = 0 /\ told = 0

InitSettings ==
    /\ Sett!Init
    /\ nick = 0 /\ account = 0 /\ seen = 0 /\ up = 0 /\ down = 0 /\ lines = 0 /\ reg = 0 /\ spent = 0
    /\ NoKickers /\ NoStatus /\ NoLocks /\ NoSecurity /\ NoLimits

InitKickers ==
    /\ Kick!Init
    /\ account = 0 /\ seen = 0 /\ up = 0 /\ reg = 0 /\ spent = 0
    /\ NoSettings /\ NoStatus /\ NoLocks /\ NoSecurity /\ NoLimits

InitStatus ==
    /\ Stat!Init
    /\ now = 0 /\ lines = 0 /\ reg = 0
    /\ NoSettings /\ NoKickers /\ NoLocks /\ NoSecurity /\ NoLimits

InitLocks ==
    /\ Lock!Init
    /\ now = 0 /\ ops = 0 /\ nick = 0 /\ account = 0 /\ seen = 0 /\ lines = 0
    /\ NoSettings /\ NoKickers /\ NoStatus /\ NoSecurity /\ NoLimits

InitSecurity ==
    /\ Sec!Init
    /\ ops = 0 /\ nick = 0 /\ up = 0 /\ down = 0 /\ reg = 0 /\ spent = 0
    /\ NoSettings /\ NoKickers /\ NoStatus /\ NoLocks /\ NoLimits

InitLimits ==
    /\ Limit!Init
    /\ ops = 0 /\ nick = 0 /\ account = 0 /\ seen = 0 /\ up = 0 /\ down = 0 /\ lines = 0 /\ spent = 0
    /\ NoSettings /\ NoKickers /\ NoStatus /\ NoLocks /\ NoSecurity

Init ==
    /\ scene \in Scenes
    /\ (scene = "settings" => InitSettings)
    /\ (scene = "kickers" => InitKickers)
    /\ (scene = "status" => InitStatus)
    /\ (scene = "locks" => InitLocks)
    /\ (scene = "security" => InitSecurity)
    /\ (scene = "limits" => InitLimits)

\* What a module does leaves the rest as it is.
Next ==
    /\ UNCHANGED scene
    /\ \/ /\ scene = "settings" /\ Sett!Next
          /\ UNCHANGED <<nick, account, seen, up, down, lines, reg, spent,
                         ofKickers, ofStatus, ofLocks, ofSecurity, ofLimits>>
       \/ /\ scene = "kickers" /\ Kick!Next
          /\ UNCHANGED <<account, seen, up, reg, spent,
                         ofSettings, ofStatus, ofLocks, ofSecurity, ofLimits>>
       \/ /\ scene = "status" /\ Stat!Next
          /\ UNCHANGED <<now, lines, reg,
                         ofSettings, ofKickers, ofLocks, ofSecurity, ofLimits>>
       \/ /\ scene = "locks" /\ Lock!Next
          /\ UNCHANGED <<now, ops, nick, account, seen, lines,
                         ofSettings, ofKickers, ofStatus, ofSecurity, ofLimits>>
       \/ /\ scene = "security" /\ Sec!Next
          /\ UNCHANGED <<ops, nick, up, down, reg, spent,
                         ofSettings, ofKickers, ofStatus, ofLocks, ofLimits>>
       \/ /\ scene = "limits" /\ Limit!Next
          /\ UNCHANGED <<ops, nick, account, seen, up, down, lines, spent,
                         ofSettings, ofKickers, ofStatus, ofLocks, ofSecurity>>

Spec == Init /\ [][Next]_vars

-----------------------------------------------------------------------------
\* Every module's types.
TypeOK ==
    /\ scene = "settings" => Sett!TypeOK
    /\ scene = "kickers" => Kick!TypeOK
    /\ scene = "status" => Stat!TypeOK
    /\ scene = "locks" => Lock!TypeOK
    /\ scene = "security" => Sec!TypeOK
    /\ scene = "limits" => Limit!TypeOK

\* A restart brings a channel's settings back, half a COPY or a whole one; a
\* compiled badword or trigger list in use is the channel's; a mode lock
\* never locks a mode both ways or loses its value.
SettingsHold ==
    /\ scene = "settings" => Sett!SettingsReplay
    /\ scene = "settings" => Sett!ListsAreCurrent
    /\ scene = "settings" => Sett!LocksMakeSense

\* Once the link is quiet the engine knows who is on the channel, and who
\* has status but for what it changed itself.
PictureAgrees ==
    /\ scene = "status" => Stat!PictureAgrees

\* Once the link is quiet a channel obeys its rules: no operator whom
\* SECUREOPS or a denial forbids, nobody an auto-kick or RESTRICTED keeps
\* out, the modes as locked, the topic as stored and set by somebody who
\* may.
RulesHold ==
    /\ scene = "status" => Stat!NoIllicitOps
    /\ scene = "status" => Stat!UnwelcomeLeave
    /\ scene = "locks" => Lock!LockHolds
    /\ scene = "locks" => Lock!NoForeignTopic
    /\ scene = "locks" => Lock!TopicIsStored

\* A ban a kicker set is waiting to be lifted, or lifted, or set for good,
\* unless a vote set it or the list was lost with a UserCert or a restart.
EveryBanHasItsEnd == scene = "kickers" => Kick!EveryBanHasItsEnd

\* Counters and windows count right at their edges: a kick for a flood is
\* for one, a ban follows its warning and kicks, a window holds every hit
\* that still counts, the staff feed and every bucket keep to their limits,
\* and nobody is throttled untold.
CountedRight ==
    /\ scene = "kickers" => Kick!FloodMeansFlood
    /\ scene = "kickers" => Kick!LadderClimbed
    /\ scene = "security" => Sec!WindowsComplete
    /\ scene = "security" => Sec!FeedBounded
    /\ scene = "limits" => Limit!Metered
    /\ scene = "limits" => Limit!ToldBeforeDropped

\* What is done has its cause: a vote has enough voters within its time, a
\* channel is registered by its operator, a screen acts on a key when and
\* only when its limit is exceeded and never just after a split, a COPY that
\* says so has copied all.
DoneForCause ==
    [][/\ scene = "kickers" => Kick!FairVote
       /\ scene = "status" => Stat!RegisteredByItsOp
       /\ scene = "security" => Sec!ActedOnFloods
       /\ scene = "security" => Sec!QuietAfterSplit
       /\ scene = "settings" => Sett!CopiedIsCopied]_vars
=============================================================================
