------------------------------ MODULE MCServices ------------------------------
(* Small instances for TLC of what services keep, each part by itself: a   *)
(* behaviour looks at one module, which its scene names.                   *)
EXTENDS Naturals, FiniteSets, TLC

CONSTANTS
    Scenes,        \* which of the modules a run looks at
    None, a1, a2

\* The variables of whichever module is looked at; those it does not need are 0.
VARIABLES
    scene,
    v1, v2, v3, v4, v5, v6, v7, v8, v9, v10, v11, v12, v13

vars == <<scene,
          v1, v2, v3, v4, v5, v6, v7, v8, v9, v10, v11, v12, v13>>

MCSymmetry == Permutations({a1, a2})

\* Two users, their accounts, and hosts made from the accounts' names.
Vhosts_Own == [a \in {a1, a2} |-> a]

-----------------------------------------------------------------------------
(* Chess positions: both may castle; a pawn may be taken in passing; pawns *)
(* about to promote; a mate and a stalemate at hand; the beginning.        *)

Rules == INSTANCE Chess WITH Positions <- {}, MaxPlies <- 0, board <- v1,
             turn <- v2, rights <- v3, ep <- v4, result <- v5, plies <- v6

W(k) == <<"w", k>>
B(k) == <<"b", k>>
Both == Rules!Colour \X {"K", "Q"}

Position(pieces, rights) ==
    [board |-> [s \in Rules!Square |-> IF s \in DOMAIN pieces THEN pieces[s] ELSE Rules!Empty],
     turn |-> "w", rights |-> rights, plies |-> 0]

Chess_Positions ==
    { Position(4 :> W("K") @@ 0 :> W("R") @@ 7 :> W("R")
               @@ 60 :> B("K") @@ 56 :> B("R") @@ 63 :> B("R"), Both),
      Position(4 :> W("K") @@ 12 :> W("P") @@ 8 :> W("P") @@ 33 :> W("P")
               @@ 60 :> B("K") @@ 29 :> B("P") @@ 51 :> B("P"), {}),
      Position(4 :> W("K") @@ 0 :> W("R") @@ 54 :> W("P")
               @@ 60 :> B("K") @@ 63 :> B("R") @@ 9 :> B("P"), {<<"w", "Q">>, <<"b", "K">>}),
      Position(4 :> W("K") @@ 0 :> W("R") @@ 9 :> W("R") @@ 62 :> B("K")
               @@ 53 :> B("P") @@ 54 :> B("P") @@ 55 :> B("P") @@ 48 :> B("R"), {}),
      Position(6 :> W("K") @@ 36 :> W("Q") @@ 56 :> B("K"), {}),
      [board |-> Rules!initial, turn |-> "w", rights |-> Both, plies |-> 0] }

-----------------------------------------------------------------------------
Memo == INSTANCE Memos WITH
        Name <- {a1, a2}, MaxMemos <- 2, MaxIgnore <- 1, MaxOps <- 4,
        store <- v1, lockdown <- v2, last <- v3, spent <- v4

Ban == INSTANCE Bans WITH
        Mask <- {"m1", "m2"}, AkillMasks <- {"m1"}, ForbidMasks <- {"m1"},
        PeerMasks <- {"m2"}, Durations <- {1, 100}, Forever <- 100,
        Quirks <- {}, MaxClock <- 2, MaxOps <- 4,
        mem <- v1, record <- v2, line <- v3, out <- v4, linked <- v5,
        clock <- v6, spent <- v7

Desk == INSTANCE Desks WITH
        Host <- {"h1", "h2"}, Staff <- {"o1"}, Server <- {"s1", "s2"},
        Nobody <- None, MaxQueue <- 2, Cooldown <- 1, MaxTime <- 3,
        MaxDeskOps <- 4,
        desk <- v1, log <- v2, times <- v3, desklock <- v4, time <- v5,
        seen <- v6

Stand == INSTANCE Standing WITH
        Name <- {a1, a2}, Present <- {a1, a2}, Group <- {"g1"},
        Founder <- "boss", MaxAlias <- 1, MaxFounded <- 1, MaxList <- 2,
        Quirks <- {}, MaxGrants <- 4,
        mem <- v1, log <- v2, locked <- v3, drifted <- v4, did <- v5

Vhost == INSTANCE Vhosts WITH
        Name <- {a1, a2}, User <- {a1, a2}, Start <- Vhosts_Own,
        Host <- {a1, a2}, Own <- Vhosts_Own, Cloak <- "cloak", Forever <- 100,
        Cooldown <- 1, MaxNow <- 2, MaxOps <- 4,
        mem <- v1, log <- v2, asked <- v3, sess <- v4, cloak <- v5,
        shown <- v6, ro <- v7, now <- v8, hist <- v9

Expire == INSTANCE Expiry WITH
        Account <- {a1, a2}, Channel <- {"c1"}, Coalesce <- 1, Ttl <- 2,
        Lead <- 2, Forever <- 100, MaxNow <- 4, MaxOps <- 4,
        mem <- v1, disk <- v2, online <- v3, occupied <- v4, opers <- v5,
        readonly <- v6, now <- v7, swept <- v8, ops <- v9, used <- v10,
        told <- v11, spared <- v12, drifted <- v13

Bot == INSTANCE Bots WITH
        Bot <- {"b1", "b2"}, Channel <- {"c1", "c2"}, Ident <- {"i1", "i2"},
        MaxUid <- 7, MaxOps <- 6,
        mem <- v1, disk <- v2, uids <- v3, joined <- v4, next <- v5,
        clients <- v6, present <- v7, ops <- v8, settled <- v9,
        drifted <- v10, chosen <- v11, orphans <- v12

Prof == INSTANCE Profile WITH
        Account <- {"alice", "bob"}, User <- {a1, a2}, Cert <- {"x1", "x2"},
        Chan <- {"h1", "h2"}, MaxCert <- 1, MaxAjoin <- 1, MaxOps <- 4,
        mem <- v1, disk <- v2, lockdown <- v3, session <- v4, here <- v5,
        worn <- v6, moved <- v7, late <- v8, peered <- v9, drifted <- v10,
        spent <- v11

Ches == INSTANCE Chess WITH
        Positions <- Chess_Positions, MaxPlies <- 2,
        board <- v1, turn <- v2, rights <- v3, ep <- v4, result <- v5,
        plies <- v6

Game == INSTANCE Games WITH
        Conn <- {"c1", "c2"}, Account <- {a1, a2}, Nick <- {"n1", "n2", "n3"},
        MaxPerUser <- 1, MaxTotal <- 2, MaxOps <- 8,
        nick <- v1, account <- v2, life <- v3, games <- v4, nextid <- v5,
        ladder <- v6, ops <- v7

Board == INSTANCE Boards WITH
        C4_W <- 4, C4_H <- 4,
        kind <- v1, cells <- v2, turn <- v3, result <- v4

Line == INSTANCE LogFile WITH
        PeerClocks <- {1, 3}, MaxChanges <- 3, MaxEpoch <- 2, MaxFaults <- 2,
        file <- v1, synced <- v2, handle <- v3, entries <- v4, lamport <- v5,
        epoch <- v6, acked <- v7, offered <- v8, ghosts <- v9, torn <- v10,
        changes <- v11, faults <- v12

-----------------------------------------------------------------------------
Rest14 == TRUE
Still14 == UNCHANGED scene
Rest13 == Rest14 /\ v13 = 0
Still13 == Still14 /\ UNCHANGED <<v13>>
Rest12 == Rest13 /\ v12 = 0
Still12 == Still13 /\ UNCHANGED <<v12>>
Rest10 == Rest12 /\ v10 = 0 /\ v11 = 0
Still10 == Still12 /\ UNCHANGED <<v10, v11>>
Rest8 == Rest10 /\ v8 = 0 /\ v9 = 0
Still8 == Still10 /\ UNCHANGED <<v8, v9>>
Rest7 == Rest8 /\ v7 = 0
Still7 == Still8 /\ UNCHANGED <<v7>>
Rest6 == Rest7 /\ v6 = 0
Still6 == Still7 /\ UNCHANGED <<v6>>
Rest5 == Rest6 /\ v5 = 0
Still5 == Still6 /\ UNCHANGED <<v5>>

Init ==
    /\ scene \in Scenes
    /\ (scene = "memos" => Memo!Init /\ Rest5)
    /\ (scene = "bans" => Ban!Init /\ Rest8)
    /\ (scene = "desks" => Desk!Init /\ Rest7)
    /\ (scene = "standing" => Stand!Init /\ Rest6)
    /\ (scene = "vhosts" => Vhost!Init /\ Rest10)
    /\ (scene = "expiry" => Expire!Init)
    /\ (scene = "bots" => Bot!Init /\ Rest13)
    /\ (scene = "profile" => Prof!Init /\ Rest12)
    /\ (scene = "chess" => Ches!Init /\ Rest7)
    /\ (scene = "games" => Game!Init /\ Rest8)
    /\ (scene = "boards" => Board!Init /\ Rest5)
    /\ (scene = "logfile" => Line!Init /\ Rest13)

Next ==
    \/ scene = "memos" /\ Memo!Next /\ Still5
    \/ scene = "bans" /\ Ban!Next /\ Still8
    \/ scene = "desks" /\ Desk!Next /\ Still7
    \/ scene = "standing" /\ Stand!Next /\ Still6
    \/ scene = "vhosts" /\ Vhost!Next /\ Still10
    \/ scene = "expiry" /\ Expire!Next /\ Still14
    \/ scene = "bots" /\ Bot!Next /\ Still13
    \/ scene = "profile" /\ Prof!Next /\ Still12
    \/ scene = "chess" /\ Ches!Next /\ Still7
    \/ scene = "games" /\ Game!Next /\ Still8
    \/ scene = "boards" /\ Board!Next /\ Still5
    \/ scene = "logfile" /\ Line!Next /\ Still13

Spec == Init /\ [][Next]_vars

-----------------------------------------------------------------------------
\* Every module's types.
TypeOK ==
    /\ scene = "memos" => Memo!TypeOK
    /\ scene = "bans" => Ban!TypeOK
    /\ scene = "desks" => Desk!TypeOK
    /\ scene = "standing" => Stand!TypeOK
    /\ scene = "vhosts" => Vhost!TypeOK
    /\ scene = "expiry" => Expire!TypeOK
    /\ scene = "bots" => Bot!TypeOK
    /\ scene = "profile" => Prof!TypeOK
    /\ scene = "chess" => Ches!TypeOK
    /\ scene = "games" => Game!TypeOK
    /\ scene = "boards" => Board!TypeOK
    /\ scene = "logfile" => Line!TypeOK

\* A restart brings back what services had in memory, from whatever the log
\* still holds after refused writes and compactions: mailboxes, network
\* lists, desks, standing, vhosts, stamps, bots, account settings, and every
\* change that was reported as done (the store calls, the compaction
\* snapshot and apply).
StoresReplay ==
    /\ scene = "memos" => Memo!MailboxReplays
    /\ scene = "bans" => Ban!ListsReplay
    /\ scene = "desks" => Desk!DesksReplay
    /\ scene = "standing" => Stand!StandingReplays
    /\ scene = "vhosts" => Vhost!VhostsReplay
    /\ scene = "expiry" => Expire!StampsReplay
    /\ scene = "bots" => Bot!BotsReplay
    /\ scene = "profile" => Prof!SettingsReplay
    /\ scene = "logfile" => Line!DoneIsReadBack

\* A number that was given out stays one thing's: an entry's stamp and clock
\* over failed writes, crashes and compactions (EventLog); the id of a
\* report, ticket or bulletin after deletions (the stores' counters).
NumbersStand ==
    /\ scene = "logfile" => Line!StampsDiffer
    /\ scene = "logfile" => Line!ClockRuns
    /\ scene = "desks" => Desk!IdsStand

\* What comes next under a name starts with nothing: an account takes over
\* no access, alias, group or grant (purge_account_refs), a channel no bot
\* that is gone (bot_change), a connection no guest's games
\* (drop_guest_games).
NothingInherited ==
    /\ scene = "standing" => Stand!NothingInherited
    /\ scene = "bots" => Bot!AssignedToLiveBots
    /\ scene = "games" => Game!GuestGamesAreTheirOwn

\* A vhost or certificate is one account's, and no two users of different
\* accounts show one vhost while it is held (HostServ, certfp_add).
OneHolder ==
    /\ scene = "vhosts" => Vhost!OneOwner
    /\ scene = "vhosts" => Vhost!NoCollisionWhileHeld
    /\ scene = "profile" => Prof!OneHolder

\* The ircd shows and enforces what services keep: bans and no others, for
\* no longer than recorded, through peers' entries and relinks; each bot
\* once where it belongs; an account's lines on each of its sessions; the
\* cloak after a logout.
IrcdAgrees ==
    /\ scene = "bans" => Ban!InForce
    /\ scene = "bans" => Ban!NeverOutlasts
    /\ scene = "bots" => Bot!BotsInPlace
    /\ scene = "profile" => Prof!WornIsCurrent
    /\ scene = "vhosts" => Vhost!CloakComesBack

\* What is counted adds up: one receipt for a memo, one warning for an idle
\* spell, queues pruned to their cap, games within theirs, wins that equal
\* losses.
CountsHold ==
    /\ scene = "memos" => Memo!OneReceipt
    /\ scene = "expiry" => Expire!WarnedOnce
    /\ scene = "desks" => Desk!QueueBounded
    /\ scene = "games" => Game!CapsHold
    /\ scene = "games" => Game!LadderAddsUp

\* The boards of GameServ obey the rules: no king left in check, castling
\* and taking in passing only where they may be, and a game ends when, and
\* only when, it has.
RefereesAreRight ==
    /\ scene = "chess" => Ches!NotLeftInCheck
    /\ scene = "chess" => Ches!EndingIsReal
    /\ scene = "chess" => Ches!RightsAreReal
    /\ scene = "chess" => Ches!PassingIsReal
    /\ scene = "boards" => Board!NothingFloats
    /\ scene = "boards" => Board!VerdictIsRight

\* Nothing is taken away that should stay, and nothing stays that should go:
\* CANCEL and DEL ALL, pruning open items, expiry of what is in use or was
\* not warned about, a chess move.
TakesWhatItShould ==
    [][/\ scene = "memos" => Memo!RecallUnreadOnly
       /\ scene = "memos" => Memo!DelAllEmpties
       /\ scene = "desks" => Desk!OpenKept
       /\ scene = "expiry" => Expire!NeverEarly
       /\ scene = "expiry" => Expire!WarnedFirst
       /\ scene = "chess" => Ches!OneCapture]_vars

\* Founder rights in a group come from the founder or somebody he trusted
\* with them, FLAGS leaves a member's other flags alone, and no user or
\* APPROVE takes a forbidden vhost.
GivenByRight ==
    [][/\ scene = "standing" => Stand!FounderRightsTrusted
       /\ scene = "standing" => Stand!FlagsAccumulate
       /\ scene = "vhosts" => Vhost!ForbiddenNotGiven]_vars

\* "A committed account/channel change is on disk before we report success,
\* so a crash or power loss can't lose it" (EventLog::append).
DoneIsKept == scene = "logfile" => Line!DoneIsKept
=============================================================================
