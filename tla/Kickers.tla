------------------------------- MODULE Kickers --------------------------------
(***************************************************************************)
(* BotServ's kickers and community votes in one channel with a bot: the    *)
(* counters the engine keeps of each speaker, the tallies it keeps of each *)
(* nick, the bans it has to lift again, and the ircd that carries out what *)
(* it is told a little later.                                              *)
(*                                                                         *)
(* What the ircd tells is handled at once; what the engine answers waits   *)
(* in `down`.  A kick of the engine's own is not told back to it, so the   *)
(* kicked user stays in the engine's picture of the channel.               *)
(* The channel's kickers are constants: CAPS, FLOOD, REPEAT and WARN are   *)
(* on, operators in Spared are not kicked.                                 *)
(***************************************************************************)
EXTENDS Naturals, Sequences, FiniteSets, SequencesExt

CONSTANTS
    User,          \* connections; one that quit does not come back
    Here,          \* those on the channel at the start
    Nick,
    None,
    Host(_),       \* the host of a connection
    Nick0(_),      \* its nick at the start, or the one it connects with
    Spared,        \* operators, spared by DONTKICKOPS
    Immune,        \* opers, operators and bots: no vote is taken on them
    FloodLines, FloodSecs, RepeatTimes, Ttb, BanExpire,
    Threshold,     \* VOTEKICK
    VoteTtl,       \* VOTE_TTL (120)
    MaxNow,        \* bound: seconds
    MaxOps         \* bound: lines and comings and goings

VARIABLES
    nick,          \* who is connected, under which nick
    there,         \* the ircd: who is on the channel
    banned,        \* the ircd: hosts banned from it
    members,       \* the engine: who is on the channel
    chatter,       \* the engine: counters of each speaker
    votes,         \* the engine: running tallies by nick
    pending,       \* the engine: kicker bans to be lifted
    down,          \* what the ircd has yet to carry out
    now,
    lines,         \* history: when each user spoke where FLOOD counts
    ladder,        \* history: warnings and kicks of each user since it came or was banned
    ballots,       \* history: who voted against which user, and when
    inherited,     \* history: nicks that changed hands under a tally
    voted,         \* history: hosts banned by a vote
    lost,          \* history: hosts whose unban was never sent
    ops            \* how much of MaxOps is spent

ircd == <<nick, there, banned>>
history == <<lines, ladder, ballots, inherited, voted, lost>>
vars == <<nick, there, banned, members, chatter, votes, pending, down, now, history, ops>>

Silent == [start |-> 0, lines |-> 0, last |-> None, repeats |-> 0, kicks |-> 0, warned |-> FALSE]

Rung == [warned |-> FALSE, kicks |-> 0]

Ban(h) == [op |-> "+b", on |-> h]
Unban(h) == [op |-> "-b", on |-> h]
KickOf(u) == [op |-> "kick", on |-> u]

-----------------------------------------------------------------------------
(* What every event begins with. *)

Due == {p \in pending : p.at <= now}

\* Mutant: the sweep empties the list.
sweep_unbans_all(new) == pending' = new

\* What is due is taken off the list.
sweep_unbans(new) == pending' = (pending \ Due) \cup new

Lifted == LET hosts == {p.host : p \in Due} IN SetToSeq({Unban(h) : h \in hosts})

\* The answer to an event, behind the unbans that came due.
Answer(acts, new) == sweep_unbans(new) /\ down' = down \o Lifted \o acts

Spend == ops < MaxOps /\ ops' = ops + 1 /\ UNCHANGED now

-----------------------------------------------------------------------------
(* A line, and what the kickers make of it. *)

\* Mutant: a new window keeps the old count.
Windowed_on(s) == IF now - s.start > FloodSecs THEN [s EXCEPT !.start = now] ELSE s

Windowed(s) == IF now - s.start > FloodSecs THEN [s EXCEPT !.start = now, !.lines = 0] ELSE s

\* FLOOD first; REPEAT looks only at a line that is no flood.
Counted(s, text) ==
    LET f == [Windowed(s) EXCEPT !.lines = @ + 1]
        r == IF text = f.last THEN [f EXCEPT !.repeats = @ + 1] ELSE [f EXCEPT !.repeats = 0, !.last = text]
    IN  IF f.lines >= FloodLines THEN [state |-> f, why |-> "flood"]
        ELSE [state |-> r, why |-> IF r.repeats >= RepeatTimes THEN "repeat" ELSE None]

\* Capitals trip before anything is counted.
Verdict(s, text) == IF text = "CAPS" THEN [state |-> s, why |-> "caps"] ELSE Counted(s, text)

\* Mutant: a warning is not remembered.
Punished_unwarned(s) ==
    IF s.kicks + 1 >= Ttb THEN [state |-> [s EXCEPT !.kicks = 0], does |-> "ban"]
    ELSE [state |-> [s EXCEPT !.kicks = @ + 1], does |-> "kick"]

\* A warning, then Ttb kicks, the last with a ban before it.
Punished(s) ==
    IF ~s.warned THEN [state |-> [s EXCEPT !.warned = TRUE], does |-> "warn"]
    ELSE IF s.kicks + 1 >= Ttb THEN [state |-> [s EXCEPT !.kicks = 0], does |-> "ban"]
    ELSE [state |-> [s EXCEPT !.kicks = @ + 1], does |-> "kick"]

Climbed(r, does) ==
    CASE does = "warn" -> [r EXCEPT !.warned = TRUE]
      [] does = "kick" -> [r EXCEPT !.kicks = @ + 1]
      [] does = "ban"  -> [r EXCEPT !.kicks = 0]
      [] OTHER         -> r

kicker_check(u, text) ==
    IF u \in Spared THEN Answer(<<>>, {}) /\ UNCHANGED <<chatter, lines, ladder>>
    ELSE LET s == IF chatter[u] = None THEN Silent ELSE chatter[u]
             v == Verdict(s, text)
             p == IF v.why = None THEN [state |-> v.state, does |-> None] ELSE Punished(v.state)
         IN  /\ chatter' = [chatter EXCEPT ![u] = p.state]
             /\ lines' = [lines EXCEPT ![u] = IF v.why = "caps" THEN @ ELSE Append(@, now)]
             /\ ladder' = [ladder EXCEPT ![u] = Climbed(@, p.does)]
             /\ CASE p.does = "kick" -> Answer(<<KickOf(u)>>, {})
                  [] p.does = "ban"  ->
                        Answer(<<Ban(Host(u)), KickOf(u)>>,
                               IF BanExpire > 0 THEN {[at |-> now + BanExpire, host |-> Host(u)]} ELSE {})
                  [] OTHER           -> Answer(<<>>, {})

Say(u, text) ==
    /\ Spend
    /\ u \in there
    /\ kicker_check(u, text)
    /\ UNCHANGED <<ircd, members, votes, ballots, inherited, voted, lost>>

-----------------------------------------------------------------------------
(* Votes. *)

\* Mutant: a tally stays open for good.
Open_ever(tally) == tally # None

Open(tally) == tally # None /\ now - tally.started <= VoteTtl

\* Tallies whose time is over are swept before one is touched.
Swept == [m \in Nick |-> IF Open(votes[m]) THEN votes[m] ELSE None]

Voters(tally) == IF tally = None THEN {} ELSE tally.voters

\* A vote is counted once for each voter; the last one says whether it is a
\* ban.  The target is a member by the nick it has now.
handle_vote(v, target, ban) ==
    LET n     == nick[target]
        kept  == Swept
        tally == IF kept[n] = None THEN [voters |-> {v}, started |-> now]
                 ELSE [kept[n] EXCEPT !.voters = @ \cup {v}]
        out   == Cardinality(tally.voters) >= Threshold
    IN  /\ v \notin Voters(kept[n])
        /\ votes' = [kept EXCEPT ![n] = IF out THEN None ELSE tally]
        /\ ballots' = ballots \cup {[by |-> v, on |-> target, at |-> now]}
        /\ inherited' = IF votes'[n] = None \/ kept[n] = None THEN inherited \ {n} ELSE inherited
        /\ voted' = IF out /\ ban THEN voted \cup {Host(target)} ELSE voted
        /\ Answer(CASE out /\ ban  -> <<Ban(Host(target)), KickOf(target)>>
                    [] out /\ ~ban -> <<KickOf(target)>>
                    [] OTHER       -> <<>>, {})
        /\ UNCHANGED <<chatter, lines, ladder>>

\* Voted before: the line is a line like any other.
VotedAgain(v, target) ==
    /\ v \in Voters(Swept[nick[target]])
    /\ votes' = Swept
    /\ kicker_check(v, "vote")
    /\ UNCHANGED <<ballots, inherited, voted>>

Vote(v, target, ban) ==
    /\ Spend
    /\ v \in there
    /\ nick[target] # None /\ target \in members
    /\ target \notin Immune
    /\ handle_vote(v, target, ban) \/ VotedAgain(v, target)
    /\ UNCHANGED <<ircd, members, lost>>

-----------------------------------------------------------------------------
(* Comings and goings. *)

\* Mutant: the counters of who left stay.
forget_chatter_not(u) == UNCHANGED chatter

forget_chatter(u) == chatter' = [chatter EXCEPT ![u] = None]

Gone(u) == ladder' = [ladder EXCEPT ![u] = Rung] /\ lines' = [lines EXCEPT ![u] = <<>>]

Join(u) ==
    /\ Spend
    /\ nick[u] # None /\ u \notin there
    /\ Host(u) \notin banned
    /\ there' = there \cup {u}
    /\ members' = members \cup {u}
    /\ Answer(<<>>, {})
    /\ UNCHANGED <<nick, banned, chatter, votes, history>>

\* PART, or a kick by somebody else.
Part(u) ==
    /\ Spend
    /\ u \in there
    /\ there' = there \ {u}
    /\ members' = members \ {u}
    /\ forget_chatter(u)
    /\ Gone(u)
    /\ Answer(<<>>, {})
    /\ UNCHANGED <<nick, banned, votes, ballots, inherited, voted, lost>>

\* Tallies stay, on the nick of who quit and with its vote.
Quit(u) ==
    /\ Spend
    /\ nick[u] # None
    /\ nick' = [nick EXCEPT ![u] = None]
    /\ there' = there \ {u}
    /\ members' = members \ {u}
    /\ forget_chatter(u)
    /\ Gone(u)
    /\ Answer(<<>>, {})
    /\ UNCHANGED <<banned, votes, ballots, inherited, voted, lost>>

NickChange(u, n) ==
    /\ Spend
    /\ nick[u] # None
    /\ \A v \in User : nick[v] # n
    /\ nick' = [nick EXCEPT ![u] = n]
    /\ inherited' = IF votes[n] # None THEN inherited \cup {n} ELSE inherited
    /\ Answer(<<>>, {})
    /\ UNCHANGED <<there, banned, members, chatter, votes, lines, ladder, ballots, voted, lost>>

\* UserCert with nothing to log in: the answer is empty, the unbans that came
\* due with it.
UserCert ==
    /\ Due # {}
    /\ sweep_unbans({})
    /\ lost' = lost \cup {p.host : p \in Due}
    /\ UNCHANGED <<ircd, members, chatter, votes, down, now, lines, ladder, ballots, inherited, voted, ops>>

\* Any event that says nothing of the channel.
Ping ==
    /\ Due # {}
    /\ Answer(<<>>, {})
    /\ UNCHANGED <<ircd, members, chatter, votes, now, history, ops>>

\* The ircd carries out the next command.
Drain ==
    /\ down # <<>>
    /\ LET a == Head(down)
       IN  /\ there' = IF a.op = "kick" THEN there \ {a.on} ELSE there
           /\ banned' = CASE a.op = "+b" -> banned \cup {a.on}
                          [] a.op = "-b" -> banned \ {a.on}
                          [] OTHER       -> banned
    /\ down' = Tail(down)
    /\ UNCHANGED <<nick, members, chatter, votes, pending, now, history, ops>>

\* The process dies: counters, tallies and the bans to be lifted with it; the
\* burst tells who is there.
Restart ==
    /\ ops < MaxOps
    /\ ops' = ops + 1
    /\ members' = there
    /\ chatter' = [u \in User |-> None]
    /\ votes' = [n \in Nick |-> None]
    /\ pending' = {}
    /\ down' = <<>>
    /\ lost' = lost \cup {p.host : p \in pending} \cup {a.on : a \in {b \in ToSet(down) : b.op = "-b"}}
    /\ inherited' = {}
    /\ ladder' = [u \in User |-> Rung]
    /\ lines' = [u \in User |-> <<>>]
    /\ UNCHANGED <<ircd, now, ballots, voted>>

Tick ==
    /\ now < MaxNow
    /\ now' = now + 1
    /\ UNCHANGED <<ircd, members, chatter, votes, pending, down, history, ops>>

Init ==
    /\ nick = [u \in User |-> Nick0(u)]
    /\ there = Here /\ members = Here
    /\ banned = {} /\ pending = {} /\ down = <<>>
    /\ chatter = [u \in User |-> None]
    /\ votes = [n \in Nick |-> None]
    /\ now = FloodSecs + 1
    /\ lines = [u \in User |-> <<>>]
    /\ ladder = [u \in User |-> Rung]
    /\ ballots = {} /\ inherited = {} /\ voted = {} /\ lost = {}
    /\ ops = 0

Next ==
    \/ \E u \in User :
          \/ \E text \in {"CAPS", "t"} : Say(u, text)
          \/ \E target \in User, ban \in BOOLEAN : Vote(u, target, ban)
          \/ Join(u) \/ Part(u) \/ Quit(u)
          \/ \E n \in Nick : NickChange(u, n)
    \/ UserCert \/ Ping \/ Drain \/ Restart \/ Tick

Spec == Init /\ [][Next]_vars

-----------------------------------------------------------------------------

\* A speaker's counters are those of a connected user, and count no further
\* than they decide.
TypeOK ==
    /\ \A u \in User :
          /\ nick[u] \in Nick \cup {None}
          /\ nick[u] = None => u \notin members /\ u \notin there /\ chatter[u] = None
          /\ chatter[u] # None => chatter[u].kicks < Ttb /\ chatter[u].start <= now
    /\ \A n \in Nick : votes[n] # None => Cardinality(votes[n].voters) \in 1..(Threshold - 1)
    /\ \A p \in pending : p.at <= now + BanExpire
    /\ now \in (FloodSecs + 1)..MaxNow /\ ops \in 0..MaxOps

\* Every ban of a kicker has its end: while it stands, or is on its way, it is
\* on the list of bans to be lifted or its end is on its way behind it.  Left
\* out are a host a vote banned too, which has no end, and one whose end was
\* lost with a UserCert or a restart.
EveryBanHasItsEnd ==
    BanExpire > 0 =>
        \A h \in banned \cup {a.on : a \in {b \in ToSet(down) : b.op = "+b"}} :
            \/ h \in voted \cup lost
            \/ \E p \in pending : p.host = h
            \/ \E i \in DOMAIN down : down[i] = Unban(h) /\ \A j \in DOMAIN down : j > i => down[j] # Ban(h)

\* Who a vote puts out had enough different voters against it, all within the
\* time of a vote, whatever names changed meanwhile; not so under a name that
\* changed hands while it was voted on.
FairVote ==
    \A u \in User :
      ballots' # ballots /\ Len(down') > Len(down) /\ Last(down') = KickOf(u) /\ nick[u] \notin inherited
        => Cardinality({b.by : b \in {x \in ballots' : x.on = u /\ now - x.at <= VoteTtl}}) >= Threshold

\* A user is put out, or warned, for flooding only if so many of its lines fell
\* into the seconds of a window; lines before it left do not count against it.
FloodMeansFlood ==
    \A u \in User :
        chatter[u] # None /\ chatter[u].lines >= FloodLines =>
            \E i \in DOMAIN lines[u] :
                /\ i + FloodLines - 1 \in DOMAIN lines[u]
                /\ lines[u][i + FloodLines - 1] - lines[u][i] <= FloodSecs

\* Nobody is kicked without a warning, nor banned before the last of Ttb kicks,
\* counted since it came: a kick of its own does not make the engine forget it,
\* a PART does.
LadderClimbed ==
    \A u \in User :
        chatter[u] # None => /\ chatter[u].kicks = ladder[u].kicks
                             /\ ladder[u].kicks > 0 => ladder[u].warned

\* "Remove kicker bans whose BANEXPIRE has elapsed": short of a restart, a ban
\* leaves the list only with its end on the way.
UnbansSent ==
    ops' = ops => \A p \in pending \ pending' : Unban(p.host) \in ToSet(down')
===============================================================================
