----------------------------- MODULE LiveProofs -----------------------------
(***************************************************************************)
(* Proofs about Live, two of two: the kickers and votes, the mode locks and*)
(* topics, the settings of a channel, and the theorems about all scenes.   *)
(*                                                                         *)
(* Memory and disk agree in all that a restart brings back, whatever is    *)
(* refused between two appends of one command; a compiled list is of one of*)
(* the times the channel was registered, and as late as its revision says. *)
(***************************************************************************)
EXTENDS StatusProofs

-----------------------------------------------------------------------------
(* Kickers: types.                                                         *)

Hosts == {Host[u] : u \in Speaker}

KickOrders == [op : {"+b", "-b"}, on : Hosts] \cup [op : {"kick"}, on : Speaker]

Text == {"CAPS", "t", "vote"}

Counters ==
    [start : Nat, lines : Nat, last : Text \cup {None}, repeats : Nat, kicks : Nat, warned : BOOLEAN]

Rungs == [warned : BOOLEAN, kicks : Nat]

Tally == [voters : SUBSET Speaker, started : Nat]

KickTypes ==
    /\ nick \in [Speaker -> Nick \cup {None}]
    /\ there \subseteq Speaker /\ members \subseteq Speaker
    /\ banned \subseteq Hosts
    /\ chatter \in [Speaker -> Counters \cup {None}]
    /\ votes \in [Nick -> Tally \cup {None}]
    /\ pending \subseteq [at : Nat, host : Hosts] /\ IsFiniteSet(pending)
    /\ down \in Seq(KickOrders)
    /\ now \in Nat
    /\ lines \in [Speaker -> Seq(Nat)]
    /\ ladder \in [Speaker -> Rungs]
    /\ ballots \subseteq [by : Speaker, on : Speaker, at : Nat]
    /\ inherited \subseteq Nick
    /\ ops \in Nat

\* The counters a line is judged by, and what comes of it.
Before(u) == IF chatter[u] = None THEN Kick!Silent ELSE chatter[u]

Judged(u, text) == Kick!Verdict(Before(u), text)

Dealt(u, text) ==
    IF Judged(u, text).why = None THEN [state |-> Judged(u, text).state, does |-> None]
    ELSE Kick!Punished(Judged(u, text).state)

LEMMA BeforeType ==
    ASSUME KickTypes, NEW u \in Speaker
    PROVE  Before(u) \in Counters
<1>1. Kick!Silent \in Counters
  BY DEF Kick!Silent, Counters
<1> QED BY <1>1 DEF Before, KickTypes

LEMMA JudgedType ==
    ASSUME KickTypes, NEW u \in Speaker, NEW text \in Text
    PROVE  /\ Judged(u, text).state \in Counters
           /\ Judged(u, text).why \in {None, "caps", "flood", "repeat"}
<1> DEFINE s == Before(u)
<1>1. s \in Counters
  BY BeforeType
<1> HIDE DEF s
<1>2. Kick!Windowed(s) \in Counters
  BY Zenon, <1>1 DEF Kick!Windowed, Counters, KickTypes
<1>3. /\ Kick!Counted(s, text).state \in Counters
      /\ Kick!Counted(s, text).why \in {None, "flood", "repeat"}
  <2> DEFINE f == [Kick!Windowed(s) EXCEPT !.lines = @ + 1]
             r == IF text = f.last THEN [f EXCEPT !.repeats = @ + 1] ELSE [f EXCEPT !.repeats = 0, !.last = text]
  <2>1. f \in Counters
    BY <1>2 DEF Counters
  <2>2. r \in Counters
    <3> HIDE DEF f
    <3>1. CASE text = f.last
      BY <2>1, <3>1 DEF Counters
    <3>2. CASE text # f.last
      BY Zenon, <2>1, <3>2 DEF Counters
    <3> QED BY <3>1, <3>2
  <2>3. Kick!Counted(s, text) = IF f.lines >= FloodLines THEN [state |-> f, why |-> "flood"]
                                ELSE [state |-> r, why |-> IF r.repeats >= RepeatTimes THEN "repeat" ELSE None]
    BY DEF Kick!Counted
  <2> HIDE DEF f, r
  <2> QED BY <2>1, <2>2, <2>3
<1>4. Judged(u, text) = IF text = "CAPS" THEN [state |-> s, why |-> "caps"] ELSE Kick!Counted(s, text)
  BY DEF Judged, Kick!Verdict, s
<1> QED BY <1>1, <1>3, <1>4

LEMMA DealtType ==
    ASSUME KickTypes, NEW u \in Speaker, NEW text \in Text
    PROVE  /\ Dealt(u, text).state \in Counters
           /\ Dealt(u, text).does \in {None, "warn", "kick", "ban"}
<1> DEFINE s == Judged(u, text).state
<1>1. s \in Counters
  BY JudgedType
<1>2. /\ Kick!Punished(s).state \in Counters
      /\ Kick!Punished(s).does \in {"warn", "kick", "ban"}
  <2> HIDE DEF s
  <2>1. CASE ~s.warned
    BY Zenon, <1>1, <2>1 DEF Kick!Punished, Counters
  <2>2. CASE s.warned /\ s.kicks + 1 >= Ttb
    BY <1>1, <2>2 DEF Kick!Punished, Counters
  <2>3. CASE s.warned /\ ~(s.kicks + 1 >= Ttb)
    BY <1>1, <2>3 DEF Kick!Punished, Counters
  <2> QED BY <2>1, <2>2, <2>3
<1> QED BY <1>1, <1>2 DEF Dealt

-----------------------------------------------------------------------------
(* Kickers: what an event is answered with.                                *)

Waiting == [at : Nat, host : Hosts]

LEMMA SameCardinality == ASSUME NEW S PROVE Kick!Cardinality(S) = Cardinality(S)
BY DEF Kick!Cardinality, Cardinality

LEMMA SameSequence == ASSUME NEW S PROVE Kick!SetToSeq(S) = SetToSeq(S)
<1>1. \A f : Kick!IsInjective(f) <=> IsInjective(f)
  BY DEF Kick!IsInjective, IsInjective
<1> QED BY <1>1, SameCardinality DEF Kick!SetToSeq, SetToSeq

LEMMA LiftedIs ==
    ASSUME KickTypes
    PROVE  /\ Kick!Lifted \in Seq({Kick!Unban(p.host) : p \in Kick!Due})
           /\ \A p \in Kick!Due : \E i \in 1..Len(Kick!Lifted) : Kick!Lifted[i] = Kick!Unban(p.host)
<1> DEFINE hosts == {p.host : p \in Kick!Due}
           ends == {Kick!Unban(h) : h \in hosts}
           f == [p \in Kick!Due |-> Kick!Unban(p.host)]
<1>1. IsFiniteSet(Kick!Due)
  BY FS_Subset DEF KickTypes, Kick!Due
<1>2. ends = {f[p] : p \in Kick!Due}
  OBVIOUS
<1>3. IsFiniteSet(ends)
  <2>1. f = [p \in Kick!Due |-> f[p]]
    OBVIOUS
  <2> HIDE DEF f, ends
  <2> QED BY <1>1, <1>2, <2>1, ImageFinite
<1>4. Kick!Lifted = SetToSeq(ends)
  BY SameSequence DEF Kick!Lifted
<1>5. ends = {Kick!Unban(p.host) : p \in Kick!Due}
  OBVIOUS
<1> HIDE DEF ends
<1>6. /\ SetToSeq(ends) \in Seq(ends)
      /\ \A x \in ends : \E i \in 1..Len(SetToSeq(ends)) : SetToSeq(ends)[i] = x
  BY <1>3, SetAsSequence
<1>7. \A p \in Kick!Due : Kick!Unban(p.host) \in ends
  BY <1>5
<1> QED BY Zenon, <1>4, <1>5, <1>6, <1>7

\* An event is answered with commands, and bans to be lifted.
KickAnswered(acts, new) ==
    /\ Kick!Answer(acts, new)
    /\ acts \in Seq(KickOrders)
    /\ new \subseteq Waiting /\ IsFiniteSet(new)
    /\ \A p \in new : p.at <= now + BanExpire

\* A ban among the commands will be lifted, or a vote set it.
BansListed(acts, new) ==
    BanExpire > 0 =>
        \A i \in DOMAIN acts, h \in Hosts : acts[i] = Kick!Ban(h) =>
            h \in voted' \/ \E p \in new : p.host = h

LEMMA AnsweredTypes ==
    ASSUME KickTypes, NEW acts, NEW new, KickAnswered(acts, new)
    PROVE  /\ pending' \subseteq Waiting /\ IsFiniteSet(pending')
           /\ down' \in Seq(KickOrders)
<1>1. pending' = (pending \ Kick!Due) \cup new
  BY DEF KickAnswered, Kick!Answer, Kick!sweep_unbans
<1>2. pending' \subseteq Waiting
  BY <1>1 DEF KickAnswered, KickTypes, Waiting
<1>3. IsFiniteSet(pending')
  <2>1. IsFiniteSet(pending \ Kick!Due)
    BY FS_Subset DEF KickTypes
  <2> QED BY Zenon, <1>1, <2>1, FS_Union DEF KickAnswered
<1>4. Kick!Lifted \in Seq(KickOrders)
  <2>1. {Kick!Unban(p.host) : p \in Kick!Due} \subseteq KickOrders
    BY DEF KickTypes, Kick!Due, Kick!Unban, KickOrders
  <2> QED BY <2>1, LiftedIs
<1>5. down' = down \o Kick!Lifted \o acts
  BY DEF KickAnswered, Kick!Answer
<1> QED BY <1>2, <1>3, <1>4, <1>5 DEF KickAnswered, KickTypes

LEMMA EmptyAnswer ==
    ASSUME Kick!Answer(<<>>, {})
    PROVE  KickAnswered(<<>>, {}) /\ BansListed(<<>>, {})
<1>1. IsFiniteSet({})
  BY FS_EmptySet
<1> QED BY <1>1 DEF KickAnswered, BansListed

\* A line is answered with nothing, a kick, or a ban that will be lifted and a
\* kick.
LEMMA CheckedIs ==
    ASSUME KickTypes, NEW u \in Speaker, NEW text \in Text, Kick!kicker_check(u, text)
    PROVE  /\ \E acts, new : KickAnswered(acts, new) /\ BansListed(acts, new)
           /\ chatter' \in [Speaker -> Counters \cup {None}]
           /\ lines' \in [Speaker -> Seq(Nat)]
           /\ ladder' \in [Speaker -> Rungs]
<1>1. CASE u \in Spared
  BY <1>1, EmptyAnswer DEF Kick!kicker_check, KickTypes
<1>2. CASE u \notin Spared
  <2> DEFINE does == Dealt(u, text).does
  <2>1. /\ chatter' = [chatter EXCEPT ![u] = Dealt(u, text).state]
        /\ lines' = [lines EXCEPT ![u] = IF Judged(u, text).why = "caps" THEN @ ELSE Append(@, now)]
        /\ ladder' = [ladder EXCEPT ![u] = Kick!Climbed(@, does)]
        /\ CASE does = "kick" -> Kick!Answer(<<Kick!KickOf(u)>>, {})
             [] does = "ban" ->
                   Kick!Answer(<<Kick!Ban(Host[u]), Kick!KickOf(u)>>,
                               IF BanExpire > 0 THEN {[at |-> now + BanExpire, host |-> Host[u]]} ELSE {})
             [] OTHER -> Kick!Answer(<<>>, {})
    BY <1>2 DEF Kick!kicker_check, Dealt, Judged, Before, HostOf
  <2>2. Dealt(u, text).state \in Counters /\ does \in {None, "warn", "kick", "ban"}
    BY DealtType
  <2>3. chatter' \in [Speaker -> Counters \cup {None}]
    BY <2>1, <2>2 DEF KickTypes
  <2>4. lines' \in [Speaker -> Seq(Nat)]
    <3>1. Append(lines[u], now) \in Seq(Nat) /\ lines[u] \in Seq(Nat)
      BY DEF KickTypes
    <3> QED BY <2>1, <3>1 DEF KickTypes
  <2>5. ladder' \in [Speaker -> Rungs]
    <3>1. ladder[u] \in Rungs
      BY DEF KickTypes
    <3>2. Kick!Climbed(ladder[u], does) \in Rungs
      <4> HIDE DEF does
      <4>1. CASE does = "warn"
        BY Zenon, <3>1, <4>1 DEF Kick!Climbed, Rungs
      <4>2. CASE does = "kick"
        BY <3>1, <4>2 DEF Kick!Climbed, Rungs
      <4>3. CASE does = "ban"
        BY <3>1, <4>3 DEF Kick!Climbed, Rungs
      <4>4. CASE does \notin {"warn", "kick", "ban"}
        BY <3>1, <4>4 DEF Kick!Climbed, Rungs
      <4> QED BY <4>1, <4>2, <4>3, <4>4
    <3> QED BY <2>1, <3>2 DEF KickTypes
  <2>6. \E acts, new : KickAnswered(acts, new) /\ BansListed(acts, new)
    <3>0. /\ Kick!KickOf(u) \in KickOrders
          /\ Kick!Ban(Host[u]) \in KickOrders
          /\ \A h : Kick!KickOf(u) # Kick!Ban(h)
          /\ \A h : Kick!Ban(Host[u]) = Kick!Ban(h) => h = Host[u]
      <4>1. Host[u] \in Hosts
        BY DEF Hosts
      <4> QED BY <4>1 DEF KickOrders, Kick!KickOf, Kick!Ban
    <3>1. CASE does = "kick"
      <4>1. Kick!Answer(<<Kick!KickOf(u)>>, {})
        BY <2>1, <3>1
      <4>2. KickAnswered(<<Kick!KickOf(u)>>, {})
        BY <3>0, <4>1, FS_EmptySet DEF KickAnswered
      <4>3. BansListed(<<Kick!KickOf(u)>>, {})
        BY <3>0 DEF BansListed
      <4> QED BY <4>2, <4>3
    <3>2. CASE does = "ban"
      <4> DEFINE acts == <<Kick!Ban(Host[u]), Kick!KickOf(u)>>
                 new == IF BanExpire > 0 THEN {[at |-> now + BanExpire, host |-> Host[u]]} ELSE {}
      <4>1. Kick!Answer(acts, new)
        BY <2>1, <3>2
      <4>2. new \subseteq Waiting /\ IsFiniteSet(new) /\ \A p \in new : p.at <= now + BanExpire
        <5>1. [at |-> now + BanExpire, host |-> Host[u]] \in Waiting
          BY KickersAssumption DEF Waiting, Hosts, KickTypes
        <5>2. now + BanExpire <= now + BanExpire
          BY KickersAssumption DEF KickTypes
        <5>3. CASE BanExpire > 0
          <6>1. new = {[at |-> now + BanExpire, host |-> Host[u]]}
            BY <5>3
          <6> HIDE DEF new
          <6>2. \A p \in new : p.at <= now + BanExpire
            BY <5>2, <6>1
          <6> QED BY <5>1, <6>1, <6>2, FS_Singleton
        <5>4. CASE ~(BanExpire > 0)
          BY <5>4, FS_EmptySet
        <5> QED BY <5>3, <5>4
      <4>3. acts \in Seq(KickOrders)
        BY <3>0
      <4>4. BansListed(acts, new)
        <5> SUFFICES ASSUME BanExpire > 0, NEW i \in DOMAIN acts, NEW h \in Hosts, acts[i] = Kick!Ban(h)
                     PROVE  \E p \in new : p.host = h
          BY DEF BansListed
        <5>1. acts[i] \in {Kick!Ban(Host[u]), Kick!KickOf(u)}
          OBVIOUS
        <5>2. h = Host[u]
          <6> HIDE DEF acts
          <6> QED BY <3>0, <5>1
        <5> QED BY Zenon, <5>2
      <4> HIDE DEF acts, new
      <4>5. KickAnswered(acts, new)
        BY <4>1, <4>2, <4>3 DEF KickAnswered
      <4> QED BY <4>4, <4>5
    <3>3. CASE does \notin {"kick", "ban"}
      <4>1. Kick!Answer(<<>>, {})
        BY <2>1, <3>3
      <4> QED BY <4>1, EmptyAnswer
    <3> QED BY <3>1, <3>2, <3>3
  <2> QED BY <2>3, <2>4, <2>5, <2>6
<1> QED BY <1>1, <1>2

\* The tallies after a sweep, and the one a vote of v against the nick n is
\* counted in.
Kept == Kick!Swept

Counting(v, n) ==
    IF Kept[n] = None THEN [voters |-> {v}, started |-> now]
    ELSE [Kept[n] EXCEPT !.voters = @ \cup {v}]

Enough(v, n) == Kick!Cardinality(Counting(v, n).voters) >= Threshold

LEMMA KeptType ==
    ASSUME KickTypes
    PROVE  Kept \in [Nick -> Tally \cup {None}]
BY DEF KickTypes, Kept, Kick!Swept

LEMMA CountingType ==
    ASSUME KickTypes, NEW v \in Speaker, NEW n \in Nick
    PROVE  Counting(v, n) \in Tally
<1>1. Kept[n] \in Tally \cup {None}
  BY KeptType
<1>2. CASE Kept[n] = None
  BY <1>2 DEF Counting, Tally, KickTypes
<1>3. CASE Kept[n] # None
  BY <1>1, <1>3 DEF Counting, Tally
<1> QED BY <1>2, <1>3

\* What a vote changes; a ban is a vote's own.
LEMMA VoteIs ==
    ASSUME KickTypes, NEW v \in Speaker, NEW target \in Speaker, NEW ban \in BOOLEAN,
           nick[target] # None, Kick!handle_vote(v, target, ban)
    PROVE  /\ \E acts, new : KickAnswered(acts, new) /\ BansListed(acts, new)
           /\ votes' = [Kept EXCEPT ![nick[target]] =
                            IF Enough(v, nick[target]) THEN None ELSE Counting(v, nick[target])]
           /\ votes' \in [Nick -> Tally \cup {None}]
           /\ ballots' = ballots \cup {[by |-> v, on |-> target, at |-> now]}
           /\ inherited' \subseteq inherited
           /\ votes'[nick[target]] # None /\ Kept[nick[target]] # None => inherited' = inherited
           /\ inherited \ inherited' \subseteq {nick[target]}
           /\ voted \subseteq voted'
           /\ UNCHANGED <<chatter, lines, ladder>>
<1> DEFINE n == nick[target]
           out == Enough(v, n)
           acts == CASE out /\ ban  -> <<Kick!Ban(Host[target]), Kick!KickOf(target)>>
                     [] out /\ ~ban -> <<Kick!KickOf(target)>>
                     [] OTHER       -> <<>>
<1>1. n \in Nick
  BY DEF KickTypes
<1>2. /\ votes' = [Kept EXCEPT ![n] = IF out THEN None ELSE Counting(v, n)]
      /\ ballots' = ballots \cup {[by |-> v, on |-> target, at |-> now]}
      /\ inherited' = IF votes'[n] = None \/ Kept[n] = None THEN inherited \ {n} ELSE inherited
      /\ voted' = IF out /\ ban THEN voted \cup {Host[target]} ELSE voted
      /\ Kick!Answer(acts, {})
      /\ UNCHANGED <<chatter, lines, ladder>>
  BY DEF Kick!handle_vote, Counting, Enough, Kept, HostOf
<1>3. votes' \in [Nick -> Tally \cup {None}]
  <2> HIDE DEF n, out
  <2> QED BY <1>1, <1>2, CountingType, KeptType
<1>4. /\ Kick!KickOf(target) \in KickOrders
      /\ Kick!Ban(Host[target]) \in KickOrders
      /\ \A h : Kick!KickOf(target) # Kick!Ban(h)
      /\ \A h : Kick!Ban(Host[target]) = Kick!Ban(h) => h = Host[target]
  <2>1. Host[target] \in Hosts
    BY DEF Hosts
  <2> QED BY <2>1 DEF KickOrders, Kick!KickOf, Kick!Ban
<1> HIDE DEF n, out
<1>5. acts \in Seq(KickOrders)
  <2>1. CASE out /\ ban
    BY <1>4, <2>1
  <2>2. CASE out /\ ~ban
    BY <1>4, <2>2
  <2>3. CASE ~out
    BY <2>3
  <2> QED BY <2>1, <2>2, <2>3
<1>6. BansListed(acts, {})
  <2> SUFFICES ASSUME NEW i \in DOMAIN acts, NEW h \in Hosts, acts[i] = Kick!Ban(h)
               PROVE  h \in voted'
    BY DEF BansListed
  <2>1. CASE out /\ ban
    <3>1. acts[i] \in {Kick!Ban(Host[target]), Kick!KickOf(target)}
      BY <2>1
    <3> HIDE DEF acts
    <3>2. h = Host[target]
      BY <1>4, <3>1
    <3> QED BY <1>2, <2>1, <3>2
  <2>2. CASE out /\ ~ban
    <3>1. acts[i] = Kick!KickOf(target)
      BY <2>2
    <3> HIDE DEF acts
    <3> QED BY Zenon, <1>4, <3>1
  <2>3. CASE ~out
    <3>1. acts = <<>>
      BY <2>3
    <3> HIDE DEF acts
    <3> QED BY <3>1
  <2> QED BY <2>1, <2>2, <2>3
<1> HIDE DEF acts
<1>7. KickAnswered(acts, {})
  BY <1>2, <1>5, FS_EmptySet DEF KickAnswered
<1>8. /\ inherited' \subseteq inherited /\ voted \subseteq voted'
      /\ votes'[n] # None /\ Kept[n] # None => inherited' = inherited
      /\ inherited \ inherited' \subseteq {n}
  BY <1>2
<1> QED BY <1>2, <1>3, <1>6, <1>7, <1>8 DEF n, out

-----------------------------------------------------------------------------
(* Kickers: every step keeps the types.                                    *)

\* An event the engine answers: bans at the ircd stay as they are.
Event ==
    /\ \E acts, new : KickAnswered(acts, new) /\ BansListed(acts, new)
    /\ UNCHANGED <<banned, lost>>
    /\ voted \subseteq voted'

LEMMA SayIs ==
    ASSUME KickTypes, NEW u \in Speaker, NEW text \in {"CAPS", "t"}, Kick!Say(u, text)
    PROVE  KickTypes' /\ Event
<1>1. /\ Kick!kicker_check(u, text)
      /\ UNCHANGED <<nick, there, banned, members, votes, ballots, inherited, voted, lost, now>>
      /\ ops' = ops + 1
  BY DEF Kick!Say, Kick!Spend, Kick!ircd
<1>2. text \in Text
  BY DEF Text
<1>3. /\ \E acts, new : KickAnswered(acts, new) /\ BansListed(acts, new)
      /\ chatter' \in [Speaker -> Counters \cup {None}]
      /\ lines' \in [Speaker -> Seq(Nat)]
      /\ ladder' \in [Speaker -> Rungs]
  BY <1>1, <1>2, CheckedIs
<1>4. /\ pending' \subseteq Waiting /\ IsFiniteSet(pending')
      /\ down' \in Seq(KickOrders)
  BY <1>3, AnsweredTypes
<1>5. KickTypes'
  BY <1>1, <1>3, <1>4 DEF KickTypes, Waiting
<1> QED BY <1>1, <1>3, <1>5 DEF Event

LEMMA VoteStep ==
    ASSUME KickTypes, NEW v \in Speaker, NEW target \in Speaker, NEW ban \in BOOLEAN,
           Kick!Vote(v, target, ban)
    PROVE  KickTypes' /\ Event
<1>1. /\ UNCHANGED <<nick, there, banned, members, lost, now>>
      /\ ops' = ops + 1
      /\ nick[target] # None
      /\ Kick!handle_vote(v, target, ban) \/ Kick!VotedAgain(v, target)
  BY DEF Kick!Vote, Kick!Spend, Kick!ircd
<1>2. CASE Kick!handle_vote(v, target, ban)
  <2>1. /\ \E acts, new : KickAnswered(acts, new) /\ BansListed(acts, new)
        /\ votes' \in [Nick -> Tally \cup {None}]
        /\ ballots' = ballots \cup {[by |-> v, on |-> target, at |-> now]}
        /\ inherited' \subseteq inherited
        /\ voted \subseteq voted'
        /\ UNCHANGED <<chatter, lines, ladder>>
    BY <1>1, <1>2, VoteIs
  <2>2. /\ pending' \subseteq Waiting /\ IsFiniteSet(pending')
        /\ down' \in Seq(KickOrders)
    BY <2>1, AnsweredTypes
  <2>3. ballots' \subseteq [by : Speaker, on : Speaker, at : Nat]
    BY <2>1 DEF KickTypes
  <2>4. KickTypes'
    BY <1>1, <2>1, <2>2, <2>3 DEF KickTypes, Waiting
  <2> QED BY <1>1, <2>1, <2>4 DEF Event
<1>3. CASE Kick!VotedAgain(v, target)
  <2>1. /\ votes' = Kept
        /\ Kick!kicker_check(v, "vote")
        /\ UNCHANGED <<ballots, inherited, voted>>
    BY <1>3 DEF Kick!VotedAgain, Kept
  <2>2. PICK text \in Text : text = "vote"
    BY DEF Text
  <2>3. /\ \E acts, new : KickAnswered(acts, new) /\ BansListed(acts, new)
        /\ chatter' \in [Speaker -> Counters \cup {None}]
        /\ lines' \in [Speaker -> Seq(Nat)]
        /\ ladder' \in [Speaker -> Rungs]
    BY <2>1, <2>2, CheckedIs
  <2>4. /\ pending' \subseteq Waiting /\ IsFiniteSet(pending')
        /\ down' \in Seq(KickOrders)
    BY <2>3, AnsweredTypes
  <2>5. KickTypes'
    <3>1. votes' \in [Nick -> Tally \cup {None}]
      BY <2>1, KeptType
    <3>2. UNCHANGED <<nick, there, banned, members, now, ballots, inherited>> /\ ops' \in Nat
      BY <1>1, <2>1 DEF KickTypes
    <3> QED BY Zenon, <2>3, <2>4, <3>1, <3>2 DEF KickTypes, Waiting
  <2> QED BY <1>1, <2>1, <2>3, <2>5 DEF Event
<1> QED BY <1>1, <1>2, <1>3

LEMMA JoinIs ==
    ASSUME KickTypes, NEW u \in Speaker, Kick!Join(u)
    PROVE  KickTypes' /\ Event
<1>1. /\ there' = there \cup {u} /\ members' = members \cup {u} /\ ops' = ops + 1
      /\ Kick!Answer(<<>>, {})
      /\ UNCHANGED <<nick, banned, chatter, votes, lines, ladder, ballots, inherited, voted, lost, now>>
  BY DEF Kick!Join, Kick!Spend, Kick!history
<1>2. KickAnswered(<<>>, {}) /\ BansListed(<<>>, {})
  BY <1>1, EmptyAnswer
<1>3. /\ pending' \subseteq Waiting /\ IsFiniteSet(pending')
      /\ down' \in Seq(KickOrders)
  BY <1>2, AnsweredTypes
<1>4. KickTypes'
  BY <1>1, <1>3 DEF KickTypes, Waiting
<1> QED BY <1>1, <1>2, <1>4 DEF Event

\* What PART and QUIT have in common.
LEMMA GoneIs ==
    ASSUME KickTypes, NEW u \in Speaker, Kick!forget_chatter(u), Kick!Gone(u)
    PROVE  /\ chatter' \in [Speaker -> Counters \cup {None}]
           /\ lines' \in [Speaker -> Seq(Nat)]
           /\ ladder' \in [Speaker -> Rungs]
<1>1. Kick!Rung \in Rungs
  BY DEF Kick!Rung, Rungs
<1>2. <<>> \in Seq(Nat)
  OBVIOUS
<1> QED BY <1>1, <1>2 DEF Kick!forget_chatter, Kick!Gone, KickTypes

LEMMA PartIs ==
    ASSUME KickTypes, NEW u \in Speaker, Kick!Part(u)
    PROVE  KickTypes' /\ Event
<1>1. /\ there' = there \ {u} /\ members' = members \ {u} /\ ops' = ops + 1
      /\ Kick!Answer(<<>>, {})
      /\ Kick!forget_chatter(u) /\ Kick!Gone(u)
      /\ UNCHANGED <<nick, banned, votes, ballots, inherited, voted, lost, now>>
  BY DEF Kick!Part, Kick!Spend
<1>2. KickAnswered(<<>>, {}) /\ BansListed(<<>>, {})
  BY <1>1, EmptyAnswer
<1>3. /\ pending' \subseteq Waiting /\ IsFiniteSet(pending')
      /\ down' \in Seq(KickOrders)
  BY <1>2, AnsweredTypes
<1>4. KickTypes'
  BY SMTT(20), <1>1, <1>3, GoneIs DEF KickTypes, Waiting
<1> QED BY <1>1, <1>2, <1>4 DEF Event

LEMMA QuitIs ==
    ASSUME KickTypes, NEW u \in Speaker, Kick!Quit(u)
    PROVE  KickTypes' /\ Event
<1>1. /\ there' = there \ {u} /\ members' = members \ {u} /\ ops' = ops + 1
      /\ nick' = [nick EXCEPT ![u] = None]
      /\ Kick!Answer(<<>>, {})
      /\ Kick!forget_chatter(u) /\ Kick!Gone(u)
      /\ UNCHANGED <<banned, votes, ballots, inherited, voted, lost, now>>
  BY DEF Kick!Quit, Kick!Spend
<1>2. KickAnswered(<<>>, {}) /\ BansListed(<<>>, {})
  BY <1>1, EmptyAnswer
<1>3. /\ pending' \subseteq Waiting /\ IsFiniteSet(pending')
      /\ down' \in Seq(KickOrders)
  BY <1>2, AnsweredTypes
<1>4. KickTypes'
  <2>1. nick' \in [Speaker -> Nick \cup {None}]
    BY <1>1 DEF KickTypes
  <2> QED BY <1>1, <1>3, <2>1, GoneIs DEF KickTypes, Waiting
<1> QED BY <1>1, <1>2, <1>4 DEF Event

LEMMA NickChangeIs ==
    ASSUME KickTypes, NEW u \in Speaker, NEW n \in Nick, Kick!NickChange(u, n)
    PROVE  KickTypes' /\ Event
<1>1. /\ ops' = ops + 1
      /\ nick' = [nick EXCEPT ![u] = n]
      /\ inherited' \in {inherited, inherited \cup {n}}
      /\ Kick!Answer(<<>>, {})
      /\ UNCHANGED <<there, banned, members, chatter, votes, lines, ladder, ballots, voted, lost, now>>
  BY DEF Kick!NickChange, Kick!Spend
<1>2. KickAnswered(<<>>, {}) /\ BansListed(<<>>, {})
  BY <1>1, EmptyAnswer
<1>3. /\ pending' \subseteq Waiting /\ IsFiniteSet(pending')
      /\ down' \in Seq(KickOrders)
  BY <1>2, AnsweredTypes
<1>4. KickTypes'
  <2>1. nick' \in [Speaker -> Nick \cup {None}] /\ inherited' \subseteq Nick
    BY <1>1 DEF KickTypes
  <2> QED BY <1>1, <1>3, <2>1 DEF KickTypes, Waiting
<1> QED BY <1>1, <1>2, <1>4 DEF Event

LEMMA PingIs ==
    ASSUME KickTypes, Kick!Ping
    PROVE  KickTypes' /\ Event
<1>1. /\ Kick!Answer(<<>>, {})
      /\ UNCHANGED <<nick, there, banned, members, chatter, votes, now, lines, ladder, ballots, inherited, voted, lost, ops>>
  BY DEF Kick!Ping, Kick!ircd, Kick!history
<1>2. KickAnswered(<<>>, {}) /\ BansListed(<<>>, {})
  BY <1>1, EmptyAnswer
<1>3. /\ pending' \subseteq Waiting /\ IsFiniteSet(pending')
      /\ down' \in Seq(KickOrders)
  BY <1>2, AnsweredTypes
<1>4. KickTypes'
  BY <1>1, <1>3 DEF KickTypes, Waiting
<1> QED BY <1>1, <1>2, <1>4 DEF Event

LEMMA UserCertIs ==
    ASSUME KickTypes, Kick!UserCert
    PROVE  /\ KickTypes'
           /\ pending' = pending \ Kick!Due
           /\ lost' = lost \cup {p.host : p \in Kick!Due}
           /\ UNCHANGED <<banned, voted, down>>
<1>1. /\ pending' = pending \ Kick!Due
      /\ lost' = lost \cup {p.host : p \in Kick!Due}
      /\ UNCHANGED <<nick, there, banned, members, chatter, votes, down, now, lines, ladder, ballots, inherited, voted, ops>>
  BY DEF Kick!UserCert, Kick!ircd, Kick!sweep_unbans
<1>2. IsFiniteSet(pending')
  BY <1>1, FS_Subset DEF KickTypes
<1>3. pending' \subseteq pending
  BY <1>1
<1>4. KickTypes'
  BY <1>1, <1>2, <1>3 DEF KickTypes
<1> QED BY <1>1, <1>4

LEMMA DrainIs ==
    ASSUME KickTypes, Kick!Drain
    PROVE  /\ KickTypes'
           /\ down # <<>> /\ down' = Tail(down)
           /\ banned' = CASE Head(down).op = "+b" -> banned \cup {Head(down).on}
                          [] Head(down).op = "-b" -> banned \ {Head(down).on}
                          [] OTHER -> banned
           /\ UNCHANGED <<voted, pending, lost>>
<1>1. /\ down # <<>>
      /\ there' = IF Head(down).op = "kick" THEN there \ {Head(down).on} ELSE there
      /\ banned' = CASE Head(down).op = "+b" -> banned \cup {Head(down).on}
                     [] Head(down).op = "-b" -> banned \ {Head(down).on}
                     [] OTHER -> banned
      /\ down' = Tail(down)
      /\ UNCHANGED <<nick, members, chatter, votes, pending, now, lines, ladder, ballots, inherited, voted, lost, ops>>
  BY DEF Kick!Drain, Kick!history
<1>2. Head(down) \in KickOrders /\ down' \in Seq(KickOrders)
  BY <1>1 DEF KickTypes
<1>3. banned' \subseteq Hosts /\ there' \subseteq Speaker
  <2>1. Head(down).op = "+b" => Head(down).on \in Hosts
    BY <1>2 DEF KickOrders
  <2> QED BY <1>1, <2>1 DEF KickTypes
<1>4. KickTypes'
  BY <1>1, <1>2, <1>3 DEF KickTypes
<1> QED BY <1>1, <1>4

LEMMA RestartIs ==
    ASSUME KickTypes, Kick!Restart
    PROVE  /\ KickTypes'
           /\ pending' = {} /\ down' = <<>>
           /\ lost' = lost \cup {p.host : p \in pending} \cup {a.on : a \in {b \in Kick!ToSet(down) : b.op = "-b"}}
           /\ UNCHANGED <<voted, banned>>
<1>1. /\ ops' = ops + 1
      /\ members' = there
      /\ chatter' = [u \in Speaker |-> None]
      /\ votes' = [n \in Nick |-> None]
      /\ pending' = {} /\ down' = <<>>
      /\ lost' = lost \cup {p.host : p \in pending} \cup {a.on : a \in {b \in Kick!ToSet(down) : b.op = "-b"}}
      /\ inherited' = {}
      /\ ladder' = [u \in Speaker |-> Kick!Rung]
      /\ lines' = [u \in Speaker |-> <<>>]
      /\ UNCHANGED <<nick, there, banned, now, ballots, voted>>
  BY DEF Kick!Restart, Kick!ircd
<1>2. Kick!Rung \in Rungs
  BY DEF Kick!Rung, Rungs
<1>3. lines' \in [Speaker -> Seq(Nat)] /\ ladder' \in [Speaker -> Rungs]
  BY <1>1, <1>2
<1>4. chatter' \in [Speaker -> Counters \cup {None}] /\ votes' \in [Nick -> Tally \cup {None}]
  BY <1>1
<1>5. IsFiniteSet(pending') /\ down' \in Seq(KickOrders)
  BY <1>1, FS_EmptySet
<1>6. KickTypes'
  BY <1>1, <1>3, <1>4, <1>5 DEF KickTypes
<1> QED BY <1>1, <1>6

\* The steps of a channel's kickers.
LEMMA KickSteps ==
    ASSUME Kick!Next
    PROVE  \/ \E u \in Speaker, text \in {"CAPS", "t"} : Kick!Say(u, text)
           \/ \E u \in Speaker, target \in Speaker, ban \in BOOLEAN : Kick!Vote(u, target, ban)
           \/ \E u \in Speaker : Kick!Join(u) \/ Kick!Part(u) \/ Kick!Quit(u)
           \/ \E u \in Speaker, n \in Nick : Kick!NickChange(u, n)
           \/ Kick!UserCert \/ Kick!Ping \/ Kick!Drain \/ Kick!Restart \/ Kick!Tick
BY DEF Kick!Next

LEMMA KickTypesStep ==
    ASSUME KickTypes, Kick!Next
    PROVE  KickTypes'
<1>1. CASE Kick!Tick
  BY <1>1 DEF Kick!Tick, Kick!ircd, Kick!history, KickTypes
<1> QED
  BY <1>1, KickSteps, SayIs, VoteStep, JoinIs, PartIs, QuitIs, NickChangeIs, UserCertIs, PingIs, DrainIs, RestartIs

LEMMA KickTypesInit ==
    ASSUME Kick!Init
    PROVE  KickTypes
<1>1. /\ nick = [u \in Speaker |-> Nick0[u]]
      /\ there = Speaker /\ members = Speaker
      /\ banned = {} /\ pending = {} /\ down = <<>>
      /\ chatter = [u \in Speaker |-> None]
      /\ votes = [n \in Nick |-> None]
      /\ now = FloodSecs + 1
      /\ lines = [u \in Speaker |-> <<>>]
      /\ ladder = [u \in Speaker |-> Kick!Rung]
      /\ ballots = {} /\ inherited = {} /\ ops = 0
  BY DEF Kick!Init, NickOf
<1>2. Kick!Rung \in Rungs
  BY DEF Kick!Rung, Rungs
<1>3. nick \in [Speaker -> Nick \cup {None}]
  BY <1>1, KickersAssumption
<1>4. lines \in [Speaker -> Seq(Nat)] /\ ladder \in [Speaker -> Rungs]
  BY <1>1, <1>2
<1>5. chatter \in [Speaker -> Counters \cup {None}] /\ votes \in [Nick -> Tally \cup {None}]
  BY <1>1
<1>6. IsFiniteSet(pending) /\ down \in Seq(KickOrders) /\ now \in Nat
  BY <1>1, FS_EmptySet, KickersAssumption
<1> QED BY <1>1, <1>3, <1>4, <1>5, <1>6 DEF KickTypes

-----------------------------------------------------------------------------
(* Every ban has its end.                                                  *)

\* A host that is banned or about to be, and the end of its ban in sight.
Banned == banned \cup {a.on : a \in {b \in Kick!ToSet(down) : b.op = "+b"}}

EndInSight(h) ==
    \/ h \in voted \cup lost
    \/ \E p \in pending : p.host = h
    \/ \E i \in DOMAIN down : down[i] = Kick!Unban(h) /\ \A j \in DOMAIN down : j > i => down[j] # Kick!Ban(h)

BansEnd == BanExpire > 0 => \A h \in Banned : EndInSight(h)

LEMMA OnTheWay ==
    ASSUME KickTypes, NEW h
    PROVE  h \in Banned <=> h \in banned \/ \E i \in DOMAIN down : down[i] = Kick!Ban(h)
<1>1. \A a \in KickOrders : a.op = "+b" <=> a = Kick!Ban(a.on)
  BY DEF KickOrders, Kick!Ban
<1>2. \A i \in DOMAIN down : down[i] \in KickOrders
  BY DEF KickTypes
<1>3. Kick!Ban(h).op = "+b" /\ Kick!Ban(h).on = h
  BY DEF Kick!Ban
<1> QED BY <1>1, <1>2, <1>3 DEF Banned, Kick!ToSet

LEMMA ThreeParts ==
    ASSUME NEW R, NEW S, NEW T, NEW x \in Seq(R), NEW y \in Seq(S), NEW z \in Seq(T),
           NEW w, w = (x \o y) \o z
    PROVE  /\ Len(x) \in Nat /\ Len(y) \in Nat /\ Len(z) \in Nat
           /\ DOMAIN x = 1..Len(x) /\ DOMAIN z = 1..Len(z)
           /\ DOMAIN w = 1..(Len(x) + Len(y) + Len(z))
           /\ \A i \in 1..Len(x) : w[i] = x[i]
           /\ \A i \in 1..Len(y) : w[Len(x) + i] = y[i]
           /\ \A i \in 1..Len(z) : w[Len(x) + Len(y) + i] = z[i]
<1> DEFINE v == x \o y
<1>1. v \in Seq(R \cup S) /\ x \in Seq(R \cup S) /\ y \in Seq(R \cup S)
  OBVIOUS
<1>2. /\ Len(v) = Len(x) + Len(y)
      /\ \A i \in 1..Len(x) : v[i] = x[i]
      /\ \A i \in 1..Len(y) : v[Len(x) + i] = y[i]
  OBVIOUS
<1> HIDE DEF v
<1>3. w = v \o z
  BY DEF v
<1>4. /\ Len(w) = Len(v) + Len(z)
      /\ DOMAIN w = 1..(Len(v) + Len(z))
      /\ \A i \in 1..Len(v) : w[i] = v[i]
      /\ \A i \in 1..Len(z) : w[Len(v) + i] = z[i]
  BY <1>1, <1>3
<1> QED BY <1>1, <1>2, <1>4

LEMMA EventKeeps ==
    ASSUME KickTypes, BansEnd, KickTypes', Event
    PROVE  BansEnd'
<1> SUFFICES ASSUME BanExpire > 0, NEW h \in Banned' PROVE EndInSight(h)'
  BY DEF BansEnd
<1>1. PICK acts, new : KickAnswered(acts, new) /\ BansListed(acts, new)
  BY DEF Event
<1>2. /\ pending' = (pending \ Kick!Due) \cup new
      /\ down' = (down \o Kick!Lifted) \o acts
      /\ acts \in Seq(KickOrders)
  BY <1>1 DEF KickAnswered, Kick!Answer, Kick!sweep_unbans
<1> DEFINE L == Kick!Lifted
           m == Len(down)
           k == Len(L)
           a == Len(acts)
<1>3. /\ L \in Seq({Kick!Unban(p.host) : p \in Kick!Due})
      /\ \A p \in Kick!Due : \E i \in 1..k : L[i] = Kick!Unban(p.host)
  BY LiftedIs
<1> HIDE DEF L
<1>4. down \in Seq(KickOrders)
  BY DEF KickTypes
<1>5. /\ m \in Nat /\ k \in Nat /\ a \in Nat
      /\ DOMAIN down = 1..m /\ DOMAIN down' = 1..(m + k + a) /\ DOMAIN acts = 1..a
      /\ \A i \in 1..m : down'[i] = down[i]
      /\ \A i \in 1..k : down'[m + i] = L[i]
      /\ \A i \in 1..a : down'[m + k + i] = acts[i]
  <2> DEFINE T == {Kick!Unban(p.host) : p \in Kick!Due}
  <2>1. L \in Seq(T)
    BY <1>3
  <2> HIDE DEF T
  <2>2. acts \in Seq(KickOrders) /\ down' = (down \o L) \o acts
    BY <1>2 DEF L
  <2> QED BY <1>4, <2>1, <2>2, ThreeParts
<1>6. \A i \in 1..k : \A g : L[i] # Kick!Ban(g)
  <2> SUFFICES ASSUME NEW i \in 1..k PROVE \A g : L[i] # Kick!Ban(g)
    OBVIOUS
  <2>1. L[i] \in {Kick!Unban(p.host) : p \in Kick!Due}
    BY <1>3
  <2>2. PICK p \in Kick!Due : L[i] = Kick!Unban(p.host)
    BY <2>1
  <2> QED BY <2>2 DEF Kick!Ban, Kick!Unban
<1>7. h \in banned' \/ \E i \in DOMAIN down' : down'[i] = Kick!Ban(h)
  <2>1. h \in banned' <=> h \in (banned)'
    OBVIOUS
  <2>2. \A b \in KickOrders : b.op = "+b" <=> b = Kick!Ban(b.on)
    BY DEF KickOrders, Kick!Ban
  <2>3. \A i \in DOMAIN down' : down'[i] \in KickOrders
    BY DEF KickTypes
  <2> QED BY <2>2, <2>3 DEF Banned, Kick!ToSet
<1>8. ASSUME \E i \in 1..a : acts[i] = Kick!Ban(h)
      PROVE  h \in voted' \/ \E p \in pending' : p.host = h
  <2>1. PICK i \in 1..a : acts[i] = Kick!Ban(h)
    BY <1>8
  <2>2. acts[i] \in KickOrders
    BY <1>2, <2>1
  <2>3. h \in Hosts
    BY <2>1, <2>2 DEF KickOrders, Kick!Ban
  <2> QED BY <1>1, <1>2, <1>5, <2>1, <2>3 DEF BansListed
<1>9. ASSUME ~\E i \in 1..a : acts[i] = Kick!Ban(h)
      PROVE  EndInSight(h)'
  <2>1. \A j \in DOMAIN down' : j > m => down'[j] # Kick!Ban(h)
    <3> SUFFICES ASSUME NEW j \in DOMAIN down', j > m PROVE down'[j] # Kick!Ban(h)
      OBVIOUS
    <3>1. CASE j <= m + k
      <4>1. j - m \in 1..k /\ j = m + (j - m)
        BY <1>5, <3>1
      <4> QED BY <1>5, <1>6, <4>1
    <3>2. CASE j > m + k
      <4>1. j - m - k \in 1..a /\ j = m + k + (j - m - k)
        BY <1>5, <3>2
      <4> QED BY <1>5, <1>9, <4>1
    <3> QED BY <1>5, <3>1, <3>2
  <2>2. h \in Banned
    <3>1. h \in banned \/ \E i \in DOMAIN down : down[i] = Kick!Ban(h)
      BY <1>5, <1>7, <2>1 DEF Event
    <3> QED BY <3>1, OnTheWay
  <2>3. EndInSight(h)
    BY <2>2 DEF BansEnd
  <2>4. CASE h \in voted \cup lost
    BY <2>4 DEF EndInSight, Event
  <2>5. CASE \E p \in pending : p.host = h
    <3>1. PICK p \in pending : p.host = h
      BY <2>5
    <3>2. CASE p \in Kick!Due
      <4>1. PICK i \in 1..k : L[i] = Kick!Unban(h)
        BY <1>3, <3>1, <3>2
      <4>2. m + i \in DOMAIN down' /\ down'[m + i] = Kick!Unban(h) /\ m + i > m
        BY <1>5, <4>1
      <4>3. \A j \in DOMAIN down' : j > m + i => down'[j] # Kick!Ban(h)
        BY <1>5, <2>1, <4>1
      <4> QED BY <4>2, <4>3 DEF EndInSight
    <3>3. CASE p \notin Kick!Due
      BY <1>2, <3>1, <3>3 DEF EndInSight
    <3> QED BY <3>2, <3>3
  <2>6. CASE \E i \in DOMAIN down : down[i] = Kick!Unban(h) /\ \A j \in DOMAIN down : j > i => down[j] # Kick!Ban(h)
    <3>1. PICK i \in DOMAIN down : down[i] = Kick!Unban(h) /\ \A j \in DOMAIN down : j > i => down[j] # Kick!Ban(h)
      BY <2>6
    <3>2. i \in DOMAIN down' /\ down'[i] = Kick!Unban(h)
      BY <1>5, <3>1
    <3>3. \A j \in DOMAIN down' : j > i => down'[j] # Kick!Ban(h)
      <4> SUFFICES ASSUME NEW j \in DOMAIN down', j > i PROVE down'[j] # Kick!Ban(h)
        OBVIOUS
      <4>1. CASE j <= m
        BY <1>5, <3>1, <4>1
      <4>2. CASE j > m
        BY <2>1, <4>2
      <4> QED BY <1>5, <4>1, <4>2
    <3> QED BY <3>2, <3>3 DEF EndInSight
  <2> QED BY <2>3, <2>4, <2>5, <2>6 DEF EndInSight
<1> QED BY <1>8, <1>9 DEF EndInSight

LEMMA DrainKeeps ==
    ASSUME KickTypes, BansEnd, KickTypes', Kick!Drain
    PROVE  BansEnd'
<1> SUFFICES ASSUME BanExpire > 0, NEW h \in Banned' PROVE EndInSight(h)'
  BY DEF BansEnd
<1>1. /\ down # <<>> /\ down' = Tail(down)
      /\ banned' = CASE Head(down).op = "+b" -> banned \cup {Head(down).on}
                     [] Head(down).op = "-b" -> banned \ {Head(down).on}
                     [] OTHER -> banned
      /\ UNCHANGED <<voted, pending, lost>>
  BY DrainIs
<1> DEFINE m == Len(down)
<1>2. /\ m \in Nat /\ m >= 1 /\ DOMAIN down = 1..m
      /\ DOMAIN down' = 1..(m - 1)
      /\ \A i \in 1..(m - 1) : down'[i] = down[i + 1]
      /\ Head(down) = down[1] /\ down[1] \in KickOrders
  BY <1>1 DEF KickTypes
<1> HIDE DEF m
<1>3. h \in banned' \/ \E i \in DOMAIN down' : down'[i] = Kick!Ban(h)
  <2>1. \A b \in KickOrders : b.op = "+b" <=> b = Kick!Ban(b.on)
    BY DEF KickOrders, Kick!Ban
  <2>2. \A i \in DOMAIN down' : down'[i] \in KickOrders
    BY DEF KickTypes
  <2> QED BY <2>1, <2>2 DEF Banned, Kick!ToSet
<1>4. h \in Banned
  <2>1. CASE \E i \in DOMAIN down' : down'[i] = Kick!Ban(h)
    <3>1. PICK i \in DOMAIN down' : down'[i] = Kick!Ban(h)
      BY <2>1
    <3>2. i + 1 \in DOMAIN down /\ down[i + 1] = Kick!Ban(h)
      BY <1>2, <3>1
    <3> QED BY <3>2, OnTheWay
  <2>2. CASE h \in banned'
    <3>1. h \in banned \/ (down[1].op = "+b" /\ h = down[1].on)
      BY <1>1, <1>2, <2>2
    <3>2. down[1].op = "+b" => down[1] = Kick!Ban(down[1].on)
      BY <1>2 DEF KickOrders, Kick!Ban
    <3>3. 1 \in DOMAIN down
      BY <1>2
    <3> QED BY <3>1, <3>2, <3>3, OnTheWay
  <2> QED BY <1>3, <2>1, <2>2
<1>5. EndInSight(h)
  BY <1>4 DEF BansEnd
<1>6. CASE h \in voted \cup lost
  BY <1>1, <1>6 DEF EndInSight
<1>7. CASE \E p \in pending : p.host = h
  BY <1>1, <1>7 DEF EndInSight
<1>8. CASE \E i \in DOMAIN down : down[i] = Kick!Unban(h) /\ \A j \in DOMAIN down : j > i => down[j] # Kick!Ban(h)
  <2>1. PICK i \in DOMAIN down : down[i] = Kick!Unban(h) /\ \A j \in DOMAIN down : j > i => down[j] # Kick!Ban(h)
    BY <1>8
  <2>2. CASE i = 1
    <3>1. down[1].op = "-b" /\ down[1].on = h
      BY <2>1, <2>2 DEF Kick!Unban
    <3>2. h \notin banned'
      BY <1>1, <1>2, <3>1
    <3>3. PICK j \in DOMAIN down' : down'[j] = Kick!Ban(h)
      BY <1>3, <3>2
    <3>4. j + 1 \in DOMAIN down /\ j + 1 > i /\ down[j + 1] = Kick!Ban(h)
      BY <1>2, <2>2, <3>3
    <3> QED BY <2>1, <3>4
  <2>3. CASE i > 1
    <3>1. i - 1 \in DOMAIN down' /\ down'[i - 1] = Kick!Unban(h)
      BY <1>2, <2>1, <2>3
    <3>2. \A j \in DOMAIN down' : j > i - 1 => down'[j] # Kick!Ban(h)
      <4> SUFFICES ASSUME NEW j \in DOMAIN down', j > i - 1 PROVE down'[j] # Kick!Ban(h)
        OBVIOUS
      <4>1. j + 1 \in DOMAIN down /\ j + 1 > i /\ down'[j] = down[j + 1]
        BY <1>2, <2>3
      <4> QED BY <2>1, <4>1
    <3> QED BY <3>1, <3>2 DEF EndInSight
  <2> QED BY <1>2, <2>1, <2>2, <2>3
<1> QED BY <1>5, <1>6, <1>7, <1>8 DEF EndInSight

LEMMA BansEndStep ==
    ASSUME KickTypes, BansEnd, Kick!Next
    PROVE  BansEnd'
<1>1. KickTypes'
  BY KickTypesStep
<1>2. CASE Event
  BY <1>1, <1>2, EventKeeps
<1>3. CASE Kick!UserCert
  <2>1. /\ pending' = pending \ Kick!Due
        /\ lost' = lost \cup {p.host : p \in Kick!Due}
        /\ UNCHANGED <<banned, voted, down>>
    BY <1>3, UserCertIs
  <2>2. \A h : EndInSight(h) => EndInSight(h)'
    BY <2>1 DEF EndInSight
  <2>3. Banned' = Banned
    BY <2>1 DEF Banned, Kick!ToSet
  <2> QED BY <2>2, <2>3 DEF BansEnd
<1>4. CASE Kick!Drain
  BY <1>1, <1>4, DrainKeeps
<1>5. CASE Kick!Restart
  <2>1. /\ pending' = {} /\ down' = <<>>
        /\ lost' = lost \cup {p.host : p \in pending} \cup {a.on : a \in {b \in Kick!ToSet(down) : b.op = "-b"}}
        /\ UNCHANGED <<voted, banned>>
    BY <1>5, RestartIs
  <2>2. \A h : EndInSight(h) => h \in voted \cup lost'
    <3>1. \A h : Kick!Unban(h).op = "-b" /\ Kick!Unban(h).on = h
      BY DEF Kick!Unban
    <3> QED BY <2>1, <3>1 DEF EndInSight, Kick!ToSet
  <2>3. Banned' \subseteq Banned
    BY <2>1 DEF Banned, Kick!ToSet
  <2> QED BY <2>1, <2>2, <2>3 DEF BansEnd, EndInSight
<1>6. CASE Kick!Tick
  <2>1. UNCHANGED <<pending, lost, banned, voted, down>>
    BY <1>6 DEF Kick!Tick, Kick!ircd, Kick!history
  <2> QED BY <2>1 DEF BansEnd, Banned, EndInSight, Kick!ToSet
<1> QED
  BY <1>2, <1>3, <1>4, <1>5, <1>6, KickSteps, SayIs, VoteStep, JoinIs, PartIs, QuitIs, NickChangeIs, PingIs

-----------------------------------------------------------------------------
(* The counters of a speaker.                                              *)

\* What a line changes of its speaker's counters, and of their history.
LEMMA CheckedShape ==
    ASSUME KickTypes, NEW u \in Speaker, NEW text \in Text, Kick!kicker_check(u, text)
    PROVE  \/ UNCHANGED <<chatter, lines, ladder>>
           \/ /\ chatter' = [chatter EXCEPT ![u] = Dealt(u, text).state]
              /\ lines' = [lines EXCEPT ![u] = IF Judged(u, text).why = "caps" THEN @ ELSE Append(@, now)]
              /\ ladder' = [ladder EXCEPT ![u] = Kick!Climbed(@, Dealt(u, text).does)]
<1>1. CASE u \in Spared
  BY <1>1 DEF Kick!kicker_check
<1>2. CASE u \notin Spared
  BY <1>2 DEF Kick!kicker_check, Dealt, Judged, Before
<1> QED BY <1>1, <1>2

\* A speaker's counters stay, start anew, or count a line of its own.
KickStays(w) == chatter'[w] = chatter[w] /\ lines'[w] = lines[w] /\ ladder'[w] = ladder[w]

Forgotten(w) == chatter'[w] = None /\ lines'[w] = <<>> /\ ladder'[w] = Kick!Rung

Speaks(w) ==
    \E text \in Text :
        /\ now' = now
        /\ chatter'[w] = Dealt(w, text).state
        /\ lines'[w] = IF Judged(w, text).why = "caps" THEN lines[w] ELSE Append(lines[w], now)
        /\ ladder'[w] = Kick!Climbed(ladder[w], Dealt(w, text).does)

LEMMA CheckedMoves ==
    ASSUME KickTypes, NEW u \in Speaker, NEW text \in Text, Kick!kicker_check(u, text), now' = now,
           NEW w \in Speaker
    PROVE  KickStays(w) \/ Speaks(w)
<1>1. CASE UNCHANGED <<chatter, lines, ladder>>
  BY <1>1 DEF KickStays
<1>2. CASE /\ chatter' = [chatter EXCEPT ![u] = Dealt(u, text).state]
           /\ lines' = [lines EXCEPT ![u] = IF Judged(u, text).why = "caps" THEN @ ELSE Append(@, now)]
           /\ ladder' = [ladder EXCEPT ![u] = Kick!Climbed(@, Dealt(u, text).does)]
  <2>1. DOMAIN chatter = Speaker /\ DOMAIN lines = Speaker /\ DOMAIN ladder = Speaker
    BY DEF KickTypes
  <2>2. CASE w = u
    <3>1. /\ chatter'[w] = Dealt(w, text).state
          /\ lines'[w] = IF Judged(w, text).why = "caps" THEN lines[w] ELSE Append(lines[w], now)
          /\ ladder'[w] = Kick!Climbed(ladder[w], Dealt(w, text).does)
      BY <1>2, <2>1, <2>2
    <3> QED BY <3>1 DEF Speaks
  <2>3. CASE w # u
    BY <1>2, <2>1, <2>3 DEF KickStays
  <2> QED BY <2>2, <2>3
<1> QED BY <1>1, <1>2, CheckedShape

LEMMA GoneMoves ==
    ASSUME KickTypes, NEW u \in Speaker, Kick!forget_chatter(u), Kick!Gone(u), NEW w \in Speaker
    PROVE  KickStays(w) \/ Forgotten(w)
BY DEF KickTypes, Kick!forget_chatter, Kick!Gone, KickStays, Forgotten

LEMMA SpeakersMove ==
    ASSUME KickTypes, Kick!Next, NEW w \in Speaker
    PROVE  /\ KickStays(w) \/ Forgotten(w) \/ Speaks(w)
           /\ now' \in {now, now + 1}
<1>1. ASSUME NEW u \in Speaker, NEW text \in {"CAPS", "t"}, Kick!Say(u, text)
      PROVE  now' = now /\ (KickStays(w) \/ Speaks(w))
  <2>1. Kick!kicker_check(u, text) /\ now' = now /\ text \in Text
    BY <1>1 DEF Kick!Say, Kick!Spend, Text
  <2> QED BY <2>1, CheckedMoves
<1>2. ASSUME NEW u \in Speaker, NEW target \in Speaker, NEW ban \in BOOLEAN, Kick!Vote(u, target, ban)
      PROVE  now' = now /\ (KickStays(w) \/ Speaks(w))
  <2>1. now' = now /\ (Kick!handle_vote(u, target, ban) \/ Kick!VotedAgain(u, target))
    BY <1>2 DEF Kick!Vote, Kick!Spend
  <2>2. CASE Kick!handle_vote(u, target, ban)
    BY <2>1, <2>2 DEF Kick!handle_vote, KickStays
  <2>3. CASE Kick!VotedAgain(u, target)
    <3>1. PICK text \in Text : text = "vote"
      BY DEF Text
    <3>2. Kick!kicker_check(u, text)
      BY <2>3, <3>1 DEF Kick!VotedAgain
    <3> QED BY <2>1, <3>2, CheckedMoves
  <2> QED BY <2>1, <2>2, <2>3
<1>3. ASSUME NEW u \in Speaker, Kick!Part(u) \/ Kick!Quit(u)
      PROVE  now' = now /\ (KickStays(w) \/ Forgotten(w))
  <2>1. Kick!forget_chatter(u) /\ Kick!Gone(u) /\ now' = now
    BY <1>3 DEF Kick!Part, Kick!Quit, Kick!Spend
  <2> QED BY <2>1, GoneMoves
<1>4. ASSUME NEW u \in Speaker, Kick!Join(u) \/ \E n \in Nick : Kick!NickChange(u, n)
      PROVE  now' = now /\ KickStays(w)
  BY <1>4 DEF Kick!Join, Kick!NickChange, Kick!Spend, Kick!history, KickStays
<1>5. CASE Kick!UserCert \/ Kick!Ping \/ Kick!Drain \/ Kick!Tick
  BY <1>5 DEF Kick!UserCert, Kick!Ping, Kick!Drain, Kick!Tick, Kick!history, KickStays
<1>6. CASE Kick!Restart
  BY <1>6 DEF Kick!Restart, Forgotten
<1> QED BY <1>1, <1>2, <1>3, <1>4, <1>5, <1>6, KickSteps

\* The lines a speaker's counters count are the last ones, all within the
\* window; the counters say of warnings and kicks what was sent.
Counts(w) ==
    IF chatter[w] = None THEN ladder[w] = Kick!Rung
    ELSE LET s == chatter[w]
             n == Len(lines[w])
         IN  /\ s.start <= now /\ s.kicks < Ttb
             /\ s.lines <= n
             /\ \A i \in 1..n : i > n - s.lines => lines[w][i] >= s.start /\ lines[w][i] <= s.start + FloodSecs
             /\ s.kicks = ladder[w].kicks /\ s.warned = ladder[w].warned
             /\ s.kicks > 0 => s.warned

LEMMA CountersNotNone == \A s \in Counters : s # None
BY Zenon, NoneAssumption DEF Counters, Text

\* What a line does to the window ...
LEMMA DealtLines ==
    ASSUME KickTypes, NEW u \in Speaker, NEW text \in Text
    PROVE  LET s == Before(u)
               d == Dealt(u, text).state
           IN  /\ Judged(u, text).why = "caps" => d.start = s.start /\ d.lines = s.lines
               /\ Judged(u, text).why # "caps" =>
                     \/ now - s.start > FloodSecs /\ d.start = now /\ d.lines = 1
                     \/ now - s.start <= FloodSecs /\ d.start = s.start /\ d.lines = s.lines + 1
<1> DEFINE s == Before(u)
           j == Judged(u, text)
           d == Dealt(u, text).state
<1>1. s \in Counters /\ j.state \in Counters
  BY BeforeType, JudgedType
<1>2. d.start = j.state.start /\ d.lines = j.state.lines
  <2>1. d = j.state \/ d = Kick!Punished(j.state).state
    BY DEF Dealt
  <2>2. /\ Kick!Punished(j.state).state.start = j.state.start
        /\ Kick!Punished(j.state).state.lines = j.state.lines
    <3> HIDE DEF j
    <3> QED BY <1>1 DEF Kick!Punished, Counters
  <2> QED BY <2>1, <2>2
<1>3. j = IF text = "CAPS" THEN [state |-> s, why |-> "caps"] ELSE Kick!Counted(s, text)
  BY DEF Judged, Kick!Verdict
<1> HIDE DEF s, j, d
<1>4. /\ Kick!Counted(s, text).why # "caps"
      /\ \/ now - s.start > FloodSecs /\ Kick!Counted(s, text).state.start = now /\ Kick!Counted(s, text).state.lines = 1
         \/ now - s.start <= FloodSecs /\ Kick!Counted(s, text).state.start = s.start
            /\ Kick!Counted(s, text).state.lines = s.lines + 1
  <2> DEFINE w == Kick!Windowed(s)
             f == [w EXCEPT !.lines = @ + 1]
             r == IF text = f.last THEN [f EXCEPT !.repeats = @ + 1] ELSE [f EXCEPT !.repeats = 0, !.last = text]
             c == Kick!Counted(s, text)
  <2>1. /\ w \in Counters
        /\ \/ now - s.start > FloodSecs /\ w.start = now /\ w.lines = 0
           \/ now - s.start <= FloodSecs /\ w.start = s.start /\ w.lines = s.lines
    <3>1. now \in Nat /\ FloodSecs \in Nat /\ s.start \in Nat
      BY <1>1, KickersAssumption DEF Counters, KickTypes
    <3>2. CASE now - s.start > FloodSecs
      BY Zenon, <1>1, <3>1, <3>2 DEF Kick!Windowed, Counters
    <3>3. CASE ~(now - s.start > FloodSecs)
      BY <1>1, <3>1, <3>3 DEF Kick!Windowed, Counters
    <3> QED BY <3>2, <3>3
  <2> HIDE DEF w
  <2>2. f \in Counters /\ f.start = w.start /\ f.lines = w.lines + 1
    BY <2>1 DEF Counters
  <2> HIDE DEF f
  <2>3. r.start = f.start /\ r.lines = f.lines
    BY <2>2 DEF Counters
  <2>4. c = IF f.lines >= FloodLines THEN [state |-> f, why |-> "flood"]
            ELSE [state |-> r, why |-> IF r.repeats >= RepeatTimes THEN "repeat" ELSE None]
    BY DEF Kick!Counted, f, w
  <2> HIDE DEF r, c
  <2>5. c.why # "caps"
    BY Zenon, <2>4, NoneAssumption
  <2>6. c.state.start = f.start /\ c.state.lines = f.lines
    BY <2>3, <2>4
  <2>7. w.lines \in Nat
    BY <2>1 DEF Counters
  <2> QED BY <2>1, <2>2, <2>5, <2>6, <2>7 DEF c
<1>5. CASE text = "CAPS"
  BY <1>2, <1>3, <1>5 DEF s, j, d
<1>6. CASE text # "CAPS"
  BY <1>2, <1>3, <1>4, <1>6 DEF s, j, d
<1> QED BY <1>5, <1>6

\* ... and to warnings and kicks.
LEMMA DealtRungs ==
    ASSUME KickTypes, NEW u \in Speaker, NEW text \in Text,
           NEW r \in Rungs, Before(u).kicks = r.kicks, Before(u).warned = r.warned,
           Before(u).kicks < Ttb, Before(u).kicks > 0 => Before(u).warned
    PROVE  LET d == Dealt(u, text).state
               c == Kick!Climbed(r, Dealt(u, text).does)
           IN  d.kicks = c.kicks /\ d.warned = c.warned /\ d.kicks < Ttb /\ (d.kicks > 0 => d.warned)
<1> DEFINE s == Before(u)
           j == Judged(u, text)
<1>1. s \in Counters /\ j.state \in Counters
  BY BeforeType, JudgedType
<1>2. j.state.kicks = s.kicks /\ j.state.warned = s.warned
  <2>1. j = IF text = "CAPS" THEN [state |-> s, why |-> "caps"] ELSE Kick!Counted(s, text)
    BY DEF Judged, Kick!Verdict
  <2>2. Kick!Counted(s, text).state.kicks = s.kicks /\ Kick!Counted(s, text).state.warned = s.warned
    <3> HIDE DEF s
    <3> DEFINE w == Kick!Windowed(s)
               f == [w EXCEPT !.lines = @ + 1]
               q == IF text = f.last THEN [f EXCEPT !.repeats = @ + 1] ELSE [f EXCEPT !.repeats = 0, !.last = text]
    <3>1. w \in Counters /\ w.kicks = s.kicks /\ w.warned = s.warned
      BY Zenon, <1>1 DEF Kick!Windowed, Counters, KickTypes
    <3> HIDE DEF w
    <3>2. f \in Counters /\ f.kicks = s.kicks /\ f.warned = s.warned
      BY <3>1 DEF Counters
    <3> HIDE DEF f
    <3>3. q.kicks = s.kicks /\ q.warned = s.warned
      BY <3>2 DEF Counters
    <3>4. Kick!Counted(s, text).state \in {f, q}
      BY DEF Kick!Counted, f, w
    <3> HIDE DEF q
    <3> QED BY <3>2, <3>3, <3>4
  <2> QED BY <2>1, <2>2
<1> HIDE DEF s, j
<1>3. j.state.kicks = r.kicks /\ j.state.warned = r.warned /\ j.state.kicks < Ttb
      /\ (j.state.kicks > 0 => j.state.warned)
  BY <1>2 DEF s
<1>4. Ttb \in Nat /\ Ttb > 0
  BY KickersAssumption
<1>5. CASE j.why = None
  <2>1. Dealt(u, text) = [state |-> j.state, does |-> None]
    BY <1>5 DEF Dealt, j
  <2>2. Kick!Climbed(r, None) = r
    BY Zenon, NoneAssumption DEF Kick!Climbed
  <2> QED BY <1>3, <2>1, <2>2
<1>6. CASE j.why # None
  <2> DEFINE t == j.state
  <2>1. Dealt(u, text) = Kick!Punished(t)
    BY <1>6 DEF Dealt, j
  <2>2. t \in Counters /\ t.kicks = r.kicks /\ t.warned = r.warned /\ t.kicks < Ttb /\ (t.kicks > 0 => t.warned)
    BY <1>1, <1>3
  <2> HIDE DEF t
  <2>3. CASE ~t.warned
    <3>1. /\ Kick!Punished(t).does = "warn"
          /\ Kick!Punished(t).state.kicks = t.kicks /\ Kick!Punished(t).state.warned = TRUE
      BY <2>2, <2>3 DEF Kick!Punished, Counters
    <3>2. Kick!Climbed(r, "warn").kicks = r.kicks /\ Kick!Climbed(r, "warn").warned = TRUE
      BY DEF Kick!Climbed, Rungs
    <3> QED BY Zenon, <2>1, <2>2, <3>1, <3>2
  <2>4. CASE t.warned /\ t.kicks + 1 >= Ttb
    <3>1. /\ Kick!Punished(t).does = "ban"
          /\ Kick!Punished(t).state.kicks = 0 /\ Kick!Punished(t).state.warned = t.warned
      BY Zenon, <2>2, <2>4 DEF Kick!Punished, Counters
    <3>2. Kick!Climbed(r, "ban").kicks = 0 /\ Kick!Climbed(r, "ban").warned = r.warned
      BY DEF Kick!Climbed, Rungs
    <3> QED BY <1>4, <2>1, <2>2, <3>1, <3>2
  <2>5. CASE t.warned /\ ~(t.kicks + 1 >= Ttb)
    <3>1. /\ Kick!Punished(t).does = "kick"
          /\ Kick!Punished(t).state.kicks = t.kicks + 1 /\ Kick!Punished(t).state.warned = t.warned
      BY Zenon, <2>2, <2>5 DEF Kick!Punished, Counters
    <3>2. Kick!Climbed(r, "kick").kicks = r.kicks + 1 /\ Kick!Climbed(r, "kick").warned = r.warned
      BY DEF Kick!Climbed, Rungs
    <3>3. t.kicks \in Nat
      BY <2>2 DEF Counters
    <3>4. Kick!Punished(t).state.kicks = Kick!Climbed(r, "kick").kicks /\ Kick!Punished(t).state.kicks < Ttb
      BY <1>4, <2>2, <2>5, <3>1, <3>2, <3>3
    <3> QED BY Zenon, <2>1, <2>2, <2>5, <3>1, <3>2, <3>4
  <2> QED BY <2>3, <2>4, <2>5
<1> QED BY <1>5, <1>6

LEMMA CountsStep ==
    ASSUME KickTypes, KickTypes', NEW w \in Speaker, Counts(w), Kick!Next
    PROVE  Counts(w)'
<1>1. /\ KickStays(w) \/ Forgotten(w) \/ Speaks(w)
      /\ now' \in {now, now + 1}
  BY SpeakersMove
<1>2. now \in Nat /\ FloodSecs \in Nat /\ Ttb \in Nat /\ Ttb > 0
  BY KickersAssumption DEF KickTypes
<1>3. CASE KickStays(w)
  <2>1. CASE chatter[w] = None
    BY <1>3, <2>1 DEF KickStays, Counts
  <2>2. CASE chatter[w] # None
    <3>1. chatter[w].start <= now' /\ chatter[w].start \in Nat
      <4>1. chatter[w] \in Counters
        BY <2>2 DEF KickTypes
      <4> QED BY <1>1, <1>2, <2>2, <4>1 DEF Counts, Counters
    <3> QED BY <1>3, <2>2, <3>1 DEF KickStays, Counts
  <2> QED BY <2>1, <2>2
<1>4. CASE Forgotten(w)
  BY <1>4 DEF Forgotten, Counts
<1>5. CASE Speaks(w)
  <2>1. PICK text \in Text :
           /\ now' = now
           /\ chatter'[w] = Dealt(w, text).state
           /\ lines'[w] = IF Judged(w, text).why = "caps" THEN lines[w] ELSE Append(lines[w], now)
           /\ ladder'[w] = Kick!Climbed(ladder[w], Dealt(w, text).does)
    BY <1>5 DEF Speaks
  <2> DEFINE s == Before(w)
             d == Dealt(w, text).state
             ls == lines[w]
             r == ladder[w]
  <2>2. s \in Counters /\ d \in Counters /\ ls \in Seq(Nat) /\ r \in Rungs
    BY Zenon, BeforeType, DealtType DEF KickTypes
  <2>3. /\ s.start <= now
        /\ s.lines <= Len(ls)
        /\ \A i \in 1..Len(ls) : i > Len(ls) - s.lines => ls[i] >= s.start /\ ls[i] <= s.start + FloodSecs
        /\ s.kicks = r.kicks /\ s.warned = r.warned /\ s.kicks < Ttb
        /\ s.kicks > 0 => s.warned
    <3>1. CASE chatter[w] = None
      <4>1. s = Kick!Silent /\ r = Kick!Rung
        BY <3>1 DEF Before, Counts
      <4>2. s.start = 0 /\ s.lines = 0 /\ s.kicks = 0 /\ s.warned = FALSE
        BY <4>1 DEF Kick!Silent
      <4>3. r.kicks = 0 /\ r.warned = FALSE
        BY <4>1 DEF Kick!Rung
      <4> HIDE DEF s, r, ls
      <4>4. s.kicks = r.kicks /\ s.warned = r.warned
        BY Zenon, <4>2, <4>3
      <4>6. ~(s.kicks > 0)
        BY <4>2
      <4>5. Len(ls) \in Nat
        BY <2>2
      <4> QED BY <1>2, <4>2, <4>4, <4>5, <4>6
    <3>2. CASE chatter[w] # None
      BY <3>2 DEF Before, Counts
    <3> QED BY <3>1, <3>2
  <2>4. d.kicks = ladder'[w].kicks /\ d.warned = ladder'[w].warned /\ d.kicks < Ttb /\ (d.kicks > 0 => d.warned)
    BY <2>1, <2>2, <2>3, DealtRungs
  <2>5. /\ Judged(w, text).why = "caps" => d.start = s.start /\ d.lines = s.lines
        /\ Judged(w, text).why # "caps" =>
              \/ now - s.start > FloodSecs /\ d.start = now /\ d.lines = 1
              \/ now - s.start <= FloodSecs /\ d.start = s.start /\ d.lines = s.lines + 1
    BY DealtLines
  <2>6. d # None
    BY <2>2, CountersNotNone
  <2> DEFINE m == lines'[w]
  <2>7. /\ d.start <= now
        /\ d.lines <= Len(m)
        /\ \A i \in 1..Len(m) : i > Len(m) - d.lines => m[i] >= d.start /\ m[i] <= d.start + FloodSecs
    <3> HIDE DEF s, d, ls
    <3>0. s.start \in Nat /\ s.lines \in Nat /\ Len(ls) \in Nat
      BY <2>2 DEF Counters
    <3>1. CASE Judged(w, text).why = "caps"
      <4>1. m = ls
        BY <2>1, <3>1 DEF ls
      <4> QED BY <2>3, <2>5, <3>1, <4>1
    <3>2. CASE Judged(w, text).why # "caps"
      <4>1. m = Append(ls, now)
        BY <2>1, <3>2 DEF ls
      <4> HIDE DEF m
      <4>2. /\ Len(m) = Len(ls) + 1
            /\ \A i \in 1..Len(ls) : m[i] = ls[i]
            /\ m[Len(ls) + 1] = now
        BY <1>2, <2>2, <4>1
      <4>3. CASE now - s.start > FloodSecs
        BY <1>2, <2>5, <3>0, <3>2, <4>2, <4>3
      <4>4. CASE now - s.start <= FloodSecs
        <5>1. d.start = s.start /\ d.lines = s.lines + 1
          BY <1>2, <2>5, <3>0, <3>2, <4>4
        <5>2. ASSUME NEW i \in 1..Len(m), i > Len(m) - d.lines
              PROVE  m[i] >= d.start /\ m[i] <= d.start + FloodSecs
          <6>1. CASE i = Len(ls) + 1
            BY <1>2, <2>3, <3>0, <4>2, <4>4, <5>1, <6>1
          <6>2. CASE i # Len(ls) + 1
            <7>1. i \in 1..Len(ls) /\ i > Len(ls) - s.lines
              BY <3>0, <4>2, <5>1, <5>2, <6>2
            <7> QED BY <2>3, <4>2, <5>1, <7>1
          <6> QED BY <6>1, <6>2
        <5> QED BY <2>3, <3>0, <4>2, <5>1, <5>2
      <4> QED BY <1>2, <3>0, <4>3, <4>4
    <3> QED BY <3>1, <3>2
  <2>8. now' = now /\ chatter'[w] = d
    BY <2>1
  <2> HIDE DEF s, d, ls, r, m
  <2> QED BY <2>4, <2>6, <2>7, <2>8 DEF Counts, m
<1> QED BY <1>1, <1>3, <1>4, <1>5

-----------------------------------------------------------------------------
(* Nicks and votes.                                                        *)

\* A nick is one user's.
NicksDiffer == \A u, v \in Speaker : nick[u] # None /\ nick[u] = nick[v] => u = v

\* Who is not connected is not on the channel and has no counters.
GoneForGood ==
    \A u \in Speaker : nick[u] = None => u \notin members /\ u \notin there /\ chatter[u] = None

\* A running tally lacks a vote yet; each of its voters voted against whoever
\* has the nick, since it started, unless the nick changed hands.
TalliesRun ==
    \A n \in Nick : votes[n] # None =>
        /\ Cardinality(votes[n].voters) \in 1..(Threshold - 1)
        /\ votes[n].started <= now
        /\ n \notin inherited =>
              \A v \in votes[n].voters, u \in Speaker : nick[u] = n =>
                  \E b \in ballots : b.by = v /\ b.on = u /\ b.at >= votes[n].started

\* What a step makes of nicks.
LEMMA NickSteps ==
    ASSUME KickTypes, Kick!Next
    PROVE  \/ UNCHANGED nick
           \/ \E u \in Speaker : nick[u] # None /\ Kick!Quit(u) /\ nick' = [nick EXCEPT ![u] = None]
           \/ \E u \in Speaker, n \in Nick :
                 /\ nick[u] # None /\ \A v \in Speaker : nick[v] # n
                 /\ nick' = [nick EXCEPT ![u] = n]
                 /\ Kick!NickChange(u, n)
<1>1. ASSUME NEW u \in Speaker, NEW text, Kick!Say(u, text) PROVE UNCHANGED nick
  BY <1>1 DEF Kick!Say, Kick!ircd
<1>2. ASSUME NEW u \in Speaker, NEW target, NEW ban, Kick!Vote(u, target, ban) PROVE UNCHANGED nick
  BY <1>2 DEF Kick!Vote, Kick!ircd
<1>3. ASSUME NEW u \in Speaker, Kick!Join(u) \/ Kick!Part(u) PROVE UNCHANGED nick
  BY <1>3 DEF Kick!Join, Kick!Part
<1>4. ASSUME NEW u \in Speaker, Kick!Quit(u) PROVE nick[u] # None /\ nick' = [nick EXCEPT ![u] = None]
  BY <1>4 DEF Kick!Quit
<1>5. ASSUME NEW u \in Speaker, NEW n \in Nick, Kick!NickChange(u, n)
      PROVE  nick[u] # None /\ (\A v \in Speaker : nick[v] # n) /\ nick' = [nick EXCEPT ![u] = n]
  BY <1>5 DEF Kick!NickChange
<1>6. CASE Kick!UserCert \/ Kick!Ping \/ Kick!Drain \/ Kick!Tick \/ Kick!Restart
  BY <1>6 DEF Kick!UserCert, Kick!Ping, Kick!Drain, Kick!Tick, Kick!Restart, Kick!ircd
<1> QED BY <1>1, <1>2, <1>3, <1>4, <1>5, <1>6, KickSteps

LEMMA NicksDifferStep ==
    ASSUME KickTypes, NicksDiffer, Kick!Next
    PROVE  NicksDiffer'
<1>1. DOMAIN nick = Speaker
  BY DEF KickTypes
<1>2. CASE UNCHANGED nick
  BY <1>2 DEF NicksDiffer
<1>3. ASSUME NEW u \in Speaker, nick' = [nick EXCEPT ![u] = None] PROVE NicksDiffer'
  BY <1>1, <1>3 DEF NicksDiffer
<1>4. ASSUME NEW u \in Speaker, NEW n \in Nick, \A v \in Speaker : nick[v] # n, nick' = [nick EXCEPT ![u] = n]
      PROVE  NicksDiffer'
  BY <1>1, <1>4 DEF NicksDiffer
<1> QED BY <1>2, <1>3, <1>4, NickSteps

LEMMA GoneForGoodStep ==
    ASSUME KickTypes, GoneForGood, Kick!Next
    PROVE  GoneForGood'
<1>0. DOMAIN nick = Speaker /\ DOMAIN chatter = Speaker /\ None \notin Nick
  BY Zenon, NoneAssumption DEF KickTypes
<1>a. \A u \in Speaker : u \in there => nick[u] # None
  BY DEF GoneForGood
<1>1. ASSUME NEW u \in Speaker, NEW text \in {"CAPS", "t"}, Kick!Say(u, text) PROVE GoneForGood'
  <2>1. /\ u \in there /\ UNCHANGED <<nick, there, members>> /\ text \in Text
        /\ Kick!kicker_check(u, text)
    BY <1>1 DEF Kick!Say, Kick!ircd, Text
  <2>2. \A w \in Speaker : w # u => chatter'[w] = chatter[w]
    BY <1>0, <2>1, CheckedShape
  <2> QED BY <1>a, <2>1, <2>2 DEF GoneForGood
<1>2. ASSUME NEW v \in Speaker, NEW target \in Speaker, NEW ban \in BOOLEAN, Kick!Vote(v, target, ban)
      PROVE  GoneForGood'
  <2>1. /\ v \in there /\ UNCHANGED <<nick, there, members>>
        /\ Kick!handle_vote(v, target, ban) \/ Kick!VotedAgain(v, target)
    BY <1>2 DEF Kick!Vote, Kick!ircd
  <2>2. CASE Kick!handle_vote(v, target, ban)
    BY <2>1, <2>2 DEF Kick!handle_vote, GoneForGood
  <2>3. CASE Kick!VotedAgain(v, target)
    <3>1. PICK text \in Text : text = "vote"
      BY DEF Text
    <3>2. Kick!kicker_check(v, text)
      BY <2>3, <3>1 DEF Kick!VotedAgain
    <3>3. \A w \in Speaker : w # v => chatter'[w] = chatter[w]
      BY <1>0, <3>2, CheckedShape
    <3> QED BY <1>a, <2>1, <3>3 DEF GoneForGood
  <2> QED BY <2>1, <2>2, <2>3
<1>3. ASSUME NEW u \in Speaker, Kick!Join(u) PROVE GoneForGood'
  BY <1>3 DEF Kick!Join, GoneForGood
<1>4. ASSUME NEW u \in Speaker, Kick!Part(u) PROVE GoneForGood'
  <2>1. /\ there' = there \ {u} /\ members' = members \ {u} /\ UNCHANGED nick
        /\ chatter' = [chatter EXCEPT ![u] = None]
    BY <1>4 DEF Kick!Part, Kick!forget_chatter
  <2> QED BY <1>0, <2>1 DEF GoneForGood
<1>5. ASSUME NEW u \in Speaker, Kick!Quit(u) PROVE GoneForGood'
  <2>1. /\ there' = there \ {u} /\ members' = members \ {u} /\ nick' = [nick EXCEPT ![u] = None]
        /\ chatter' = [chatter EXCEPT ![u] = None]
    BY <1>5 DEF Kick!Quit, Kick!forget_chatter
  <2> QED BY <1>0, <2>1 DEF GoneForGood
<1>6. ASSUME NEW u \in Speaker, NEW n \in Nick, Kick!NickChange(u, n) PROVE GoneForGood'
  <2>1. /\ UNCHANGED <<there, members, chatter>> /\ nick' = [nick EXCEPT ![u] = n]
    BY <1>6 DEF Kick!NickChange
  <2> QED BY <1>0, <2>1 DEF GoneForGood
<1>7. CASE Kick!UserCert \/ Kick!Ping \/ Kick!Tick
  BY <1>7 DEF Kick!UserCert, Kick!Ping, Kick!Tick, Kick!ircd, GoneForGood
<1>8. CASE Kick!Drain
  <2>1. UNCHANGED <<nick, members, chatter>> /\ there' \subseteq there
    BY <1>8 DEF Kick!Drain
  <2> QED BY <2>1 DEF GoneForGood
<1>9. CASE Kick!Restart
  <2>1. UNCHANGED <<nick, there>> /\ members' = there /\ chatter' = [u \in Speaker |-> None]
    BY <1>9 DEF Kick!Restart, Kick!ircd
  <2> QED BY <2>1 DEF GoneForGood
<1> QED BY <1>1, <1>2, <1>3, <1>4, <1>5, <1>6, <1>7, <1>8, <1>9, KickSteps

\* Tallies that a sweep leaves are the same and within their time.
LEMMA KeptIs ==
    ASSUME KickTypes, NEW n \in Nick, Kept[n] # None
    PROVE  votes[n] # None /\ Kept[n] = votes[n] /\ now - votes[n].started <= VoteTtl
BY DEF Kept, Kick!Swept, Kick!Open

LEMMA TalliesRunStep ==
    ASSUME KickTypes, TalliesRun, NicksDiffer, Kick!Next
    PROVE  TalliesRun'
<1>0. /\ DOMAIN nick = Speaker /\ None \notin Nick /\ DOMAIN votes = Nick
      /\ now \in Nat
      /\ \A n \in Nick : votes[n] # None => votes[n] \in Tally
  BY Zenon, NoneAssumption DEF KickTypes
\* The votes are the swept or the same ones, and no more ballots are asked for.
<1>1. ASSUME \A n \in Nick : votes'[n] \in {votes[n], None},
             \A n \in Nick : n \notin inherited' /\ votes'[n] # None => n \notin inherited,
             \A n \in Nick, u \in Speaker : nick'[u] = n /\ votes'[n] # None /\ n \notin inherited' => nick[u] = n,
             ballots \subseteq ballots', now' \in {now, now + 1}
      PROVE  TalliesRun'
  <2> SUFFICES ASSUME NEW n \in Nick, votes'[n] # None
               PROVE  /\ Cardinality(votes'[n].voters) \in 1..(Threshold - 1)
                      /\ votes'[n].started <= now'
                      /\ n \notin inherited' =>
                            \A v \in votes'[n].voters, u \in Speaker : nick'[u] = n =>
                                \E b \in ballots' : b.by = v /\ b.on = u /\ b.at >= votes'[n].started
    BY DEF TalliesRun
  <2>1. votes'[n] = votes[n] /\ votes[n] # None /\ votes[n] \in Tally
    BY <1>0, <1>1
  <2>2. /\ Cardinality(votes[n].voters) \in 1..(Threshold - 1)
        /\ votes[n].started <= now
        /\ n \notin inherited =>
              \A v \in votes[n].voters, u \in Speaker : nick[u] = n =>
                  \E b \in ballots : b.by = v /\ b.on = u /\ b.at >= votes[n].started
    BY <2>1 DEF TalliesRun
  <2>3. votes'[n].started <= now'
    BY <1>0, <1>1, <2>1, <2>2 DEF Tally
  <2> QED BY <1>1, <2>1, <2>2, <2>3
<1>2. CASE UNCHANGED <<votes, nick, inherited>> /\ ballots \subseteq ballots' /\ now' \in {now, now + 1}
  BY <1>1, <1>2
<1>3. ASSUME NEW u \in Speaker, NEW text \in {"CAPS", "t"}, Kick!Say(u, text) PROVE TalliesRun'
  BY <1>2, <1>3 DEF Kick!Say, Kick!Spend, Kick!ircd
<1>4. ASSUME NEW u \in Speaker, Kick!Join(u) \/ Kick!Part(u) PROVE TalliesRun'
  BY <1>2, <1>4 DEF Kick!Join, Kick!Part, Kick!Spend, Kick!history
<1>5. CASE Kick!UserCert \/ Kick!Ping \/ Kick!Drain \/ Kick!Tick
  BY <1>2, <1>5 DEF Kick!UserCert, Kick!Ping, Kick!Drain, Kick!Tick, Kick!history, Kick!ircd
<1>6. CASE Kick!Restart
  BY <1>6 DEF Kick!Restart, TalliesRun
<1>7. ASSUME NEW u \in Speaker, Kick!Quit(u) PROVE TalliesRun'
  <2>1. nick' = [nick EXCEPT ![u] = None] /\ UNCHANGED <<votes, inherited, ballots, now>>
    BY <1>7 DEF Kick!Quit, Kick!Spend
  <2> QED BY <1>0, <1>1, <2>1
<1>8. ASSUME NEW u \in Speaker, NEW n \in Nick, Kick!NickChange(u, n) PROVE TalliesRun'
  <2>1. /\ nick' = [nick EXCEPT ![u] = n] /\ UNCHANGED <<votes, ballots, now>>
        /\ inherited' = IF votes[n] # None THEN inherited \cup {n} ELSE inherited
    BY <1>8 DEF Kick!NickChange, Kick!Spend
  <2> QED BY <1>0, <1>1, <2>1
<1>9. ASSUME NEW v \in Speaker, NEW target \in Speaker, NEW ban \in BOOLEAN, Kick!Vote(v, target, ban)
      PROVE  TalliesRun'
  <2>1. /\ UNCHANGED <<nick, now>> /\ nick[target] # None
        /\ Kick!handle_vote(v, target, ban) \/ Kick!VotedAgain(v, target)
    BY <1>9 DEF Kick!Vote, Kick!Spend, Kick!ircd
  <2>2. \A m \in Nick : Kept[m] \in {votes[m], None}
    BY DEF Kept, Kick!Swept
  <2>3. CASE Kick!VotedAgain(v, target)
    <3>1. votes' = Kept /\ UNCHANGED <<ballots, inherited>>
      BY <2>3 DEF Kick!VotedAgain, Kept
    <3> QED BY <1>1, <2>1, <2>2, <3>1
  <2>4. CASE Kick!handle_vote(v, target, ban)
    <3> DEFINE n == nick[target]
               c == Counting(v, n)
    <3>1. n \in Nick
      BY <2>1 DEF KickTypes
    <3>2. /\ votes' = [Kept EXCEPT ![n] = IF Enough(v, n) THEN None ELSE c]
          /\ ballots' = ballots \cup {[by |-> v, on |-> target, at |-> now]}
          /\ votes'[n] # None /\ Kept[n] # None => inherited' = inherited
          /\ inherited \ inherited' \subseteq {n}
      BY <2>1, <2>4, VoteIs
    <3>3. c \in Tally /\ DOMAIN Kept = Nick
      BY <3>1, CountingType, KeptType
    <3> HIDE DEF c
    <3> SUFFICES ASSUME NEW m \in Nick, votes'[m] # None
                 PROVE  /\ Cardinality(votes'[m].voters) \in 1..(Threshold - 1)
                        /\ votes'[m].started <= now'
                        /\ m \notin inherited' =>
                              \A w \in votes'[m].voters, u \in Speaker : nick'[u] = m =>
                                  \E b \in ballots' : b.by = w /\ b.on = u /\ b.at >= votes'[m].started
      BY DEF TalliesRun
    <3>4. CASE m # n
      <4>1. votes'[m] = votes[m] /\ votes[m] # None
        BY <2>2, <3>2, <3>3, <3>4
      <4>2. m \notin inherited' => m \notin inherited
        BY <3>2, <3>4
      <4>3. /\ Cardinality(votes[m].voters) \in 1..(Threshold - 1)
            /\ votes[m].started <= now
            /\ m \notin inherited =>
                  \A w \in votes[m].voters, u \in Speaker : nick[u] = m =>
                      \E b \in ballots : b.by = w /\ b.on = u /\ b.at >= votes[m].started
        BY <4>1 DEF TalliesRun
      <4> QED BY <2>1, <3>2, <4>1, <4>2, <4>3
    <3>5. CASE m = n
      <4>1. votes'[m] = c /\ ~Enough(v, n)
        BY <3>1, <3>2, <3>3, <3>5
      <4>2. c.voters \subseteq Speaker /\ v \in c.voters
        BY <3>3 DEF Tally, Counting, c
      <4>3. IsFiniteSet(c.voters)
        BY <4>2, FS_Subset, KickersAssumption
      <4>4. Cardinality(c.voters) \in Nat /\ Cardinality(c.voters) # 0
        BY <4>2, <4>3, FS_CardinalityType, FS_EmptySet
      <4>5. Cardinality(c.voters) < Threshold
        BY <4>1, <4>4, SameCardinality, KickersAssumption DEF Enough, c
      <4>6. \E b \in ballots' : b.by = v /\ b.on = target /\ b.at = now
        <5> DEFINE b == [by |-> v, on |-> target, at |-> now]
        <5>1. b \in ballots' /\ b.by = v /\ b.on = target /\ b.at = now
          BY <3>2
        <5> HIDE DEF b
        <5> QED BY <5>1
      <4>7. \A u \in Speaker : nick[u] = n => u = target
        BY <2>1 DEF NicksDiffer
      <4>8. CASE Kept[n] = None
        <5>1. c = [voters |-> {v}, started |-> now]
          BY <4>8 DEF Counting, c
        <5>2. c.started = now /\ c.voters = {v}
          BY <5>1
        <5>3. Cardinality(votes'[m].voters) \in 1..(Threshold - 1)
          BY <4>1, <4>4, <4>5, KickersAssumption
        <5>4. votes'[m].started <= now'
          BY <1>0, <2>1, <4>1, <5>2
        <5>5. ASSUME NEW w \in votes'[m].voters, NEW u \in Speaker, nick'[u] = m
              PROVE  \E b \in ballots' : b.by = w /\ b.on = u /\ b.at >= votes'[m].started
          <6>1. w = v /\ u = target
            BY <2>1, <3>5, <4>1, <4>7, <5>2, <5>5
          <6>2. PICK b \in ballots' : b.by = v /\ b.on = target /\ b.at = now
            BY <4>6
          <6> QED BY <1>0, <4>1, <5>2, <6>1, <6>2
        <5> QED BY <5>3, <5>4, <5>5
      <4>9. CASE Kept[n] # None
        <5>1. votes[n] # None /\ Kept[n] = votes[n] /\ votes[n] \in Tally
          BY <1>0, <3>1, <4>9, KeptIs
        <5>2. c.started = votes[n].started /\ c.voters = votes[n].voters \cup {v}
          BY <4>9, <5>1 DEF Counting, Tally, c
        <5>3. /\ votes[n].started <= now
              /\ n \notin inherited =>
                    \A w \in votes[n].voters, u \in Speaker : nick[u] = n =>
                        \E b \in ballots : b.by = w /\ b.on = u /\ b.at >= votes[n].started
          BY <3>1, <5>1 DEF TalliesRun
        <5>4. inherited' = inherited
          BY <3>2, <3>5, <4>9
        <5>5. votes[n].started \in Nat
          BY <5>1 DEF Tally
        <5>6. m \notin inherited' =>
                  \A w \in c.voters, u \in Speaker : nick'[u] = m =>
                      \E b \in ballots' : b.by = w /\ b.on = u /\ b.at >= c.started
          <6> SUFFICES ASSUME n \notin inherited, NEW w \in c.voters, NEW u \in Speaker, nick[u] = n
                       PROVE  \E b \in ballots' : b.by = w /\ b.on = u /\ b.at >= c.started
            BY <2>1, <3>5, <5>4
          <6>1. CASE w = v
            BY <1>0, <4>6, <4>7, <5>2, <5>3, <5>5, <6>1
          <6>2. CASE w # v
            BY <3>2, <5>2, <5>3, <6>2
          <6> QED BY <6>1, <6>2
        <5> QED BY <2>1, <4>1, <4>4, <4>5, <5>2, <5>3, <5>6, KickersAssumption
      <4> QED BY <4>8, <4>9
    <3> QED BY <3>4, <3>5
  <2> QED BY <2>1, <2>3, <2>4
<1> QED BY <1>3, <1>4, <1>5, <1>6, <1>7, <1>8, <1>9, KickSteps

-----------------------------------------------------------------------------
(* The kickers' bounds, and a fair vote.                                   *)

KickBounds ==
    /\ \A p \in pending : p.at <= now + BanExpire
    /\ now \in (FloodSecs + 1)..MaxNow["kickers"]
    /\ ops \in 0..MaxOps["kickers"]

LEMMA KickBoundsStep ==
    ASSUME KickTypes, KickBounds, Kick!Next
    PROVE  KickBounds'
<1>1. /\ now \in Nat /\ ops \in Nat /\ pending \subseteq Waiting
      /\ FloodSecs \in Nat /\ BanExpire \in Nat /\ MaxNow["kickers"] \in Nat /\ MaxOps["kickers"] \in Nat
  BY KickersAssumption DEF KickTypes, Waiting
<1>2. \/ now' = now /\ ops' \in {ops, ops + 1} /\ ops' \in 0..MaxOps["kickers"]
      \/ Kick!Tick
  BY <1>1, KickSteps DEF KickBounds, Kick!Say, Kick!Vote, Kick!Join, Kick!Part, Kick!Quit, Kick!NickChange,
     Kick!UserCert, Kick!Ping, Kick!Drain, Kick!Restart, Kick!Spend
<1>3. CASE Kick!Tick
  <2>1. now' = now + 1 /\ now' <= MaxNow["kickers"] /\ UNCHANGED <<pending, ops>>
    BY <1>1, <1>3 DEF Kick!Tick
  <2> QED BY <1>1, <2>1 DEF KickBounds, Waiting
<1>4. CASE ~Kick!Tick
  <2>1. \/ Event
        \/ pending' = pending \ Kick!Due
        \/ UNCHANGED pending
        \/ pending' = {}
    BY <1>4, KickSteps, SayIs, VoteStep, JoinIs, PartIs, QuitIs, NickChangeIs, UserCertIs, PingIs, DrainIs, RestartIs
  <2>2. \A p \in pending' : p.at <= now + BanExpire
    <3>1. CASE Event
      BY <3>1 DEF Event, KickAnswered, Kick!Answer, Kick!sweep_unbans, KickBounds
    <3> QED BY <2>1, <3>1 DEF KickBounds
  <2> QED BY <1>2, <1>4, <2>2 DEF KickBounds
<1> QED BY <1>3, <1>4

\* A vote counts once for whoever casts it; what it is answered with ends with
\* a kick if it was the last one that lacked.
LEMMA FairVoteStep ==
    ASSUME KickTypes, KickTypes', NicksDiffer, TalliesRun, Kick!Next
    PROVE  Kick!FairVote
<1> SUFFICES ASSUME NEW u \in Speaker, ballots' # ballots, Len(down') > Len(down),
                    Kick!Last(down') = Kick!KickOf(u), nick[u] \notin inherited
             PROVE  Kick!Cardinality({b.by : b \in {x \in ballots' : x.on = u /\ now - x.at <= VoteTtl}}) >= Threshold
  BY DEF Kick!FairVote
<1>1. PICK v \in Speaker, target \in Speaker, ban \in BOOLEAN : Kick!Vote(v, target, ban)
  BY KickSteps DEF Kick!Say, Kick!Join, Kick!Part, Kick!Quit, Kick!NickChange, Kick!history,
     Kick!UserCert, Kick!Ping, Kick!Drain, Kick!Restart, Kick!Tick
<1>2. nick[target] # None /\ Kick!handle_vote(v, target, ban)
  BY <1>1 DEF Kick!Vote, Kick!VotedAgain
<1> DEFINE n == nick[target]
           c == Counting(v, n)
           out == Enough(v, n)
           acts == CASE out /\ ban  -> <<Kick!Ban(Host[target]), Kick!KickOf(target)>>
                     [] out /\ ~ban -> <<Kick!KickOf(target)>>
                     [] OTHER       -> <<>>
<1>3. n \in Nick /\ c \in Tally
  BY Zenon, <1>2, CountingType DEF KickTypes
<1>4. down' = down \o Kick!Lifted \o acts /\ ballots' = ballots \cup {[by |-> v, on |-> target, at |-> now]}
  BY <1>2 DEF Kick!handle_vote, Kick!Answer, Counting, Enough, Kept, HostOf
<1> HIDE DEF out
<1>5. out /\ u = target
  <2>1. Kick!Lifted \in Seq({Kick!Unban(p.host) : p \in Kick!Due}) /\ down \in Seq(KickOrders)
    BY Zenon, LiftedIs DEF KickTypes
  <2>2. \A w, h : Kick!KickOf(w) # Kick!Unban(h)
    BY DEF Kick!KickOf, Kick!Unban
  <2>3. \A w : Kick!KickOf(u) = Kick!KickOf(w) => u = w
    BY DEF Kick!KickOf
  <2>4. Kick!Last(down') = down'[Len(down')]
    BY DEF Kick!Last
  <2>5. CASE out /\ ban
    <3>1. acts = <<Kick!Ban(Host[target]), Kick!KickOf(target)>>
      BY <2>5
    <3> HIDE DEF acts
    <3>2. down'[Len(down')] = Kick!KickOf(target)
      BY <1>4, <2>1, <3>1
    <3> QED BY <2>3, <2>4, <2>5, <3>2
  <2>6. CASE out /\ ~ban
    <3>1. acts = <<Kick!KickOf(target)>>
      BY <2>6
    <3> HIDE DEF acts
    <3>2. down'[Len(down')] = Kick!KickOf(target)
      BY <1>4, <2>1, <3>1
    <3> QED BY <2>3, <2>4, <2>6, <3>2
  <2>7. CASE ~out
    <3>1. acts = <<>>
      BY <2>7
    <3> HIDE DEF acts
    <3> DEFINE l == Kick!Lifted
    <3>2. l \in Seq({Kick!Unban(p.host) : p \in Kick!Due})
      BY <2>1
    <3> HIDE DEF l
    <3>3. down' = down \o l
      BY <1>4, <2>1, <3>1, <3>2 DEF l
    <3>4. Len(l) > 0 /\ down'[Len(down')] = l[Len(l)]
      BY <2>1, <3>2, <3>3
    <3>5. l[Len(l)] \in {Kick!Unban(p.host) : p \in Kick!Due}
      BY <3>2, <3>4
    <3> QED BY Zenon, <2>2, <2>4, <3>4, <3>5
  <2> QED BY <2>5, <2>6, <2>7
<1> HIDE DEF acts
<1> DEFINE S == {b.by : b \in {x \in ballots' : x.on = u /\ now - x.at <= VoteTtl}}
<1>6. \A w \in c.voters : \E b \in ballots' : b.by = w /\ b.on = u /\ now - b.at <= VoteTtl
  <2>1. now \in Nat /\ VoteTtl \in Nat
    BY KickersAssumption DEF KickTypes
  <2>2. \E b \in ballots' : b.by = v /\ b.on = u /\ now - b.at <= VoteTtl
    <3> DEFINE b == [by |-> v, on |-> target, at |-> now]
    <3>1. b \in ballots' /\ b.by = v /\ b.on = target /\ b.at = now
      BY <1>4
    <3> HIDE DEF b
    <3> QED BY <1>5, <2>1, <3>1
  <2>3. CASE Kept[n] = None
    <3>1. c = [voters |-> {v}, started |-> now]
      BY <2>3 DEF Counting
    <3>2. c.voters = {v}
      BY <3>1
    <3> QED BY <2>2, <3>2
  <2>4. CASE Kept[n] # None
    <3>1. /\ votes[n] # None /\ Kept[n] = votes[n] /\ votes[n] \in Tally
          /\ now - votes[n].started <= VoteTtl
      <4>1. votes[n] # None /\ Kept[n] = votes[n] /\ now - votes[n].started <= VoteTtl
        BY <1>3, <2>4, KeptIs
      <4> QED BY <1>3, <4>1 DEF KickTypes
    <3>2. c.voters = votes[n].voters \cup {v}
      BY <2>4, <3>1 DEF Counting, Tally
    <3>3. \A w \in votes[n].voters : \E b \in ballots : b.by = w /\ b.on = u /\ b.at >= votes[n].started
      BY <1>3, <1>5, <3>1 DEF TalliesRun
    <3>4. ballots \subseteq ballots' /\ (\A b \in ballots : b.at \in Nat) /\ votes[n].started \in Nat
      BY Zenon, <1>4, <3>1 DEF Tally, KickTypes
    <3>5. ASSUME NEW w \in votes[n].voters
          PROVE  \E b \in ballots' : b.by = w /\ b.on = u /\ now - b.at <= VoteTtl
      <4>1. PICK b \in ballots : b.by = w /\ b.on = u /\ b.at >= votes[n].started
        BY <3>3
      <4>2. now - b.at <= VoteTtl
        BY <2>1, <3>1, <3>4, <4>1
      <4> QED BY <3>4, <4>1, <4>2
    <3> QED BY <2>2, <3>2, <3>5
  <2> QED BY <2>3, <2>4
<1> HIDE DEF c
<1>7. c.voters \subseteq S
  BY <1>6
<1>8. S \subseteq Speaker
  <2>1. ballots' \subseteq [by : Speaker, on : Speaker, at : Nat]
    BY DEF KickTypes
  <2> QED BY <2>1
<1> HIDE DEF S
<1>9. IsFiniteSet(S) /\ IsFiniteSet(c.voters)
  BY <1>7, <1>8, FS_Subset, KickersAssumption
<1>10. Cardinality(c.voters) <= Cardinality(S) /\ Cardinality(S) \in Nat /\ Cardinality(c.voters) \in Nat
  BY <1>7, <1>9, FS_Subset, FS_CardinalityType
<1>11. Cardinality(c.voters) >= Threshold
  BY <1>5, SameCardinality DEF Enough, c, out
<1>12. Cardinality(S) >= Threshold
  BY <1>10, <1>11, KickersAssumption
<1>13. Kick!Cardinality(S) >= Threshold
  BY <1>12, SameCardinality
<1> QED BY <1>13 DEF S

KickHolds ==
    /\ KickTypes /\ KickBounds
    /\ BansEnd
    /\ \A w \in Speaker : Counts(w)
    /\ NicksDiffer /\ GoneForGood /\ TalliesRun

KickInv == scene = "kickers" => KickHolds

LEMMA KickHoldsInit == Kick!Init => KickHolds
<1> SUFFICES ASSUME Kick!Init PROVE KickHolds
  OBVIOUS
<1>1. /\ nick = [u \in Speaker |-> Nick0[u]] /\ banned = {} /\ down = <<>> /\ pending = {}
      /\ chatter = [u \in Speaker |-> None] /\ votes = [n \in Nick |-> None]
      /\ ladder = [u \in Speaker |-> Kick!Rung]
      /\ now = FloodSecs + 1 /\ ops = 0
  BY DEF Kick!Init, NickOf
<1>2. KickTypes
  BY KickTypesInit
<1>3. BansEnd
  <2>1. Banned = {}
    BY <1>1 DEF Banned, Kick!ToSet
  <2> QED BY <2>1 DEF BansEnd
<1>4. KickBounds
  BY <1>1, KickersAssumption DEF KickBounds
<1>5. \A w \in Speaker : Counts(w)
  BY <1>1 DEF Counts
<1>6. NicksDiffer /\ GoneForGood /\ TalliesRun
  <2>1. NicksDiffer
    BY <1>1, KickersAssumption DEF NicksDiffer
  <2>2. GoneForGood
    BY Zenon, <1>1, KickersAssumption, NoneAssumption DEF GoneForGood
  <2> QED BY <1>1, <2>1, <2>2 DEF TalliesRun
<1> QED BY <1>2, <1>3, <1>4, <1>5, <1>6 DEF KickHolds

LEMMA KickHoldsStep == KickHolds /\ Kick!Next => KickHolds'
<1> SUFFICES ASSUME KickHolds, Kick!Next PROVE KickHolds'
  OBVIOUS
<1>1. KickTypes /\ KickBounds /\ BansEnd /\ NicksDiffer /\ GoneForGood /\ TalliesRun
  BY DEF KickHolds
<1>2. KickTypes'
  BY <1>1, KickTypesStep
<1>3. \A w \in Speaker : Counts(w)'
  BY <1>1, <1>2, CountsStep DEF KickHolds
<1>4. KickBounds' /\ BansEnd' /\ NicksDiffer' /\ GoneForGood' /\ TalliesRun'
  BY <1>1, KickBoundsStep, BansEndStep, NicksDifferStep, GoneForGoodStep, TalliesRunStep
<1> QED BY <1>2, <1>3, <1>4 DEF KickHolds

LEMMA KickHoldsStutter == KickHolds /\ UNCHANGED Kick!vars => KickHolds'
<1> SUFFICES ASSUME KickHolds, UNCHANGED Kick!vars PROVE KickHolds'
  OBVIOUS
<1>1. UNCHANGED <<nick, there, banned, members, chatter, votes, pending, down, now, lines, ladder,
                  ballots, inherited, voted, lost, ops>>
  BY DEF Kick!vars, Kick!history
<1>2. KickTypes' /\ KickBounds'
  BY <1>1 DEF KickHolds, KickTypes, KickBounds
<1>3. BansEnd'
  BY <1>1 DEF KickHolds, BansEnd, Banned, EndInSight, Kick!ToSet
<1>4. \A w \in Speaker : Counts(w)'
  BY <1>1 DEF KickHolds, Counts
<1>5. NicksDiffer' /\ GoneForGood' /\ TalliesRun'
  BY <1>1 DEF KickHolds, NicksDiffer, GoneForGood, TalliesRun
<1> QED BY <1>2, <1>3, <1>4, <1>5 DEF KickHolds

LEMMA KickInvInit == Init => KickInv
BY KickHoldsInit DEF Init, InitKickers, KickInv

LEMMA KickInvStep == KickInv /\ [Next]_vars => KickInv'
BY SceneSteps, KickHoldsStep, KickHoldsStutter DEF KickInv

\* Counters whose lines reach the limit are a flood's.
LEMMA KickCountedRight ==
    ASSUME KickHolds
    PROVE  Kick!FloodMeansFlood /\ Kick!LadderClimbed
<1>1. ASSUME NEW u \in Speaker, chatter[u] # None, chatter[u].lines >= FloodLines
      PROVE  \E i \in DOMAIN lines[u] :
                /\ i + FloodLines - 1 \in DOMAIN lines[u]
                /\ lines[u][i + FloodLines - 1] - lines[u][i] <= FloodSecs
  <2> DEFINE s == chatter[u]
             ls == lines[u]
             i == Len(ls) - FloodLines + 1
  <2>1. /\ s.lines \in Nat /\ s.start \in Nat /\ ls \in Seq(Nat)
        /\ FloodLines \in Nat \ {0} /\ FloodSecs \in Nat
    BY Zenon, <1>1, KickersAssumption DEF KickHolds, KickTypes, Counters
  <2>2. /\ s.lines <= Len(ls)
        /\ \A k \in 1..Len(ls) : k > Len(ls) - s.lines => ls[k] >= s.start /\ ls[k] <= s.start + FloodSecs
    BY <1>1 DEF KickHolds, Counts
  <2>3. s.lines >= FloodLines
    BY <1>1
  <2>4. Len(ls) \in Nat /\ DOMAIN ls = 1..Len(ls) /\ \A k \in 1..Len(ls) : ls[k] \in Nat
    BY <2>1
  <2> HIDE DEF s, ls
  <2>5. i \in 1..Len(ls) /\ i > Len(ls) - s.lines /\ i + FloodLines - 1 = Len(ls) /\ Len(ls) \in 1..Len(ls)
    BY <2>1, <2>2, <2>3, <2>4
  <2> HIDE DEF i
  <2>6. ls[Len(ls)] <= s.start + FloodSecs
    <3>1. Len(ls) > Len(ls) - s.lines
      BY <2>1, <2>3, <2>4
    <3> QED BY <3>1, <2>2, <2>5
  <2>9. ls[i] >= s.start
    BY <2>2, <2>5
  <2>7. ls[Len(ls)] - ls[i] <= FloodSecs
    BY <2>1, <2>4, <2>5, <2>6, <2>9
  <2>8. i \in DOMAIN ls /\ i + FloodLines - 1 \in DOMAIN ls /\ ls[i + FloodLines - 1] - ls[i] <= FloodSecs
    BY <2>4, <2>5, <2>7
  <2> QED BY <2>8 DEF ls
<1>2. Kick!LadderClimbed
  BY DEF Kick!LadderClimbed, KickHolds, Counts
<1> QED BY <1>1, <1>2 DEF Kick!FloodMeansFlood

LEMMA KickTypeOK == KickHolds => Kick!TypeOK
<1> SUFFICES ASSUME KickHolds PROVE Kick!TypeOK
  OBVIOUS
<1>1. ASSUME NEW u \in Speaker
      PROVE  /\ nick[u] \in Nick \cup {None}
             /\ nick[u] = None => u \notin members /\ u \notin there /\ chatter[u] = None
             /\ chatter[u] # None => chatter[u].kicks < Ttb /\ chatter[u].start <= now
  BY DEF KickHolds, KickTypes, GoneForGood, Counts
<1>2. ASSUME NEW n \in Nick, votes[n] # None
      PROVE  Kick!Cardinality(votes[n].voters) \in 1..(Threshold - 1)
  BY <1>2, SameCardinality DEF KickHolds, TalliesRun
<1> QED BY <1>1, <1>2 DEF Kick!TypeOK, KickHolds, KickBounds

-----------------------------------------------------------------------------
(* Locks: what is said last of a mode, or of the topic.                    *)

Says(a, m) == IF m = "topic" THEN a.do = "topic" ELSE a.do = "modes" /\ a.change[m] # ""

Said(a, m) == IF m = "topic" THEN a.topic ELSE a.change[m]

\* After all of q it is x, when it was `was` before.
Stays(q, m, was, x) ==
    \/ \E i \in 1..Len(q) : Says(q[i], m) /\ Said(q[i], m) = x /\ \A j \in 1..Len(q) : j > i => ~Says(q[j], m)
    \/ (\A i \in 1..Len(q) : ~Says(q[i], m)) /\ was = x

LEMMA StaysSaid ==
    ASSUME NEW T, NEW q \in Seq(T), NEW e \in T, NEW m, NEW was
    PROVE  /\ Says(e, m) => Stays(Append(q, e), m, was, Said(e, m))
           /\ \A x : ~Says(e, m) /\ Stays(q, m, was, x) => Stays(Append(q, e), m, was, x)
<1> DEFINE r == Append(q, e)
<1>1. /\ r[Len(q) + 1] = e /\ Len(q) \in Nat /\ Len(r) = Len(q) + 1
      /\ \A i \in 1..Len(q) : r[i] = q[i] /\ i \in 1..Len(r)
      /\ \A i \in 1..Len(r) : i \in 1..Len(q) \/ i = Len(q) + 1
  OBVIOUS
<1> HIDE DEF r
<1>2. ASSUME Says(e, m) PROVE Stays(r, m, was, Said(e, m))
  <2>1. Len(q) + 1 \in 1..Len(r) /\ \A j \in 1..Len(r) : ~(j > Len(q) + 1)
    BY <1>1
  <2> QED BY <1>1, <1>2, <2>1 DEF Stays
<1>3. ASSUME NEW x, ~Says(e, m), Stays(q, m, was, x) PROVE Stays(r, m, was, x)
  <2>1. CASE \E i \in 1..Len(q) : Says(q[i], m) /\ Said(q[i], m) = x /\ \A j \in 1..Len(q) : j > i => ~Says(q[j], m)
    <3>1. PICK i \in 1..Len(q) : Says(q[i], m) /\ Said(q[i], m) = x /\ \A j \in 1..Len(q) : j > i => ~Says(q[j], m)
      BY <2>1
    <3>2. \A j \in 1..Len(r) : j > i => ~Says(r[j], m)
      BY <1>1, <1>3, <3>1
    <3> QED BY <1>1, <3>1, <3>2 DEF Stays
  <2>2. CASE (\A i \in 1..Len(q) : ~Says(q[i], m)) /\ was = x
    <3>1. \A i \in 1..Len(r) : ~Says(r[i], m)
      BY <1>1, <1>3, <2>2
    <3> QED BY <2>2, <3>1 DEF Stays
  <2> QED BY <1>3, <2>1, <2>2 DEF Stays
<1> QED BY <1>2, <1>3 DEF r

LEMMA StaysDone ==
    ASSUME NEW T, NEW q \in Seq(T), q # <<>>, NEW m, NEW was, NEW x, Stays(q, m, was, x),
           NEW now_, now_ = IF Says(Head(q), m) THEN Said(Head(q), m) ELSE was
    PROVE  Stays(Tail(q), m, now_, x)
<1> DEFINE r == Tail(q)
<1>1. /\ Head(q) = q[1] /\ Len(q) \in Nat /\ Len(r) = Len(q) - 1
      /\ \A i \in 1..Len(r) : r[i] = q[i + 1] /\ i + 1 \in 1..Len(q)
      /\ \A i \in 1..Len(q) : i # 1 => i - 1 \in 1..Len(r) /\ r[i - 1] = q[i]
  OBVIOUS
<1> HIDE DEF r
<1>2. CASE \E i \in 1..Len(q) : Says(q[i], m) /\ Said(q[i], m) = x /\ \A j \in 1..Len(q) : j > i => ~Says(q[j], m)
  <2>1. PICK i \in 1..Len(q) : Says(q[i], m) /\ Said(q[i], m) = x /\ \A j \in 1..Len(q) : j > i => ~Says(q[j], m)
    BY <1>2
  <2>2. CASE i = 1
    <3>1. now_ = x
      BY <1>1, <2>1, <2>2
    <3>2. \A j \in 1..Len(r) : ~Says(r[j], m)
      <4>1. \A j \in 1..Len(r) : j + 1 > 1
        BY <1>1
      <4> QED BY <1>1, <2>1, <2>2, <4>1
    <3> QED BY <3>1, <3>2 DEF Stays, r
  <2>3. CASE i # 1
    <3>1. i - 1 \in 1..Len(r) /\ r[i - 1] = q[i]
      BY <1>1, <2>1, <2>3
    <3>2. \A j \in 1..Len(r) : j > i - 1 => ~Says(r[j], m)
      <4>1. \A j \in 1..Len(r) : j > i - 1 => j + 1 > i
        BY <1>1, <2>1
      <4> QED BY <1>1, <2>1, <4>1
    <3> QED BY <2>1, <3>1, <3>2 DEF Stays, r
  <2> QED BY <2>2, <2>3
<1>3. CASE (\A i \in 1..Len(q) : ~Says(q[i], m)) /\ was = x
  <2>1. Len(q) > 0 /\ 1 \in 1..Len(q)
    BY <1>1
  <2>2. now_ = x
    BY <1>1, <1>3, <2>1
  <2>3. \A i \in 1..Len(r) : ~Says(r[i], m)
    BY <1>1, <1>3
  <2> QED BY <2>2, <2>3 DEF Stays, r
<1> QED BY <1>2, <1>3 DEF Stays

-----------------------------------------------------------------------------
(* Locks: types.                                                           *)

Words == [n : {"", "+", "-"}, f : {"", "-", "p", "q"}]

Shapes == [n : {"+", "-"}, f : {"-", "p", "q"}]

Registry == [lock : Words, keep : BOOLEAN, tlock : BOOLEAN, topic : Nat]

Changed == [do : {"modes"}, change : Words] \cup [do : {"topic"}, topic : Nat \ {0}, access : BOOLEAN] \cup [do : {"create"}]

Ordered == [do : {"modes"}, change : Words] \cup [do : {"topic"}, topic : Nat]

LockTypes ==
    /\ reg \in Registry \cup {None}
    /\ modes \in Shapes /\ topic \in Nat
    /\ up \in Seq(Changed) /\ down \in Seq(Ordered)
    /\ spent \in 0..MaxOps["locks"] /\ bad \subseteq 1..spent
    /\ astray \in BOOLEAN

\* Topics are numbered by their changes.
LockBounds ==
    /\ reg # None => reg.topic <= spent
    /\ topic <= spent
    /\ \A i \in 1..Len(up) : up[i].do = "topic" => up[i].topic <= spent
    /\ \A i \in 1..Len(down) : down[i].do = "topic" => down[i].topic <= spent

LEMMA WordPairs ==
    ASSUME NEW a, NEW b
    PROVE  /\ [n |-> a, f |-> b].n = a /\ [n |-> a, f |-> b].f = b
           /\ a \in {"", "+", "-"} /\ b \in {"", "-", "p", "q"} => [n |-> a, f |-> b] \in Words
           /\ a \in {"+", "-"} /\ b \in {"-", "p", "q"} => [n |-> a, f |-> b] \in Shapes
BY Zenon DEF Words, Shapes

LEMMA WordsAre ==
    /\ Lock!Change \subseteq Words /\ Lock!Lock = Words /\ Lock!Bare \in Words
    /\ \A m \in {"n", "f"} : Lock!Bare[m] = ""
    /\ Lock!Value = {"p", "q"}
    /\ Lock!Fresh \in Registry /\ None \notin Registry
<1>1. Lock!Lock = Words /\ Lock!Value = {"p", "q"} /\ Lock!Bare \in Words
  BY DEF Lock!Lock, Lock!Value, Lock!Bare, Words
<1>2. ASSUME NEW c \in Lock!Change PROVE c \in Words
  <2>1. CASE c \in {[n |-> w, f |-> ""] : w \in {"+", "-"}}
    <3>1. PICK w \in {"+", "-"} : c = [n |-> w, f |-> ""]
      BY Zenon, <2>1
    <3> QED BY Zenon, <3>1, WordPairs
  <2>2. CASE c \in {[n |-> "", f |-> w] : w \in Lock!Value \cup {"-"}}
    <3>1. PICK w \in Lock!Value \cup {"-"} : c = [n |-> "", f |-> w]
      BY Zenon, <2>2
    <3> QED BY Zenon, <1>1, <3>1, WordPairs
  <2> QED BY Zenon, <2>1, <2>2 DEF Lock!Change
<1>3. Lock!Fresh \in Registry
  BY <1>1 DEF Lock!Fresh, Registry
<1>4. None \notin Registry
  BY Zenon, NoneAssumption DEF Registry, Words
<1>5. Lock!Bare.n = "" /\ Lock!Bare.f = ""
  BY DEF Lock!Bare
<1>6. \A m \in {"n", "f"} : Lock!Bare[m] = ""
  BY Zenon, <1>5
<1> QED BY Zenon, <1>1, <1>2, <1>3, <1>4, <1>6

LEMMA OverIs ==
    ASSUME NEW s \in Shapes, NEW c \in Words
    PROVE  /\ Lock!Over(s, c) \in Shapes
           /\ \A m \in {"n", "f"} : Lock!Over(s, c)[m] = IF c[m] = "" THEN s[m] ELSE c[m]
<1> DEFINE a == IF c.n = "" THEN s.n ELSE c.n
           b == IF c.f = "" THEN s.f ELSE c.f
<1>1. Lock!Over(s, c) = [n |-> a, f |-> b]
  BY DEF Lock!Over
<1>2. c.n \in {"", "+", "-"} /\ c.f \in {"", "-", "p", "q"} /\ s.n \in {"+", "-"} /\ s.f \in {"-", "p", "q"}
  BY Zenon DEF Words, Shapes
<1>3. a \in {"+", "-"} /\ b \in {"-", "p", "q"}
  BY Zenon, <1>2
<1> HIDE DEF a, b
<1>4. Lock!Over(s, c).n = a /\ Lock!Over(s, c).f = b /\ Lock!Over(s, c) \in Shapes
  <2>1. [n |-> a, f |-> b] \in Shapes
    BY Zenon, <1>3, WordPairs
  <2>2. [n |-> a, f |-> b].n = a /\ [n |-> a, f |-> b].f = b
    BY Zenon, WordPairs
  <2> QED BY <1>1, <2>1, <2>2
<1> QED BY Zenon, <1>4 DEF a, b

\* A change that a lock puts back.
Against(c, m) ==
    LET l == reg.lock
    IN  \/ m = "n" /\ c.n # "" /\ l.n # "" /\ c.n # l.n
        \/ m = "f" /\ ((l.f \in {"p", "q"} /\ c.f # "") \/ (l.f = "-" /\ c.f \in {"p", "q"}))

LEMMA EnforceIs ==
    ASSUME NEW c \in Words, reg \in Registry
    PROVE  /\ Lock!enforce(c) \in Words
           /\ \A m \in {"n", "f"} : Lock!enforce(c)[m] = IF Against(c, m) THEN reg.lock[m] ELSE ""
           /\ \A m \in {"n", "f"} : Against(c, m) => reg.lock[m] # ""
           /\ \A m \in {"n", "f"} : c[m] # "" /\ ~Against(c, m) /\ reg.lock[m] # "" => c[m] = reg.lock[m]
<1> DEFINE l == reg.lock
           vn == IF c.n # "" /\ l.n # "" /\ c.n # l.n THEN l.n ELSE ""
           vf == CASE l.f \in Lock!Value /\ c.f # "" -> l.f
                   [] l.f = "-" /\ c.f \in Lock!Value -> "-"
                   [] OTHER -> ""
<1>1. Lock!enforce(c) = [n |-> vn, f |-> vf]
  BY DEF Lock!enforce
<1>2. c.n \in {"", "+", "-"} /\ c.f \in {"", "-", "p", "q"} /\ l.n \in {"", "+", "-"} /\ l.f \in {"", "-", "p", "q"}
  BY Zenon DEF Words, Registry
<1>3. vn = (IF Against(c, "n") THEN l.n ELSE "") /\ vf = (IF Against(c, "f") THEN l.f ELSE "")
  BY Zenon, <1>2, WordsAre DEF Against
<1> HIDE DEF vn, vf
<1>4. Lock!enforce(c).n = vn /\ Lock!enforce(c).f = vf
  BY ZenonT(40), <1>1, WordPairs
<1>5. Lock!enforce(c) \in Words
  <2>1. vn \in {"", "+", "-"} /\ vf \in {"", "-", "p", "q"}
    BY Zenon, <1>2, <1>3
  <2>2. [n |-> vn, f |-> vf] \in Words
    BY Zenon, <2>1, WordPairs
  <2> QED BY <1>1, <2>2
<1>6. \A m \in {"n", "f"} : (Against(c, m) => l[m] # "") /\ (c[m] # "" /\ ~Against(c, m) /\ l[m] # "" => c[m] = l[m])
  BY Zenon, <1>2 DEF Against
<1> QED BY Zenon, <1>3, <1>4, <1>5, <1>6

-----------------------------------------------------------------------------
(* Locks: what a step does.                                                *)

Topics(q) == \E i \in 1..Len(q) : q[i].do = "topic"

\* The engine sends for a command of the founder's: a topic it stores, or modes
\* that its lock has, unless they are the founder's own.
Sends(a) ==
    /\ down' = Append(down, a) /\ UNCHANGED <<modes, topic, up, bad>>
    /\ reg # None /\ reg' \in Registry /\ reg'.keep = reg.keep /\ reg'.tlock = reg.tlock
    /\ \/ /\ a \in [do : {"modes"}, change : Words] /\ reg'.topic = reg.topic /\ astray' = astray
          /\ \A m \in {"n", "f"} \ stray' :
                \/ a.change[m] = reg'.lock[m]
                \/ m \notin stray /\ a.change[m] = "" /\ reg'.lock = reg.lock
       \/ /\ a \in [do : {"topic"}, topic : Nat] /\ a.topic = spent + 1 /\ reg'.topic = spent + 1
          /\ reg'.lock = reg.lock /\ stray' = stray /\ astray' = Lock!HasTopic(up)

\* A registration, its end, KEEPTOPIC and TOPICLOCK.
Settles ==
    /\ UNCHANGED <<modes, topic, up, down>> /\ astray' = TRUE
    /\ reg' \in Registry \cup {None}
    /\ reg' # None =>
          \/ reg'.lock = [n |-> "", f |-> ""] /\ reg'.topic = 0
          \/ reg # None /\ reg'.lock = reg.lock /\ reg'.topic = reg.topic /\ stray' = stray
    /\ \/ bad' = {}
       \/ bad' = bad /\ reg # None /\ reg' # None /\ reg'.tlock = reg.tlock /\ reg'.topic = reg.topic

\* Users change the channel, and tell.
Changes(e) ==
    /\ e \in Changed /\ up' = Append(up, e) /\ UNCHANGED <<reg, down, stray>>
    /\ \/ e.do = "modes" /\ modes' = Lock!Over(modes, e.change) /\ UNCHANGED <<topic, bad, astray>>
       \/ /\ e.do = "topic" /\ e.topic = spent + 1 /\ topic' = spent + 1 /\ modes' = modes
          /\ bad' = (IF reg # None /\ reg.tlock /\ ~e.access THEN bad \cup {spent + 1} ELSE bad)
          /\ astray' = (astray \/ Lock!HasTopic(down))
       \/ e.do = "create" /\ modes' \in Shapes /\ topic' = 0 /\ UNCHANGED <<bad, astray>>

LEMMA TopicsAre ==
    ASSUME NEW T, NEW q \in Seq(T)
    PROVE  Lock!HasTopic(q) <=> Topics(q)
BY DEF Lock!HasTopic, Topics

LEMMA LockSteps ==
    ASSUME LockTypes, Lock!Next
    PROVE  \/ /\ spent < MaxOps["locks"] /\ spent' = spent + 1
              /\ (\E a \in Ordered : Sends(a)) \/ Settles \/ (\E e \in Changed : Changes(e))
           \/ Lock!Handle \/ Lock!Drain
<1> DEFINE Spent == spent < MaxOps["locks"] /\ spent' = spent + 1
<1>0. /\ spent \in Nat /\ modes \in Shapes /\ reg \in Registry \cup {None}
      /\ None \notin Registry /\ Lock!Fresh \in Registry
      /\ bad \subseteq 1..spent
  <2>1. None \notin Registry /\ Lock!Fresh \in Registry
    BY Zenon, WordsAre
  <2> QED BY <2>1, LocksAssumption DEF LockTypes
<1>1. ASSUME Lock!Register \/ Lock!DropChannel PROVE Spent /\ Settles
  <2>1. /\ Spent /\ UNCHANGED <<modes, topic, up, down>> /\ astray' = TRUE /\ bad' = {}
        /\ reg' \in {None, Lock!Fresh}
    BY <1>1 DEF Lock!Register, Lock!DropChannel, Lock!Command, Lock!Spend, Lock!ircd
  <2>2. Lock!Fresh.lock = [n |-> "", f |-> ""] /\ Lock!Fresh.topic = 0
    BY DEF Lock!Fresh, Lock!Bare
  <2> QED BY Zenon, <1>0, <2>1, <2>2 DEF Settles
<1>2. ASSUME NEW on_ \in BOOLEAN, Lock!SetKeepTopic(on_) \/ Lock!SetTopicLock(on_) PROVE Spent /\ Settles
  <2>1. /\ Spent /\ UNCHANGED <<modes, topic, up, down, stray>> /\ astray' = TRUE /\ reg # None
    BY <1>2 DEF Lock!SetKeepTopic, Lock!SetTopicLock, Lock!Command, Lock!Spend, Lock!ircd, Lock!Registered
  <2>2. /\ reg' \in Registry /\ reg'.lock = reg.lock /\ reg'.topic = reg.topic
        /\ bad' = {} \/ (bad' = bad /\ reg'.tlock = reg.tlock)
    <3>1. reg \in Registry
      BY <1>0, <2>1
    <3>2. CASE Lock!SetKeepTopic(on_)
      <4>1. reg' = [reg EXCEPT !.keep = on_] /\ bad' = bad
        BY <3>2 DEF Lock!SetKeepTopic
      <4> QED BY <3>1, <4>1 DEF Registry
    <3>3. CASE Lock!SetTopicLock(on_)
      <4>1. reg' = [reg EXCEPT !.tlock = on_] /\ bad' = {}
        BY <3>3 DEF Lock!SetTopicLock
      <4> QED BY <3>1, <4>1 DEF Registry
    <3> QED BY <1>2, <3>2, <3>3
  <2> QED BY Zenon, <1>0, <2>1, <2>2 DEF Settles
<1>3. ASSUME NEW l \in Words, Lock!Mlock(l) PROVE Spent /\ \E a \in Ordered : Sends(a)
  <2> DEFINE a == [do |-> "modes", change |-> l]
  <2>1. /\ Spent /\ UNCHANGED <<modes, topic, up, bad, astray>> /\ down' = Append(down, a)
        /\ reg # None /\ reg' = [reg EXCEPT !.lock = l]
    BY <1>3 DEF Lock!Mlock, Lock!Command, Lock!Spend, Lock!ircd, Lock!Registered
  <2>2. reg' \in Registry /\ reg'.lock = l /\ reg'.keep = reg.keep /\ reg'.tlock = reg.tlock /\ reg'.topic = reg.topic
    <3>1. reg \in Registry
      BY <1>0, <2>1
    <3> QED BY <2>1, <3>1 DEF Registry
  <2>3. a \in [do : {"modes"}, change : Words] /\ a \in Ordered /\ a.change = l
    BY DEF Ordered
  <2> HIDE DEF a
  <2>4. Sends(a)
    BY <2>1, <2>2, <2>3 DEF Sends
  <2> QED BY <2>1, <2>3, <2>4
<1>4. ASSUME Lock!Enforce PROVE Spent /\ \E a \in Ordered : Sends(a)
  <2> DEFINE a == [do |-> "modes", change |-> reg.lock]
  <2>1. /\ Spent /\ UNCHANGED <<modes, topic, up, bad, astray, reg>> /\ reg # None
        /\ down' = down \o <<a>>
    BY <1>4 DEF Lock!Enforce, Lock!lock_modes, Lock!Command, Lock!Spend, Lock!ircd, Lock!Registered
  <2>2. reg \in Registry /\ reg.lock \in Words
    BY <1>0, <2>1 DEF Registry
  <2>3. a \in [do : {"modes"}, change : Words] /\ a \in Ordered /\ a.change = reg.lock
    BY <2>2 DEF Ordered
  <2> HIDE DEF a
  <2>4. down' = Append(down, a)
    BY <2>1, <2>3 DEF LockTypes
  <2>5. Sends(a)
    BY <2>1, <2>2, <2>3, <2>4 DEF Sends
  <2> QED BY <2>1, <2>3, <2>5
<1>5. ASSUME NEW c \in Words, Lock!Mode(c) PROVE Spent /\ \E a \in Ordered : Sends(a)
  <2> DEFINE a == [do |-> "modes", change |-> c]
  <2>1. /\ Spent /\ UNCHANGED <<modes, topic, up, bad, astray, reg>> /\ down' = Append(down, a)
        /\ reg # None /\ stray' = stray \cup {m \in {"n", "f"} : c[m] # ""}
    BY Zenon, <1>5 DEF Lock!Mode, Lock!Command, Lock!Spend, Lock!ircd, Lock!Registered
  <2>2. reg \in Registry
    BY Zenon, <1>0, <2>1
  <2>3. a \in [do : {"modes"}, change : Words] /\ a \in Ordered /\ a.change = c
    BY DEF Ordered
  <2> HIDE DEF a
  <2>4. \A m \in {"n", "f"} \ stray' : m \notin stray /\ a.change[m] = ""
    BY Zenon, <2>1, <2>3
  <2>5. Sends(a)
    BY Zenon, <2>1, <2>2, <2>3, <2>4 DEF Sends
  <2> QED BY Zenon, <2>1, <2>3, <2>5
<1>6. ASSUME Lock!Topic PROVE Spent /\ \E a \in Ordered : Sends(a)
  <2> DEFINE a == [do |-> "topic", topic |-> spent + 1]
  <2>1. /\ Spent /\ UNCHANGED <<modes, topic, up, bad, stray>> /\ down' = Append(down, a)
        /\ reg # None /\ reg' = [reg EXCEPT !.topic = spent + 1] /\ astray' = Lock!HasTopic(up)
    BY <1>6 DEF Lock!Topic, Lock!Command, Lock!Spend, Lock!ircd, Lock!Registered
  <2>2. /\ reg' \in Registry /\ reg'.lock = reg.lock /\ reg'.keep = reg.keep /\ reg'.tlock = reg.tlock
        /\ reg'.topic = spent + 1
    <3>1. reg \in Registry /\ spent + 1 \in Nat
      BY <1>0, <2>1
    <3> QED BY <2>1, <3>1 DEF Registry
  <2>3. a \in [do : {"topic"}, topic : Nat] /\ a \in Ordered /\ a.topic = spent + 1
    BY <1>0 DEF Ordered
  <2> HIDE DEF a
  <2>4. Sends(a)
    BY Zenon, <2>1, <2>2, <2>3 DEF Sends
  <2> QED BY <2>1, <2>3, <2>4
<1>7. ASSUME NEW c \in Words, Lock!UserMode(c) PROVE Spent /\ \E e \in Changed : Changes(e)
  <2> DEFINE e == [do |-> "modes", change |-> c]
  <2>1. /\ Spent /\ UNCHANGED <<reg, down, stray, topic, bad, astray>> /\ up' = Append(up, e)
        /\ modes' = Lock!Over(modes, c)
    BY <1>7 DEF Lock!UserMode, Lock!Act, Lock!Spend
  <2>2. e \in Changed /\ e.do = "modes" /\ e.change = c
    BY DEF Changed
  <2> HIDE DEF e
  <2> QED BY <2>1, <2>2 DEF Changes
<1>8. ASSUME NEW acc \in BOOLEAN, Lock!UserTopic(acc) PROVE Spent /\ \E e \in Changed : Changes(e)
  <2> DEFINE e == [do |-> "topic", topic |-> spent + 1, access |-> acc]
  <2>1. /\ Spent /\ UNCHANGED <<reg, down, stray, modes>> /\ up' = Append(up, e)
        /\ topic' = spent + 1 /\ astray' = (astray \/ Lock!HasTopic(down))
        /\ bad' = IF reg # None /\ reg.tlock /\ ~acc THEN bad \cup {spent + 1} ELSE bad
    BY <1>8 DEF Lock!UserTopic, Lock!Act, Lock!Spend, Lock!Registered
  <2>2. e \in Changed /\ e.do = "topic" /\ e.topic = spent + 1 /\ e.access = acc
    BY <1>0 DEF Changed
  <2> HIDE DEF e
  <2> QED BY <2>1, <2>2 DEF Changes
<1>9. ASSUME Lock!Recreated PROVE Spent /\ \E e \in Changed : Changes(e)
  <2> DEFINE e == [do |-> "create"]
  <2>1. /\ Spent /\ UNCHANGED <<reg, down, stray, bad, astray>> /\ up' = Append(up, e)
        /\ topic' = 0 /\ modes' = [n |-> "+", f |-> "-"]
    BY <1>9 DEF Lock!Recreated, Lock!Act, Lock!Spend
  <2>2. e \in Changed /\ e.do = "create"
    BY DEF Changed
  <2>3. modes' \in Shapes
    BY Zenon, <2>1, WordPairs
  <2> HIDE DEF e
  <2> QED BY <2>1, <2>2, <2>3 DEF Changes
<1>10. Lock!Change \subseteq Words /\ Lock!Lock = Words
  BY Zenon, WordsAre
<1> QED BY <1>1, <1>2, <1>3, <1>4, <1>5, <1>6, <1>7, <1>8, <1>9, <1>10 DEF Lock!Next

ModesOf(w) == [do |-> "modes", change |-> w]
TopicOf(t) == [do |-> "topic", topic |-> t]

LEMMA OrderedAre ==
    /\ \A w \in Words : ModesOf(w) \in Ordered /\ ModesOf(w).do = "modes" /\ ModesOf(w).change = w
    /\ \A t \in Nat : TopicOf(t) \in Ordered /\ TopicOf(t).do = "topic" /\ TopicOf(t).topic = t
BY DEF ModesOf, TopicOf, Ordered

\* The engine puts modes back that its lock has otherwise ...
ModesHandled(e) ==
    /\ UNCHANGED <<reg, stray, astray>>
    /\ \E r \in Words :
          /\ \A m \in {"n", "f"} : r[m] = IF reg # None /\ Against(e.change, m) THEN reg.lock[m] ELSE ""
          /\ down' = Append(down, ModesOf(r)) \/ (down' = down /\ \A m \in {"n", "f"} : r[m] = "")

\* ... a topic too or else keeps it, ...
TopicHandled(e) ==
    /\ stray' = stray
    /\ \/ /\ reg # None /\ reg.tlock /\ ~e.access
          /\ reg' = reg /\ down' = Append(down, TopicOf(reg.topic)) /\ (astray' <=> Topics(up'))
       \/ /\ reg # None /\ (reg.tlock => e.access) /\ (reg.keep \/ reg.tlock)
          /\ reg' = [reg EXCEPT !.topic = e.topic] /\ down' = down /\ astray' = astray
       \/ /\ (reg # None => ~reg.keep /\ ~reg.tlock)
          /\ UNCHANGED <<reg, down, astray>>

\* ... and gives a new channel both.
CreateHandled ==
    /\ reg' = reg /\ stray' = {}
    /\ \/ reg = None /\ down' = down /\ astray' = TRUE
       \/ /\ reg # None
          /\ \/ reg.keep /\ reg.topic # 0 /\ down' = Append(Append(down, ModesOf(reg.lock)), TopicOf(reg.topic))
             \/ ~(reg.keep /\ reg.topic # 0) /\ down' = Append(down, ModesOf(reg.lock))
          /\ ~astray' => reg.keep /\ ~Topics(up') /\ ~Topics(down) /\ (reg.topic = 0 => ~astray)

LEMMA LockHandled ==
    ASSUME LockTypes, Lock!Handle
    PROVE  /\ up # <<>> /\ up' = Tail(up) /\ Head(up) \in Changed
           /\ UNCHANGED <<modes, topic, bad, spent>>
           /\ Head(up).do = "modes" => ModesHandled(Head(up))
           /\ Head(up).do = "topic" => TopicHandled(Head(up))
           /\ Head(up).do = "create" => CreateHandled
<1> DEFINE e == Head(up)
<1>1. /\ up # <<>> /\ up' = Tail(up) /\ UNCHANGED <<modes, topic, bad, spent>>
      /\ e.do = "modes" => Lock!ModeChange(e)
      /\ e.do = "topic" => Lock!TopicChange(e)
      /\ e.do = "create" => Lock!ChannelCreate
  BY Zenon DEF Lock!Handle, Lock!ircd
<1>2. e \in Changed /\ up' \in Seq(Changed)
  BY <1>1 DEF LockTypes
<1>3. Lock!HasTopic(Tail(up)) <=> Topics(up')
  BY Zenon, <1>1, <1>2, TopicsAre
<1>4. Lock!HasTopic(down) <=> Topics(down)
  BY TopicsAre DEF LockTypes
<1>5. ASSUME e.do = "modes" PROVE ModesHandled(e)
  <2>1. e.change \in Words
    <3> HIDE DEF e
    <3> QED BY <1>2, <1>5 DEF Changed
  <2>2. Lock!ModeChange(e)
    BY <1>1, <1>5
  <2> HIDE DEF e
  <2>3. CASE reg = None
    <3>1. Lock!Bare \in Words /\ \A m \in {"n", "f"} : Lock!Bare[m] = ""
      BY Zenon, WordsAre
    <3>2. down' = down /\ UNCHANGED <<reg, stray, astray>>
      BY <2>2, <2>3 DEF Lock!ModeChange, Lock!Registered
    <3> QED BY Zenon, <2>3, <3>1, <3>2 DEF ModesHandled
  <2>4. CASE reg # None
    <3> DEFINE r == Lock!enforce(e.change)
    <3>1. reg \in Registry
      BY <2>4 DEF LockTypes
    <3>2. r \in Words /\ \A m \in {"n", "f"} : r[m] = IF Against(e.change, m) THEN reg.lock[m] ELSE ""
      BY Zenon, <2>1, <3>1, EnforceIs
    <3>3. UNCHANGED <<reg, stray, astray>> /\ down' = IF r = Lock!Bare THEN down ELSE Append(down, ModesOf(r))
      BY <2>2, <2>4 DEF Lock!ModeChange, Lock!Registered, ModesOf
    <3>4. \A m \in {"n", "f"} : Lock!Bare[m] = ""
      BY Zenon, WordsAre
    <3> HIDE DEF r
    <3> QED BY Zenon, <2>4, <3>2, <3>3, <3>4 DEF ModesHandled
  <2> QED BY <2>3, <2>4
<1>6. ASSUME e.do = "topic" PROVE TopicHandled(e)
  <2>1. Lock!TopicChange(e) /\ e.access \in BOOLEAN
    <3>1. Lock!TopicChange(e)
      BY <1>1, <1>6
    <3> HIDE DEF e
    <3> QED BY <1>2, <1>6, <3>1 DEF Changed
  <2> HIDE DEF e
  <2>2. CASE reg # None /\ reg.tlock /\ ~e.access
    <3>1. /\ stray' = stray /\ reg' = reg /\ down' = Append(down, TopicOf(reg.topic))
          /\ astray' = Lock!HasTopic(Tail(up))
      BY <2>1, <2>2 DEF Lock!TopicChange, Lock!Registered, Lock!TopicOnItsWay, TopicOf
    <3>2. astray' <=> Topics(up')
      BY <1>3, <3>1
    <3> QED BY <2>2, <3>1, <3>2 DEF TopicHandled
  <2>3. CASE reg # None /\ ~(reg.tlock /\ ~e.access) /\ (reg.keep \/ reg.tlock)
    BY <2>1, <2>3 DEF Lock!TopicChange, Lock!Registered, TopicHandled
  <2>4. CASE reg # None => ~reg.keep /\ ~reg.tlock
    BY <2>1, <2>4 DEF Lock!TopicChange, Lock!Registered, TopicHandled
  <2> QED BY <2>2, <2>3, <2>4
<1>7. ASSUME e.do = "create" PROVE CreateHandled
  <2>1. Lock!ChannelCreate
    BY <1>1, <1>7
  <2>2. CASE reg = None
    BY <2>1, <2>2 DEF Lock!ChannelCreate, Lock!Registered, CreateHandled
  <2>3. CASE reg # None
    <3>1. reg \in Registry /\ reg.lock \in Words /\ reg.topic \in Nat
      <4>1. reg \in Registry
        BY <2>3 DEF LockTypes
      <4> QED BY <4>1 DEF Registry
    <3>2. ModesOf(reg.lock) \in Ordered /\ TopicOf(reg.topic) \in Ordered
      BY <3>1, OrderedAre
    <3>3. /\ reg' = reg /\ stray' = {}
          /\ down' = down \o <<ModesOf(reg.lock)>> \o (IF reg.keep /\ reg.topic # 0 THEN <<TopicOf(reg.topic)>> ELSE <<>>)
          /\ astray' = IF reg.keep
                       THEN Topics(up') \/ Topics(down) \/ (astray /\ ~(reg.keep /\ reg.topic # 0))
                       ELSE TRUE
      BY Zenon, <1>3, <1>4, <2>1, <2>3 DEF Lock!ChannelCreate, Lock!Registered, Lock!Restored, Lock!lock_modes, Lock!TopicOnItsWay, ModesOf, TopicOf
    <3> DEFINE a == ModesOf(reg.lock)
               b == TopicOf(reg.topic)
               restored == reg.keep /\ reg.topic # 0
    <3>4. \/ restored /\ down' = Append(Append(down, a), b)
          \/ ~restored /\ down' = Append(down, a)
      <4>1. down' = down \o <<a>> \o (IF restored THEN <<b>> ELSE <<>>)
        BY <3>3
      <4>2. a \in Ordered /\ b \in Ordered
        BY <3>2
      <4>3. down \in Seq(Ordered)
        BY DEF LockTypes
      <4> HIDE DEF a, b, restored
      <4>4. down \o <<a>> = Append(down, a) /\ Append(down, a) \in Seq(Ordered)
        BY <4>2, <4>3
      <4>5. Append(down, a) \o <<b>> = Append(Append(down, a), b) /\ Append(down, a) \o <<>> = Append(down, a)
        BY <4>2, <4>4
      <4> QED BY Zenon, <4>1, <4>4, <4>5
    <3>5. ~astray' => reg.keep /\ ~Topics(up') /\ ~Topics(down) /\ (reg.topic = 0 => ~astray)
      BY Zenon, <3>3
    <3> QED BY <2>3, <3>3, <3>4, <3>5 DEF CreateHandled
  <2> QED BY <2>2, <2>3
<1> QED BY <1>1, <1>2, <1>5, <1>6, <1>7

LEMMA LockDrained ==
    ASSUME LockTypes, Lock!Drain
    PROVE  /\ down # <<>> /\ down' = Tail(down) /\ Head(down) \in Ordered
           /\ modes' = IF Head(down).do = "modes" THEN Lock!Over(modes, Head(down).change) ELSE modes
           /\ topic' = IF Head(down).do = "topic" THEN Head(down).topic ELSE topic
           /\ UNCHANGED <<reg, up, stray, bad, astray, spent>>
BY DEF Lock!Drain, LockTypes

LEMMA LockTypesStep == ASSUME LockTypes, Lock!Next PROVE LockTypes'
<1>0. /\ spent \in Nat /\ MaxOps["locks"] \in Nat /\ spent <= MaxOps["locks"]
      /\ reg \in Registry \cup {None} /\ modes \in Shapes /\ topic \in Nat
      /\ up \in Seq(Changed) /\ down \in Seq(Ordered) /\ bad \subseteq 1..spent /\ astray \in BOOLEAN
  BY LocksAssumption DEF LockTypes
<1>1. ASSUME spent < MaxOps["locks"], spent' = spent + 1,
             (\E a \in Ordered : Sends(a)) \/ Settles \/ (\E e \in Changed : Changes(e))
      PROVE  LockTypes'
  <2>0. spent' \in 0..MaxOps["locks"] /\ 1..spent \subseteq 1..spent' /\ spent + 1 \in 1..spent' /\ spent + 1 \in Nat
    BY <1>0, <1>1
  <2>1. ASSUME NEW a \in Ordered, Sends(a) PROVE LockTypes'
    <3>1. down' \in Seq(Ordered)
      <4>1. down' = Append(down, a)
        BY Zenon, <2>1 DEF Sends
      <4> QED BY <1>0, <4>1
    <3>2. astray' \in BOOLEAN
      <4>1. astray' = astray \/ astray' = Lock!HasTopic(up)
        BY Zenon, <2>1 DEF Sends
      <4>2. Lock!HasTopic(up) \in BOOLEAN
        BY DEF Lock!HasTopic
      <4> QED BY <1>0, <4>1, <4>2
    <3>3. reg' \in Registry /\ UNCHANGED <<modes, topic, up, bad>>
      BY Zenon, <2>1 DEF Sends
    <3> QED BY <1>0, <2>0, <3>1, <3>2, <3>3 DEF LockTypes
  <2>2. CASE Settles
    <3>1. UNCHANGED <<modes, topic, up, down>> /\ astray' = TRUE /\ reg' \in Registry \cup {None} /\ bad' \subseteq bad
      BY Zenon, <2>2 DEF Settles
    <3> QED BY <1>0, <2>0, <3>1 DEF LockTypes
  <2>3. ASSUME NEW e \in Changed, Changes(e) PROVE LockTypes'
    <3>1. up' \in Seq(Changed) /\ UNCHANGED <<reg, down>>
      BY <1>0, <2>3 DEF Changes
    <3>2. CASE e.do = "modes"
      <4>1. modes' = Lock!Over(modes, e.change) /\ UNCHANGED <<topic, bad, astray>>
        BY <2>3, <3>2 DEF Changes
      <4>2. e.change \in Words
        BY <3>2 DEF Changed
      <4>3. modes' \in Shapes
        BY Zenon, <1>0, <4>1, <4>2, OverIs
      <4> QED BY <1>0, <2>0, <3>1, <4>1, <4>3 DEF LockTypes
    <3>3. CASE e.do = "topic"
      <4>1. /\ topic' = spent + 1 /\ modes' = modes /\ bad' \subseteq bad \cup {spent + 1}
            /\ astray' = (astray \/ Lock!HasTopic(down))
        BY <2>3, <3>3 DEF Changes
      <4>2. astray' \in BOOLEAN
        BY <4>1
      <4> QED BY <1>0, <2>0, <3>1, <4>1, <4>2 DEF LockTypes
    <3>4. CASE e.do = "create"
      <4>1. modes' \in Shapes /\ topic' = 0 /\ UNCHANGED <<bad, astray>>
        BY <2>3, <3>4 DEF Changes
      <4> QED BY <1>0, <2>0, <3>1, <4>1 DEF LockTypes
    <3> QED BY <2>3, <3>2, <3>3, <3>4 DEF Changes
  <2> QED BY <1>1, <2>1, <2>2, <2>3
<1>2. CASE Lock!Handle
  <2>0. /\ up' = Tail(up) /\ up # <<>> /\ UNCHANGED <<modes, topic, bad, spent>> /\ Head(up) \in Changed
    BY <1>2, LockHandled
  <2>1. up' \in Seq(Changed) /\ Head(up).do \in {"modes", "topic", "create"}
    BY <1>0, <2>0 DEF Changed
  <2>2. SUFFICES reg' \in Registry \cup {None} /\ down' \in Seq(Ordered) /\ astray' \in BOOLEAN
    BY <1>0, <2>0, <2>1 DEF LockTypes
  <2>3. CASE Head(up).do = "modes"
    <3>1. ModesHandled(Head(up))
      BY <1>2, <2>3, LockHandled
    <3>2. PICK r \in Words : down' = Append(down, ModesOf(r)) \/ down' = down
      BY Zenon, <3>1 DEF ModesHandled
    <3>3. down' \in Seq(Ordered)
      BY <1>0, <3>2, OrderedAre
    <3> QED BY Zenon, <1>0, <3>1, <3>3 DEF ModesHandled
  <2>4. CASE Head(up).do = "topic"
    <3>1. TopicHandled(Head(up))
      BY <1>2, <2>4, LockHandled
    <3>2. Head(up).topic \in Nat
      BY <2>0, <2>4 DEF Changed
    <3>3. reg # None => reg \in Registry /\ reg.topic \in Nat /\ [reg EXCEPT !.topic = Head(up).topic] \in Registry
      <4>1. reg # None => reg \in Registry
        BY <1>0
      <4> QED BY <3>2, <4>1 DEF Registry
    <3>4. reg # None => Append(down, TopicOf(reg.topic)) \in Seq(Ordered)
      BY <1>0, <3>3, OrderedAre
    <3>5. astray' \in BOOLEAN
      <4>1. Lock!TopicChange(Head(up))
        BY Zenon, <1>2, <2>4 DEF Lock!Handle
      <4>2. astray' = astray \/ astray' = Lock!TopicOnItsWay
        BY <4>1 DEF Lock!TopicChange
      <4>3. Lock!TopicOnItsWay \in BOOLEAN
        BY DEF Lock!TopicOnItsWay, Lock!HasTopic
      <4> QED BY <1>0, <4>2, <4>3
    <3>6. reg' \in Registry \cup {None} /\ down' \in Seq(Ordered)
      <4>1. \/ reg' = reg /\ (down' = down \/ (reg # None /\ down' = Append(down, TopicOf(reg.topic))))
            \/ reg # None /\ reg' = [reg EXCEPT !.topic = Head(up).topic] /\ down' = down
        BY <3>1 DEF TopicHandled
      <4> QED BY Zenon, <1>0, <3>3, <3>4, <4>1
    <3> QED BY <3>5, <3>6
  <2>5. CASE Head(up).do = "create"
    <3>1. CreateHandled
      BY <1>2, <2>5, LockHandled
    <3>2. astray' \in BOOLEAN
      <4>1. Lock!ChannelCreate
        BY Zenon, <1>2, <2>5 DEF Lock!Handle
      <4> QED BY Zenon, <4>1 DEF Lock!ChannelCreate
    <3>3. reg # None => ModesOf(reg.lock) \in Ordered /\ TopicOf(reg.topic) \in Ordered
      <4>1. reg # None => reg.lock \in Words /\ reg.topic \in Nat
        BY <1>0 DEF Registry
      <4> QED BY <4>1, OrderedAre
    <3> DEFINE a == ModesOf(reg.lock)
               b == TopicOf(reg.topic)
    <3>4. down' \in Seq(Ordered)
      <4>1. down' = down \/ (reg # None /\ down' \in {Append(down, a), Append(Append(down, a), b)})
        BY <3>1 DEF CreateHandled
      <4> HIDE DEF a, b
      <4>2. reg # None => Append(down, a) \in Seq(Ordered)
        BY <1>0, <3>3 DEF a
      <4>3. reg # None => Append(Append(down, a), b) \in Seq(Ordered)
        BY <3>3, <4>2 DEF b
      <4> QED BY Zenon, <1>0, <4>1, <4>2, <4>3
    <3> QED BY <1>0, <3>1, <3>2, <3>4 DEF CreateHandled
  <2> QED BY <2>1, <2>3, <2>4, <2>5
<1>3. CASE Lock!Drain
  <2>1. /\ down' = Tail(down) /\ down # <<>> /\ Head(down) \in Ordered
        /\ modes' = IF Head(down).do = "modes" THEN Lock!Over(modes, Head(down).change) ELSE modes
        /\ topic' = IF Head(down).do = "topic" THEN Head(down).topic ELSE topic
        /\ UNCHANGED <<reg, up, stray, bad, astray, spent>>
    BY <1>3, LockDrained
  <2>2. /\ Head(down).do = "modes" => Head(down).change \in Words
        /\ Head(down).do = "topic" => Head(down).topic \in Nat
    BY <2>1 DEF Ordered
  <2>3. modes' \in Shapes
    BY Zenon, <1>0, <2>1, <2>2, OverIs
  <2>4. topic' \in Nat /\ down' \in Seq(Ordered)
    BY <1>0, <2>1, <2>2
  <2> QED BY <1>0, <2>1, <2>3, <2>4 DEF LockTypes
<1> QED BY <1>1, <1>2, <1>3, LockSteps

-----------------------------------------------------------------------------
(* Locks: the invariant.                                                   *)

Creates(q) == \E i \in 1..Len(q) : q[i].do = "create"

LEMMA AppendIs ==
    ASSUME NEW T, NEW q \in Seq(T), NEW e \in T
    PROVE  /\ \A i \in 1..Len(q) : i \in 1..Len(Append(q, e)) /\ Append(q, e)[i] = q[i]
           /\ Len(Append(q, e)) \in 1..Len(Append(q, e)) /\ Append(q, e)[Len(Append(q, e))] = e
           /\ \A i \in 1..Len(Append(q, e)) : i \in 1..Len(q) \/ Append(q, e)[i] = e
OBVIOUS

LEMMA TailIs ==
    ASSUME NEW T, NEW q \in Seq(T), q # <<>>
    PROVE  /\ \A i \in 1..Len(Tail(q)) : i + 1 \in 1..Len(q) /\ Tail(q)[i] = q[i + 1]
           /\ \A i \in 1..Len(q) : q[i] = Head(q) \/ (i - 1 \in 1..Len(Tail(q)) /\ Tail(q)[i - 1] = q[i])
           /\ 1 \in 1..Len(q) /\ q[1] = Head(q)
OBVIOUS

LEMMA TopicsGrow ==
    ASSUME NEW T, NEW q \in Seq(T), NEW e \in T
    PROVE  /\ Topics(Append(q, e)) <=> Topics(q) \/ e.do = "topic"
           /\ Creates(Append(q, e)) <=> Creates(q) \/ e.do = "create"
BY AppendIs DEF Topics, Creates

LEMMA TopicsGo ==
    ASSUME NEW T, NEW q \in Seq(T), q # <<>>
    PROVE  /\ Topics(q) <=> Topics(Tail(q)) \/ Head(q).do = "topic"
           /\ Creates(q) <=> Creates(Tail(q)) \/ Head(q).do = "create"
<1> DEFINE r == Tail(q)
           h == Head(q)
<1>1. /\ \A i \in 1..Len(r) : i + 1 \in 1..Len(q) /\ r[i] = q[i + 1]
      /\ \A i \in 1..Len(q) : q[i] = h \/ (i - 1 \in 1..Len(r) /\ r[i - 1] = q[i])
      /\ 1 \in 1..Len(q) /\ q[1] = h
  BY TailIs
<1> HIDE DEF r, h
<1>2. Topics(q) <=> Topics(r) \/ h.do = "topic"
  BY <1>1 DEF Topics
<1>3. Creates(q) <=> Creates(r) \/ h.do = "create"
  BY <1>1 DEF Creates
<1> QED BY <1>2, <1>3 DEF r, h

\* What stays whatever was there stays if it was there itself, and nobody
\* speaks of a topic where none is.
LEMMA StaysItself ==
    ASSUME NEW q, NEW m, NEW was, NEW x, Stays(q, m, was, x)
    PROVE  Stays(q, m, x, x)
BY DEF Stays

LEMMA StaysSilent ==
    ASSUME NEW q
    PROVE  /\ ~Topics(q) => \A was, x : Stays(q, "topic", was, x) <=> was = x
           /\ q = <<>> => \A m, was, x : Stays(q, m, was, x) <=> was = x
<1>1. ~Topics(q) => \A i \in 1..Len(q) : ~Says(q[i], "topic")
  BY DEF Topics, Says
<1>2. q = <<>> => Len(q) = 0
  OBVIOUS
<1>3. ~Topics(q) => \A was, x : Stays(q, "topic", was, x) <=> was = x
  BY <1>1 DEF Stays
<1>4. q = <<>> => \A m, was, x : Stays(q, m, was, x) <=> was = x
  BY <1>2 DEF Stays
<1> QED BY <1>3, <1>4

\* A change that the lock will put back is on its way up, or a new channel.
Judging(m) == \E k \in 1..Len(up) : up[k].do = "create" \/ (up[k].do = "modes" /\ Against(up[k].change, m))

\* A locked mode ends as locked, but for that.
LockStands ==
    reg # None => \A m \in {"n", "f"} \ stray :
        reg.lock[m] # "" => Stays(down, m, modes[m], reg.lock[m]) \/ Judging(m)

\* A topic set without access is on the channel only till another one comes
\* down, or it is judged.
TopicBad ==
    /\ bad # {} => reg # None /\ reg.tlock /\ reg.topic \notin bad
    /\ \A i \in 1..Len(down) : down[i].do = "topic" => down[i].topic \notin bad
    /\ \A i \in 1..Len(up) : up[i].do = "topic" /\ up[i].topic \in bad => ~up[i].access
    /\ topic \in bad => Topics(down) \/ \E i \in 1..Len(up) : up[i].do = "topic" /\ up[i].topic \in bad

\* The topic will be the stored one: as the engine sends it, unless users tell
\* of theirs, as they tell else.
TopicKept ==
    reg # None /\ ~astray /\ (reg.keep \/ reg.tlock) =>
        /\ ~Topics(up) /\ (Creates(up) => reg.topic = 0) => Stays(down, "topic", topic, reg.topic)
        /\ Topics(up) /\ ~Creates(up) => ~Topics(down) /\ Stays(up, "topic", topic, topic)

-----------------------------------------------------------------------------
(* Locks: numbers.                                                         *)

LEMMA LockBoundsStep == ASSUME LockTypes, LockBounds, Lock!Next PROVE LockBounds'
<1>0. /\ spent \in Nat /\ reg \in Registry \cup {None} /\ topic \in Nat
      /\ up \in Seq(Changed) /\ down \in Seq(Ordered)
      /\ reg # None => reg.topic <= spent
      /\ topic <= spent
      /\ \A i \in 1..Len(up) : up[i].do = "topic" => up[i].topic <= spent
      /\ \A i \in 1..Len(down) : down[i].do = "topic" => down[i].topic <= spent
  BY LocksAssumption DEF LockTypes, LockBounds
<1>1. /\ \A i \in 1..Len(up) : up[i].do = "topic" => up[i].topic \in Nat
      /\ \A i \in 1..Len(down) : down[i].do = "topic" => down[i].topic \in Nat
      /\ reg # None => reg.topic \in Nat
  <2>1. \A i \in 1..Len(up) : up[i] \in Changed
    BY <1>0
  <2>2. \A i \in 1..Len(down) : down[i] \in Ordered
    BY <1>0
  <2> QED BY <1>0, <2>1, <2>2 DEF Changed, Ordered, Registry
<1>2. ASSUME spent < MaxOps["locks"], spent' = spent + 1,
             (\E a \in Ordered : Sends(a)) \/ Settles \/ (\E e \in Changed : Changes(e))
      PROVE  LockBounds'
  <2>1. /\ \A i \in 1..Len(up) : up[i].do = "topic" => up[i].topic <= spent'
        /\ \A i \in 1..Len(down) : down[i].do = "topic" => down[i].topic <= spent'
        /\ topic <= spent' /\ (reg # None => reg.topic <= spent') /\ spent + 1 <= spent' /\ 0 <= spent'
    BY <1>0, <1>1, <1>2
  <2>2. ASSUME NEW a \in Ordered, Sends(a) PROVE LockBounds'
    <3>1. down' = Append(down, a) /\ UNCHANGED <<topic, up>> /\ reg # None /\ (reg'.topic = reg.topic \/ reg'.topic = spent + 1)
          /\ (a.do = "modes" \/ a.topic = spent + 1)
      BY Zenon, <2>2 DEF Sends
    <3>2. \A i \in 1..Len(down') : (i \in 1..Len(down) /\ down'[i] = down[i]) \/ down'[i] = a
      BY <1>0, <3>1, AppendIs
    <3>3. \A i \in 1..Len(down') : down'[i].do = "topic" => down'[i].topic <= spent'
      BY <2>1, <3>1, <3>2
    <3> QED BY <2>1, <3>1, <3>3 DEF LockBounds
  <2>3. CASE Settles
    <3>1. UNCHANGED <<topic, up, down>> /\ (reg' # None => reg'.topic = 0 \/ (reg # None /\ reg'.topic = reg.topic))
      BY Zenon, <2>3 DEF Settles
    <3> QED BY <2>1, <3>1 DEF LockBounds
  <2>4. ASSUME NEW e \in Changed, Changes(e) PROVE LockBounds'
    <3>1. up' = Append(up, e) /\ UNCHANGED <<reg, down>> /\ topic' \in {0, topic, spent + 1}
          /\ (e.do # "topic" \/ e.topic = spent + 1)
      BY <2>4 DEF Changes
    <3>2. \A i \in 1..Len(up') : (i \in 1..Len(up) /\ up'[i] = up[i]) \/ up'[i] = e
      BY <1>0, <3>1, AppendIs
    <3>3. \A i \in 1..Len(up') : up'[i].do = "topic" => up'[i].topic <= spent'
      BY <2>1, <3>1, <3>2
    <3> QED BY <2>1, <3>1, <3>3 DEF LockBounds
  <2> QED BY <1>2, <2>2, <2>3, <2>4
<1>3. CASE Lock!Handle
  <2>1. up # <<>> /\ up' = Tail(up) /\ Head(up) \in Changed /\ UNCHANGED <<topic, spent>>
    BY <1>3, LockHandled
  <2>2. /\ \A i \in 1..Len(up') : i + 1 \in 1..Len(up) /\ up'[i] = up[i + 1]
        /\ 1 \in 1..Len(up) /\ up[1] = Head(up)
    BY <1>0, <2>1, TailIs
  <2>3. \A i \in 1..Len(up') : up'[i].do = "topic" => up'[i].topic <= spent
    BY <1>0, <2>2
  <2>4. Head(up).do = "topic" => Head(up).topic <= spent
    BY <1>0, <2>2
  <2>5. SUFFICES /\ reg' # None => reg'.topic <= spent
                 /\ \A i \in 1..Len(down') : down'[i].do = "topic" => down'[i].topic <= spent
    BY <1>0, <2>1, <2>3 DEF LockBounds
  <2>6. CASE Head(up).do = "modes"
    <3>1. PICK r \in Words : reg' = reg /\ (down' = down \/ down' = Append(down, ModesOf(r)))
      BY Zenon, <1>3, <2>6, LockHandled DEF ModesHandled
    <3>2. ModesOf(r) \in Ordered /\ ModesOf(r).do = "modes"
      BY OrderedAre
    <3>3. \A i \in 1..Len(down') : (i \in 1..Len(down) /\ down'[i] = down[i]) \/ down'[i] = ModesOf(r)
      BY <1>0, <3>1, <3>2, AppendIs
    <3> QED BY <1>0, <3>1, <3>2, <3>3
  <2>7. CASE Head(up).do = "topic"
    <3>1. TopicHandled(Head(up))
      BY <1>3, <2>7, LockHandled
    <3>2. \/ reg' = reg /\ (down' = down \/ (reg # None /\ down' = Append(down, TopicOf(reg.topic))))
          \/ reg # None /\ reg' = [reg EXCEPT !.topic = Head(up).topic] /\ down' = down
      BY <3>1 DEF TopicHandled
    <3>3. reg # None => TopicOf(reg.topic) \in Ordered /\ TopicOf(reg.topic).topic <= spent
      BY <1>0, <1>1, OrderedAre
    <3>4. reg # None => [reg EXCEPT !.topic = Head(up).topic].topic = Head(up).topic
      <4>1. reg # None => reg \in Registry
        BY <1>0
      <4> QED BY <4>1 DEF Registry
    <3>5. reg' # None => reg'.topic <= spent
      BY Zenon, <1>0, <2>4, <2>7, <3>2, <3>4
    <3>6. \A i \in 1..Len(down') : (i \in 1..Len(down) /\ down'[i] = down[i]) \/ (reg # None /\ down'[i] = TopicOf(reg.topic))
      BY <1>0, <3>2, <3>3, AppendIs
    <3> QED BY <1>0, <3>3, <3>5, <3>6
  <2>8. CASE Head(up).do = "create"
    <3>1. CreateHandled
      BY <1>3, <2>8, LockHandled
    <3> DEFINE a == ModesOf(reg.lock)
               b == TopicOf(reg.topic)
    <3>2. reg' = reg /\ (down' = down \/ (reg # None /\ down' \in {Append(down, a), Append(Append(down, a), b)}))
      BY <3>1 DEF CreateHandled
    <3>3. reg # None => a \in Ordered /\ b \in Ordered /\ a.do = "modes" /\ b.topic <= spent
      <4>1. reg # None => reg.lock \in Words
        BY <1>0 DEF Registry
      <4> QED BY <1>0, <1>1, <4>1, OrderedAre
    <3> HIDE DEF a, b
    <3>4. reg # None => Append(down, a) \in Seq(Ordered)
      BY <1>0, <3>3
    <3>5. reg # None => \A i \in 1..Len(Append(down, a)) : (i \in 1..Len(down) /\ Append(down, a)[i] = down[i]) \/ Append(down, a)[i] = a
      BY <1>0, <3>3, AppendIs
    <3>6. reg # None => \A i \in 1..Len(Append(Append(down, a), b)) :
             (i \in 1..Len(Append(down, a)) /\ Append(Append(down, a), b)[i] = Append(down, a)[i]) \/ Append(Append(down, a), b)[i] = b
      BY <3>3, <3>4, AppendIs
    <3>7. \A i \in 1..Len(down') : (i \in 1..Len(down) /\ down'[i] = down[i]) \/ (reg # None /\ down'[i] \in {a, b})
      BY <3>2, <3>5, <3>6
    <3> QED BY Zenon, <1>0, <3>2, <3>3, <3>7
  <2>9. Head(up).do \in {"modes", "topic", "create"}
    BY <2>1 DEF Changed
  <2> QED BY <2>6, <2>7, <2>8, <2>9
<1>4. CASE Lock!Drain
  <2>1. /\ down # <<>> /\ down' = Tail(down)
        /\ topic' = IF Head(down).do = "topic" THEN Head(down).topic ELSE topic
        /\ UNCHANGED <<reg, up, spent>>
    BY <1>4, LockDrained
  <2>2. /\ \A i \in 1..Len(down') : i + 1 \in 1..Len(down) /\ down'[i] = down[i + 1]
        /\ 1 \in 1..Len(down) /\ down[1] = Head(down)
    BY <1>0, <2>1, TailIs
  <2>3. \A i \in 1..Len(down') : down'[i].do = "topic" => down'[i].topic <= spent
    BY <1>0, <2>2
  <2>4. topic' <= spent
    BY <1>0, <2>1, <2>2
  <2> QED BY <1>0, <2>1, <2>3, <2>4 DEF LockBounds
<1> QED BY <1>2, <1>3, <1>4, LockSteps

-----------------------------------------------------------------------------
(* Locks: the modes.                                                       *)

LEMMA SaysOfModes ==
    ASSUME NEW m \in {"n", "f"}
    PROVE  /\ \A w \in Words : (Says(ModesOf(w), m) <=> w[m] # "") /\ Said(ModesOf(w), m) = w[m]
           /\ \A a : a.do = "modes" => (Says(a, m) <=> a.change[m] # "") /\ Said(a, m) = a.change[m]
           /\ \A a : a.do = "topic" => ~Says(a, m)
BY Zenon, OrderedAre DEF Says, Said

LEMMA LockStandsStep ==
    ASSUME LockTypes, LockStands, Lock!Next
    PROVE  LockStands'
<1>0. /\ reg \in Registry \cup {None} /\ modes \in Shapes
      /\ up \in Seq(Changed) /\ down \in Seq(Ordered)
      /\ reg # None => reg.lock \in Words /\ reg \in Registry
  BY DEF LockTypes, Registry
<1>1. ASSUME NEW a \in Ordered, Sends(a) PROVE LockStands'
  <2>1. down' = Append(down, a) /\ UNCHANGED <<modes, up>> /\ reg # None
    BY Zenon, <1>1 DEF Sends
  <2>2. ASSUME NEW m \in {"n", "f"} \ stray', reg'.lock[m] # ""
        PROVE  Stays(down', m, modes'[m], reg'.lock[m]) \/ Judging(m)'
    <3>1. CASE a.do = "modes" /\ a.change[m] = reg'.lock[m]
      <4>1. Says(a, m) /\ Said(a, m) = reg'.lock[m]
        BY Zenon, <2>2, <3>1, SaysOfModes
      <4>2. Stays(Append(down, a), m, modes[m], Said(a, m))
        BY <1>0, <4>1, StaysSaid
      <4> QED BY <2>1, <4>1, <4>2
    <3>2. CASE ~(a.do = "modes" /\ a.change[m] = reg'.lock[m])
      <4>1. ~Says(a, m) /\ m \notin stray /\ reg'.lock = reg.lock
        <5>1. CASE a.do = "modes"
          <6>1. m \notin stray /\ a.change[m] = "" /\ reg'.lock = reg.lock
            BY Zenon, <1>1, <2>2, <3>2, <5>1 DEF Sends
          <6> QED BY Zenon, <2>2, <5>1, <6>1, SaysOfModes
        <5>2. CASE a.do # "modes"
          <6>1. a.do = "topic" /\ stray' = stray /\ reg'.lock = reg.lock
            BY Zenon, <1>1, <5>2 DEF Sends
          <6> QED BY Zenon, <2>2, <6>1, SaysOfModes
        <5> QED BY <5>1, <5>2
      <4>2. Stays(down, m, modes[m], reg.lock[m]) \/ Judging(m)
        BY Zenon, <2>1, <2>2, <4>1 DEF LockStands
      <4>3. CASE Judging(m)
        BY Zenon, <2>1, <4>1, <4>3 DEF Judging, Against
      <4>4. CASE Stays(down, m, modes[m], reg.lock[m])
        <5>1. Stays(Append(down, a), m, modes[m], reg.lock[m])
          BY Zenon, <1>0, <4>1, <4>4, StaysSaid
        <5> QED BY <2>1, <4>1, <5>1
      <4> QED BY <4>2, <4>3, <4>4
    <3> QED BY <3>1, <3>2
  <2> QED BY Zenon, <2>2 DEF LockStands
<1>2. CASE Settles
  <2>1. UNCHANGED <<modes, up, down>>
    BY Zenon, <1>2 DEF Settles
  <2>2. ASSUME NEW m \in {"n", "f"} \ stray', reg' # None, reg'.lock[m] # ""
        PROVE  Stays(down', m, modes'[m], reg'.lock[m]) \/ Judging(m)'
    <3>1. reg'.lock = [n |-> "", f |-> ""] \/ (reg # None /\ reg'.lock = reg.lock /\ stray' = stray)
      BY Zenon, <1>2, <2>2 DEF Settles
    <3>2. reg # None /\ reg'.lock = reg.lock /\ stray' = stray
      <4>1. CASE reg'.lock = [n |-> "", f |-> ""]
        <5> DEFINE w == [n |-> "", f |-> ""]
        <5>1. w["n"] = "" /\ w["f"] = ""
          OBVIOUS
        <5> HIDE DEF w
        <5>2. m = "n" \/ m = "f"
          OBVIOUS
        <5>3. w[m] = ""
          BY Zenon, <5>1, <5>2
        <5>4. reg'.lock = w
          BY Zenon, <4>1 DEF w
        <5> QED BY Zenon, <2>2, <5>3, <5>4
      <4> QED BY Zenon, <3>1, <4>1
    <3>3. Stays(down, m, modes[m], reg.lock[m]) \/ Judging(m)
      BY Zenon, <2>2, <3>2 DEF LockStands
    <3>4. Judging(m) => Judging(m)'
      BY Zenon, <2>1, <3>2 DEF Judging, Against
    <3> QED BY <2>1, <3>2, <3>3, <3>4
  <2> QED BY Zenon, <2>2 DEF LockStands
<1>3. ASSUME NEW e \in Changed, Changes(e) PROVE LockStands'
  <2>1. up' = Append(up, e) /\ UNCHANGED <<reg, down, stray>>
    BY <1>3 DEF Changes
  <2>2. ASSUME NEW m \in {"n", "f"} \ stray, reg # None, reg.lock[m] # ""
        PROVE  Stays(down, m, modes'[m], reg.lock[m]) \/ Judging(m)'
    <3>1. /\ \A i \in 1..Len(up) : i \in 1..Len(up') /\ up'[i] = up[i]
          /\ Len(up') \in 1..Len(up') /\ up'[Len(up')] = e
      BY <1>0, <2>1, AppendIs
    <3>2. Judging(m) => Judging(m)'
      BY Zenon, <2>1, <3>1 DEF Judging, Against
    <3>3. e.do = "create" \/ (e.do = "modes" /\ Against(e.change, m)) => Judging(m)'
      BY Zenon, <2>1, <3>1 DEF Judging, Against
    <3>4. Stays(down, m, modes[m], reg.lock[m]) \/ Judging(m)
      BY Zenon, <2>2 DEF LockStands
    <3>5. CASE e.do = "modes" /\ ~Against(e.change, m) /\ Stays(down, m, modes[m], reg.lock[m])
      <4>1. e.change \in Words /\ modes' = Lock!Over(modes, e.change)
        BY <1>3, <3>5 DEF Changes, Changed
      <4>2. modes'[m] = IF e.change[m] = "" THEN modes[m] ELSE e.change[m]
        BY Zenon, <1>0, <4>1, OverIs
      <4>3. e.change[m] # "" => e.change[m] = reg.lock[m]
        BY Zenon, <1>0, <2>2, <3>5, <4>1, EnforceIs
      <4>4. modes'[m] = modes[m] \/ modes'[m] = reg.lock[m]
        BY Zenon, <4>2, <4>3
      <4> QED BY <3>5, <4>4, StaysItself
    <3>6. CASE e.do = "topic" /\ Stays(down, m, modes[m], reg.lock[m])
      <4>1. modes' = modes
        BY <1>3, <3>6 DEF Changes
      <4> QED BY <3>6, <4>1
    <3>7. e.do \in {"modes", "topic", "create"}
      BY <1>3 DEF Changed
    <3> QED BY <3>2, <3>3, <3>4, <3>5, <3>6, <3>7
  <2> QED BY Zenon, <2>1, <2>2 DEF LockStands
<1>4. CASE Lock!Handle
  <2>1. up # <<>> /\ up' = Tail(up) /\ Head(up) \in Changed /\ modes' = modes
    BY <1>4, LockHandled
  <2>2. Head(up).do \in {"modes", "topic", "create"}
    BY <2>1 DEF Changed
  <2>3. \A i \in 1..Len(up) : up[i] = Head(up) \/ (i - 1 \in 1..Len(up') /\ up'[i - 1] = up[i])
    BY <1>0, <2>1, TailIs
  <2>4. ASSUME NEW m \in {"n", "f"} \ stray', reg' # None, reg'.lock[m] # ""
        PROVE  Stays(down', m, modes[m], reg'.lock[m]) \/ Judging(m)'
    <3>1. CASE Head(up).do = "modes"
      <4>1. ModesHandled(Head(up))
        BY <1>4, <3>1, LockHandled
      <4>2. UNCHANGED <<reg, stray>>
        BY Zenon, <4>1 DEF ModesHandled
      <4>3. PICK r \in Words :
               /\ r[m] = IF reg # None /\ Against(Head(up).change, m) THEN reg.lock[m] ELSE ""
               /\ down' = Append(down, ModesOf(r)) \/ (down' = down /\ r[m] = "")
        BY Zenon, <4>1 DEF ModesHandled
      <4>4. ModesOf(r) \in Ordered /\ (Says(ModesOf(r), m) <=> r[m] # "") /\ Said(ModesOf(r), m) = r[m]
        BY Zenon, OrderedAre, SaysOfModes
      <4>5. CASE Against(Head(up).change, m)
        <5>1. r[m] = reg.lock[m] /\ r[m] # "" /\ down' = Append(down, ModesOf(r))
          BY Zenon, <2>4, <4>2, <4>3, <4>5
        <5>2. Stays(Append(down, ModesOf(r)), m, modes[m], Said(ModesOf(r), m))
          BY Zenon, <1>0, <4>4, <5>1, StaysSaid
        <5> QED BY Zenon, <4>2, <4>4, <5>1, <5>2
      <4>6. CASE ~Against(Head(up).change, m)
        <5>1. r[m] = "" /\ ~Says(ModesOf(r), m)
          BY Zenon, <4>3, <4>4, <4>6
        <5>2. Judging(m) => Judging(m)'
          BY ZenonT(40), <2>3, <3>1, <4>2, <4>6 DEF Judging, Against
        <5>3. Stays(down, m, modes[m], reg.lock[m]) => Stays(down', m, modes[m], reg.lock[m])
          <6>1. Stays(down, m, modes[m], reg.lock[m]) => Stays(Append(down, ModesOf(r)), m, modes[m], reg.lock[m])
            BY Zenon, <1>0, <4>4, <5>1, StaysSaid
          <6> QED BY Zenon, <4>3, <6>1
        <5>4. Stays(down, m, modes[m], reg.lock[m]) \/ Judging(m)
          BY Zenon, <2>4, <4>2 DEF LockStands
        <5> QED BY <4>2, <5>2, <5>3, <5>4
      <4> QED BY <4>5, <4>6
    <3>2. CASE Head(up).do = "topic"
      <4>1. TopicHandled(Head(up))
        BY <1>4, <3>2, LockHandled
      <4>2. /\ stray' = stray
            /\ \/ reg' = reg /\ (down' = down \/ (reg # None /\ down' = Append(down, TopicOf(reg.topic))))
               \/ reg # None /\ reg' = [reg EXCEPT !.topic = Head(up).topic] /\ down' = down
        BY <4>1 DEF TopicHandled
      <4>3. reg # None /\ reg'.lock = reg.lock
        <5>1. CASE reg' = reg
          BY Zenon, <2>4, <5>1
        <5>2. CASE reg # None /\ reg' = [reg EXCEPT !.topic = Head(up).topic]
          <6>1. reg \in Registry
            BY <1>0, <5>2
          <6> QED BY <5>2, <6>1 DEF Registry
        <5> QED BY <4>2, <5>1, <5>2
      <4>4. TopicOf(reg.topic) \in Ordered /\ ~Says(TopicOf(reg.topic), m)
        <5>1. reg.topic \in Nat
          BY <1>0, <4>3 DEF Registry
        <5>2. TopicOf(reg.topic) \in Ordered /\ TopicOf(reg.topic).do = "topic"
          BY <5>1, OrderedAre
        <5> QED BY Zenon, <5>2, SaysOfModes
      <4>5. down' = down \/ down' = Append(down, TopicOf(reg.topic))
        BY <4>2
      <4>6. Stays(down, m, modes[m], reg.lock[m]) => Stays(down', m, modes[m], reg.lock[m])
        <5>1. Stays(down, m, modes[m], reg.lock[m]) => Stays(Append(down, TopicOf(reg.topic)), m, modes[m], reg.lock[m])
          BY Zenon, <1>0, <4>4, StaysSaid
        <5> QED BY Zenon, <4>5, <5>1
      <4>7. Judging(m) => Judging(m)'
        BY ZenonT(40), <2>3, <3>2, <4>3 DEF Judging, Against
      <4>8. Stays(down, m, modes[m], reg.lock[m]) \/ Judging(m)
        BY Zenon, <2>4, <4>2, <4>3 DEF LockStands
      <4> QED BY <4>3, <4>6, <4>7, <4>8
    <3>3. CASE Head(up).do = "create"
      <4>1. CreateHandled
        BY <1>4, <3>3, LockHandled
      <4> DEFINE a == ModesOf(reg.lock)
                 b == TopicOf(reg.topic)
      <4>2. reg' = reg /\ (down' = Append(down, a) \/ down' = Append(Append(down, a), b))
        BY Zenon, <2>4, <4>1 DEF CreateHandled
      <4>3. a \in Ordered /\ b \in Ordered /\ Says(a, m) /\ Said(a, m) = reg.lock[m] /\ ~Says(b, m)
        <5>1. reg.lock \in Words /\ reg.topic \in Nat
          BY Zenon, <1>0, <2>4, <4>2 DEF Registry
        <5>2. a \in Ordered /\ b \in Ordered /\ b.do = "topic"
          BY <5>1, OrderedAre
        <5> QED BY Zenon, <2>4, <4>2, <5>1, <5>2, SaysOfModes
      <4> HIDE DEF a, b
      <4>4. Append(down, a) \in Seq(Ordered)
        BY <1>0, <4>3
      <4>5. Stays(Append(down, a), m, modes[m], reg.lock[m])
        <5>1. Stays(Append(down, a), m, modes[m], Said(a, m))
          BY <1>0, <4>3, StaysSaid
        <5> QED BY <4>3, <5>1
      <4>6. Stays(Append(Append(down, a), b), m, modes[m], reg.lock[m])
        BY Zenon, <4>3, <4>4, <4>5, StaysSaid
      <4> QED BY Zenon, <4>2, <4>5, <4>6
    <3> QED BY <2>2, <3>1, <3>2, <3>3
  <2> QED BY Zenon, <2>1, <2>4 DEF LockStands
<1>5. CASE Lock!Drain
  <2>1. /\ down # <<>> /\ down' = Tail(down) /\ Head(down) \in Ordered
        /\ modes' = IF Head(down).do = "modes" THEN Lock!Over(modes, Head(down).change) ELSE modes
        /\ UNCHANGED <<reg, up, stray>>
    BY <1>5, LockDrained
  <2>2. ASSUME NEW m \in {"n", "f"} \ stray, reg # None, reg.lock[m] # ""
        PROVE  Stays(down', m, modes'[m], reg.lock[m]) \/ Judging(m)'
    <3>1. modes'[m] = IF Says(Head(down), m) THEN Said(Head(down), m) ELSE modes[m]
      <4>1. CASE Head(down).do = "modes"
        <5>1. Head(down).change \in Words
          BY <2>1, <4>1 DEF Ordered
        <5>2. modes'[m] = IF Head(down).change[m] = "" THEN modes[m] ELSE Head(down).change[m]
          BY Zenon, <1>0, <2>1, <4>1, <5>1, OverIs
        <5> QED BY Zenon, <4>1, <5>2, SaysOfModes
      <4>2. CASE Head(down).do # "modes"
        <5>1. ~Says(Head(down), m)
          BY Zenon, <4>2 DEF Says
        <5> QED BY <2>1, <4>2, <5>1
      <4> QED BY <4>1, <4>2
    <3> DEFINE next_ == modes'[m]
    <3>2. next_ = IF Says(Head(down), m) THEN Said(Head(down), m) ELSE modes[m]
      BY <3>1
    <3> HIDE DEF next_
    <3>3. Stays(down, m, modes[m], reg.lock[m]) => Stays(Tail(down), m, next_, reg.lock[m])
      BY <1>0, <2>1, <3>2, StaysDone
    <3>4. Judging(m) => Judging(m)'
      BY Zenon, <2>1 DEF Judging, Against
    <3>5. Stays(down, m, modes[m], reg.lock[m]) \/ Judging(m)
      BY Zenon, <2>2 DEF LockStands
    <3> QED BY <2>1, <3>3, <3>4, <3>5 DEF next_
  <2> QED BY Zenon, <2>1, <2>2 DEF LockStands
<1> QED BY <1>1, <1>2, <1>3, <1>4, <1>5, LockSteps

-----------------------------------------------------------------------------
(* Locks: the topic.                                                       *)

LEMMA TopicBadStep ==
    ASSUME LockTypes, LockBounds, TopicBad, Lock!Next
    PROVE  TopicBad'
<1>0. /\ spent \in Nat /\ reg \in Registry \cup {None} /\ topic \in Nat
      /\ up \in Seq(Changed) /\ down \in Seq(Ordered) /\ bad \subseteq 1..spent
      /\ reg # None => reg \in Registry /\ reg.topic \in Nat /\ reg.lock \in Words
  BY LocksAssumption DEF LockTypes, Registry
<1>1. /\ bad # {} => reg # None /\ reg.tlock /\ reg.topic \notin bad
      /\ \A i \in 1..Len(down) : down[i].do = "topic" => down[i].topic \notin bad
      /\ \A i \in 1..Len(up) : up[i].do = "topic" /\ up[i].topic \in bad => ~up[i].access
      /\ topic \in bad => Topics(down) \/ \E i \in 1..Len(up) : up[i].do = "topic" /\ up[i].topic \in bad
  BY DEF TopicBad
<1>2. spent + 1 \notin bad /\ 0 \notin bad
  BY <1>0
<1>3. ASSUME NEW a \in Ordered, Sends(a) PROVE TopicBad'
  <2>1. /\ down' = Append(down, a) /\ UNCHANGED <<topic, up, bad>> /\ reg # None /\ reg' # None /\ reg'.tlock = reg.tlock
        /\ (a.do = "modes" /\ reg'.topic = reg.topic) \/ (a.topic = spent + 1 /\ reg'.topic = spent + 1)
    BY Zenon, <1>3, WordsAre DEF Sends
  <2>2. \A i \in 1..Len(down') : (i \in 1..Len(down) /\ down'[i] = down[i]) \/ down'[i] = a
    BY <1>0, <2>1, AppendIs
  <2>3. \A i \in 1..Len(down') : down'[i].do = "topic" => down'[i].topic \notin bad
    BY <1>1, <1>2, <2>1, <2>2
  <2>4. Topics(down) => Topics(down')
    BY <1>0, <2>1, TopicsGrow
  <2> QED BY <1>1, <1>2, <2>1, <2>3, <2>4 DEF TopicBad
<1>4. CASE Settles
  <2>1. UNCHANGED <<topic, up, down>>
        /\ (bad' = {} \/ (bad' = bad /\ reg # None /\ reg' # None /\ reg'.tlock = reg.tlock /\ reg'.topic = reg.topic))
    BY Zenon, <1>4 DEF Settles
  <2> QED BY <1>1, <2>1 DEF TopicBad
<1>5. ASSUME NEW e \in Changed, Changes(e) PROVE TopicBad'
  <2>1. up' = Append(up, e) /\ UNCHANGED <<reg, down>>
    BY <1>5 DEF Changes
  <2>2. /\ \A i \in 1..Len(up) : i \in 1..Len(up') /\ up'[i] = up[i]
        /\ Len(up') \in 1..Len(up') /\ up'[Len(up')] = e
        /\ \A i \in 1..Len(up') : (i \in 1..Len(up) /\ up'[i] = up[i]) \/ up'[i] = e
    BY <1>0, <2>1, AppendIs
  <2>3. CASE e.do = "topic" /\ reg # None /\ reg.tlock /\ ~e.access
    <3>1. e.topic = spent + 1 /\ topic' = spent + 1 /\ bad' = bad \cup {spent + 1}
      BY <1>5, <2>3 DEF Changes
    <3>2. /\ reg.topic # spent + 1
          /\ \A i \in 1..Len(down) : down[i].do = "topic" => down[i].topic # spent + 1
          /\ \A i \in 1..Len(up) : up[i].do = "topic" => up[i].topic # spent + 1
      <4>1. /\ reg.topic <= spent
            /\ \A i \in 1..Len(down) : down[i].do = "topic" => down[i].topic <= spent
            /\ \A i \in 1..Len(up) : up[i].do = "topic" => up[i].topic <= spent
        BY <2>3 DEF LockBounds
      <4>2. \A t : t <= spent => t # spent + 1
        BY <1>0
      <4> QED BY <4>1, <4>2
    <3>3. \A i \in 1..Len(up') : up'[i].do = "topic" /\ up'[i].topic \in bad' => ~up'[i].access
      BY <1>1, <2>2, <2>3, <3>1, <3>2
    <3>4. reg.topic \notin bad' /\ \A i \in 1..Len(down) : down[i].do = "topic" => down[i].topic \notin bad'
      <4>1. reg.topic \notin bad
        BY <1>1
      <4> QED BY <1>1, <3>1, <3>2, <4>1
    <3>5. \E i \in 1..Len(up') : up'[i].do = "topic" /\ up'[i].topic \in bad'
      BY <2>2, <2>3, <3>1
    <3> QED BY <2>1, <2>3, <3>3, <3>4, <3>5 DEF TopicBad
  <2>4. CASE ~(e.do = "topic" /\ reg # None /\ reg.tlock /\ ~e.access)
    <3>1. bad' = bad /\ (topic' = topic \/ topic' = 0 \/ topic' = spent + 1) /\ (e.do = "topic" => e.topic \notin bad)
      BY <1>2, <1>5, <2>4 DEF Changes
    <3>2. \A i \in 1..Len(up') : up'[i].do = "topic" /\ up'[i].topic \in bad => ~up'[i].access
      BY <1>1, <2>2, <3>1
    <3>3. topic' \in bad => Topics(down) \/ \E i \in 1..Len(up') : up'[i].do = "topic" /\ up'[i].topic \in bad
      <4>1. topic' \in bad => topic \in bad
        BY <1>2, <3>1
      <4> QED BY <1>1, <2>2, <4>1
    <3> QED BY <1>1, <2>1, <3>1, <3>2, <3>3 DEF TopicBad
  <2> QED BY <2>3, <2>4
<1>6. CASE Lock!Handle
  <2>1. up # <<>> /\ up' = Tail(up) /\ Head(up) \in Changed /\ UNCHANGED <<topic, bad, spent>>
    BY <1>6, LockHandled
  <2>2. /\ \A i \in 1..Len(up') : i + 1 \in 1..Len(up) /\ up'[i] = up[i + 1]
        /\ \A i \in 1..Len(up) : up[i] = Head(up) \/ (i - 1 \in 1..Len(up') /\ up'[i - 1] = up[i])
        /\ 1 \in 1..Len(up) /\ up[1] = Head(up)
    BY <1>0, <2>1, TailIs
  <2>3. \A i \in 1..Len(up') : up'[i].do = "topic" /\ up'[i].topic \in bad => ~up'[i].access
    BY <1>1, <2>2
  <2>4. Head(up).do = "topic" /\ Head(up).topic \in bad => ~Head(up).access
    BY <1>1, <2>2
  <2>5. topic \in bad =>
           \/ Topics(down) \/ (Head(up).do = "topic" /\ Head(up).topic \in bad)
           \/ \E i \in 1..Len(up') : up'[i].do = "topic" /\ up'[i].topic \in bad
    BY <1>1, <2>2
  <2>6. SUFFICES /\ bad # {} => reg' # None /\ reg'.tlock /\ reg'.topic \notin bad
                 /\ \A i \in 1..Len(down') : down'[i].do = "topic" => down'[i].topic \notin bad
                 /\ Topics(down) => Topics(down')
                 /\ Head(up).do = "topic" /\ Head(up).topic \in bad => Topics(down')
    BY <2>1, <2>3, <2>5 DEF TopicBad
  <2>7. CASE Head(up).do = "modes"
    <3>1. PICK r \in Words : reg' = reg /\ (down' = down \/ down' = Append(down, ModesOf(r)))
      BY Zenon, <1>6, <2>7, LockHandled DEF ModesHandled
    <3>2. ModesOf(r) \in Ordered /\ ModesOf(r).do = "modes"
      BY OrderedAre
    <3>3. \A i \in 1..Len(down') : (i \in 1..Len(down) /\ down'[i] = down[i]) \/ down'[i] = ModesOf(r)
      BY <1>0, <3>1, <3>2, AppendIs
    <3>4. Topics(down) => Topics(down')
      BY ZenonT(40), <1>0, <3>1, <3>2, TopicsGrow
    <3> QED BY <1>1, <2>7, <3>1, <3>2, <3>3, <3>4
  <2>8. CASE Head(up).do = "topic" /\ reg # None /\ reg.tlock /\ ~Head(up).access
    <3>1. reg' = reg /\ down' = Append(down, TopicOf(reg.topic))
      <4>1. TopicHandled(Head(up))
        BY <1>6, <2>8, LockHandled
      <4> QED BY <2>8, <4>1 DEF TopicHandled
    <3>2. TopicOf(reg.topic) \in Ordered /\ TopicOf(reg.topic).do = "topic" /\ TopicOf(reg.topic).topic = reg.topic
      BY <1>0, <2>8, OrderedAre
    <3>3. \A i \in 1..Len(down') : (i \in 1..Len(down) /\ down'[i] = down[i]) \/ down'[i] = TopicOf(reg.topic)
      BY <1>0, <3>1, <3>2, AppendIs
    <3>4. Topics(down')
      BY <1>0, <3>1, <3>2, TopicsGrow
    <3>5. reg.topic \notin bad
      BY <1>1
    <3> QED BY <1>1, <3>1, <3>2, <3>3, <3>4, <3>5
  <2>9. CASE Head(up).do = "topic" /\ ~(reg # None /\ reg.tlock /\ ~Head(up).access)
    <3>1. TopicHandled(Head(up))
      BY <1>6, <2>9, LockHandled
    <3>2. down' = down /\ (reg' = reg \/ (reg # None /\ reg' = [reg EXCEPT !.topic = Head(up).topic]))
      BY <2>9, <3>1 DEF TopicHandled
    <3>3. Head(up).topic \notin bad
      BY <1>1, <2>4, <2>9
    <3>4. bad # {} => reg' # None /\ reg'.tlock /\ reg'.topic \notin bad
      <4>1. CASE reg' = reg
        BY <1>1, <4>1
      <4>2. CASE reg # None /\ reg' = [reg EXCEPT !.topic = Head(up).topic]
        <5>1. reg' \in Registry /\ reg'.tlock = reg.tlock /\ reg'.topic = Head(up).topic
          <6>1. reg \in Registry /\ Head(up).topic \in Nat
            BY <1>0, <2>1, <2>9, <4>2 DEF Changed
          <6> QED BY <4>2, <6>1 DEF Registry
        <5>2. reg' # None
          BY Zenon, <5>1, WordsAre
        <5> QED BY <1>1, <3>3, <5>1, <5>2
      <4> QED BY <3>2, <4>1, <4>2
    <3> QED BY <1>1, <3>2, <3>3, <3>4
  <2>10. CASE Head(up).do = "create"
    <3>1. CreateHandled
      BY <1>6, <2>10, LockHandled
    <3> DEFINE a == ModesOf(reg.lock)
               b == TopicOf(reg.topic)
    <3>2. reg' = reg /\ (down' = down \/ (reg # None /\ down' \in {Append(down, a), Append(Append(down, a), b)}))
      BY <3>1 DEF CreateHandled
    <3>3. reg # None => a \in Ordered /\ b \in Ordered /\ a.do = "modes" /\ b.do = "topic" /\ b.topic = reg.topic
      BY <1>0, OrderedAre
    <3> HIDE DEF a, b
    <3>4. reg # None => Append(down, a) \in Seq(Ordered)
      BY <1>0, <3>3
    <3>5. reg # None => \A i \in 1..Len(Append(down, a)) : (i \in 1..Len(down) /\ Append(down, a)[i] = down[i]) \/ Append(down, a)[i] = a
      BY <1>0, <3>3, AppendIs
    <3>6. reg # None => \A i \in 1..Len(Append(Append(down, a), b)) :
             (i \in 1..Len(Append(down, a)) /\ Append(Append(down, a), b)[i] = Append(down, a)[i]) \/ Append(Append(down, a), b)[i] = b
      BY <3>3, <3>4, AppendIs
    <3>7. \A i \in 1..Len(down') : (i \in 1..Len(down) /\ down'[i] = down[i]) \/ (reg # None /\ down'[i] \in {a, b})
      BY <3>2, <3>5, <3>6
    <3>8. reg.topic \notin bad
      BY <1>1
    <3>9. Topics(down) => Topics(down')
      <4>1. reg # None => (Topics(down) => Topics(Append(down, a)))
        BY <1>0, <3>3, TopicsGrow
      <4>2. reg # None => (Topics(Append(down, a)) => Topics(Append(Append(down, a), b)))
        BY Zenon, <3>3, <3>4, TopicsGrow
      <4> QED BY Zenon, <3>2, <4>1, <4>2
    <3> QED BY Zenon, <1>1, <2>10, <3>2, <3>3, <3>7, <3>8, <3>9
  <2>11. Head(up).do \in {"modes", "topic", "create"}
    BY <2>1 DEF Changed
  <2> QED BY <2>7, <2>8, <2>9, <2>10, <2>11
<1>7. CASE Lock!Drain
  <2>1. /\ down # <<>> /\ down' = Tail(down)
        /\ topic' = IF Head(down).do = "topic" THEN Head(down).topic ELSE topic
        /\ UNCHANGED <<reg, up, bad>>
    BY <1>7, LockDrained
  <2>2. /\ \A i \in 1..Len(down') : i + 1 \in 1..Len(down) /\ down'[i] = down[i + 1]
        /\ 1 \in 1..Len(down) /\ down[1] = Head(down)
    BY <1>0, <2>1, TailIs
  <2>3. \A i \in 1..Len(down') : down'[i].do = "topic" => down'[i].topic \notin bad
    BY <1>1, <2>2
  <2>4. Head(down).do = "topic" => Head(down).topic \notin bad
    BY <1>1, <2>2
  <2>5. Topics(down) <=> Topics(down') \/ Head(down).do = "topic"
    BY <1>0, <2>1, TopicsGo
  <2>6. topic' \in bad => Topics(down') \/ \E i \in 1..Len(up) : up[i].do = "topic" /\ up[i].topic \in bad
    BY <1>1, <2>1, <2>4, <2>5
  <2> QED BY <1>1, <2>1, <2>3, <2>6 DEF TopicBad
<1> QED BY <1>3, <1>4, <1>5, <1>6, <1>7, LockSteps

LEMMA SaysOfTopics ==
    /\ \A a : a.do = "topic" => Says(a, "topic") /\ Said(a, "topic") = a.topic
    /\ \A a : a.do # "topic" => ~Says(a, "topic")
BY DEF Says, Said

LEMMA TopicKeptStep ==
    ASSUME LockTypes, TopicKept, Lock!Next
    PROVE  TopicKept'
<1>0. /\ spent \in Nat /\ reg \in Registry \cup {None} /\ topic \in Nat
      /\ up \in Seq(Changed) /\ down \in Seq(Ordered) /\ astray \in BOOLEAN
      /\ reg # None => reg \in Registry /\ reg.topic \in Nat /\ reg.lock \in Words
  BY LocksAssumption DEF LockTypes, Registry
<1>1. ASSUME NEW a \in Ordered, Sends(a) PROVE TopicKept'
  <2>1. down' = Append(down, a) /\ UNCHANGED <<topic, up>> /\ reg # None /\ reg'.keep = reg.keep /\ reg'.tlock = reg.tlock
    BY Zenon, <1>1 DEF Sends
  <2>2. CASE a.do = "modes"
    <3>1. reg'.topic = reg.topic /\ astray' = astray
      <4>1. a.do # "topic"
        BY <2>2
      <4> QED BY Zenon, <1>1, <4>1 DEF Sends
    <3>2. ~Says(a, "topic")
      BY <2>2, SaysOfTopics
    <3>3. Stays(down, "topic", topic, reg.topic) => Stays(Append(down, a), "topic", topic, reg.topic)
      BY Zenon, <1>0, <3>2, StaysSaid
    <3>4. Topics(Append(down, a)) <=> Topics(down)
      BY <1>0, <2>2, TopicsGrow
    <3> QED BY <2>1, <3>1, <3>3, <3>4 DEF TopicKept
  <2>3. CASE a.do = "topic"
    <3>1. a.topic = spent + 1 /\ reg'.topic = spent + 1 /\ astray' = Lock!HasTopic(up)
      <4>1. a.do # "modes"
        BY <2>3
      <4> QED BY Zenon, <1>1, <4>1 DEF Sends
    <3>2. Says(a, "topic") /\ Said(a, "topic") = spent + 1
      BY <2>3, <3>1, SaysOfTopics
    <3>3. Stays(Append(down, a), "topic", topic, spent + 1)
      <4>1. Stays(Append(down, a), "topic", topic, Said(a, "topic"))
        BY <1>0, <3>2, StaysSaid
      <4> QED BY <3>2, <4>1
    <3>4. Lock!HasTopic(up) <=> Topics(up)
      BY <1>0, TopicsAre
    <3>5. ~astray' => ~Topics(up)
      BY <3>1, <3>4
    <3> QED BY <2>1, <3>1, <3>3, <3>5 DEF TopicKept
  <2> QED BY <2>2, <2>3 DEF Ordered
<1>2. CASE Settles
  BY Zenon, <1>2 DEF Settles, TopicKept
<1>3. ASSUME NEW e \in Changed, Changes(e) PROVE TopicKept'
  <2>1. up' = Append(up, e) /\ UNCHANGED <<reg, down>>
    BY <1>3 DEF Changes
  <2>2. /\ Topics(up') <=> Topics(up) \/ e.do = "topic"
        /\ Creates(up') <=> Creates(up) \/ e.do = "create"
    BY <1>0, <2>1, TopicsGrow
  <2>3. CASE e.do = "modes"
    <3>1. UNCHANGED <<topic, astray>>
      BY <1>3, <2>3 DEF Changes
    <3>2. ~Says(e, "topic") /\ e.do # "topic" /\ e.do # "create"
      BY <2>3, SaysOfTopics
    <3>3. Stays(up, "topic", topic, topic) => Stays(Append(up, e), "topic", topic, topic)
      BY Zenon, <1>0, <3>2, StaysSaid
    <3> QED BY <2>1, <2>2, <3>1, <3>2, <3>3 DEF TopicKept
  <2>4. CASE e.do = "topic"
    <3>1. topic' = spent + 1 /\ e.topic = spent + 1 /\ astray' = (astray \/ Lock!HasTopic(down))
      BY <1>3, <2>4 DEF Changes
    <3>2. Says(e, "topic") /\ Said(e, "topic") = topic'
      BY <2>4, <3>1, SaysOfTopics
    <3>3. Stays(up', "topic", topic', topic')
      <4> DEFINE next_ == topic'
      <4>1. Said(e, "topic") = next_
        BY <3>2
      <4> HIDE DEF next_
      <4>2. Stays(Append(up, e), "topic", next_, Said(e, "topic"))
        BY <1>0, <3>2, StaysSaid
      <4>3. Stays(Append(up, e), "topic", next_, next_)
        BY <4>1, <4>2
      <4> QED BY <2>1, <4>3 DEF next_
    <3>4. Lock!HasTopic(down) <=> Topics(down)
      BY <1>0, TopicsAre
    <3>5. ~astray' => ~Topics(down)
      BY Zenon, <3>1, <3>4
    <3> QED BY <2>1, <2>2, <2>4, <3>3, <3>5 DEF TopicKept
  <2>5. CASE e.do = "create"
    <3>1. topic' = 0 /\ astray' = astray
      BY <1>3, <2>5 DEF Changes
    <3>2. Creates(up') /\ (Topics(up') <=> Topics(up))
      BY <2>2, <2>5
    <3>3. Stays(down, "topic", topic, 0) => Stays(down, "topic", 0, 0)
      BY StaysItself
    <3> QED BY <2>1, <3>1, <3>2, <3>3 DEF TopicKept
  <2> QED BY <2>3, <2>4, <2>5 DEF Changed
<1>4. CASE Lock!Handle
  <2>1. up # <<>> /\ up' = Tail(up) /\ Head(up) \in Changed /\ topic' = topic
    BY <1>4, LockHandled
  <2>2. /\ Topics(up) <=> Topics(up') \/ Head(up).do = "topic"
        /\ Creates(up) <=> Creates(up') \/ Head(up).do = "create"
    BY <1>0, <2>1, TopicsGo
  <2>3. CASE Head(up).do = "modes"
    <3>1. PICK r \in Words : UNCHANGED <<reg, astray>> /\ (down' = down \/ down' = Append(down, ModesOf(r)))
      BY Zenon, <1>4, <2>3, LockHandled DEF ModesHandled
    <3>2. ModesOf(r) \in Ordered /\ ModesOf(r).do = "modes" /\ ~Says(ModesOf(r), "topic") /\ ~Says(Head(up), "topic")
      BY <2>3, OrderedAre, SaysOfTopics
    <3>3. Topics(down) <=> Topics(down')
      <4>1. Topics(Append(down, ModesOf(r))) <=> Topics(down)
        <5>1. ModesOf(r).do # "topic"
          BY <3>2
        <5> QED BY <1>0, <3>2, <5>1, TopicsGrow
      <4>2. CASE down' = down
        BY <4>2
      <4>3. CASE down' = Append(down, ModesOf(r))
        BY <4>1, <4>3
      <4> QED BY <3>1, <4>2, <4>3
    <3>4. Stays(down, "topic", topic, reg.topic) => Stays(down', "topic", topic, reg.topic)
      <4>1. Stays(down, "topic", topic, reg.topic) => Stays(Append(down, ModesOf(r)), "topic", topic, reg.topic)
        BY Zenon, <1>0, <3>2, StaysSaid
      <4> QED BY Zenon, <3>1, <4>1
    <3>5. Stays(up, "topic", topic, topic) => Stays(Tail(up), "topic", topic, topic)
      BY <1>0, <2>1, <3>2, StaysDone
    <3>6. Head(up).do # "topic" /\ Head(up).do # "create"
      BY <2>3
    <3> QED BY <2>1, <2>2, <3>1, <3>3, <3>4, <3>5, <3>6 DEF TopicKept
  <2>4. CASE Head(up).do = "topic"
    <3>1. TopicHandled(Head(up))
      BY <1>4, <2>4, LockHandled
    <3>2. CASE reg # None /\ reg.tlock /\ ~Head(up).access
      <4>1. reg' = reg /\ down' = Append(down, TopicOf(reg.topic)) /\ (astray' <=> Topics(up'))
        BY <3>1, <3>2 DEF TopicHandled
      <4>2. TopicOf(reg.topic) \in Ordered /\ TopicOf(reg.topic).do = "topic" /\ TopicOf(reg.topic).topic = reg.topic
        BY <1>0, <3>2, OrderedAre
      <4>3. Says(TopicOf(reg.topic), "topic") /\ Said(TopicOf(reg.topic), "topic") = reg.topic
        BY <4>2, SaysOfTopics
      <4>4. Stays(Append(down, TopicOf(reg.topic)), "topic", topic, reg.topic)
        <5>1. Stays(Append(down, TopicOf(reg.topic)), "topic", topic, Said(TopicOf(reg.topic), "topic"))
          BY <1>0, <4>2, <4>3, StaysSaid
        <5> QED BY <4>3, <5>1
      <4> QED BY <2>1, <4>1, <4>4 DEF TopicKept
    <3>3. CASE reg # None /\ (reg.tlock => Head(up).access) /\ (reg.keep \/ reg.tlock)
      <4>1. reg' = [reg EXCEPT !.topic = Head(up).topic] /\ down' = down /\ astray' = astray
        BY <3>1, <3>3 DEF TopicHandled
      <4>2. Head(up).topic \in Nat \ {0}
        BY <2>1, <2>4 DEF Changed
      <4>3. reg'.topic = Head(up).topic
        <5>1. reg \in Registry
          BY <1>0, <3>3
        <5> QED BY <4>1, <5>1 DEF Registry
      <4>4. SUFFICES ASSUME ~astray, ~Creates(up')
                     PROVE  /\ ~Topics(up') => Stays(down, "topic", topic, Head(up).topic)
                            /\ Topics(up') => ~Topics(down) /\ Stays(up', "topic", topic, topic)
        <5>1. Creates(up') /\ reg'.topic = 0 => FALSE
          BY <4>2, <4>3
        <5>2. reg' # None /\ ~astray' =>
                 /\ ~Topics(up') /\ (Creates(up') => reg'.topic = 0) => Stays(down', "topic", topic', reg'.topic)
                 /\ Topics(up') /\ ~Creates(up') => ~Topics(down') /\ Stays(up', "topic", topic', topic')
          BY <2>1, <4>1, <4>3, <4>4, <5>1
        <5> QED BY <5>2 DEF TopicKept
      <4>5. ~Topics(down) /\ Stays(up, "topic", topic, topic)
        <5>1. ~Creates(up) /\ Topics(up)
          BY <2>2, <2>4, <4>4
        <5> QED BY <3>3, <4>4, <5>1 DEF TopicKept
      <4>6. Says(Head(up), "topic") /\ Said(Head(up), "topic") = Head(up).topic
        BY <2>4, SaysOfTopics
      <4>7. Stays(Tail(up), "topic", Head(up).topic, topic)
        BY <1>0, <2>1, <4>5, <4>6, StaysDone
      <4>8. Topics(up') => Stays(up', "topic", topic, topic)
        BY <2>1, <4>7, StaysItself
      <4>9. ~Topics(up') => Head(up).topic = topic
        BY <2>1, <4>7, StaysSilent
      <4>10. ~Topics(up') => Stays(down, "topic", topic, Head(up).topic)
        BY <4>5, <4>9, StaysSilent
      <4> QED BY <4>5, <4>8, <4>10
    <3>4. CASE reg # None => ~reg.keep /\ ~reg.tlock
      <4>1. reg' = reg
        BY <3>1, <3>4 DEF TopicHandled
      <4> QED BY <3>4, <4>1 DEF TopicKept
    <3> QED BY <3>2, <3>3, <3>4
  <2>5. CASE Head(up).do = "create"
    <3>1. CreateHandled
      BY <1>4, <2>5, LockHandled
    <3>2. reg' = reg
      BY <3>1 DEF CreateHandled
    <3>3. SUFFICES ASSUME reg # None, ~astray', ~Topics(up')
                   PROVE  Stays(down', "topic", topic, reg.topic)
      <4>1. ~astray' => ~Topics(up')
        BY <3>1 DEF CreateHandled
      <4> QED BY <2>1, <3>2, <3>3, <4>1 DEF TopicKept
    <3> DEFINE a == ModesOf(reg.lock)
               b == TopicOf(reg.topic)
    <3>4. /\ reg.keep /\ (reg.topic = 0 => ~astray)
          /\ \/ down' = Append(Append(down, a), b)
             \/ reg.topic = 0 /\ down' = Append(down, a)
      BY <3>1, <3>3 DEF CreateHandled
    <3>5. a \in Ordered /\ b \in Ordered /\ a.do = "modes" /\ b.do = "topic" /\ b.topic = reg.topic
      BY <1>0, <3>3, OrderedAre
    <3>6. ~Says(a, "topic") /\ Says(b, "topic") /\ Said(b, "topic") = reg.topic
      BY <3>5, SaysOfTopics
    <3> HIDE DEF a, b
    <3>7. CASE down' = Append(Append(down, a), b)
      <4>1. Append(down, a) \in Seq(Ordered)
        BY <1>0, <3>5
      <4>2. Stays(Append(Append(down, a), b), "topic", topic, Said(b, "topic"))
        BY Zenon, <3>5, <3>6, <4>1, StaysSaid
      <4> QED BY <3>6, <3>7, <4>2
    <3>8. CASE reg.topic = 0 /\ down' = Append(down, a)
      <4>1. ~Topics(up) /\ ~astray
        BY <2>2, <2>5, <3>3, <3>4, <3>8
      <4>2. Stays(down, "topic", topic, reg.topic)
        BY <3>3, <3>4, <3>8, <4>1 DEF TopicKept
      <4>3. Stays(Append(down, a), "topic", topic, reg.topic)
        BY Zenon, <1>0, <3>5, <3>6, <4>2, StaysSaid
      <4> QED BY <3>8, <4>3
    <3> QED BY <3>4, <3>7, <3>8
  <2>6. Head(up).do \in {"modes", "topic", "create"}
    BY <2>1 DEF Changed
  <2> QED BY <2>3, <2>4, <2>5, <2>6
<1>5. CASE Lock!Drain
  <2>1. /\ down # <<>> /\ down' = Tail(down) /\ Head(down) \in Ordered
        /\ topic' = IF Head(down).do = "topic" THEN Head(down).topic ELSE topic
        /\ UNCHANGED <<reg, up, astray>>
    BY <1>5, LockDrained
  <2>2. Topics(down) <=> Topics(down') \/ Head(down).do = "topic"
    BY <1>0, <2>1, TopicsGo
  <2>3. topic' = IF Says(Head(down), "topic") THEN Said(Head(down), "topic") ELSE topic
    BY <2>1, SaysOfTopics
  <2> DEFINE next_ == topic'
  <2>4. next_ = IF Says(Head(down), "topic") THEN Said(Head(down), "topic") ELSE topic
    BY <2>3
  <2> HIDE DEF next_
  <2>5. Stays(down, "topic", topic, reg.topic) => Stays(Tail(down), "topic", next_, reg.topic)
    BY <1>0, <2>1, <2>4, StaysDone
  <2>6. ~Topics(down) => topic' = topic
    BY <2>1, <2>2
  <2> QED BY <2>1, <2>2, <2>5, <2>6 DEF TopicKept, next_
<1> QED BY <1>1, <1>2, <1>3, <1>4, <1>5, LockSteps

-----------------------------------------------------------------------------
(* Locks: all of it.                                                       *)

LockHoldsAll == LockTypes /\ LockBounds /\ LockStands /\ TopicBad /\ TopicKept

LEMMA LockHoldsInit == Lock!Init => LockHoldsAll
<1> SUFFICES ASSUME Lock!Init PROVE LockHoldsAll
  OBVIOUS
<1> DEFINE r1 == [Lock!Fresh EXCEPT !.lock = [n |-> "-", f |-> "p"], !.keep = TRUE, !.topic = 0]
           r2 == [Lock!Fresh EXCEPT !.lock = [n |-> "+", f |-> "-"], !.tlock = TRUE]
           w0 == [n |-> "+", f |-> "-"]
<1>1. /\ reg \in {None, Lock!Fresh, r1, r2}
      /\ modes = IF reg = None THEN w0 ELSE Lock!Over(w0, reg.lock)
      /\ topic = 0 /\ up = <<>> /\ down = <<>> /\ stray = {} /\ bad = {} /\ astray = FALSE /\ spent = 0
  BY DEF Lock!Init
<1>2. w0 \in Shapes
  BY Zenon, WordPairs
<1>3. /\ Lock!Fresh \in Registry /\ r1 \in Registry /\ r2 \in Registry
      /\ Lock!Fresh.topic = 0 /\ r1.topic = 0 /\ r2.topic = 0
  <2>1. Lock!Fresh \in Registry
    BY Zenon, WordsAre
  <2>2. Lock!Fresh.topic = 0
    BY DEF Lock!Fresh
  <2>3. [n |-> "-", f |-> "p"] \in Words /\ w0 \in Words
    BY Zenon, WordPairs
  <2> DEFINE g == Lock!Fresh
             x == [n |-> "-", f |-> "p"]
  <2>4. [g EXCEPT !.lock = x, !.keep = TRUE, !.topic = 0] = r1 /\ [g EXCEPT !.lock = w0, !.tlock = TRUE] = r2
    OBVIOUS
  <2> HIDE DEF g, x, w0, r1, r2
  <2>5. g \in Registry /\ x \in Words /\ w0 \in Words /\ g.topic = 0
    BY <2>1, <2>2, <2>3 DEF g, x
  <2>6. /\ [g EXCEPT !.lock = x, !.keep = TRUE, !.topic = 0] \in Registry
        /\ [g EXCEPT !.lock = x, !.keep = TRUE, !.topic = 0].topic = 0
        /\ [g EXCEPT !.lock = w0, !.tlock = TRUE] \in Registry
        /\ [g EXCEPT !.lock = w0, !.tlock = TRUE].topic = 0
    BY Zenon, <2>5 DEF Registry
  <2> QED BY Zenon, <2>4, <2>5, <2>6 DEF g
<1> HIDE DEF r1, r2, w0
<1>4. (reg # None => reg \in Registry /\ reg.topic = 0) /\ reg \in Registry \cup {None}
  BY <1>1, <1>3
<1>5. reg # None => reg.lock \in Words
  BY <1>4 DEF Registry
<1>6. modes \in Shapes
  BY Zenon, <1>1, <1>2, <1>5, OverIs
<1>7. LockTypes
  <2>1. up \in Seq(Changed) /\ down \in Seq(Ordered)
    BY <1>1
  <2>2. 0 \in 0..MaxOps["locks"]
    BY LocksAssumption
  <2> QED BY Zenon, <1>1, <1>4, <1>6, <2>1, <2>2 DEF LockTypes
<1>8. LockBounds
  BY <1>1, <1>4 DEF LockBounds
<1>9. LockStands
  <2>1. ASSUME NEW m \in {"n", "f"}, reg # None, reg.lock[m] # "" PROVE Stays(down, m, modes[m], reg.lock[m])
    <3>1. modes[m] = reg.lock[m]
      BY <1>1, <1>2, <1>5, <2>1, OverIs
    <3> QED BY <1>1, <3>1, StaysSilent
  <2> QED BY Zenon, <2>1 DEF LockStands
<1>10. TopicBad
  BY <1>1 DEF TopicBad
<1>11. TopicKept
  <2>1. ~Topics(up)
    BY <1>1 DEF Topics
  <2>2. reg # None => Stays(down, "topic", topic, reg.topic)
    BY <1>1, <1>4, StaysSilent
  <2> QED BY <2>1, <2>2 DEF TopicKept
<1> QED BY <1>7, <1>8, <1>9, <1>10, <1>11 DEF LockHoldsAll

LEMMA LockHoldsStep == LockHoldsAll /\ Lock!Next => LockHoldsAll'
BY LockTypesStep, LockBoundsStep, LockStandsStep, TopicBadStep, TopicKeptStep DEF LockHoldsAll

LEMMA LockHoldsStutter == LockHoldsAll /\ UNCHANGED Lock!vars => LockHoldsAll'
<1> SUFFICES ASSUME LockHoldsAll, UNCHANGED Lock!vars PROVE LockHoldsAll'
  OBVIOUS
<1>1. UNCHANGED <<reg, modes, topic, up, down, stray, bad, astray, spent>>
  BY DEF Lock!vars, Lock!ircd
<1>2. LockTypes' /\ LockBounds' /\ TopicBad'
  BY <1>1 DEF LockHoldsAll, LockTypes, LockBounds, TopicBad, Topics
<1>3. /\ \A m : Judging(m)' <=> Judging(m)
      /\ \A m : Stays(down, m, modes[m], reg.lock[m])' <=> Stays(down, m, modes[m], reg.lock[m])
  BY <1>1 DEF Judging, Against
<1>4. LockStands'
  BY <1>1, <1>3 DEF LockHoldsAll, LockStands
<1>5. TopicKept'
  BY <1>1 DEF LockHoldsAll, TopicKept
<1> QED BY <1>2, <1>4, <1>5 DEF LockHoldsAll

LEMMA LockTypeOK == LockHoldsAll => Lock!TypeOK
<1> SUFFICES ASSUME LockHoldsAll PROVE Lock!TypeOK
  OBVIOUS
<1>1. LockTypes /\ LockBounds
  BY DEF LockHoldsAll
<1>2. spent \in 0..MaxOps["locks"] /\ spent \in Nat /\ bad \subseteq 1..spent /\ topic \in 0..spent
  BY <1>1, LocksAssumption DEF LockTypes, LockBounds
<1>3. modes \in [n : {"+", "-"}, f : {"-"} \cup Lock!Value]
  <2>1. {"-"} \cup Lock!Value = {"-", "p", "q"}
    BY WordsAre
  <2> QED BY <1>1, <2>1 DEF LockTypes, Shapes
<1>4. reg # None => reg.lock \in Lock!Lock /\ reg.topic \in 0..spent /\ {reg.keep, reg.tlock} \subseteq BOOLEAN
  <2>1. reg # None => reg \in Registry /\ reg.topic <= spent
    BY <1>1 DEF LockTypes, LockBounds
  <2>2. reg # None => reg.lock \in Words /\ reg.topic \in Nat /\ reg.keep \in BOOLEAN /\ reg.tlock \in BOOLEAN
    BY <2>1 DEF Registry
  <2>3. Lock!Lock = Words
    BY WordsAre
  <2>4. reg # None => reg.topic \in 0..spent
    BY <1>2, <2>1, <2>2
  <2> QED BY <2>2, <2>3, <2>4
<1> QED BY <1>2, <1>3, <1>4 DEF Lock!TypeOK, Lock!Registered

\* Once the link is quiet.
LEMMA LockRulesHold ==
    ASSUME LockHoldsAll
    PROVE  Lock!LockHolds /\ Lock!NoForeignTopic /\ Lock!TopicIsStored
<1>1. Lock!Quiet => ~Topics(up) /\ ~Topics(down) /\ ~Creates(up) /\ (\A m : ~Judging(m))
                    /\ \A m, was, x : Stays(down, m, was, x) <=> was = x
  <2>1. Lock!Quiet => Len(up) = 0 /\ Len(down) = 0 /\ down = <<>>
    BY DEF Lock!Quiet
  <2>2. Lock!Quiet => ~Topics(up) /\ ~Topics(down) /\ ~Creates(up) /\ (\A m : ~Judging(m))
    BY <2>1 DEF Topics, Creates, Judging
  <2> QED BY <2>1, <2>2, StaysSilent
<1>2. Lock!LockHolds
  <2>1. ASSUME Lock!Quiet, reg # None, NEW m \in {"n", "f"} \ stray, reg.lock[m] # ""
        PROVE  modes[m] = reg.lock[m]
    <3>1. Stays(down, m, modes[m], reg.lock[m]) \/ Judging(m)
      BY <2>1 DEF LockHoldsAll, LockStands
    <3>2. ~Judging(m)
      BY <1>1, <2>1
    <3> DEFINE is == modes[m]
               lock_ == reg.lock[m]
    <3>3. Stays(down, m, is, lock_)
      BY <3>1, <3>2
    <3> HIDE DEF is, lock_
    <3>4. is = lock_
      <4>1. \A k, was, x : Stays(down, k, was, x) <=> was = x
        BY <1>1, <2>1
      <4> QED BY <3>3, <4>1
    <3> QED BY <3>4 DEF is, lock_
  <2> QED BY <2>1 DEF Lock!LockHolds, Lock!Registered
<1>3. Lock!NoForeignTopic
  <2>1. Lock!Quiet => Len(up) = 0
    BY DEF Lock!Quiet
  <2>2. Lock!Quiet => topic \notin bad
    BY <1>1, <2>1 DEF LockHoldsAll, TopicBad
  <2>3. reg # None => reg.topic \notin bad
    BY DEF LockHoldsAll, TopicBad
  <2> QED BY <2>2, <2>3 DEF Lock!NoForeignTopic, Lock!Registered
<1>4. Lock!TopicIsStored
  BY <1>1 DEF Lock!TopicIsStored, Lock!Registered, LockHoldsAll, TopicKept
<1> QED BY <1>2, <1>3, <1>4

-----------------------------------------------------------------------------
(* Settings: every command keeps memory and disk in agreement.             *)

\* The masks of a CLONE, one by one.
LEMMA CloneIs ==
    ASSUME NEW st, Sound(st), NEW c \in Chan, st.reg[c] # None, NEW list \in Seq(Mask),
           NEW s, s = Sett!akick_copy(st, c, list)
    PROVE  Follows(st, s)
<1> DEFINE n == Len(list)
           D == {x \in Stores : Follows(st, x)}
           step == [p \in D \X (1..n) |-> Sett!akick_add(p[1], c, list[p[2]])]
           g == CHOOSE f : f = [z \in SUBSET DOMAIN list |->
                                  IF z = {} THEN st ELSE Sett!akick_add(f[z \ {Max(z)}], c, list[Max(z)])]
<1>1. n \in Nat /\ DOMAIN list = 1..n /\ \A i \in 1..n : list[i] \in Mask
  OBVIOUS
<1>2. s = g[1..n]
  BY Zenon, <1>1, CloneUnfolds
<1>3. st \in D
  BY SoundIs, FollowsSame
<1>4. ASSUME NEW d \in D, NEW i \in 1..n PROVE Sett!akick_add(d, c, list[i]) \in D
  <2> DEFINE x == list[i]
             e == Sett!akick_add(d, c, x)
  <2>1. Sound(d) /\ d.reg[c] # None /\ Follows(st, d) /\ x \in Mask
    BY <1>1, FollowsThere DEF Follows
  <2>2. e = Sett!akick_add(d, c, x)
    OBVIOUS
  <2> HIDE DEF x, e
  <2>3. Follows(d, e)
    BY <2>1, <2>2, AkickAdded, OutcomeFollows
  <2>4. Follows(st, e) /\ e \in Stores
    BY <2>1, <2>3, FollowsOn, SoundIs DEF Follows
  <2> QED BY <2>4 DEF e, x
<1> HIDE DEF D
<1>5. step \in [D \X (1..n) -> D] /\ \A d \in D, i \in 1..n : step[<<d, i>>] = Sett!akick_add(d, c, list[i])
  BY <1>4
<1> HIDE DEF step
<1>6. g = [z \in SUBSET (1..n) |-> IF z = {} THEN st ELSE Sett!akick_add(g[z \ {Max(z)}], c, list[Max(z)])]
  <2>1. PICK f \in [SUBSET (1..n) -> D] : FoldsBy(f, n, st, step)
    BY Zenon, <1>1, <1>3, <1>5, FoldExists
  <2>2. ASSUME NEW z \in SUBSET (1..n), z # {}
        PROVE  step[<<f[z \ {Max(z)}], Max(z)>>] = Sett!akick_add(f[z \ {Max(z)}], c, list[Max(z)])
    <3>1. Max(z) \in 1..n
      BY Zenon, <1>1, <2>2, MaxOf
    <3>2. f[z \ {Max(z)}] \in D
      BY Zenon
    <3> QED BY <1>5, <3>1, <3>2
  <2>3. f = [z \in SUBSET (1..n) |-> IF z = {} THEN st ELSE Sett!akick_add(f[z \ {Max(z)}], c, list[Max(z)])]
    BY Zenon, <2>1, <2>2 DEF FoldsBy
  <2> QED BY Zenon, <1>1, <2>3
<1> HIDE DEF g
<1>7. g[1..0] \in D
  <2>1. 1..0 = {}
    OBVIOUS
  <2> QED BY <1>3, <1>6, <2>1
<1>8. ASSUME NEW i \in 1..n, g[1..(i - 1)] \in D PROVE g[1..i] \in D
  <2>1. Max(1..i) = i /\ (1..i) \ {i} = 1..(i - 1) /\ 1..i \in SUBSET (1..n) /\ 1..i # {}
    BY <1>1, UpTo
  <2>2. g[1..i] = Sett!akick_add(g[1..(i - 1)], c, list[i])
    BY Zenon, <1>6, <2>1
  <2> QED BY <1>4, <1>8, <2>2
<1>9. g[1..n] \in D
  BY <1>1, <1>7, <1>8, FoldIn
<1> QED BY <1>2, <1>9 DEF D

\* What a parsed lock is, mode by mode.
ModeStep(l, x) ==
    IF x[2] = "r" THEN l ELSE IF x[1] = "+" THEN Sett!Locked(l, x[2]) ELSE Sett!Unlocked(l, x[2])

Parses == {l \in [on : SUBSET Sett!Mode, off : SUBSET Sett!Mode, given : SUBSET {"f"}, rest : Nat] : Sensible(l)}

LEMMA Parsed ==
    ASSUME NEW y \in SUBSET Sett!Mode, NEW z \in SUBSET Sett!Mode, NEW v \in SUBSET {"f"}, NEW w \in Nat,
           y \cap z = {}, v = y \cap {"f"}
    PROVE  [on |-> y, off |-> z, given |-> v, rest |-> w] \in Parses
BY Zenon DEF Parses, Sensible

LEMMA ModeStepIs ==
    ASSUME NEW l \in Parses, NEW x \in {"+", "-"} \X {"n", "f", "r"}
    PROVE  ModeStep(l, x) \in Parses
<1> DEFINE a == x[2]
<1>1. l = [on |-> l.on, off |-> l.off, given |-> l.given, rest |-> l.rest]
  BY DEF Parses
<1>2. /\ l.on \in SUBSET Sett!Mode /\ l.off \in SUBSET Sett!Mode /\ l.given \in SUBSET {"f"} /\ l.rest \in Nat
      /\ l.on \cap l.off = {} /\ l.given = l.on \cap {"f"}
  BY DEF Parses, Sensible
<1>3. a \in {"n", "f", "r"} /\ x[1] \in {"+", "-"}
  OBVIOUS
<1>4. CASE a = "r"
  BY <1>4 DEF ModeStep
<1>5. CASE a # "r" /\ x[1] = "+"
  <2> DEFINE has == a = "f" /\ l.rest > 0
             y == IF a = "f" /\ ~has THEN l.on \ {a} ELSE l.on \cup {a}
             z == l.off \ {a}
             v == IF has THEN l.given \cup {a} ELSE l.given \ {a}
             w == IF has THEN l.rest - 1 ELSE l.rest
  <2>1. ModeStep(l, x) = [on |-> y, off |-> z, given |-> v, rest |-> w]
    BY <1>5 DEF ModeStep, Sett!Locked
  <2>2. a \in Sett!Mode
    BY <1>3, <1>5 DEF Sett!Mode
  <2>3. y \in SUBSET Sett!Mode /\ z \in SUBSET Sett!Mode /\ v \in SUBSET {"f"} /\ w \in Nat
    BY <1>2, <2>2
  <2>4. y \cap z = {}
    BY <1>2
  <2>5. v = y \cap {"f"}
    <3>1. CASE a = "f"
      BY <1>2, <3>1
    <3>2. CASE a # "f"
      BY <1>2, <3>2
    <3> QED BY <3>1, <3>2
  <2> HIDE DEF y, z, v, w
  <2> QED BY <2>1, <2>3, <2>4, <2>5, Parsed
<1>6. CASE a # "r" /\ x[1] = "-"
  <2> DEFINE y == l.on \ {a}
             z == l.off \cup {a}
             v == l.given \ {a}
  <2>1. ModeStep(l, x) = [on |-> y, off |-> z, given |-> v, rest |-> l.rest]
    BY Zenon, <1>1, <1>6 DEF ModeStep, Sett!Unlocked
  <2>2. a \in Sett!Mode
    BY <1>3, <1>6 DEF Sett!Mode
  <2>3. y \in SUBSET Sett!Mode /\ z \in SUBSET Sett!Mode /\ v \in SUBSET {"f"}
    BY <1>2, <2>2
  <2>4. y \cap z = {} /\ v = y \cap {"f"}
    BY <1>2
  <2> HIDE DEF y, z, v
  <2> QED BY <1>2, <2>1, <2>3, <2>4, Parsed
<1> QED BY <1>3, <1>4, <1>5, <1>6

\* What MLOCK stores makes sense, whatever was asked for.
LEMMA ParseIs ==
    ASSUME NEW list \in Seq({"+", "-"} \X {"n", "f", "r"}), NEW values \in Nat
    PROVE  Fits("lock", Sett!parse_mlock(list, values))
<1> DEFINE n == Len(list)
           none == [on |-> {}, off |-> {}, given |-> {}, rest |-> values]
           step == [p \in Parses \X (1..n) |-> ModeStep(p[1], list[p[2]])]
           g == CHOOSE f : f = [z \in SUBSET DOMAIN list |->
                                  IF z = {} THEN none ELSE ModeStep(f[z \ {Max(z)}], list[Max(z)])]
           l == g[DOMAIN list]
<1>1. n \in Nat /\ DOMAIN list = 1..n /\ \A i \in 1..n : list[i] \in {"+", "-"} \X {"n", "f", "r"}
  OBVIOUS
<1>2. Sett!parse_mlock(list, values) = [on |-> l.on, off |-> l.off, given |-> l.given]
  BY Zenon, SettMax DEF Sett!parse_mlock, Sett!FoldLeft, Sett!MapThenFoldSet, ModeStep
<1>3. none \in Parses
  BY DEF Parses, Sensible
<1>4. ASSUME NEW d \in Parses, NEW i \in 1..n PROVE ModeStep(d, list[i]) \in Parses
  <2> DEFINE x == list[i]
  <2>1. x \in {"+", "-"} \X {"n", "f", "r"}
    BY <1>1
  <2> HIDE DEF x
  <2>2. ModeStep(d, x) \in Parses
    BY <2>1, ModeStepIs
  <2> QED BY <2>2 DEF x
<1> HIDE DEF none
<1>5. step \in [Parses \X (1..n) -> Parses] /\ \A d \in Parses, i \in 1..n : step[<<d, i>>] = ModeStep(d, list[i])
  BY <1>4
<1> HIDE DEF step
<1>6. g = [z \in SUBSET (1..n) |-> IF z = {} THEN none ELSE ModeStep(g[z \ {Max(z)}], list[Max(z)])]
  <2>1. PICK f \in [SUBSET (1..n) -> Parses] : FoldsBy(f, n, none, step)
    BY Zenon, <1>1, <1>3, <1>5, FoldExists
  <2>2. ASSUME NEW z \in SUBSET (1..n), z # {}
        PROVE  step[<<f[z \ {Max(z)}], Max(z)>>] = ModeStep(f[z \ {Max(z)}], list[Max(z)])
    <3>1. Max(z) \in 1..n
      BY Zenon, <1>1, <2>2, MaxOf
    <3>2. f[z \ {Max(z)}] \in Parses
      BY Zenon
    <3> QED BY <1>5, <3>1, <3>2
  <2>3. f = [z \in SUBSET (1..n) |-> IF z = {} THEN none ELSE ModeStep(f[z \ {Max(z)}], list[Max(z)])]
    BY Zenon, <2>1, <2>2 DEF FoldsBy
  <2> QED BY ZenonT(40), <1>1, <2>3
<1>7. l = g[1..n]
  BY <1>1
<1> HIDE DEF g
<1>8. g[1..0] \in Parses
  <2>1. 1..0 = {}
    OBVIOUS
  <2> QED BY <1>3, <1>6, <2>1
<1>9. ASSUME NEW i \in 1..n, g[1..(i - 1)] \in Parses PROVE g[1..i] \in Parses
  <2>1. Max(1..i) = i /\ (1..i) \ {i} = 1..(i - 1) /\ 1..i \in SUBSET (1..n) /\ 1..i # {}
    BY Zenon, <1>1, UpTo
  <2>2. g[1..i] = ModeStep(g[1..(i - 1)], list[i])
    BY Zenon, <1>6, <2>1
  <2> QED BY <1>4, <1>9, <2>2
<1>10. g[1..n] \in Parses
  BY <1>1, <1>8, <1>9, FoldIn
<1>11. l \in Parses
  BY <1>7, <1>10
<1> HIDE DEF l
<1> QED BY <1>2, <1>11 DEF Fits, Parses, Sensible

-----------------------------------------------------------------------------
(* Settings: the invariant.                                                *)

SettTypes ==
    /\ mem \in Registries /\ disk \in Registries
    /\ \A c \in Chan : Agree(disk[c], mem[c], drifted)
    /\ lockdown \in BOOLEAN /\ drifted \in BOOLEAN /\ hurried \in BOOLEAN
    /\ now \in 0..MaxNow["settings"] /\ ops \in 0..MaxOps["settings"]
    /\ born \in [Chan -> SUBSET Nat]

Rev(r, l) == IF l = "words" THEN r.wordsrev ELSE r.trigsrev
ListOf(r, l) == IF l = "words" THEN r.words ELSE r.trigs

\* A compiled list is from one of the times the channel was registered; if that
\* is the channel's, it is as late as its revision says.
Current(x, times, m, l) ==
    x # None => /\ x.rev \in Nat /\ x.ts \in times
                /\ m # None /\ m.ts = x.ts =>
                      x.rev <= Rev(m, l) /\ (x.rev = Rev(m, l) => x.list = ListOf(m, l))

Cached ==
    /\ cache = [c \in Chan |-> cache[c]]
    /\ ~hurried =>
          \A c \in Chan : /\ mem[c] # None => mem[c].ts \in born[c]
                          /\ Current(cache[c].words, born[c], mem[c], "words")
                          /\ Current(cache[c].trigs, born[c], mem[c], "trigs")

SettHolds == SettTypes /\ Cached

LEMMA CurrentKept ==
    ASSUME NEW x, NEW times, NEW a \in Wells, NEW b \in Wells, NEW l \in {"words", "trigs"}, Newer(a, b),
           Current(x, times, a, l)
    PROVE  Current(x, times, b, l)
<1>1. /\ a.wordsrev \in Nat /\ b.wordsrev \in Nat /\ a.trigsrev \in Nat /\ b.trigsrev \in Nat
      /\ a # None /\ b # None
  BY WellNumbers, WellNotNone
<1>2. Rev(a, l) \in Nat /\ Rev(b, l) \in Nat /\ Rev(b, l) >= Rev(a, l) /\ b.ts = a.ts
  BY <1>1 DEF Rev, Newer
<1>3. Rev(b, l) = Rev(a, l) => ListOf(b, l) = ListOf(a, l)
  BY <1>1 DEF Rev, ListOf, Newer
<1> QED BY <1>1, <1>2, <1>3 DEF Current

\* A command that leaves every channel where it is.
Ordinary ==
    /\ mem' \in Registries /\ disk' \in Registries /\ drifted' \in BOOLEAN
    /\ \A c \in Chan : Agree(disk'[c], mem'[c], drifted')
    /\ Onward(mem, mem')
    /\ ops' \in 0..MaxOps["settings"]
    /\ UNCHANGED <<lockdown, cache, now, born, hurried>>

LEMMA OrdinaryStep == ASSUME SettHolds, Ordinary PROVE SettHolds'
<1>1. SettTypes'
  BY DEF SettHolds, SettTypes, Ordinary
<1>2. ASSUME ~hurried, NEW c \in Chan
      PROVE  /\ mem'[c] # None => mem'[c].ts \in born[c]
             /\ Current(cache[c].words, born[c], mem'[c], "words")
             /\ Current(cache[c].trigs, born[c], mem'[c], "trigs")
  <2> DEFINE a == mem[c]
             b == mem'[c]
             w == cache[c].words
             t == cache[c].trigs
  <2>1. /\ a \in Wells \cup {None} /\ b \in Wells \cup {None} /\ (a = None <=> b = None)
        /\ a # None => Newer(a, b)
    BY DEF SettHolds, SettTypes, Ordinary, Registries, Onward
  <2>2. /\ a # None => a.ts \in born[c]
        /\ Current(w, born[c], a, "words") /\ Current(t, born[c], a, "trigs")
    BY <1>2 DEF SettHolds, Cached
  <2> HIDE DEF a, b, w, t
  <2>3. CASE a = None
    BY <2>1, <2>2, <2>3 DEF Current, a, b, w, t
  <2>4. CASE a # None
    <3>1. a \in Wells /\ b \in Wells /\ Newer(a, b)
      BY <2>1, <2>4
    <3>2. Current(w, born[c], b, "words") /\ Current(t, born[c], b, "trigs")
      BY <2>2, <3>1, CurrentKept
    <3>3. b.ts \in born[c]
      BY <2>2, <2>4, <3>1 DEF Newer
    <3> QED BY <3>2, <3>3 DEF b, w, t
  <2> QED BY <2>3, <2>4
<1>3. Cached'
  <2>1. cache' = cache /\ born' = born /\ hurried' = hurried
    BY DEF Ordinary
  <2>2. cache' = [c \in Chan |-> cache'[c]]
    BY <2>1 DEF SettHolds, Cached
  <2> QED BY <1>2, <2>1, <2>2 DEF Cached
<1> QED BY <1>1, <1>3 DEF SettHolds

LEMMA BeginSound ==
    ASSUME SettHolds, NEW fate \in Nat, NEW st, st = Sett!Begin(fate)
    PROVE  Sound(st) /\ st.reg = mem /\ st.disk = disk /\ st.drifted = drifted
BY DEF SettHolds, SettTypes, Sett!Begin, Sound, Stores

LEMMA Plainly ==
    ASSUME SettHolds, NEW s, Sound(s), Onward(mem, s.reg), NEW op, Sett!Plain(op, s)
    PROVE  Ordinary /\ mem' = s.reg
<1>1. s.reg \in Registries /\ s.disk \in Registries /\ s.drifted \in BOOLEAN /\ \A c \in Chan : Agree(s.disk[c], s.reg[c], s.drifted)
  BY SoundIs DEF Sound
<1>2. /\ ops < MaxOps["settings"] /\ ops' = ops + 1 /\ mem' = s.reg /\ disk' = s.disk /\ drifted' = s.drifted
      /\ UNCHANGED <<lockdown, cache, now, born, hurried>>
  BY DEF Sett!Plain, Sett!Done
<1>3. ops' \in 0..MaxOps["settings"]
  BY <1>2, Settled DEF SettHolds, SettTypes, SettingsAre
<1> QED BY <1>1, <1>2, <1>3 DEF Ordinary

LEMMA OutcomeCommand ==
    ASSUME SettHolds, NEW fate \in Nat, NEW st, st = Sett!Begin(fate), NEW s, Outcome(st, s),
           NEW op, Sett!Plain(op, s)
    PROVE  Ordinary
BY BeginSound, Plainly DEF Outcome

\* Whatever is stored as a whole field.
LEMMA FieldCommand ==
    ASSUME SettHolds, NEW c \in Chan, mem[c] # None, NEW f, NEW v, Fits(f, v),
           NEW op, Sett!Plain(op, Sett!set_field(Sett!Begin(0), c, f, v))
    PROVE  Ordinary
<1> DEFINE st == Sett!Begin(0)
           s == Sett!set_field(st, c, f, v)
<1>1. st = Sett!Begin(0) /\ s = Sett!set_field(st, c, f, v) /\ Sett!Plain(op, s)
  OBVIOUS
<1> HIDE DEF st, s
<1>2. Sound(st) /\ st.reg = mem
  BY <1>1, BeginSound
<1>3. Outcome(st, s)
  BY Zenon, <1>1, <1>2, FieldSet
<1> QED BY <1>1, <1>3, OutcomeCommand

-----------------------------------------------------------------------------
(* Settings: the commands.                                                 *)

LEMMA WordsCommand ==
    ASSUME SettHolds, NEW c \in Chan, mem[c] # None, NEW list \in Seq(Pattern), Named(list),
           NEW op, Sett!Plain(op, Sett!write_badwords(Sett!Begin(0), c, list))
    PROVE  Ordinary
<1> DEFINE st == Sett!Begin(0)
           s == Sett!write_badwords(st, c, list)
<1>1. st = Sett!Begin(0) /\ s = Sett!write_badwords(st, c, list) /\ Sett!Plain(op, s)
  OBVIOUS
<1> HIDE DEF st, s
<1>2. Sound(st) /\ st.reg = mem
  BY <1>1, BeginSound
<1>3. Outcome(st, s)
  BY Zenon, <1>1, <1>2, WordsSet
<1> QED BY <1>1, <1>3, OutcomeCommand

LEMMA TrigsCommand ==
    ASSUME SettHolds, NEW c \in Chan, mem[c] # None, NEW list \in Seq(Pattern), Named(list),
           NEW op, Sett!Plain(op, Sett!write_triggers(Sett!Begin(0), c, list))
    PROVE  Ordinary
<1> DEFINE st == Sett!Begin(0)
           s == Sett!write_triggers(st, c, list)
<1>1. st = Sett!Begin(0) /\ s = Sett!write_triggers(st, c, list) /\ Sett!Plain(op, s)
  OBVIOUS
<1> HIDE DEF st, s
<1>2. Sound(st) /\ st.reg = mem
  BY <1>1, BeginSound
<1>3. Outcome(st, s)
  BY Zenon, <1>1, <1>2, TrigsSet
<1> QED BY <1>1, <1>3, OutcomeCommand

LEMMA MemWell == ASSUME SettHolds, NEW c \in Chan, mem[c] # None PROVE mem[c] \in Wells
BY DEF SettHolds, SettTypes, Registries

\* Commands that set one field of a channel as a whole.
LEMMA SetStep ==
    ASSUME SettHolds, NEW c \in Chan,
           \/ \E role \in {None, "vop"} : Sett!Levels(c, role)
           \/ \E text \in {"", "t"} : Sett!Topic(c, text) \/ Sett!EntryMsg(c, text) \/ Sett!Desc(c, text)
           \/ Sett!Suspend(c) \/ Sett!Unsuspend(c)
    PROVE  Ordinary
<1>1. ASSUME NEW role \in {None, "vop"}, Sett!Levels(c, role) PROVE Ordinary
  <2>1. mem[c] # None /\ Sett!Plain("levels", Sett!set_field(Sett!Begin(0), c, "op", role))
    BY Zenon, <1>1 DEF Sett!Levels, Sett!Open, Sett!Registered, Sett!set_level
  <2>2. Fits("op", role)
    BY Zenon DEF Fits
  <2> QED BY Zenon, <2>1, <2>2, FieldCommand
<1>2. ASSUME NEW text \in {"", "t"}, Sett!Topic(c, text) PROVE Ordinary
  <2> DEFINE v == [text |-> text, by |-> "op"]
  <2>1. mem[c] # None /\ Sett!Plain("topic", Sett!set_field(Sett!Begin(0), c, "topic", v))
    BY Zenon, <1>2 DEF Sett!Topic, Sett!Open, Sett!Registered, Sett!set_topic
  <2>2. Fits("topic", v)
    BY Zenon DEF Fits
  <2> HIDE DEF v
  <2> QED BY Zenon, <2>1, <2>2, FieldCommand
<1>3. ASSUME NEW text \in {"", "t"}, NEW f \in Sett!Field, mem[c] # None,
             Sett!Plain("about", Sett!set_field(Sett!Begin(0), c, "about", [mem[c].about EXCEPT ![f] = text]))
      PROVE  Ordinary
  <2> DEFINE v == [mem[c].about EXCEPT ![f] = text]
  <2>1. mem[c].about \in [Sett!Field -> {"", "t"}]
    BY Zenon, <1>3, MemWell, WellIs
  <2>2. Fits("about", v)
    BY Zenon, <2>1 DEF Fits
  <2>3. Sett!Plain("about", Sett!set_field(Sett!Begin(0), c, "about", v))
    BY Zenon, <1>3
  <2> HIDE DEF v
  <2> QED BY Zenon, <1>3, <2>2, <2>3, FieldCommand
<1>4. ASSUME NEW text \in {"", "t"}, Sett!EntryMsg(c, text) PROVE Ordinary
  <2>1. mem[c] # None /\ Sett!Plain("about", Sett!set_field(Sett!Begin(0), c, "about", [mem[c].about EXCEPT !["entry"] = text]))
    BY Zenon, <1>4 DEF Sett!EntryMsg, Sett!Open, Sett!Registered, Sett!set_entrymsg, Sett!Begin
  <2>2. "entry" \in Sett!Field
    BY Zenon DEF Sett!Field
  <2> QED BY Zenon, <1>3, <2>1, <2>2
<1>5. ASSUME NEW text \in {"", "t"}, Sett!Desc(c, text) PROVE Ordinary
  <2>1. mem[c] # None /\ Sett!Plain("about", Sett!set_field(Sett!Begin(0), c, "about", [mem[c].about EXCEPT !["desc"] = text]))
    BY Zenon, <1>5 DEF Sett!Desc, Sett!Open, Sett!Registered, Sett!set_desc, Sett!Begin
  <2>2. "desc" \in Sett!Field
    BY Zenon DEF Sett!Field
  <2> QED BY Zenon, <1>3, <2>1, <2>2
<1>6. ASSUME Sett!Suspend(c) PROVE Ordinary
  <2>1. mem[c] # None /\ Sett!Plain("suspend", Sett!set_field(Sett!Begin(0), c, "frozen", TRUE))
    BY Zenon, <1>6 DEF Sett!Suspend, Sett!Registered, Sett!set_suspended
  <2> DEFINE v == TRUE
  <2>2. Fits("frozen", v) /\ Sett!Plain("suspend", Sett!set_field(Sett!Begin(0), c, "frozen", v))
    BY Zenon, <2>1 DEF Fits
  <2> HIDE DEF v
  <2> QED BY Zenon, <2>1, <2>2, FieldCommand
<1>7. ASSUME Sett!Unsuspend(c) PROVE Ordinary
  <2>1. mem[c] # None /\ Sett!Plain("unsuspend", Sett!set_field(Sett!Begin(0), c, "frozen", FALSE))
    BY Zenon, <1>7 DEF Sett!Unsuspend, Sett!Registered, Sett!set_suspended
  <2> DEFINE v == FALSE
  <2>2. Fits("frozen", v) /\ Sett!Plain("unsuspend", Sett!set_field(Sett!Begin(0), c, "frozen", v))
    BY Zenon, <2>1 DEF Fits
  <2> HIDE DEF v
  <2> QED BY Zenon, <2>1, <2>2, FieldCommand
<1> QED BY Zenon, <1>1, <1>2, <1>4, <1>5, <1>6, <1>7

\* An option or a kicker is changed with all the others.
LEMMA SwitchStep ==
    ASSUME SettHolds, NEW c \in Chan,
           \/ \E o \in {"noautoop", "secureops"}, given \in BOOLEAN : Sett!SetOption(c, o, given)
           \/ \E o \in {"botgreet", "nobot"}, given \in BOOLEAN : Sett!SetBotOption(c, o, given)
           \/ \E k \in Sett!Kicker, given \in BOOLEAN : Sett!SetKicker(c, k, given)
           \/ \E n \in 0..1 : Sett!SetNumber(c, n)
    PROVE  Ordinary
<1>1. ASSUME NEW o \in Sett!Option, mem[c] # None, NEW v, v = mem[c].opts \cup {o} \/ v = mem[c].opts \ {o},
             Sett!Plain("set", Sett!set_field(Sett!Begin(0), c, "opts", v))
      PROVE  Ordinary
  <2>1. mem[c].opts \in SUBSET Sett!Option
    BY Zenon, <1>1, MemWell, WellIs
  <2>2. Fits("opts", v)
    BY <1>1, <2>1 DEF Fits
  <2> QED BY <1>1, <2>2, FieldCommand
<1>2. ASSUME NEW o \in {"noautoop", "secureops"}, NEW given \in BOOLEAN, Sett!SetOption(c, o, given) PROVE Ordinary
  <2> DEFINE b == IF o = "noautoop" THEN ~given ELSE given
             v == IF b THEN mem[c].opts \cup {o} ELSE mem[c].opts \ {o}
  <2>1. mem[c] # None /\ Sett!Plain("set", Sett!set_field(Sett!Begin(0), c, "opts", v))
    BY <1>2 DEF Sett!SetOption, Sett!Open, Sett!Registered, Sett!set_channel_setting, Sett!Begin
  <2>2. v = mem[c].opts \cup {o} \/ v = mem[c].opts \ {o}
    OBVIOUS
  <2>3. o \in Sett!Option
    BY DEF Sett!Option
  <2> HIDE DEF v
  <2> QED BY <1>1, <2>1, <2>2, <2>3
<1>3. ASSUME NEW o \in {"botgreet", "nobot"}, NEW given \in BOOLEAN, Sett!SetBotOption(c, o, given) PROVE Ordinary
  <2> DEFINE v == IF given THEN mem[c].opts \cup {o} ELSE mem[c].opts \ {o}
  <2>1. mem[c] # None /\ Sett!Plain("set", Sett!set_field(Sett!Begin(0), c, "opts", v))
    BY <1>3 DEF Sett!SetBotOption, Sett!Registered, Sett!set_channel_setting, Sett!Begin
  <2>2. v = mem[c].opts \cup {o} \/ v = mem[c].opts \ {o}
    OBVIOUS
  <2>3. o \in Sett!Option
    BY DEF Sett!Option
  <2> HIDE DEF v
  <2> QED BY <1>1, <2>1, <2>2, <2>3
<1>4. mem[c] # None => mem[c].kick \in [on : SUBSET Sett!Kicker, ttb : 0..1]
  BY Zenon, MemWell, WellIs
<1>5. ASSUME NEW k \in Sett!Kicker, NEW given \in BOOLEAN, Sett!SetKicker(c, k, given) PROVE Ordinary
  <2> DEFINE v == [mem[c].kick EXCEPT !.on = IF given THEN @ \cup {k} ELSE @ \ {k}]
  <2>1. mem[c] # None /\ Sett!Plain("kick", Sett!set_field(Sett!Begin(0), c, "kick", v))
    BY <1>5 DEF Sett!SetKicker, Sett!Registered, Sett!update_kickers
  <2>2. v \in [on : SUBSET Sett!Kicker, ttb : 0..1]
    BY <1>4, <2>1
  <2> HIDE DEF v
  <2>3. Fits("kick", v)
    BY <2>2 DEF Fits
  <2> QED BY <2>1, <2>3, FieldCommand
<1>6. ASSUME NEW n \in 0..1, Sett!SetNumber(c, n) PROVE Ordinary
  <2> DEFINE v == [mem[c].kick EXCEPT !.ttb = n]
  <2>1. mem[c] # None /\ Sett!Plain("kick", Sett!set_field(Sett!Begin(0), c, "kick", v))
    BY <1>6 DEF Sett!SetNumber, Sett!Registered, Sett!update_kickers
  <2>2. v \in [on : SUBSET Sett!Kicker, ttb : 0..1]
    BY <1>4, <2>1
  <2> HIDE DEF v
  <2>3. Fits("kick", v)
    BY <2>2 DEF Fits
  <2> QED BY <2>1, <2>3, FieldCommand
<1> QED BY <1>2, <1>3, <1>5, <1>6

\* The lists of patterns.
LEMMA ListStep ==
    ASSUME SettHolds, NEW c \in Chan, Sett!Badwords(c) \/ Sett!Trigger(c)
    PROVE  Ordinary
<1>1. Named(<<>>) /\ <<>> \in Seq(Pattern)
  BY DEF Named
<1>2. mem[c] # None => /\ mem[c].words \in Seq(Pattern) /\ Named(mem[c].words)
                       /\ mem[c].trigs \in Seq(Pattern) /\ Named(mem[c].trigs)
  BY MemWell, WellLists
<1>3. ASSUME NEW p \in Pattern, Sett!BadwordAdd(c, p) PROVE Ordinary
  <2> DEFINE w == mem[c].words
             v == Append(w, p)
  <2>1. mem[c] # None /\ Sett!Plain("badwords", Sett!write_badwords(Sett!Begin(0), c, v)) /\ ~Sett!Contains(w, p)
    BY <1>3 DEF Sett!BadwordAdd, Sett!Registered
  <2>2. w \in Seq(Pattern) /\ Named(w)
    BY <1>2, <2>1
  <2> HIDE DEF w
  <2>3. v \in Seq(Pattern) /\ Named(v)
    BY <2>1, <2>2, ContainsIs, NamedAppend
  <2> HIDE DEF v
  <2> QED BY <2>1, <2>3, WordsCommand
<1>4. ASSUME NEW p \in Pattern, Sett!BadwordDel(c, p) PROVE Ordinary
  <2> DEFINE w == mem[c].words
             v == Sett!Without(w, p)
  <2>1. mem[c] # None /\ Sett!Plain("badwords", Sett!write_badwords(Sett!Begin(0), c, v))
    BY <1>4 DEF Sett!BadwordDel, Sett!Registered
  <2>2. w \in Seq(Pattern) /\ Named(w)
    BY <1>2, <2>1
  <2> HIDE DEF w
  <2>3. v \in Seq(Pattern) /\ Named(v)
    BY <2>2, WithoutIs DEF Filtered
  <2> HIDE DEF v
  <2> QED BY <2>1, <2>3, WordsCommand
<1>5. ASSUME Sett!BadwordClear(c) PROVE Ordinary
  <2>1. mem[c] # None /\ Sett!Plain("badwords", Sett!write_badwords(Sett!Begin(0), c, <<>>))
    BY <1>5 DEF Sett!BadwordClear, Sett!Registered
  <2> QED BY Zenon, <1>1, <2>1, WordsCommand
<1>6. ASSUME NEW p \in Pattern, Sett!TriggerAdd(c, p) PROVE Ordinary
  <2> DEFINE w == mem[c].trigs
             v == Append(w, p)
  <2>1. mem[c] # None /\ Sett!Plain("trigger", Sett!write_triggers(Sett!Begin(0), c, v)) /\ ~Sett!Contains(w, p)
    BY <1>6 DEF Sett!TriggerAdd, Sett!Registered
  <2>2. w \in Seq(Pattern) /\ Named(w)
    BY <1>2, <2>1
  <2> HIDE DEF w
  <2>3. v \in Seq(Pattern) /\ Named(v)
    BY <2>1, <2>2, ContainsIs, NamedAppend
  <2> HIDE DEF v
  <2> QED BY <2>1, <2>3, TrigsCommand
<1>7. ASSUME NEW i, Sett!TriggerDel(c, i) PROVE Ordinary
  <2> DEFINE w == mem[c].trigs
             v == Sett!RemoveAt(w, i)
  <2>1. mem[c] # None /\ Sett!Plain("trigger", Sett!write_triggers(Sett!Begin(0), c, v)) /\ i \in DOMAIN w
    BY <1>7 DEF Sett!TriggerDel, Sett!Registered
  <2>2. w \in Seq(Pattern) /\ Named(w) /\ i \in 1..Len(w)
    BY <1>2, <2>1
  <2> HIDE DEF w
  <2>3. v \in Seq(Pattern) /\ Named(v)
    BY <2>2, NamedRemove
  <2> HIDE DEF v
  <2> QED BY <2>1, <2>3, TrigsCommand
<1>8. ASSUME Sett!TriggerClear(c) PROVE Ordinary
  <2>1. mem[c] # None /\ Sett!Plain("trigger", Sett!write_triggers(Sett!Begin(0), c, <<>>))
    BY <1>8 DEF Sett!TriggerClear, Sett!Registered
  <2> QED BY Zenon, <1>1, <2>1, TrigsCommand
<1> QED BY <1>3, <1>4, <1>5, <1>6, <1>7, <1>8 DEF Sett!Badwords, Sett!Trigger

\* Commands of several store calls end where the calls take the store.
LEMMA FollowsCommand ==
    ASSUME SettHolds, NEW fate \in Nat, NEW st, st = Sett!Begin(fate), NEW s, Follows(st, s),
           NEW x, Sound(x), x.reg = s.reg, NEW op, Sett!Plain(op, x)
    PROVE  Ordinary
<1>1. Onward(mem, x.reg)
  BY BeginSound DEF Follows
<1> QED BY <1>1, Plainly

LEMMA SaidDone ==
    ASSUME NEW s, Sound(s), NEW x, x = [s EXCEPT !.ok = TRUE]
    PROVE  Sound(x) /\ x.reg = s.reg
BY Zenon, OkSet

LEMMA AkickStep ==
    ASSUME SettHolds, NEW c \in Chan, Sett!Akick(c)
    PROVE  Ordinary
<1> DEFINE st(fate) == Sett!Begin(fate)
<1>1. ASSUME NEW fate \in Nat PROVE st(fate) = Sett!Begin(fate) /\ Sound(st(fate)) /\ st(fate).reg = mem
  BY BeginSound
<1> HIDE DEF st
<1>2. ASSUME NEW m \in Mask, Sett!AkickAdd(c, m) PROVE Ordinary
  <2> DEFINE s == Sett!akick_add(st(0), c, m)
  <2>1. mem[c] # None /\ Sett!Plain("akick", s) /\ s = Sett!akick_add(st(0), c, m)
    BY <1>1, <1>2 DEF Sett!AkickAdd, Sett!Open, Sett!Registered
  <2> HIDE DEF s
  <2>2. Outcome(st(0), s)
    BY <1>1, <2>1, AkickAdded
  <2> QED BY <1>1, <2>1, <2>2, OutcomeCommand
<1>3. ASSUME NEW m \in Mask, Sett!AkickDel(c, m) PROVE Ordinary
  <2> DEFINE s == Sett!akick_del(st(0), c, m)
  <2>1. mem[c] # None /\ Sett!Plain("akick del", s) /\ s = Sett!akick_del(st(0), c, m)
    BY Zenon, <1>1, <1>3 DEF Sett!AkickDel, Sett!Open, Sett!Registered
  <2> HIDE DEF s
  <2>2. Outcome(st(0), s)
    BY Zenon, <1>1, <2>1, AkickGone
  <2> QED BY Zenon, <1>1, <2>1, <2>2, OutcomeCommand
<1>4. ASSUME NEW fate \in 0..2, Sett!AkickClear(c, fate) PROVE Ordinary
  <2> DEFINE l == mem[c].akick
             b == Sett!Begin(fate)
             s == Sett!akick_clear(b, c, l)
             x == [s EXCEPT !.ok = TRUE]
  <2>1. mem[c] # None /\ Sett!Plain("akick clear", x)
    BY Zenon, <1>4 DEF Sett!AkickClear, Sett!Open, Sett!Registered
  <2>2. b = Sett!Begin(fate) /\ s = Sett!akick_clear(b, c, l)
    OBVIOUS
  <2>6. x = [s EXCEPT !.ok = TRUE]
    OBVIOUS
  <2>3. l \in Seq(Mask)
    BY Zenon, <2>1, MemWell, WellLists
  <2> HIDE DEF b, s, l, x
  <2>4. Sound(b) /\ b.reg = mem
    BY <2>2, BeginSound
  <2>5. Follows(b, s)
    BY Zenon, <2>1, <2>2, <2>3, <2>4, ClearIs
  <2>7. Sound(x) /\ x.reg = s.reg
    BY <2>5, <2>6, SaidDone DEF Follows
  <2>8. fate \in Nat
    OBVIOUS
  <2> QED BY Zenon, <2>1, <2>2, <2>5, <2>7, <2>8, FollowsCommand
<1> QED BY <1>2, <1>3, <1>4 DEF Sett!Akick

LEMMA LockStep ==
    ASSUME SettHolds, NEW c \in Chan, NEW modes_ \in Sett!Specs, NEW values \in 0..1, Sett!Mlock(c, modes_, values)
    PROVE  Ordinary
<1> DEFINE v == Sett!parse_mlock(modes_, values)
<1>1. mem[c] # None /\ Sett!Plain("mlock", Sett!set_field(Sett!Begin(0), c, "lock", v))
  BY DEF Sett!Mlock, Sett!Open, Sett!Registered, Sett!set_mlock
<1>2. modes_ \in Seq({"+", "-"} \X {"n", "f", "r"})
  <2> DEFINE T == {"+", "-"} \X {"n", "f", "r"}
  <2>1. /\ <<"+", "n">> \in T /\ <<"-", "n">> \in T /\ <<"+", "f">> \in T /\ <<"-", "f">> \in T
        /\ <<"+", "r">> \in T
    OBVIOUS
  <2> HIDE DEF T
  <2>2. \A a, b \in T : <<a, b>> \in Seq(T)
    OBVIOUS
  <2>3. \A a, b, d \in T : <<a, b, d>> \in Seq(T)
    OBVIOUS
  <2>4. modes_ \in Seq(T)
    BY Zenon, <2>1, <2>2, <2>3 DEF Sett!Specs
  <2> QED BY <2>4 DEF T
<1>3. Fits("lock", v)
  BY <1>2, ParseIs
<1> HIDE DEF v
<1> QED BY <1>1, <1>3, FieldCommand

\* SET SIGNKICK: two options.
LEMMA SignStep ==
    ASSUME SettHolds, NEW c \in Chan, NEW given \in BOOLEAN, NEW level \in BOOLEAN, NEW fate \in 0..2,
           Sett!SetSignKick(c, given, level, fate)
    PROVE  Ordinary
<1> DEFINE st == Sett!Begin(fate)
           v == IF given THEN st.reg[c].opts \cup {"signkick"} ELSE st.reg[c].opts \ {"signkick"}
           s1 == Sett!set_field(st, c, "opts", v)
           w == IF level THEN s1.reg[c].opts \cup {"signlevel"} ELSE s1.reg[c].opts \ {"signlevel"}
           s2 == Sett!set_field(s1, c, "opts", w)
<1>1. mem[c] # None /\ Sett!Plain("signkick", s2)
  BY DEF Sett!SetSignKick, Sett!Open, Sett!Registered, Sett!set_channel_setting
<1>2. /\ v = st.reg[c].opts \cup {"signkick"} \/ v = st.reg[c].opts \ {"signkick"}
      /\ w = s1.reg[c].opts \cup {"signlevel"} \/ w = s1.reg[c].opts \ {"signlevel"}
      /\ "signkick" \in Sett!Option /\ "signlevel" \in Sett!Option
  BY DEF Sett!Option
<1>3. st = Sett!Begin(fate) /\ s1 = Sett!set_field(st, c, "opts", v) /\ s2 = Sett!set_field(s1, c, "opts", w)
  OBVIOUS
<1> HIDE DEF st, v, s1, w, s2
<1>4. Sound(st) /\ st.reg = mem
  BY <1>3, BeginSound
<1>5. Follows(st, s1) /\ s1.reg[c] # None
  BY <1>1, <1>2, <1>3, <1>4, OptionSet
<1>6. Follows(s1, s2)
  BY <1>2, <1>3, <1>5, OptionSet DEF Follows
<1>7. Follows(st, s2)
  BY <1>4, <1>5, <1>6, FollowsOn
<1>8. Sound(s2) /\ Onward(mem, s2.reg)
  BY <1>4, <1>7 DEF Follows
<1> QED BY <1>1, <1>8, Plainly

LEMMA NoteStep ==
    ASSUME SettHolds, NEW c \in Chan, NEW text \in {"", "t"}, Sett!Note(c, text)
    PROVE  Ordinary
<1> DEFINE st == Sett!Begin(0)
           s == Sett!set_channel_note(st, c, text)
<1>1. mem[c] # None /\ Sett!Plain("note", s)
  BY Zenon DEF Sett!Note, Sett!Registered
<1>2. st = Sett!Begin(0) /\ s = Sett!set_channel_note(st, c, text)
  BY Zenon
<1> HIDE DEF st, s
<1>3. Sound(st) /\ st.reg = mem
  BY Zenon, <1>2, BeginSound
<1>4. Sound(s) /\ Onward(mem, s.reg)
  BY Zenon, <1>1, <1>2, <1>3, NoteSet
<1> QED BY <1>1, <1>4, Plainly

\* COPY: its four calls.
LEMMA CopyStep ==
    ASSUME SettHolds, NEW src \in Chan, NEW dst \in Chan, NEW fate \in 0..4, Sett!Copy(src, dst, fate)
    PROVE  Ordinary /\ (copied' => Sett!Config(mem'[dst]) = Sett!Config(mem[src]))
<1> DEFINE st == Sett!Begin(fate)
           s == Sett!copy_bot_config(st, src, dst)
<1>1. mem[src] # None /\ mem[dst] # None /\ Sett!Plain("copy", s)
  BY DEF Sett!Copy, Sett!Registered
<1>2. st = Sett!Begin(fate) /\ s = Sett!copy_bot_config(st, src, dst)
  OBVIOUS
<1> HIDE DEF st, s
<1>3. Sound(st) /\ st.reg = mem
  BY <1>2, BeginSound
<1>4. Follows(st, s) /\ (s.ok => Sett!Config(s.reg[dst]) = Sett!Config(mem[src]))
  BY <1>1, <1>2, <1>3, CopyIs
<1>5. Sound(s) /\ Onward(mem, s.reg)
  BY <1>3, <1>4 DEF Follows
<1>6. Ordinary /\ mem' = s.reg
  BY <1>1, <1>5, Plainly
<1>7. copied' => s.ok
  BY Zenon, <1>1 DEF Sett!Plain, Sett!Done
<1> QED BY <1>4, <1>6, <1>7

LEMMA Copied == SettHolds => Sett!CopiedIsCopied
BY CopyStep DEF Sett!CopiedIsCopied

\* CLONE: its calls one after the other, whatever becomes of each.
LEMMA CloneStep ==
    ASSUME SettHolds, NEW src \in Chan, NEW dst \in Chan, NEW fate \in 0..4, Sett!Clone(src, dst, fate)
    PROVE  Ordinary
<1> DEFINE r == mem[src]
           st == Sett!Begin(fate)
           s1 == Sett!set_field(st, dst, "lock", r.lock)
           s2 == Sett!akick_copy(s1, dst, r.akick)
           v == [s2.reg[dst].about EXCEPT !["desc"] = r.about["desc"]]
           s3 == Sett!set_field(s2, dst, "about", v)
           w == [s3.reg[dst].about EXCEPT !["entry"] = r.about["entry"]]
           s4 == Sett!set_field(s3, dst, "about", w)
           x == [s4 EXCEPT !.ok = TRUE]
<1>1. mem[src] # None /\ mem[dst] # None /\ Sett!Plain("clone", x)
  BY Zenon DEF Sett!Clone, Sett!Registered, Sett!set_mlock, Sett!set_desc, Sett!set_entrymsg
<1>2. /\ r.akick \in Seq(Mask) /\ r.about \in [Sett!Field -> {"", "t"}]
      /\ r.lock \in [on : SUBSET Sett!Mode, off : SUBSET Sett!Mode, given : SUBSET {"f"}] /\ Sensible(r.lock)
  <2>1. r \in Wells
    BY Zenon, <1>1, MemWell
  <2> HIDE DEF r
  <2> QED BY Zenon, <2>1, WellIs
<1>3. /\ st = Sett!Begin(fate) /\ s1 = Sett!set_field(st, dst, "lock", r.lock)
      /\ s2 = Sett!akick_copy(s1, dst, r.akick)
      /\ v = [s2.reg[dst].about EXCEPT !["desc"] = r.about["desc"]]
      /\ s3 = Sett!set_field(s2, dst, "about", v)
      /\ w = [s3.reg[dst].about EXCEPT !["entry"] = r.about["entry"]]
      /\ s4 = Sett!set_field(s3, dst, "about", w)
  OBVIOUS
<1>4. Fits("lock", r.lock)
  BY Zenon, <1>2 DEF Fits
<1>16. /\ st = Sett!Begin(fate) /\ s1 = Sett!set_field(st, dst, "lock", r.lock) /\ s2 = Sett!akick_copy(s1, dst, r.akick)
       /\ s3 = Sett!set_field(s2, dst, "about", v) /\ s4 = Sett!set_field(s3, dst, "about", w)
  BY <1>3
<1>17. x = [s4 EXCEPT !.ok = TRUE]
  OBVIOUS
<1> HIDE DEF r, st, s1, s2, v, s3, w, s4, x
<1>5. Sound(st) /\ st.reg = mem
  BY <1>16, BeginSound
<1>6. Follows(st, s1) /\ s1.reg[dst] # None /\ Sound(s1)
  BY <1>1, <1>16, <1>4, <1>5, FieldSetIs DEF Follows
<1>7. Follows(s1, s2) /\ Sound(s2)
  <2> DEFINE l == r.akick
  <2>1. l \in Seq(Mask) /\ s2 = Sett!akick_copy(s1, dst, l)
    BY Zenon, <1>2, <1>16
  <2> HIDE DEF l
  <2>2. Follows(s1, s2)
    BY <1>6, <2>1, CloneIs
  <2> QED BY <2>2 DEF Follows
<1>8. s2.reg[dst] # None
  BY <1>6, <1>7, FollowsThere
<1>9. Fits("about", v)
  <2>1. s2.reg[dst].about \in [Sett!Field -> {"", "t"}]
    BY Zenon, <1>7, <1>8, SoundIs, WellIs
  <2> QED BY Zenon, <1>2, <1>3, <2>1 DEF Fits, Sett!Field
<1>10. Follows(s2, s3) /\ s3.reg[dst] # None /\ Sound(s3)
  BY <1>16, <1>7, <1>8, <1>9, FieldSetIs DEF Follows
<1>11. Fits("about", w)
  <2>1. s3.reg[dst].about \in [Sett!Field -> {"", "t"}]
    BY Zenon, <1>10, SoundIs, WellIs
  <2> QED BY Zenon, <1>2, <1>3, <2>1 DEF Fits, Sett!Field
<1>12. Follows(s3, s4)
  BY <1>16, <1>10, <1>11, FieldSetIs
<1>13. Follows(st, s2)
  BY <1>5, <1>6, <1>7, FollowsOn
<1>14. Follows(st, s3)
  BY <1>5, <1>10, <1>13, FollowsOn
<1>15. Follows(st, s4)
  BY <1>5, <1>12, <1>14, FollowsOn
<1>18. Sound(x) /\ x.reg = s4.reg
  BY <1>15, <1>17, SaidDone DEF Follows
<1> QED BY <1>1, <1>16, <1>15, <1>18, FollowsCommand

-----------------------------------------------------------------------------
(* Settings: channels that come and go, and the node.                      *)

LEMMA FieldsMake ==
    ASSUME NEW r, r = [g \in RecFields |-> r[g]],
           r.ts \in Nat /\ r.wordsrev \in Nat /\ r.trigsrev \in Nat,
           r.lock \in [on : SUBSET Sett!Mode, off : SUBSET Sett!Mode, given : SUBSET {"f"}],
           r.akick \in Seq(Mask) /\ r.words \in Seq(Pattern) /\ r.trigs \in Seq(Pattern),
           r.op \in {None, "vop"} /\ r.note \in {"", "t"}, r.frozen \in BOOLEAN,
           r.about \in [Sett!Field -> {"", "t"}], r.topic \in [text : {"", "t"}, by : {"", "op"}],
           r.opts \in SUBSET Sett!Option, r.kick \in [on : SUBSET Sett!Kicker, ttb : 0..1]
    PROVE  r \in Sett!Rec
<1>1. ASSUME NEW g \in RecFields PROVE Suits(g, r[g])
  <2>1. CASE g \in {"ts", "wordsrev", "trigsrev"}
    BY Zenon, <2>1 DEF Suits
  <2>2. CASE g \in {"lock", "about", "topic", "kick", "opts"}
    BY Zenon, <2>2 DEF Suits
  <2>3. CASE g \in {"akick", "words", "trigs"}
    BY Zenon, <2>3 DEF Suits
  <2>4. CASE g \in {"op", "note"}
    BY Zenon, <2>4 DEF Suits
  <2>5. CASE g = "frozen"
    BY Zenon, <2>5 DEF Suits
  <2> QED BY Zenon, <2>1, <2>2, <2>3, <2>4, <2>5 DEF RecFields
<1> QED BY Zenon, <1>1, RecIs

LEMMA FreshIs ==
    ASSUME NEW ts \in Nat, ts <= MaxNow["settings"], NEW r, r = Sett!Fresh(ts)
    PROVE  r \in Wells /\ r.ts = ts
<1>1. <<>> \in Seq(Mask) /\ <<>> \in Seq(Pattern) /\ Named(<<>>) /\ Len(<<>>) = 0
  BY DEF Named
<1>2. r.ts = ts /\ r.words = <<>> /\ r.trigs = <<>> /\ r.akick = <<>> /\ r.lock = [on |-> {}, off |-> {}, given |-> {}]
  BY Zenon DEF Sett!Fresh
<1>3. r \in Sett!Rec
  <2>1. r = [g \in RecFields |-> r[g]]
    BY Zenon DEF Sett!Fresh, RecFields
  <2>2. r.lock \in [on : SUBSET Sett!Mode, off : SUBSET Sett!Mode, given : SUBSET {"f"}]
    BY <1>2
  <2>3. r.about \in [Sett!Field -> {"", "t"}] /\ r.topic \in [text : {"", "t"}, by : {"", "op"}]
    BY Zenon DEF Sett!Fresh
  <2>4. r.kick \in [on : SUBSET Sett!Kicker, ttb : 0..1] /\ r.opts \in SUBSET Sett!Option
    <3>1. r.kick = [on |-> {}, ttb |-> 0] /\ r.opts = {}
      BY Zenon DEF Sett!Fresh
    <3>2. {} \in SUBSET Sett!Kicker /\ 0 \in 0..1 /\ {} \in SUBSET Sett!Option
      OBVIOUS
    <3> QED BY <3>1, <3>2
  <2>5. r.wordsrev \in Nat /\ r.trigsrev \in Nat /\ r.ts \in Nat
    <3>1. r.wordsrev = 0 /\ r.trigsrev = 0 /\ r.ts = ts
      BY Zenon DEF Sett!Fresh
    <3> QED BY ONLY <3>1, ts \in Nat
  <2>9. r.op = None /\ r.note = ""
    BY Zenon DEF Sett!Fresh
  <2>8. r.frozen \in BOOLEAN
    BY Zenon DEF Sett!Fresh
  <2>6. r.akick \in Seq(Mask) /\ r.words \in Seq(Pattern) /\ r.trigs \in Seq(Pattern)
    BY <1>1, <1>2
  <2> QED BY Zenon, <2>1, <2>2, <2>3, <2>4, <2>5, <2>6, <2>8, <2>9, FieldsMake
<1>4. Sensible(r.lock)
  BY <1>2 DEF Sensible
<1>5. Named(r.words) /\ Named(r.trigs) /\ Named(r.akick) /\ Len(r.akick) <= MaxList
  BY <1>1, <1>2, Settled DEF SettingsAre
<1> QED BY <1>2, <1>3, <1>4, <1>5 DEF Wells

LEMMA AgreeSame == \A r, lax : Agree(r, r, lax)
BY DEF Agree

\* A name that is given up, or taken with a time of registration.
LEMMA PlaceStep ==
    ASSUME SettHolds, mem' \in Registries, disk' \in Registries, UNCHANGED <<lockdown, cache, now, drifted>>,
           ops' \in 0..MaxOps["settings"], born' \in [Chan -> SUBSET Nat], hurried' \in BOOLEAN,
           hurried => hurried',
           \A c \in Chan : Agree(disk'[c], mem'[c], drifted),
           \A c \in Chan : \/ born'[c] = born[c] /\ (mem'[c] = mem[c] \/ mem'[c] = None)
                           \/ /\ mem'[c] # None /\ born'[c] = born[c] \cup {mem'[c].ts}
                              /\ mem'[c].ts \in born[c] => hurried'
    PROVE  SettHolds'
<1>1. SettTypes'
  BY DEF SettHolds, SettTypes
<1>2. ASSUME ~hurried', NEW c \in Chan
      PROVE  /\ mem'[c] # None => mem'[c].ts \in born'[c]
             /\ Current(cache[c].words, born'[c], mem'[c], "words")
             /\ Current(cache[c].trigs, born'[c], mem'[c], "trigs")
  <2> DEFINE w == cache[c].words
             t == cache[c].trigs
  <2>1. /\ mem[c] # None => mem[c].ts \in born[c]
        /\ Current(w, born[c], mem[c], "words") /\ Current(t, born[c], mem[c], "trigs")
    BY <1>2 DEF SettHolds, Cached
  <2> HIDE DEF w, t
  <2>2. CASE born'[c] = born[c] /\ (mem'[c] = mem[c] \/ mem'[c] = None)
    BY <2>1, <2>2 DEF Current, w, t
  <2>3. CASE /\ mem'[c] # None /\ born'[c] = born[c] \cup {mem'[c].ts}
             /\ mem'[c].ts \in born[c] => hurried'
    <3>1. mem'[c].ts \notin born[c]
      BY <1>2, <2>3
    <3>2. Current(w, born'[c], mem'[c], "words") /\ Current(t, born'[c], mem'[c], "trigs")
      BY <2>1, <2>3, <3>1 DEF Current
    <3> QED BY <2>3, <3>2 DEF w, t
  <2> QED BY <2>2, <2>3
<1>3. cache' = cache /\ cache' = [c \in Chan |-> cache'[c]]
  BY DEF SettHolds, Cached
<1>4. Cached'
  BY <1>2, <1>3 DEF Cached
<1> QED BY <1>1, <1>4 DEF SettHolds

LEMMA Stored ==
    ASSUME SettHolds, NEW e, NEW becomes, NEW s, s = Sett!Strict(Sett!Begin(0), e, becomes), ~lockdown
    PROVE  s.reg = becomes /\ s.disk = Sett!apply(disk, e) /\ s.drifted = drifted
<1> DEFINE st == Sett!Begin(0)
<1>1. st = Sett!Begin(0) /\ st.fate = 0 /\ ~Sett!Refused(st) /\ s = Sett!Strict(st, e, becomes)
  BY DEF Sett!Begin, Sett!Refused
<1> HIDE DEF st
<1>2. st \in Stores /\ st.disk = disk /\ st.drifted = drifted
  BY <1>1, BeginSound, SoundIs
<1> QED BY <1>1, <1>2, StrictIs

LEMMA DoneIs ==
    ASSUME SettHolds, NEW op, NEW s, Sett!Done(op, s)
    PROVE  /\ mem' = s.reg /\ disk' = s.disk /\ drifted' = s.drifted /\ ops' \in 0..MaxOps["settings"]
           /\ UNCHANGED <<lockdown, cache, now>>
BY Settled DEF Sett!Done, SettHolds, SettTypes, SettingsAre

LEMMA RegisterStep ==
    ASSUME SettHolds, NEW c \in Chan, Sett!Register(c)
    PROVE  SettHolds'
<1> DEFINE r == Sett!Fresh(now)
           e == Sett!Ev(c, "registered", now)
           b == [mem EXCEPT ![c] = r]
           s == Sett!Strict(Sett!Begin(0), e, b)
<1>1. mem[c] = None /\ ~lockdown /\ Sett!Done("register", s) /\ Sett!Dated(c, now)
  BY DEF Sett!Register, Sett!Registered
<1>2. s = Sett!Strict(Sett!Begin(0), e, b) /\ b = [mem EXCEPT ![c] = r] /\ r = Sett!Fresh(now)
  OBVIOUS
<1>3. Sett!apply(disk, e) = [disk EXCEPT ![c] = r]
  BY DEF Sett!apply, Sett!Ev
<1> HIDE DEF r, e, s, b
<1>4. r \in Wells /\ r.ts = now /\ r # None
  BY <1>2, FreshIs, WellNotNone, Settled DEF SettHolds, SettTypes, SettingsAre
<1>5. /\ mem' = [mem EXCEPT ![c] = r] /\ disk' = [disk EXCEPT ![c] = r] /\ drifted' = drifted
      /\ ops' \in 0..MaxOps["settings"] /\ UNCHANGED <<lockdown, cache, now>>
  <2>1. s.reg = [mem EXCEPT ![c] = r] /\ s.disk = [disk EXCEPT ![c] = r] /\ s.drifted = drifted
    <3>1. SettHolds /\ ~lockdown /\ s = Sett!Strict(Sett!Begin(0), e, b)
      BY <1>1, <1>2
    <3>2. s.reg = b /\ s.disk = Sett!apply(disk, e) /\ s.drifted = drifted
      BY ONLY <3>1, Stored
    <3> QED BY <1>2, <1>3, <3>2
  <2> QED BY Zenon, <1>1, <2>1, DoneIs
<1>6. /\ born' = [born EXCEPT ![c] = @ \cup {now}] /\ hurried' = (hurried \/ now \in born[c])
      /\ born \in [Chan -> SUBSET Nat] /\ now \in Nat /\ hurried \in BOOLEAN
  BY <1>1, Settled DEF Sett!Dated, SettHolds, SettTypes, SettingsAre
<1>7. mem' \in Registries /\ disk' \in Registries
  BY <1>4, <1>5 DEF SettHolds, SettTypes, Registries
<1>8. ASSUME NEW k \in Chan
      PROVE /\ Agree(disk'[k], mem'[k], drifted)
            /\ \/ born'[k] = born[k] /\ (mem'[k] = mem[k] \/ mem'[k] = None)
               \/ /\ mem'[k] # None /\ born'[k] = born[k] \cup {mem'[k].ts}
                  /\ mem'[k].ts \in born[k] => hurried'
  <2>1. mem \in Registries /\ disk \in Registries /\ Agree(disk[k], mem[k], drifted)
    BY DEF SettHolds, SettTypes
  <2>2. CASE k = c
    <3>1. mem'[k] = r /\ disk'[k] = r /\ born'[k] = born[k] \cup {now}
      BY <1>5, <1>6, <2>1, <2>2 DEF Registries
    <3>2. now \in born[k] => hurried'
      BY Zenon, <1>6, <2>2
    <3> QED BY <1>4, <3>1, <3>2, AgreeSame
  <2>3. CASE k # c
    BY <1>5, <1>6, <2>1, <2>3 DEF Registries
  <2> QED BY <2>2, <2>3
<1>9. born' \in [Chan -> SUBSET Nat] /\ hurried' \in BOOLEAN /\ (hurried => hurried')
  BY <1>6
<1> QED BY <1>5, <1>7, <1>8, <1>9, PlaceStep

LEMMA DropStep ==
    ASSUME SettHolds, NEW c \in Chan, Sett!DropChannel(c)
    PROVE  SettHolds'
<1> DEFINE st == Sett!Begin(0)
           e == Sett!Ev(c, "dropped", now)
           b == [mem EXCEPT ![c] = None]
           s == Sett!Strict(st, e, b)
<1>1. Sett!Done("drop", s) /\ UNCHANGED <<born, hurried>>
  BY DEF Sett!DropChannel, Sett!Plain
<1>2. s = Sett!Strict(st, e, b) /\ b = [mem EXCEPT ![c] = None] /\ st = Sett!Begin(0)
  OBVIOUS
<1>3. Sett!apply(disk, e) = [disk EXCEPT ![c] = None]
  BY DEF Sett!apply, Sett!Ev
<1> HIDE DEF e, s, b, st
<1>4. st \in Stores /\ st.reg = mem /\ st.disk = disk /\ st.drifted = drifted
  BY <1>2, BeginSound, SoundIs
<1>5. /\ s.drifted = drifted
      /\ \/ s.reg = mem /\ s.disk = disk
         \/ s.reg = b /\ s.disk = [disk EXCEPT ![c] = None]
  <2>1. st \in Stores /\ s = Sett!Strict(st, e, b)
    BY <1>2, <1>4
  <2>2. s.ok \in BOOLEAN /\ s.drifted = st.drifted
    BY ONLY <2>1, StrictIs
  <2>3. s.ok => s.reg = b /\ s.disk = Sett!apply(st.disk, e)
    BY ONLY <2>1, StrictIs
  <2>4. ~s.ok => s.reg = st.reg /\ s.disk = st.disk
    BY ONLY <2>1, StrictIs
  <2> QED BY Zenon, <1>3, <1>4, <2>2, <2>3, <2>4
<1>6. /\ mem' = s.reg /\ disk' = s.disk /\ drifted' = drifted
      /\ ops' \in 0..MaxOps["settings"] /\ UNCHANGED <<lockdown, cache, now>>
  BY Zenon, <1>1, <1>5, DoneIs
<1>7. mem' \in Registries /\ disk' \in Registries
  BY Zenon, <1>2, <1>5, <1>6 DEF SettHolds, SettTypes, Registries
<1>8. ASSUME NEW k \in Chan
      PROVE Agree(disk'[k], mem'[k], drifted) /\ (mem'[k] = mem[k] \/ mem'[k] = None)
  <2>1. mem \in Registries /\ disk \in Registries /\ Agree(disk[k], mem[k], drifted)
    BY DEF SettHolds, SettTypes
  <2>2. CASE s.reg = mem /\ s.disk = disk
    BY <1>6, <2>1, <2>2
  <2>3. CASE s.reg = b /\ s.disk = [disk EXCEPT ![c] = None]
    <3>1. CASE k = c
      <4>1. mem'[k] = None /\ disk'[k] = None
        BY <1>2, <1>6, <2>1, <2>3, <3>1 DEF Registries
      <4> QED BY <4>1, AgreeSame
    <3>2. CASE k # c
      BY <1>2, <1>6, <2>1, <2>3, <3>2 DEF Registries
    <3> QED BY <3>1, <3>2
  <2> QED BY <1>5, <2>2, <2>3
<1>9. born' = born /\ hurried' = hurried /\ born \in [Chan -> SUBSET Nat] /\ hurried \in BOOLEAN
  BY <1>1 DEF SettHolds, SettTypes
<1> QED BY <1>6, <1>7, <1>8, <1>9, PlaceStep

LEMMA RenameStep ==
    ASSUME SettHolds, NEW c \in Chan, NEW new \in Chan, Sett!Rename(c, new)
    PROVE  SettHolds'
<1> DEFINE e == Sett!Ev(c, "renamed", new)
           b == [mem EXCEPT ![c] = None, ![new] = mem[c]]
           s == Sett!Strict(Sett!Begin(0), e, b)
<1>1. mem[c] # None /\ mem[new] = None /\ ~lockdown /\ Sett!Done("rename", s) /\ Sett!Dated(new, mem[c].ts)
  BY DEF Sett!Rename, Sett!Open, Sett!Registered
<1>2. s = Sett!Strict(Sett!Begin(0), e, b) /\ b = [mem EXCEPT ![c] = None, ![new] = mem[c]] /\ c # new
  BY <1>1
<1>3. /\ mem \in Registries /\ disk \in Registries /\ \A k \in Chan : Agree(disk[k], mem[k], drifted)
      /\ born \in [Chan -> SUBSET Nat] /\ hurried \in BOOLEAN
  BY DEF SettHolds, SettTypes
<1>4. disk[c] # None /\ disk[c] \in Wells /\ mem[c] \in Wells /\ mem[c].ts \in Nat
  <2>1. disk[c] # None /\ disk[c] \in Wells /\ mem[c] \in Wells
    BY ZenonT(40), <1>1, <1>3 DEF Agree, Registries
  <2> QED BY <2>1, WellNumbers
<1>5. Sett!apply(disk, e) = [disk EXCEPT ![c] = None, ![new] = disk[c]]
  BY <1>4 DEF Sett!apply, Sett!Ev
<1> HIDE DEF e, s, b
<1>6. /\ mem' = b /\ disk' = [disk EXCEPT ![c] = None, ![new] = disk[c]] /\ drifted' = drifted
      /\ ops' \in 0..MaxOps["settings"] /\ UNCHANGED <<lockdown, cache, now>>
  <2>1. s.reg = b /\ s.disk = [disk EXCEPT ![c] = None, ![new] = disk[c]] /\ s.drifted = drifted
    <3>1. SettHolds /\ ~lockdown /\ s = Sett!Strict(Sett!Begin(0), e, b)
      BY <1>1, <1>2
    <3>2. s.reg = b /\ s.disk = Sett!apply(disk, e) /\ s.drifted = drifted
      BY ONLY <3>1, Stored
    <3> QED BY <1>5, <3>2
  <2> QED BY Zenon, <1>1, <2>1, DoneIs
<1>7. mem' \in Registries /\ disk' \in Registries
  BY <1>2, <1>3, <1>4, <1>6 DEF Registries
<1>8. born' = [born EXCEPT ![new] = @ \cup {mem[c].ts}] /\ hurried' = (hurried \/ mem[c].ts \in born[new])
  BY <1>1 DEF Sett!Dated
<1>9. /\ mem'[c] = None /\ mem'[new] = mem[c] /\ disk'[c] = None /\ disk'[new] = disk[c]
      /\ \A k \in Chan \ {c, new} : mem'[k] = mem[k] /\ disk'[k] = disk[k]
  BY <1>2, <1>3, <1>6 DEF Registries
<1>10. ASSUME NEW k \in Chan
      PROVE /\ Agree(disk'[k], mem'[k], drifted)
            /\ \/ born'[k] = born[k] /\ (mem'[k] = mem[k] \/ mem'[k] = None)
               \/ /\ mem'[k] # None /\ born'[k] = born[k] \cup {mem'[k].ts}
                  /\ mem'[k].ts \in born[k] => hurried'
  <2>1. CASE k = new
    <3>1. mem'[k] = mem[c] /\ disk'[k] = disk[c] /\ Agree(disk[c], mem[c], drifted)
      BY <1>3, <1>9, <2>1
    <3>2. born'[k] = born[k] \cup {mem[c].ts} /\ (mem[c].ts \in born[k] => hurried')
      BY Zenon, <1>3, <1>8, <2>1
    <3> QED BY <1>1, <3>1, <3>2
  <2>2. CASE k = c
    BY <1>2, <1>3, <1>8, <1>9, <2>2, AgreeSame
  <2>3. CASE k # c /\ k # new
    BY <1>3, <1>8, <1>9, <2>3
  <2> QED BY <2>1, <2>2, <2>3
<1>11. born' \in [Chan -> SUBSET Nat] /\ hurried' \in BOOLEAN /\ (hurried => hurried')
  BY <1>3, <1>4, <1>8
<1> QED BY Zenon, <1>6, <1>7, <1>10, <1>11, PlaceStep

-----------------------------------------------------------------------------
(* Settings: the node.                                                     *)

LEMMA NoTopic ==
    /\ [text |-> "", by |-> ""] \in [text : {"", "t"}, by : {"", "op"}]
    /\ [text |-> "", by |-> ""].text = ""
OBVIOUS

\* What is left of a channel after a compaction.
LEMMA CompactedIs ==
    ASSUME NEW r \in Wells, NEW q, q = Sett!Compacted(r)
    PROVE  q \in Wells /\ Agree(q, r, FALSE)
<1>1. r \in Sett!Rec /\ r = [g \in RecFields |-> r[g]] /\ \A g \in RecFields : Suits(g, r[g])
  BY RecIs DEF Wells
<1>2. /\ q = [g \in RecFields |-> q[g]]
      /\ \A g \in RecFields \ {"lock", "topic", "wordsrev", "trigsrev"} : q[g] = r[g]
  BY Zenon, <1>1 DEF Sett!Compacted, RecFields
<1>3. q.lock = r.lock
  <2>1. q.lock = IF r.lock.on \cup r.lock.off = {} THEN [on |-> {}, off |-> {}, given |-> {}] ELSE r.lock
    BY <1>1 DEF Sett!Compacted, RecFields, Sett!Fresh
  <2>2. r.lock = [on |-> r.lock.on, off |-> r.lock.off, given |-> r.lock.given] /\ r.lock.given = r.lock.on \cap {"f"}
    BY Zenon, <1>1 DEF Suits, RecFields, Wells, Sensible
  <2>3. CASE r.lock.on \cup r.lock.off = {}
    <3>1. r.lock.on = {} /\ r.lock.off = {} /\ r.lock.given = {}
      BY <2>2, <2>3
    <3> QED BY <2>1, <2>2, <2>3, <3>1
  <2> QED BY <2>1, <2>3
<1>4. /\ q.topic = IF r.topic.text = "" THEN [text |-> "", by |-> ""] ELSE r.topic
      /\ r.topic \in [text : {"", "t"}, by : {"", "op"}]
  BY ZenonT(40), <1>1 DEF Sett!Compacted, RecFields, Sett!Fresh, Suits
<1>5. q.topic \in [text : {"", "t"}, by : {"", "op"}] /\ q.topic.text = r.topic.text /\ (r.topic.text # "" => q.topic = r.topic)
  <2>1. CASE r.topic.text = ""
    <3>1. q.topic = [text |-> "", by |-> ""]
      BY Zenon, <1>4, <2>1
    <3>2. q.topic.text = "" /\ q.topic \in [text : {"", "t"}, by : {"", "op"}]
      BY Zenon, <3>1, NoTopic
    <3> QED BY Zenon, <2>1, <3>2
  <2>2. CASE r.topic.text # ""
    BY Zenon, <1>4, <2>2
  <2> QED BY Zenon, <2>1, <2>2
<1>6. q.wordsrev \in Nat /\ q.trigsrev \in Nat
  <2>1. q.wordsrev = IF r.words = <<>> THEN 0 ELSE 1
    BY <1>1 DEF Sett!Compacted, RecFields
  <2>2. q.trigsrev = IF r.trigs = <<>> THEN 0 ELSE 1
    BY <1>1 DEF Sett!Compacted, RecFields
  <2> QED BY ONLY <2>1, <2>2
<1>7. ASSUME NEW g \in RecFields PROVE Suits(g, q[g])
  <2>1. CASE g = "topic"
    BY Zenon, <1>5, <2>1 DEF Suits
  <2>2. CASE g = "lock"
    BY <1>1, <1>3, <2>2
  <2>3. CASE g \in {"wordsrev", "trigsrev"}
    BY Zenon, <1>6, <2>3 DEF Suits
  <2>4. CASE g \notin {"lock", "topic", "wordsrev", "trigsrev"}
    BY <1>1, <1>2, <2>4
  <2> QED BY <2>1, <2>2, <2>3, <2>4
<1>8. q \in Sett!Rec
  BY <1>2, <1>7, RecIs
<1>9. /\ q.ts = r.ts /\ q.akick = r.akick /\ q.op = r.op /\ q.about = r.about /\ q.opts = r.opts /\ q.kick = r.kick
      /\ q.words = r.words /\ q.trigs = r.trigs /\ q.frozen = r.frozen /\ q.note = r.note
  BY <1>2 DEF RecFields
<1>10. q \in Wells
  <2>1. /\ r.ts <= MaxNow["settings"] /\ Sensible(r.lock)
        /\ Named(r.words) /\ Named(r.trigs) /\ Named(r.akick) /\ Len(r.akick) <= MaxList
    BY DEF Wells
  <2>2. Sensible(q.lock)
    BY <1>3, <2>1
  <2> QED BY <1>8, <1>9, <2>1, <2>2 DEF Wells
<1>11. q # None /\ r # None
  BY <1>10, WellNotNone
<1> QED BY Zenon, <1>3, <1>5, <1>9, <1>10, <1>11 DEF Agree

LEMMA SnapshotIs ==
    ASSUME NEW m \in Registries, NEW d, d = Sett!Snapshot(m)
    PROVE  d \in Registries /\ \A c \in Chan : Agree(d[c], m[c], FALSE)
<1>1. d = [c \in Chan |-> IF m[c] = None THEN None ELSE Sett!Compacted(m[c])]
  BY DEF Sett!Snapshot
<1>2. ASSUME NEW c \in Chan PROVE d[c] \in Wells \cup {None} /\ Agree(d[c], m[c], FALSE)
  <2>1. CASE m[c] = None
    BY <1>1, <2>1 DEF Agree
  <2>2. CASE m[c] # None
    <3>1. m[c] \in Wells /\ d[c] = Sett!Compacted(m[c])
      BY <1>1, <2>2 DEF Registries
    <3> QED BY Zenon, <3>1, CompactedIs
  <2> QED BY Zenon, <2>1, <2>2
<1>3. d = [c \in Chan |-> d[c]]
  BY <1>1
<1>4. \A c \in Chan : d[c] \in Wells \cup {None}
  BY Zenon, <1>2
<1>5. d \in Registries
  <2> HIDE DEF Registries
  <2> QED BY <1>3, <1>4 DEF Registries
<1> QED BY Zenon, <1>2, <1>5

Bare == [words |-> None, trigs |-> None]

LEMMA CompactStep == ASSUME SettHolds, Sett!Compact PROVE SettHolds'
<1>1. /\ disk' = Sett!Snapshot(mem) /\ ops < MaxOps["settings"] /\ ops' = ops + 1
      /\ UNCHANGED <<mem, lockdown, cache, born, hurried, now>>
  BY DEF Sett!Compact, Sett!Upkeep
<1>2. drifted' = FALSE
  BY DEF Sett!Compact
<1>4. mem \in Registries
  BY DEF SettHolds, SettTypes
<1>5. disk' \in Registries /\ \A c \in Chan : Agree(disk'[c], mem[c], FALSE)
  BY Zenon, <1>1, <1>4, SnapshotIs
<1>6. \A c \in Chan : Agree(disk'[c], mem'[c], drifted')
  BY Zenon, <1>1, <1>2, <1>5
<1>7. ops' \in 0..MaxOps["settings"]
  BY <1>1, Settled DEF SettHolds, SettTypes, SettingsAre
<1>8. drifted' \in BOOLEAN
  BY Zenon, <1>2
<1>9. SettTypes'
  BY <1>1, <1>5, <1>6, <1>7, <1>8 DEF SettHolds, SettTypes
<1>10. Cached'
  BY <1>1 DEF SettHolds, Cached
<1> QED BY <1>9, <1>10 DEF SettHolds

LEMMA RestartStep == ASSUME SettHolds, Sett!Restart PROVE SettHolds'
<1>1. /\ mem' = disk /\ ops < MaxOps["settings"] /\ ops' = ops + 1
      /\ cache' = [c \in Chan |-> Bare] /\ UNCHANGED <<disk, born, hurried, now>>
  BY DEF Sett!Restart, Sett!Upkeep, Bare
<1>2. drifted' = FALSE /\ lockdown' = FALSE
  BY DEF Sett!Restart
<1>4. ops' \in 0..MaxOps["settings"]
  BY <1>1, Settled DEF SettHolds, SettTypes, SettingsAre
<1>5. \A c \in Chan : Agree(disk'[c], mem'[c], drifted')
  BY <1>1, AgreeSame
<1>6. drifted' \in BOOLEAN /\ lockdown' \in BOOLEAN
  BY Zenon, <1>2
<1>7. SettTypes'
  BY <1>1, <1>4, <1>5, <1>6 DEF SettHolds, SettTypes
<1>8. ASSUME ~hurried', NEW c \in Chan
      PROVE  /\ mem'[c] # None => mem'[c].ts \in born'[c]
             /\ Current(cache'[c].words, born'[c], mem'[c], "words")
             /\ Current(cache'[c].trigs, born'[c], mem'[c], "trigs")
  <2>1. ~hurried /\ Agree(disk[c], mem[c], drifted) /\ (mem[c] # None => mem[c].ts \in born[c])
    BY <1>1, <1>8 DEF SettHolds, SettTypes, Cached
  <2>2. mem'[c] # None => mem'[c].ts \in born'[c]
    BY Zenon, <1>1, <2>1 DEF Agree
  <2>3. cache'[c].words = None /\ cache'[c].trigs = None
    BY <1>1 DEF Bare
  <2> QED BY <2>2, <2>3 DEF Current
<1>9. cache' = [c \in Chan |-> cache'[c]]
  BY <1>1
<1>10. Cached'
  BY <1>8, <1>9 DEF Cached
<1> QED BY <1>7, <1>10 DEF SettHolds

\* A line with words that compiles them, and the sweep.
LEMMA LineStep ==
    ASSUME SettHolds, NEW c \in Chan, Sett!Line(c)
    PROVE  SettHolds'
<1> DEFINE w == Sett!Compiled(mem[c].words, mem[c].wordsrev, mem[c].ts)
           t == Sett!Compiled(mem[c].trigs, mem[c].trigsrev, mem[c].ts)
           old == cache[c]
           new == [words |-> IF w.list = <<>> \/ Sett!Reused(old.words, w) THEN old.words ELSE w,
                   trigs |-> IF t.list = <<>> \/ Sett!Reused(old.trigs, t) THEN old.trigs ELSE t]
<1>1. mem[c] # None /\ cache' = [cache EXCEPT ![c] = new]
  BY DEF Sett!Line, Sett!Registered
<1>2. UNCHANGED <<mem, disk, lockdown, now, drifted, born, hurried, ops>>
  BY DEF Sett!Line
<1>3. /\ w.rev = mem[c].wordsrev /\ w.ts = mem[c].ts /\ w.list = mem[c].words
      /\ t.rev = mem[c].trigsrev /\ t.ts = mem[c].ts /\ t.list = mem[c].trigs
  BY DEF Sett!Compiled
<1>4. new.words \in {old.words, w} /\ new.trigs \in {old.trigs, t}
  <2> HIDE DEF w, t, old
  <2> QED OBVIOUS
<1>5. mem[c].wordsrev \in Nat /\ mem[c].trigsrev \in Nat
  <2>1. mem[c] \in Wells
    BY <1>1, MemWell
  <2> QED BY <2>1, WellNumbers
<1> HIDE DEF w, t, old, new
<1>6. cache = [k \in Chan |-> cache[k]]
  BY DEF SettHolds, Cached
<1>7. cache' = [k \in Chan |-> cache'[k]] /\ cache'[c] = new /\ \A k \in Chan : k # c => cache'[k] = cache[k]
  BY <1>1, <1>6
<1>8. SettTypes'
  BY <1>2 DEF SettHolds, SettTypes
<1>9. ASSUME ~hurried', NEW k \in Chan
      PROVE  /\ mem'[k] # None => mem'[k].ts \in born'[k]
             /\ Current(cache'[k].words, born'[k], mem'[k], "words")
             /\ Current(cache'[k].trigs, born'[k], mem'[k], "trigs")
  <2>1. /\ mem[k] # None => mem[k].ts \in born[k]
        /\ Current(cache[k].words, born[k], mem[k], "words") /\ Current(cache[k].trigs, born[k], mem[k], "trigs")
    BY <1>2, <1>9 DEF SettHolds, Cached
  <2>2. CASE k # c
    BY <1>2, <1>7, <2>1, <2>2
  <2>3. CASE k = c
    <3>1. Current(w, born[c], mem[c], "words") /\ Current(t, born[c], mem[c], "trigs")
      BY <1>1, <1>3, <1>5, <2>1, <2>3 DEF Current, Rev, ListOf
    <3>2. Current(old.words, born[c], mem[c], "words") /\ Current(old.trigs, born[c], mem[c], "trigs")
      BY <2>1, <2>3 DEF old
    <3>3. Current(new.words, born[c], mem[c], "words") /\ Current(new.trigs, born[c], mem[c], "trigs")
      BY <1>4, <3>1, <3>2
    <3> QED BY <1>2, <1>7, <2>1, <2>3, <3>3
  <2> QED BY <2>2, <2>3
<1>10. Cached'
  BY <1>7, <1>9 DEF Cached
<1> QED BY <1>2, <1>8, <1>10 DEF SettHolds

LEMMA PruneStep == ASSUME SettHolds, Sett!PruneCaches PROVE SettHolds'
<1>1. /\ cache' = [c \in Chan |-> IF mem[c] # None THEN cache[c] ELSE Bare]
      /\ UNCHANGED <<mem, disk, lockdown, now, drifted, born, hurried, ops>>
  BY DEF Sett!PruneCaches, Sett!Registered, Bare
<1>2. SettTypes'
  BY <1>1 DEF SettHolds, SettTypes
<1>3. ASSUME ~hurried', NEW k \in Chan
      PROVE  /\ mem'[k] # None => mem'[k].ts \in born'[k]
             /\ Current(cache'[k].words, born'[k], mem'[k], "words")
             /\ Current(cache'[k].trigs, born'[k], mem'[k], "trigs")
  <2>1. /\ mem[k] # None => mem[k].ts \in born[k]
        /\ Current(cache[k].words, born[k], mem[k], "words") /\ Current(cache[k].trigs, born[k], mem[k], "trigs")
    BY <1>1, <1>3 DEF SettHolds, Cached
  <2>2. CASE mem[k] # None
    BY <1>1, <2>1, <2>2
  <2>3. CASE mem[k] = None
    <3>1. cache'[k].words = None /\ cache'[k].trigs = None
      BY <1>1, <2>3 DEF Bare
    <3> QED BY <1>1, <2>3, <3>1 DEF Current
  <2> QED BY <2>2, <2>3
<1>4. cache' = [k \in Chan |-> cache'[k]]
  BY <1>1
<1>5. Cached'
  BY <1>3, <1>4 DEF Cached
<1> QED BY <1>1, <1>2, <1>5 DEF SettHolds

LEMMA SettTickStep == ASSUME SettHolds, Sett!Tick PROVE SettHolds'
<1>1. /\ now < MaxNow["settings"] /\ now' = now + 1
      /\ UNCHANGED <<mem, disk, lockdown, cache, drifted, born, hurried, ops>>
  BY DEF Sett!Tick
<1>2. now' \in 0..MaxNow["settings"]
  BY <1>1, Settled DEF SettHolds, SettTypes, SettingsAre
<1>3. SettTypes'
  BY <1>1, <1>2 DEF SettHolds, SettTypes
<1>4. Cached'
  BY <1>1 DEF SettHolds, Cached
<1> QED BY <1>1, <1>3, <1>4 DEF SettHolds

LEMMA ReadonlyStep == ASSUME SettHolds, Sett!SetReadonly PROVE SettHolds'
<1>1. /\ ops < MaxOps["settings"] /\ ops' = ops + 1
      /\ UNCHANGED <<mem, disk, cache, drifted, born, hurried, now>>
  BY DEF Sett!SetReadonly, Sett!Upkeep
<1>2. lockdown' = ~lockdown
  BY DEF Sett!SetReadonly
<1>3. ops' \in 0..MaxOps["settings"]
  BY <1>1, Settled DEF SettHolds, SettTypes, SettingsAre
<1>4. lockdown' \in BOOLEAN
  BY <1>2
<1>5. SettTypes'
  BY <1>1, <1>3, <1>4 DEF SettHolds, SettTypes
<1>6. Cached'
  BY <1>1 DEF SettHolds, Cached
<1> QED BY <1>2, <1>5, <1>6 DEF SettHolds

-----------------------------------------------------------------------------
(* Settings: the invariant is one.                                         *)

LEMMA BusyIs == ASSUME NEW r, r = Sett!Busy PROVE r \in Wells /\ r.ts = 0
<1> DEFINE m == CHOOSE x \in Mask : TRUE
           p == CHOOSE x \in Pattern : TRUE
           lock_ == [on |-> {"f"}, off |-> {"n"}, given |-> {"f"}]
           kick_ == [on |-> {"warn"}, ttb |-> 1]
<1>1. m \in Mask /\ p \in Pattern
  BY Settled DEF SettingsAre
<1>2. r = [Sett!Fresh(0) EXCEPT !.lock = lock_, !.akick = <<m>>, !.opts = {"signkick", "signlevel", "nobot"},
             !.kick = kick_, !.words = <<p>>, !.wordsrev = 1, !.trigs = <<p>>, !.trigsrev = 1]
  BY DEF Sett!Busy
<1> HIDE DEF m, p, lock_, kick_
<1>3. r = [g \in RecFields |-> r[g]]
  BY Zenon, <1>2 DEF Sett!Fresh, RecFields
<1>4. r.ts = 0 /\ r.wordsrev = 1 /\ r.trigsrev = 1
  BY <1>2 DEF Sett!Fresh
<1>5. r.lock = lock_ /\ r.akick = <<m>> /\ r.words = <<p>> /\ r.trigs = <<p>> /\ r.kick = kick_
      /\ r.opts = {"signkick", "signlevel", "nobot"}
  BY <1>2 DEF Sett!Fresh
<1>6. r.op = None /\ r.note = "" /\ r.about = [f \in Sett!Field |-> ""] /\ r.topic = [text |-> "", by |-> ""]
  BY <1>2 DEF Sett!Fresh
<1>7. r.frozen \in BOOLEAN
  BY <1>2 DEF Sett!Fresh
<1>8. \A T : \A x \in T : <<x>> \in Seq(T) /\ Len(<<x>>) = 1 /\ Named(<<x>>)
  BY DEF Named
<1>9. lock_ \in [on : SUBSET Sett!Mode, off : SUBSET Sett!Mode, given : SUBSET {"f"}] /\ Sensible(lock_)
  <2>1. "f" # "n"
    OBVIOUS
  <2> QED BY <2>1 DEF lock_, Sett!Mode, Sensible
<1>10. kick_ \in [on : SUBSET Sett!Kicker, ttb : 0..1]
  BY DEF kick_, Sett!Kicker
<1>11. r.opts \in SUBSET Sett!Option
  BY <1>5 DEF Sett!Option
<1>12. r.about \in [Sett!Field -> {"", "t"}] /\ r.topic \in [text : {"", "t"}, by : {"", "op"}]
  <2>1. [f \in Sett!Field |-> ""] \in [Sett!Field -> {"", "t"}]
    OBVIOUS
  <2> QED BY Zenon, <1>6, <2>1, NoTopic
<1>13. r.ts \in Nat /\ r.wordsrev \in Nat /\ r.trigsrev \in Nat
  BY ONLY <1>4
<1>14. r.op \in {None, "vop"} /\ r.note \in {"", "t"}
  BY Zenon, <1>6
<1>15. r.akick \in Seq(Mask) /\ r.words \in Seq(Pattern) /\ r.trigs \in Seq(Pattern)
       /\ Named(r.akick) /\ Named(r.words) /\ Named(r.trigs) /\ Len(r.akick) = 1
  BY <1>1, <1>5, <1>8
<1>16. r \in Sett!Rec
  BY Zenon, <1>3, <1>5, <1>7, <1>9, <1>10, <1>11, <1>12, <1>13, <1>14, <1>15, FieldsMake
<1>17. r.ts <= MaxNow["settings"] /\ Len(r.akick) <= MaxList
  BY <1>4, <1>15, Settled DEF SettingsAre
<1> QED BY Zenon, <1>4, <1>5, <1>9, <1>15, <1>16, <1>17 DEF Wells

LEMMA SettInit == ASSUME Sett!Init PROVE SettHolds
<1>1. /\ disk = Sett!Snapshot(mem) /\ cache = [c \in Chan |-> Bare] /\ now = 0
      /\ born = [c \in Chan |-> {0}] /\ ops = 0
  BY DEF Sett!Init, Bare
<1>2. lockdown = FALSE /\ drifted = FALSE /\ hurried = FALSE
  BY DEF Sett!Init
<1>3. PICK b \in Chan : mem = [c \in Chan |-> IF c = b THEN Sett!Busy ELSE Sett!Fresh(0)]
  BY DEF Sett!Init
<1>4. 0 \in 0..MaxNow["settings"] /\ 0 \in 0..MaxOps["settings"] /\ 0 <= MaxNow["settings"]
  BY Settled DEF SettingsAre
<1>5. /\ Sett!Busy \in Wells /\ Sett!Busy.ts = 0
      /\ Sett!Fresh(0) \in Wells /\ Sett!Fresh(0).ts = 0
  BY <1>4, BusyIs, FreshIs
<1>6. mem \in Registries /\ \A c \in Chan : mem[c].ts = 0
  BY <1>3, <1>5 DEF Registries
<1>7. disk \in Registries /\ \A c \in Chan : Agree(disk[c], mem[c], FALSE)
  BY Zenon, <1>1, <1>6, SnapshotIs
<1>8. \A c \in Chan : Agree(disk[c], mem[c], drifted)
  BY Zenon, <1>2, <1>7
<1>9. lockdown \in BOOLEAN /\ drifted \in BOOLEAN /\ hurried \in BOOLEAN
  BY Zenon, <1>2
<1>10. SettTypes
  BY <1>1, <1>4, <1>6, <1>7, <1>8, <1>9 DEF SettTypes
<1>11. Cached
  <2>1. \A c \in Chan : cache[c].words = None /\ cache[c].trigs = None
    BY <1>1 DEF Bare
  <2>2. \A c \in Chan : mem[c].ts \in born[c]
    BY <1>1, <1>6
  <2>3. cache = [c \in Chan |-> cache[c]]
    BY <1>1
  <2> QED BY <2>1, <2>2, <2>3 DEF Cached, Current
<1> QED BY <1>10, <1>11 DEF SettHolds

LEMMA ChannelStep ==
    ASSUME SettHolds, NEW c \in Chan,
           \/ Sett!Register(c) \/ Sett!DropChannel(c) \/ Sett!Akick(c) \/ Sett!Set(c) \/ Sett!Suspend(c)
           \/ Sett!Unsuspend(c) \/ Sett!Kick(c) \/ Sett!BotSet(c) \/ Sett!Badwords(c) \/ Sett!Trigger(c)
           \/ \E role \in {None, "vop"} : Sett!Levels(c, role)
           \/ \E text \in {"", "t"} : Sett!Topic(c, text) \/ Sett!EntryMsg(c, text)
    PROVE  SettHolds'
<1>1. CASE Sett!Register(c)
  BY <1>1, RegisterStep
<1>2. CASE Sett!DropChannel(c)
  BY <1>2, DropStep
<1>3. CASE Sett!Akick(c)
  BY <1>3, AkickStep, OrdinaryStep
<1>4. CASE Sett!Badwords(c) \/ Sett!Trigger(c)
  BY Zenon, <1>4, ListStep, OrdinaryStep
<1>5. CASE Sett!Kick(c) \/ Sett!BotSet(c)
  BY Zenon, <1>5, SwitchStep, OrdinaryStep DEF Sett!Kick, Sett!BotSet
<1>6. CASE \/ Sett!Suspend(c) \/ Sett!Unsuspend(c) \/ \E role \in {None, "vop"} : Sett!Levels(c, role)
           \/ \E text \in {"", "t"} : Sett!Topic(c, text) \/ Sett!EntryMsg(c, text)
  BY Zenon, <1>6, SetStep, OrdinaryStep
<1>7. CASE Sett!Set(c)
  <2>1. CASE \E text \in {"", "t"} : Sett!Desc(c, text)
    BY Zenon, <2>1, SetStep, OrdinaryStep
  <2>2. ASSUME NEW given \in BOOLEAN,
               \/ \E o \in {"noautoop", "secureops"} : Sett!SetOption(c, o, given)
               \/ \E level \in BOOLEAN, fate \in 0..2 : Sett!SetSignKick(c, given, level, fate)
        PROVE  SettHolds'
    <3>1. CASE \E o \in {"noautoop", "secureops"} : Sett!SetOption(c, o, given)
      BY Zenon, <3>1, SwitchStep, OrdinaryStep
    <3>2. CASE \E level \in BOOLEAN, fate \in 0..2 : Sett!SetSignKick(c, given, level, fate)
      BY Zenon, <3>2, SignStep, OrdinaryStep
    <3> QED BY Zenon, <2>2, <3>1, <3>2
  <2> QED BY Zenon, <1>7, <2>1, <2>2 DEF Sett!Set
<1> QED BY Zenon, <1>1, <1>2, <1>3, <1>4, <1>5, <1>6, <1>7

LEMMA SettStep == ASSUME SettHolds, Sett!Next PROVE SettHolds'
<1>1. ASSUME NEW c \in Chan,
             \/ Sett!Register(c) \/ Sett!DropChannel(c) \/ Sett!Akick(c) \/ Sett!Set(c) \/ Sett!Suspend(c)
             \/ Sett!Unsuspend(c) \/ Sett!Kick(c) \/ Sett!BotSet(c) \/ Sett!Badwords(c) \/ Sett!Trigger(c)
             \/ \E role \in {None, "vop"} : Sett!Levels(c, role)
             \/ \E text \in {"", "t"} : Sett!Topic(c, text) \/ Sett!EntryMsg(c, text)
      PROVE  SettHolds'
  BY Zenon, <1>1, ChannelStep
<1>2. ASSUME NEW c \in Chan, NEW text \in {"", "t"}, Sett!Note(c, text)
      PROVE  SettHolds'
  BY Zenon, <1>2, NoteStep, OrdinaryStep
<1>3. ASSUME NEW c \in Chan, NEW new \in Chan, Sett!Rename(c, new)
      PROVE  SettHolds'
  BY <1>3, RenameStep
<1>4. ASSUME NEW c \in Chan, NEW modes_ \in Sett!Specs, NEW values \in 0..1, Sett!Mlock(c, modes_, values)
      PROVE  SettHolds'
  BY <1>4, LockStep, OrdinaryStep
<1>5. ASSUME NEW c \in Chan, NEW dst \in Chan, NEW fate \in 0..4, Sett!Copy(c, dst, fate)
      PROVE  SettHolds'
  BY <1>5, CopyStep, OrdinaryStep
<1>6. ASSUME NEW c \in Chan, NEW dst \in Chan, NEW fate \in 0..4, Sett!Clone(c, dst, fate)
      PROVE  SettHolds'
  BY <1>6, CloneStep, OrdinaryStep
<1>7. ASSUME NEW c \in Chan, Sett!Line(c) PROVE SettHolds'
  BY <1>7, LineStep
<1>8. CASE Sett!SetReadonly
  BY <1>8, ReadonlyStep
<1>9. CASE Sett!Compact
  BY <1>9, CompactStep
<1>10. CASE Sett!Restart
  BY <1>10, RestartStep
<1>11. CASE Sett!Tick
  BY <1>11, SettTickStep
<1>12. CASE Sett!PruneCaches
  BY <1>12, PruneStep
<1>13. ASSUME NEW c \in Chan,
          \/ Sett!Register(c) \/ Sett!DropChannel(c) \/ Sett!Akick(c) \/ Sett!Set(c) \/ Sett!Suspend(c) \/ Sett!Unsuspend(c)
          \/ Sett!Kick(c) \/ Sett!BotSet(c) \/ Sett!Badwords(c) \/ Sett!Trigger(c) \/ Sett!Line(c)
          \/ \E new \in Chan : Sett!Rename(c, new)
          \/ \E modes_ \in Sett!Specs, values \in 0..1 : Sett!Mlock(c, modes_, values)
          \/ \E role \in {None, "vop"} : Sett!Levels(c, role)
          \/ \E text \in {"", "t"} : Sett!Topic(c, text) \/ Sett!Note(c, text) \/ Sett!EntryMsg(c, text)
          \/ \E dst \in Chan, fate \in 0..4 : Sett!Copy(c, dst, fate) \/ Sett!Clone(c, dst, fate)
       PROVE SettHolds'
  BY Zenon, <1>1, <1>2, <1>3, <1>4, <1>5, <1>6, <1>7, <1>13
<1> QED BY Zenon, <1>8, <1>9, <1>10, <1>11, <1>12, <1>13 DEF Sett!Next

LEMMA SettStutter ==
    ASSUME SettHolds, UNCHANGED <<mem, disk, lockdown, cache, now, drifted, born, hurried, ops>> PROVE SettHolds'
<1>1. SettTypes'
  BY DEF SettHolds, SettTypes
<1>2. Cached'
  BY DEF SettHolds, Cached
<1> QED BY <1>1, <1>2 DEF SettHolds

LEMMA SettTypeOK == SettHolds => Sett!TypeOK
<1> SUFFICES ASSUME SettHolds PROVE Sett!TypeOK
  OBVIOUS
<1>1. ASSUME NEW l, Named(l) PROVE DOMAIN l = 1..Len(l) => Sett!IsInjective(l)
  BY <1>1 DEF Named, Sett!IsInjective
<1>2. ASSUME NEW c \in Chan, mem[c] # None PROVE Sett!RecOK(mem[c])
  <2> DEFINE r == mem[c]
  <2>1. r \in Wells
    BY <1>2, MemWell
  <2> HIDE DEF r
  <2>2. r.words \in Seq(Pattern) /\ r.trigs \in Seq(Pattern) /\ r.akick \in Seq(Mask) /\ r \in Sett!Rec
    BY Zenon, <2>1, WellIs DEF Wells
  <2>3. /\ r.ts <= MaxNow["settings"] /\ Len(r.akick) <= MaxList
        /\ Named(r.words) /\ Named(r.trigs) /\ Named(r.akick)
    BY <2>1 DEF Wells
  <2>4. Sett!IsInjective(r.words) /\ Sett!IsInjective(r.trigs) /\ Sett!IsInjective(r.akick)
    <3>1. DOMAIN r.words = 1..Len(r.words) /\ DOMAIN r.trigs = 1..Len(r.trigs) /\ DOMAIN r.akick = 1..Len(r.akick)
      BY <2>2
    <3> QED BY <1>1, <2>3, <3>1
  <2>5. Sett!RecOK(r)
    BY <2>2, <2>3, <2>4 DEF Sett!RecOK
  <2> QED BY <2>5 DEF r
<1>3. {lockdown, drifted, hurried} \subseteq BOOLEAN
  BY DEF SettHolds, SettTypes
<1>4. now \in 0..MaxNow["settings"] /\ ops \in 0..MaxOps["settings"]
  BY DEF SettHolds, SettTypes
<1> QED BY <1>2, <1>3, <1>4 DEF Sett!TypeOK

\* What memory, disk and the compiled lists promise.
LEMMA SettPromise == SettHolds => Sett!SettingsReplay /\ Sett!ListsAreCurrent /\ Sett!LocksMakeSense
<1> SUFFICES ASSUME SettHolds PROVE Sett!SettingsReplay /\ Sett!ListsAreCurrent /\ Sett!LocksMakeSense
  OBVIOUS
<1>1. Sett!SettingsReplay
  <2> SUFFICES ASSUME ~drifted, NEW c \in Chan PROVE Sett!Same(disk[c], mem[c])
    BY DEF Sett!SettingsReplay
  <2> DEFINE d == disk[c]
             m == mem[c]
  <2>1. d \in Wells \cup {None} /\ m \in Wells \cup {None} /\ Agree(d, m, drifted)
    BY DEF SettHolds, SettTypes, Registries
  <2> HIDE DEF d, m
  <2>2. CASE m = None
    BY <2>1, <2>2 DEF Agree, Sett!Same, d, m
  <2>3. CASE m # None
    <3>1. d # None /\ d \in Sett!Rec /\ m \in Sett!Rec
      BY Zenon, <2>1, <2>3 DEF Agree, Wells
    <3> DEFINE d_ == [d EXCEPT !.wordsrev = 0, !.trigsrev = 0, !.topic = ""]
               m_ == [m EXCEPT !.wordsrev = 0, !.trigsrev = 0, !.topic = ""]
    <3>2. d = [g \in RecFields |-> d[g]] /\ m = [g \in RecFields |-> m[g]]
      BY <3>1, RecIs
    <3>3. \A g \in RecFields \ {"wordsrev", "trigsrev", "topic"} : d[g] = m[g]
      BY Zenon, <2>1, <2>3 DEF Agree, RecFields
    <3>4. d_ = m_
      BY Zenon, <3>2, <3>3 DEF RecFields
    <3> HIDE DEF d_, m_
    <3>5. d.topic.text = m.topic.text /\ (d.topic.text # "" => d.topic = m.topic)
      BY Zenon, <2>1, <2>3 DEF Agree
    <3>6. Sett!Same(d, m)
      BY Zenon, <2>3, <3>1, <3>4, <3>5 DEF Sett!Same, d_, m_
    <3> QED BY <3>6 DEF d, m
  <2> QED BY <2>2, <2>3
<1>2. Sett!ListsAreCurrent
  <2> SUFFICES ASSUME ~hurried, NEW c \in Chan, mem[c] # None
               PROVE  /\ LET w == Sett!Compiled(mem[c].words, mem[c].wordsrev, mem[c].ts)
                         IN  Sett!Reused(cache[c].words, w) => cache[c].words.list = mem[c].words
                      /\ LET t == Sett!Compiled(mem[c].trigs, mem[c].trigsrev, mem[c].ts)
                         IN  Sett!Reused(cache[c].trigs, t) => cache[c].trigs.list = mem[c].trigs
    BY DEF Sett!ListsAreCurrent, Sett!Registered
  <2>1. Current(cache[c].words, born[c], mem[c], "words") /\ Current(cache[c].trigs, born[c], mem[c], "trigs")
    BY DEF SettHolds, Cached
  <2> QED BY <2>1 DEF Current, Rev, ListOf, Sett!Compiled, Sett!Reused
<1>3. Sett!LocksMakeSense
  <2>1. ASSUME NEW c \in Chan, mem[c] # None PROVE Sensible(mem[c].lock)
    <3>1. mem[c] \in Wells
      BY <2>1, MemWell
    <3> QED BY <3>1 DEF Wells
  <2> QED BY <2>1 DEF Sett!LocksMakeSense, Sett!Registered, Sensible
<1> QED BY <1>1, <1>2, <1>3

-----------------------------------------------------------------------------
(* The theorems.                                                           *)

LockInv == scene = "locks" => LockHoldsAll

LEMMA LockInvInit == Init => LockInv
BY LockHoldsInit DEF Init, InitLocks, LockInv

LEMMA LockInvStep == LockInv /\ [Next]_vars => LockInv'
BY SceneSteps, LockHoldsStep, LockHoldsStutter DEF LockInv

\* A ban a kicker set is waiting to be lifted, or its lifting is on the way
\* behind it, unless a vote set it or the list was lost with a UserCert or a
\* restart: whatever speakers, hosts and thresholds, and however events, the
\* ircd's pace and restarts interleave (sweep_unbans, kicker_check).
THEOREM KickerBansEnd == Spec => []EveryBanHasItsEnd
<1>1. Init => KickInv
  BY KickInvInit
<1>2. KickInv /\ [Next]_vars => KickInv'
  BY KickInvStep
<1>3. KickInv => EveryBanHasItsEnd
  BY DEF KickInv, KickHolds, EveryBanHasItsEnd, Kick!EveryBanHasItsEnd, BansEnd, Banned, EndInSight
<1> QED BY <1>1, <1>2, <1>3, PTL DEF Spec

\* Once the link is quiet a channel obeys its rules, whatever users change and
\* services send while they cross: no operator whom SECUREOPS or a denial
\* forbids, nobody an auto-kick or RESTRICTED keeps out, the modes as locked,
\* the topic as stored and set by somebody who may (enforcement on join, op,
\* mode and topic events).
THEOREM RulesAreKept == Spec => []RulesHold
<1>1. StatInv /\ LockInv => RulesHold
  BY QuietRules, LockRulesHold DEF StatInv, StatHolds, LockInv, RulesHold
<1> QED BY <1>1, StatInvInit, StatInvStep, LockInvInit, LockInvStep, PTL DEF Spec

\* Counters and windows count right at their edges, whatever thresholds and
\* lifetimes: a kick for a flood is for one and a ban follows its warning and
\* kicks; a window holds every hit that still counts and the feed to the staff
\* keeps to its limit; no client is let through more than its bucket permits,
\* and none is throttled untold (Kickers, Security and Limits).
THEOREM CountsAreRight == Spec => []CountedRight
<1>1. KickInv /\ SecInv /\ LimitInv => CountedRight
  BY KickCountedRight, WindowsAreComplete, FeedIsBounded, LimitsPromise DEF KickInv, SecInv, LimitInv, CountedRight
<1> QED BY <1>1, KickInvInit, KickInvStep, SecInvInit, SecInvStep, LimitInvInit, LimitInvStep, PTL DEF Spec

SettInv == scene = "settings" => SettHolds

LEMMA SettInvInit == Init => SettInv
BY SettInit DEF Init, InitSettings, SettInv

LEMMA SettInvStep == SettInv /\ [Next]_vars => SettInv'
<1>1. UNCHANGED Sett!vars => UNCHANGED <<mem, disk, lockdown, cache, now, drifted, born, hurried, ops>>
  BY DEF Sett!vars
<1> QED BY <1>1, SceneSteps, SettStep, SettStutter DEF SettInv

\* However commands, refused appends, lockdowns, compactions and restarts
\* follow each other, a restart brings back what is in memory but for a staff
\* note whose append was ignored; a compiled list in use is the channel's, but
\* where a name had one time of registration twice; and no mode is locked both
\* ways or without its value (Db's setters, apply and compact, and the engine's
\* compiled badwords and triggers).
THEOREM SettingsAreKept == Spec => []SettingsHold
<1>1. SettInv => SettingsHold
  BY SettPromise DEF SettInv, SettingsHold
<1> QED BY <1>1, SettInvInit, SettInvStep, PTL DEF Spec

\* Every scene keeps to its types: lists without repetitions and within
\* MAX_CHAN_LIST, counts, queues and buckets within what bounds them.
THEOREM TypesHold == Spec => []TypeOK
<1>1. StatInv /\ LockInv /\ KickInv /\ SecInv /\ LimitInv /\ SettInv => TypeOK
  BY StatTypeOK, LockTypeOK, KickTypeOK, ScreensTyped, LimitsTyped, SettTypeOK
     DEF StatInv, LockInv, KickInv, SecInv, LimitInv, SettInv, TypeOK
<1> QED BY <1>1, StatInvInit, StatInvStep, LockInvInit, LockInvStep, KickInvInit, KickInvStep,
           SecInvInit, SecInvStep, LimitInvInit, LimitInvStep, SettInvInit, SettInvStep, PTL DEF Spec

\* What is done has its cause: a vote that carries has its voters, a channel is
\* registered by its operator, a screen acts when and only when its limit is
\* passed and never just after a split, and a COPY that says it is done has
\* copied all (handle_vote, REGISTER, the security module, copy_bot_config).
THEOREM DoneForItsCause == Spec => DoneForCause
<1> DEFINE Caused == /\ scene = "kickers" => Kick!FairVote
                     /\ scene = "status" => Stat!RegisteredByItsOp
                     /\ scene = "security" => Sec!ActedOnFloods
                     /\ scene = "security" => Sec!QuietAfterSplit
                     /\ scene = "settings" => Sett!CopiedIsCopied
           Invs == KickInv /\ StatInv /\ SecInv /\ SettInv
<1>1. Invs /\ Invs' /\ [Next]_vars => [Caused]_vars
  <2> SUFFICES ASSUME Invs, Invs', Next PROVE Caused
    OBVIOUS
  <2>1. scene' = scene
    BY DEF Next
  <2>2. ASSUME scene = "kickers" PROVE Kick!FairVote
    <3>1. Kick!Next
      BY <2>2 DEF Next
    <3> QED BY <2>1, <2>2, <3>1, FairVoteStep DEF KickInv, KickHolds
  <2>3. ASSUME scene = "status" PROVE Stat!RegisteredByItsOp
    <3>1. Stat!Next
      BY <2>3 DEF Next
    <3> QED BY <2>3, <3>1, RegisteredStep DEF StatInv, StatHolds
  <2>4. ASSUME scene = "security" PROVE Sec!ActedOnFloods /\ Sec!QuietAfterSplit
    <3>1. Sec!Next
      BY <2>4 DEF Next
    <3> QED BY <2>4, <3>1, SecStep DEF SecInv
  <2>5. ASSUME scene = "settings" PROVE Sett!CopiedIsCopied
    BY <2>5, Copied DEF SettInv
  <2> QED BY <2>2, <2>3, <2>4, <2>5
<1>2. Init => Invs
  BY KickInvInit, StatInvInit, SecInvInit, SettInvInit
<1>3. Invs /\ [Next]_vars => Invs'
  BY KickInvStep, StatInvStep, SecInvStep, SettInvStep
<1>4. Invs /\ Invs' /\ [Next]_vars => [/\ scene = "kickers" => Kick!FairVote
                                       /\ scene = "status" => Stat!RegisteredByItsOp
                                       /\ scene = "security" => Sec!ActedOnFloods
                                       /\ scene = "security" => Sec!QuietAfterSplit
                                       /\ scene = "settings" => Sett!CopiedIsCopied]_vars
  BY <1>1
<1> HIDE DEF Caused, Invs
<1> QED BY <1>2, <1>3, <1>4, PTL DEF Spec, DoneForCause
=============================================================================
