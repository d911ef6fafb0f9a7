-------------------------------- MODULE Games --------------------------------
(***************************************************************************)
(* GameServ's tables (modules/gameserv/src/lib.rs): challenges, games and  *)
(* the ladder they feed.  A player is the account it is logged in to, or   *)
(* else its connection; a connection's uid is handed out again after it    *)
(* closes.  The board itself is modelled elsewhere (Boards, Chess): here a *)
(* move is refused, goes on, or ends the game.                             *)
(***************************************************************************)
EXTENDS Naturals, FiniteSets, Functions, FiniteSetsExt

CONSTANTS Conn, Account, Nick, None,
          MaxPerUser,  \* MAX_GAMES_PER_USER
          MaxTotal,    \* MAX_GAMES_TOTAL
          MaxOps       \* bound on steps

VARIABLES
    nick,    \* connection -> nick, or None while nobody holds the uid
    account, \* connection -> account it is identified to, or None
    life,    \* history: how many connections have held this uid
    games,   \* id -> game
    nextid, ladder, ops

vars == <<nick, account, life, games, nextid, ladder, ops>>
net == <<nick, account, life>>

Sides == {"A", "B"}
OtherSide(s) == IF s = "A" THEN "B" ELSE "A"

Online(c) == nick[c] # None
NickOnline(n) == \E c \in Conn : nick[c] = n
ident(c) == IF account[c] # None THEN account[c] ELSE c
Player(g, s) == IF s = "A" THEN g.a ELSE g.b
Party(g, p) == p \in {g.a, g.b}
(* side_of: the challenger's side first.                                   *)
side_of(g, p) == IF g.a = p THEN "A" ELSE "B"

Op == ops < MaxOps /\ ops' = ops + 1

(* ------------------------------------------------------------ connections *)
Connect(c, n) ==
    /\ Op /\ ~Online(c) /\ ~NickOnline(n)
    /\ nick' = [nick EXCEPT ![c] = n]
    /\ life' = [life EXCEPT ![c] = @ + 1]
    /\ UNCHANGED <<account, games, nextid, ladder>>

ChangeNick(c, n) ==
    /\ Op /\ Online(c) /\ ~NickOnline(n)
    /\ nick' = [nick EXCEPT ![c] = n]
    /\ UNCHANGED <<account, life, games, nextid, ladder>>

(* A login gives the connection a new identity; its guest games stay under *)
(* the uid.                                                                *)
Login(c, a) ==
    /\ Op /\ Online(c) /\ account[c] # a
    /\ account' = [account EXCEPT ![c] = a]
    /\ UNCHANGED <<nick, life, games, nextid, ladder>>

drop_guest_games_own(gs, c) ==   \* only the games the guest started
    Restrict(gs, {i \in DOMAIN gs : gs[i].a # c})
drop_guest_games(gs, c) == Restrict(gs, {i \in DOMAIN gs : ~Party(gs[i], c)})

Quit(c) ==
    /\ Op /\ Online(c)
    /\ games' = drop_guest_games(games, c)
    /\ nick' = [nick EXCEPT ![c] = None]
    /\ account' = [account EXCEPT ![c] = None]
    /\ UNCHANGED <<life, nextid, ladder>>

(* --------------------------------------------------------------- commands *)
(* Offers that neither side is around to hear about are reclaimed first.   *)
Reclaimed(gs) ==
    Restrict(gs, {i \in DOMAIN gs : gs[i].status = "active"
                                    \/ NickOnline(gs[i].an) \/ NickOnline(gs[i].bn)})

Mine_active(gs, p) == {i \in DOMAIN gs : Party(gs[i], p) /\ gs[i].status = "active"}
Mine(gs, p) == {i \in DOMAIN gs :
                   gs[i].a = p \/ (gs[i].b = p /\ gs[i].status = "active")}

SamePlayer_conn(c, d) == c = d   \* compares connections, not players
SamePlayer(c, d) == ident(c) = ident(d)

Offer_guest(c, d) ==   \* the opponent counts as registered
    [a |-> ident(c), b |-> ident(d), areg |-> account[c] # None, breg |-> TRUE,
     an |-> nick[c], bn |-> nick[d], alife |-> life[c], blife |-> life[d],
     status |-> "pending", turn |-> "A"]
Offer(c, d) ==
    [a |-> ident(c), b |-> ident(d),
     areg |-> account[c] # None, breg |-> account[d] # None,
     an |-> nick[c], bn |-> nick[d], alife |-> life[c], blife |-> life[d],
     status |-> "pending", turn |-> "A"]

do_challenge(c, d) ==
    /\ Op /\ Online(c) /\ Online(d) /\ ~SamePlayer(c, d)
    /\ LET kept == Reclaimed(games)
           room == /\ Cardinality(DOMAIN kept) < MaxTotal
                   /\ Cardinality(Mine(kept, ident(c))) < MaxPerUser
       IN  /\ games' = IF room
                       THEN [i \in DOMAIN kept \union {nextid} |->
                                IF i = nextid THEN Offer(c, d) ELSE kept[i]]
                       ELSE kept
           /\ nextid' = IF room THEN nextid + 1 ELSE nextid
    /\ UNCHANGED <<net, ladder>>

Offered(i, c) == games[i].status = "pending" /\ games[i].b = ident(c)

do_accept(c, i) ==
    /\ Op /\ Online(c) /\ Offered(i, c)
    /\ games' = [games EXCEPT ![i].status = "active", ![i].bn = nick[c]]
    /\ UNCHANGED <<net, nextid, ladder>>

do_decline(c, i) ==
    /\ Op /\ Online(c) /\ Offered(i, c)
    /\ games' = Restrict(games, DOMAIN games \ {i})
    /\ UNCHANGED <<net, nextid, ladder>>

(* finish: the game leaves the table; the ladder moves only when both      *)
(* players were registered when they were matched.                         *)
Credit(l, kind, a) == [l EXCEPT ![kind][a] = @ + 1]

Ranked_either(g) == g.areg \/ g.breg
Ranked(g) == g.areg /\ g.breg

Laddered(g, winner) ==
    IF ~Ranked(g) THEN ladder
    ELSE IF winner = "draw" THEN Credit(Credit(ladder, "d", g.a), "d", g.b)
    ELSE Credit(Credit(ladder, "w", Player(g, winner)),
                "l", Player(g, OtherSide(winner)))

finish(i, winner) ==
    /\ games' = Restrict(games, DOMAIN games \ {i})
    /\ ladder' = Laddered(games[i], winner)

Playing(c, i) == Online(c) /\ games[i].status = "active" /\ Party(games[i], ident(c))

(* A move by the side whose turn it is; one out of turn or against the     *)
(* rules only refreshes the mover's nick.                                  *)
do_move(c, i, how) ==
    /\ Op /\ Playing(c, i)
    /\ LET s == side_of(games[i], ident(c))
           g == IF s = "A" THEN [games[i] EXCEPT !.an = nick[c]]
                           ELSE [games[i] EXCEPT !.bn = nick[c]]
       IN  \/ /\ how = "refused"
              /\ games' = [games EXCEPT ![i] = g]
              /\ UNCHANGED ladder
           \/ /\ how = "played" /\ g.turn = s
              /\ games' = [games EXCEPT ![i] = [g EXCEPT !.turn = OtherSide(s)]]
              /\ UNCHANGED ladder
           \/ /\ how = "won" /\ g.turn = s /\ finish(i, s)
           \/ /\ how = "drawn" /\ g.turn = s /\ finish(i, "draw")
    /\ UNCHANGED <<net, nextid>>

do_resign(c, i) ==
    /\ Op /\ Playing(c, i)
    /\ finish(i, OtherSide(side_of(games[i], ident(c))))
    /\ UNCHANGED <<net, nextid>>

(* A restart forgets every game; the ladder's counters are saved elsewhere. *)
Init ==
    /\ nick = [c \in Conn |-> None] /\ account = [c \in Conn |-> None]
    /\ life = [c \in Conn |-> 0]
    /\ games = << >> /\ nextid = 1
    /\ ladder = [k \in {"w", "l", "d"} |-> [a \in Account |-> 0]]
    /\ ops = 0

Next ==
    \E c \in Conn :
        \/ \E n \in Nick : Connect(c, n) \/ ChangeNick(c, n)
        \/ \E a \in Account : Login(c, a)
        \/ Quit(c)
        \/ \E d \in Conn : do_challenge(c, d)
        \/ \E i \in DOMAIN games :
              \/ do_accept(c, i) \/ do_decline(c, i) \/ do_resign(c, i)
              \/ \E how \in {"refused", "played", "won", "drawn"} : do_move(c, i, how)

Spec == Init /\ [][Next]_vars

-----------------------------------------------------------------------------
Game == [a : Conn \union Account, b : Conn \union Account,
         areg : BOOLEAN, breg : BOOLEAN, an : Nick, bn : Nick,
         alife : 1..MaxOps, blife : 1..MaxOps,
         status : {"pending", "active"}, turn : Sides]

(* Types; an offer counts as ranked exactly for the sides that play under  *)
(* an account.                                                             *)
TypeOK ==
    /\ nick \in [Conn -> Nick \union {None}]
    /\ account \in [Conn -> Account \union {None}]
    /\ DOMAIN games \subseteq 1..(nextid - 1)
    /\ \A i \in DOMAIN games : /\ games[i] \in Game
                               /\ games[i].areg = (games[i].a \in Account)
                               /\ games[i].breg = (games[i].b \in Account)
    /\ ladder \in [{"w", "l", "d"} -> [Account -> 0..MaxOps]]

(* A guest's game ends with the connection it was played on: whoever is    *)
(* given the uid next neither inherits a game nor is challenged in one.    *)
GuestGamesAreTheirOwn ==
    \A i \in DOMAIN games : \A c \in Conn :
        /\ games[i].a = c => Online(c) /\ life[c] = games[i].alife
        /\ games[i].b = c => Online(c) /\ life[c] = games[i].blife

Total(kind) == MapThenSumSet(LAMBDA a : ladder[kind][a], Account)

(* The ladder is a zero-sum account of ranked games: every win is somebody *)
(* else's loss, draws come in pairs, and no account plays itself for rank. *)
LadderAddsUp ==
    /\ Total("w") = Total("l") /\ Total("d") % 2 = 0
    /\ \A i \in DOMAIN games : games[i].a # games[i].b

(* The caps: what one player has started, and what everybody holds.        *)
CapsHold ==
    /\ \A p \in Conn \union Account :
          Cardinality({i \in DOMAIN games : games[i].a = p}) <= MaxPerUser
    /\ Cardinality(DOMAIN games) <= MaxTotal

(* The comment on MAX_GAMES_PER_USER: a cap on concurrent games of one     *)
(* identity, those it accepted included.                                   *)
CapPerIdentity ==
    \A p \in Conn \union Account : Cardinality(Mine(games, p)) <= MaxPerUser
=============================================================================
