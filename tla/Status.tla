-------------------------------- MODULE Status --------------------------------
(***************************************************************************)
(* Who is on a channel and with what status: what ChanServ enforces when   *)
(* somebody joins, is opped or changes nick, what its commands send, and   *)
(* the engine's picture of the channel, which follows the ircd's events    *)
(* and none of the changes the engine itself asks for.                     *)
(*                                                                         *)
(* What users do happens at the ircd at once and goes up as an event or as *)
(* a command, handled in order; what the engine answers goes down and is   *)
(* carried out in order.  The owner, protected and half-operator modes are *)
(* left out: +ao and +qo are an operator here.                             *)
(***************************************************************************)
EXTENDS Naturals, Sequences, FiniteSets, SequencesExt

CONSTANTS
    User, Account, None,
    Grouped,       \* accounts that hold operator access through a group
    Plans,         \* bound: what users ask for, and how much they and staff do
    Settable,      \* bound: the settings changed on the way
    MaxQueue       \* bound: events on their way up

VARIABLES
    chan,          \* the channel's registration, or None
    account,       \* who is logged in, the engine's word
    nick, knick,   \* "plain" or "bad": at the ircd, and as the engine knows it
    on, ops, voices, bans,  \* the ircd's channel; a ban is of a nick or of a user's host
    seen,          \* the engine's picture of it
    up, down,
    touched,       \* history: users the engine changed the status of, unknown to itself
    illicit,       \* history: opped by a user against SECUREOPS or a denial
    unwelcome,     \* history: came, or changed nick, against RESTRICTED or an auto-kick
    plan,          \* which of Plans bounds the behaviour
    spent          \* how much of it is spent

channel == <<on, ops, voices, bans>>
history == <<touched, illicit, unwelcome>>
vars == <<chan, account, nick, knick, channel, seen, up, down, history, plan, spent>>

Setting == {"secureops", "securevoices", "restricted", "noautoop", "peace"}
Level == {"", "op", "voice", "deny"}

Fresh(a) == [founder |-> a, level |-> [b \in Account |-> ""], set |-> {}, akick |-> {}, frozen |-> FALSE]

-----------------------------------------------------------------------------
(* Access. *)

Direct(a) == IF a = chan.founder THEN "op" ELSE chan.level[a]

\* Moderation, and what UP gives: neither looks at groups.
is_op(a) == a # None /\ Direct(a) = "op"

join_mode(a) == IF a = None \/ Direct(a) \notin {"op", "voice"} THEN None ELSE Direct(a)

\* What a join gives, groups included.
channel_join_mode(a) ==
    IF a # None /\ a \in Grouped THEN "op" ELSE join_mode(a)

denied(a) == a # None /\ chan.level[a] = "deny"

rank(a) ==
    IF a = None THEN 0
    ELSE IF a = chan.founder THEN 5
    ELSE IF a \in Grouped \/ chan.level[a] = "op" THEN 3
    ELSE IF chan.level[a] # "" THEN 1 ELSE 0

-----------------------------------------------------------------------------
(* What goes down. *)

Mode(m, u) == [do |-> m, on |-> u]
KickOf(u) == [do |-> "kick", on |-> u]
Give(level, u) == IF level = "op" THEN <<Mode("+o", u)>> ELSE IF level = "voice" THEN <<Mode("+v", u)>> ELSE <<>>
If(cond, acts) == IF cond THEN acts ELSE <<>>

\* The engine's picture is not told.
Send(acts) == down' = down \o acts

\* Mutant: the operator status of who left stays.
channel_part_op(p, u) == [p EXCEPT !.members = @ \ {u}, !.voices = @ \ {u}]

channel_part(p, u) == [p EXCEPT !.members = @ \ {u}, !.ops = @ \ {u}, !.voices = @ \ {u}]

set_op(p, u, gets) == [p EXCEPT !.ops = IF gets THEN @ \cup {u} ELSE @ \ {u}]

set_voice(p, u, gets) == [p EXCEPT !.voices = IF gets THEN @ \cup {u} ELSE @ \ {u}]

akick_match(n) == n \in chan.akick

\* A ban on the mask that matched; parted in the engine's own picture.
akick_hit(u, n) == <<Mode("+b", n), KickOf(u)>>

-----------------------------------------------------------------------------
(* Events. *)

\* Who arrives opped and may not be is deopped; who has no access is put out
\* of a restricted channel, or by an auto-kick; who has it gets its status.
Join(u, op) ==
    LET a      == account[u]
        p      == [seen EXCEPT !.members = @ \cup {u}, !.ops = IF op THEN @ \cup {u} ELSE @]
        quiet  == chan = None \/ chan.frozen
        mode   == channel_join_mode(a)
        strip  == op /\ (denied(a) \/ (~is_op(a) /\ "secureops" \in chan.set))
        out    == mode = None /\ "restricted" \in chan.set
        hit    == mode = None /\ akick_match(knick[u])
    IN  IF quiet THEN seen' = p /\ Send(<<>>)
        ELSE /\ seen' = IF hit /\ ~out THEN channel_part(p, u) ELSE p
             /\ Send(If(strip, <<Mode("-o", u)>>)
                     \o (IF out THEN <<KickOf(u)>>
                         ELSE IF hit THEN akick_hit(u, knick[u])
                         ELSE If("noautoop" \notin chan.set, Give(mode, u))))

\* Mutant: a voice is looked at, an operator is not.
ChannelOp_any(u, gets) == seen' = set_op(seen, u, gets) /\ Send(<<>>)

ChannelOp(u, gets) ==
    LET a == account[u]
    IN  /\ seen' = set_op(seen, u, gets)
        /\ Send(If(gets /\ chan # None /\ (denied(a) \/ ("secureops" \in chan.set /\ ~is_op(a))), <<Mode("-o", u)>>))

ChannelVoice(u, gets) ==
    LET a == account[u]
    IN  /\ seen' = set_voice(seen, u, gets)
        /\ Send(If(gets /\ chan # None /\ (denied(a) \/ ("securevoices" \in chan.set /\ join_mode(a) = None)), <<Mode("-v", u)>>))

\* PART, a kick by a user.
member_left(u) == seen' = channel_part(seen, u) /\ Send(<<>>)

\* Mutant: a nick change is not looked at.
enforce_akick_on_nick_not(u, n) == seen' = seen /\ Send(<<>>)

\* The auto-kicks once more, for who is on the channel and has no access.
enforce_akick_on_nick(u, n) ==
    IF u \in seen.members /\ chan # None /\ ~chan.frozen /\ channel_join_mode(account[u]) = None /\ akick_match(n)
    THEN seen' = channel_part(seen, u) /\ Send(akick_hit(u, n))
    ELSE seen' = seen /\ Send(<<>>)

-----------------------------------------------------------------------------
(* Commands. *)

Managed == chan # None /\ ~chan.frozen

require_op(u) == Managed /\ is_op(account[u])

peace_blocks(u, t) == "peace" \in chan.set /\ t # u /\ rank(account[t]) >= rank(account[u])

\* Mutant: anybody on the channel may.
Controls_member(u) == u \in seen.members

\* "You can only register a channel you actually control right now."
Controls(u) == u \in seen.ops

\* Mutant: without being logged in.
Register_guest(u) ==
    IF chan = None /\ Controls(u) THEN chan' = Fresh(account[u]) ELSE chan' = chan

Register(u) ==
    IF chan = None /\ account[u] # None /\ Controls(u) THEN chan' = Fresh(account[u]) ELSE chan' = chan

DropChannel(u) ==
    IF Managed /\ account[u] = chan.founder THEN chan' = None ELSE chan' = chan

\* OP, DEOP, VOICE and DEVOICE; PEACE guards only a removal.
Op(u, mode, t) ==
    If(require_op(u) /\ (mode \in {"-o", "-v"} => ~peace_blocks(u, t)), <<Mode(mode, t)>>)

Up(u) == If(chan # None /\ account[u] # None /\ u \in seen.members, Give(join_mode(account[u]), u))

Down(u) == If(chan # None /\ account[u] # None /\ u \in seen.members, <<Mode("-o", u), Mode("-v", u)>>)

Kick(u, t) == If(require_op(u) /\ ~peace_blocks(u, t), <<KickOf(t)>>)

Ban(u, t) == If(require_op(u) /\ ~peace_blocks(u, t), <<Mode("+b", t), KickOf(t)>>)

Unban(u, t) == If(require_op(u), <<Mode("-b", t)>>)

\* Each member gets its status, or is put out by an auto-kick.
Enforced(t) ==
    LET m == join_mode(account[t])
    IN  IF m # None THEN Give(m, t) ELSE If(akick_match(knick[t]), akick_hit(t, knick[t]))

Enforce(u) == If(require_op(u), FlattenSeq([i \in 1..Cardinality(seen.members) |-> Enforced(SetToSeq(seen.members)[i])]))

Acts(c) ==
    CASE c.cmd \in {"+o", "-o", "+v", "-v"} -> Op(c.by, c.cmd, c.on)
      [] c.cmd = "up"      -> Up(c.by)
      [] c.cmd = "down"    -> Down(c.by)
      [] c.cmd = "kick"    -> Kick(c.by, c.on)
      [] c.cmd = "ban"     -> Ban(c.by, c.on)
      [] c.cmd = "unban"   -> Unban(c.by, c.on)
      [] c.cmd = "enforce" -> Enforce(c.by)
      [] OTHER             -> <<>>

Command(c) ==
    /\ seen' = seen
    /\ Send(Acts(c))
    /\ CASE c.cmd = "register" -> Register(c.by)
         [] c.cmd = "drop"     -> DropChannel(c.by)
         [] OTHER              -> chan' = chan

\* The engine handles what came up first.
Handle ==
    /\ up # <<>>
    /\ up' = Tail(up)
    /\ LET e == Head(up)
       IN  /\ knick' = IF e.do = "nick" THEN [knick EXCEPT ![e.on] = e.to] ELSE knick
           /\ CASE e.do = "join"  -> Join(e.on, e.gets)
                [] e.do = "part"  -> member_left(e.on)
                [] e.do = "op"    -> ChannelOp(e.on, e.gets)
                [] e.do = "voice" -> ChannelVoice(e.on, e.gets)
                [] e.do = "nick"  -> enforce_akick_on_nick(e.on, e.to)
                [] e.do = "cmd"   -> Command(e)
           /\ e.do # "cmd" => chan' = chan
    /\ LET opped == {u \in User : \E i \in DOMAIN down' : i > Len(down) /\ down'[i] = Mode("+o", u)}
       IN  illicit' = IF chan' = chan THEN illicit \ opped ELSE {}
    /\ unwelcome' = IF chan' = chan THEN unwelcome ELSE {}
    /\ UNCHANGED <<account, nick, channel, touched, plan, spent>>

-----------------------------------------------------------------------------
(* The ircd. *)

Act(e) ==
    /\ spent < plan.ops /\ spent' = spent + 1
    /\ Len(up) < MaxQueue
    /\ up' = Append(up, e)
    /\ UNCHANGED <<chan, account, knick, seen, down, plan>>

Outlaw(u) == chan # None /\ ~chan.frozen /\ (denied(account[u]) \/ ("secureops" \in chan.set /\ ~is_op(account[u])))

\* A nick change is looked at for the auto-kicks only.
Kicked(u, n) == chan # None /\ ~chan.frozen /\ channel_join_mode(account[u]) = None /\ akick_match(n)

Barred(u) == chan # None /\ ~chan.frozen /\ channel_join_mode(account[u]) = None /\ "restricted" \in chan.set

\* Who finds the channel empty is its operator.
UserJoins(u) ==
    /\ u \notin on
    /\ nick[u] \notin bans /\ u \notin bans
    /\ Act([do |-> "join", on |-> u, gets |-> on = {}])
    /\ on' = on \cup {u}
    /\ ops' = IF on = {} THEN {u} ELSE ops
    /\ illicit' = IF on = {} /\ Outlaw(u) THEN illicit \cup {u} ELSE illicit \ {u}
    /\ unwelcome' = IF Barred(u) \/ Kicked(u, nick[u]) THEN unwelcome \cup {u} ELSE unwelcome \ {u}
    /\ UNCHANGED <<nick, voices, bans, touched>>

Leaves(u) ==
    /\ u \in on
    /\ Act([do |-> "part", on |-> u])
    /\ on' = on \ {u} /\ ops' = ops \ {u} /\ voices' = voices \ {u}
    /\ touched' = touched \ {u}
    /\ UNCHANGED <<nick, bans, illicit, unwelcome>>

UserOps(by, u, gets) ==
    /\ by \in ops /\ u \in on
    /\ (u \in ops) # gets
    /\ Act([do |-> "op", on |-> u, gets |-> gets])
    /\ ops' = IF gets THEN ops \cup {u} ELSE ops \ {u}
    /\ illicit' = IF gets /\ Outlaw(u) THEN illicit \cup {u} ELSE illicit \ {u}
    /\ UNCHANGED <<nick, on, voices, bans, touched, unwelcome>>

UserVoices(by, u, gets) ==
    /\ by \in ops /\ u \in on
    /\ (u \in voices) # gets
    /\ Act([do |-> "voice", on |-> u, gets |-> gets])
    /\ voices' = IF gets THEN voices \cup {u} ELSE voices \ {u}
    /\ UNCHANGED <<nick, on, ops, bans, history>>

ChangesNick(u, n) ==
    /\ nick[u] # n
    /\ Act([do |-> "nick", on |-> u, to |-> n])
    /\ nick' = [nick EXCEPT ![u] = n]
    /\ unwelcome' = IF u \in on /\ Kicked(u, n) THEN unwelcome \cup {u} ELSE unwelcome
    /\ UNCHANGED <<channel, touched, illicit>>

\* `held` is whether the sender is an operator as it sends, `known` whether the
\* engine was told what its status is.
Says(u, c, t) ==
    /\ Act([do |-> "cmd", cmd |-> c, by |-> u, on |-> t, held |-> u \in ops, known |-> u \notin touched])
    /\ UNCHANGED <<nick, channel, history>>

\* The next command from services.
Drain ==
    /\ down # <<>>
    /\ LET a == Head(down)
           left == IF a.do = "kick" THEN {a.on} ELSE {}
       IN  /\ on' = on \ left
           /\ ops' = CASE a.do = "+o" -> ops \cup ({a.on} \cap on) [] a.do = "-o" -> ops \ {a.on} [] OTHER -> ops \ left
           /\ voices' = CASE a.do = "+v" -> voices \cup ({a.on} \cap on) [] a.do = "-v" -> voices \ {a.on} [] OTHER -> voices \ left
           /\ bans' = CASE a.do = "+b" -> bans \cup {a.on} [] a.do = "-b" -> bans \ {a.on} [] OTHER -> bans
           /\ touched' = IF a.do \in {"+b", "-b"} THEN touched ELSE touched \cup ({a.on} \cap on)
    /\ down' = Tail(down)
    /\ UNCHANGED <<chan, account, nick, knick, seen, up, illicit, unwelcome, plan, spent>>

-----------------------------------------------------------------------------
(* The registration, and logins. *)

\* Rules that change say nothing of who is there already.
Rules ==
    /\ spent < plan.ops /\ spent' = spent + 1
    /\ illicit' = {} /\ unwelcome' = {}
    /\ UNCHANGED <<nick, knick, channel, seen, up, down, touched, plan>>

SetOption(o) == Managed /\ chan' = [chan EXCEPT !.set = IF o \in @ THEN @ \ {o} ELSE @ \cup {o}] /\ Rules /\ UNCHANGED account

Access(a, l) == Managed /\ chan.level[a] # l /\ chan' = [chan EXCEPT !.level[a] = l] /\ Rules /\ UNCHANGED account

Akick == Managed /\ chan' = [chan EXCEPT !.akick = {"bad"} \ @] /\ Rules /\ UNCHANGED account

Suspend == chan # None /\ chan' = [chan EXCEPT !.frozen = ~@] /\ Rules /\ UNCHANGED account

Login(u, a) == account[u] # a /\ account' = [account EXCEPT ![u] = a] /\ Rules /\ UNCHANGED chan

Init ==
    /\ \E f \in Account, set \in {{"secureops", "peace"}, {"restricted", "peace"}} :
          chan \in {None, [Fresh(f) EXCEPT !.set = set, !.akick = {"bad"}]}
    /\ account \in [User -> Account \cup {None}]
    /\ nick = [u \in User |-> "plain"] /\ knick = nick
    /\ on \in {{}, User} /\ ops \in SUBSET on /\ voices = {} /\ bans = {}
    /\ seen = [members |-> on, ops |-> ops, voices |-> voices]
    /\ up = <<>> /\ down = <<>>
    /\ touched = {} /\ illicit = {} /\ unwelcome = {}
    /\ plan \in Plans /\ spent = 0

Next ==
    \/ \E u \in User :
          \/ UserJoins(u) \/ Leaves(u)
          \/ \E by \in User, gets \in BOOLEAN : UserOps(by, u, gets) \/ UserVoices(by, u, gets)
          \/ \E n \in {"plain", "bad"} : ChangesNick(u, n)
          \/ \E c \in plan.asks \cap {"register", "drop", "up", "down", "enforce"} : Says(u, c, u)
          \/ \E c \in plan.asks \cap {"+o", "-o", "+v", "-v", "kick", "ban", "unban"}, t \in User : Says(u, c, t)
          \/ \E a \in Account \cup {None} : Login(u, a)
    \/ \E o \in Settable : SetOption(o)
    \/ \E a \in Account, l \in Level \ {"voice"} : Access(a, l)
    \/ Akick \/ Suspend \/ Handle \/ Drain

Spec == Init /\ [][Next]_vars

-----------------------------------------------------------------------------

\* At the ircd status is of those on the channel, and the engine's picture of
\* a channel without a registration is kept like any other.
TypeOK ==
    /\ ops \cup voices \subseteq on /\ on \subseteq User
    /\ seen \in [members : SUBSET User, ops : SUBSET User, voices : SUBSET User]
    /\ chan # None => chan.founder \in Account /\ chan.set \subseteq Setting /\ chan.akick \subseteq {"bad"}
    /\ Len(up) <= MaxQueue /\ spent \in 0..plan.ops

Quiet == up = <<>> /\ down = <<>>

\* Once all is handled and carried out, the engine's picture of a user is the
\* ircd's, unless the engine changed it itself since the user last left.
PictureAgrees ==
    Quiet => \A u \in User \ touched :
                /\ u \in seen.members <=> u \in on
                /\ u \in seen.ops <=> u \in ops
                /\ u \in seen.voices <=> u \in voices

\* Who was opped by a user against SECUREOPS or a denial, and not by services
\* after that, does not stay an operator, whatever crossed on the way.
NoIllicitOps == Quiet => illicit \cap ops = {}

\* Who came, or took a nick, that an auto-kick or RESTRICTED bars from the
\* channel does not stay on it, while the rules stay what they were.
UnwelcomeLeave == Quiet => unwelcome \cap on = {}

\* A channel is registered by who was its operator when asking for it, unless
\* services changed its status without noting it.
RegisteredByItsOp ==
    chan = None /\ chan' # None /\ Head(up).known => Head(up).held

\* "You can only register a channel you actually control right now."
RegistersWhatItHolds == chan = None /\ chan' # None => Head(up).held
===============================================================================
