-------------------------------- MODULE Nicks --------------------------------
(***************************************************************************)
(* Nick protection (src/src/engine/mod.rs, modules/nickserv).  A user who  *)
(* arrives on a registered nick without being identified to its owner is   *)
(* warned and, when the grace period has passed, renamed to a guest nick.  *)
(*                                                                         *)
(* Services see the network through a mirror that the uplink feeds, and    *)
(* rename through the same link, so both directions are queues: up carries *)
(* what the ircd reports, down what services ask for.  The ircd (external) *)
(* applies a forced rename when it arrives, falls back to the uid when the *)
(* nick is taken, and reports the change like any other.                   *)
(*                                                                         *)
(* A command is read with nothing ahead of it in up: what the ircd reports *)
(* after a command cannot influence how the command is served.             *)
(***************************************************************************)
EXTENDS Naturals, Sequences, FiniteSets, SequencesExt

CONSTANTS User, Account, RegNick, PlainNick, Gone, None,
          Owner0,       \* who owns each registered nick at the start
          NickServSeq,  \* where NickServ's own guest counter starts
          MaxSteps      \* bound on what users and operators do

ASSUME UserAssumption ==
    IsFiniteSet(User) /\ NickServSeq \in Nat /\ MaxSteps \in Nat
ASSUME OwnerAssumption == Owner0 \in [RegNick -> Account \union {None}]
(* Being gone is no nick, nor a uid, nor a guest nick.                     *)
ASSUME GoneAssumption ==
    Gone \notin RegNick \union PlainNick \union User \union ({"guest"} \X Nat)

VARIABLES
    at,       \* the ircd: each user's nick, or Gone
    meta,     \* the ircd: the account name it holds for each user
    up, down, \* the link, in both directions
    mirror,   \* services: each user's nick, or Gone
    account,  \* services: each user's account, or None
    pending,  \* armed renames, in the order they were armed
    owner,    \* registered nick -> account, or None once dropped
    protect,  \* account -> nick protection on
    synced,   \* the uplink's burst is over
    seq,      \* the two guest counters
    warned,   \* history: the nick a user was warned about during this visit
    steps

vars == <<at, meta, up, down, mirror, account, pending, owner, protect,
          synced, seq, warned, steps>>
ircd == <<at, meta, up>>
store == <<owner, protect>>

Guest(k) == <<"guest", k>>
Wearable == RegNick \union PlainNick
resolve_account(n) == IF n \in RegNick THEN owner[n] ELSE None
wants_protect(a) == a # None /\ (a \in Account => protect[a])

Pending == [uid : User, nick : RegNick, due : BOOLEAN]

(* The entries of s that are in keep, in their order (Vec::retain).        *)
retain(s, keep) == FlattenSeq([i \in DOMAIN s |-> IF s[i] \in keep THEN <<s[i]>> ELSE << >>])
Without(p, u) == retain(p, {e \in Range(p) : e.uid # u})
Online(n) == \E u \in User : mirror[u] = n
HolderOf(n) == {u \in User : mirror[u] = n}

(* The first number from k on whose guest nick nobody in the mirror wears. *)
FreeFrom(k) == CHOOSE j \in k..(k + Cardinality(User)) :
                   /\ ~Online(Guest(j))
                   /\ \A i \in k..(j - 1) : Online(Guest(i))

ForceNick(u, n) == [op |-> "nick", uid |-> u, nick |-> n]
SetAccount(u, a) == [op |-> "account", uid |-> u, account |-> a]
Report(kind, u, n) == [op |-> kind, uid |-> u, nick |-> n]

(* The burst of a fresh link: every user, its account name, end of burst.  *)
Burst ==
    LET users == SetToSeq({u \in User : at[u] # Gone})
    IN  FlattenSeq([i \in DOMAIN users |->
            <<Report("burst", users[i], at[users[i]])>> \o
            (IF meta[users[i]] = None THEN << >>
             ELSE <<SetAccount(users[i], meta[users[i]])>>)])
        \o <<[op |-> "endburst"]>>

Act == steps < MaxSteps /\ steps' = steps + 1

(* ------------------------------------------------- the ircd and its users *)
Connect(u, n) ==
    /\ Act /\ at[u] = Gone /\ \A v \in User : at[v] # n
    /\ at' = [at EXCEPT ![u] = n]
    /\ up' = Append(up, Report("connect", u, n))
    /\ UNCHANGED <<meta, down, mirror, account, pending, store, synced, seq,
                   warned>>

ChangeNick(u, n) ==
    /\ Act /\ at[u] # Gone /\ \A v \in User : at[v] # n
    /\ at' = [at EXCEPT ![u] = n]
    /\ up' = Append(up, Report("nick", u, n))
    /\ UNCHANGED <<meta, down, mirror, account, pending, store, synced, seq,
                   warned>>

Quit(u) ==
    /\ Act /\ at[u] # Gone
    /\ at' = [at EXCEPT ![u] = Gone]
    /\ meta' = [meta EXCEPT ![u] = None]
    /\ up' = Append(up, Report("quit", u, at[u]))
    /\ UNCHANGED <<down, mirror, account, pending, store, synced, seq, warned>>

(* A message from services arrives: a rename to a nick somebody else wears *)
(* falls back to the uid, one for a user who has left is dropped.          *)
Arrive ==
    /\ down # << >>
    /\ LET d == Head(down)
           n == IF d.op # "nick" THEN None
                ELSE IF \E v \in User \ {d.uid} : at[v] = d.nick THEN d.uid
                ELSE d.nick
           moved == d.op = "nick" /\ at[d.uid] \notin {Gone, n}
       IN  /\ at' = IF moved THEN [at EXCEPT ![d.uid] = n] ELSE at
           /\ up' = IF moved THEN Append(up, Report("nick", d.uid, n)) ELSE up
           /\ meta' = IF d.op = "account" /\ at[d.uid] # Gone
                      THEN [meta EXCEPT ![d.uid] = d.account] ELSE meta
    /\ down' = Tail(down)
    /\ UNCHANGED <<mirror, account, pending, store, synced, seq, warned, steps>>

(* -------------------------------------------- services: what they are told *)
(* enforce_registered_nick: warn and arm, once the burst is over.          *)
MustIdentify_any(u, n) ==   \* an unregistered nick has an owner too: None
    synced /\ account[u] # resolve_account(n)

MustIdentify(u, n) ==
    /\ synced
    /\ resolve_account(n) # None
    /\ account[u] # resolve_account(n)
    /\ wants_protect(resolve_account(n))

enforce_registered_nick(u, n, p) ==
    IF MustIdentify(u, n)
    THEN Append(Without(p, u), [uid |-> u, nick |-> n, due |-> FALSE])
    ELSE p

UserConnect(e) ==
    /\ mirror' = [mirror EXCEPT ![e.uid] = e.nick]
    /\ pending' = enforce_registered_nick(e.uid, e.nick, pending)
    /\ warned' = [warned EXCEPT ![e.uid] =
                     IF MustIdentify(e.uid, e.nick) THEN e.nick ELSE None]
    /\ UNCHANGED <<account, synced>>

NickChange_kept(e) ==   \* the armed rename survives leaving the nick
    /\ mirror' = [mirror EXCEPT ![e.uid] = e.nick]
    /\ pending' = enforce_registered_nick(e.uid, e.nick, pending)
    /\ warned' = [warned EXCEPT ![e.uid] =
                     IF MustIdentify(e.uid, e.nick) THEN e.nick ELSE None]
    /\ UNCHANGED <<account, synced>>

NickChange(e) ==
    /\ mirror' = [mirror EXCEPT ![e.uid] = e.nick]
    /\ pending' = enforce_registered_nick(e.uid, e.nick,
                                          Without(pending, e.uid))
    /\ warned' = [warned EXCEPT ![e.uid] =
                     IF MustIdentify(e.uid, e.nick) THEN e.nick ELSE None]
    /\ UNCHANGED <<account, synced>>

forget_user_armed(e) ==   \* a rename armed for a user who has left stays
    /\ mirror' = [mirror EXCEPT ![e.uid] = Gone]
    /\ account' = [account EXCEPT ![e.uid] = None]
    /\ warned' = [warned EXCEPT ![e.uid] = None]
    /\ UNCHANGED <<pending, synced>>

forget_user(e) ==
    /\ mirror' = [mirror EXCEPT ![e.uid] = Gone]
    /\ account' = [account EXCEPT ![e.uid] = None]
    /\ pending' = Without(pending, e.uid)
    /\ warned' = [warned EXCEPT ![e.uid] = None]
    /\ UNCHANGED synced

AccountLogin(e) ==
    /\ account' = [account EXCEPT ![e.uid] = e.account]
    /\ pending' = Without(pending, e.uid)
    /\ UNCHANGED <<mirror, warned, synced>>

EndBurst == synced' = TRUE /\ UNCHANGED <<mirror, account, pending, warned>>

Deliver ==
    /\ up # << >>
    /\ LET e == Head(up)
       IN  \/ e.op \in {"connect", "burst"} /\ UserConnect(e)
           \/ e.op = "nick" /\ NickChange(e)
           \/ e.op = "quit" /\ forget_user(e)
           \/ e.op = "account" /\ AccountLogin(e)
           \/ e.op = "endburst" /\ EndBurst
    /\ up' = Tail(up)
    /\ UNCHANGED <<at, meta, down, store, seq, steps>>

(* ------------------------------------------------------- the rename timer *)
(* Grace is the same for everyone, so deadlines pass in arming order.      *)
Elapse ==
    /\ \E i \in DOMAIN pending :
          /\ ~pending[i].due
          /\ \A j \in 1..(i - 1) : pending[j].due
          /\ pending' = [pending EXCEPT ![i].due = TRUE]
    /\ UNCHANGED <<ircd, down, mirror, account, store, synced, seq, warned,
                   steps>>

still_there(p) == mirror[p.uid] = p.nick
identified(p) == account[p.uid] = resolve_account(p.nick)
wants(p) == wants_protect(resolve_account(p.nick))

Fires_unasked(p) == still_there(p) /\ ~identified(p)   \* KILL OFF came too late
Fires(p) == still_there(p) /\ ~identified(p) /\ wants(p)

(* The renames of a list of users: one fresh guest nick after the other.   *)
Renames(us, k) ==
    LET num[i \in 0..Len(us)] ==
            IF i = 0 THEN k ELSE FreeFrom(num[i - 1]) + 1
    IN  [msgs |-> [i \in DOMAIN us |-> ForceNick(us[i], Guest(num[i] - 1))],
         next |-> num[Len(us)]]

Undue(p) == retain(p, {e \in Range(p) : ~e.due})
Fired(p) == LET hit == retain(p, {e \in Range(p) : e.due /\ Fires(e)})
            IN  [i \in DOMAIN hit |-> hit[i].uid]

FirstN(s, k) == [i \in 1..(IF Len(s) < k THEN Len(s) ELSE k) |-> s[i]]

enforce_sweep_first ==   \* only the first of the renames due is carried out
    LET r == Renames(FirstN(Fired(pending), 1), seq.sweep)
    IN  /\ down' = down \o r.msgs
        /\ seq' = [seq EXCEPT !.sweep = r.next]
        /\ pending' = Undue(pending)

enforce_sweep ==
    LET r == Renames(Fired(pending), seq.sweep)
    IN  /\ down' = down \o r.msgs
        /\ seq' = [seq EXCEPT !.sweep = r.next]
        /\ pending' = Undue(pending)

(* The sweep; a user it excuses is no longer under a warning.              *)
Sweep ==
    /\ \E i \in DOMAIN pending : pending[i].due
    /\ enforce_sweep
    /\ warned' = [u \in User |->
           IF \E i \in DOMAIN pending : pending[i].uid = u /\ pending[i].due
                                        /\ ~Fires(pending[i])
           THEN None ELSE warned[u]]
    /\ UNCHANGED <<ircd, mirror, account, store, synced, steps>>

(* ------------------------------------------------------ NickServ commands *)
Command(u) == Act /\ up = << >> /\ mirror[u] # Gone

(* track_accounts: every accountname services send, for whichever account, *)
(* updates the mirror; a login cancels the armed rename.                   *)
LogIn(u, a) ==
    /\ account' = [account EXCEPT ![u] = a]
    /\ pending' = Without(pending, u)

Identify(u, a) ==
    /\ Command(u) /\ account[u] # a /\ \E n \in RegNick : owner[n] = a
    /\ LogIn(u, a)
    /\ down' = Append(down, SetAccount(u, a))
    /\ UNCHANGED <<ircd, mirror, store, synced, seq, warned>>

Logout(u) ==
    /\ Command(u) /\ account[u] # None
    /\ LET r == Renames(<<u>>, seq.nickserv)
       IN  /\ down' = down \o <<SetAccount(u, None)>> \o r.msgs
           /\ seq' = [seq EXCEPT !.nickserv = r.next]
    /\ account' = [account EXCEPT ![u] = None]
    /\ UNCHANGED <<ircd, mirror, pending, store, synced, warned>>

(* GHOST and RECOVER of a nick whose account the caller is identified to   *)
(* or knows the password of: free it, and for RECOVER take it.             *)
Free(n, u, k) == Renames(SetToSeq(HolderOf(n) \ {u}), k)

ghost(u, n, regain) ==
    /\ Command(u) /\ resolve_account(n) # None
    /\ mirror[u] # n
    /\ ~regain => HolderOf(n) # {}
    /\ LET r == Free(n, u, seq.nickserv)
       IN  /\ down' = down \o r.msgs \o
                      (IF regain THEN <<ForceNick(u, n)>> ELSE << >>)
           /\ seq' = [seq EXCEPT !.nickserv = r.next]
    /\ UNCHANGED <<ircd, mirror, account, pending, store, synced, warned>>

(* LOGIN: identify, then recover_nick, which draws on the sweep's counter. *)
Login(u, n) ==
    /\ Command(u) /\ resolve_account(n) # None
    /\ account[u] # resolve_account(n)
    /\ LogIn(u, resolve_account(n))
    /\ LET r == Free(n, u, seq.sweep)
       IN  /\ down' = down \o <<SetAccount(u, resolve_account(n))>> \o r.msgs \o
                      (IF mirror[u] # n THEN <<ForceNick(u, n)>> ELSE << >>)
           /\ seq' = [seq EXCEPT !.sweep = r.next]
    /\ UNCHANGED <<ircd, mirror, store, synced, warned>>

(* SASL logs a client in before the ircd introduces it.                    *)
SaslLogin(u, a) ==
    /\ Act /\ up = << >> /\ mirror[u] = Gone /\ at[u] = Gone
    /\ account[u] = None /\ \E n \in RegNick : owner[n] = a
    /\ LogIn(u, a)
    /\ meta' = [meta EXCEPT ![u] = a]
    /\ UNCHANGED <<at, up, down, mirror, store, synced, seq, warned>>

SetKill(a) ==
    /\ Act /\ \E n \in RegNick : owner[n] = a
    /\ protect' = [protect EXCEPT ![a] = ~@]
    /\ UNCHANGED <<ircd, down, mirror, account, pending, owner, synced, seq,
                   warned>>

(* DROP: the names are free and every session of the account is logged     *)
(* out where it stands.                                                    *)
DropAccount(a) ==
    /\ Act /\ \E n \in RegNick : owner[n] = a
    /\ owner' = [n \in RegNick |-> IF owner[n] = a THEN None ELSE owner[n]]
    /\ account' = [u \in User |-> IF account[u] = a THEN None ELSE account[u]]
    /\ down' = down \o LET out == SetToSeq({u \in User : account[u] = a})
                       IN  [i \in DOMAIN out |-> SetAccount(out[i], None)]
    /\ UNCHANGED <<ircd, mirror, pending, protect, synced, seq, warned>>

(* The process leaves with its link and starts again on a fresh burst.     *)
Restart ==
    /\ Act
    /\ up' = Burst /\ down' = << >>
    /\ mirror' = [u \in User |-> Gone]
    /\ account' = [u \in User |-> None]
    /\ pending' = << >> /\ synced' = FALSE
    /\ seq' = [nickserv |-> NickServSeq, sweep |-> 0]
    /\ warned' = [u \in User |-> None]
    /\ UNCHANGED <<at, meta, store>>

Init ==
    /\ at = [u \in User |-> Gone] /\ meta = [u \in User |-> None]
    /\ up = << >> /\ down = << >>
    /\ mirror = [u \in User |-> Gone] /\ account = [u \in User |-> None]
    /\ pending = << >>
    /\ owner = Owner0 /\ protect = [a \in Account |-> TRUE]
    /\ synced = TRUE
    /\ seq = [nickserv |-> NickServSeq, sweep |-> 0]
    /\ warned = [u \in User |-> None]
    /\ steps = 0

Users == \E u \in User : \/ \E n \in Wearable : Connect(u, n) \/ ChangeNick(u, n)
                         \/ Quit(u)
Commands == \E u \in User :
    \/ \E a \in Account : Identify(u, a) \/ SaslLogin(u, a)
    \/ Logout(u)
    \/ \E n \in RegNick : Login(u, n) \/ \E regain \in BOOLEAN : ghost(u, n, regain)
Staff == Restart \/ \E a \in Account : SetKill(a) \/ DropAccount(a)

Next == Users \/ Arrive \/ Deliver \/ Elapse \/ Sweep \/ Commands \/ Staff

Spec == Init /\ [][Next]_vars
(* The link delivers in both directions, time passes, and main sweeps      *)
(* every five seconds.                                                     *)
FairSpec == Spec /\ WF_vars(Arrive) /\ WF_vars(Deliver)
                 /\ WF_vars(Elapse) /\ WF_vars(Sweep)

-----------------------------------------------------------------------------
AnyNick == Wearable \union User \union ({"guest"} \X Nat)

(* Types.                                                                  *)
TypeOK ==
    /\ at \in [User -> AnyNick \union {Gone}]
    /\ mirror \in [User -> AnyNick \union {Gone}]
    /\ meta \in [User -> Account \union {None}]
    /\ account \in [User -> Account \union {None}]
    /\ pending \in Seq(Pending)
    /\ owner \in [RegNick -> Account \union {None}]
    /\ protect \in [Account -> BOOLEAN] /\ synced \in BOOLEAN
    /\ warned \in [User -> RegNick \union {None}]
    /\ steps \in 0..MaxSteps

(* PendingEnforce entries: at most one per uid, for a user who is there,   *)
(* and for the nick that user was warned about during this very visit; no  *)
(* timer survives a departure or a nick change to strike the uid's next    *)
(* holder or a later visit.                                                *)
TimersAreCurrent ==
    /\ \A i, j \in DOMAIN pending : pending[i].uid = pending[j].uid => i = j
    /\ \A i \in DOMAIN pending :
          LET p == pending[i] IN warned[p.uid] = p.nick /\ mirror[p.uid] = p.nick

(* Reports still on their way that move or remove u, or a rename for it.   *)
OnTheMove(u) ==
    \/ \E i \in DOMAIN up : up[i].op \in {"nick", "quit"} /\ up[i].uid = u
    \/ \E i \in DOMAIN down : down[i].op = "nick" /\ down[i].uid = u

Squats(u) == /\ warned[u] # None /\ resolve_account(warned[u]) # None
             /\ account[u] # resolve_account(warned[u])
             /\ wants_protect(resolve_account(warned[u]))
Armed(u) == \E i \in DOMAIN pending : pending[i].uid = u

(* The sweep renames only a user who still wears the nick it was warned    *)
(* about, is still not identified to the nick's owner, and whose owner     *)
(* still protects the nick; the guest nick is free as far as anyone knows. *)
OnlyTheUnidentified ==
    [][Sweep => \A i \in (Len(down) + 1)..Len(down') :
          LET u == down'[i].uid
          IN  /\ warned[u] = mirror[u]
              /\ account[u] # resolve_account(mirror[u])
              /\ wants_protect(resolve_account(mirror[u]))
              /\ ~Online(down'[i].nick)]_vars

(* Whoever is warned with the timer armed leaves the nick, logs in, or the *)
(* nick loses its owner's protection; the sweep forgets nobody.            *)
WarnedMoveOn ==
    \A u \in User : \A n \in RegNick :
        (Armed(u) /\ warned[u] = n) ~>
            (warned[u] # n \/ account[u] # None \/ ~Squats(u))

(* The comment on PendingEnforce, word for word: a warned user who is not  *)
(* identified to the nick's owner stays under the timer until it is moved. *)
SquattersStayArmed ==
    \A u \in User : Squats(u) => Armed(u) \/ OnTheMove(u)
=============================================================================
