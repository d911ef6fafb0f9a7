-------------------------------- MODULE Vhosts --------------------------------
(***************************************************************************)
(* HostServ: the vhosts of accounts, requests, the menu of offers, the     *)
(* forbidden hosts and the template; and the hosts that users show at the  *)
(* ircd. A user connects with a cloak. Services remember the host a user   *)
(* was introduced with (`cloak`), which after a relink is the host shown   *)
(* then.                                                                   *)
(***************************************************************************)
EXTENDS Naturals, Sequences, FiniteSets, SequencesExt

CONSTANTS
    Name,          \* accounts
    User,
    Start,         \* the account each is logged in to at first, or None
    Host,          \* vhosts
    Own,           \* the host the template gives each account
    Cloak,         \* the host users connect with
    None,
    Forever,       \* the life of a permanent vhost
    Cooldown,      \* seconds between two requests of an account (60 in the code)
    MaxNow,        \* bound: seconds
    MaxOps         \* bound: commands, compactions, restarts

VARIABLES
    mem,           \* [vhost, want, offers, forbidden, template]: the store
    log,           \* the events
    asked,         \* vhost_req_times
    sess,          \* who is logged in to what
    cloak,         \* the host the mirror has for a user
    shown,         \* the host the ircd shows
    ro,            \* EventLog.readonly
    now,
    hist           \* [lapsed, by, spent]: histories and the bound

vars == <<mem, log, asked, sess, cloak, shown, ro, now, hist>>

EmptyMem ==
    [vhost |-> [a \in Name |-> None], want |-> [a \in Name |-> None],
     offers |-> <<>>, forbidden |-> {}, template |-> FALSE]

-----------------------------------------------------------------------------
(* The log. Accounts are snapshot whole. *)

apply(m, e) ==
    CASE e.type = "vhost"     -> [m EXCEPT !.vhost[e.who] = e.vhost]
      [] e.type = "want"      -> [m EXCEPT !.want[e.who] = e.host]
      [] e.type = "offer"     -> [m EXCEPT !.offers = IF Contains(@, e.host) THEN @ ELSE Append(@, e.host)]
      [] e.type = "unoffer"   -> [m EXCEPT !.offers = Remove(@, e.host)]
      [] e.type = "forbid"    -> [m EXCEPT !.forbidden = @ \cup {e.host}]
      [] e.type = "unforbid"  -> [m EXCEPT !.forbidden = @ \ {e.host}]
      [] e.type = "template"  -> [m EXCEPT !.template = e.on]
      [] e.type = "dropped"   -> [m EXCEPT !.vhost[e.who] = None, !.want[e.who] = None]
      [] e.type = "accounts"  -> [m EXCEPT !.vhost = e.vhost, !.want = e.want]

Replay(events) == FoldLeft(apply, EmptyMem, events)

Accounts(m) == <<[type |-> "accounts", vhost |-> m.vhost, want |-> m.want]>>
Offers(m) == [i \in DOMAIN m.offers |-> [type |-> "offer", host |-> m.offers[i]]]
Template(m) == IF m.template THEN <<[type |-> "template", on |-> TRUE]>> ELSE <<>>

\* Mutant: the forbidden hosts are not written.
Snapshot_allowed(m) == Accounts(m) \o Offers(m) \o Template(m)

\* Compaction.
Snapshot(m) ==
    Accounts(m) \o Offers(m)
    \o SetToSeq({[type |-> "forbid", host |-> h] : h \in m.forbidden})
    \o Template(m)

-----------------------------------------------------------------------------

Spend(by) == hist.spent < MaxOps /\ hist' = [hist EXCEPT !.spent = @ + 1, !.by = by]

\* Every write of HostServ is strict.
Write(e) == ~ro /\ mem' = apply(mem, e) /\ log' = Append(log, e)

Active(m, a) ==
    IF m.vhost[a] # None /\ m.vhost[a].life > now THEN m.vhost[a].host ELSE None

\* Mutant: accounts whose vhost was an operator's gift are passed over.
vhost_owners_menu(h) == {a \in Name : Active(mem, a) = h /\ mem.vhost[a].life = Forever}

\* Those whose vhost is h.
vhost_owners(h) == {a \in Name : Active(mem, a) = h}

\* prepare_vhost.
Free(h, a) == vhost_owners(h) \subseteq {a}

Sessions(a) == {u \in User : sess[u] = a}

Shows(users, h) == shown' = [u \in User |-> IF u \in users THEN h ELSE shown[u]]

\* Hosts that others may now have while a session still shows them.
Leave(users, a, h) ==
    {shown[u] : u \in Sessions(a) \ users} \ {h, Cloak}

\* set_vhost, applied to some of the account's sessions.
Give(a, h, life, users, by) ==
    /\ hist.spent < MaxOps
    /\ hist' = [hist EXCEPT !.spent = @ + 1, !.by = by,
                            !.lapsed = @ \cup Leave(users, a, h)]
    /\ Write([type |-> "vhost", who |-> a, vhost |-> [host |-> h, life |-> life]])
    /\ Shows(users, h)

Rest == UNCHANGED <<asked, sess, cloak, ro, now>>

\* SET, by an operator, who may override the forbidden list.
Set(a, h, ttl) ==
    /\ Free(h, a)
    /\ Give(a, h, IF ttl = Forever THEN Forever ELSE now + ttl, Sessions(a), "oper")
    /\ Rest

\* Mutant: the sessions keep what they show.
Del_shown(a) ==
    /\ mem.vhost[a] # None
    /\ Spend("oper")
    /\ Write([type |-> "vhost", who |-> a, vhost |-> None])
    /\ UNCHANGED shown /\ Rest

\* DEL, an expired one too.
Del(a) ==
    /\ mem.vhost[a] # None
    /\ Spend("oper")
    /\ Write([type |-> "vhost", who |-> a, vhost |-> None])
    /\ shown' = [u \in User |-> IF sess[u] = a THEN cloak[u] ELSE shown[u]]
    /\ Rest

\* TAKE an offer by its number, for the session that asks.
Take(u, i) ==
    /\ sess[u] # None /\ i \in DOMAIN mem.offers
    /\ LET h == mem.offers[i]
       IN  Free(h, sess[u]) /\ h \notin mem.forbidden /\ Give(sess[u], h, Forever, {u}, "user")
    /\ Rest

\* DEFAULT, from the template.
Default(u) ==
    /\ sess[u] # None /\ mem.template
    /\ LET h == Own[sess[u]]
       IN  Free(h, sess[u]) /\ h \notin mem.forbidden /\ Give(sess[u], h, Forever, {u}, "user")
    /\ Rest

\* REQUEST: at most one per cooldown; a new one replaces the old.
Request(u, h) ==
    LET a == sess[u]
    IN  /\ a # None /\ Free(h, a) /\ h \notin mem.forbidden
        /\ (asked[a] # None => now - asked[a] >= Cooldown)
        /\ Spend("user")
        /\ Write([type |-> "want", who |-> a, host |-> h])
        /\ asked' = [asked EXCEPT ![a] = now]
        /\ UNCHANGED <<sess, cloak, shown, ro, now>>

\* Mutant: what was fine when it was requested is still.
Allowed_then(h) == TRUE

\* The forbidden list may have grown since.
Allowed(h) == h \notin mem.forbidden

\* Mutant: the request is read after it was cleared.
Activate_cleared(a) ==
    LET taken == [type |-> "want", who |-> a, host |-> None]
        given == [type |-> "vhost", who |-> a, vhost |-> [host |-> apply(mem, taken).want[a], life |-> Forever]]
    IN  /\ mem.want[a] # None /\ ~ro
        /\ Spend("approve")
        /\ mem' = apply(apply(mem, taken), given)
        /\ log' = log \o <<taken, given>>
        /\ UNCHANGED shown /\ Rest

\* ACTIVATE: the request is taken first, and is gone even if the host is not
\* free or not allowed any more.
Activate(a) ==
    LET h == mem.want[a]
        taken == [type |-> "want", who |-> a, host |-> None]
        given == [type |-> "vhost", who |-> a, vhost |-> [host |-> h, life |-> Forever]]
    IN  /\ h # None /\ ~ro
        /\ Spend("approve")
        /\ \/ /\ Free(h, a) /\ Allowed(h)
              /\ mem' = apply(apply(mem, taken), given)
              /\ log' = log \o <<taken, given>>
              /\ Shows(Sessions(a), h)
           \/ /\ ~Free(h, a) \/ ~Allowed(h)
              /\ Write(taken)
              /\ UNCHANGED shown
        /\ Rest

Reject(a) ==
    /\ mem.want[a] # None
    /\ Spend("oper")
    /\ Write([type |-> "want", who |-> a, host |-> None])
    /\ UNCHANGED shown /\ Rest

\* OFFER, OFFERDEL, FORBID, FORBIDDEL, TEMPLATE.
Configure ==
    /\ Spend("oper")
    /\ \/ \E h \in Host : ~Contains(mem.offers, h) /\ Write([type |-> "offer", host |-> h])
       \/ \E i \in DOMAIN mem.offers : Write([type |-> "unoffer", host |-> mem.offers[i]])
       \/ \E h \in Host \ mem.forbidden : Write([type |-> "forbid", host |-> h])
       \/ \E h \in mem.forbidden : Write([type |-> "unforbid", host |-> h])
       \/ Write([type |-> "template", on |-> ~mem.template])
    /\ UNCHANGED shown /\ Rest

\* ON and UPDATE; OFF.
On(u) ==
    /\ sess[u] # None /\ Active(mem, sess[u]) # None
    /\ Spend("user")
    /\ Shows({u}, Active(mem, sess[u]))
    /\ UNCHANGED <<mem, log>> /\ Rest

Off(u) ==
    /\ sess[u] # None /\ Active(mem, sess[u]) # None
    /\ Spend("user")
    /\ Shows({u}, cloak[u])
    /\ UNCHANGED <<mem, log>> /\ Rest

\* A login applies the vhost, and leaves the host alone if there is none, also
\* that of the account it replaces.
Identify(u, a) ==
    /\ sess[u] # a
    /\ hist.spent < MaxOps
    /\ hist' = [hist EXCEPT !.spent = @ + 1, !.by = "user",
                            !.lapsed = @ \cup (IF Active(mem, a) = None THEN {shown[u]} \ {Cloak} ELSE {})]
    /\ sess' = [sess EXCEPT ![u] = a]
    /\ IF Active(mem, a) = None THEN UNCHANGED shown ELSE Shows({u}, Active(mem, a))
    /\ UNCHANGED <<mem, log, asked, cloak, ro, now>>

\* Mutant: the host is not looked at.
vhost_restore_never(u) == shown[u]

\* The host a session gets back when it logs out; an account without a vhost
\* has nothing to give back.
vhost_restore(u) == IF Active(mem, sess[u]) = None THEN shown[u] ELSE cloak[u]

\* LOGOUT, and logouts decided elsewhere (logout_uid).
Logout(u) ==
    /\ sess[u] # None
    /\ Spend("user")
    /\ sess' = [sess EXCEPT ![u] = None]
    /\ Shows({u}, vhost_restore(u))
    /\ UNCHANGED <<mem, log, asked, cloak, ro, now>>

\* The account goes; its sessions are logged out, showing what they showed.
DropAccount(a) ==
    /\ hist.spent < MaxOps
    /\ hist' = [hist EXCEPT !.spent = @ + 1, !.by = "drop",
                            !.lapsed = @ \cup ({shown[u] : u \in Sessions(a)} \ {Cloak})]
    /\ Write([type |-> "dropped", who |-> a])
    /\ sess' = [u \in User |-> IF sess[u] = a THEN None ELSE sess[u]]
    /\ UNCHANGED <<asked, cloak, shown, ro, now>>

\* Time passes; a vhost may expire, and those who show it keep it.
Tick ==
    /\ now < MaxNow
    /\ now' = now + 1
    /\ hist' = [hist EXCEPT !.lapsed = @ \cup
                  {mem.vhost[a].host : a \in {a \in Name : mem.vhost[a] # None /\ mem.vhost[a].life = now + 1}}]
    /\ UNCHANGED <<mem, log, asked, sess, cloak, shown, ro>>

SetReadonly == Spend("oper") /\ ro' = ~ro /\ UNCHANGED <<mem, log, asked, sess, cloak, shown, now>>

Compact ==
    /\ Spend("oper")
    /\ log' = Snapshot(mem)
    /\ UNCHANGED <<mem, asked, sess, cloak, shown, ro, now>>

\* The process ends with its link. The next one is told of every user, with
\* the host he shows and the account he is logged in to.
Restart ==
    /\ hist.spent < MaxOps
    /\ hist' = [hist EXCEPT !.spent = @ + 1, !.by = "restart",
                            !.lapsed = @ \cup ({shown[u] : u \in User} \ {Cloak})]
    /\ mem' = Replay(log)
    /\ cloak' = shown
    /\ asked' = [a \in Name |-> None]
    /\ ro' = FALSE
    /\ UNCHANGED <<log, sess, shown, now>>

-----------------------------------------------------------------------------
Init ==
    /\ mem = EmptyMem
    /\ log = <<>>
    /\ asked = [a \in Name |-> None]
    /\ sess = Start
    /\ cloak = [u \in User |-> Cloak]
    /\ shown = cloak
    /\ ro = FALSE
    /\ now = 1
    /\ hist = [lapsed |-> {}, by |-> "start", spent |-> 0]

Next ==
    \/ \E a \in Name : \/ Del(a) \/ Activate(a) \/ Reject(a) \/ DropAccount(a)
                       \/ \E h \in Host, ttl \in {1, Forever} : Set(a, h, ttl)
                       \/ \E u \in User : Identify(u, a)
    \/ \E u \in User : \/ Default(u) \/ On(u) \/ Off(u) \/ Logout(u)
                       \/ \E i \in DOMAIN mem.offers : Take(u, i)
                       \/ \E h \in Host : Request(u, h)
    \/ Configure \/ Tick \/ SetReadonly \/ Compact \/ Restart

Spec == Init /\ [][Next]_vars

-----------------------------------------------------------------------------
(* Properties. *)

Vhost == [host : Host, life : 1..(MaxNow + 1) \cup {Forever}] \cup {None}

\* Vhosts, requests and hosts shown have their types; an offer is listed once.
TypeOK ==
    /\ \A a \in Name : mem.vhost[a] \in Vhost /\ mem.want[a] \in Host \cup {None}
    /\ IsInjective(mem.offers)
    /\ shown \in [User -> Host \cup {Cloak}] /\ cloak \in [User -> Host \cup {Cloak}]

\* A vhost is one account's.
OneOwner == \A a, b \in Name : Active(mem, a) # None /\ Active(mem, a) = Active(mem, b) => a = b

Colliding ==
    {h \in Host : \E u, v \in User : {shown[u], shown[v]} = {h} /\ sess[u] # sess[v] /\ None \notin {sess[u], sess[v]}}

\* Users of two accounts never show the same vhost ("so a vhost can't be
\* assigned to two accounts and collide on the network").
NoCollision == Colliding = {}

\* The same of vhosts that did not lapse: expire, go with their account, be
\* replaced by TAKE or DEFAULT from another session, be kept by a session that
\* identifies to an account without one, or be taken for its cloak after a
\* relink. No later step takes such a host back.
NoCollisionWhileHeld == Colliding \subseteq hist.lapsed

\* Somebody who logged out has his cloak back, unless his vhost lapsed.
CloakComesBack == \A u \in User : sess[u] = None => shown[u] \in hist.lapsed \cup {Cloak}

\* "Restores the stored displayed host - the cloak, never the real host - since
\* the vhost apply never overwrites it": whoever logs out of an account with a
\* vhost shows his cloak again.
CloakStored == \A u \in User : cloak[u] = Cloak

\* Whoever gets a vhost by himself, or by an operator who grants his request,
\* gets none that is forbidden by then.
ForbiddenNotGiven ==
    \A a \in Name :
      mem'.vhost[a] # mem.vhost[a] /\ mem'.vhost[a] # None /\ hist'.by \in {"user", "approve"} =>
         mem'.vhost[a].host \notin mem.forbidden

\* A restart brings everything back.
VhostsReplay == Replay(log) = mem
=============================================================================
