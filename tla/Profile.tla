------------------------------- MODULE Profile -------------------------------
(***************************************************************************)
(* The settings of an account: its certificates, its auto-join list, and   *)
(* the lines its sessions show at the ircd (profile fields, SWHOIS), next  *)
(* to the log they are rebuilt from.                                       *)
(*                                                                         *)
(* A line is a number, 0 where there is none.  "setting" stands for all    *)
(* that is kept and shown nowhere, "bio" for the profile fields.  What is   *)
(* sent to the ircd is carried out at once.  A peer may add a certificate. *)
(***************************************************************************)
EXTENDS Naturals, Sequences, FiniteSets, SequencesExt

CONSTANTS
    Account, User, Cert, Chan, None,
    MaxCert,       \* certificates of an account (25 in the code)
    MaxAjoin,      \* channels on an auto-join list (25 in the code)
    MaxOps         \* bound: commands

VARIABLES
    mem,           \* the accounts in memory: their settings, or None
    disk,          \* the log
    lockdown,      \* EventLog.readonly
    session,       \* what each user is logged in to, or None
    here,          \* the users that connected
    worn,          \* the lines a user shows at the ircd
    moved,         \* history: users that left an account, or came to one after another
    late,          \* history: users that logged in by SASL when they were connected
    peered,        \* history: certificates a peer added
    drifted,       \* history: memory was changed though the log refused
    spent          \* how much of MaxOps is spent

live == <<session, here, worn, moved, late>>
vars == <<mem, disk, lockdown, live, peered, drifted, spent>>

Shown == {"bio", "swhois"}
Kept == {"setting", "note"}
Bare == [f \in Shown |-> 0]
Fresh == [certs |-> {}, ajoin |-> <<>>, line |-> [f \in Shown \cup Kept |-> 0]]
NoAccounts == [a \in Account |-> None]

Exists(a) == mem[a] # None

-----------------------------------------------------------------------------
(* The fold. *)

\* The channel's entry is replaced.
Listed(list, c) == Append(SelectSeq(list, LAMBDA x : x # c), c)

apply(m, e) ==
    IF e.type = "registered" THEN [m EXCEPT ![e.account] = e.record]
    ELSE IF m[e.account] = None THEN m
    ELSE CASE e.type = "dropped"  -> [m EXCEPT ![e.account] = None]
           [] e.type = "cert"     -> [m EXCEPT ![e.account].certs = @ \cup {e.cert}]
           [] e.type = "uncert"   -> [m EXCEPT ![e.account].certs = @ \ {e.cert}]
           [] e.type = "ajoin"    -> [m EXCEPT ![e.account].ajoin = Listed(@, e.chan)]
           [] e.type = "unajoin"  -> [m EXCEPT ![e.account].ajoin = SelectSeq(@, LAMBDA x : x # e.chan)]
           [] e.type = "line"     -> [m EXCEPT ![e.account].line[e.field] = e.value]

Replay(log) == FoldLeft(apply, NoAccounts, log)

-----------------------------------------------------------------------------
(* Store calls: an append, then the same change in memory. *)

Spend == spent < MaxOps /\ spent' = spent + 1

Write(events) ==
    /\ Spend
    /\ ~lockdown
    /\ disk' = disk \o events
    /\ mem' = FoldLeft(apply, mem, events)
    /\ UNCHANGED <<lockdown, drifted, peered>>

Stay == UNCHANGED live

certfp_owner(c) == {a \in Account : Exists(a) /\ c \in mem[a].certs}

\* Mutant: only the account's own certificates are looked at.
Free_elsewhere(a, c) == c \notin mem[a].certs

Free(a, c) == certfp_owner(c) = {}

\* CERT ADD: by a session of the account's, or with its password.
certfp_add(a, c) ==
    /\ Exists(a) /\ Free(a, c)
    /\ Cardinality(mem[a].certs) < MaxCert
    /\ Write(<<[type |-> "cert", account |-> a, cert |-> c]>>)
    /\ Stay

certfp_del(a, c) ==
    /\ Exists(a) /\ c \in mem[a].certs
    /\ Write(<<[type |-> "uncert", account |-> a, cert |-> c]>>)
    /\ Stay

PeerCert(a, c) ==
    /\ Spend
    /\ LET e == [type |-> "cert", account |-> a, cert |-> c]
       IN  disk' = Append(disk, e) /\ mem' = apply(mem, e)
    /\ peered' = peered \cup {c}
    /\ UNCHANGED <<lockdown, drifted>> /\ Stay

\* AJOIN ADD: a full list is refused, even for a channel that is on it.
ajoin_add(u, c) ==
    /\ session[u] # None /\ Exists(session[u])
    /\ Len(mem[session[u]].ajoin) < MaxAjoin
    /\ Write(<<[type |-> "ajoin", account |-> session[u], chan |-> c]>>)
    /\ Stay

\* Mutant: the cap is looked at once, before the first.
Fitting_any(list, chans) == IF Len(list) < MaxAjoin THEN SelectSeq(chans, LAMBDA c : c \notin ToSet(list)) ELSE <<>>

\* The channels that are not on the list, as many as it has room for.
Fitting(list, chans) ==
    LET new == SelectSeq(chans, LAMBDA c : c \notin ToSet(list))
        n   == IF Len(list) < MaxAjoin THEN MaxAjoin - Len(list) ELSE 0
    IN  IF Len(new) > n THEN SubSeq(new, 1, n) ELSE new

\* AJOIN ADDALL: the channels the user is in, one append each.
AjoinAddAll(u, chans) ==
    /\ session[u] # None /\ Exists(session[u])
    /\ LET new == Fitting(mem[session[u]].ajoin, chans)
       IN  /\ new # <<>>
           /\ Write([i \in DOMAIN new |-> [type |-> "ajoin", account |-> session[u], chan |-> new[i]]])
    /\ Stay

ajoin_del(u, c) ==
    /\ session[u] # None /\ Exists(session[u])
    /\ c \in ToSet(mem[session[u]].ajoin)
    /\ Write(<<[type |-> "unajoin", account |-> session[u], chan |-> c]>>)
    /\ Stay

uids_logged_into(a) == {u \in User : session[u] = a}

\* Mutant: the session that gave the command only.
Wearers_first(a) == {CHOOSE u \in uids_logged_into(a) : TRUE}

Wearers(a) == uids_logged_into(a)

\* SET AVATAR, BIO, ... and SWHOIS: stored, and sent to every session.
SetShown(a, f, v) ==
    /\ Exists(a)
    /\ f = "bio" => uids_logged_into(a) # {}
    /\ Write(<<[type |-> "line", account |-> a, field |-> f, value |-> v]>>)
    /\ worn' = [u \in User |-> IF uids_logged_into(a) # {} /\ u \in Wearers(a) \cap here
                               THEN [worn[u] EXCEPT ![f] = v] ELSE worn[u]]
    /\ UNCHANGED <<session, here, moved, late>>

\* SET EMAIL, GREET, LANGUAGE, KILL, ... and SASET.
SetKept(a, v) ==
    /\ Exists(a)
    /\ Write(<<[type |-> "line", account |-> a, field |-> "setting", value |-> v]>>)
    /\ Stay

\* The staff note of OperServ INFO: kept in memory though the log refuses it.
set_account_note(a, v) ==
    /\ Spend
    /\ Exists(a)
    /\ LET e == [type |-> "line", account |-> a, field |-> "note", value |-> v]
       IN  /\ mem' = apply(mem, e)
           /\ disk' = IF lockdown THEN disk ELSE Append(disk, e)
    /\ drifted' = (drifted \/ lockdown)
    /\ UNCHANGED <<lockdown, peered>> /\ Stay

-----------------------------------------------------------------------------
(* Sessions. *)

Register(a) ==
    /\ ~Exists(a)
    /\ Write(<<[type |-> "registered", account |-> a, record |-> Fresh]>>)
    /\ Stay

LoggedOut(who) ==
    /\ session' = [u \in User |-> IF u \in who THEN None ELSE session[u]]
    /\ moved' = moved \cup who

DropAccount(a) ==
    /\ Exists(a)
    /\ Write(<<[type |-> "dropped", account |-> a]>>)
    /\ LoggedOut(uids_logged_into(a))
    /\ UNCHANGED <<here, worn, late>>

\* Mutant: the profile is published, the SWHOIS line is not.
Effects_profile(w, a) == [w EXCEPT !.bio = IF mem[a].line.bio = 0 THEN @ ELSE mem[a].line.bio]

\* finish_identify, login_connect_effects: the lines the account has are sent,
\* those it does not have are left as they are.
Effects(w, a) == [f \in Shown |-> IF mem[a].line[f] = 0 THEN w[f] ELSE mem[a].line[f]]

LogIn(u, a, effects) ==
    /\ session' = [session EXCEPT ![u] = a]
    /\ moved' = IF session[u] \in {None, a} THEN moved ELSE moved \cup {u}
    /\ worn' = IF effects THEN [worn EXCEPT ![u] = Effects(@, a)] ELSE worn
    /\ UNCHANGED here

Store == UNCHANGED <<mem, disk, lockdown, peered, drifted>>

\* IDENTIFY and LOGIN.
finish_identify(u, a) ==
    /\ Spend /\ Store
    /\ u \in here /\ Exists(a)
    /\ LogIn(u, a, TRUE)
    /\ late' = late \ {u}

\* A certificate logs its user in, if nothing did; any of two holders does.
UserCert(u, c) ==
    /\ Spend /\ Store
    /\ u \in here /\ session[u] = None
    /\ \E a \in certfp_owner(c) : LogIn(u, a, TRUE)
    /\ late' = late \ {u}

\* SASL: the lines are sent to a user that connects.
sasl_login(u, a) ==
    /\ Spend /\ Store
    /\ Exists(a)
    /\ LogIn(u, a, FALSE)
    /\ late' = IF u \in here THEN late \cup {u} ELSE late

UserConnect(u) ==
    /\ Spend /\ Store
    /\ u \notin here
    /\ here' = here \cup {u}
    /\ worn' = IF session[u] = None THEN worn ELSE [worn EXCEPT ![u] = Effects(@, session[u])]
    /\ UNCHANGED <<session, moved, late>>

Logout(u) ==
    /\ Spend /\ Store
    /\ u \in here /\ session[u] # None
    /\ LoggedOut({u})
    /\ UNCHANGED <<here, worn, late>>

Quit(u) ==
    /\ Spend /\ Store
    /\ u \in here
    /\ here' = here \ {u} /\ session' = [session EXCEPT ![u] = None]
    /\ worn' = [worn EXCEPT ![u] = Bare]
    /\ moved' = moved \ {u} /\ late' = late \ {u}

-----------------------------------------------------------------------------

SetReadonly ==
    /\ Spend
    /\ lockdown' = ~lockdown
    /\ UNCHANGED <<mem, disk, peered, drifted>> /\ Stay

Record(a) == [type |-> "registered", account |-> a, record |-> mem[a]]

\* Mutant: an account is written without its certificates.
Snapshot_bare == [i \in 1..Cardinality({a \in Account : Exists(a)}) |->
    [Record(SetToSeq({a \in Account : Exists(a)})[i]) EXCEPT !.record.certs = {}]]

Snapshot == [i \in 1..Cardinality({a \in Account : Exists(a)}) |-> Record(SetToSeq({a \in Account : Exists(a)})[i])]

Compact ==
    /\ Spend
    /\ Snapshot # <<>>
    /\ disk' = Snapshot /\ drifted' = FALSE
    /\ UNCHANGED <<mem, lockdown, peered>> /\ Stay

\* Services come back to the log; the ircd tells them who is logged in.
Restart ==
    /\ Spend
    /\ mem' = Replay(disk) /\ lockdown' = FALSE /\ drifted' = FALSE
    /\ UNCHANGED <<disk, peered>> /\ Stay

Init ==
    /\ \E a \in Account : /\ mem = [NoAccounts EXCEPT ![a] = Fresh]
                          /\ disk = <<[type |-> "registered", account |-> a, record |-> Fresh]>>
    /\ lockdown = FALSE
    /\ session = [u \in User |-> None] /\ here \in {{}, User}
    /\ worn = [u \in User |-> Bare]
    /\ moved = {} /\ late = {} /\ peered = {} /\ drifted = FALSE /\ spent = 0

Next ==
    \/ \E a \in Account : Register(a) \/ DropAccount(a)
    \/ \E a \in Account, c \in Cert : certfp_add(a, c) \/ certfp_del(a, c) \/ PeerCert(a, c)
    \/ \E a \in Account, v \in 0..1 : SetKept(a, v) \/ set_account_note(a, v)
    \/ \E a \in Account, f \in Shown, v \in 0..1 : SetShown(a, f, v)
    \/ \E u \in User, c \in Chan : ajoin_add(u, c) \/ ajoin_del(u, c)
    \/ \E u \in User, chans \in SetToSeqs(Chan) : AjoinAddAll(u, chans)
    \/ \E u \in User, a \in Account : finish_identify(u, a) \/ sasl_login(u, a)
    \/ \E u \in User, c \in Cert : UserCert(u, c)
    \/ \E u \in User : UserConnect(u) \/ Logout(u) \/ Quit(u)
    \/ SetReadonly \/ Compact \/ Restart

Spec == Init /\ [][Next]_vars

-----------------------------------------------------------------------------

\* Accounts, sessions and lines are of their types; lists keep to their caps
\* and name a channel once.
TypeOK ==
    /\ \A a \in Account : Exists(a) =>
         /\ mem[a].certs \subseteq Cert /\ Cardinality(mem[a].certs \ peered) <= MaxCert
         /\ mem[a].ajoin \in Seq(Chan) /\ Len(mem[a].ajoin) <= MaxAjoin /\ IsInjective(mem[a].ajoin)
         /\ mem[a].line \in [Shown \cup Kept -> 0..1]
    /\ session \in [User -> Account \cup {None}]
    /\ worn \in [User -> [Shown -> 0..1]]
    /\ here \cup moved \cup late \subseteq User

\* A restart brings back every account's settings, whichever of add, delete,
\* drop, re-registration and compaction came before; but for what was changed
\* in memory while the log refused it.
SettingsReplay == ~drifted => Replay(disk) = mem

\* A certificate belongs to one account, whoever added, dropped and registered
\* what; where a peer added it this node could not look.
OneHolder == \A c \in Cert \ peered : Cardinality(certfp_owner(c)) <= 1

\* A user shows what the account it is logged in to has, whichever way it
\* logged in and whichever session the lines were set from.  A user that was
\* logged in to something else before may besides show a line of that.
WornIsCurrent ==
    \A u \in here \ late : session[u] # None =>
        \A f \in Shown : \/ worn[u][f] = mem[session[u]].line[f]
                         \/ u \in moved /\ mem[session[u]].line[f] = 0
===============================================================================
