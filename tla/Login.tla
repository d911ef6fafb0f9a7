-------------------------------- MODULE Login --------------------------------
(***************************************************************************)
(* Registration, login and credentials on one node: the tasks that share   *)
(* the engine and what happens to an account while one of them derives a   *)
(* key with the engine unlocked.                                           *)
(*                                                                         *)
(* Actors: the IRC link's loop (link.rs), which waits for each derivation  *)
(* before it reads the next line; gRPC calls (grpc.rs) and keycard         *)
(* redemptions, which run beside it; gossip and the expiry sweep, which    *)
(* take accounts away.  An action is one stretch of holding the lock.      *)
(*                                                                         *)
(* A verifier stands for its password.  An account carries the number of   *)
(* its registration, so that a later one of the same name can be told      *)
(* apart; no guard reads it.  Timers (code deadline, lockout, idle SASL)   *)
(* may fire at any moment.                                                 *)
(***************************************************************************)
EXTENDS Naturals, Sequences, FiniteSets

CONSTANTS
    Name,          \* account names, which are also the nicks registered
    Uid,           \* connections
    Cred,          \* passwords
    None,
    CodeTries,     \* wrong guesses that burn a code (5 in the code)
    FreeTries,     \* failed passwords before the lockout (3 in the code)
    MaxOps,        \* bound: commands, calls and gossiped entries
    Ops            \* the operations this instance exercises

ASSUME UidAssumption == IsFiniteSet(Uid)

ASSUME TriesAssumption == CodeTries \in Nat \ {0} /\ FreeTries \in Nat

VARIABLES
    accounts,      \* accounts[a]: Db.accounts
    registered,    \* registrations so far
    frozen,        \* DEFCON freezes registrations
    conn,          \* conn[u]: the connection as the ircd knows it (external)
    sess,          \* sess[u]: Network.accounts, who we think is logged in
    shown,         \* shown[u]: the accountname the ircd holds (external)
    queue,         \* accountname changes in the link's inbound channel (irc_rx)
    sasl,          \* sasl[u]: Engine.sasl_sessions
    codes,         \* codes[a]: Db.codes, reset codes
    fails, locked, \* Db.auth_fails
    link,          \* the job the link's loop awaits
    tasks,         \* the jobs running beside it
    ops            \* how much of MaxOps is spent

acctVars == <<accounts, registered, frozen>>
ircVars == <<conn, sess, shown, queue, sasl>>
authVars == <<codes, fails, locked>>
jobVars == <<link, tasks>>
vars == <<accounts, registered, frozen, conn, sess, shown, queue, sasl,
          codes, fails, locked, link, tasks, ops>>

\* `owner` is the registration whose holder asked for the credential.
Account == [id : Nat, cred : Cred, owner : Nat, suspended : BOOLEAN]

ASSUME NoneAssumption == None \notin Account

Jobs ==    [kind : {"register"}, uid : Uid \cup {None}, name : Name, cred : Cred]
      \cup [kind : {"password"}, name : Name, cred : Cred, owner : Nat]
      \cup [kind : {"identify", "plain", "keycard"}, uid : Uid, name : Name, ok : BOOLEAN]
      \cup [kind : {"authenticate"}, name : Name, ok : BOOLEAN]

Codes == [owner : Nat, tries : 1..CodeTries, fresh : BOOLEAN]

Exchanges ==    [mech : {"PLAIN", "SCRAM", "EXTERNAL", "ECDSA"}, step : {"Started"}]
           \cup [mech : {"SCRAM"}, step : {"ClientFinal"}, name : Name, cred : Cred]
           \cup [mech : {"SCRAM"}, step : {"Ack"}, name : Name]
           \cup [mech : {"ECDSA"}, step : {"Signature"}, name : Name]

exists(a) == accounts[a] # None

\* No account, no suspension.
is_suspended(a) == exists(a) /\ accounts[a].suspended

uids_logged_into(a) == {u \in Uid : sess[u] = a}

Spend(op) == op \in Ops /\ ops < MaxOps /\ ops' = ops + 1

\* The link reads a line of a connected user's.
Command(op, u) == link = None /\ conn[u] = "connected" /\ Spend(op)

-----------------------------------------------------------------------------
(* What a login, a logout and a password check do. *)

\* track_accounts: our own map follows the accountname we send, and the ircd
\* applies it if it knows the connection.
track_accounts(us, a) ==
    /\ sess' = [u \in Uid |-> IF u \in us THEN a ELSE sess[u]]
    /\ shown' = [u \in Uid |-> IF u \in us /\ conn[u] # "free" THEN a ELSE shown[u]]

SetToQueue(us) == CHOOSE q \in [1..Cardinality(us) -> us] : {q[i] : i \in DOMAIN q} = us

\* Mutant: only our own map is cleared.
logout_account_sessions_unsent(a) ==
    /\ sess' = [u \in Uid |-> IF u \in uids_logged_into(a) THEN None ELSE sess[u]]
    /\ UNCHANGED <<shown, queue>>

\* Sessions ended from outside the link: cleared now, told through irc_rx.
logout_account_sessions(a) ==
    /\ sess' = [u \in Uid |-> IF u \in uids_logged_into(a) THEN None ELSE sess[u]]
    /\ queue' = queue \o SetToQueue(uids_logged_into(a))
    /\ UNCHANGED shown

\* A success clears the count; a failure past the free tries locks.
note_auth(a, ok) ==
    /\ fails' = [fails EXCEPT ![a] = IF ok THEN 0 ELSE @ + 1]
    /\ locked' = [locked EXCEPT ![a] = IF ok THEN FALSE ELSE @ \/ fails[a] + 1 > FreeTries]

\* Mutant: a password change is spawned, as a keycard is, instead of awaited.
Defer_spawned(job) ==
    IF job.kind = "password"
    THEN tasks' = tasks \cup {job} /\ UNCHANGED link
    ELSE link' = job /\ UNCHANGED tasks

\* The link's loop waits for the job.
Defer(job) == link' = job /\ UNCHANGED tasks

-----------------------------------------------------------------------------
(* Registration. *)

\* Mutant: whoever holds the name is not looked at again.
register_prepared_unchecked(a, frz) == ~frz

\* Whether a completed derivation may still create the account.
register_prepared(a, frz) == ~exists(a) /\ ~frz

\* NickServ REGISTER: the cheap gate, then the derivation.
Register(u, a, cred) ==
    /\ Command("register", u)
    /\ ~exists(a) /\ ~frozen
    /\ Defer([kind |-> "register", uid |-> u, name |-> a, cred |-> cred])
    /\ UNCHANGED <<acctVars, ircVars, authVars>>

\* The ircd's own registration relay, and an operator's SAREGISTER.
RelayRegister(a, cred) ==
    /\ link = None /\ Spend("relay_register")
    /\ ~exists(a) /\ ~frozen
    /\ Defer([kind |-> "register", uid |-> None, name |-> a, cred |-> cred])
    /\ UNCHANGED <<acctVars, ircVars, authVars>>

Create(a, cred) ==
    /\ accounts' = [accounts EXCEPT ![a] =
                      [id |-> registered, cred |-> cred, owner |-> registered, suspended |-> FALSE]]
    /\ registered' = registered + 1
    /\ UNCHANGED frozen

\* The link commits the registration, and logs in the user who asked for it
\* through NickServ.  Only the name is looked at again: the loop has read no
\* line that could freeze.
complete_register ==
    /\ link # None /\ link.kind = "register"
    /\ link' = None
    /\ IF register_prepared(link.name, FALSE)
       THEN Create(link.name, link.cred) /\ track_accounts({link.uid} \cap Uid, link.name)
       ELSE UNCHANGED <<acctVars, sess, shown>>
    /\ UNCHANGED <<conn, queue, sasl, authVars, tasks, ops>>

GrpcRegister(a, cred) ==
    /\ Spend("grpc_register")
    /\ ~exists(a) /\ ~frozen
    /\ tasks' = tasks \cup {[kind |-> "register", uid |-> None, name |-> a, cred |-> cred]}
    /\ UNCHANGED <<acctVars, ircVars, authVars, link>>

\* Mutant: the freeze seen before the derivation is trusted.
authority_register_unfrozen(job) ==
    IF register_prepared(job.name, FALSE)
    THEN Create(job.name, job.cred) ELSE UNCHANGED acctVars

\* The freeze is looked at again.
authority_register(job) ==
    IF register_prepared(job.name, frozen)
    THEN Create(job.name, job.cred) ELSE UNCHANGED acctVars

GrpcRegistered(job) ==
    /\ job \in tasks /\ job.kind = "register"
    /\ tasks' = tasks \ {job}
    /\ authority_register(job)
    /\ UNCHANGED <<ircVars, authVars, link, ops>>

\* OperServ DEFCON.
SetDefcon(u) ==
    /\ Command("defcon", u)
    /\ frozen' = ~frozen
    /\ UNCHANGED <<accounts, registered, ircVars, authVars, jobVars>>

-----------------------------------------------------------------------------
(* IDENTIFY and SASL. *)

\* Mutant: a suspension is not looked at.
precheck_unsuspended(a) == exists(a) /\ ~locked[a]

precheck(a) == exists(a) /\ ~is_suspended(a) /\ ~locked[a]

\* IDENTIFY (LOGIN adds a nick change): the verifier is fetched now.
Identify(u, a, pw) ==
    /\ Command("identify", u)
    /\ precheck(a) /\ sess[u] # a
    /\ Defer([kind |-> "identify", uid |-> u, name |-> a, ok |-> pw = accounts[a].cred])
    /\ UNCHANGED <<acctVars, ircVars, authVars>>

\* The login is not checked again.
finish_identify ==
    /\ link # None /\ link.kind = "identify"
    /\ link' = None
    /\ note_auth(link.name, link.ok)
    /\ IF link.ok THEN track_accounts({link.uid}, link.name) ELSE UNCHANGED <<sess, shown>>
    /\ UNCHANGED <<acctVars, conn, queue, sasl, codes, tasks, ops>>

\* Mutant: a suspension is not looked at.
sasl_login_unsuspended(u, a) == track_accounts({u}, a)

\* Every mechanism ends here: refused if the account is suspended by now.
sasl_login(u, a) ==
    IF is_suspended(a) THEN UNCHANGED <<sess, shown>> ELSE track_accounts({u}, a)

\* The first message of an exchange, sent before the client is a user.
SaslStart(u, mech) ==
    /\ link = None /\ conn[u] = "connecting" /\ Spend(mech)
    /\ sasl' = [sasl EXCEPT ![u] = [mech |-> mech, step |-> "Started"]]
    /\ UNCHANGED <<acctVars, conn, sess, shown, queue, authVars, jobVars>>

Exchange(u, mech) == link = None /\ conn[u] = "connecting" /\ sasl[u] # None /\ sasl[u].mech = mech

EndExchange(u) == sasl' = [sasl EXCEPT ![u] = None]

\* PLAIN: like IDENTIFY, but neither existence nor suspension is pre-checked
\* beyond finding a verifier.
SaslPlain(u, a, pw) ==
    /\ Exchange(u, "PLAIN")
    /\ EndExchange(u)
    /\ IF exists(a) /\ ~locked[a]
       THEN Defer([kind |-> "plain", uid |-> u, name |-> a, ok |-> pw = accounts[a].cred])
       ELSE UNCHANGED jobVars
    /\ UNCHANGED <<acctVars, conn, sess, shown, queue, authVars, ops>>

\* A website keycard instead of a password: redeemed beside the loop, whether
\* or not the account is known.  The website (external) accepts or refuses it.
SaslKeycard(u, a, ok) ==
    /\ Exchange(u, "PLAIN") /\ "keycard" \in Ops
    /\ EndExchange(u)
    /\ tasks' = tasks \cup {[kind |-> "keycard", uid |-> u, name |-> a, ok |-> ok]}
    /\ UNCHANGED <<acctVars, conn, sess, shown, queue, authVars, link, ops>>

\* Finish PLAIN; only a password counts for the throttle.
complete_plain ==
    /\ link # None /\ link.kind = "plain"
    /\ link' = None
    /\ note_auth(link.name, link.ok)
    /\ IF link.ok THEN sasl_login(link.uid, link.name) ELSE UNCHANGED <<sess, shown>>
    /\ UNCHANGED <<acctVars, conn, queue, sasl, codes, tasks, ops>>

complete_keycard(job) ==
    /\ job \in tasks /\ job.kind = "keycard"
    /\ tasks' = tasks \ {job}
    /\ IF job.ok THEN sasl_login(job.uid, job.name) ELSE UNCHANGED <<sess, shown>>
    /\ UNCHANGED <<acctVars, conn, queue, sasl, authVars, link, ops>>

\* SCRAM in three messages: the verifier and then the account are kept in the
\* exchange from one to the next.
ScramFirst(u, a) ==
    /\ Exchange(u, "SCRAM") /\ sasl[u].step = "Started"
    /\ sasl' = [sasl EXCEPT ![u] =
                  IF exists(a) /\ ~locked[a]
                  THEN [mech |-> "SCRAM", step |-> "ClientFinal", name |-> a, cred |-> accounts[a].cred]
                  ELSE None]
    /\ UNCHANGED <<acctVars, conn, sess, shown, queue, authVars, jobVars, ops>>

ScramFinal(u, pw) ==
    /\ Exchange(u, "SCRAM") /\ sasl[u].step = "ClientFinal"
    /\ LET ok == pw = sasl[u].cred
       IN  /\ note_auth(sasl[u].name, ok)
           /\ sasl' = [sasl EXCEPT ![u] =
                         IF ok THEN [mech |-> "SCRAM", step |-> "Ack", name |-> @.name] ELSE None]
    /\ UNCHANGED <<acctVars, conn, sess, shown, queue, codes, jobVars, ops>>

ScramAck(u) ==
    /\ Exchange(u, "SCRAM") /\ sasl[u].step = "Ack"
    /\ EndExchange(u)
    /\ sasl_login(u, sasl[u].name)
    /\ UNCHANGED <<acctVars, conn, queue, authVars, jobVars, ops>>

\* EXTERNAL: the certificate belongs to an account, or to none.
SaslExternal(u, a, owned) ==
    /\ Exchange(u, "EXTERNAL")
    /\ EndExchange(u)
    /\ IF exists(a) /\ owned THEN sasl_login(u, a) ELSE UNCHANGED <<sess, shown>>
    /\ UNCHANGED <<acctVars, conn, queue, authVars, jobVars, ops>>

\* ECDSA: a challenge for the account's key (if it has one), then a signature;
\* neither counts for the throttle.
EcdsaName(u, a, keyed) ==
    /\ Exchange(u, "ECDSA") /\ sasl[u].step = "Started"
    /\ sasl' = [sasl EXCEPT ![u] =
                  IF exists(a) /\ keyed THEN [mech |-> "ECDSA", step |-> "Signature", name |-> a]
                                       ELSE None]
    /\ UNCHANGED <<acctVars, conn, sess, shown, queue, authVars, jobVars, ops>>

EcdsaSignature(u, good) ==
    /\ Exchange(u, "ECDSA") /\ sasl[u].step = "Signature"
    /\ EndExchange(u)
    /\ IF good THEN sasl_login(u, sasl[u].name) ELSE UNCHANGED <<sess, shown>>
    /\ UNCHANGED <<acctVars, conn, queue, authVars, jobVars, ops>>

\* gRPC Authenticate: the website's own login; only the throttle learns of it.
GrpcAuthenticate(a, pw) ==
    /\ Spend("grpc_authenticate")
    /\ precheck(a)
    /\ tasks' = tasks \cup {[kind |-> "authenticate", name |-> a, ok |-> pw = accounts[a].cred]}
    /\ UNCHANGED <<acctVars, ircVars, authVars, link>>

GrpcAuthenticated(job) ==
    /\ job \in tasks /\ job.kind = "authenticate"
    /\ tasks' = tasks \ {job}
    /\ note_auth(job.name, job.ok)
    /\ UNCHANGED <<acctVars, ircVars, codes, link, ops>>

-----------------------------------------------------------------------------
(* Passwords and codes. *)

\* The registration that has the name; none yet if nobody has it.
holder(a) == IF exists(a) THEN accounts[a].id ELSE registered

\* NickServ SET PASSWORD.
SetPassword(u, cred) ==
    /\ Command("password", u)
    /\ sess[u] # None
    /\ Defer([kind |-> "password", name |-> sess[u], cred |-> cred, owner |-> holder(sess[u])])
    /\ UNCHANGED <<acctVars, ircVars, authVars>>

\* RESETPASS <account>: a code is mailed to the address on file, unless one
\* was a moment ago.
IssueCode(u, a) ==
    /\ Command("reset", u)
    /\ exists(a) /\ (codes[a] # None => ~codes[a].fresh)
    /\ codes' = [codes EXCEPT ![a] =
                   [owner |-> accounts[a].id, tries |-> CodeTries, fresh |-> TRUE]]
    /\ UNCHANGED <<acctVars, ircVars, fails, locked, jobVars>>

\* Mutant: the last try does not burn the code.
WrongGuess_never_burnt(code) == [code EXCEPT !.tries = @ - 1]

\* A wrong guess spends a try; the last one burns the code.
WrongGuess(code) == IF code.tries = 1 THEN None ELSE [code EXCEPT !.tries = @ - 1]

\* RESETPASS <account> <code> <password>: a right code is consumed.
ResetPassword(u, a, right, cred) ==
    /\ Command("reset", u)
    /\ exists(a) /\ codes[a] # None
    /\ IF right
       THEN /\ codes' = [codes EXCEPT ![a] = None]
            /\ Defer([kind |-> "password", name |-> a, cred |-> cred, owner |-> codes[a].owner])
       ELSE /\ codes' = [codes EXCEPT ![a] = WrongGuess(@)]
            /\ UNCHANGED jobVars
    /\ UNCHANGED <<acctVars, ircVars, fails, locked>>

\* The derived credential goes to whatever account has the name now.
set_credentials(job) ==
    /\ accounts' = IF exists(job.name)
                   THEN [accounts EXCEPT ![job.name] =
                           [@ EXCEPT !.cred = job.cred, !.owner = job.owner]]
                   ELSE accounts
    /\ UNCHANGED <<registered, frozen>>

complete_password_change ==
    /\ link # None /\ link.kind = "password"
    /\ link' = None
    /\ set_credentials(link)
    /\ UNCHANGED <<ircVars, authVars, tasks, ops>>

\* gRPC SetPassword: the same job beside the loop, found or not by its name
\* when the derivation ends.
GrpcSetPassword(a, cred) ==
    /\ Spend("grpc_password")
    /\ tasks' = tasks \cup {[kind |-> "password", name |-> a, cred |-> cred, owner |-> holder(a)]}
    /\ UNCHANGED <<acctVars, ircVars, authVars, link>>

GrpcPasswordSet(job) ==
    /\ job \in tasks /\ job.kind = "password"
    /\ tasks' = tasks \ {job}
    /\ set_credentials(job)
    /\ UNCHANGED <<ircVars, authVars, link, ops>>

-----------------------------------------------------------------------------
(* Logging out, and accounts going away. *)

Logout(u) ==
    /\ Command("logout", u)
    /\ sess[u] # None
    /\ track_accounts({u}, None)
    /\ UNCHANGED <<acctVars, conn, queue, sasl, authVars, jobVars>>

Remove(a) ==
    /\ accounts' = [accounts EXCEPT ![a] = None]
    /\ UNCHANGED <<registered, frozen>>

\* Mutant: only the user who asked is logged out.
DropAccount_one_session(u, a) == Remove(a) /\ track_accounts({u}, None)

\* drop_account, then every session of the account logged out.
DropAccount(u, a) == Remove(a) /\ track_accounts(uids_logged_into(a), None)

\* NickServ DROP <password>, checked with the engine locked.
Drop(u, pw) ==
    LET a == sess[u]
    IN  /\ Command("drop", u)
        /\ a # None
        /\ ~locked[a]
        /\ LET ok == exists(a) /\ pw = accounts[a].cred
           IN  /\ note_auth(a, ok)
               /\ IF ok THEN DropAccount(u, a) ELSE UNCHANGED <<acctVars, sess, shown>>
        /\ UNCHANGED <<conn, queue, sasl, codes, jobVars>>

\* NickServ SUSPEND and UNSUSPEND, by an operator.
Suspend(u, a) ==
    /\ Command("suspend", u)
    /\ exists(a)
    /\ accounts' = [accounts EXCEPT ![a] = [@ EXCEPT !.suspended = TRUE]]
    /\ track_accounts(uids_logged_into(a), None)
    /\ UNCHANGED <<registered, frozen, conn, queue, sasl, authVars, jobVars>>

Unsuspend(u, a) ==
    /\ Command("suspend", u)
    /\ is_suspended(a)
    /\ accounts' = [accounts EXCEPT ![a] = [@ EXCEPT !.suspended = FALSE]]
    /\ UNCHANGED <<registered, frozen, ircVars, authVars, jobVars>>

\* The account is dropped by a peer, by the website or by the expiry sweep,
\* which spares accounts in use.
TakeAway(a) ==
    /\ \/ Spend("gone")
       \/ Spend("expire") /\ uids_logged_into(a) = {}
    /\ exists(a)
    /\ Remove(a)
    /\ logout_account_sessions(a)
    /\ UNCHANGED <<conn, sasl, authVars, jobVars>>

\* A peer suspended the account.
GossipSuspend(a) ==
    /\ Spend("gossip_suspend")
    /\ exists(a)
    /\ accounts' = [accounts EXCEPT ![a] = [@ EXCEPT !.suspended = TRUE]]
    /\ logout_account_sessions(a)
    /\ UNCHANGED <<registered, frozen, conn, sasl, authVars, jobVars>>

\* gRPC ForceLogout: the sessions end, the account stays.
ForceLogout(a) ==
    /\ Spend("force_logout")
    /\ logout_account_sessions(a)
    /\ UNCHANGED <<acctVars, conn, sasl, authVars, jobVars>>

\* The link's loop, not busy, sends what was queued.
Drain ==
    /\ link = None
    /\ queue # <<>>
    /\ queue' = Tail(queue)
    /\ shown' = [shown EXCEPT ![Head(queue)] = None]
    /\ UNCHANGED <<acctVars, conn, sess, sasl, authVars, jobVars, ops>>

-----------------------------------------------------------------------------
(* Connections (external) and timers. *)

\* A client opens a connection, which we hear of only through its SASL.
Open(u) ==
    /\ conn[u] = "free"
    /\ conn' = [conn EXCEPT ![u] = "connecting"]
    /\ UNCHANGED <<acctVars, sess, shown, queue, sasl, authVars, jobVars, ops>>

\* It becomes a user; a login made before stays.
Connect(u) ==
    /\ link = None
    /\ conn[u] = "connecting"
    /\ conn' = [conn EXCEPT ![u] = "connected"]
    /\ UNCHANGED <<acctVars, sess, shown, queue, sasl, authVars, jobVars, ops>>

\* forget_user.
Quit(u) ==
    /\ Command("quit", u)
    /\ conn' = [conn EXCEPT ![u] = "free"]
    /\ sess' = [sess EXCEPT ![u] = None]
    /\ shown' = [shown EXCEPT ![u] = None]
    /\ sasl' = [sasl EXCEPT ![u] = None]
    /\ UNCHANGED <<acctVars, queue, authVars, jobVars>>

\* A client gives up before it is a user: no QUIT is sent for it.
Vanish(u) ==
    /\ conn[u] = "connecting" /\ Spend("vanish")
    /\ conn' = [conn EXCEPT ![u] = "free"]
    /\ shown' = [shown EXCEPT ![u] = None]
    /\ UNCHANGED <<acctVars, sess, queue, sasl, authVars, jobVars>>

\* SASL abort ("D"), or the sweep of idle exchanges.
SaslEnd(u) ==
    /\ link = None
    /\ sasl[u] # None
    /\ EndExchange(u)
    /\ UNCHANGED <<acctVars, conn, sess, shown, queue, authVars, jobVars, ops>>

\* What time does to a code: it cools down, later it expires.
Aged(code) == IF code.fresh THEN [code EXCEPT !.fresh = FALSE] ELSE None

\* A lockout ends; a code cools down, or reaches its deadline.
Elapse(a) ==
    /\ \/ /\ locked[a]
          /\ locked' = [locked EXCEPT ![a] = FALSE]
          /\ UNCHANGED codes
       \/ /\ codes[a] # None
          /\ codes' = [codes EXCEPT ![a] = Aged(@)]
          /\ UNCHANGED locked
    /\ UNCHANGED <<acctVars, ircVars, fails, jobVars, ops>>

-----------------------------------------------------------------------------
Init ==
    /\ accounts = [a \in Name |-> None]
    /\ registered = 0
    /\ frozen = FALSE
    /\ conn = [u \in Uid |-> "free"]
    /\ sess = [u \in Uid |-> None]
    /\ shown = [u \in Uid |-> None]
    /\ queue = <<>>
    /\ sasl = [u \in Uid |-> None]
    /\ codes = [a \in Name |-> None]
    /\ fails = [a \in Name |-> 0]
    /\ locked = [a \in Name |-> FALSE]
    /\ link = None
    /\ tasks = {}
    /\ ops = 0

Commands(u) ==
    \/ \E a \in Name, cred \in Cred : Register(u, a, cred) \/ Identify(u, a, cred)
    \/ \E cred \in Cred : SetPassword(u, cred) \/ Drop(u, cred)
    \/ \E a \in Name : IssueCode(u, a) \/ Suspend(u, a) \/ Unsuspend(u, a)
    \/ \E a \in Name, cred \in Cred, right \in BOOLEAN : ResetPassword(u, a, right, cred)
    \/ Logout(u) \/ SetDefcon(u) \/ Quit(u)

Sasl(u) ==
    \/ \E mech \in {"PLAIN", "SCRAM", "EXTERNAL", "ECDSA"} : SaslStart(u, mech)
    \/ \E a \in Name, pw \in Cred : SaslPlain(u, a, pw)
    \/ \E a \in Name, ok \in BOOLEAN :
         SaslKeycard(u, a, ok) \/ SaslExternal(u, a, ok) \/ EcdsaName(u, a, ok)
    \/ \E a \in Name : ScramFirst(u, a)
    \/ \E pw \in Cred : ScramFinal(u, pw)
    \/ \E ok \in BOOLEAN : EcdsaSignature(u, ok)
    \/ ScramAck(u) \/ SaslEnd(u)

Complete == complete_register \/ finish_identify \/ complete_plain \/ complete_password_change

Beside ==
    \/ \E a \in Name, cred \in Cred : \/ GrpcRegister(a, cred) \/ GrpcAuthenticate(a, cred)
                                   \/ GrpcSetPassword(a, cred)
    \/ \E job \in tasks : \/ GrpcRegistered(job) \/ GrpcAuthenticated(job)
                          \/ complete_keycard(job) \/ GrpcPasswordSet(job)
    \/ \E a \in Name : TakeAway(a) \/ GossipSuspend(a) \/ ForceLogout(a) \/ Elapse(a)

Next ==
    \/ \E u \in Uid : Commands(u) \/ Sasl(u) \/ Open(u) \/ Connect(u) \/ Vanish(u)
    \/ Complete
    \/ \E a \in Name, cred \in Cred : RelayRegister(a, cred)
    \/ Drain
    \/ Beside

Spec == Init /\ [][Next]_vars

\* Derivations end, and the loop's select is fair to the queue.
FairSpec == Spec /\ WF_vars(Complete) /\ SF_vars(Drain)

-----------------------------------------------------------------------------
(* Properties. *)

\* Types; a code that is kept has a try left.
TypeOK ==
    /\ accounts \in [Name -> Account \cup {None}]
    /\ registered \in Nat /\ frozen \in BOOLEAN
    /\ conn \in [Uid -> {"free", "connecting", "connected"}]
    /\ sess \in [Uid -> Name \cup {None}]
    /\ shown \in [Uid -> Name \cup {None}]
    /\ queue \in Seq(Uid)
    /\ sasl \in [Uid -> Exchanges \cup {None}]
    /\ codes \in [Name -> Codes \cup {None}]
    /\ fails \in [Name -> Nat] /\ locked \in [Name -> BOOLEAN]
    /\ link \in Jobs \cup {None}
    /\ tasks \subseteq Jobs

\* Nobody is logged in to an account that is gone (gossip_ingest cleans up
\* after what "a local session relied on"; DROP logs every session out).
SessionsBacked == \A u \in Uid : sess[u] # None => exists(sess[u])

\* Nobody is logged in to a suspended account: SUSPEND ends the sessions there
\* are, and no login that was under way then starts another.
SuspendedLoggedOut == \A u \in Uid : sess[u] # None => ~is_suspended(sess[u])

\* No session outlives its account, nor its account's suspension (finish_identify,
\* logout_account_sessions).
SessionsStand == SessionsBacked /\ SuspendedLoggedOut

\* An account's password was asked for by the holder of that registration,
\* never by the holder of an earlier account of the same name.
PasswordForOwner == \A a \in Name : exists(a) => accounts[a].owner = accounts[a].id

\* Of two registrations of a name racing through their derivations the later
\* to complete never replaces the account of the first.
NeverOverwritten ==
    [][\A a \in Name : exists(a) /\ exists(a)' => accounts'[a].id = accounts[a].id]_vars

\* Once the freeze is on no derivation that was under way creates an account.
FrozenMeansFrozen == [][frozen => registered' = registered]_vars

\* A session ended by gossip, expiry or the website ends on the ircd too, or
\* the user logs in again first.
LogoutsReachIrcd ==
    \A u \in Uid : (sess[u] = None /\ shown[u] # None) ~> (shown[u] = None \/ sess[u] # None)
=============================================================================
