----------------------------- MODULE Federation -----------------------------
(***************************************************************************)
(* The store (engine/db) and the engine on top of the replicated log: on   *)
(* every node accounts, the channels registered there and the sessions     *)
(* logged in there.  An operation is an append of Replication plus what it *)
(* does to the live state; an ingested entry is folded in and, when it     *)
(* took an account away, cleaned up after.                                 *)
(*                                                                         *)
(* A handler that appends several events does so one step at a time:       *)
(* todo[n] is what the handler running on n still has to do.  The engine's *)
(* lock keeps every other action of n out meanwhile, but not a crash.      *)
(***************************************************************************)
EXTENDS Events

CONSTANTS
    Links, Trust, MaxOps, MaxEpoch, MaxFaults, MaxDigests,  \* of Replication
    CompactRatio,  \* should_compact: entries per live record (3 in the code)
    CompactSlack,  \* should_compact: entries beyond that (64 in the code)
    Exercises      \* bound: the values of sites that are looked at

VARIABLES
    log, epoch, versions, readonly, up, net, dig, ops, faults,
    accounts,      \* accounts[n]: Db.accounts
    chans,         \* chans[n]: Db.channels
    sess,          \* sess[n]: the accounts with a session logged in on n
    todo,          \* todo[n]: remaining steps of the handler running on n
    sites          \* sites[op]: the nodes where a behaviour exercises op; never changes

R == INSTANCE Replication WITH Snapshots <- {}

dbVars == <<accounts, chans, sess, todo>>
fedVars == <<log, epoch, versions, readonly, up, net, dig, ops, faults,
             accounts, chans, sess, todo>>

Idle(n) == todo[n] = <<>>

Store(n) == [accounts |-> accounts[n], chans |-> chans[n]]

SetStore(n, st) ==
    /\ accounts' = [accounts EXCEPT ![n] = st.accounts]
    /\ chans' = [chans EXCEPT ![n] = st.chans]

\* Append one event and make the matching change to the live state.
Write(n, ev) == R!Author(n, ev) /\ SetStore(n, Mutate(Store(n), ev))

\* A command arriving while no handler runs.
Command(op, n) == n \in sites[op] /\ Idle(n) /\ R!Spend

-----------------------------------------------------------------------------
(* Commands of one append.  Their errors leave everything as it was. *)

\* NickServ REGISTER, which logs the user in as well.
RegisterAccount(n, a, ts, cred) ==
    /\ Command("register", n)
    /\ accounts[n][a] = None
    /\ Write(n, AccountRegistered(a, [ts |-> ts, home |-> n, cred |-> cred]))
    /\ sess' = [sess EXCEPT ![n] = @ \cup {a}]
    /\ UNCHANGED todo

\* SET PASSWORD, by a session logged in to the account.
SetPassword(n, a, cred) ==
    /\ Command("password", n)
    /\ a \in sess[n]
    /\ accounts[n][a] # None
    /\ Write(n, AccountPasswordSet(a, cred))
    /\ UNCHANGED <<sess, todo>>

\* A login that takes one step; Login has the derivation it waits for.
Identify(n, a) ==
    /\ Command("login", n)
    /\ accounts[n][a] # None
    /\ a \notin sess[n]
    /\ sess' = [sess EXCEPT ![n] = @ \cup {a}]
    /\ UNCHANGED <<log, epoch, versions, readonly, up, net, dig, faults, accounts, chans, todo>>

RegisterChannel(n, c, a) ==
    /\ Command("channel", n)
    /\ a \in sess[n]
    /\ chans[n][c] = None
    /\ Write(n, ChannelRegistered(c, a))
    /\ UNCHANGED <<sess, todo>>

\* ChanServ SET SUCCESSOR (None: OFF) and SET FOUNDER, by the founder.
SetSuccessor(n, c, s) ==
    /\ Command("successor", n)
    /\ chans[n][c] # None
    /\ chans[n][c].founder \in sess[n] \ {s}
    /\ s # None => accounts[n][s] # None
    /\ Write(n, ChannelSuccessorSet(c, s))
    /\ UNCHANGED <<sess, todo>>

SetFounder(n, c, f) ==
    /\ Command("successor", n)
    /\ chans[n][c] # None
    /\ chans[n][c].founder \in sess[n]
    /\ accounts[n][f] # None
    /\ Write(n, ChannelFounderSet(c, f))
    /\ UNCHANGED <<sess, todo>>

SetReadonly(n) ==
    /\ Command("readonly", n)
    /\ R!SetReadonly(n)
    /\ UNCHANGED dbVars

-----------------------------------------------------------------------------
(* An account going away. *)

\* Steps of a handler: append an event, or end the sessions of an account.
AppendStep(ev) == [event |-> ev, logout |-> None]
LogoutStep(a) == [event |-> None, logout |-> a]

\* Mutant: whatever the successor field holds inherits.
ReleaseOne_unchecked(st, a, c) ==
    <<AppendStep(ChannelFounderSet(c, st.chans[c].successor)),
      AppendStep(ChannelSuccessorSet(c, None))>>

\* One channel of a's: handed to a successor that still exists, or dropped.
ReleaseOne(st, a, c) ==
    LET s == st.chans[c].successor
    IN  IF s # None /\ s # a /\ st.accounts[s] # None
        THEN <<AppendStep(ChannelFounderSet(c, s)), AppendStep(ChannelSuccessorSet(c, None))>>
        ELSE <<AppendStep(ChannelDropped(c))>>

\* The appends that release the channels a founded, in some order.
release_founded_channels(st, a) ==
    LET owned == {c \in Registered(st.chans) : st.chans[c].founder = a}
    IN  {FlattenSeq([i \in 1..Len(o) |-> ReleaseOne(st, a, o[i])]) : o \in Orders(owned)}

\* NickServ DROP: release the channels, then drop the account, then log out.
DropAccount(n, a) ==
    /\ Command("drop", n)
    /\ a \in sess[n]
    /\ accounts[n][a] # None
    /\ \E release \in release_founded_channels(Store(n), a) :
         todo' = [todo EXCEPT ![n] =
                    release \o <<AppendStep(AccountDropped(a)), LogoutStep(a)>>]
    /\ UNCHANGED <<log, epoch, versions, readonly, up, net, dig, faults, accounts, chans, sess>>

\* The running handler's next step.  A refused append is ignored (`let _ =`).
Proceed(n) ==
    /\ ~Idle(n)
    /\ todo' = [todo EXCEPT ![n] = Tail(@)]
    /\ LET step == Head(todo[n])
       IN  \/ /\ step.event # None
              /\ \/ Write(n, step.event)
                 \/ /\ readonly[n]
                    /\ UNCHANGED <<log, epoch, versions, readonly, up, net, dig, faults, accounts, chans>>
              /\ UNCHANGED sess
           \/ /\ step.logout # None
              /\ sess' = [sess EXCEPT ![n] = @ \ {step.logout}]
              /\ UNCHANGED <<log, epoch, versions, readonly, up, net, dig, faults, accounts, chans>>
    /\ UNCHANGED ops

-----------------------------------------------------------------------------
(* Gossip. *)

\* The account an entry's ingestion watches for a change of owner or a drop.
Watched(ev) == ev.kind \in {"AccountRegistered", "AccountDropped"}

\* The home of the account moved and so did its credential.
TakenOver(held, new) == held.home # new.home /\ held.cred # new.cred

\* Mutants: the channels are not released; the sessions stay.
handle_account_gone_logout_only(n, a, held, st) ==
    /\ sess' = IF held # None /\ st.accounts[a] = None
               THEN [sess EXCEPT ![n] = @ \ {a}] ELSE sess
    /\ UNCHANGED todo
handle_account_gone_release_only(n, a, held, st) ==
    /\ IF held # None /\ st.accounts[a] = None
       THEN \E release \in release_founded_channels(st, a) :
              todo' = [todo EXCEPT ![n] = release]
       ELSE UNCHANGED todo
    /\ UNCHANGED sess

\* Clean up after a folded entry: sessions of a taken-over account end at
\* once; a drop's channels are released first, each with its own append.
handle_account_gone(n, a, held, st) ==
    IF held # None /\ st.accounts[a] = None
    THEN /\ \E release \in release_founded_channels(st, a) :
              todo' = [todo EXCEPT ![n] = release \o <<LogoutStep(a)>>]
         /\ UNCHANGED sess
    ELSE /\ sess' = IF held # None /\ st.accounts[a] # None /\ TakenOver(held, st.accounts[a])
                    THEN [sess EXCEPT ![n] = @ \ {a}] ELSE sess
         /\ UNCHANGED todo

gossip_ingest(m) ==
    LET n == m.dst
        ev == m.entry.event
        st == apply(Store(n), ev)
    IN  /\ Idle(n)
        /\ R!Ingest(m)
        /\ IF R!accept(versions[n], Trust[n], m.entry)
           THEN /\ SetStore(n, st)
                /\ IF Watched(ev)
                   THEN handle_account_gone(n, ev.name, accounts[n][ev.name], st)
                   ELSE UNCHANGED <<sess, todo>>
           ELSE UNCHANGED dbVars

-----------------------------------------------------------------------------
(* Compaction and restart. *)

should_compact(n) ==
    Len(log[n]) > (Cardinality(Registered(accounts[n])) + Cardinality(Registered(chans[n])))
                    * CompactRatio + CompactSlack

Compact(n) ==
    /\ Command("compact", n)
    /\ should_compact(n)
    /\ \E evs \in Snapshot(Store(n)) : R!Compact(n, evs)
    /\ UNCHANGED dbVars

\* A restart rebuilds the store from the log.  The ircd keeps who is logged in
\* and replays it in its burst.  A crash may hit a running handler.
Restart(n) ==
    /\ Idle(n) \/ n \in sites["crash"]
    /\ R!Restart(n)
    /\ SetStore(n, Replay([i \in DOMAIN log[n] |-> log[n][i].event]))
    /\ todo' = [todo EXCEPT ![n] = <<>>]
    /\ UNCHANGED sess

\* Session upkeep never touches the store.
Sessions ==
    /\ \/ \E l \in Links : R!Connect(l) \/ R!Disconnect(l)
       \/ \E n, p \in Node : Idle(n) /\ R!SendDigest(n, p)
       \/ \E d \in dig : Idle(d.dst) /\ R!AnswerDigest(d)
       \/ \E m \in net : R!Lag(m) \/ R!IngestFails(m)
    /\ UNCHANGED dbVars

-----------------------------------------------------------------------------
Init ==
    /\ R!Init
    /\ accounts = [n \in Node |-> Fresh.accounts]
    /\ chans = [n \in Node |-> Fresh.chans]
    /\ sess = [n \in Node |-> {}]
    /\ todo = [n \in Node |-> <<>>]
    /\ sites \in Exercises

Commands(n) ==
    \/ \E a \in Name :
         \/ \E ts \in Time, cred \in Cred : RegisterAccount(n, a, ts, cred)
         \/ \E cred \in Cred : SetPassword(n, a, cred)
         \/ Identify(n, a)
         \/ DropAccount(n, a)
         \/ \E c \in Chan : RegisterChannel(n, c, a) \/ SetFounder(n, c, a)
    \/ \E c \in Chan, s \in Name \cup {None} : SetSuccessor(n, c, s)
    \/ SetReadonly(n)

Next ==
    \/ \E n \in Node : Commands(n) \/ Proceed(n) \/ Compact(n) \/ Restart(n)
    \/ \E m \in net : gossip_ingest(m)
    \/ Sessions

vars == <<fedVars, sites>>

Spec == Init /\ [][Next /\ UNCHANGED sites]_vars

-----------------------------------------------------------------------------
(* Properties. *)

\* Type invariant of the store; Replication's own is checked there.
TypeOK ==
    /\ accounts \in [Node -> [Name -> Account \cup {None}]]
    /\ chans \in [Node -> [Chan -> ChannelInfo \cup {None}]]
    /\ sess \in [Node -> SUBSET Name]
    /\ \A n \in Node : \A i \in DOMAIN todo[n] :
         todo[n][i].event \in Event \cup {None}

\* Live state and replayed state never differ, whether events were appended,
\* ingested or rewritten by a compaction: the store in memory is always what
\* `open` would rebuild from the log (event.rs, apply; README "what's on disk
\* and what's in memory can't drift apart").
LiveEqualsReplay ==
    \A n \in Node : Store(n) = Replay([i \in DOMAIN log[n] |-> log[n][i].event])

\* No registered channel has a founder that is gone: whichever way an account
\* goes away, here or by gossip, its channels are handed on or dropped before
\* the name can be registered again (engine, handle_account_gone; event.rs,
\* "a later re-registration of the same name can't silently inherit").
FoundersExist ==
    \A n \in Node : Idle(n) =>
        \A c \in Registered(chans[n]) : accounts[n][chans[n][c].founder] # None

\* Nor does a channel keep a successor that is gone (purge_account_refs).
SuccessorsExist ==
    \A n \in Node : \A c \in Registered(chans[n]) :
        chans[n][c].successor # None => accounts[n][chans[n][c].successor] # None

\* A session is only ever logged in to an account that exists (logout on a
\* local drop, a gossiped drop and a takeover).
SessionsBacked ==
    \A n \in Node : Idle(n) => \A a \in sess[n] : accounts[n][a] # None

\* Nothing refers to an account that is gone, whichever node dropped it.  Only a
\* handler that a lockdown or a crash cuts short leaves channels and sessions
\* behind: what it had left to append is not tried again.
NothingDangles ==
    /\ SuccessorsExist
    /\ sites["crash"] = {} /\ sites["readonly"] = {} => FoundersExist /\ SessionsBacked

Owner(n, a) ==
    IF accounts[n][a] = None THEN None
    ELSE [ts |-> accounts[n][a].ts, home |-> accounts[n][a].home]

\* Nodes that have exchanged everything name the same owner for every account
\* (event.rs, apply: "every node converges on the same owner regardless of
\* gossip delivery order").
OwnersConverge ==
    R!Synced => \A m, n \in Node, a \in Name : Owner(m, a) = Owner(n, a)

\* They do as long as nobody drops one: a drop names its account by name alone,
\* and takes whatever rival registration it meets.
Undropped == sites["drop"] = {}
OwnersAgree == Undropped => OwnersConverge

\* Nodes that have exchanged everything hold the same accounts outright,
\* credentials included (gossip.rs: "both converge").
AccountsAgree == R!Synced => \A m, n \in Node : accounts[m] = accounts[n]

-----------------------------------------------------------------------------
(* The names as Ownership has them: who owns each on each node, and the    *)
(* claims that are in a log or on their way.                               *)

Stored == (UNION {{log[n][i] : i \in DOMAIN log[n]} : n \in Node}) \cup {m.entry : m \in net}

Registers(e, a) == e.event.kind = "AccountRegistered" /\ e.event.name = a

ClaimOf(e) == [ts |-> e.event.account.ts, home |-> e.event.account.home]

Made(a) == {ClaimOf(e) : e \in {x \in Stored : Registers(x, a)}}

\* Ownership is about behaviours in which nobody drops an account.
OwnersSeen == [n \in Node |-> [a \in Name |-> IF Undropped THEN Owner(n, a) ELSE None]]
ClaimsSeen == [a \in Name |-> IF Undropped THEN Made(a) ELSE {}]

Names == INSTANCE Ownership WITH owner <- OwnersSeen, claims <- ClaimsSeen

\* Whatever order rival registrations arrive in, and through compactions and
\* crashes, a name is held for a claim somebody made and changes hands only to
\* an earlier one: logs, gossip and store implement Ownership (owns_over, apply).
NamesAreOwned == Names!Spec
=============================================================================
