------------------------------- MODULE Events -------------------------------
(***************************************************************************)
(* The events of the store and the fold that rebuilds it                   *)
(* (engine/db/event.rs), for the events whose interplay across nodes       *)
(* matters: an account's identity and credential, which replicate, and the *)
(* founder and successor of a channel, which do not.                       *)
(*                                                                         *)
(* A password verifier is a member of Cred; a name stands for its          *)
(* case-folded key.                                                        *)
(***************************************************************************)
EXTENDS Naturals, Sequences, SequencesExt

CONSTANTS
    Node,          \* origins, which are numbers: owns_over orders them
    Time,          \* timestamps, numbers as well
    Name, Chan, Cred, None

Account == [ts : Time, home : Node, cred : Cred]
ChannelInfo == [founder : Name, successor : Name \cup {None}]

\* The part of Db's state that is folded from the log.
Fresh == [accounts |-> [a \in Name |-> None], chans |-> [c \in Chan |-> None]]

GlobalEvent ==
         [kind : {"AccountRegistered"}, name : Name, account : Account]
    \cup [kind : {"AccountPasswordSet"}, name : Name, cred : Cred]
    \cup [kind : {"AccountDropped"}, name : Name]

Event == GlobalEvent
    \cup [kind : {"ChannelRegistered", "ChannelFounderSet"}, chan : Chan, founder : Name]
    \cup [kind : {"ChannelSuccessorSet"}, chan : Chan, successor : Name \cup {None}]
    \cup [kind : {"ChannelDropped"}, chan : Chan]

AccountRegistered(a, acct) == [kind |-> "AccountRegistered", name |-> a, account |-> acct]
AccountPasswordSet(a, c) == [kind |-> "AccountPasswordSet", name |-> a, cred |-> c]
AccountDropped(a) == [kind |-> "AccountDropped", name |-> a]
ChannelRegistered(c, f) == [kind |-> "ChannelRegistered", chan |-> c, founder |-> f]
ChannelFounderSet(c, f) == [kind |-> "ChannelFounderSet", chan |-> c, founder |-> f]
ChannelSuccessorSet(c, s) == [kind |-> "ChannelSuccessorSet", chan |-> c, successor |-> s]
ChannelDropped(c) == [kind |-> "ChannelDropped", chan |-> c]

\* Mutant: a tie keeps whoever is held.
owns_over_tie(held, claim) == held.ts <= claim.ts

\* The earlier registration owns the name; a tie goes to the lower origin.
owns_over(held, claim) ==
    \/ held.ts < claim.ts
    \/ held.ts = claim.ts /\ held.home < claim.home

\* Mutant: successors are left alone.
purge_account_refs_nothing(chans, a) == chans

\* A gone account is nobody's successor.  (Founded channels are the engine's.)
purge_account_refs(chans, a) ==
    [c \in DOMAIN chans |->
        IF chans[c] # None /\ chans[c].successor = a
        THEN [chans[c] EXCEPT !.successor = None]
        ELSE chans[c]]

\* Replace `c`'s record by `info` if the channel is registered.
UpdateChan(st, c, info) ==
    IF st.chans[c] = None THEN st ELSE [st EXCEPT !.chans[c] = info]

\* Mutant: the last registration folded wins.
Claim_last(held, claim) == claim

\* A registration of a name already held: the conflict is resolved.
Claim(held, claim) == IF held # None /\ owns_over(held, claim) THEN held ELSE claim

\* Fold one event into the store: replay and gossip.
apply(st, ev) ==
    CASE ev.kind = "AccountRegistered" ->
           [st EXCEPT !.accounts[ev.name] = Claim(@, ev.account)]
      [] ev.kind = "AccountPasswordSet" ->
           IF st.accounts[ev.name] = None THEN st
           ELSE [st EXCEPT !.accounts[ev.name].cred = ev.cred]
      [] ev.kind = "AccountDropped" ->
           [accounts |-> [st.accounts EXCEPT ![ev.name] = None],
            chans |-> purge_account_refs(st.chans, ev.name)]
      [] ev.kind = "ChannelRegistered" ->
           [st EXCEPT !.chans[ev.chan] = [founder |-> ev.founder, successor |-> None]]
      [] ev.kind = "ChannelFounderSet" ->
           UpdateChan(st, ev.chan, [st.chans[ev.chan] EXCEPT !.founder = ev.founder])
      [] ev.kind = "ChannelSuccessorSet" ->
           UpdateChan(st, ev.chan, [st.chans[ev.chan] EXCEPT !.successor = ev.successor])
      [] ev.kind = "ChannelDropped" ->
           [st EXCEPT !.chans[ev.chan] = None]

\* The state `Db::open` rebuilds from a sequence of events.
Replay(evs) == FoldLeft(apply, Fresh, evs)

\* What the live operation does once its event is appended.  The same as the
\* fold except that a registration, made only for a free name, just inserts.
Mutate(st, ev) ==
    IF ev.kind = "AccountRegistered"
    THEN [st EXCEPT !.accounts[ev.name] = ev.account]
    ELSE apply(st, ev)

-----------------------------------------------------------------------------
(* The snapshot a compaction writes: accounts, then channels, each in the  *)
(* arbitrary order of a HashMap.                                           *)

Orders(S) == SetToSeqs(S)

Registered(m) == {k \in DOMAIN m : m[k] # None}

ChannelEvents(c, info) ==
    <<ChannelRegistered(c, info.founder)>> \o
    (IF info.successor = None THEN <<>> ELSE <<ChannelSuccessorSet(c, info.successor)>>)

\* Mutant: a collection is forgotten.
SnapshotOf_accounts(st, names, chans) ==
    [i \in 1..Len(names) |-> AccountRegistered(names[i], st.accounts[names[i]])]

SnapshotOf(st, names, chans) ==
    [i \in 1..Len(names) |-> AccountRegistered(names[i], st.accounts[names[i]])] \o
    FlattenSeq([i \in 1..Len(chans) |-> ChannelEvents(chans[i], st.chans[chans[i]])])

Snapshot(st) ==
    {SnapshotOf(st, names, chans) : names \in Orders(Registered(st.accounts)),
                                    chans \in Orders(Registered(st.chans))}
=============================================================================
