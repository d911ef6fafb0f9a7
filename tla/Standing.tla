------------------------------- MODULE Standing -------------------------------
(***************************************************************************)
(* What an account holds beyond itself: grouped nicks, places in groups,   *)
(* entries on a channel's access list (its own or a group's), operator     *)
(* grants; and what becomes of it when the account goes.                   *)
(*                                                                         *)
(* Accounts and groups carry the number of their registration, which       *)
(* stands for the code's `ts`. What is granted carries, as a history, the  *)
(* number of the account or group it was granted to (`of`, 0 for a name    *)
(* that nobody had).                                                       *)
(***************************************************************************)
EXTENDS Naturals, Sequences, FiniteSets, SequencesExt

CONSTANTS
    Name,          \* nicks, under any of which an account may be registered
    Present,       \* those that are accounts to begin with
    Group,
    Founder,       \* the channel's founder, an account that stays
    None,
    MaxAlias,      \* grouped nicks of an account (25 in the code)
    MaxFounded,    \* groups of a founder (25 in the code)
    MaxList,       \* entries of an access list (256 in the code)
    Quirks,        \* known exceptions the instance lets happen: "group revived",
                   \* a group registered under a name that is on an access list,
                   \* "by alias", a grouped nick given where an account is meant,
                   \* "stale peer", a peer's grant to an account gone meanwhile
    MaxGrants      \* bound: commands, peers' entries, compactions, restarts

VARIABLES
    mem,           \* accounts, aliases, groups, access list, operators
    log,           \* the events
    locked,        \* EventLog.readonly
    drifted,       \* whether a lenient write was refused since memory was folded
    did            \* [op, by, count, serial]: the last command, and the bounds

vars == <<mem, log, locked, drifted, did>>

Flag == {"F", "f", "c"}        \* of a group's members
Right == {"op", "access", "founder"}  \* of access entries
Entry == Name \cup Group

Nobody == [x \in Name |-> None]

EmptyMem ==
    [acct |-> [a \in Name |-> 0], alias |-> Nobody, oper |-> [a \in Name |-> 0],
     group |-> [g \in Group |-> None], access |-> [x \in Entry |-> None]]

Resolve(m, x) == IF m.acct[x] # 0 \/ m.alias[x] = None THEN x ELSE m.alias[x]
Exists(m, x) == m.acct[Resolve(m, x)] # 0

\* The registration a name stands for: a group's, an account's, or none.
Holder(m, x) ==
    IF x \in Group THEN IF m.group[x] = None THEN 0 ELSE m.group[x].ts
    ELSE m.acct[Resolve(m, x)]

-----------------------------------------------------------------------------
(* The fold. *)

\* Mutant: members stay behind.
purge_account_refs_members(m, a) ==
    [m EXCEPT
      !.alias = [x \in Name |-> IF @[x] = a THEN None ELSE @[x]],
      !.access[a] = None,
      !.group = [g \in Group |-> IF @[g] # None /\ @[g].founder = a THEN None ELSE @[g]]]

\* A gone account's aliases, entry and memberships go, and the groups it founded.
purge_account_refs(m, a) ==
    [m EXCEPT
      !.alias = [x \in Name |-> IF @[x] = a THEN None ELSE @[x]],
      !.access[a] = None,
      !.group = [g \in Group |->
                    IF @[g] = None \/ @[g].founder = a THEN None
                    ELSE [@[g] EXCEPT !.members[a] = None]]]

InGroup(m, g, Change(_)) == IF m.group[g] = None THEN m ELSE [m EXCEPT !.group[g] = Change(@)]

SetMember(m, g, a, member) == InGroup(m, g, LAMBDA r : [r EXCEPT !.members[a] = member])

\* Of two registrations of a group the earlier stays.
claim(m, g, r) ==
    IF m.group[g] # None /\ m.group[g].ts < r.ts THEN m ELSE [m EXCEPT !.group[g] = r]

apply(m, e) ==
    CASE e.type = "account"   -> [m EXCEPT !.acct[e.who] = e.serial]
      [] e.type = "dropped"   -> purge_account_refs([m EXCEPT !.acct[e.who] = 0], e.who)
      [] e.type = "grouped"   -> [m EXCEPT !.alias[e.nick] = e.who]
      [] e.type = "ungrouped" -> [m EXCEPT !.alias[e.nick] = None]
      [] e.type = "group"     -> claim(m, e.group, e.record)
      [] e.type = "ungroup"   -> [m EXCEPT !.group[e.group] = None]
      [] e.type = "flags"     -> SetMember(m, e.group, e.who, e.member)
      [] e.type = "access"    -> [m EXCEPT !.access[e.who] = e.entry]
      [] e.type = "oper"      -> [m EXCEPT !.oper[e.who] = e.serial]

Replay(events) == FoldLeft(apply, EmptyMem, events)

Each(S, Event(_)) == SetToSeq({Event(x) : x \in S})

Members(m, g) == {a \in Name : m.group[g].members[a] # None}

\* Mutant: a group's members are left out.
GroupEvents_bare(m, g) ==
    <<[type |-> "group", group |-> g, record |-> [m.group[g] EXCEPT !.members = Nobody]]>>

GroupEvents(m, g) ==
    <<[type |-> "group", group |-> g, record |-> [m.group[g] EXCEPT !.members = Nobody]]>>
    \o Each(Members(m, g),
            LAMBDA a : [type |-> "flags", group |-> g, who |-> a, member |-> m.group[g].members[a]])

\* Compaction.
Snapshot(m) ==
    Each({a \in Name : m.acct[a] # 0}, LAMBDA a : [type |-> "account", who |-> a, serial |-> m.acct[a]])
    \o Each({x \in Entry : m.access[x] # None}, LAMBDA x : [type |-> "access", who |-> x, entry |-> m.access[x]])
    \o Each({x \in Name : m.alias[x] # None}, LAMBDA x : [type |-> "grouped", nick |-> x, who |-> m.alias[x]])
    \o FlattenSeq(SetToSeq({GroupEvents(m, g) : g \in {g \in Group : m.group[g] # None}}))
    \o Each({a \in Name : m.oper[a] # 0}, LAMBDA a : [type |-> "oper", who |-> a, serial |-> m.oper[a]])

-----------------------------------------------------------------------------
(* Commands.  A strict write does nothing when its append is refused, a       *)
(* lenient one changes memory all the same.                                   *)

Did(op, by) == did.count < MaxGrants /\ did' = [did EXCEPT !.op = op, !.by = by, !.count = @ + 1]

Strict(e) == ~locked /\ mem' = apply(mem, e) /\ log' = Append(log, e) /\ UNCHANGED <<locked, drifted>>

Lenient(e) ==
    /\ mem' = apply(mem, e)
    /\ log' = IF locked THEN log ELSE Append(log, e)
    /\ drifted' = (drifted \/ locked)
    /\ UNCHANGED locked

Registered(a) == mem.acct[a] # 0

\* Who is meant by a name that a command looks up.
Named(x) == Exists(mem, x) /\ (Resolve(mem, x) = x \/ "by alias" \in Quirks)

\* NickServ REGISTER: refused if the name is an account's or grouped to one.
Register(a) ==
    /\ ~Exists(mem, a)
    /\ did.count < MaxGrants
    /\ did' = [op |-> "register", by |-> a, count |-> did.count + 1, serial |-> did.serial + 1]
    /\ Strict([type |-> "account", who |-> a, serial |-> did.serial])

\* NickServ DROP and every other way an account goes.
DropAccount(a) ==
    /\ Did("drop", a)
    /\ Registered(a)
    /\ Strict([type |-> "dropped", who |-> a])

\* NickServ GROUP, given the account's password: any nick that is not itself an
\* account; one grouped to another account changes hands.
GroupNick(x, a) ==
    /\ Did("group", a)
    /\ Registered(a) /\ ~Registered(x)
    /\ Cardinality({y \in Name : mem.alias[y] = a}) < MaxAlias
    /\ Strict([type |-> "grouped", nick |-> x, who |-> a])

UngroupNick(x, a) ==
    /\ Did("ungroup", a)
    /\ x # a /\ mem.alias[x] = a
    /\ Strict([type |-> "ungrouped", nick |-> x])

\* GroupServ REGISTER.
GroupRegister(g, a) ==
    /\ did.count < MaxGrants
    /\ Registered(a) /\ mem.group[g] = None
    /\ mem.access[g] = None \/ "group revived" \in Quirks
    /\ Cardinality({h \in Group : mem.group[h] # None /\ mem.group[h].founder = a}) < MaxFounded
    /\ did' = [op |-> "found", by |-> a, count |-> did.count + 1, serial |-> did.serial + 1]
    /\ Strict([type |-> "group", group |-> g,
               record |-> [founder |-> a, ts |-> did.serial, of |-> mem.acct[a], members |-> Nobody]])

GroupDrop(g, a) ==
    /\ Did("disband", a)
    /\ Registered(a) /\ mem.group[g] # None /\ mem.group[g].founder = a
    /\ Strict([type |-> "ungroup", group |-> g])

\* Mutant: whoever has joined may manage.
can_manage_members(r, a) == r.founder = a \/ r.members[a] # None

\* The founder and members with F or f.
can_manage(r, a) == r.founder = a \/ (r.members[a] # None /\ r.members[a].flags \cap {"F", "f"} # {})

Manages(g, a) == Registered(a) /\ mem.group[g] # None /\ can_manage(mem.group[g], a)

Member(a, flags) == [flags |-> flags, of |-> mem.acct[a]]

\* ADD: makes a plain member, also of somebody who had flags.
GroupAdd(g, a, x) ==
    /\ Did("add", a)
    /\ Manages(g, a) /\ Named(x)
    /\ LET who == Resolve(mem, x)
       IN  Strict([type |-> "flags", group |-> g, who |-> who, member |-> Member(who, {})])

\* DEL.
GroupDel(g, a, x) ==
    /\ Did("del", a)
    /\ Manages(g, a) /\ mem.group[g].members[x] # None
    /\ Strict([type |-> "flags", group |-> g, who |-> x, member |-> None])

\* Mutant: the delta is not applied to what the member has.
Current_forgotten(g, x) == {}

\* The flags a delta is applied to: those of the name as given.
Current(g, x) == IF mem.group[g].members[x] = None THEN {} ELSE mem.group[g].members[x].flags

\* FLAGS +x-y.
GroupFlags(g, a, x, plus, minus) ==
    /\ Did("flags", a)
    /\ Manages(g, a) /\ Named(x)
    /\ LET who == Resolve(mem, x)
       IN  Strict([type |-> "flags", group |-> g, who |-> who,
                   member |-> Member(who, (Current(g, x) \cup plus) \ minus)])

Rights(x) == IF mem.access[x] = None THEN {} ELSE mem.access[x].rights
Full == Cardinality({x \in Entry : mem.access[x] # None}) >= MaxList

\* An entry is given to the name as it is, account or not; an alias keeps it.
Granted(x, rights) == [rights |-> rights, of |-> Holder(mem, x)]

CanList(x) == x \in Name => Resolve(mem, x) = x \/ "by alias" \in Quirks

\* Who may change the access list with FLAGS.
Delegates == {Founder} \cup {a \in Name : Registered(a) /\ Rights(a) \cap {"access", "founder"} # {}}

\* Mutant: delegates may grant f.
MayEndWith_any(by, rights) == TRUE

\* Only the founder leaves an entry with f.
MayEndWith(by, rights) == by = Founder \/ "founder" \notin rights

\* Mutant: an entry that is left with nothing stays.
SetAccess_kept(by, x, plus, minus) ==
    /\ Did("access", by)
    /\ by \in Delegates /\ CanList(x)
    /\ Strict([type |-> "access", who |-> x, entry |-> Granted(x, (Rights(x) \cup plus) \ minus)])

\* ChanServ ACCESS and XOP ADD (by the founder) and FLAGS.
SetAccess(by, x, plus, minus) ==
    /\ Did("access", by)
    /\ by \in Delegates /\ CanList(x)
    /\ LET rights == (Rights(x) \cup plus) \ minus
       IN  /\ MayEndWith(by, rights)
           /\ \/ rights = {} /\ mem.access[x] # None
                 /\ Strict([type |-> "access", who |-> x, entry |-> None])
              \/ rights # {} /\ (mem.access[x] # None \/ ~Full)
                 /\ Strict([type |-> "access", who |-> x, entry |-> Granted(x, rights)])

\* OPER ADD and DEL, by a root operator.
OperAdd(x) ==
    /\ Did("oper", Founder)
    /\ Exists(mem, x)
    /\ LET who == Resolve(mem, x) IN Lenient([type |-> "oper", who |-> who, serial |-> mem.acct[who]])

OperDel(x) ==
    /\ Did("deoper", Founder)
    /\ mem.oper[Resolve(mem, x)] # 0
    /\ Lenient([type |-> "oper", who |-> Resolve(mem, x), serial |-> 0])

SetReadonly == Did("readonly", None) /\ locked' = ~locked /\ UNCHANGED <<mem, log, drifted>>

Compact ==
    /\ Did("compact", None)
    /\ log' = Snapshot(mem)
    /\ drifted' = FALSE
    /\ UNCHANGED <<mem, locked>>

Restart ==
    /\ Did("restart", None)
    /\ mem' = Replay(log)
    /\ locked' = FALSE /\ drifted' = FALSE
    /\ UNCHANGED log

\* A peer's entry is folded as it comes: a rival registration of a group, or
\* an alias or membership it gave while the account was there.
Ingest(e) == Did("ingest", None) /\ Strict(e)

PeerGroup(g, a) ==
    \E ts \in {1, did.serial} :
       /\ Registered(a) /\ (mem.access[g] = None \/ "group revived" \in Quirks)
       /\ Ingest([type |-> "group", group |-> g,
                  record |-> [founder |-> a, ts |-> ts, of |-> mem.acct[a], members |-> Nobody]])

PeerMember(g, a, serial) ==
    /\ serial \in {mem.acct[a]} \cup (IF "stale peer" \in Quirks THEN 1..did.serial - 1 ELSE {})
    /\ serial # 0
    /\ \/ Ingest([type |-> "flags", group |-> g, who |-> a, member |-> [flags |-> {"c"}, of |-> serial]])
       \/ \E x \in Name : ~Registered(x) /\ Ingest([type |-> "grouped", nick |-> x, who |-> a])

-----------------------------------------------------------------------------
Init ==
    /\ mem = [EmptyMem EXCEPT !.acct = [a \in Name |-> IF a \in Present THEN 1 ELSE 0]]
    /\ log = Snapshot(mem)
    /\ locked = FALSE /\ drifted = FALSE
    /\ did = [op |-> "start", by |-> None, count |-> 0, serial |-> 2]

Next ==
    \/ \E a \in Name : Register(a) \/ DropAccount(a) \/ OperAdd(a) \/ OperDel(a)
    \/ \E a, x \in Name : GroupNick(x, a) \/ UngroupNick(x, a)
    \/ \E g \in Group, a \in Name :
         \/ GroupRegister(g, a) \/ GroupDrop(g, a) \/ PeerGroup(g, a)
         \/ \E serial \in 1..did.serial : PeerMember(g, a, serial)
         \/ \E x \in Name : \/ GroupAdd(g, a, x) \/ GroupDel(g, a, x)
                            \/ \E fl \in Flag : GroupFlags(g, a, x, {fl}, {}) \/ GroupFlags(g, a, x, {}, {fl})
    \/ \E by \in Name \cup {Founder}, x \in Entry, r \in Right :
         SetAccess(by, x, {r}, {}) \/ SetAccess(by, x, {}, {r})
    \/ SetReadonly \/ Compact \/ Restart

Spec == Init /\ [][Next]_vars

-----------------------------------------------------------------------------
(* Properties. *)

\* Accounts, groups, entries and grants have their types.
TypeOK ==
    /\ mem.acct \in [Name -> 0..did.serial] /\ mem.oper \in [Name -> 0..did.serial]
    /\ mem.alias \in [Name -> Name \cup {None}]
    /\ \A g \in Group : mem.group[g] # None =>
         /\ mem.group[g].founder \in Name /\ mem.group[g].ts \in 1..did.serial
         /\ \A a \in Members(mem, g) : mem.group[g].members[a].flags \subseteq Flag
    /\ \A x \in Entry : mem.access[x] # None => mem.access[x].rights \in SUBSET Right \ {{}}

\* What an account was given dies with it: no alias, group, membership or
\* access entry is ever in the hands of a later registration of its name ("so
\* that a later re-registration of the same name can't silently inherit its
\* standing"), nor a group's entry in those of a later group. An entry for a
\* name that nobody had is for whoever takes it.
NothingInherited ==
    /\ \A x \in Name : mem.alias[x] # None => mem.acct[mem.alias[x]] # 0
    /\ \A g \in Group : mem.group[g] # None =>
         /\ mem.acct[mem.group[g].founder] = mem.group[g].of
         /\ \A a \in Members(mem, g) : mem.acct[a] = mem.group[g].members[a].of
    /\ \A x \in Entry : mem.access[x] # None /\ mem.access[x].of # 0 =>
         Holder(mem, x) = mem.access[x].of \/ (x \in Group /\ mem.group[x] = None)

\* The same of operators.
OpersForLiving == \A a \in Name : mem.oper[a] # 0 => mem.acct[a] = mem.oper[a]

\* A restart brings everything back, whatever was compacted, unless a lenient
\* write was refused.
StandingReplays == ~drifted => Replay(log) = mem

\* ChannelInfo's rights as the store combines them (`channel_caps`): one's own
\* entry and those of the groups one founds or holds c in.
channel_caps(m, a) ==
    (IF m.access[a] = None THEN {} ELSE m.access[a].rights)
    \cup UNION {m.access[g].rights : g \in
                  {g \in Group : /\ m.access[g] # None /\ m.group[g] # None
                                 /\ \/ m.group[g].founder = a
                                    \/ /\ m.group[g].members[a] # None
                                       /\ "c" \in m.group[g].members[a].flags}}

\* Founder rights on the channel reach an account only through its founder's
\* own entry for it, or through those who run a group that the founder trusted;
\* a delegate with the `a` flag never makes one ("otherwise a delegate could
\* mint a founder-equivalent entry").
FounderRightsTrusted ==
    \A a \in Name :
      "founder" \in channel_caps(mem', a) \ channel_caps(mem, a) /\ did'.op # "restart" =>
         \/ did'.by = Founder
         \/ \E g \in Group :
              /\ mem.access[g] # None /\ "founder" \in mem.access[g].rights
              /\ \/ did'.op = "ingest"
                 \/ /\ mem.group[g] # None
                    /\ \/ mem.group[g].founder = did'.by
                       \/ /\ mem.group[g].members[did'.by] # None
                          /\ mem.group[g].members[did'.by].flags \cap {"F", "f"} # {}

\* Giving a member one flag costs it no other.
FlagsAccumulate ==
    \A g \in Group, a \in Name :
      did'.op = "flags" /\ mem'.group[g].members[a] # mem.group[g].members[a]
      /\ mem.group[g].members[a] # None =>
         LET old == mem.group[g].members[a].flags
             new == mem'.group[g].members[a].flags
         IN  old \subseteq new \/ new \subseteq old
=============================================================================
