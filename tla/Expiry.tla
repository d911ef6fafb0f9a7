------------------------------- MODULE Expiry -------------------------------
(***************************************************************************)
(* Inactivity: the stamps that a login or a join leaves on an account or a *)
(* channel, and the sweep that warns of idle ones by mail and drops them.  *)
(* A unit of time is the period over which stamps are coalesced (a day).   *)
(* The log is kept as what a restart folds it into.                        *)
(***************************************************************************)
EXTENDS Naturals, Sequences, FiniteSets, SequencesExt, FiniteSetsExt

CONSTANTS Account, Channel, None,
          Coalesce, Ttl, Lead,
          Forever,                 \* an expiry that never comes
          MaxNow, MaxOps           \* bounds: time; commands

VARIABLES
    mem,        \* item -> its record, Gone if it is not registered
    disk,       \* the fold of the log
    online,     \* accounts somebody is logged in to
    occupied,   \* channels somebody is in
    opers,      \* accounts with operator privileges
    readonly,
    now, swept, ops,
    used,       \* history: item -> when it was last used (login, join, registration)
    told,       \* history: item -> how often it was warned since
    spared,     \* history: items a sweep could not have warned since
    drifted     \* history: items changed while the log refused writes

vars == <<mem, disk, online, occupied, opers, readonly, now, swept, ops,
          used, told, spared, drifted>>

Item == Account \union Channel
Gone == [seen |-> 0, warned |-> FALSE, pinned |-> FALSE, held |-> 0, mail |-> FALSE,
         founder |-> None, heir |-> None, there |-> FALSE]
Fresh(founder, mail) ==
    [Gone EXCEPT !.seen = now, !.mail = mail, !.there = TRUE, !.founder = founder]
There(m, i) == m[i].there
Idle(m, i) == now - m[i].seen

Op == ops < MaxOps /\ ops' = ops + 1
Rest == UNCHANGED <<now, swept, opers>>

(* A strict call does nothing when the log refuses; a lenient one changes  *)
(* memory alone.                                                           *)
Strict(i, r) ==
    /\ ~readonly
    /\ mem' = [mem EXCEPT ![i] = r] /\ disk' = [disk EXCEPT ![i] = r]
    /\ UNCHANGED drifted

Used(i) == /\ used' = [used EXCEPT ![i] = now]
           /\ told' = [told EXCEPT ![i] = 0] /\ spared' = spared \ {i}
Unused == UNCHANGED <<used, told, spared>>

(* mark_account_seen and mark_channel_used; the fold of the event does the *)
(* same to the record on disk.                                             *)
Stale(m, i) == There(m, i) /\ Idle(m, i) >= Coalesce
Stamped_warned(r) == [r EXCEPT !.seen = now]    \* the warning stays
Stamped(r) == [r EXCEPT !.seen = now, !.warned = FALSE]
applied(r) == [r EXCEPT !.seen = now, !.warned = FALSE]
mark(i) ==
    /\ mem' = IF Stale(mem, i) THEN [mem EXCEPT ![i] = Stamped(@)] ELSE mem
    /\ disk' = IF Stale(mem, i) /\ ~readonly THEN [disk EXCEPT ![i] = applied(@)] ELSE disk
    /\ drifted' = IF Stale(mem, i) /\ readonly THEN drifted \union {i} ELSE drifted
    /\ Used(i)

(* ------------------------------------------------------------- commands *)
Register(i, founder, mail) ==
    /\ Op /\ ~There(mem, i)
    /\ i \in Channel => There(mem, founder)
    /\ Strict(i, Fresh(founder, mail)) /\ Used(i)
    /\ UNCHANGED <<online, occupied, readonly>> /\ Rest
SetSuccessor(c, a) ==
    /\ Op /\ There(mem, c) /\ There(mem, a) /\ mem[c].founder # a
    /\ Strict(c, [mem[c] EXCEPT !.heir = a])
    /\ UNCHANGED <<online, occupied, readonly>> /\ Unused /\ Rest

(* track_accounts stamps an account whenever a login is announced.         *)
LogIn(a) ==
    /\ Op /\ There(mem, a) /\ ~(mem[a].held > now)
    /\ mark(a) /\ online' = online \union {a}
    /\ UNCHANGED <<occupied, readonly>> /\ Rest
LogOut(a) ==
    /\ Op /\ a \in online /\ online' = online \ {a}
    /\ UNCHANGED <<mem, disk, occupied, readonly, drifted>> /\ Unused /\ Rest

Join(c) ==
    /\ Op /\ There(mem, c) /\ mark(c) /\ occupied' = occupied \union {c}
    /\ UNCHANGED <<online, readonly>> /\ Rest
Leave(c) ==
    /\ Op /\ c \in occupied /\ occupied' = occupied \ {c}
    /\ UNCHANGED <<mem, disk, online, readonly, drifted>> /\ Unused /\ Rest

(* SUSPEND logs everybody out, or empties the channel. UNSUSPEND and       *)
(* NOEXPIRE change the record only if they change anything.                *)
Suspend(i, until) ==
    /\ Op /\ There(mem, i) /\ Strict(i, [mem[i] EXCEPT !.held = until])
    /\ online' = online \ {i} /\ occupied' = occupied \ {i}
    /\ UNCHANGED readonly /\ Unused /\ Rest
Unsuspend(i) ==
    /\ Op /\ There(mem, i) /\ mem[i].held # 0 /\ Strict(i, [mem[i] EXCEPT !.held = 0])
    /\ UNCHANGED <<online, occupied, readonly>> /\ Unused /\ Rest
NoExpire(i, on) ==
    /\ Op /\ There(mem, i) /\ mem[i].pinned # on /\ Strict(i, [mem[i] EXCEPT !.pinned = on])
    /\ UNCHANGED <<online, occupied, readonly>> /\ Unused /\ Rest
SetEmail(a, on) ==
    /\ Op /\ There(mem, a) /\ mem[a].mail # on /\ Strict(a, [mem[a] EXCEPT !.mail = on])
    /\ UNCHANGED <<online, occupied, readonly>> /\ Unused /\ Rest

(* ------------------------------------------------- dropping, and heirs *)
(* drop_account with the references to an account that go with it.         *)
Dropped_heirs(m, a) == [m EXCEPT ![a] = Gone]      \* the successorships stay
Dropped(m, a) ==
    [i \in Item |-> IF i = a THEN Gone
                    ELSE IF m[i].heir = a THEN [m[i] EXCEPT !.heir = None] ELSE m[i]]

(* release_founded_channels: each passes to its successor or is dropped.   *)
Released(m, a) ==
    [i \in Item |->
        IF ~(There(m, i) /\ m[i].founder = a) THEN m[i]
        ELSE IF m[i].heir \notin {a, None} /\ There(m, m[i].heir)
             THEN [m[i] EXCEPT !.founder = m[i].heir, !.heir = None]
             ELSE Gone]

(* NickServ DROP releases the channels first and logs out afterwards; a    *)
(* refused drop goes unnoticed.                                            *)
Drop(a) ==
    /\ Op /\ There(mem, a) /\ a \in online
    /\ IF readonly
       THEN \* the founder cannot be changed, nor a channel or account dropped
            UNCHANGED <<mem, disk>>
       ELSE /\ mem' = Dropped(Released(mem, a), a)
            /\ disk' = Dropped(Released(disk, a), a)
    /\ online' = online \ {a}
    /\ UNCHANGED <<occupied, readonly, drifted>> /\ Unused /\ Rest

(* ---------------------------------------------------------- expire_sweep *)
Eligible(m, i) == There(m, i) /\ ~m[i].pinned /\ m[i].held = 0
MailTo(m, i) == IF i \in Account THEN m[i].mail
                ELSE m[i].founder # None /\ There(m, m[i].founder) /\ m[m[i].founder].mail
ToWarn_late(m, i) ==      \* when it is dropped
    Eligible(m, i) /\ ~m[i].warned /\ MailTo(m, i) /\ Idle(m, i) > Ttl
ToWarn_again(m, i) ==     \* whether warned before or not
    Eligible(m, i) /\ MailTo(m, i) /\ Idle(m, i) > Ttl - Lead /\ Idle(m, i) <= Ttl
ToWarn(m, i) ==
    /\ Eligible(m, i) /\ ~m[i].warned /\ MailTo(m, i)
    /\ Idle(m, i) > Ttl - Lead /\ Idle(m, i) <= Ttl
Expired_soon(m, i) == Eligible(m, i) /\ Idle(m, i) >= Ttl - Coalesce
Expired(m, i) == Eligible(m, i) /\ Idle(m, i) > Ttl
Exempt_opers(a) == a \in opers              \* whoever is logged in
Exempt(a) == a \in opers \union online

Warned(m) == [i \in Item |-> IF ToWarn(mem, i) THEN [m[i] EXCEPT !.warned = TRUE] ELSE m[i]]

(* The accounts that were idle when it looked, one after the other, each   *)
(* with its channels; then the channels, empty ones only.                  *)
WithoutAccounts(m, as) == FoldLeft(LAMBDA n, a : Released(Dropped(n, a), a), m, as)
WithoutChannels(m, cs) == [i \in Item |-> IF i \in cs THEN Gone ELSE m[i]]

expire_sweep ==
    /\ ~swept
    /\ \E as \in SetToAllKPermutations({a \in Account : Expired(mem, a) /\ ~Exempt(a)}) :
         LET going == {a \in Account : Expired(mem, a) /\ ~Exempt(a)}
         IN  /\ ToSet(as) = going
             /\ LET next(m) == WithoutAccounts(Warned(m), as)
                    idle == {c \in Channel \ occupied : Expired(next(mem), c)}
                IN  IF readonly
                    THEN mem' = Warned(mem) /\ UNCHANGED disk
                    ELSE /\ mem' = WithoutChannels(next(mem), idle)
                         /\ disk' = WithoutChannels(next(disk), idle)
    /\ drifted' = IF readonly THEN drifted \union {i \in Item : ToWarn(mem, i)} ELSE drifted
    /\ told' = [i \in Item |-> told[i] + (IF ToWarn(mem, i) THEN 1 ELSE 0)]
    /\ spared' = spared \union {i \in Item : ~(Eligible(mem, i) /\ MailTo(mem, i))}
    /\ online' = {a \in online : There(mem', a)}
    /\ swept' = TRUE
    /\ UNCHANGED <<occupied, opers, readonly, now, ops, used>>

SetReadonly ==
    /\ Op /\ readonly' = ~readonly
    /\ UNCHANGED <<mem, disk, online, occupied, drifted>> /\ Unused /\ Rest

Compact ==
    /\ Op /\ disk' = mem /\ drifted' = {}
    /\ UNCHANGED <<mem, online, occupied, readonly>> /\ Unused /\ Rest

Restart ==
    /\ Op /\ mem' = disk /\ drifted' = {} /\ readonly' = FALSE
    /\ online' = {} /\ UNCHANGED <<disk, occupied>>
    /\ used' = [i \in Item |-> IF i \in drifted THEN disk[i].seen ELSE used[i]]
    /\ spared' = spared \union drifted
    /\ told' = [i \in Item |-> IF i \in drifted THEN 0 ELSE told[i]]
    /\ Rest

\* Sweeps come far oftener than time advances here.
Tick == /\ swept /\ now < MaxNow /\ now' = now + 1 /\ swept' = FALSE
        /\ UNCHANGED <<mem, disk, online, occupied, opers, readonly, ops, drifted>> /\ Unused

Init ==
    /\ mem = [i \in Item |-> Gone] /\ disk = mem
    /\ online = {} /\ occupied = {} /\ opers \in {{}} \cup {{a} : a \in Account}
    /\ readonly = FALSE /\ now = 0 /\ swept = FALSE /\ ops = 0
    /\ used = [i \in Item |-> 0] /\ told = used /\ spared = {} /\ drifted = {}

ForItem(i) ==
    \/ \E until \in {now + 1, Forever} : Suspend(i, until)
    \/ Unsuspend(i)
    \/ \E on \in BOOLEAN : NoExpire(i, on)
Next ==
    \/ \E i \in Item : ForItem(i)
    \/ \E a \in Account : \/ LogIn(a) \/ LogOut(a) \/ Drop(a)
                          \/ \E on \in BOOLEAN : SetEmail(a, on) \/ Register(a, None, on)
                          \/ \E c \in Channel : Register(c, a, FALSE) \/ SetSuccessor(c, a)
    \/ \E c \in Channel : Join(c) \/ Leave(c)
    \/ expire_sweep \/ SetReadonly \/ Compact \/ Restart \/ Tick
Spec == Init /\ [][Next]_vars

-----------------------------------------------------------------------------
(* Types; whoever is logged in, founds or inherits a channel is registered *)
(* (release_founded_channels, purge_account_refs).                         *)
TypeOK ==
    /\ \A i \in Item : mem[i].seen \in 0..now /\ mem[i].warned \in BOOLEAN
    /\ online \subseteq Account /\ occupied \subseteq Channel /\ told \in [Item -> 0..MaxNow]
    /\ \A a \in online : There(mem, a)
    /\ \A c \in Channel : There(mem, c) =>
          There(mem, mem[c].founder) /\ (mem[c].heir # None => There(mem, mem[c].heir))

(* What expire_sweep drops for being idle: a channel may also go with its  *)
(* founder.                                                                *)
DroppedIdle(i) ==
    /\ There(mem, i) /\ ~There(mem', i) /\ swept # swept'
    /\ i \in Channel => There(mem', mem[i].founder)

(* Stamps are coalesced, so an item may go up to that much before its time *)
(* ("inactive longer than ttl seconds"), never more: whatever is pinned,   *)
(* suspended, restarted or used meanwhile, and nobody is logged in to it.  *)
NeverEarly ==
    \A i \in Item : DroppedIdle(i) =>
       now - used[i] > Ttl - Coalesce /\ i \notin online \union occupied

(* expire_sweep: "warn owners whose account/channel is approaching expiry  *)
(* ... a chance to keep it before it's dropped": once per idle spell, and  *)
(* always unless a sweep found it pinned, suspended or without an address  *)
(* since it was last used.                                                 *)
WarnedFirst == \A i \in Item : DroppedIdle(i) => told[i] > 0 \/ i \in spared
WarnedOnce == \A i \in Item : told[i] <= 1
WarnedAtAll == \A i \in Item : DroppedIdle(i) /\ MailTo(mem, i) => told[i] > 0

(* A restart forgets no stamp, warning or drop, except those made while    *)
(* the log refused writes.                                                 *)
StampsReplay == \A i \in Item \ drifted : disk[i] = mem[i]

(* "A channel people are currently sitting in is still in use."            *)
OccupiedKept ==
    \A c \in occupied : swept # swept' /\ There(mem, c) => There(mem', c)
=============================================================================
