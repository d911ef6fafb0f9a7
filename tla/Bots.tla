-------------------------------- MODULE Bots --------------------------------
(***************************************************************************)
(* BotServ's bots: the registry, the channels they are assigned to, and    *)
(* reconcile_bots, which brings the pseudo-clients on the network in line  *)
(* after every command. The log is kept as what a restart folds it into;   *)
(* what the ircd knows is kept beside what services believe of it.         *)
(***************************************************************************)
EXTENDS Naturals, Sequences, FiniteSets, SequencesExt, FiniteSetsExt, Functions

CONSTANTS Bot, Channel, None,
          Ident,             \* the identities (user, host, gecos) a bot may have
          MaxUid, MaxOps     \* bounds: clients introduced; events

VARIABLES
    mem,        \* [ident : bot -> identity or None, bot : channel -> bot or None,
                \*  there : registered channels, default : bot or None]
    disk,       \* the fold of the log
    uids,       \* bot_uids and bot_idents: bot -> [uid, ident], for those introduced
    joined,     \* bot_channels
    next,       \* next_bot_index
    clients,    \* the ircd's: uid -> [bot, ident]
    present,    \* the ircd's: <<uid, channel>>
    ops,
    settled,    \* "yes", "pending" (a peer's change nothing has reconciled yet) or
                \*  "strayed" (a channel was renamed under a bot's feet)
    drifted,    \* an operation failed half way, or a default bot was deleted
    chosen,     \* history: the default bot staff set and nobody deleted since
    orphans     \* history: bots staff deleted, or that a failure or a peer left dangling

vars == <<mem, disk, uids, joined, next, clients, present, ops, settled, drifted, chosen, orphans>>
network == <<uids, joined, next, clients, present>>

Empty == [ident |-> [b \in Bot |-> None], bot |-> [c \in Channel |-> None],
          there |-> {}, default |-> None]
Live(m) == {b \in Bot : m.ident[b] # None}
default_bot(m) == IF m.default # None /\ m.default \in Live(m) THEN m.default ELSE None
Op == ops < MaxOps /\ ops' = ops + 1

(* ------------------------------------------------------------- the store *)
(* The fold of one event.                                                  *)
Removed(m, b) == [m EXCEPT !.ident[b] = None,
                           !.default = IF @ = b THEN None ELSE @]
apply(m, e) ==
    CASE e.type = "add"      -> [m EXCEPT !.ident[e.bot] = e.ident]
      [] e.type = "remove"   -> Removed(m, e.bot)
      [] e.type = "assign"   -> IF e.chan \in m.there THEN [m EXCEPT !.bot[e.chan] = e.bot] ELSE m
      [] e.type = "default"  -> [m EXCEPT !.default = e.bot]
      [] e.type = "register" -> [m EXCEPT !.there = @ \union {e.chan}, !.bot[e.chan] = None]
      [] e.type = "drop"     -> [m EXCEPT !.there = @ \ {e.chan}, !.bot[e.chan] = None]
      [] e.type = "rename"   -> IF e.chan \in m.there
                                THEN [m EXCEPT !.there = (@ \ {e.chan}) \union {e.to},
                                               !.bot[e.to] = m.bot[e.chan], !.bot[e.chan] = None]
                                ELSE m
Added(b, i) == [type |-> "add", bot |-> b, ident |-> i]
Gone(b) == [type |-> "remove", bot |-> b]
Assigned(c, b) == [type |-> "assign", chan |-> c, bot |-> b]

(* In memory, removing a bot leaves the default alone.                     *)
live(m, e) == IF e.type = "remove" THEN [m EXCEPT !.ident[e.bot] = None] ELSE apply(m, e)

(* The first n of the events reach the log and the rest fail; memory       *)
(* follows event by event, or not at all unless every append succeeded.    *)
Appended(events, n) == disk' = FoldLeft(apply, disk, SubSeq(events, 1, n))
Stepwise_anyway(events, n) ==
    /\ Appended(events, n) /\ mem' = FoldLeft(live, mem, events) /\ drifted' = drifted
Stepwise(events, n) ==
    /\ Appended(events, n) /\ mem' = FoldLeft(live, mem, SubSeq(events, 1, n))
    /\ drifted' = (drifted \/ \E i \in 1..n : events[i].type = "remove" /\ mem.default = events[i].bot)
AtOnce(events, n) ==
    /\ Appended(events, n)
    /\ mem' = IF n = Len(events) THEN FoldLeft(live, mem, events) ELSE mem
    /\ drifted' = (drifted \/ n \in 1..(Len(events) - 1)
                   \/ \E i \in 1..n : events[i].type = "remove" /\ mem.default = events[i].bot)

(* -------------------------------------------------------- reconcile_bots *)
(* What it leaves behind: clients are quit that changed or went, and       *)
(* introduced anew; then memberships are joined and parted.                *)
Kept_changed(known, b) == b \in DOMAIN known /\ b \in Live(mem')
Kept(known, b) == b \in DOMAIN known /\ b \in Live(mem') /\ mem'.ident[b] = known[b].ident
Desired == {<<mem'.bot[c], c>> : c \in {d \in mem'.there : mem'.bot[d] \in Live(mem')}}

Advance_not(n) == next
Advance(n) == next + n

(* From the clients and memberships services believe in by now, and the    *)
(* real ones.                                                              *)
reconcile(known, held, there) ==
    LET new == SetToSeq({b \in Live(mem') : ~Kept(known, b)})
        now == [b \in Live(mem') |->
                  IF Kept(known, b) THEN known[b]
                  ELSE [uid |-> next + (CHOOSE k \in DOMAIN new : new[k] = b) - 1,
                        ident |-> mem'.ident[b]]]
        used == {now[b].uid : b \in Live(mem')}
        stay == {bc \in held : Kept(known, bc[1])}
        on(pairs) == {<<now[bc[1]].uid, bc[2]>> : bc \in pairs}
    IN  /\ uids' = now
        /\ next' = Advance(Len(new))
        /\ joined' = Desired
        /\ clients' = [u \in used |-> CHOOSE r \in [bot : Live(mem'), ident : Ident] :
                           now[r.bot] = [uid |-> u, ident |-> r.ident]]
        /\ present' = ({p \in there : p[1] \in used} \ on(stay \ Desired)) \union on(Desired \ stay)
        /\ settled' = IF settled = "strayed" THEN settled ELSE "yes"

Command == Op /\ next + Cardinality(Bot) <= MaxUid

(* --------------------------------------------------------------- BotServ *)
BotAdd(b, i) ==
    /\ Command /\ b \notin Live(mem)
    /\ \E n \in 0..1 : Stepwise(<<Added(b, i)>>, n)
    /\ reconcile(uids, joined, present) /\ UNCHANGED <<chosen, orphans>>

BotDel(b) ==
    /\ Command /\ b \in Live(mem)
    /\ \E n \in 0..1 : Stepwise(<<Gone(b)>>, n)
    /\ reconcile(uids, joined, present)
    /\ chosen' = IF b \in Live(mem') \/ chosen # b THEN chosen ELSE None
    /\ orphans' = orphans \union {b}

BotDelAll ==
    /\ Command /\ Live(mem) # {}
    /\ LET events == SetToSeq({Gone(b) : b \in Live(mem)})
       IN  \E n \in 0..Len(events) : AtOnce(events, n)
    /\ reconcile(uids, joined, present)
    /\ chosen' = IF chosen \in Live(mem') THEN chosen ELSE None
    /\ orphans' = orphans \union Live(mem)

(* BOT CHANGE: with another nick, the channels of the old one follow.      *)
Moves_none(b, new) == << >>
Moves(b, new) == SetToSeq({Assigned(c, new) : c \in {d \in mem.there : mem.bot[d] = b}})
BotChange(b, new, i) ==
    /\ Command /\ b \in Live(mem) /\ (new # b => new \notin Live(mem))
    /\ LET events == IF new = b THEN <<Added(b, i)>>
                     ELSE <<Gone(b), Added(new, i)>> \o Moves(b, new)
       IN  \E n \in 0..Len(events) :
              /\ Stepwise(events, n)
              /\ orphans' = IF n < Len(events) THEN orphans \union {b} ELSE orphans
    /\ reconcile(uids, joined, present)
    /\ chosen' = IF chosen \in Live(mem') THEN chosen ELSE None

Assign(c, b) ==
    /\ Command /\ c \in mem.there /\ b \in Live(mem)
    /\ \E n \in 0..1 : Stepwise(<<Assigned(c, b)>>, n)
    /\ reconcile(uids, joined, present) /\ UNCHANGED <<chosen, orphans>>
Unassign(c) ==
    /\ Command /\ c \in mem.there /\ mem.bot[c] # None
    /\ \E n \in 0..1 : Stepwise(<<Assigned(c, None)>>, n)
    /\ reconcile(uids, joined, present) /\ UNCHANGED <<chosen, orphans>>
AutoAssign(b) ==
    /\ Command /\ b \in Live(mem) \union {None}
    /\ \E n \in 0..1 : /\ Stepwise(<<[type |-> "default", bot |-> b]>>, n)
                       /\ chosen' = IF n = 1 THEN b ELSE chosen
    /\ reconcile(uids, joined, present) /\ UNCHANGED orphans

(* -------------------------------------------------------------- ChanServ *)
(* REGISTER assigns the default bot in passing.                            *)
Register(c) ==
    /\ Command /\ c \notin mem.there
    /\ LET reg == [type |-> "register", chan |-> c]
           events == IF default_bot(mem) = None THEN <<reg>>
                     ELSE <<reg, Assigned(c, default_bot(mem))>>
       IN  \E n \in 0..Len(events) : Stepwise(events, n)
    /\ reconcile(uids, joined, present) /\ UNCHANGED <<chosen, orphans>>
DropChannel(c) ==
    /\ Command /\ c \in mem.there
    /\ \E n \in 0..1 : Stepwise(<<[type |-> "drop", chan |-> c]>>, n)
    /\ reconcile(uids, joined, present) /\ UNCHANGED <<chosen, orphans>>

Moved(ps, c, to) == {IF p[2] = c THEN <<p[1], to>> ELSE p : p \in ps}
(* RENAME: the ircd renames the channel, members and all, and then gets    *)
(* what reconcile_bots thinks is missing: a join to a channel one is in    *)
(* and a part from one that no longer exists change nothing. A bot a peer  *)
(* had replaced meanwhile is left behind in the renamed channel.           *)
Rename(c, to) ==
    /\ Command /\ c \in mem.there /\ to \notin mem.there
    /\ \A p \in present : p[2] # to
    /\ Stepwise(<<[type |-> "rename", chan |-> c, to |-> to]>>, 1)
    /\ uids' = uids /\ next' = next /\ clients' = clients
    /\ joined' = Desired
    /\ present' = (Moved(present, c, to) \ {<<uids[bc[1]].uid, bc[2]>> : bc \in joined \ Desired})
                     \union {<<uids[bc[1]].uid, bc[2]>> : bc \in Desired \ joined}
    /\ settled' = IF settled = "strayed" \/ \E bc \in joined : bc[2] = c /\ <<bc[1], to>> \notin Desired
                  THEN "strayed" ELSE "yes"
    /\ UNCHANGED <<chosen, orphans>>
    /\ \A b \in Live(mem) : Kept(uids, b)

(* ------------------------------------------------------- from the network *)
(* A bot kicked from a channel, or killed, comes straight back.            *)
Evicted_not(b, c) == joined
Evicted(b, c) == joined \ {<<b, c>>}
Kicked(b, c) ==
    /\ Command /\ b \in DOMAIN uids /\ <<uids[b].uid, c>> \in present
    /\ UNCHANGED <<mem, disk, drifted, chosen, orphans>>
    /\ LET left == present \ {<<uids[b].uid, c>>}
       IN  IF <<b, c>> \notin joined
              \/ Evicted(b, c) = joined
           THEN present' = left /\ UNCHANGED <<uids, joined, next, clients, settled>>
           ELSE reconcile(uids, Evicted(b, c), left)
Killed(b) ==
    /\ Command /\ b \in DOMAIN uids
    /\ UNCHANGED <<mem, disk, drifted, chosen, orphans>>
    /\ reconcile([x \in DOMAIN uids \ {b} |-> uids[x]], {bc \in joined : bc[1] # b},
                 {p \in present : p[1] # uids[b].uid})

(* A channel renamed by somebody else: the registration follows, the bots' *)
(* memberships keep the old name, so that a bot kicked or unassigned after *)
(* that is not recognised in the channel and neither rejoins nor parts it. *)
RenamedElsewhere(c, to) ==
    /\ Command
    /\ c \in mem.there /\ to \notin mem.there /\ \A p \in present : p[2] # to
    /\ Stepwise(<<[type |-> "rename", chan |-> c, to |-> to]>>, 1)
    /\ present' = Moved(present, c, to)
    /\ settled' = IF \E p \in present : p[2] = c THEN "strayed" ELSE settled
    /\ UNCHANGED <<uids, joined, next, clients, chosen, orphans>>

(* A peer's channel is assigned or dropped: nothing is reconciled yet.     *)
Ingest(c, b) ==
    /\ Command /\ c \in mem.there /\ mem.bot[c] # b
    /\ Stepwise(<<Assigned(c, b)>>, 1)
    /\ orphans' = orphans \union {b}
    /\ settled' = (IF settled = "yes" THEN "pending" ELSE settled) /\ UNCHANGED <<network, chosen>>

Compact == Op /\ disk' = mem /\ drifted' = FALSE /\ UNCHANGED <<mem, network, settled, chosen, orphans>>
Restart ==   \* the link goes with the process; startup_actions introduces all
    /\ Command /\ mem' = disk /\ drifted' = FALSE
    /\ LET ids == SetToSeq(Live(disk))
           uid(b) == CHOOSE k \in DOMAIN ids : ids[k] = b
       IN  /\ uids' = [b \in Live(disk) |-> [uid |-> uid(b) - 1, ident |-> disk.ident[b]]]
           /\ next' = Len(ids)
           /\ clients' = [u \in 0..(Len(ids) - 1) |-> [bot |-> ids[u + 1], ident |-> disk.ident[ids[u + 1]]]]
           /\ joined' = {<<disk.bot[c], c>> : c \in {d \in disk.there : disk.bot[d] \in Live(disk)}}
           /\ present' = {<<uid(bc[1]) - 1, bc[2]>> : bc \in joined'}
    /\ settled' = "yes" /\ UNCHANGED <<disk, chosen, orphans>>

Init ==
    /\ mem = Empty /\ disk = Empty
    /\ uids = << >> /\ joined = {} /\ next = 0 /\ clients = << >> /\ present = {}
    /\ ops = 0 /\ settled = "yes" /\ drifted = FALSE /\ chosen = None /\ orphans = {}

BotServ ==
    \/ \E b \in Bot, i \in Ident : BotAdd(b, i) \/ \E new \in Bot : BotChange(b, new, i)
    \/ \E b \in Bot : BotDel(b)
    \/ BotDelAll
    \/ \E b \in Bot \union {None} : AutoAssign(b)
    \/ \E c \in Channel : Unassign(c) \/ \E b \in Bot : Assign(c, b)
ChanServ == \E c \in Channel : Register(c) \/ DropChannel(c) \/ \E to \in Channel : Rename(c, to)
Outside ==
    \/ \E b \in Bot : Killed(b) \/ \E c \in Channel : Kicked(b, c) \/ Ingest(c, b)
    \/ \E c, to \in Channel : RenamedElsewhere(c, to)
    \/ Compact \/ Restart
Next == BotServ \/ ChanServ \/ Outside
Spec == Init /\ [][Next]_vars

-----------------------------------------------------------------------------
(* Types; every client has a uid of its own.                               *)
TypeOK ==
    /\ mem.ident \in [Bot -> Ident \union {None}] /\ mem.bot \in [Channel -> Bot \union {None}]
    /\ DOMAIN uids \subseteq Bot /\ \A b \in DOMAIN uids : uids[b].uid < next
    /\ \A a, b \in DOMAIN uids : uids[a].uid = uids[b].uid => a = b
    /\ next <= MaxUid

(* reconcile_bots: after every command, kick or kill, the network has one  *)
(* client for each bot, with its identity, in exactly the channels it is   *)
(* assigned to.                                                            *)
BotsInPlace ==
    settled = "yes" =>
        /\ DOMAIN uids = Live(mem)
        /\ \A b \in Live(mem) :
              /\ uids[b].uid \in DOMAIN clients
              /\ clients[uids[b].uid] = [bot |-> b, ident |-> mem.ident[b]]
        /\ present = {<<uids[mem.bot[c]].uid, c>> :
                         c \in {d \in mem.there : mem.bot[d] \in Live(mem)}}

(* A restart finds the registry as it was, unless BOT DEL * failed half    *)
(* way or the default bot was deleted.                                     *)
BotsReplay == ~drifted => disk = mem

(* A channel is left assigned to a bot that does not exist only when staff *)
(* deleted that bot, or a failure or a peer came between: BOT CHANGE to     *)
(* another nick takes every channel along, and REGISTER does not hand out  *)
(* a default bot that is gone.                                             *)
AssignedToLiveBots ==
    \A c \in mem.there : mem.bot[c] \in Live(mem) \union orphans \union {None}

(* The fold of BotRemoved: "A default bot that was just removed can't stay *)
(* the default."                                                           *)
DefaultIsChosen == default_bot(mem) # None => default_bot(mem) = chosen
=============================================================================
