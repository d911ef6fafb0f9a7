-------------------------------- MODULE Desks --------------------------------
(***************************************************************************)
(* What a node numbers: InfoServ's bulletins, ReportServ's reports,        *)
(* HelpServ's tickets, and the sids of OperServ's juped servers. All are   *)
(* local to the node. Every write is lenient: refused by the log under     *)
(* lockdown, it changes memory all the same.                               *)
(*                                                                         *)
(* An item is numbered twice: `id` as the code does, `serial` (in the      *)
(* place of its text) once for ever.                                       *)
(***************************************************************************)
EXTENDS Naturals, Sequences, FiniteSets, SequencesExt, FiniteSetsExt

CONSTANTS
    Host,          \* where requests come from
    Staff,         \* who takes tickets
    Server,        \* names to jupe
    Nobody,
    MaxQueue,      \* the longest moderation queue (2000 in the code)
    Cooldown,      \* ticks between two requests of a host (30 s in the code)
    MaxTime,       \* bound: ticks
    MaxDeskOps     \* bound: commands, compactions, restarts

VARIABLES
    desk,          \* items, jupes and counters in memory
    log,           \* the events
    times,         \* report_times: when a host last asked for something
    desklock,      \* EventLog.readonly
    time,
    seen           \* [serial, drifted, revived, spent]: histories and the bound

vars == <<desk, log, times, desklock, time, seen>>

Kind == {"news", "report", "help"}
Moderated == {"report", "help"}

EmptyDesk == [items |-> [k \in Kind |-> <<>>], next |-> [k \in Kind |-> 1],
              jupes |-> <<>>, jupe_seq |-> 0]

\* Mutant: ids start from zero.
Item_zero(id, serial, from) ==
    [id |-> id - 1, serial |-> serial, from |-> from, open |-> TRUE, handler |-> Nobody]

\* An item as it is filed.
Item(id, serial, from) ==
    [id |-> id, serial |-> serial, from |-> from, open |-> TRUE, handler |-> Nobody]

Ids(items) == {items[i].id : i \in DOMAIN items}
Find(items, id) == CHOOSE i \in DOMAIN items : items[i].id = id

Edit(d, kind, id, Change(_)) ==
    IF id \in Ids(d.items[kind])
    THEN [d EXCEPT !.items[kind][Find(d.items[kind], id)] = Change(@)]
    ELSE d

Close(item) == [item EXCEPT !.open = FALSE]

-----------------------------------------------------------------------------
(* The fold. *)

\* Mutant: the counter follows the last id folded, not the highest.
filed_last(d, kind, item) ==
    [d EXCEPT !.next[kind] = item.id,
              !.items[kind] = IF item.id \in Ids(@) THEN @ ELSE Append(@, item)]

\* An item is filed once; the counter stays ahead of every id seen.
filed(d, kind, item) ==
    [d EXCEPT !.next[kind] = IF item.id + 1 > @ THEN item.id + 1 ELSE @,
              !.items[kind] = IF item.id \in Ids(@) THEN @ ELSE Append(@, item)]

juped(d, jupe) ==
    IF \E i \in DOMAIN d.jupes : d.jupes[i].name = jupe.name THEN d
    ELSE [d EXCEPT !.jupes = Append(@, jupe), !.jupe_seq = @ + 1]

deleted(d, kind, id) == [d EXCEPT !.items[kind] = SelectSeq(@, LAMBDA item : item.id # id)]

unjuped(d, name) == [d EXCEPT !.jupes = SelectSeq(@, LAMBDA jupe : jupe.name # name)]

taken(d, id, handler) == Edit(d, "help", id, LAMBDA item : [item EXCEPT !.handler = handler])

apply(d, e) ==
    CASE e.type = "filed"   -> filed(d, e.kind, e.item)
      [] e.type = "closed"  -> Edit(d, e.kind, e.id, Close)
      [] e.type = "deleted" -> deleted(d, e.kind, e.id)
      [] e.type = "taken"   -> taken(d, e.id, e.handler)
      [] e.type = "juped"   -> juped(d, e.jupe)
      [] e.type = "unjuped" -> unjuped(d, e.name)

Replay(events) == FoldLeft(apply, EmptyDesk, events)

\* Mutant: who took a ticket is not written.
ItemEvents_untaken(kind, item) ==
    <<[type |-> "filed", kind |-> kind, item |-> Item(item.id, item.serial, item.from)]>>
    \o (IF item.open THEN <<>> ELSE <<[type |-> "closed", kind |-> kind, id |-> item.id]>>)

\* An item as compaction writes it.
ItemEvents(kind, item) ==
    <<[type |-> "filed", kind |-> kind, item |-> Item(item.id, item.serial, item.from)]>>
    \o (IF item.handler = Nobody THEN <<>>
        ELSE <<[type |-> "taken", id |-> item.id, handler |-> item.handler]>>)
    \o (IF item.open THEN <<>> ELSE <<[type |-> "closed", kind |-> kind, id |-> item.id]>>)

Snapshot(d) ==
    FlattenSeq([i \in DOMAIN d.items.news |-> ItemEvents("news", d.items.news[i])])
    \o FlattenSeq([i \in DOMAIN d.items.report |-> ItemEvents("report", d.items.report[i])])
    \o FlattenSeq([i \in DOMAIN d.items.help |-> ItemEvents("help", d.items.help[i])])
    \o [i \in DOMAIN d.jupes |-> [type |-> "juped", jupe |-> d.jupes[i]]]

-----------------------------------------------------------------------------
(* Commands. *)

Spend == seen.spent < MaxDeskOps

Lenient(d, e, filings, drift) ==
    /\ Spend
    /\ desk' = d
    /\ log' = IF desklock THEN log ELSE Append(log, e)
    /\ seen' = [seen EXCEPT !.spent = @ + 1, !.serial = @ + filings,
                            !.drifted = @ \/ desklock \/ drift]

Quiet == UNCHANGED <<times, desklock, time>>

\* Mutant: the oldest goes, resolved or not.
prune_queue_oldest(items) == IF Len(items) < MaxQueue THEN items ELSE Tail(items)

\* Mutant: the bound is looked at after the push.
prune_queue_late(items) == IF Len(items) <= MaxQueue THEN items ELSE Tail(items)

\* A full queue loses its oldest resolved item, or its oldest if all are open.
prune_queue(items) ==
    IF Len(items) < MaxQueue THEN items
    ELSE LET closed == {i \in DOMAIN items : ~items[i].open}
         IN  RemoveAt(items, IF closed = {} THEN 1 ELSE Min(closed))

\* REPORT and REQUEST: at most one per host and cooldown.
File(kind, host) ==
    /\ times[kind][host] = 0 \/ time - times[kind][host] >= Cooldown
    /\ times' = [times EXCEPT ![kind][host] = time]
    /\ LET kept == prune_queue(desk.items[kind])
           item == Item(desk.next[kind], seen.serial, host)
       IN  Lenient([desk EXCEPT !.items[kind] = Append(kept, item), !.next[kind] = @ + 1],
                   [type |-> "filed", kind |-> kind, item |-> item],
                   1, kept # desk.items[kind])
    /\ UNCHANGED <<desklock, time>>

\* POST and OPOST: bulletins are not bounded.
Post ==
    /\ LET item == Item(desk.next.news, seen.serial, Nobody)
       IN  Lenient([desk EXCEPT !.items.news = Append(@, item), !.next.news = @ + 1],
                   [type |-> "filed", kind |-> "news", item |-> item], 1, FALSE)
    /\ Quiet

\* ReportServ DEL by id; InfoServ DEL by position, which finds the id.
Delete(kind, id) ==
    /\ id \in Ids(desk.items[kind])
    /\ Lenient(deleted(desk, kind, id), [type |-> "deleted", kind |-> kind, id |-> id], 0, FALSE)
    /\ Quiet

IsOpen(kind, id) == \E i \in DOMAIN desk.items[kind] : desk.items[kind][i].id = id /\ desk.items[kind][i].open

\* CLOSE: only what is open.
CloseItem(kind, id) ==
    /\ IsOpen(kind, id)
    /\ Lenient(Edit(desk, kind, id, Close), [type |-> "closed", kind |-> kind, id |-> id], 0, FALSE)
    /\ Quiet

\* TAKE: an open ticket, whoever has it.
Take(id, handler) ==
    /\ IsOpen("help", id)
    /\ Lenient(taken(desk, id, handler), [type |-> "taken", id |-> id, handler |-> handler], 0, FALSE)
    /\ Quiet

\* NEXT: the oldest that nobody has.
NextOpen(handler) ==
    LET free == {i \in DOMAIN desk.items.help : desk.items.help[i].open /\ desk.items.help[i].handler = Nobody}
    IN  free # {} /\ Take(desk.items.help[Min(free)].id, handler)

\* CANCEL: the requester's newest open ticket.
Cancel(host) ==
    LET mine == {i \in DOMAIN desk.items.help : desk.items.help[i].open /\ desk.items.help[i].from = host}
    IN  mine # {} /\ CloseItem("help", desk.items.help[Max(mine)].id)

\* JUPE: a name that is juped keeps its sid.
Jupe(name) ==
    /\ \A i \in DOMAIN desk.jupes : desk.jupes[i].name # name
    /\ LET jupe == [name |-> name, sid |-> desk.jupe_seq]
       IN  Lenient(juped(desk, jupe), [type |-> "juped", jupe |-> jupe], 0, FALSE)
    /\ Quiet

Unjupe(name) ==
    /\ \E i \in DOMAIN desk.jupes : desk.jupes[i].name = name
    /\ Lenient(unjuped(desk, name), [type |-> "unjuped", name |-> name], 0, FALSE)
    /\ Quiet

SetReadonly ==
    /\ Spend
    /\ desklock' = ~desklock
    /\ seen' = [seen EXCEPT !.spent = @ + 1]
    /\ UNCHANGED <<desk, log, times, time>>

Compact ==
    /\ Spend
    /\ log' = Snapshot(desk)
    /\ seen' = [seen EXCEPT !.spent = @ + 1, !.drifted = FALSE]
    /\ UNCHANGED <<desk, times, desklock, time>>

\* Cooldowns and the lockdown are forgotten; what was pruned in memory only
\* comes back.
Restart ==
    /\ Spend
    /\ desk' = Replay(log)
    /\ times' = [k \in Moderated |-> [h \in Host |-> 0]]
    /\ desklock' = FALSE
    /\ seen' = [seen EXCEPT !.spent = @ + 1, !.drifted = FALSE,
                            !.revived = @ \/ \E k \in Moderated : Len(desk'.items[k]) > MaxQueue]
    /\ UNCHANGED <<log, time>>

Tick == time < MaxTime /\ time' = time + 1 /\ UNCHANGED <<desk, log, times, desklock, seen>>

-----------------------------------------------------------------------------
Init ==
    /\ desk = EmptyDesk
    /\ log = <<>>
    /\ times = [k \in Moderated |-> [h \in Host |-> 0]]
    /\ desklock = FALSE
    /\ time = 1
    /\ seen = [serial |-> 1, drifted |-> FALSE, revived |-> FALSE, spent |-> 0]

Next ==
    \/ \E kind \in Moderated, host \in Host : File(kind, host)
    \/ \E kind \in {"news", "report"}, id \in 1..MaxDeskOps : Delete(kind, id)
    \/ \E kind \in Moderated, id \in 1..MaxDeskOps : CloseItem(kind, id)
    \/ \E handler \in Staff : NextOpen(handler) \/ \E id \in 1..MaxDeskOps : Take(id, handler)
    \/ \E host \in Host : Cancel(host)
    \/ \E name \in Server : Jupe(name) \/ Unjupe(name)
    \/ Post \/ SetReadonly \/ Compact \/ Restart \/ Tick

Spec == Init /\ [][Next]_vars

-----------------------------------------------------------------------------
(* Properties. *)

Items == UNION {{<<k, desk.items[k][i]>> : i \in DOMAIN desk.items[k]} : k \in Kind}

\* Items, counters and jupes have their types.
TypeOK ==
    /\ \A x \in Items : x[2] \in [id : 1..MaxDeskOps, serial : 1..seen.serial - 1, from : Host \cup {Nobody},
                                  open : BOOLEAN, handler : Staff \cup {Nobody}]
    /\ desk.next \in [Kind -> 1..MaxDeskOps + 1]
    /\ \A i \in DOMAIN desk.jupes : desk.jupes[i] \in [name : Server, sid : 0..MaxDeskOps]
    /\ times \in [Moderated -> [Host -> 0..MaxTime]]

\* An id on a queue names one item, and every id on it was given out before
\* the next, whatever was deleted, compacted and replayed: CLOSE and TAKE hit
\* the item the staff was shown.
IdsStand ==
    \A k \in Kind : /\ \A i, j \in DOMAIN desk.items[k] : i < j => desk.items[k][i].id < desk.items[k][j].id
                    /\ \A id \in Ids(desk.items[k]) : id < desk.next[k]

\* A flood does not grow a moderation queue past its bound ("so a flood can't
\* grow it without limit"), until a restart brings back what was pruned in
\* memory only.
QueueBounded == ~seen.revived => \A k \in Moderated : Len(desk.items[k]) <= MaxQueue

\* A restart brings back every queue, with who took what and what is closed,
\* and the jupes with their sids, unless a write was refused or an item pruned.
DesksReplay ==
    LET back == Replay(log)
    IN  ~seen.drifted => back.items = desk.items /\ back.jupes = desk.jupes

\* Pruning never costs an open request while a resolved one could go.
OpenKept ==
    \A k \in Moderated :
      seen'.serial > seen.serial =>
         \A i \in DOMAIN desk.items[k] :
            desk.items[k][i].id \notin Ids(desk'.items[k]) =>
               \/ ~desk.items[k][i].open
               \/ \A j \in DOMAIN desk.items[k] : desk.items[k][j].open

\* No two juped servers share a sid ("keep jupe_seq ahead so a fresh add can't
\* reuse a sid").
SidsDistinct == \A i, j \in DOMAIN desk.jupes : desk.jupes[i].sid = desk.jupes[j].sid => i = j
=============================================================================
