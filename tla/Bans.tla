--------------------------------- MODULE Bans ---------------------------------
(***************************************************************************)
(* Network-wide lists that OperServ keeps and the ircd enforces: X-lines   *)
(* (AKILL, SQLINE, ...), forbidden nicks, spam filters, NOTIFY watches,    *)
(* session exceptions, services ignores and the defence level.             *)
(*                                                                         *)
(* A list is a function from its keys to lives: the second at which the    *)
(* entry expires, Forever, or 0 if there is none. The ircd has a copy of   *)
(* the lines. A command's lines are written at once; those of a peer's     *)
(* entry go through a queue (`irc_out`), which is drained when the loop    *)
(* picks it. The process ends with the link, and lines placed by services  *)
(* do not survive the split.                                               *)
(***************************************************************************)
EXTENDS Integers, Sequences, FiniteSets, SequencesExt

CONSTANTS
    Mask,
    AkillMasks,    \* the masks an operator bans and lifts
    ForbidMasks,   \* those he forbids as nicks
    PeerMasks,     \* those another node bans and lifts
    Durations,     \* a ban's possible durations; Forever for a permanent one
    Forever,
    Quirks,        \* known exceptions the instance lets happen: "slow ingest",
                   \* a second passing between ingest's clock reads, and
                   \* "late refresh", an expired entry replacing a live one
    MaxClock,      \* bound: seconds
    MaxOps         \* bound: commands, peers' entries, restarts

VARIABLES
    mem,           \* NetData, and the lists that are never logged
    record,        \* the log, whether memory has drifted from it, and (history)
                   \* which nicks an SQLINE and a FORBID contend for
    line,          \* the ircd's X-lines
    out,           \* irc_out
    linked,        \* whether the link is up
    clock,
    spent          \* how much of MaxOps is spent

vars == <<mem, record, line, out, linked, clock, spent>>

Kind == {"gline", "qline"}
Key == Kind \X Mask
Logged == {"akill", "forbid", "filter", "notify", "except"}

Live(life) == life > clock
Vacant(S) == [k \in S |-> 0]
Max2(a, b) == IF a > b THEN a ELSE b

EmptyMem ==
    [akill |-> Vacant(Key), forbid |-> Vacant(Mask), filter |-> Vacant(Mask),
     notify |-> Vacant(Mask), except |-> Vacant(Mask), ignore |-> Vacant(Mask),
     defcon |-> 5, readonly |-> FALSE]

-----------------------------------------------------------------------------
(* The log. *)

\* Every Added event replaces the entry under its key, every Removed deletes it.
apply(m, e) == [m EXCEPT ![e.list][e.key] = e.life]

Replay(log) == FoldLeft(apply, EmptyMem, log)

Ev(list, key, life) == [list |-> list, key |-> key, life |-> life]

\* Mutant: one list is forgotten.
Snapshot_partial(m) ==
    {e \in UNION {{Ev(list, k, m[list][k]) : k \in DOMAIN m[list]} : list \in Logged \ {"except"}} :
        Live(e.life)}

\* Compaction writes what is left: entries that expire do not outlive it.
Snapshot(m) ==
    {e \in UNION {{Ev(list, k, m[list][k]) : k \in DOMAIN m[list]} : list \in Logged} : Live(e.life)}

Fresh(m) == record' = [record EXCEPT !.log = SetToSeq(Snapshot(m)), !.drifted = FALSE]

\* One list has changed a nick's Q-line while the other wants it as it was; the
\* line is one list's own again when the other has nothing under it.
Contested(list, key) ==
    LET Mark(mask, other) == IF Live(other) THEN record.contested \cup {mask} ELSE record.contested \ {mask}
    IN  CASE list = "akill" /\ key[1] = "qline" -> Mark(key[2], mem.forbid[key[2]])
          [] list = "forbid"                    -> Mark(key, mem.akill[<<"qline", key>>])
          [] OTHER                              -> record.contested

\* A strict write: nothing happens under lockdown.
Write(list, key, life) ==
    /\ mem' = [mem EXCEPT ![list][key] = life]
    /\ record' = [record EXCEPT !.log = Append(@, Ev(list, key, life)), !.contested = Contested(list, key)]

Strict(list, key, life) == ~mem.readonly /\ Write(list, key, life)

Refused == mem.readonly /\ UNCHANGED <<mem, record>>

\* A lenient one changes memory all the same.
Lenient(list, key, life) ==
    \/ Strict(list, key, life)
    \/ /\ mem.readonly
       /\ mem' = [mem EXCEPT ![list][key] = life]
       /\ record' = [record EXCEPT !.drifted = TRUE]

-----------------------------------------------------------------------------
(* Lines at the ircd (external): a duration of 0 is a permanent line. *)

AddLine(lines, key, duration) ==
    [lines EXCEPT ![key] = IF duration = 0 THEN Forever ELSE clock + duration]

DelLine(lines, key) == [lines EXCEPT ![key] = 0]

\* The duration of a line that is to end with its record.
Remaining(life, now) == IF life = Forever THEN 0 ELSE Max2(life - now, 0)

\* Mutant: a permanent entry gets an expiry.
Until_finite(duration) == clock + duration

\* When an entry of a duration expires.
Until(duration) == IF duration = Forever THEN Forever ELSE clock + duration

Command == linked /\ spent < MaxOps /\ spent' = spent + 1 /\ UNCHANGED <<out, linked, clock>>

\* AKILL ADD, SQLINE ADD, ...: adds or refreshes.
AkillAdd(key, duration) ==
    /\ Command
    /\ \/ /\ Strict("akill", key, Until(duration))
          /\ line' = AddLine(line, key, IF duration = Forever THEN 0 ELSE duration)
       \/ Refused /\ UNCHANGED line

\* Mutant: the ircd is not told.
AkillDel_quiet(key) ==
    /\ Command
    /\ Live(mem.akill[key])
    /\ Strict("akill", key, 0) \/ Refused
    /\ UNCHANGED line

\* AKILL DEL <mask|number>: only what is listed, that is, live.
AkillDel(key) ==
    /\ Command
    /\ Live(mem.akill[key])
    /\ \/ Strict("akill", key, 0) /\ line' = DelLine(line, key)
       \/ Refused /\ UNCHANGED line

\* FORBID ADD NICK: a Q-line keeps the nick from being used at all.
ForbidAdd(mask) ==
    /\ Command
    /\ \/ Strict("forbid", mask, Forever) /\ line' = AddLine(line, <<"qline", mask>>, 0)
       \/ Refused /\ UNCHANGED line

ForbidDel(mask) ==
    /\ Command
    /\ Live(mem.forbid[mask])
    /\ \/ Strict("forbid", mask, 0) /\ line' = DelLine(line, <<"qline", mask>>)
       \/ Refused /\ UNCHANGED line

\* SPAMFILTER ADD and DEL; the ircd's copy cannot be deleted over the link.
FilterAdd(mask, duration) ==
    /\ Command
    /\ Strict("filter", mask, Until(duration)) \/ Refused
    /\ UNCHANGED line

FilterDel(mask) ==
    /\ Command
    /\ Live(mem.filter[mask])
    /\ Strict("filter", mask, 0) \/ Refused
    /\ UNCHANGED line

\* NOTIFY ADD and DEL: DEL finds an entry by its mask even if it has expired.
NotifyAdd(mask, duration) ==
    /\ Command
    /\ Strict("notify", mask, Until(duration)) \/ Refused
    /\ UNCHANGED line

NotifyDel(mask) ==
    /\ Command
    /\ mem.notify[mask] # 0
    /\ Strict("notify", mask, 0) \/ Refused
    /\ UNCHANGED line

\* NOTIFY CLEAR: one event per watch; an append that fails (`lost` are the
\* watches it and its successors stand for) leaves the list as it was, with
\* the events before it already in the log.
NotifyClear(lost) ==
    /\ Command
    /\ ~mem.readonly
    /\ LET all == {m \in Mask : mem.notify[m] # 0}
       IN  /\ lost \subseteq all
           /\ mem' = IF lost = {} THEN [mem EXCEPT !.notify = Vacant(Mask)] ELSE mem
           /\ record' = [record EXCEPT !.log = @ \o SetToSeq({Ev("notify", m, 0) : m \in all \ lost}),
                                       !.drifted = @ \/ lost \notin {{}, all}]
    /\ UNCHANGED line

\* EXCEPTION ADD and DEL.
ExceptAdd(mask) ==
    /\ Command
    /\ Lenient("except", mask, Forever)
    /\ UNCHANGED line

ExceptDel(mask) ==
    /\ Command
    /\ mem.except[mask] # 0
    /\ Lenient("except", mask, 0)
    /\ UNCHANGED line

\* IGNORE ADD and DEL, and the sweep of expired entries when one is looked for.
IgnoreAdd(mask, duration) ==
    /\ Command
    /\ mem' = [mem EXCEPT !.ignore[mask] = Until(duration)]
    /\ UNCHANGED <<record, line>>

IgnoreDel(mask) ==
    /\ Command
    /\ mem.ignore[mask] # 0
    /\ mem' = [mem EXCEPT !.ignore[mask] = 0]
    /\ UNCHANGED <<record, line>>

is_ignored ==
    /\ Command
    /\ mem' = [mem EXCEPT !.ignore = [m \in Mask |-> IF Live(@[m]) THEN @[m] ELSE 0]]
    /\ UNCHANGED <<record, line>>

\* DEFCON, SET READONLY.
Defcon(level) ==
    /\ Command
    /\ mem' = [mem EXCEPT !.defcon = level]
    /\ UNCHANGED <<record, line>>

SetReadonly ==
    /\ Command
    /\ mem' = [mem EXCEPT !.readonly = ~@]
    /\ UNCHANGED <<record, line>>

-----------------------------------------------------------------------------
(* Other nodes, the loop, time and restarts. *)

Outside == spent < MaxOps /\ spent' = spent + 1 /\ UNCHANGED <<line, linked>>

\* Mutant: what has expired already is installed as well.
Installed_past(life, now) == TRUE

\* An entry that has expired when it arrives is folded but not installed.
Installed(life, now) == life > now

\* A peer's ban: the clock is read once to see whether it has expired, and
\* again for what is left of it.
IngestBan(key, life, pause) ==
    /\ Outside
    /\ pause = 0 \/ "slow ingest" \in Quirks
    /\ life > clock \/ ~Live(mem.akill[key]) \/ "late refresh" \in Quirks
    /\ clock + pause <= MaxClock
    /\ clock' = clock + pause
    /\ Write("akill", key, life)
    /\ out' = IF Installed(life, clock)
              THEN Append(out, [type |-> "add", key |-> key, duration |-> Remaining(life, clock')])
              ELSE out

IngestLift(key) ==
    /\ Outside
    /\ Write("akill", key, 0)
    /\ out' = Append(out, [type |-> "del", key |-> key])
    /\ UNCHANGED clock

\* The loop's irc_rx branch.
Drain ==
    /\ linked /\ out # <<>>
    /\ LET a == Head(out)
       IN  line' = IF a.type = "add" THEN AddLine(line, a.key, a.duration) ELSE DelLine(line, a.key)
    /\ out' = Tail(out)
    /\ UNCHANGED <<mem, record, linked, clock, spent>>

\* A second passes; what is queued is drained within it.
Tick ==
    /\ clock < MaxClock
    /\ out = <<>>
    /\ clock' = clock + 1
    /\ UNCHANGED <<mem, record, line, out, linked, spent>>

Compact ==
    /\ Outside
    /\ Fresh(mem)
    /\ UNCHANGED <<mem, out, clock>>

\* The process ends with its link (or crashes); the next one folds the log.
Restart ==
    /\ spent < MaxOps /\ spent' = spent + 1
    /\ mem' = Replay(record.log)
    /\ record' = [record EXCEPT !.drifted = FALSE, !.contested = {}]
    /\ linked' = FALSE
    /\ line' = Vacant(Key)
    /\ out' = <<>>
    /\ UNCHANGED clock

\* Mutant: only the bans are asserted again.
Asserted_akills(key) == Live(mem.akill[key])

\* What the new link is told.
Asserted(key) == Live(mem.akill[key]) \/ (key[1] = "qline" /\ Live(mem.forbid[key[2]]))

\* startup_actions: bans with what is left of them, then forbidden nicks.
Relink ==
    /\ ~linked
    /\ linked' = TRUE
    /\ line' = [key \in Key |->
                   IF ~Asserted(key) THEN 0
                   ELSE IF key[1] = "qline" /\ Live(mem.forbid[key[2]]) THEN Forever
                   ELSE AddLine(line, key, Remaining(mem.akill[key], clock))[key]]
    /\ UNCHANGED <<mem, record, out, clock, spent>>

-----------------------------------------------------------------------------
Init ==
    /\ mem = EmptyMem
    /\ record = [log |-> <<>>, drifted |-> FALSE, contested |-> {}]
    /\ line = Vacant(Key)
    /\ out = <<>>
    /\ linked = TRUE
    /\ clock = 1
    /\ spent = 0

Next ==
    \/ \E kind \in Kind, mask \in AkillMasks :
         AkillDel(<<kind, mask>>) \/ \E d \in Durations : AkillAdd(<<kind, mask>>, d)
    \/ \E mask \in ForbidMasks : ForbidAdd(mask) \/ ForbidDel(mask)
    \/ \E mask \in AkillMasks :
         \/ FilterDel(mask) \/ NotifyDel(mask) \/ ExceptAdd(mask) \/ ExceptDel(mask) \/ IgnoreDel(mask)
         \/ \E d \in Durations : FilterAdd(mask, d) \/ NotifyAdd(mask, d) \/ IgnoreAdd(mask, d)
    \/ \E lost \in SUBSET Mask : NotifyClear(lost)
    \/ is_ignored \/ SetReadonly \/ \E level \in {1, 5} : Defcon(level)
    \/ \E mask \in PeerMasks :
         \/ IngestLift(<<"gline", mask>>)
         \/ \E life \in {1, 2, Forever}, pause \in {0, 1} : IngestBan(<<"gline", mask>>, life, pause)
    \/ Drain \/ Tick \/ Compact \/ Restart \/ Relink

Spec == Init /\ [][Next]_vars

-----------------------------------------------------------------------------
(* Properties. *)

Life == 0..(MaxClock + 2) \cup {Forever}

\* Every list maps its keys to lives.
TypeOK ==
    /\ mem \in [akill : [Key -> Life], forbid : [Mask -> Life], filter : [Mask -> Life],
                notify : [Mask -> Life], except : [Mask -> Life], ignore : [Mask -> Life],
                defcon : 1..5, readonly : BOOLEAN]
    /\ line \in [Key -> Life]
    /\ clock \in 1..MaxClock

Queued(key) == \E i \in DOMAIN out : out[i].key = key

\* What the lists ask the ircd to hold under a key, and until when.
Wanted(key) ==
    Max2(IF Live(mem.akill[key]) THEN mem.akill[key] ELSE 0,
         IF key[1] = "qline" THEN mem.forbid[key[2]] ELSE 0)

\* While linked, the ircd enforces every ban and every forbidden nick for as
\* long as it lasts, through refreshes, peers' bans, restarts and compactions
\* ("Re-assert the network bans over the fresh link"), unless an SQLINE and a
\* FORBID of one nick contend for its line: each command writes or lifts it
\* without a look at the other list, and only the next link has both again.
InForce ==
    linked => \A key \in Key :
        ~Queued(key) /\ ~(key[1] = "qline" /\ key[2] \in record.contested) => line[key] >= Wanted(key)

\* "A forbidden NICK is Q-lined so it can't even be USED, not only registered":
\* an SQLINE DEL of the nick, or an SQLINE that ends, takes the line away.
ForbiddenUnusable == linked => \A mask \in Mask : Live(mem.forbid[mask]) => Live(line[<<"qline", mask>>])

\* As much for the SQLINE, whose line goes with a FORBID DEL of the nick.
SqlineHolds == linked => \A mask \in Mask : Live(mem.akill[<<"qline", mask>>]) => Live(line[<<"qline", mask>>])

\* The ircd enforces nothing that is not, or no longer, on a list, and nothing
\* for longer than the list says; in particular no expired ban becomes a
\* permanent one ("`saturating_sub` would floor to 0, which most ircds read as
\* a permanent ban").
NeverOutlasts == \A key \in Key : Live(line[key]) /\ ~Queued(key) => line[key] <= Wanted(key)

Visible(m) == [list \in Logged |-> {<<k, m[list][k]>> : k \in {k \in DOMAIN m[list] : Live(m[list][k])}}]

\* A restart shows the lists as they were: what was lifted stays lifted and
\* what was added stays, whatever was compacted in between, unless a lenient
\* write was refused or a CLEAR failed half way.
ListsReplay == ~record.drifted => Visible(Replay(record.log)) = Visible(mem)
=============================================================================
