------------------------------ MODULE LogFile ------------------------------
(***************************************************************************)
(* The file under the event log (engine/db/mod.rs, EventLog): lines that   *)
(* are appended and synced, read back by `open`, and replaced as a whole   *)
(* by `compact`, with writes that fail or are cut short at any point.      *)
(*                                                                         *)
(* A line is the sequence of what was written between two newlines, each   *)
(* piece an entry's text, complete or not; `open` understands a line of    *)
(* one complete piece.  An entry is named by the change it records, which  *)
(* a compaction writes again under a new stamp.  Lockdown, and what is     *)
(* accepted from a peer, are in Replication.                               *)
(***************************************************************************)
EXTENDS Integers, Sequences, SequencesExt, FiniteSetsExt

CONSTANTS
    PeerClocks,    \* bound: Lamport clocks of the entries peers send
    MaxChanges,    \* bound: appends and ingests
    MaxEpoch,      \* bound: compactions
    MaxFaults      \* bound: failed writes and crashes

VARIABLES
    file,          \* [lines, ended]: the file's lines, and whether the last has its newline
    synced,        \* the file as of the last fsync
    handle,        \* EventLog.file: "none", "current", or "old" if the file was replaced
    entries, lamport, epoch,   \* EventLog's fields of these names
    acked,         \* history: changes reported as done
    offered,       \* history: [epoch, seq, change], what peers were offered under which stamp
    ghosts,        \* history: changes reported as failed, though written
    torn,          \* history: changes written behind an unfinished line, or lost with an unreadable file
    changes, faults            \* how much of the bounds is spent

log == <<file, synced, handle, entries, lamport, epoch>>
vars == <<log, acked, offered, ghosts, torn, changes, faults>>

Empty == [lines |-> <<>>, ended |-> TRUE]
Names(s) == {s[i].change : i \in DOMAIN s}

\* Behind an unfinished line there is no new one.
Put(f, piece, newline) ==
    [lines |-> IF f.ended THEN Append(f.lines, <<piece>>)
               ELSE [f.lines EXCEPT ![Len(f.lines)] = Append(@, piece)],
     ended |-> newline]

Piece(e, text) == [entry |-> e, text |-> text]

\* A piece that ends within a character makes the file no UTF-8.
Readable(f) == \A i \in DOMAIN f.lines : \A k \in DOMAIN f.lines[i] : f.lines[i][k].text # "cut"

\* open: malformed lines are skipped, a file that is not UTF-8 counts as empty.
Whole(l) == Len(l) = 1 /\ l[1].text = "whole"
Understood(l) == IF Whole(l) THEN <<l[1].entry>> ELSE <<>>
Parsed(f) ==
    IF Readable(f) THEN FlattenSeq([i \in DOMAIN f.lines |-> Understood(f.lines[i])]) ELSE <<>>

-----------------------------------------------------------------------------
(* Stamps. *)

Own(s, e) == {i \in DOMAIN s : s[i].own /\ s[i].global /\ s[i].epoch = e}

next_seq == IF Own(entries, epoch) = {} THEN 0 ELSE Max({entries[i].seq : i \in Own(entries, epoch)}) + 1

Offers(s) == {[epoch |-> s[i].epoch, seq |-> s[i].seq, change |-> s[i].change] :
                i \in {i \in DOMAIN s : s[i].own /\ s[i].global}}

\* Local entries carry no clock and no number.
Authored(c, global) ==
    [change |-> c, own |-> TRUE, global |-> global, epoch |-> IF global THEN epoch ELSE 0,
     seq |-> IF global THEN next_seq ELSE 0, clock |-> IF global THEN lamport + 1 ELSE 0]

\* Mutants: the clock, or the epoch, starts anew.
Clock_reset(s) == 0
Epoch_reset(s) == 0

\* absorb.
Clock(s) == Max({0} \cup {s[i].clock : i \in DOMAIN s})
Epoch(s) == Max({0} \cup {s[i].epoch : i \in {i \in DOMAIN s : s[i].own}})

-----------------------------------------------------------------------------
(* persist: the text, the newline, the fsync; any of them may fail. *)

\* Through a handle to a file that was replaced nothing arrives.
Reach(f, piece, newline) == IF handle = "old" THEN f ELSE Put(f, piece, newline)

\* What is in the file when the write is over, or cut short.
Failures(e) ==
    {file} \cup {Reach(file, Piece(e, t), FALSE) : t \in {"torn", "cut", "whole"}}
           \cup {Reach(file, Piece(e, "whole"), TRUE)}

\* Mutant: success is reported once the line is written.
Sync_never(f) == synced

Sync(f) == f

Persisted(e) ==
    /\ file' = Reach(file, Piece(e, "whole"), TRUE)
    /\ synced' = Sync(file')
    /\ handle' = IF handle = "none" THEN "current" ELSE handle
    /\ entries' = Append(entries, e)
    /\ acked' = acked \cup {e.change}
    /\ offered' = offered \cup Offers(<<e>>)
    /\ torn' = IF file.ended THEN torn ELSE torn \cup {e.change}
    /\ changes' = changes + 1
    /\ UNCHANGED <<epoch, ghosts, faults>>

Failed(e) ==
    /\ faults < MaxFaults /\ faults' = faults + 1
    /\ file' \in Failures(e)
    /\ handle' \in IF file' = file THEN {handle} ELSE {IF handle = "none" THEN "current" ELSE handle}
    /\ ghosts' = IF e.change \in Names(Parsed(file')) THEN ghosts \cup {e.change} ELSE ghosts
    /\ changes' = changes + 1
    /\ UNCHANGED <<synced, entries, epoch, acked, offered, torn>>

\* The clock has ticked before the write.
append(global) ==
    LET e == Authored(changes + 1, global)
    IN  /\ changes < MaxChanges
        /\ Persisted(e) \/ Failed(e)
        /\ lamport' = IF global THEN lamport + 1 ELSE lamport

\* An entry of a peer's, which the version vector accepts.
ingest(clock) ==
    LET e == [change |-> changes + 1, own |-> FALSE, global |-> TRUE, epoch |-> 0, seq |-> 0, clock |-> clock]
    IN  /\ changes < MaxChanges
        /\ \/ Persisted(e) /\ lamport' = Max({lamport, clock}) + 1
           \/ Failed(e) /\ UNCHANGED lamport

-----------------------------------------------------------------------------
(* The process ends, and the next one opens the log. *)

Open(f) ==
    /\ file' = f /\ synced' = f /\ handle' = "none"
    /\ entries' = Parsed(f)
    /\ lamport' = Clock(Parsed(f)) /\ epoch' = Epoch(Parsed(f))
    /\ offered' = offered \cup Offers(Parsed(f))
    /\ torn' = IF Readable(f) THEN torn ELSE 1..changes

\* Between two writes, or in the middle of one; a power loss may take back
\* what was not synced.
Crash ==
    /\ faults < MaxFaults /\ faults' = faults + 1
    /\ \/ \E f \in {file, synced} : Open(f) /\ UNCHANGED <<ghosts, changes>>
       \/ /\ changes < MaxChanges /\ changes' = changes + 1
          /\ \E f \in Failures(Authored(changes + 1, TRUE)) :
               /\ Open(f)
               /\ ghosts' = ghosts \cup ({changes + 1} \cap Names(Parsed(f)))
    /\ UNCHANGED acked

-----------------------------------------------------------------------------
(* compact. *)

Globals(s) == {i \in DOMAIN s : s[i].global}

\* One entry per live change, in the snapshot's order: all of this node's own,
\* under the next epoch.
Snapshot ==
    [i \in DOMAIN entries |->
       [change |-> entries[i].change, own |-> TRUE, global |-> entries[i].global, epoch |-> epoch + 1,
        seq |-> IF entries[i].global THEN Cardinality({k \in Globals(entries) : k < i}) ELSE 0,
        clock |-> IF entries[i].global THEN lamport + Cardinality({k \in Globals(entries) : k <= i}) ELSE 0]]

Compacted == [lines |-> [i \in DOMAIN entries |-> <<Piece(Snapshot[i], "whole")>>], ended |-> TRUE]

\* Mutant: the handle is kept, and writes to the file that is gone.
Closed_kept(h) == IF h = "none" THEN h ELSE "old"

Closed(h) == "none"

\* The temporary file is written and synced, and takes the place of the log.
Compact ==
    /\ entries # <<>> /\ epoch < MaxEpoch
    /\ file' = Compacted /\ synced' = Compacted
    /\ handle' = Closed(handle)
    /\ entries' = Snapshot
    /\ epoch' = epoch + 1 /\ lamport' = lamport + Cardinality(Globals(entries))
    /\ torn' = torn \ Names(entries)
    /\ offered' = offered \cup Offers(Snapshot)
    /\ UNCHANGED <<acked, ghosts, changes, faults>>

\* Something fails before the rename: epoch and clock have moved on.
CompactFails ==
    /\ entries # <<>> /\ epoch < MaxEpoch
    /\ faults < MaxFaults /\ faults' = faults + 1
    /\ epoch' = epoch + 1 /\ lamport' = lamport + Cardinality(Globals(entries))
    /\ UNCHANGED <<file, synced, handle, entries, acked, offered, ghosts, torn, changes>>

\* A crash on the way leaves the old log, or the new one.
CompactCrashes ==
    /\ entries # <<>> /\ epoch < MaxEpoch
    /\ faults < MaxFaults /\ faults' = faults + 1
    /\ Open(Compacted)
    /\ UNCHANGED <<acked, ghosts, changes>>

-----------------------------------------------------------------------------
Init ==
    /\ file = Empty /\ synced = Empty /\ handle = "none"
    /\ entries = <<>> /\ lamport = 0 /\ epoch = 0
    /\ acked = {} /\ offered = {} /\ ghosts = {} /\ torn = {}
    /\ changes = 0 /\ faults = 0

Next ==
    \/ \E global \in BOOLEAN : append(global)
    \/ \E clock \in PeerClocks : ingest(clock)
    \/ Crash \/ Compact \/ CompactFails \/ CompactCrashes

Spec == Init /\ [][Next]_vars

-----------------------------------------------------------------------------
(* Properties. *)

\* A change is in memory once; only what was tried is anywhere.
TypeOK ==
    /\ lamport \in Nat /\ epoch \in 0..MaxEpoch
    /\ handle \in {"none", "current", "old"}
    /\ \A i, j \in DOMAIN entries : entries[i].change = entries[j].change => i = j
    /\ acked \cup ghosts \cup torn \subseteq 1..changes

\* What was reported as done is read back, unless it was written behind an
\* unfinished line; with failing writes, crashes and compactions at any point.
DoneIsReadBack == Readable(file) => acked \ Names(Parsed(file)) \subseteq torn

\* The same without the exception: "a committed account/channel change is on disk
\* before we report success, so a crash or power loss can't lose it".
DoneIsKept == acked \subseteq Names(entries)

\* An entry's clock is later than those of all entries its author had before it,
\* also those from before a restart or of a peer's (the Lamport rule of append,
\* absorb and ingest); but for entries that failed and came back with a restart.
ClockRuns ==
    \A i, j \in DOMAIN entries :
        i < j /\ entries[j].own /\ entries[j].global /\ entries[i].change \notin ghosts
        => entries[i].clock < entries[j].clock

\* A stamp under which peers were offered a change is never another's, whatever
\* restarts, failed compactions and compactions come between (peers drop a stamp
\* they have seen); unless the change was written behind an unfinished line.
StampsDiffer ==
    \A x, y \in offered :
        x.epoch = y.epoch /\ x.seq = y.seq /\ x.change # y.change
        => {x.change, y.change} \cap (torn \cup ghosts) # {}
=============================================================================
