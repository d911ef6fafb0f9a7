------------------------------ MODULE EventLog ------------------------------
(***************************************************************************)
(* The pure part of echo's append-only event log (engine/db/mod.rs): what  *)
(* an entry is, how two per-origin cursors compare, which incoming entry a *)
(* node accepts, which entries a peer lacks, what `open` recovers from the *)
(* lines of the log and how a compaction stamps its snapshot.              *)
(*                                                                         *)
(* Events are opaque here: all the log looks at is their scope.  Lamport   *)
(* stamps and signatures' bytes are left out: acceptance never reads them. *)
(***************************************************************************)
EXTENDS Naturals, Sequences, FiniteSets

CONSTANTS
    Node,          \* the services nodes, named by their origin SID
    Event,         \* every event the store can append
    GlobalEvent,   \* the events of Scope::Global; the rest are Scope::Local
    None           \* Rust's Option::None

Cursor == [epoch : Nat, seq : Nat]

ASSUME GlobalAssumption == GlobalEvent \subseteq Event
ASSUME NoneAssumption == None \notin Cursor

LogEntry == [origin : Node, epoch : Nat, seq : Nat, event : Event]

\* A version vector: HashMap<String, (u64, u64)>, None where there is no key.
VersionVector == [Node -> Cursor \cup {None}]

NoVersions == [o \in Node |-> None]

Global(e) == e.event \in GlobalEvent

CursorOf(e) == [epoch |-> e.epoch, seq |-> e.seq]

\* Entries of a log, as a set.
Entries(lg) == {lg[i] : i \in DOMAIN lg}

\* Is `incoming` strictly newer than `have`?  Epoch dominates.
cursor_newer(have, incoming) ==
    \/ incoming.epoch > have.epoch
    \/ incoming.epoch = have.epoch /\ incoming.seq > have.seq

\* The seq the next Global event authored by `o` carries.
next_seq(o, vs, ep) ==
    IF vs[o] # None /\ vs[o].epoch = ep THEN vs[o].seq + 1 ELSE 0

\* The entry `append` builds: only a Global event has a gossip identity.
Stamp(o, vs, ep, ev) ==
    IF ev \in GlobalEvent
    THEN [origin |-> o, epoch |-> ep, seq |-> next_seq(o, vs, ep), event |-> ev]
    ELSE [origin |-> o, epoch |-> 0, seq |-> 0, event |-> ev]

\* Mutants: anything newer is in order; any other epoch is.
InOrder_newer(have, e) == IF have = None THEN TRUE ELSE cursor_newer(have, CursorOf(e))
InOrder_other_epoch(have, e) ==
    IF have = None THEN e.seq = 0
    ELSE \/ e.epoch = have.epoch /\ e.seq = have.seq + 1
         \/ e.epoch # have.epoch /\ e.seq = 0

\* Strictly in order within an epoch; a higher epoch is adopted from its seq 0.
InOrder(have, e) ==
    IF have = None THEN e.seq = 0
    ELSE \/ e.epoch = have.epoch /\ e.seq = have.seq + 1
         \/ e.epoch > have.epoch /\ e.seq = 0

\* Whether `ingest` takes the entry: Global, signed by a trusted origin when
\* signing is on (`trusted` is every origin when it is off), and in order.
accept(vs, trusted, e) ==
    Global(e) /\ e.origin \in trusted /\ InOrder(vs[e.origin], e)

\* Mutants: the epoch is not compared; the next entry is skipped.
missing_for_by_seq(lg, peer) ==
    {e \in Entries(lg) :
        Global(e) /\ (peer[e.origin] # None => e.seq > peer[e.origin].seq)}
missing_for_off_by_one(lg, peer) ==
    {e \in Entries(lg) :
        Global(e) /\ (peer[e.origin] # None => e.seq > peer[e.origin].seq + 1)}

\* Global entries a peer with version vector `peer` is missing.
missing_for(lg, peer) ==
    {e \in Entries(lg) :
        /\ Global(e)
        /\ peer[e.origin] # None => cursor_newer(peer[e.origin], CursorOf(e))}

-----------------------------------------------------------------------------
(* What `open` recovers by absorbing every line. *)

GlobalsOf(lg, o) == {e \in Entries(lg) : Global(e) /\ e.origin = o}

AbsorbedCursor(lg, o) ==
    IF GlobalsOf(lg, o) = {} THEN None
    ELSE CursorOf(CHOOSE e \in GlobalsOf(lg, o) :
                    \A f \in GlobalsOf(lg, o) : ~cursor_newer(CursorOf(e), CursorOf(f)))

AbsorbedVersions(lg) == [o \in Node |-> AbsorbedCursor(lg, o)]

\* Our epoch comes back from any of our own entries, Local ones included.
OwnEntries(lg, n) == {e \in Entries(lg) : e.origin = n}

\* Mutant: only Global entries bring the epoch back.
AbsorbedEpoch_globals(lg, n) ==
    IF GlobalsOf(lg, n) = {} THEN 0
    ELSE (CHOOSE e \in GlobalsOf(lg, n) :
            \A f \in GlobalsOf(lg, n) : f.epoch <= e.epoch).epoch

AbsorbedEpoch(lg, n) ==
    IF OwnEntries(lg, n) = {} THEN 0
    ELSE (CHOOSE e \in OwnEntries(lg, n) :
            \A f \in OwnEntries(lg, n) : f.epoch <= e.epoch).epoch

-----------------------------------------------------------------------------
(* Compaction: the snapshot's events stamped at the new epoch, Global ones *)
(* numbered from 0 in snapshot order, Local ones carrying only the epoch.  *)

GlobalsBefore(evs, i) == Cardinality({j \in 1..(i - 1) : evs[j] \in GlobalEvent})

CompactedLog(o, ep, evs) ==
    [i \in 1..Len(evs) |->
        [origin |-> o, epoch |-> ep, event |-> evs[i],
         seq |-> IF evs[i] \in GlobalEvent THEN GlobalsBefore(evs, i) ELSE 0]]

\* Mutants: the empty case is not guarded; the cursor is the count.
CompactedVersions_unguarded(o, ep, evs) ==
    [NoVersions EXCEPT ![o] = [epoch |-> ep, seq |-> GlobalsBefore(evs, Len(evs) + 1) - 1]]
CompactedVersions_off_by_one(o, ep, evs) ==
    LET globals == GlobalsBefore(evs, Len(evs) + 1)
    IN  IF globals = 0 THEN NoVersions
        ELSE [NoVersions EXCEPT ![o] = [epoch |-> ep, seq |-> globals]]

\* The vector forgets every other origin, and ours too if nothing is Global.
CompactedVersions(o, ep, evs) ==
    LET globals == GlobalsBefore(evs, Len(evs) + 1)
    IN  IF globals = 0 THEN NoVersions
        ELSE [NoVersions EXCEPT ![o] = [epoch |-> ep, seq |-> globals - 1]]
=============================================================================
