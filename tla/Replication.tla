----------------------------- MODULE Replication -----------------------------
(***************************************************************************)
(* Node-to-node replication of the event log: every node's EventLog        *)
(* (engine/db/mod.rs) and the gossip sessions between nodes (gossip.rs).   *)
(*                                                                         *)
(* One action per entry point of the log (append, ingest, compact, open)   *)
(* and per task of a session (ticker, forwarder, reader), each of which    *)
(* holds the engine's lock for its whole effect.  What the events mean is  *)
(* left to the module Federation, which stacks the store on this one.      *)
(*                                                                         *)
(* Entries in flight are a set: two nodes that dial each other have two    *)
(* sessions, so one overtakes another; a session that ends loses all of    *)
(* its entries; a lagging forwarder skips entries and asks for a digest.   *)
(***************************************************************************)
EXTENDS EventLog

CONSTANTS
    Links,         \* the pairs of nodes that gossip, each a set {m, n}
    Trust,         \* Trust[n]: the origins whose entries n accepts
    Snapshots,     \* the event sequences a compaction may write
    MaxOps,        \* bound: appends, compactions and lockdown toggles of all nodes
    MaxEpoch,      \* bound: compaction generations of a node
    MaxFaults,     \* bound: restarts, lost sessions, lags and I/O errors
    MaxDigests     \* bound: digests in flight, over all sessions

ASSUME LinksAssumption == \A l \in Links : l \subseteq Node
ASSUME TrustAssumption == Trust \in [Node -> SUBSET Node]
ASSUME SnapshotsAssumption == Snapshots \subseteq Seq(Event)

VARIABLES
    log,           \* log[n]: n's log, on disk and in `entries`
    epoch,         \* epoch[n]: n's own compaction generation
    versions,      \* versions[n]: n's version vector
    readonly,      \* readonly[n]: the operator lockdown
    up,            \* the links with a session established
    net,           \* entries in flight
    dig,           \* digests in flight
    ops, faults    \* how much of MaxOps and MaxFaults is spent

vars == <<log, epoch, versions, readonly, up, net, dig, ops, faults>>

EntryMsg == [src : Node, dst : Node, entry : LogEntry]
DigestMsg == [src : Node, dst : Node, versions : VersionVector, reply : BOOLEAN]

\* Local work is rationed by MaxOps.
Spend == ops < MaxOps /\ ops' = ops + 1

Peers(n) == {p \in Node \ {n} : {n, p} \in up}

-----------------------------------------------------------------------------
(* Committing an entry: persist, version vector, notify. *)

\* What the forwarders of n's sessions send on: Global entries only.
Pushed(n, e) == {[src |-> n, dst |-> p, entry |-> e] : p \in {q \in Peers(n) : Global(e)}}

\* The version vector with a freshly committed entry counted in.
Advance(vs, e) ==
    IF Global(e) THEN [vs EXCEPT ![e.origin] = CursorOf(e)] ELSE vs

\* A locally authored event: refused while read-only, else stamped, written,
\* counted and offered to every connected peer.
Author(n, ev) ==
    LET e == Stamp(n, versions[n], epoch[n], ev)
    IN  /\ ~readonly[n]
        /\ ops < MaxOps
        /\ log' = [log EXCEPT ![n] = @ \o <<e>>]
        /\ versions' = [versions EXCEPT ![n] = Advance(@, e)]
        /\ net' = net \cup Pushed(n, e)
        /\ UNCHANGED <<epoch, readonly, up, dig, faults>>

\* The reader of a session takes an entry off the wire and ingests it.
\* Read-only mode does not stop it.
Ingest(m) ==
    LET n == m.dst
        e == m.entry
    IN  /\ m \in net
        /\ IF accept(versions[n], Trust[n], e)
           THEN /\ log' = [log EXCEPT ![n] = @ \o <<e>>]
                /\ versions' = [versions EXCEPT ![n] = Advance(@, e)]
                /\ net' = (net \ {m}) \cup Pushed(n, e)
           ELSE /\ net' = net \ {m}
                /\ UNCHANGED <<log, versions>>
        /\ UNCHANGED <<epoch, readonly, up, dig, ops, faults>>

\* Compaction rewrites the log to the snapshot `evs`, in memory and on disk.
\* An empty snapshot is skipped.  Nothing is pushed.
Compact(n, evs) ==
    /\ evs # <<>>
    /\ epoch[n] < MaxEpoch
    /\ epoch' = [epoch EXCEPT ![n] = @ + 1]
    /\ log' = [log EXCEPT ![n] = CompactedLog(n, epoch[n] + 1, evs)]
    /\ versions' = [versions EXCEPT ![n] = CompactedVersions(n, epoch[n] + 1, evs)]
    /\ UNCHANGED <<readonly, up, net, dig, faults>>

\* Writing or renaming the temporary file fails: the old log stays, but the
\* epoch has already been bumped in memory.
CompactFails(n) ==
    /\ epoch[n] < MaxEpoch
    /\ faults < MaxFaults
    /\ epoch' = [epoch EXCEPT ![n] = @ + 1]
    /\ faults' = faults + 1
    /\ UNCHANGED <<log, versions, readonly, up, net, dig, ops>>

\* OperServ SET READONLY.
SetReadonly(n) ==
    /\ readonly' = [readonly EXCEPT ![n] = ~@]
    /\ UNCHANGED <<log, epoch, versions, up, net, dig, faults>>

\* Messages of the sessions outside a set of links; the rest are lost.
Surviving(msgs, lost) == {m \in msgs : {m.src, m.dst} \notin lost}

\* The process dies and `open` rebuilds it from its log; its sessions die too.
Restart(n) ==
    LET lost == {l \in Links : n \in l}
    IN  /\ faults < MaxFaults
        /\ epoch' = [epoch EXCEPT ![n] = AbsorbedEpoch(log[n], n)]
        /\ versions' = [versions EXCEPT ![n] = AbsorbedVersions(log[n])]
        /\ readonly' = [readonly EXCEPT ![n] = FALSE]
        /\ up' = up \ lost
        /\ net' = Surviving(net, lost)
        /\ dig' = Surviving(dig, lost)
        /\ faults' = faults + 1
        /\ UNCHANGED <<log, ops>>

-----------------------------------------------------------------------------
(* Sessions. *)

Digest(n, p, reply) ==
    [src |-> n, dst |-> p, versions |-> versions[n], reply |-> reply]

\* `dial` reconnects and the handshake succeeds.
Connect(l) ==
    /\ l \notin up
    /\ up' = up \cup {l}
    /\ UNCHANGED <<log, epoch, versions, readonly, net, dig, ops, faults>>

Disconnect(l) ==
    /\ l \in up
    /\ faults < MaxFaults
    /\ up' = up \ {l}
    /\ net' = Surviving(net, {l})
    /\ dig' = Surviving(dig, {l})
    /\ faults' = faults + 1
    /\ UNCHANGED <<log, epoch, versions, readonly, ops>>

\* The ticker advertises the version vector (bound: one digest of n's to p in
\* flight at a time).
SendDigest(n, p) ==
    /\ p \in Peers(n)
    /\ \A d \in dig : ~(d.src = n /\ d.dst = p)
    /\ Cardinality(dig) < MaxDigests
    /\ dig' = dig \cup {Digest(n, p, FALSE)}
    /\ UNCHANGED <<log, epoch, versions, readonly, up, net, ops, faults>>

\* The reader answers a digest, which may be stale by now, with what the
\* sender lacked, and with a digest of its own if one was asked for.
AnswerDigest(d) ==
    LET n == d.dst
    IN  /\ d \in dig
        /\ net' = net \cup {[src |-> n, dst |-> d.src, entry |-> e] :
                              e \in missing_for(log[n], d.versions)}
        /\ dig' = (dig \ {d}) \cup (IF d.reply THEN {Digest(n, d.src, FALSE)} ELSE {})
        /\ UNCHANGED <<log, epoch, versions, readonly, up, ops, faults>>

\* A forwarder fell behind its broadcast channel: an entry it never sent is
\* gone, and it asks the peer for its digest.
Lag(m) ==
    /\ m \in net
    /\ faults < MaxFaults
    /\ Cardinality(dig) < MaxDigests
    /\ net' = net \ {m}
    /\ dig' = dig \cup {Digest(m.src, m.dst, TRUE)}
    /\ faults' = faults + 1
    /\ UNCHANGED <<log, epoch, versions, readonly, up, ops>>

\* Persisting an ingested entry fails: the entry is dropped, nothing changes.
IngestFails(m) ==
    /\ m \in net
    /\ faults < MaxFaults
    /\ accept(versions[m.dst], Trust[m.dst], m.entry)
    /\ net' = net \ {m}
    /\ faults' = faults + 1
    /\ UNCHANGED <<log, epoch, versions, readonly, up, dig, ops>>

-----------------------------------------------------------------------------
Init ==
    /\ log = [n \in Node |-> <<>>]
    /\ epoch = [n \in Node |-> 0]
    /\ versions = [n \in Node |-> NoVersions]
    /\ readonly = [n \in Node |-> FALSE]
    /\ up = {}
    /\ net = {}
    /\ dig = {}
    /\ ops = 0
    /\ faults = 0

Gossip ==
    \/ \E l \in Links : Connect(l) \/ Disconnect(l)
    \/ \E n, p \in Node : SendDigest(n, p)
    \/ \E d \in dig : AnswerDigest(d)
    \/ \E m \in net : Ingest(m) \/ Lag(m) \/ IngestFails(m)

Next ==
    \/ \E n \in Node, ev \in Event : Spend /\ Author(n, ev)
    \/ \E n \in Node, evs \in Snapshots : Spend /\ Compact(n, evs)
    \/ \E n \in Node : Spend /\ SetReadonly(n)
    \/ \E n \in Node : CompactFails(n) \/ Restart(n)
    \/ Gossip

Spec == Init /\ [][Next]_vars

\* Nodes redial, tickers tick, readers read and TCP delivers: an entry the
\* receiver would take is in the end received unless its session dies.
Fairness ==
    /\ \A l \in Links : WF_vars(Connect(l))
    /\ \A n, p \in Node :
         /\ WF_vars(SendDigest(n, p))
         /\ WF_vars(\E d \in dig : d.src = n /\ d.dst = p /\ AnswerDigest(d))
    /\ \A n \in Node :
         WF_vars(\E m \in net : /\ m.dst = n
                                /\ accept(versions[n], Trust[n], m.entry)
                                /\ Ingest(m))

FairSpec == Spec /\ Fairness

-----------------------------------------------------------------------------
(* Properties. *)

\* Type invariant: the fields of EventLog and the messages of gossip.rs.
TypeOK ==
    /\ log \in [Node -> Seq(LogEntry)]
    /\ epoch \in [Node -> Nat]
    /\ versions \in [Node -> VersionVector]
    /\ readonly \in [Node -> BOOLEAN]
    /\ up \subseteq Links
    /\ net \subseteq EntryMsg
    /\ dig \subseteq DigestMsg
    /\ ops \in Nat
    /\ faults \in Nat

\* Every entry that exists, in a log or in flight.
World == (UNION {Entries(log[n]) : n \in Node}) \cup {m.entry : m \in net}

SameId(e, f) == e.origin = f.origin /\ e.epoch = f.epoch /\ e.seq = f.seq

\* (origin, epoch, seq) is a cluster-unique id: a node never stamps two Global
\* events alike, not after a restart, a compaction that failed, or one whose
\* snapshot held only Local events (mod.rs, next_seq and absorb).
UniqueIds ==
    \A e, f \in World : Global(e) /\ Global(f) /\ SameId(e, f) => e = f

\* A cursor covers everything below it: a node at (epoch, s) for an origin
\* holds that origin's entries 0..s of the epoch (mod.rs, ingest: the version
\* vector never advances past a gap).
NoGaps ==
    \A n, o \in Node : versions[n][o] # None =>
        \A k \in 0..versions[n][o].seq :
            \E e \in Entries(log[n]) : /\ Global(e)
                                       /\ e.origin = o
                                       /\ e.epoch = versions[n][o].epoch
                                       /\ e.seq = k

\* A restart recovers exactly the version vector the node had: the vector in
\* memory and the one `open` absorbs from the log never drift apart.
VectorSurvivesRestart ==
    \A n \in Node : AbsorbedVersions(log[n]) = versions[n]

\* Behind(m, n, o): m still lacks something of o's that n has.
Behind(m, n, o) ==
    /\ versions[n][o] # None
    /\ versions[m][o] # None => cursor_newer(versions[m][o], versions[n][o])

\* Anti-entropy is never stuck: a node that is behind a peer is offered, in
\* the answer to its digest, an entry it accepts (missing_for against ingest).
AlwaysOffered ==
    \A m, n, o \in Node :
        Behind(m, n, o) =>
            \E e \in missing_for(log[n], versions[m]) :
                e.origin = o /\ InOrder(versions[m][o], e)

\* Within one log an origin's entries stand in strictly increasing order: none
\* is applied twice, none after a later one, and none of an epoch that a newer
\* one has superseded (mod.rs, ingest).
LogInOrder ==
    \A n \in Node : \A i, j \in DOMAIN log[n] :
        /\ i < j
        /\ Global(log[n][i])
        /\ Global(log[n][j])
        /\ log[n][i].origin = log[n][j].origin
        => cursor_newer(CursorOf(log[n][i]), CursorOf(log[n][j]))

\* Channel and other Local events never leave the node that authored them
\* (mod.rs, ingest; gossip.rs, the forwarder).
LocalStaysLocal ==
    /\ \A m \in net : Global(m.entry)
    /\ \A n \in Node : \A e \in Entries(log[n]) : ~Global(e) => e.origin = n

Synced == \A m, n \in Node : versions[m] = versions[n]

\* Once local writes and faults run out, every node ends at the same version
\* vector (gossip.rs: re-delivery and reconnect after a split both converge).
VectorsConverge == <>[]Synced

-----------------------------------------------------------------------------
(* The inductive strengthening. *)

\* A node's epoch is at least that of every entry of its own in its log.
OwnEpochs ==
    \A n \in Node : \A e \in OwnEntries(log[n], n) : e.epoch <= epoch[n]

\* f, an entry of its own in an author's log, proves to `open` that e's id is
\* taken: a later epoch, or e's epoch and a Global seq at least as high.
Covers(f, e) ==
    \/ f.epoch > e.epoch
    \/ Global(f) /\ f.epoch = e.epoch /\ f.seq >= e.seq

\* Whatever an author has ever published, its own log still covers: what makes
\* UniqueIds survive a restart, which forgets an epoch bumped in vain.
Witnessed ==
    \A e \in World : Global(e) =>
        \E f \in OwnEntries(log[e.origin], e.origin) : Covers(f, e)

\* A cursor is the newest of the origin's entries in the log.
CursorIsMax ==
    \A n, o \in Node :
        IF versions[n][o] = None THEN GlobalsOf(log[n], o) = {}
        ELSE /\ \E e \in GlobalsOf(log[n], o) : CursorOf(e) = versions[n][o]
             /\ \A f \in GlobalsOf(log[n], o) : ~cursor_newer(versions[n][o], CursorOf(f))

\* The inductive invariant behind UniqueIds, NoGaps, VectorSurvivesRestart and
\* AlwaysOffered.
IInv ==
    /\ TypeOK
    /\ OwnEpochs
    /\ Witnessed
    /\ CursorIsMax
    /\ NoGaps
    /\ UniqueIds
    /\ LocalStaysLocal
=============================================================================
