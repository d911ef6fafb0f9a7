-------------------------- MODULE ReplicationProofs --------------------------
(***************************************************************************)
(* Proofs about Replication, for every set of nodes, links, events and     *)
(* snapshots and without its bounds playing any part.                      *)
(***************************************************************************)
EXTENDS Replication, SequenceLemmas

-----------------------------------------------------------------------------
(* Logs as sets of entries. *)

\* Appending to a log adds exactly the appended entry.
LEMMA EntriesAppend ==
    ASSUME NEW S, NEW lg \in Seq(S), NEW e \in S
    PROVE  /\ lg \o <<e>> \in Seq(S)
           /\ Entries(lg \o <<e>>) = Entries(lg) \cup {e}
<1>1. lg \o <<e>> \in Seq(S)
  OBVIOUS
<1>2. /\ Len(lg \o <<e>>) = Len(lg) + 1
      /\ \A i \in 1..Len(lg) : (lg \o <<e>>)[i] = lg[i]
      /\ (lg \o <<e>>)[Len(lg) + 1] = e
  OBVIOUS
<1>3. DOMAIN lg = 1..Len(lg) /\ DOMAIN (lg \o <<e>>) = 1..(Len(lg) + 1)
  BY <1>1, <1>2
<1>4. Len(lg) \in Nat
  OBVIOUS
<1>5. ASSUME NEW x \in Entries(lg \o <<e>>) PROVE x \in Entries(lg) \cup {e}
  <2>1. PICK i \in 1..(Len(lg) + 1) : x = (lg \o <<e>>)[i]
    BY <1>3 DEF Entries
  <2>2. CASE i = Len(lg) + 1
    BY <2>1, <2>2, <1>2
  <2>3. CASE i \in 1..Len(lg)
    BY <2>1, <2>3, <1>2, <1>3 DEF Entries
  <2> QED BY <2>1, <2>2, <2>3, <1>4
<1>6. ASSUME NEW x \in Entries(lg) PROVE x \in Entries(lg \o <<e>>)
  <2>1. PICK i \in 1..Len(lg) : x = lg[i]
    BY <1>3 DEF Entries
  <2>2. i \in 1..(Len(lg) + 1) /\ (lg \o <<e>>)[i] = x
    BY <2>1, <1>2, <1>4
  <2> QED BY <2>2, <1>3 DEF Entries
<1>7. e \in Entries(lg \o <<e>>)
  <2>1. Len(lg) + 1 \in 1..(Len(lg) + 1)
    BY <1>4
  <2> QED BY <2>1, <1>2, <1>3 DEF Entries
<1> QED BY <1>1, <1>5, <1>6, <1>7

\* The entries of a typed log are entries.
LEMMA EntriesType ==
    ASSUME NEW lg \in Seq(LogEntry)
    PROVE  Entries(lg) \subseteq LogEntry
<1>1. \A i \in DOMAIN lg : lg[i] \in LogEntry
  OBVIOUS
<1> QED BY <1>1 DEF Entries

-----------------------------------------------------------------------------
(* Numbering the Global events of a snapshot. *)

\* GlobalsBefore counts up by one at every Global event.
LEMMA GlobalsBeforeStep ==
    ASSUME NEW evs \in Seq(Event)
    PROVE  /\ GlobalsBefore(evs, 1) = 0
           /\ \A i \in 1..Len(evs) :
                /\ GlobalsBefore(evs, i) \in Nat
                /\ GlobalsBefore(evs, i + 1) =
                     GlobalsBefore(evs, i) + (IF evs[i] \in GlobalEvent THEN 1 ELSE 0)
<1> DEFINE G(i) == {j \in 1..(i - 1) : evs[j] \in GlobalEvent}
<1>0. Len(evs) \in Nat
  OBVIOUS
<1>1. ASSUME NEW i \in 1..(Len(evs) + 1)
      PROVE IsFiniteSet(G(i)) /\ Cardinality(G(i)) \in Nat
  <2>1. IsFiniteSet(1..(i - 1))
    BY <1>0, FS_Interval
  <2>2. G(i) \subseteq 1..(i - 1)
    OBVIOUS
  <2>3. IsFiniteSet(G(i))
    BY <2>1, <2>2, FS_Subset
  <2> QED BY <2>3, FS_CardinalityType
<1>2. GlobalsBefore(evs, 1) = 0
  <2>1. {j \in 1..(1 - 1) : evs[j] \in GlobalEvent} = {}
    OBVIOUS
  <2> QED BY <2>1, FS_EmptySet DEF GlobalsBefore
<1>3. ASSUME NEW i \in 1..Len(evs)
      PROVE /\ GlobalsBefore(evs, i) \in Nat
            /\ GlobalsBefore(evs, i + 1) =
                 GlobalsBefore(evs, i) + (IF evs[i] \in GlobalEvent THEN 1 ELSE 0)
  <2>1. i \in 1..(Len(evs) + 1) /\ i \in Nat
    BY <1>0
  <2>2. IsFiniteSet(G(i)) /\ Cardinality(G(i)) \in Nat
    BY <1>1, <2>1
  <2>3. GlobalsBefore(evs, i) = Cardinality(G(i))
    BY DEF GlobalsBefore
  <2>4. GlobalsBefore(evs, i + 1) = Cardinality(G(i + 1))
    BY DEF GlobalsBefore
  <2>5. CASE evs[i] \in GlobalEvent
    <3>1. G(i + 1) = G(i) \cup {i}
      BY <2>1, <2>5
    <3>2. i \notin G(i)
      BY <2>1
    <3>3. Cardinality(G(i) \cup {i}) = Cardinality(G(i)) + 1
      BY <2>2, <3>2, FS_AddElement
    <3> QED BY <2>2, <2>3, <2>4, <2>5, <3>1, <3>3
  <2>6. CASE evs[i] \notin GlobalEvent
    <3>1. G(i + 1) = G(i)
      BY <2>1, <2>6
    <3>2. GlobalsBefore(evs, i + 1) = GlobalsBefore(evs, i)
      BY <2>3, <2>4, <3>1
    <3>3. GlobalsBefore(evs, i) \in Nat
      BY <2>2, <2>3
    <3> HIDE DEF G
    <3> QED BY <2>6, <3>2, <3>3
  <2> QED BY <2>5, <2>6
<1> QED BY <1>2, <1>3

\* The count never falls from one position to a later one.
LEMMA GlobalsBeforeMonotone ==
    ASSUME NEW evs \in Seq(Event),
           NEW i \in 1..(Len(evs) + 1), NEW j \in 1..(Len(evs) + 1), i <= j
    PROVE  /\ GlobalsBefore(evs, i) \in Nat
           /\ GlobalsBefore(evs, j) \in Nat
           /\ GlobalsBefore(evs, i) <= GlobalsBefore(evs, j)
<1> DEFINE G(k) == {x \in 1..(k - 1) : evs[x] \in GlobalEvent}
<1>0. Len(evs) \in Nat /\ i \in Nat /\ j \in Nat
  OBVIOUS
<1>1. IsFiniteSet(1..(j - 1))
  BY <1>0, FS_Interval
<1>2. IsFiniteSet(G(j))
  <2>1. G(j) \subseteq 1..(j - 1)
    OBVIOUS
  <2> QED BY <1>1, <2>1, FS_Subset
<1>3. G(i) \subseteq G(j)
  BY <1>0
<1>4. IsFiniteSet(G(i)) /\ Cardinality(G(i)) <= Cardinality(G(j))
  BY <1>2, <1>3, FS_Subset
<1>5. Cardinality(G(i)) \in Nat /\ Cardinality(G(j)) \in Nat
  BY <1>2, <1>4, FS_CardinalityType
<1> QED BY <1>4, <1>5 DEF GlobalsBefore

\* The number of a Global event is below that of whatever comes later.
LEMMA GlobalsBeforeStrict ==
    ASSUME NEW evs \in Seq(Event),
           NEW i \in 1..Len(evs), NEW j \in 1..(Len(evs) + 1), i < j,
           evs[i] \in GlobalEvent
    PROVE  /\ GlobalsBefore(evs, i) \in Nat
           /\ GlobalsBefore(evs, j) \in Nat
           /\ GlobalsBefore(evs, i) < GlobalsBefore(evs, j)
<1>0. Len(evs) \in Nat
  OBVIOUS
<1>1. i + 1 \in 1..(Len(evs) + 1) /\ i + 1 <= j
  BY <1>0
<1>2. GlobalsBefore(evs, i) \in Nat /\ GlobalsBefore(evs, i + 1) = GlobalsBefore(evs, i) + 1
  BY GlobalsBeforeStep
<1>3. GlobalsBefore(evs, j) \in Nat /\ GlobalsBefore(evs, i + 1) <= GlobalsBefore(evs, j)
  BY <1>1, GlobalsBeforeMonotone
<1> QED BY <1>2, <1>3

\* Every number below the total is the number of some Global event.
LEMMA GlobalsBeforeOnto ==
    ASSUME NEW evs \in Seq(Event), NEW k \in Nat,
           k < GlobalsBefore(evs, Len(evs) + 1)
    PROVE  \E i \in 1..Len(evs) : evs[i] \in GlobalEvent /\ GlobalsBefore(evs, i) = k
<1> DEFINE S == {i \in 1..(Len(evs) + 1) : GlobalsBefore(evs, i) > k}
<1>0. Len(evs) \in Nat
  OBVIOUS
<1>1. S \in SUBSET Nat
  BY <1>0
<1>2. Len(evs) + 1 \in S
  BY <1>0
<1>3. PICK i \in S : \A j \in S : i <= j
  BY <1>1, <1>2, LeastNatural
<1>4. i # 1
  BY <1>3, GlobalsBeforeStep
<1>5. i - 1 \in 1..Len(evs) /\ i - 1 \in 1..(Len(evs) + 1) /\ (i - 1) + 1 = i
  BY <1>0, <1>3, <1>4
<1>6. i - 1 \notin S
  BY <1>3, <1>5
<1>7. /\ GlobalsBefore(evs, i - 1) \in Nat
      /\ GlobalsBefore(evs, i) =
           GlobalsBefore(evs, i - 1) + (IF evs[i - 1] \in GlobalEvent THEN 1 ELSE 0)
  BY <1>5, GlobalsBeforeStep
<1>8. GlobalsBefore(evs, i - 1) <= k /\ GlobalsBefore(evs, i) > k
  BY <1>3, <1>5, <1>6, <1>7
<1>9. evs[i - 1] \in GlobalEvent /\ GlobalsBefore(evs, i - 1) = k
  BY <1>7, <1>8
<1> QED BY <1>5, <1>9

-----------------------------------------------------------------------------
(* Types. *)

\* The entry `append` stamps is an entry.
LEMMA StampType ==
    ASSUME NEW n \in Node, NEW vs \in VersionVector, NEW ep \in Nat, NEW ev \in Event
    PROVE  /\ next_seq(n, vs, ep) \in Nat
           /\ Stamp(n, vs, ep, ev) \in LogEntry
           /\ Stamp(n, vs, ep, ev).origin = n
           /\ Stamp(n, vs, ep, ev).event = ev
<1>1. vs[n] \in Cursor \cup {None}
  BY DEF VersionVector
<1>2. next_seq(n, vs, ep) \in Nat
  BY <1>1 DEF next_seq, Cursor
<1> QED BY <1>2 DEF Stamp, LogEntry

\* Counting an entry in leaves a version vector.
LEMMA AdvanceType ==
    ASSUME NEW vs \in VersionVector, NEW e \in LogEntry
    PROVE  Advance(vs, e) \in VersionVector
BY DEF Advance, VersionVector, CursorOf, Cursor, LogEntry

\* What a node pushes is typed and carries the entry, and only if it is Global.
LEMMA PushedType ==
    ASSUME NEW n \in Node, NEW e \in LogEntry
    PROVE  /\ Pushed(n, e) \subseteq EntryMsg
           /\ \A m \in Pushed(n, e) : m.entry = e /\ Global(e)
<1>1. ASSUME NEW m \in Pushed(n, e) PROVE m \in EntryMsg /\ m.entry = e /\ Global(e)
  <2>1. PICK p \in {q \in Peers(n) : Global(e)} : m = [src |-> n, dst |-> p, entry |-> e]
    BY DEF Pushed
  <2>2. p \in Node /\ Global(e)
    BY <2>1 DEF Peers
  <2> QED BY <2>1, <2>2 DEF EntryMsg
<1> QED BY <1>1

\* A compaction writes a log and a version vector.
LEMMA CompactedType ==
    ASSUME NEW n \in Node, NEW ep \in Nat, NEW evs \in Seq(Event)
    PROVE  /\ CompactedLog(n, ep, evs) \in Seq(LogEntry)
           /\ CompactedVersions(n, ep, evs) \in VersionVector
<1>0. Len(evs) \in Nat /\ \A i \in 1..Len(evs) : evs[i] \in Event
  OBVIOUS
<1>1. \A i \in 1..Len(evs) : GlobalsBefore(evs, i) \in Nat
  BY GlobalsBeforeStep
<1>2. CompactedLog(n, ep, evs) \in [1..Len(evs) -> LogEntry]
  BY <1>0, <1>1 DEF CompactedLog, LogEntry
<1>3. CompactedLog(n, ep, evs) \in Seq(LogEntry)
  BY <1>0, <1>2
<1>4. GlobalsBefore(evs, Len(evs) + 1) \in Nat
  BY <1>0, GlobalsBeforeMonotone
<1>5. NoVersions \in VersionVector
  BY DEF NoVersions, VersionVector
<1>6. CompactedVersions(n, ep, evs) \in VersionVector
  BY <1>4, <1>5 DEF CompactedVersions, VersionVector, Cursor
<1> QED BY <1>3, <1>6

-----------------------------------------------------------------------------
(* What `open` recovers. *)

\* A version vector whose cursors are the newest entries is the absorbed one.
LEMMA AbsorbedIsCursor ==
    ASSUME TypeOK, CursorIsMax, NEW n \in Node
    PROVE  AbsorbedVersions(log[n]) = versions[n]
<1>1. versions[n] \in VersionVector /\ log[n] \in Seq(LogEntry)
  BY DEF TypeOK
<1>2. ASSUME NEW o \in Node PROVE AbsorbedCursor(log[n], o) = versions[n][o]
  <2> DEFINE S == GlobalsOf(log[n], o)
             Newest(e) == \A f \in S : ~cursor_newer(CursorOf(e), CursorOf(f))
  <2>0. S \subseteq LogEntry
    BY <1>1, EntriesType DEF GlobalsOf
  <2>1. CASE versions[n][o] = None
    <3>1. S = {}
      BY <2>1 DEF CursorIsMax
    <3> QED BY <2>1, <3>1 DEF AbsorbedCursor
  <2>2. CASE versions[n][o] # None
    <3>0. versions[n][o] \in Cursor
      BY <1>1, <2>2 DEF VersionVector
    <3>1. PICK e \in S : CursorOf(e) = versions[n][o]
      BY <2>2 DEF CursorIsMax
    <3>2. Newest(e)
      BY <2>2, <3>1 DEF CursorIsMax
    <3> DEFINE c == CHOOSE x \in S : Newest(x)
    <3>3. c \in S /\ Newest(c)
      BY <3>1, <3>2
    <3>4. e \in LogEntry /\ c \in LogEntry
      BY <2>0, <3>1, <3>3
    <3>5. ~cursor_newer(CursorOf(e), CursorOf(c)) /\ ~cursor_newer(CursorOf(c), CursorOf(e))
      BY <3>1, <3>2, <3>3
    <3>6. CursorOf(c) = CursorOf(e)
      BY <3>4, <3>5 DEF cursor_newer, CursorOf, LogEntry
    <3>7. AbsorbedCursor(log[n], o) = CursorOf(c)
      BY <3>1 DEF AbsorbedCursor
    <3> QED BY <3>1, <3>6, <3>7
  <2> QED BY <2>1, <2>2
<1> QED BY <1>1, <1>2 DEF AbsorbedVersions, VersionVector

\* The recovered epoch is the greatest among the node's own entries.
LEMMA AbsorbedEpochMax ==
    ASSUME NEW n \in Node, NEW lg \in Seq(LogEntry), NEW b \in Nat,
           \A e \in OwnEntries(lg, n) : e.epoch <= b
    PROVE  /\ AbsorbedEpoch(lg, n) \in Nat
           /\ \A e \in OwnEntries(lg, n) : e.epoch <= AbsorbedEpoch(lg, n)
<1> DEFINE O == OwnEntries(lg, n)
<1>0. O \subseteq LogEntry
  BY EntriesType DEF OwnEntries
<1>1. CASE O = {}
  BY <1>1 DEF AbsorbedEpoch
<1>2. CASE O # {}
  <2> DEFINE D == {b - e.epoch : e \in O}
  <2>1. \A e \in O : e.epoch \in Nat /\ e.epoch <= b
    BY <1>0 DEF LogEntry
  <2>2. D \in SUBSET Nat /\ D # {}
    BY <1>2, <2>1
  <2>3. PICK d \in D : \A x \in D : d <= x
    BY <2>2, LeastNatural
  <2>4. PICK e \in O : d = b - e.epoch
    BY <2>3
  <2>5. \A f \in O : f.epoch <= e.epoch
    <3>1. ASSUME NEW f \in O PROVE f.epoch <= e.epoch
      <4>1. b - e.epoch <= b - f.epoch
        BY <2>3, <2>4
      <4> QED BY <2>1, <2>4, <4>1
    <3> QED BY <3>1
  <2> DEFINE c == CHOOSE x \in O : \A f \in O : f.epoch <= x.epoch
  <2>6. c \in O /\ \A f \in O : f.epoch <= c.epoch
    BY <2>4, <2>5
  <2>7. AbsorbedEpoch(lg, n) = c.epoch
    BY <1>2 DEF AbsorbedEpoch
  <2> QED BY <2>1, <2>6, <2>7
<1> QED BY <1>1, <1>2

-----------------------------------------------------------------------------
(* The type invariant.  Only Restart needs more than types: it must know    *)
(* that what it recovers exists.                                            *)

\* A step whether or not it is rationed: MaxOps plays no part in the proofs.
Step ==
    \/ \E n \in Node, ev \in Event : Author(n, ev)
    \/ \E n \in Node, evs \in Snapshots : Compact(n, evs)
    \/ \E n \in Node : SetReadonly(n) \/ CompactFails(n) \/ Restart(n)
    \/ Gossip

\* A step, or none of what it could change.
Moves == Step \/ UNCHANGED <<log, epoch, versions, readonly, up, net, dig, faults>>

\* Every step of the log and of its sessions keeps the types.
LEMMA TypeStep ==
    ASSUME TypeOK, OwnEpochs, CursorIsMax, Moves, ops' \in Nat
    PROVE  TypeOK'
<1> USE DEF TypeOK
<1>1. ASSUME NEW n \in Node, NEW ev \in Event, Author(n, ev) PROVE TypeOK'
  <2> DEFINE e == Stamp(n, versions[n], epoch[n], ev)
  <2>1. e \in LogEntry
    BY StampType
  <2>2. log[n] \o <<e>> \in Seq(LogEntry)
    BY <2>1, EntriesAppend
  <2>3. Advance(versions[n], e) \in VersionVector
    BY <2>1, AdvanceType
  <2>4. Pushed(n, e) \subseteq EntryMsg
    BY <2>1, PushedType
  <2> HIDE DEF e
  <2>5. /\ log' = [log EXCEPT ![n] = @ \o <<e>>]
        /\ versions' = [versions EXCEPT ![n] = Advance(@, e)]
        /\ net' = net \cup Pushed(n, e)
        /\ UNCHANGED <<epoch, readonly, up, dig, faults>>
    BY <1>1 DEF Author, e
  <2> QED BY <2>2, <2>3, <2>4, <2>5
<1>2. ASSUME NEW n \in Node, NEW evs \in Snapshots, Compact(n, evs) PROVE TypeOK'
  <2>1. /\ CompactedLog(n, epoch[n] + 1, evs) \in Seq(LogEntry)
        /\ CompactedVersions(n, epoch[n] + 1, evs) \in VersionVector
    BY SnapshotsAssumption, CompactedType
  <2> QED BY <1>2, <2>1 DEF Compact
<1>3. ASSUME NEW n \in Node, SetReadonly(n) PROVE TypeOK'
  BY <1>3 DEF SetReadonly
<1>4. ASSUME NEW n \in Node, CompactFails(n) PROVE TypeOK'
  BY <1>4 DEF CompactFails
<1>5. ASSUME NEW n \in Node, Restart(n) PROVE TypeOK'
  <2>1. AbsorbedVersions(log[n]) \in VersionVector
    BY AbsorbedIsCursor
  <2>2. AbsorbedEpoch(log[n], n) \in Nat
    BY AbsorbedEpochMax DEF OwnEpochs
  <2> QED BY <1>5, <2>1, <2>2 DEF Restart, Surviving
<1>6. ASSUME NEW l \in Links, Connect(l) PROVE TypeOK'
  BY <1>6 DEF Connect
<1>7. ASSUME NEW l \in Links, Disconnect(l) PROVE TypeOK'
  BY <1>7 DEF Disconnect, Surviving
<1>8. ASSUME NEW n \in Node, NEW p \in Node, SendDigest(n, p) PROVE TypeOK'
  <2>1. Digest(n, p, FALSE) \in DigestMsg
    BY DEF Digest, DigestMsg
  <2> QED BY <1>8, <2>1 DEF SendDigest
<1>9. ASSUME NEW d \in dig, AnswerDigest(d) PROVE TypeOK'
  <2>1. d \in DigestMsg
    OBVIOUS
  <2>2. d.src \in Node /\ d.dst \in Node
    BY <2>1 DEF DigestMsg
  <2>3. missing_for(log[d.dst], d.versions) \subseteq LogEntry
    BY <2>2, EntriesType DEF missing_for
  <2>4. {[src |-> d.dst, dst |-> d.src, entry |-> e] :
           e \in missing_for(log[d.dst], d.versions)} \subseteq EntryMsg
    BY <2>2, <2>3 DEF EntryMsg
  <2>5. Digest(d.dst, d.src, FALSE) \in DigestMsg
    BY <2>2 DEF Digest, DigestMsg
  <2> QED BY <1>9, <2>4, <2>5 DEF AnswerDigest
<1>10. ASSUME NEW m \in net, Ingest(m) PROVE TypeOK'
  <2>1. m.dst \in Node /\ m.entry \in LogEntry
    BY DEF EntryMsg
  <2>2. log[m.dst] \o <<m.entry>> \in Seq(LogEntry)
    BY <2>1, EntriesAppend
  <2>3. Advance(versions[m.dst], m.entry) \in VersionVector
    BY <2>1, AdvanceType
  <2>4. Pushed(m.dst, m.entry) \subseteq EntryMsg
    BY <2>1, PushedType
  <2> QED BY <1>10, <2>1, <2>2, <2>3, <2>4 DEF Ingest
<1>11. ASSUME NEW m \in net, Lag(m) PROVE TypeOK'
  <2>1. m.dst \in Node /\ m.src \in Node
    BY DEF EntryMsg
  <2>2. Digest(m.src, m.dst, TRUE) \in DigestMsg
    BY <2>1 DEF Digest, DigestMsg
  <2>3. /\ UNCHANGED <<log, epoch, versions, readonly, up, ops>>
        /\ net' \subseteq net
        /\ dig' = dig \cup {Digest(m.src, m.dst, TRUE)}
        /\ faults' = faults + 1
    BY <1>11 DEF Lag
  <2>4. net' \subseteq EntryMsg
    BY <2>3
  <2>5. dig' \subseteq DigestMsg
    BY <2>2, <2>3
  <2>6. /\ log' \in [Node -> Seq(LogEntry)]
        /\ epoch' \in [Node -> Nat]
        /\ versions' \in [Node -> VersionVector]
        /\ readonly' \in [Node -> BOOLEAN]
        /\ up' \subseteq Links /\ ops' \in Nat /\ faults' \in Nat
    BY <2>3
  <2> QED BY <2>4, <2>5, <2>6
<1>12. ASSUME NEW m \in net, IngestFails(m) PROVE TypeOK'
  BY <1>12 DEF IngestFails
<1>13. CASE UNCHANGED <<log, epoch, versions, readonly, up, net, dig, faults>>
  BY <1>13
<1> QED BY <1>1, <1>2, <1>3, <1>4, <1>5, <1>6, <1>7, <1>8, <1>9, <1>10, <1>11,
           <1>12, <1>13 DEF Moves, Step, Gossip

-----------------------------------------------------------------------------
(* Every published id lies at or below what its author's state accounts for. *)

\* The entries of some logs and of some messages, one by one.
LEMMA WorldMembers ==
    ASSUME NEW L, NEW M, NEW W,
           W = (UNION {Entries(L[n]) : n \in Node}) \cup {m.entry : m \in M}
    PROVE  /\ \A n \in Node : Entries(L[n]) \subseteq W
           /\ \A m \in M : m.entry \in W
           /\ \A e \in W : \/ \E n \in Node : e \in Entries(L[n])
                          \/ \E m \in M : e = m.entry
<1> DEFINE U == UNION {Entries(L[n]) : n \in Node}
           F == {m.entry : m \in M}
<1>1. \A n \in Node : Entries(L[n]) \subseteq U
  OBVIOUS
<1>2. \A m \in M : m.entry \in F
  OBVIOUS
<1>3. ASSUME NEW e \in U PROVE \E n \in Node : e \in Entries(L[n])
  <2>1. PICK S \in {Entries(L[n]) : n \in Node} : e \in S
    OBVIOUS
  <2>2. PICK n \in Node : S = Entries(L[n])
    BY <2>1
  <2> QED BY <2>1, <2>2
<1>4. \A e \in F : \E m \in M : e = m.entry
  OBVIOUS
<1>5. W = U \cup F
  OBVIOUS
<1> HIDE DEF U, F
<1> QED BY <1>1, <1>2, <1>3, <1>4, <1>5

\* The same of the current world and of the next one.
LEMMA WorldNow ==
    /\ \A n \in Node : Entries(log[n]) \subseteq World
    /\ \A m \in net : m.entry \in World
    /\ \A e \in World : \/ \E n \in Node : e \in Entries(log[n])
                       \/ \E m \in net : e = m.entry
<1>1. World = (UNION {Entries(log[n]) : n \in Node}) \cup {m.entry : m \in net}
  BY DEF World
<1> QED BY <1>1, WorldMembers

\* Where an entry of the next state's world is to be found.
LEMMA WorldNext ==
    \A e \in World' : \/ \E n \in Node : e \in Entries(log'[n])
                     \/ \E m \in net' : e = m.entry
<1>1. World' = (UNION {Entries(log'[n]) : n \in Node}) \cup {m.entry : m \in net'}
  BY DEF World
<1> QED BY <1>1, WorldMembers

\* Whatever is in a log or in flight is an entry.
LEMMA WorldType ==
    ASSUME TypeOK
    PROVE  World \subseteq LogEntry
<1>1. \A n \in Node : Entries(log[n]) \subseteq LogEntry
  BY EntriesType DEF TypeOK
<1>2. \A m \in net : m.entry \in LogEntry
  BY DEF TypeOK, EntryMsg
<1> QED BY <1>1, <1>2, WorldNow

\* No published entry is ahead of its author: it is of an earlier epoch, or of
\* the author's epoch at a seq the author's own cursor has reached.
LEMMA AuthorLeads ==
    ASSUME TypeOK, OwnEpochs, Witnessed, CursorIsMax, NEW e \in World, Global(e)
    PROVE  \/ e.epoch < epoch[e.origin]
           \/ /\ e.epoch = epoch[e.origin]
              /\ versions[e.origin][e.origin] # None
              /\ versions[e.origin][e.origin].epoch = epoch[e.origin]
              /\ e.seq <= versions[e.origin][e.origin].seq
<1> DEFINE o == e.origin
           c == versions[o][o]
<1>1. e \in LogEntry /\ o \in Node
  BY WorldType DEF LogEntry
<1>2. PICK f \in OwnEntries(log[o], o) : Covers(f, e)
  BY DEF Witnessed
<1>3. log[o] \in Seq(LogEntry) /\ epoch[o] \in Nat /\ c \in Cursor \cup {None}
  BY <1>1 DEF TypeOK, VersionVector
<1>4. f \in LogEntry /\ f.epoch <= epoch[o] /\ f.origin = o /\ f \in Entries(log[o])
  BY <1>1, <1>2, <1>3, EntriesType DEF OwnEntries, OwnEpochs
<1>5. CASE f.epoch > e.epoch
  BY <1>1, <1>3, <1>4, <1>5 DEF LogEntry
<1>6. CASE Global(f) /\ f.epoch = e.epoch /\ f.seq >= e.seq
  <2>1. f \in GlobalsOf(log[o], o)
    BY <1>4, <1>6 DEF GlobalsOf
  <2>2. c # None /\ ~cursor_newer(c, CursorOf(f))
    BY <1>1, <2>1 DEF CursorIsMax
  <2>3. PICK g \in GlobalsOf(log[o], o) : CursorOf(g) = c
    BY <1>1, <2>2 DEF CursorIsMax
  <2>4. g \in OwnEntries(log[o], o) /\ g \in LogEntry
    BY <1>3, <2>3, EntriesType DEF GlobalsOf, OwnEntries
  <2>5. c.epoch <= epoch[o]
    BY <1>1, <2>3, <2>4 DEF OwnEpochs, CursorOf
  <2>6. c.epoch > f.epoch \/ (c.epoch = f.epoch /\ c.seq >= f.seq)
    BY <1>3, <1>4, <2>2 DEF cursor_newer, CursorOf, Cursor, LogEntry
  <2> QED BY <1>1, <1>3, <1>4, <1>6, <2>2, <2>5, <2>6 DEF Cursor, LogEntry
<1> QED BY <1>2, <1>5, <1>6 DEF Covers

-----------------------------------------------------------------------------
(* Steps that leave the logs alone: whatever is in flight afterwards was    *)
(* already in the world, and Global.                                        *)

\* A step that leaves logs and vectors alone, and puts on the wire only Global
\* entries that exist already, keeps the invariant.
LEMMA QuietStep ==
    ASSUME IInv, TypeOK', OwnEpochs', UNCHANGED <<log, versions>>,
           \A m \in net' : m.entry \in World /\ Global(m.entry)
    PROVE  IInv'
<1> USE DEF IInv
<1>1. World' \subseteq World
  <2>1. \A n \in Node : Entries(log'[n]) \subseteq World
    BY WorldNow
  <2> QED BY <2>1, WorldNext
<1>2. Witnessed'
  BY <1>1 DEF Witnessed
<1>3. CursorIsMax'
  BY DEF CursorIsMax
<1>4. NoGaps'
  BY DEF NoGaps
<1>5. UniqueIds'
  BY <1>1 DEF UniqueIds
<1>6. LocalStaysLocal'
  BY DEF LocalStaysLocal
<1> QED BY <1>2, <1>3, <1>4, <1>5, <1>6

-----------------------------------------------------------------------------
(* Committing an entry, authored or ingested: it comes next in order for    *)
(* its origin, and its id is either new or that of the entry itself.        *)

\* Committing one entry to the log and vector of a node keeps the invariant.
LEMMA CommitStep ==
    ASSUME IInv, TypeOK', NEW n \in Node, NEW e \in LogEntry,
           log' = [log EXCEPT ![n] = @ \o <<e>>],
           versions' = [versions EXCEPT ![n] = Advance(@, e)],
           epoch' = epoch,
           \A m \in net' : m \in net \/ (m.entry = e /\ Global(e)),
           e.origin = n => e.epoch <= epoch[n],
           ~Global(e) => e.origin = n,
           Global(e) => InOrder(versions[n][e.origin], e),
           Global(e) => \/ e \in World
                        \/ e.origin = n /\ \A f \in World : Global(f) => ~SameId(f, e)
    PROVE  IInv'
<1> USE DEF IInv
<1>1. /\ Entries(log'[n]) = Entries(log[n]) \cup {e}
      /\ \A m \in Node \ {n} : log'[m] = log[m]
      /\ \A m \in Node : Entries(log[m]) \subseteq Entries(log'[m])
  <2>1. log[n] \in Seq(LogEntry) /\ log'[n] = log[n] \o <<e>>
    BY DEF TypeOK
  <2>2. \A m \in Node \ {n} : log'[m] = log[m]
    BY DEF TypeOK
  <2>3. Entries(log'[n]) = Entries(log[n]) \cup {e}
    BY <2>1, EntriesAppend
  <2>4. ASSUME NEW m \in Node PROVE Entries(log[m]) \subseteq Entries(log'[m])
    <3>1. CASE m = n
      BY <2>3, <3>1
    <3>2. CASE m # n
      BY <2>2, <3>2
    <3> QED BY <3>1, <3>2
  <2> QED BY <2>2, <2>3, <2>4
<1>2. /\ World \subseteq LogEntry
      /\ \A m \in Node : Entries(log[m]) \subseteq World
      /\ \A m \in net : m.entry \in World
      /\ World' \subseteq World \cup {e}
  <2>3. /\ \A m \in Node : Entries(log[m]) \subseteq World
        /\ \A m \in net : m.entry \in World
    BY WorldNow
  <2>4. \A f \in World' : \/ \E m \in Node : f \in Entries(log'[m])
                          \/ \E m \in net' : f = m.entry
    BY WorldNext
  <2>5. ASSUME NEW m \in Node PROVE Entries(log'[m]) \subseteq World \cup {e}
    <3>1. CASE m = n
      BY <1>1, <2>3, <3>1
    <3>2. CASE m # n
      BY <1>1, <2>3, <3>2
    <3> QED BY <3>1, <3>2
  <2>6. \A m \in net' : m.entry \in World \cup {e}
    BY <2>3
  <2>7. World' \subseteq World \cup {e}
    BY <2>4, <2>5, <2>6
  <2> QED BY <2>3, <2>7, WorldType
<1>3. OwnEpochs'
  <2>1. ASSUME NEW m \in Node, NEW f \in OwnEntries(log'[m], m) PROVE f.epoch <= epoch'[m]
    <3>1. f \in Entries(log'[m]) /\ f.origin = m
      BY <2>1 DEF OwnEntries
    <3>2. CASE f \in Entries(log[m])
      BY <3>1, <3>2 DEF OwnEpochs, OwnEntries
    <3>3. CASE f \notin Entries(log[m])
      <4>1. m = n /\ f = e
        BY <1>1, <3>1, <3>3
      <4> QED BY <3>1, <4>1
    <3> QED BY <3>2, <3>3
  <2> QED BY <2>1 DEF OwnEpochs
<1>4. Witnessed'
  <2>1. ASSUME NEW g \in World', Global(g)
        PROVE  \E f \in OwnEntries(log'[g.origin], g.origin) : Covers(f, g)
    <3>1. CASE g \in World
      <4>1. PICK f \in OwnEntries(log[g.origin], g.origin) : Covers(f, g)
        BY <2>1, <3>1 DEF Witnessed
      <4>2. g.origin \in Node
        BY <1>2, <3>1 DEF LogEntry
      <4>3. f \in OwnEntries(log'[g.origin], g.origin)
        BY <1>1, <4>1, <4>2 DEF OwnEntries
      <4> QED BY <4>1, <4>3
    <3>2. CASE g \notin World
      <4>1. g = e /\ e.origin = n
        BY <1>2, <2>1, <3>2
      <4>2. e \in OwnEntries(log'[n], n)
        BY <1>1, <4>1 DEF OwnEntries
      <4>3. Covers(e, e)
        BY <2>1, <4>1 DEF Covers, LogEntry
      <4> QED BY <4>1, <4>2, <4>3
    <3> QED BY <3>1, <3>2
  <2> QED BY <2>1 DEF Witnessed
<1>5. ASSUME NEW m \in Node, NEW o \in Node, ~(m = n /\ o = e.origin /\ Global(e))
      PROVE  /\ versions'[m][o] = versions[m][o]
             /\ GlobalsOf(log'[m], o) = GlobalsOf(log[m], o)
  <2>1. versions'[m][o] = versions[m][o]
    <3>1. CASE m # n
      BY <3>1 DEF TypeOK
    <3>2. CASE m = n
      <4>1. versions'[n] = Advance(versions[n], e) /\ versions[n] \in VersionVector
        BY DEF TypeOK
      <4> QED BY <1>5, <3>2, <4>1 DEF Advance, VersionVector
    <3> QED BY <3>1, <3>2
  <2>2. GlobalsOf(log'[m], o) = GlobalsOf(log[m], o)
    BY <1>1, <1>5 DEF GlobalsOf
  <2> QED BY <2>1, <2>2
<1>6. ASSUME Global(e)
      PROVE  /\ versions'[n][e.origin] = CursorOf(e)
             /\ versions'[n][e.origin] # None
             /\ GlobalsOf(log'[n], e.origin) = GlobalsOf(log[n], e.origin) \cup {e}
             /\ e.origin \in Node
             /\ versions[n][e.origin] \in Cursor \cup {None}
  <2>1. versions'[n] = Advance(versions[n], e) /\ versions[n] \in VersionVector
    BY DEF TypeOK
  <2>2. e.origin \in Node
    BY DEF LogEntry
  <2>3. versions'[n][e.origin] = CursorOf(e) /\ versions[n][e.origin] \in Cursor \cup {None}
    BY <1>6, <2>1, <2>2 DEF Advance, VersionVector
  <2>4. CursorOf(e) \in Cursor
    BY DEF CursorOf, Cursor, LogEntry
  <2>5. GlobalsOf(log'[n], e.origin) = GlobalsOf(log[n], e.origin) \cup {e}
    BY <1>1, <1>6 DEF GlobalsOf
  <2> QED BY <2>2, <2>3, <2>4, <2>5, NoneAssumption
<1>7. CursorIsMax'
  <2>1. ASSUME NEW m \in Node, NEW o \in Node
        PROVE  IF versions'[m][o] = None THEN GlobalsOf(log'[m], o) = {}
               ELSE /\ \E f \in GlobalsOf(log'[m], o) : CursorOf(f) = versions'[m][o]
                    /\ \A f \in GlobalsOf(log'[m], o) :
                         ~cursor_newer(versions'[m][o], CursorOf(f))
    <3>1. CASE ~(m = n /\ o = e.origin /\ Global(e))
      BY <1>5, <3>1 DEF CursorIsMax
    <3>2. CASE m = n /\ o = e.origin /\ Global(e)
      <4> DEFINE have == versions[n][e.origin]
                 S == GlobalsOf(log[n], e.origin)
      <4>1. S \subseteq LogEntry
        BY EntriesType DEF GlobalsOf, TypeOK
      <4>2. ~cursor_newer(CursorOf(e), CursorOf(e))
        BY DEF cursor_newer, CursorOf, LogEntry
      <4>3. ASSUME NEW f \in S PROVE ~cursor_newer(CursorOf(e), CursorOf(f))
        <5>1. have # None /\ ~cursor_newer(have, CursorOf(f))
          BY <1>6, <3>2 DEF CursorIsMax
        <5>2. \/ e.epoch = have.epoch /\ e.seq = have.seq + 1
              \/ e.epoch > have.epoch /\ e.seq = 0
          BY <3>2, <5>1 DEF InOrder
        <5>3. f \in LogEntry /\ have \in Cursor
          BY <1>6, <3>2, <4>1, <5>1
        <5> QED BY <5>1, <5>2, <5>3 DEF cursor_newer, CursorOf, LogEntry, Cursor
      <4> HIDE DEF S, have
      <4>4. GlobalsOf(log'[m], o) = S \cup {e} /\ versions'[m][o] = CursorOf(e)
            /\ versions'[m][o] # None
        BY <1>6, <3>2 DEF S
      <4> QED BY <4>2, <4>3, <4>4
    <3> QED BY <3>1, <3>2
  <2> QED BY <2>1 DEF CursorIsMax
<1>8. NoGaps'
  <2>1. ASSUME NEW m \in Node, NEW o \in Node, versions'[m][o] # None,
               NEW k \in 0..versions'[m][o].seq
        PROVE  \E f \in Entries(log'[m]) : /\ Global(f)
                                           /\ f.origin = o
                                           /\ f.epoch = versions'[m][o].epoch
                                           /\ f.seq = k
    <3>1. CASE ~(m = n /\ o = e.origin /\ Global(e))
      <4>1. versions'[m][o] = versions[m][o]
        BY <1>5, <3>1
      <4>2. \E f \in Entries(log[m]) : /\ Global(f)
                                       /\ f.origin = o
                                       /\ f.epoch = versions[m][o].epoch
                                       /\ f.seq = k
        BY <2>1, <4>1 DEF NoGaps
      <4> QED BY <1>1, <4>1, <4>2
    <3>2. CASE m = n /\ o = e.origin /\ Global(e)
      <4> DEFINE have == versions[n][e.origin]
      <4>1. versions'[m][o].seq = e.seq /\ versions'[m][o].epoch = e.epoch
        BY <1>6, <3>2 DEF CursorOf
      <4>2. e \in Entries(log'[m]) /\ e.seq \in Nat
        BY <1>1, <3>2 DEF LogEntry
      <4>3. CASE k = e.seq
        BY <3>2, <4>1, <4>2, <4>3
      <4>4. CASE k # e.seq
        <5>1. k < e.seq /\ k \in Nat
          BY <2>1, <4>1, <4>2, <4>4
        <5>2. have # None /\ e.epoch = have.epoch /\ e.seq = have.seq + 1
          BY <3>2, <5>1 DEF InOrder
        <5>3. k \in 0..have.seq
          BY <1>6, <3>2, <5>1, <5>2 DEF Cursor
        <5>4. \E f \in Entries(log[n]) : /\ Global(f)
                                         /\ f.origin = e.origin
                                         /\ f.epoch = have.epoch
                                         /\ f.seq = k
          BY <1>6, <3>2, <5>2, <5>3 DEF NoGaps
        <5> QED BY <1>1, <3>2, <4>1, <5>2, <5>4
      <4> QED BY <4>3, <4>4
    <3> QED BY <3>1, <3>2
  <2> QED BY <2>1 DEF NoGaps
<1>9. UniqueIds'
  <2>1. ASSUME NEW g \in World', NEW f \in World', Global(g), Global(f), SameId(g, f)
        PROVE  g = f
    <3>1. CASE g \in World /\ f \in World
      BY <2>1, <3>1 DEF UniqueIds
    <3>2. CASE g \notin World
      BY <1>2, <2>1, <3>2 DEF SameId
    <3>3. CASE f \notin World
      BY <1>2, <2>1, <3>3 DEF SameId
    <3> QED BY <3>1, <3>2, <3>3
  <2> QED BY <2>1 DEF UniqueIds
<1>10. LocalStaysLocal'
  BY <1>1 DEF LocalStaysLocal
<1> QED BY <1>3, <1>4, <1>7, <1>8, <1>9, <1>10

-----------------------------------------------------------------------------
(* Compaction. *)

\* The entries of a compacted log: all of the new epoch, the Global ones
\* numbered 0, 1, ... without a gap and without a repetition.
LEMMA CompactedEntries ==
    ASSUME NEW n \in Node, NEW ep \in Nat, NEW evs \in Seq(Event), evs # <<>>
    PROVE  LET E == Entries(CompactedLog(n, ep, evs))
               total == GlobalsBefore(evs, Len(evs) + 1)
           IN  /\ E # {}
               /\ total \in Nat
               /\ \A f \in E : f.origin = n /\ f.epoch = ep
               /\ \A f \in E : Global(f) => f.seq \in Nat /\ f.seq < total
               /\ \A f, g \in E : Global(f) /\ Global(g) /\ f.seq = g.seq => f = g
               /\ \A k \in Nat : k < total => \E f \in E : Global(f) /\ f.seq = k
<1> DEFINE cl == CompactedLog(n, ep, evs)
           E == Entries(cl)
           total == GlobalsBefore(evs, Len(evs) + 1)
<1>0. Len(evs) \in Nat /\ Len(evs) >= 1
  OBVIOUS
<1>1. DOMAIN cl = 1..Len(evs)
  BY DEF CompactedLog
<1>2. \A i \in 1..Len(evs) :
        /\ cl[i].origin = n
        /\ cl[i].epoch = ep
        /\ cl[i].event = evs[i]
        /\ evs[i] \in GlobalEvent => cl[i].seq = GlobalsBefore(evs, i)
  BY DEF CompactedLog
<1>3. \A i \in 1..Len(evs) : cl[i] \in E
  BY <1>1 DEF Entries
<1>4. \A f \in E : \E i \in 1..Len(evs) : f = cl[i]
  BY <1>1 DEF Entries
<1> HIDE DEF cl, E
<1>5. E # {}
  BY <1>0, <1>3
<1>6. total \in Nat
  BY <1>0, GlobalsBeforeMonotone
<1>7. \A f \in E : f.origin = n /\ f.epoch = ep
  BY <1>2, <1>4
<1>9. ASSUME NEW f \in E, Global(f) PROVE f.seq \in Nat /\ f.seq < total
  <2>1. PICK i \in 1..Len(evs) : f = cl[i]
    BY <1>4
  <2>2. evs[i] \in GlobalEvent /\ f.seq = GlobalsBefore(evs, i)
    BY <1>2, <1>9, <2>1 DEF Global
  <2>3. Len(evs) + 1 \in 1..(Len(evs) + 1) /\ i < Len(evs) + 1
    BY <1>0
  <2> QED BY GlobalsBeforeStrict, <2>2, <2>3
<1>10. ASSUME NEW f \in E, NEW g \in E, Global(f), Global(g), f.seq = g.seq PROVE f = g
  <2>1. PICK i \in 1..Len(evs) : f = cl[i]
    BY <1>4
  <2>2. PICK j \in 1..Len(evs) : g = cl[j]
    BY <1>4
  <2>3. /\ evs[i] \in GlobalEvent /\ f.seq = GlobalsBefore(evs, i)
        /\ evs[j] \in GlobalEvent /\ g.seq = GlobalsBefore(evs, j)
    BY <1>2, <1>10, <2>1, <2>2 DEF Global
  <2>4. GlobalsBefore(evs, i) = GlobalsBefore(evs, j)
    BY <1>10, <2>3, Zenon
  <2>5. i \in 1..(Len(evs) + 1) /\ j \in 1..(Len(evs) + 1)
    BY <1>0
  <2>6. ASSUME i < j PROVE FALSE
    <3>1. GlobalsBefore(evs, i) \in Nat /\ GlobalsBefore(evs, i) < GlobalsBefore(evs, j)
          /\ GlobalsBefore(evs, j) \in Nat
      BY GlobalsBeforeStrict, <2>3, <2>5, <2>6
    <3> QED BY <2>4, <3>1
  <2>7. ASSUME j < i PROVE FALSE
    <3>1. GlobalsBefore(evs, j) \in Nat /\ GlobalsBefore(evs, j) < GlobalsBefore(evs, i)
          /\ GlobalsBefore(evs, i) \in Nat
      BY GlobalsBeforeStrict, <2>3, <2>5, <2>7
    <3> QED BY <2>4, <3>1
  <2> QED BY <2>1, <2>2, <2>6, <2>7
<1>11. ASSUME NEW k \in Nat, k < total PROVE \E f \in E : Global(f) /\ f.seq = k
  <2>1. PICK i \in 1..Len(evs) : evs[i] \in GlobalEvent /\ GlobalsBefore(evs, i) = k
    BY <1>11, GlobalsBeforeOnto
  <2> QED BY <1>2, <1>3, <2>1 DEF Global
<1> QED BY <1>5, <1>6, <1>7, <1>9, <1>10, <1>11 DEF cl, E

\* Rewriting the log to a snapshot at the next epoch keeps the invariant.
LEMMA CompactStep ==
    ASSUME IInv, TypeOK', NEW n \in Node, NEW evs \in Seq(Event), Compact(n, evs)
    PROVE  IInv'
<1> USE DEF IInv
<1> DEFINE ep == epoch[n] + 1
           E == Entries(CompactedLog(n, ep, evs))
           total == GlobalsBefore(evs, Len(evs) + 1)
<1>0. epoch[n] \in Nat /\ ep \in Nat /\ ep > epoch[n]
  BY DEF TypeOK
<1>1. /\ E # {}
      /\ total \in Nat
      /\ \A f \in E : f.origin = n /\ f.epoch = ep
      /\ \A f \in E : Global(f) => f.seq \in Nat /\ f.seq < total
      /\ \A f, g \in E : Global(f) /\ Global(g) /\ f.seq = g.seq => f = g
      /\ \A k \in Nat : k < total => \E f \in E : Global(f) /\ f.seq = k
  BY <1>0, CompactedEntries DEF Compact
<1>2. /\ Entries(log'[n]) = E
      /\ epoch'[n] = ep
      /\ \A m \in Node \ {n} : /\ log'[m] = log[m]
                               /\ epoch'[m] = epoch[m]
                               /\ versions'[m] = versions[m]
      /\ net' = net
      /\ total = 0 => versions'[n] = NoVersions
      /\ total # 0 => versions'[n] = [NoVersions EXCEPT ![n] = [epoch |-> ep, seq |-> total - 1]]
  BY DEF Compact, TypeOK, CompactedVersions
<1> HIDE DEF E, total, ep
<1>3. /\ World \subseteq LogEntry
      /\ World' \subseteq World \cup E
  <2>1. \A m \in Node : Entries(log'[m]) \subseteq World \cup E
    BY <1>2, WorldNow
  <2>2. \A m \in net' : m.entry \in World
    BY <1>2, WorldNow
  <2> QED BY <2>1, <2>2, WorldNext, WorldType
<1>4. \A g \in World : Global(g) /\ g.origin = n => g.epoch < ep
  <2>1. ASSUME NEW g \in World, Global(g), g.origin = n PROVE g.epoch < ep
    <3>1. g.epoch <= epoch[n] /\ g.epoch \in Nat
      BY <1>0, <1>3, <2>1, AuthorLeads DEF LogEntry
    <3> QED BY <1>0, <3>1
  <2> QED BY <2>1
<1>5. OwnEpochs'
  <2>1. ASSUME NEW m \in Node, NEW f \in OwnEntries(log'[m], m) PROVE f.epoch <= epoch'[m]
    <3>1. CASE m = n
      BY <1>0, <1>1, <1>2, <3>1 DEF OwnEntries
    <3>2. CASE m # n
      BY <1>2, <3>2 DEF OwnEntries, OwnEpochs
    <3> QED BY <3>1, <3>2
  <2> QED BY <2>1 DEF OwnEpochs
<1>6. Witnessed'
  <2>1. ASSUME NEW g \in World', Global(g)
        PROVE  \E f \in OwnEntries(log'[g.origin], g.origin) : Covers(f, g)
    <3>1. CASE g \in E
      <4>1. g \in OwnEntries(log'[n], n) /\ g.origin = n
        BY <1>1, <1>2, <3>1 DEF OwnEntries
      <4>2. Covers(g, g)
        BY <1>1, <2>1, <3>1 DEF Covers
      <4> QED BY <4>1, <4>2
    <3>2. CASE g \in World /\ g.origin = n
      <4>1. PICK f \in E : f.origin = n /\ f.epoch = ep
        BY <1>1
      <4>2. f \in OwnEntries(log'[n], n)
        BY <1>2, <4>1 DEF OwnEntries
      <4>3. Covers(f, g)
        BY <1>4, <2>1, <3>2, <4>1, <1>0, <1>3 DEF Covers, LogEntry
      <4> QED BY <3>2, <4>2, <4>3
    <3>3. CASE g \in World /\ g.origin # n
      <4>1. g.origin \in Node /\ log'[g.origin] = log[g.origin]
        BY <1>2, <1>3, <3>3 DEF LogEntry
      <4> QED BY <2>1, <3>3, <4>1 DEF Witnessed
    <3> QED BY <1>3, <3>1, <3>2, <3>3
  <2> QED BY <2>1 DEF Witnessed
<1>7. /\ \A o \in Node \ {n} : versions'[n][o] = None /\ GlobalsOf(log'[n], o) = {}
      /\ GlobalsOf(log'[n], n) = {f \in E : Global(f)}
      /\ total = 0 => versions'[n][n] = None
      /\ total # 0 => /\ versions'[n][n] # None
                     /\ versions'[n][n] = [epoch |-> ep, seq |-> total - 1]
  <2>1. total # 0 => [epoch |-> ep, seq |-> total - 1] \in Cursor
    BY <1>0, <1>1 DEF Cursor
  <2>2. \A o \in Node \ {n} : versions'[n][o] = None
    BY <1>2 DEF NoVersions
  <2>3. total = 0 => versions'[n][n] = None
    BY <1>2 DEF NoVersions
  <2>4. total # 0 => versions'[n][n] = [epoch |-> ep, seq |-> total - 1]
    BY <1>2 DEF NoVersions
  <2>5. \A o \in Node \ {n} : GlobalsOf(log'[n], o) = {}
    BY <1>1, <1>2 DEF GlobalsOf
  <2>6. GlobalsOf(log'[n], n) = {f \in E : Global(f)}
    BY <1>1, <1>2 DEF GlobalsOf
  <2> QED BY <2>1, <2>2, <2>3, <2>4, <2>5, <2>6, NoneAssumption
<1>8. CursorIsMax'
  <2>1. ASSUME NEW m \in Node, NEW o \in Node
        PROVE  IF versions'[m][o] = None THEN GlobalsOf(log'[m], o) = {}
               ELSE /\ \E f \in GlobalsOf(log'[m], o) : CursorOf(f) = versions'[m][o]
                    /\ \A f \in GlobalsOf(log'[m], o) :
                         ~cursor_newer(versions'[m][o], CursorOf(f))
    <3>1. CASE m # n
      BY <1>2, <3>1 DEF CursorIsMax
    <3>2. CASE m = n /\ o # n
      BY <1>7, <3>2
    <3>3. CASE m = n /\ o = n /\ total = 0
      BY <1>1, <1>7, <3>3
    <3>4. CASE m = n /\ o = n /\ total # 0
      <4>1. total - 1 \in Nat /\ total - 1 < total
        BY <1>1, <3>4
      <4>2. PICK f \in E : Global(f) /\ f.seq = total - 1
        BY <1>1, <4>1
      <4>3. f \in GlobalsOf(log'[m], o) /\ CursorOf(f) = versions'[m][o]
        BY <1>1, <1>7, <3>4, <4>2 DEF CursorOf
      <4>4. ASSUME NEW g \in GlobalsOf(log'[m], o)
            PROVE  ~cursor_newer(versions'[m][o], CursorOf(g))
        <5>1. g.epoch = ep /\ g.seq \in Nat /\ g.seq < total
          BY <1>1, <1>7, <3>4
        <5> QED BY <1>0, <1>1, <1>7, <3>4, <5>1 DEF cursor_newer, CursorOf
      <4> QED BY <1>7, <3>4, <4>3, <4>4
    <3> QED BY <3>1, <3>2, <3>3, <3>4
  <2> QED BY <2>1 DEF CursorIsMax
<1>9. NoGaps'
  <2>1. ASSUME NEW m \in Node, NEW o \in Node, versions'[m][o] # None,
               NEW k \in 0..versions'[m][o].seq
        PROVE  \E f \in Entries(log'[m]) : /\ Global(f)
                                           /\ f.origin = o
                                           /\ f.epoch = versions'[m][o].epoch
                                           /\ f.seq = k
    <3>1. CASE m # n
      BY <1>2, <2>1, <3>1 DEF NoGaps
    <3>2. CASE m = n
      <4>1. o = n /\ total # 0
        BY <1>7, <2>1, <3>2
      <4>2. k \in Nat /\ k < total /\ versions'[m][o].epoch = ep
        BY <1>1, <1>7, <2>1, <3>2, <4>1
      <4>3. PICK f \in E : Global(f) /\ f.seq = k
        BY <1>1, <4>2
      <4> QED BY <1>1, <1>2, <3>2, <4>1, <4>2, <4>3
    <3> QED BY <3>1, <3>2
  <2> QED BY <2>1 DEF NoGaps
<1>10. UniqueIds'
  <2>1. ASSUME NEW g \in World', NEW f \in World', Global(g), Global(f), SameId(g, f)
        PROVE  g = f
    <3>1. CASE g \in World /\ f \in World
      BY <2>1, <3>1 DEF UniqueIds
    <3>2. CASE g \in E /\ f \in E
      BY <1>1, <2>1, <3>2 DEF SameId
    <3>3. CASE g \in World /\ f \in E
      BY <1>0, <1>1, <1>3, <1>4, <2>1, <3>3 DEF SameId, LogEntry
    <3>4. CASE g \in E /\ f \in World
      BY <1>0, <1>1, <1>3, <1>4, <2>1, <3>4 DEF SameId, LogEntry
    <3> QED BY <1>3, <3>1, <3>2, <3>3, <3>4
  <2> QED BY <2>1 DEF UniqueIds
<1>11. LocalStaysLocal'
  BY <1>1, <1>2 DEF LocalStaysLocal
<1> QED BY <1>5, <1>6, <1>8, <1>9, <1>10, <1>11

-----------------------------------------------------------------------------
(* The invariant, action by action. *)

\* The initial state: every log is empty and nothing is in flight.
LEMMA InitInv == Init => IInv
<1> SUFFICES ASSUME Init PROVE IInv
  OBVIOUS
<1> USE DEF Init
<1>1. \A n \in Node : log[n] = <<>> /\ Entries(log[n]) = {}
  BY DEF Entries
<1>2. \A e \in World : FALSE
  BY <1>1, WorldNow
<1>3. TypeOK
  BY DEF TypeOK, NoVersions, VersionVector
<1>4. OwnEpochs
  BY <1>1 DEF OwnEpochs, OwnEntries
<1>5. Witnessed /\ UniqueIds
  BY <1>2 DEF Witnessed, UniqueIds
<1>6. \A n, o \in Node : versions[n][o] = None
  BY DEF NoVersions
<1>7. CursorIsMax
  BY <1>1, <1>6 DEF CursorIsMax, GlobalsOf
<1>8. NoGaps
  BY <1>6 DEF NoGaps
<1>9. LocalStaysLocal
  BY <1>1 DEF LocalStaysLocal
<1> QED BY <1>3, <1>4, <1>5, <1>7, <1>8, <1>9 DEF IInv

\* Authoring: the stamped id comes next after the author's own cursor, and
\* AuthorLeads says that nothing in the world has it yet.
LEMMA AuthorStep ==
    ASSUME IInv, TypeOK', NEW n \in Node, NEW ev \in Event, Author(n, ev)
    PROVE  IInv'
<1> USE DEF IInv
<1> DEFINE e == Stamp(n, versions[n], epoch[n], ev)
           c == versions[n][n]
<1>1. versions[n] \in VersionVector /\ epoch[n] \in Nat /\ c \in Cursor \cup {None}
  BY DEF TypeOK, VersionVector
<1>2. e \in LogEntry /\ e.origin = n /\ e.event = ev
  BY <1>1, StampType
<1>3. CASE Global(e)
  <2>1. e.epoch = epoch[n] /\ e.seq = next_seq(n, versions[n], epoch[n])
    BY <1>2, <1>3 DEF Stamp, Global
  <2>2. ASSUME c # None PROVE c \in Cursor /\ c.epoch <= epoch[n]
    <3>1. c \in Cursor
      BY <1>1, <2>2
    <3>2. PICK f \in GlobalsOf(log[n], n) : CursorOf(f) = c
      BY <2>2 DEF CursorIsMax
    <3>3. f \in OwnEntries(log[n], n)
      BY <3>2 DEF GlobalsOf, OwnEntries
    <3>4. f.epoch <= epoch[n]
      BY <3>3 DEF OwnEpochs
    <3> QED BY <3>1, <3>2, <3>4 DEF CursorOf
  <2> HIDE DEF e, c
  <2>3. InOrder(c, e)
    BY <1>1, <2>1, <2>2 DEF InOrder, next_seq, Cursor, c
  <2>4. ASSUME NEW f \in World, Global(f), SameId(f, e) PROVE FALSE
    <3>1. f.origin = n /\ f.epoch = epoch[n] /\ f.seq = e.seq
      BY <1>2, <2>1, <2>4 DEF SameId
    <3>2. c # None /\ c.epoch = epoch[n] /\ f.seq <= c.seq
      <4>1. f \in LogEntry
        BY WorldType
      <4> QED BY <1>1, <2>4, <3>1, <4>1, AuthorLeads DEF c, LogEntry
    <3>3. e.seq = c.seq + 1 /\ c.seq \in Nat
      BY <2>1, <2>2, <3>2 DEF next_seq, c, Cursor
    <3> QED BY <3>1, <3>2, <3>3
  <2>5. /\ log' = [log EXCEPT ![n] = @ \o <<e>>]
        /\ versions' = [versions EXCEPT ![n] = Advance(@, e)]
        /\ epoch' = epoch
        /\ net' = net \cup Pushed(n, e)
    BY DEF Author, e
  <2>6. \A m \in net' : m \in net \/ (m.entry = e /\ Global(e))
    BY <1>2, <2>5, PushedType
  <2>7. e.epoch <= epoch[n]
    BY <1>1, <2>1
  <2>8. \A f \in World : Global(f) => ~SameId(f, e)
    BY <2>4
  <2>9. InOrder(versions[n][e.origin], e)
    BY <1>2, <2>3 DEF c
  <2> HIDE DEF IInv
  <2> QED BY <1>2, <1>3, <2>5, <2>6, <2>7, <2>8, <2>9, CommitStep
<1>4. CASE ~Global(e)
  <2>1. e.epoch = 0
    BY <1>2, <1>4 DEF Stamp, Global
  <2> HIDE DEF e
  <2>2. /\ log' = [log EXCEPT ![n] = @ \o <<e>>]
        /\ versions' = [versions EXCEPT ![n] = Advance(@, e)]
        /\ epoch' = epoch
        /\ net' = net \cup Pushed(n, e)
    BY DEF Author, e
  <2>3. \A m \in net' : m \in net \/ (m.entry = e /\ Global(e))
    BY <1>2, <2>2, PushedType
  <2>4. e.epoch <= epoch[n]
    BY <1>1, <2>1
  <2> HIDE DEF IInv
  <2> QED BY <1>2, <1>4, <2>2, <2>3, <2>4, CommitStep
<1> QED BY <1>3, <1>4

\* Ingesting: an accepted entry is committed, a refused one only leaves the
\* wire.
LEMMA IngestStep ==
    ASSUME IInv, TypeOK', NEW m \in net, Ingest(m)
    PROVE  IInv'
<1> USE DEF IInv
<1> DEFINE n == m.dst
           e == m.entry
<1>1. n \in Node /\ e \in LogEntry /\ e \in World /\ Global(e)
  BY WorldNow DEF TypeOK, EntryMsg, LocalStaysLocal
<1>2. CASE accept(versions[n], Trust[n], e)
  <2>1. /\ log' = [log EXCEPT ![n] = @ \o <<e>>]
        /\ versions' = [versions EXCEPT ![n] = Advance(@, e)]
        /\ epoch' = epoch
        /\ net' = (net \ {m}) \cup Pushed(n, e)
    BY <1>2 DEF Ingest
  <2>2. \A x \in net' : x \in net \/ (x.entry = e /\ Global(e))
    BY <1>1, <2>1, PushedType
  <2>3. InOrder(versions[n][e.origin], e)
    BY <1>2 DEF accept
  <2>4. e.origin = n => e.epoch <= epoch[n]
    <3>1. epoch[n] \in Nat
      BY <1>1 DEF TypeOK
    <3> QED BY <1>1, <3>1, AuthorLeads DEF LogEntry
  <2> HIDE DEF n, e
  <2> QED BY <1>1, <2>1, <2>2, <2>3, <2>4, CommitStep
<1>3. CASE ~accept(versions[n], Trust[n], e)
  <2>1. UNCHANGED <<log, versions, epoch>> /\ net' = net \ {m}
    BY <1>3 DEF Ingest
  <2>2. OwnEpochs'
    BY <2>1 DEF OwnEpochs
  <2>3. \A x \in net' : x.entry \in World /\ Global(x.entry)
    BY <2>1, WorldNow DEF LocalStaysLocal
  <2> QED BY <2>1, <2>2, <2>3, QuietStep
<1> QED BY <1>2, <1>3

\* Restarting: what `open` absorbs is the vector the node had, and an epoch
\* that still covers its own entries.
LEMMA RestartStep ==
    ASSUME IInv, TypeOK', NEW n \in Node, Restart(n)
    PROVE  IInv'
<1> USE DEF IInv
<1>1. versions' = versions
  <2>1. AbsorbedVersions(log[n]) = versions[n]
    BY AbsorbedIsCursor
  <2>2. versions' = [versions EXCEPT ![n] = AbsorbedVersions(log[n])]
    BY DEF Restart
  <2> QED BY <2>1, <2>2 DEF TypeOK
<1>2. log' = log
  BY DEF Restart
<1>3. OwnEpochs'
  <2>1. /\ epoch'[n] = AbsorbedEpoch(log[n], n)
        /\ \A m \in Node \ {n} : epoch'[m] = epoch[m]
    BY DEF Restart, TypeOK
  <2>2. \A e \in OwnEntries(log[n], n) : e.epoch <= AbsorbedEpoch(log[n], n)
    <3>1. log[n] \in Seq(LogEntry) /\ epoch[n] \in Nat
      BY DEF TypeOK
    <3>2. \A e \in OwnEntries(log[n], n) : e.epoch <= epoch[n]
      BY DEF OwnEpochs
    <3> QED BY <3>1, <3>2, AbsorbedEpochMax
  <2>3. ASSUME NEW m \in Node, NEW e \in OwnEntries(log'[m], m) PROVE e.epoch <= epoch'[m]
    <3>1. CASE m = n
      BY <1>2, <2>1, <2>2, <3>1
    <3>2. CASE m # n
      BY <1>2, <2>1, <3>2 DEF OwnEpochs
    <3> QED BY <3>1, <3>2
  <2> QED BY <2>3 DEF OwnEpochs
<1>4. \A m \in net' : m.entry \in World /\ Global(m.entry)
  BY WorldNow DEF Restart, Surviving, LocalStaysLocal
<1> QED BY <1>1, <1>2, <1>3, <1>4, QuietStep

\* Answering a digest sends entries that stand in the answerer's log.
LEMMA AnswerStep ==
    ASSUME IInv, TypeOK', NEW d \in dig, AnswerDigest(d)
    PROVE  IInv'
<1> USE DEF IInv
<1>1. UNCHANGED <<log, versions, epoch>>
  BY DEF AnswerDigest
<1>2. OwnEpochs'
  BY <1>1 DEF OwnEpochs
<1>3. d.dst \in Node
  BY DEF TypeOK, DigestMsg
<1>4. ASSUME NEW m \in net' PROVE m.entry \in World /\ Global(m.entry)
  <2>1. CASE m \in net
    BY <2>1, WorldNow DEF LocalStaysLocal
  <2>2. CASE m \notin net
    <3>1. PICK e \in missing_for(log[d.dst], d.versions) :
            m = [src |-> d.dst, dst |-> d.src, entry |-> e]
      BY <2>2 DEF AnswerDigest
    <3>2. e \in Entries(log[d.dst]) /\ Global(e)
      BY DEF missing_for
    <3> QED BY <1>3, <3>1, <3>2, WorldNow
  <2> QED BY <2>1, <2>2
<1> QED BY <1>1, <1>2, <1>4, QuietStep

\* A step that changes no log and no vector, raises epochs at most and adds
\* nothing to the wire.
LEMMA SilentStep ==
    ASSUME IInv, TypeOK', UNCHANGED <<log, versions>>, net' \subseteq net,
           \A n \in Node : epoch'[n] >= epoch[n]
    PROVE  IInv'
<1> USE DEF IInv
<1>1. ASSUME NEW n \in Node, NEW e \in OwnEntries(log'[n], n) PROVE e.epoch <= epoch'[n]
  <2>1. e \in LogEntry /\ e.epoch <= epoch[n]
    BY EntriesType DEF OwnEntries, OwnEpochs, TypeOK
  <2>2. epoch[n] \in Nat /\ epoch'[n] \in Nat /\ e.epoch \in Nat
    BY <2>1 DEF TypeOK, LogEntry
  <2> QED BY <2>1, <2>2
<1>2. OwnEpochs'
  BY <1>1 DEF OwnEpochs
<1>3. \A m \in net' : m.entry \in World /\ Global(m.entry)
  BY WorldNow DEF LocalStaysLocal
<1> QED BY <1>2, <1>3, QuietStep

\* Every step preserves the invariant.
LEMMA StepInv ==
    ASSUME IInv, Moves, ops' \in Nat
    PROVE  IInv'
<1>0. TypeOK' /\ TypeOK
  BY TypeStep DEF IInv
<1>1. \A n \in Node : epoch[n] \in Nat
  BY <1>0 DEF TypeOK
<1>2. ASSUME NEW n \in Node, NEW ev \in Event, Author(n, ev) PROVE IInv'
  BY <1>0, <1>2, AuthorStep
<1>3. ASSUME NEW n \in Node, NEW evs \in Snapshots, Compact(n, evs) PROVE IInv'
  <2>1. evs \in Seq(Event)
    BY SnapshotsAssumption
  <2> QED BY <1>0, <1>3, <2>1, CompactStep
<1>4. ASSUME NEW n \in Node, SetReadonly(n) PROVE IInv'
  <2>1. UNCHANGED <<log, versions, epoch, net>>
    BY <1>4 DEF SetReadonly
  <2> QED BY <1>0, <1>1, <2>1, SilentStep
<1>5. ASSUME NEW n \in Node, CompactFails(n) PROVE IInv'
  <2>1. UNCHANGED <<log, versions, net>> /\ \A m \in Node : epoch'[m] >= epoch[m]
    BY <1>0, <1>1, <1>5 DEF CompactFails, TypeOK
  <2> QED BY <1>0, <2>1, SilentStep
<1>6. ASSUME NEW n \in Node, Restart(n) PROVE IInv'
  BY <1>0, <1>6, RestartStep
<1>7. ASSUME NEW l \in Links, Connect(l) \/ Disconnect(l) PROVE IInv'
  <2>1. UNCHANGED <<log, versions, epoch>> /\ net' \subseteq net
    BY <1>7 DEF Connect, Disconnect, Surviving
  <2> QED BY <1>0, <1>1, <2>1, SilentStep
<1>8. ASSUME NEW n \in Node, NEW p \in Node, SendDigest(n, p) PROVE IInv'
  <2>1. UNCHANGED <<log, versions, epoch, net>>
    BY <1>8 DEF SendDigest
  <2> QED BY <1>0, <1>1, <2>1, SilentStep
<1>9. ASSUME NEW d \in dig, AnswerDigest(d) PROVE IInv'
  BY <1>0, <1>9, AnswerStep
<1>10. ASSUME NEW m \in net, Ingest(m) PROVE IInv'
  BY <1>0, <1>10, IngestStep
<1>11. ASSUME NEW m \in net, Lag(m) \/ IngestFails(m) PROVE IInv'
  <2>1. UNCHANGED <<log, versions, epoch>> /\ net' \subseteq net
    BY <1>11 DEF Lag, IngestFails
  <2> QED BY <1>0, <1>1, <2>1, SilentStep
<1>12. CASE UNCHANGED <<log, epoch, versions, readonly, up, net, dig, faults>>
  <2>1. UNCHANGED <<log, versions, epoch, net>>
    BY <1>12
  <2> QED BY <1>0, <1>1, <2>1, SilentStep
<1> QED
  BY <1>2, <1>3, <1>4, <1>5, <1>6, <1>7, <1>8, <1>9, <1>10, <1>11, <1>12 DEF Moves, Step, Gossip

\* The rationed steps are among them.
LEMMA NextIsStep ==
    ASSUME IInv, [Next]_vars
    PROVE  Moves /\ ops' \in Nat
<1>1. ops \in Nat
  BY DEF IInv, TypeOK
<1>2. CASE UNCHANGED vars
  BY <1>1, <1>2 DEF vars, Moves
<1>3. CASE Next
  <2>1. Moves
    BY <1>3 DEF Next, Step, Moves
  <2>2. ops' = ops \/ ops' = ops + 1
    BY <1>3 DEF Next, Spend, CompactFails, Restart, Gossip, Connect, Disconnect, SendDigest,
                AnswerDigest, Ingest, Lag, IngestFails
  <2> QED BY <1>1, <2>1, <2>2
<1> QED BY <1>2, <1>3

\* Every step of the specification preserves the invariant.
LEMMA NextInv == IInv /\ [Next]_vars => IInv'
BY NextIsStep, StepInv

\* A digest answer always helps: a node that is behind needs either the entry
\* after its cursor or seq 0 of a newer epoch, and NoGaps says that whoever is
\* ahead holds both.
LEMMA OfferedNow == IInv => AlwaysOffered
<1> SUFFICES ASSUME IInv, NEW m \in Node, NEW n \in Node, NEW o \in Node, Behind(m, n, o)
             PROVE  \E e \in missing_for(log[n], versions[m]) :
                        e.origin = o /\ InOrder(versions[m][o], e)
  BY DEF AlwaysOffered
<1> USE DEF IInv
<1> DEFINE have == versions[m][o]
           goal == versions[n][o]
<1>1. have \in Cursor \cup {None} /\ goal \in Cursor /\ goal # None
  BY DEF TypeOK, VersionVector, Behind
<1>2. ASSUME NEW k \in 0..goal.seq,
             have # None => cursor_newer(have, [epoch |-> goal.epoch, seq |-> k]),
             IF have = None THEN k = 0
             ELSE \/ goal.epoch = have.epoch /\ k = have.seq + 1
                  \/ goal.epoch > have.epoch /\ k = 0
      PROVE  \E e \in missing_for(log[n], versions[m]) :
                 e.origin = o /\ InOrder(versions[m][o], e)
  <2>1. PICK e \in Entries(log[n]) : /\ Global(e)
                                     /\ e.origin = o
                                     /\ e.epoch = goal.epoch
                                     /\ e.seq = k
    BY <1>1 DEF NoGaps
  <2>2. CursorOf(e) = [epoch |-> goal.epoch, seq |-> k]
    BY <2>1 DEF CursorOf
  <2>3. e \in missing_for(log[n], versions[m])
    BY <1>2, <2>1, <2>2 DEF missing_for
  <2>4. InOrder(have, e)
    BY <1>2, <2>1 DEF InOrder
  <2> QED BY <2>1, <2>3, <2>4
<1>3. CASE have = None
  <2>1. 0 \in 0..goal.seq
    BY <1>1 DEF Cursor
  <2> QED BY <1>2, <1>3, <2>1
<1>4. CASE have # None /\ goal.epoch > have.epoch
  <2>1. 0 \in 0..goal.seq /\ cursor_newer(have, [epoch |-> goal.epoch, seq |-> 0])
    BY <1>1, <1>4 DEF Cursor, cursor_newer
  <2> QED BY <1>2, <1>4, <2>1
<1>5. CASE have # None /\ goal.epoch = have.epoch /\ goal.seq > have.seq
  <2>1. /\ have.seq + 1 \in 0..goal.seq
        /\ cursor_newer(have, [epoch |-> goal.epoch, seq |-> have.seq + 1])
    BY <1>1, <1>5 DEF Cursor, cursor_newer
  <2> QED BY <1>2, <1>5, <2>1
<1> QED BY <1>3, <1>4, <1>5 DEF Behind, cursor_newer

-----------------------------------------------------------------------------
(* The order of a log.  It follows from the invariant step by step, but is   *)
(* not a part of it: nothing else rests on it.                               *)

\* What a node authors comes next after its own cursor.
LEMMA AuthoredInOrder ==
    ASSUME IInv, NEW n \in Node, NEW ev \in Event,
           Global(Stamp(n, versions[n], epoch[n], ev))
    PROVE  InOrder(versions[n][n], Stamp(n, versions[n], epoch[n], ev))
<1> DEFINE e == Stamp(n, versions[n], epoch[n], ev)
           c == versions[n][n]
<1>1. versions[n] \in VersionVector /\ epoch[n] \in Nat /\ c \in Cursor \cup {None}
  BY DEF IInv, TypeOK, VersionVector
<1>2. e.epoch = epoch[n] /\ e.seq = next_seq(n, versions[n], epoch[n])
  BY <1>1, StampType DEF Stamp, Global
<1>3. ASSUME c # None PROVE c \in Cursor /\ c.epoch <= epoch[n]
  <2>1. PICK f \in GlobalsOf(log[n], n) : CursorOf(f) = c
    BY <1>3 DEF IInv, CursorIsMax
  <2>2. f.epoch <= epoch[n]
    BY DEF IInv, OwnEpochs, GlobalsOf, OwnEntries
  <2> QED BY <1>1, <1>3, <2>1, <2>2 DEF CursorOf
<1> HIDE DEF e, c
<1>4. InOrder(c, e)
  BY <1>1, <1>2, <1>3 DEF InOrder, next_seq, Cursor, c
<1> QED BY <1>4 DEF c, e

\* An entry in order is newer than every entry of its origin in the log.
LEMMA InOrderIsNewest ==
    ASSUME IInv, NEW n \in Node, NEW e \in LogEntry, Global(e),
           InOrder(versions[n][e.origin], e),
           NEW f \in GlobalsOf(log[n], e.origin)
    PROVE  cursor_newer(CursorOf(f), CursorOf(e))
<1> DEFINE c == versions[n][e.origin]
<1>1. e.origin \in Node /\ f \in LogEntry
  BY EntriesType DEF IInv, TypeOK, GlobalsOf, LogEntry
<1>2. c \in Cursor \cup {None}
  BY <1>1 DEF IInv, TypeOK, VersionVector
<1>3. c # None /\ ~cursor_newer(c, CursorOf(f))
  BY <1>1 DEF IInv, CursorIsMax
<1> HIDE DEF c
<1>4. InOrder(c, e)
  BY DEF c
<1> QED BY <1>1, <1>2, <1>3, <1>4 DEF InOrder, cursor_newer, CursorOf, Cursor, LogEntry

\* Appending an entry in order, or a Local one, keeps the order.
LEMMA OrderAppend ==
    ASSUME IInv, LogInOrder, NEW n \in Node, NEW e \in LogEntry,
           log' = [log EXCEPT ![n] = @ \o <<e>>],
           Global(e) => InOrder(versions[n][e.origin], e)
    PROVE  LogInOrder'
<1>1. log \in [Node -> Seq(LogEntry)]
  BY DEF IInv, TypeOK
<1> DEFINE old == log[n]
           new == log'[n]
<1>2. /\ old \in Seq(LogEntry) /\ Len(old) \in Nat /\ DOMAIN old = 1..Len(old)
      /\ new = old \o <<e>> /\ DOMAIN new = 1..(Len(old) + 1)
      /\ \A i \in 1..Len(old) : new[i] = old[i]
      /\ new[Len(old) + 1] = e
  BY <1>1
<1> HIDE DEF old, new
<1>3. ASSUME NEW i \in DOMAIN new, NEW j \in DOMAIN new, i < j,
             Global(new[i]), Global(new[j]), new[i].origin = new[j].origin
      PROVE  cursor_newer(CursorOf(new[i]), CursorOf(new[j]))
  <2>1. i \in 1..Len(old) /\ new[i] = old[i]
    BY <1>2, <1>3
  <2>2. CASE j \in 1..Len(old)
    <3>1. new[j] = old[j] /\ j \in DOMAIN log[n] /\ i \in DOMAIN log[n]
      BY <1>2, <2>1, <2>2 DEF old
    <3> QED BY <1>3, <2>1, <3>1 DEF LogInOrder, old
  <2>3. CASE j = Len(old) + 1
    <3>1. new[j] = e
      BY <1>2, <2>3
    <3>2. old[i] \in GlobalsOf(log[n], e.origin)
      BY <1>2, <1>3, <2>1, <3>1 DEF GlobalsOf, Entries, old
    <3> QED BY <1>3, <2>1, <3>1, <3>2, InOrderIsNewest
  <2> QED BY <1>2, <2>2, <2>3
<1>4. ASSUME NEW m \in Node, NEW i \in DOMAIN log'[m], NEW j \in DOMAIN log'[m], i < j,
             Global(log'[m][i]), Global(log'[m][j]), log'[m][i].origin = log'[m][j].origin
      PROVE  cursor_newer(CursorOf(log'[m][i]), CursorOf(log'[m][j]))
  <2>1. CASE m = n
    BY <1>3, <1>4, <2>1 DEF new
  <2>2. CASE m # n
    <3>1. log'[m] = log[m]
      BY <1>1, <2>2
    <3> QED BY <1>4, <3>1 DEF LogInOrder
  <2> QED BY <2>1, <2>2
<1> QED BY <1>4 DEF LogInOrder

\* A compaction numbers the Global events in the order it writes them.
LEMMA OrderCompact ==
    ASSUME IInv, LogInOrder, NEW n \in Node, NEW evs \in Seq(Event), Compact(n, evs)
    PROVE  LogInOrder'
<1> DEFINE cl == CompactedLog(n, epoch[n] + 1, evs)
<1>1. log' = [log EXCEPT ![n] = cl] /\ log \in [Node -> Seq(LogEntry)]
  BY DEF Compact, IInv, TypeOK
<1>2. DOMAIN cl = 1..Len(evs) /\ Len(evs) \in Nat
  BY DEF CompactedLog
<1>3. \A i \in 1..Len(evs) :
         /\ cl[i].epoch = epoch[n] + 1
         /\ cl[i].event = evs[i]
         /\ evs[i] \in GlobalEvent => cl[i].seq = GlobalsBefore(evs, i)
  BY DEF CompactedLog
<1> HIDE DEF cl
<1>4. ASSUME NEW i \in DOMAIN cl, NEW j \in DOMAIN cl, i < j, Global(cl[i]), Global(cl[j])
      PROVE  cursor_newer(CursorOf(cl[i]), CursorOf(cl[j]))
  <2>1. /\ i \in 1..Len(evs) /\ j \in 1..Len(evs) /\ j \in 1..(Len(evs) + 1)
        /\ evs[i] \in GlobalEvent /\ evs[j] \in GlobalEvent
    BY <1>2, <1>3, <1>4 DEF Global
  <2>2. GlobalsBefore(evs, i) < GlobalsBefore(evs, j)
    BY <1>4, <2>1, GlobalsBeforeStrict
  <2> QED BY <1>3, <2>1, <2>2 DEF cursor_newer, CursorOf
<1>5. \A m \in Node : m # n => log'[m] = log[m]
  BY <1>1
<1>6. log'[n] = cl
  BY <1>1
<1> QED BY <1>4, <1>5, <1>6 DEF LogInOrder

\* Every step keeps every log in order.
LEMMA OrderStep ==
    ASSUME IInv, LogInOrder, Moves
    PROVE  LogInOrder'
<1>1. ASSUME NEW n \in Node, NEW ev \in Event, Author(n, ev) PROVE LogInOrder'
  <2> DEFINE e == Stamp(n, versions[n], epoch[n], ev)
  <2>1. e \in LogEntry /\ e.origin = n
    BY StampType DEF IInv, TypeOK
  <2>2. log' = [log EXCEPT ![n] = @ \o <<e>>]
    BY <1>1 DEF Author
  <2>3. Global(e) => InOrder(versions[n][n], e)
    BY AuthoredInOrder
  <2> HIDE DEF e
  <2> QED BY <2>1, <2>2, <2>3, OrderAppend
<1>2. ASSUME NEW n \in Node, NEW evs \in Snapshots, Compact(n, evs) PROVE LogInOrder'
  BY <1>2, SnapshotsAssumption, OrderCompact
<1>3. ASSUME NEW m \in net, Ingest(m) PROVE LogInOrder'
  <2>1. m.dst \in Node /\ m.entry \in LogEntry
    BY DEF IInv, TypeOK, EntryMsg
  <2>2. CASE accept(versions[m.dst], Trust[m.dst], m.entry)
    <3>1. log' = [log EXCEPT ![m.dst] = @ \o <<m.entry>>]
      BY <1>3, <2>2 DEF Ingest
    <3>2. InOrder(versions[m.dst][m.entry.origin], m.entry)
      BY <2>2 DEF accept
    <3> QED BY <2>1, <3>1, <3>2, OrderAppend
  <2>3. CASE ~accept(versions[m.dst], Trust[m.dst], m.entry)
    BY <1>3, <2>3 DEF Ingest, LogInOrder
  <2> QED BY <2>2, <2>3
<1>4. CASE UNCHANGED log
  BY <1>4 DEF LogInOrder
<1>5. ASSUME Step,
             ~\E n \in Node, ev \in Event : Author(n, ev),
             ~\E n \in Node, evs \in Snapshots : Compact(n, evs),
             ~\E m \in net : Ingest(m)
      PROVE  UNCHANGED log
  BY <1>5 DEF Step, Gossip, SetReadonly, CompactFails, Restart, Connect, Disconnect,
              SendDigest, AnswerDigest, Lag, IngestFails
<1> QED BY <1>1, <1>2, <1>3, <1>4, <1>5 DEF Moves

-----------------------------------------------------------------------------
(* The theorems. *)

\* The inductive invariant holds in every reachable state.
THEOREM Invariance == Spec => []IInv
BY InitInv, NextInv, PTL DEF Spec

\* Type correctness of the logs, the version vectors and the sessions.
THEOREM TypeCorrect == Spec => []TypeOK
<1>1. IInv => TypeOK
  BY DEF IInv
<1> QED BY <1>1, Invariance, PTL

\* (origin, epoch, seq) names one event in the whole mesh, whatever restarts,
\* compactions and failed compactions its author went through.
THEOREM IdsUnique == Spec => []UniqueIds
<1>1. IInv => UniqueIds
  BY DEF IInv
<1> QED BY <1>1, Invariance, PTL

\* The version vector never advances past a gap.
THEOREM GapFree == Spec => []NoGaps
<1>1. IInv => NoGaps
  BY DEF IInv
<1> QED BY <1>1, Invariance, PTL

\* Within one log an origin's entries stand in increasing order: none is applied
\* twice, late or after it has been superseded (mod.rs, ingest).
THEOREM LogsInOrder == Spec => []LogInOrder
<1>1. Init => LogInOrder
  BY DEF Init, LogInOrder
<1>2. IInv /\ LogInOrder /\ [Next]_vars => LogInOrder'
  BY NextIsStep, OrderStep
<1> QED BY <1>1, <1>2, Invariance, PTL DEF Spec

\* `open` recovers exactly the version vector the node had in memory.
THEOREM VectorDurable == Spec => []VectorSurvivesRestart
<1>1. IInv => VectorSurvivesRestart
  BY AbsorbedIsCursor DEF IInv, VectorSurvivesRestart
<1> QED BY <1>1, Invariance, PTL

\* A node that is behind a peer is offered an entry it accepts.
THEOREM NeverStuck == Spec => []AlwaysOffered
BY OfferedNow, Invariance, PTL

\* Local events are on their author's node and nowhere else.
THEOREM LocalOnly == Spec => []LocalStaysLocal
<1>1. IInv => LocalStaysLocal
  BY DEF IInv
<1> QED BY <1>1, Invariance, PTL
=============================================================================
