---------------------------- MODULE MCReplication ----------------------------
(* Small instances of Replication for TLC. *)
EXTENDS Replication, TLC

CONSTANTS n1, n2, g1, g2, l1

\* Every pair of nodes gossips.
MCMesh == {{m, n} : <<m, n>> \in {p \in Node \X Node : p[1] # p[2]}}

MCTrustAll == [n \in Node |-> Node]

\* What a compaction may write: local events only, or global ones before them.
MCSnapshots == {<<l1>>, <<g2, l1>>}
MCSmallSnapshots == {<<l1>>, <<g1>>}

\* Nodes and events are interchangeable (MCMesh treats all pairs alike).
MCSymmetry == Permutations({n1, n2})
=============================================================================
