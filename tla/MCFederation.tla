---------------------------- MODULE MCFederation ----------------------------
(* Small instances of Federation for TLC, on two nodes.  A behaviour is of *)
(* one scene: it exercises the operations that the scene's question is     *)
(* about, on the nodes that its sites name for them, within its bounds.    *)
EXTENDS Federation, FiniteSets, TLC

CONSTANTS
    Scenes,        \* the instances a run looks at
    a1, a2         \* two accounts

MCMesh == {Node}
MCTrustAll == [n \in Node |-> Node]
MCSymmetry == Permutations({a1, a2})

Everything == {"register", "password", "login", "channel", "successor",
               "drop", "readonly", "compact", "crash"}

\* The operations in `where` on the nodes it names, no other anywhere.
SitesOf(where) == [op \in Everything |-> IF op \in DOMAIN where THEN where[op] ELSE {}]

(* What each scene exercises, and its bounds: commands, faults, digests,   *)
(* names, times of registration, passwords.                                *)

\* Accounts live on node 1, the channels they found on node 2.
Channels ==
    [sites |-> SitesOf([register |-> {1}, drop |-> {1, 2}, login |-> {2},
                        channel |-> {2}, successor |-> {2}]),
     ops |-> 6, faults |-> 1, digests |-> 0, names |-> {a1, a2}, times |-> {1}, creds |-> {"p1"}]

\* One account and its channel, with both nodes compacting and a crash of one.
\* Where only a1 is ever registered there is nothing to permute.
Restarts ==
    [sites |-> SitesOf([register |-> {1, 2}, password |-> {1}, drop |-> {1}, login |-> {2},
                        channel |-> {1}, readonly |-> {1}, compact |-> {1, 2}, crash |-> {1}]),
     ops |-> 3, faults |-> 1, digests |-> 1, names |-> {a1}, times |-> {1}, creds |-> {"p1", "p2"}]

\* Rival registrations of one name, a lost session, compactions; never a drop.
Rivals ==
    [sites |-> SitesOf([register |-> {1, 2}, compact |-> {1}]),
     ops |-> 3, faults |-> 1, digests |-> 1, names |-> {a1}, times |-> {1, 2}, creds |-> {"p1"}]

\* Rival registrations of one name, which a loser may drop.
RivalDrop ==
    [sites |-> SitesOf([register |-> {1, 2}, login |-> {1, 2}, drop |-> {1, 2}]),
     ops |-> 4, faults |-> 0, digests |-> 1, names |-> {a1}, times |-> {1}, creds |-> {"p1"}]

\* An account of node 1 changes its password on node 2, which then compacts.
StalePassword ==
    [sites |-> SitesOf([register |-> {1}, login |-> {2}, password |-> {2}, compact |-> {2}]),
     ops |-> 4, faults |-> 0, digests |-> 1, names |-> {a1}, times |-> {1}, creds |-> {"p1", "p2"}]

Scene ==
    [channels |-> Channels, restarts |-> Restarts, rivals |-> Rivals,
     rival_drop |-> RivalDrop, stale_password |-> StalePassword]

MCExercises == {Scene[s].sites : s \in Scenes}

Within ==
    \E s \in Scenes :
        LET scene == Scene[s]
        IN  /\ scene.sites = sites
            /\ ops <= scene.ops /\ faults <= scene.faults /\ Cardinality(dig) <= scene.digests
            /\ \A n \in Node, a \in Name :
                 accounts[n][a] # None =>
                   /\ a \in scene.names
                   /\ accounts[n][a].ts \in scene.times
                   /\ accounts[n][a].cred \in scene.creds

MCSpec == Init /\ [][Next /\ UNCHANGED sites /\ Within']_vars
=============================================================================
