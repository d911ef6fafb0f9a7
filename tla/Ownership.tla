------------------------------ MODULE Ownership ------------------------------
(***************************************************************************)
(* What the nodes promise about who owns a name, for as long as nobody     *)
(* drops one: a name is registered on a node where it is free, every other *)
(* node may learn of that claim at any time and in any order, and whoever  *)
(* holds the name gives way to an earlier claim, to no other and for no    *)
(* other reason.  Federation implements this with logs, gossip,            *)
(* compactions and conflict resolution; here they do not exist.            *)
(***************************************************************************)
EXTENDS Naturals

CONSTANTS Node, Name, Time, None     \* nodes and times are numbers

VARIABLES
    owner,     \* owner[n][a]: the claim that n takes to own a, or None
    claims     \* claims[a]: the claims to a that may still be learnt

vars == <<owner, claims>>

Claim == [ts : Time, home : Node]

\* The earlier claim wins; a tie goes to the lower node.
Earlier(c, d) == c.ts < d.ts \/ (c.ts = d.ts /\ c.home < d.home)

Init ==
    /\ owner = [n \in Node |-> [a \in Name |-> None]]
    /\ claims = [a \in Name |-> {}]

\* What may still be learnt of a name: nothing made up, all that somebody
\* holds; a claim that lost everywhere may be forgotten.
Claimed(a, new) ==
    /\ claims'[a] \subseteq claims[a] \cup new
    /\ \A n \in Node : owner'[n][a] # None => owner'[n][a] \in claims'[a]

Register(n, a, c) ==
    /\ owner[n][a] = None
    /\ c.home = n
    /\ owner' = [owner EXCEPT ![n][a] = c]
    /\ \A b \in Name : Claimed(b, IF b = a THEN {c} ELSE {})

Learn(n, a, c) ==
    /\ c \in claims[a]
    /\ owner[n][a] # None => Earlier(c, owner[n][a])
    /\ owner' = [owner EXCEPT ![n][a] = c]
    /\ \A b \in Name : Claimed(b, {})

Forget == UNCHANGED owner /\ \A a \in Name : Claimed(a, {})

Next ==
    /\ claims' \in [Name -> SUBSET Claim]
    /\ \/ \E n \in Node, a \in Name, c \in Claim : Register(n, a, c) \/ Learn(n, a, c)
       \/ Forget

Spec == Init /\ [][Next]_vars

-----------------------------------------------------------------------------
TypeOK ==
    /\ owner \in [Node -> [Name -> Claim \cup {None}]]
    /\ claims \in [Name -> SUBSET Claim]

\* Everybody holds the name, and nothing is left to learn that would change it.
Settled(a) ==
    \A n \in Node : owner[n][a] # None /\ \A c \in claims[a] : ~Earlier(c, owner[n][a])

\* Nodes that have nothing left to learn of a name name the same owner.
OwnersAgree == \A a \in Name : Settled(a) => \A m, n \in Node : owner[m][a] = owner[n][a]

\* A held name changes hands only to an earlier claim, and is never lost.
OwnerOnlyImproves ==
    \A n \in Node, a \in Name :
        owner[n][a] # None =>
            \/ owner'[n][a] = owner[n][a]
            \/ owner'[n][a] # None /\ Earlier(owner'[n][a], owner[n][a])
=============================================================================
