-------------------------------- MODULE MCLive --------------------------------
(* A small instance for TLC of what the engine watches as it happens.      *)
EXTENDS Live, TLC

CONSTANTS u1, u2

MCSymmetry == Permutations({u1, u2})

MCMaxNow == [settings |-> 1, kickers |-> 4, security |-> 2, limits |-> 6]
MCMaxOps == [settings |-> 3, kickers |-> 4, locks |-> 3, security |-> 3, limits |-> 5]

\* Two of three speakers share a host, and a third has one to himself.
Kickers_Host == [alice |-> "h1", bob |-> "h1", carol |-> "h2"]
Kickers_Nick == [alice |-> "n1", bob |-> "n2", carol |-> "n3"]

\* Everything twice, or the changes of rights that cross once more.
Status_Plans ==
    { [asks |-> {"register", "drop", "up", "down", "enforce", "+o", "-o", "+v", "-v", "kick", "ban", "unban"},
       ops  |-> 2],
      [asks |-> {"register", "+o"}, ops |-> 3] }

\* Two users in one subnet, on addresses of their own.
Security_Ip == [u \in {u1, u2} |-> u]
Security_Subnet == [u \in {u1, u2} |-> "s1"]
=============================================================================
