------------------------------- MODULE MCLogin -------------------------------
(* Small instances of Login for TLC. *)
EXTENDS Login, TLC

MCSymmetry == Permutations(Uid) \cup Permutations(Cred)

\* What IRC users and operators ask for, with the website beside them.
MCCommands == {"register", "grpc_register", "defcon", "identify", "password",
               "logout", "drop", "suspend", "quit"}

\* Every SASL mechanism, reset codes and the website's calls, with accounts
\* suspended, dropped and logged out from outside the link; no IDENTIFY, which
\* a suspension from outside may overtake.
MCOutside == {"relay_register", "PLAIN", "SCRAM", "EXTERNAL", "ECDSA", "keycard", "reset",
              "grpc_password", "grpc_authenticate", "suspend", "gossip_suspend",
              "gone", "expire", "force_logout", "vanish"}

\* An IDENTIFY while the account is taken away from outside the link.
MCLateLogin == {"register", "logout", "identify", "gone"}
=============================================================================
