------------------------------- MODULE MCNicks -------------------------------
(* A small instance of Nicks for TLC: two users, two accounts with a nick  *)
(* each, one nick nobody registered.                                       *)
EXTENDS Nicks

CONSTANTS n1, n2, a1, a2

MCOwner == [n \in RegNick |-> IF n = n1 THEN a1 ELSE a2]
=============================================================================
