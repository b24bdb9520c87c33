----------------------------- MODULE MCListener -----------------------------
(* Instances of Listener for TLC: two clients, three back-off delays.      *)
EXTENDS Listener

CONSTANTS c1, c2

TwoClients == {c1, c2}
=============================================================================
