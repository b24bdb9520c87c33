---------------------------- MODULE MCDeadlines ----------------------------
(* Instances of Deadlines for TLC.  The timeouts keep the order of the     *)
(* source: dial < handshake = request < idle.                              *)
EXTENDS Deadlines

AllPaths == {"plain", "relay", "bridge"}
=============================================================================
