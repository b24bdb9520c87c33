----------------------------- MODULE MCSession -----------------------------
(* Instances of Session for TLC.                                           *)
EXTENDS Session, TLC

\* Names: one that begins with a tenant's prefix, one that does not.
MCPrefix == {<< >>, <<"a">>, <<"b">>}
MCName == {<<"a">>, <<"x", "y">>}

\* Each tenant has an account of its own at the cluster.
MCAccounts == {<<"k1", "a", "pa">>, <<"k1", "b", "pb">>}
MCBrokerMechanisms == {<<"k1", "PLAIN">>, <<"k1", "SCRAM-SHA-256">>}

\* The smaller instances: one tenant.
MCPrefixOne == {<< >>, <<"a">>}
MCNameOne == {<<"a">>}
MCScramOnly == {<<"k1", "SCRAM-SHA-256">>}
=============================================================================
