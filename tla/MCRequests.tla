----------------------------- MODULE MCRequests -----------------------------
(* What the instances of SharedCluster have in common: two tenants with    *)
(* one connection each, and the blank form of a request.                   *)
EXTENDS SharedCluster

MCTenant == {"t1", "t2"}
MCConn == {"c1", "c2"}
MCOwner == [c \in MCConn |-> IF c = "c1" THEN "t1" ELSE "t2"]
MCForeign == {<<"x">>}

X == <<"x">>
A == <<"a">>

Base(api) ==
    [api |-> api, topics |-> {}, groups |-> {}, txns |-> {}, keys |-> {}, forgotten |-> {},
     all |-> FALSE, kind |-> "none", type |-> "nil", old |-> FALSE, blob |-> NoBlob,
     value |-> "none"]
=============================================================================
