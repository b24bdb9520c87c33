----------------------------- MODULE MCOverlap -----------------------------
(***************************************************************************)
(* An instance of SharedCluster in which SlicesAreApart fails, in a way    *)
(* that the catalogue lets through: one prefix starts the other.           *)
(***************************************************************************)
EXTENDS MCRequests

MCNested == [t \in MCTenant |-> IF t = "t1" THEN <<"a">> ELSE <<"a", "b">>]
MCNestedRequests ==
    {[Base("CreateTopics") EXCEPT !.topics = {X}], [Base("Metadata") EXCEPT !.all = TRUE]}
=============================================================================
