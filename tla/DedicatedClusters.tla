------------------------- MODULE DedicatedClusters -------------------------
(***************************************************************************)
(* What the proxy promises: every tenant works against a cluster of its    *)
(* own, with a flat namespace and a single broker, the proxy's advertised  *)
(* address.  Nothing a tenant does can be noticed by another one.          *)
(***************************************************************************)
EXTENDS Cluster

CONSTANTS Conn,       \* client connections
          Tenant,     \* tenant ids
          Owner,      \* the tenant each connection is authenticated as
          Requests,   \* the requests clients send, in tenant-space names
          Advertised  \* the address clients are told to connect to

VARIABLES cluster,    \* cluster[t]: the dedicated cluster of tenant t
          request,    \* request[c]: the request in flight on connection c
          response    \* response[c]: its response

vars == <<cluster, request, response>>

Nothing == [api |-> "nothing"]

Init ==
    /\ cluster = [t \in Tenant |-> EmptyCluster(Advertised)]
    /\ request = [c \in Conn |-> Nothing]
    /\ response = [c \in Conn |-> Nothing]

Send(c) ==
    /\ request[c] = Nothing
    /\ \E r \in Requests : request' = [request EXCEPT ![c] = r]
    /\ UNCHANGED <<cluster, response>>

Execute(c) ==
    /\ request[c] # Nothing /\ response[c] = Nothing
    /\ response' = [response EXCEPT ![c] = Answer(cluster[Owner[c]], request[c])]
    /\ cluster' = [cluster EXCEPT ![Owner[c]] = After(@, request[c])]
    /\ UNCHANGED request

Receive(c) ==
    /\ response[c] # Nothing
    /\ request' = [request EXCEPT ![c] = Nothing]
    /\ response' = [response EXCEPT ![c] = Nothing]
    /\ UNCHANGED cluster

Next == \E c \in Conn : Send(c) \/ Execute(c) \/ Receive(c)

Spec == Init /\ [][Next]_vars
=============================================================================
