--------------------------- MODULE SharedCluster ---------------------------
(***************************************************************************)
(* Authenticated connections of several tenants in front of one cluster.   *)
(* Each handler rewrites a request and writes it upstream (Forward), the   *)
(* broker executes it on the shared state (Execute), and the handler reads *)
(* the response, rewrites it and answers the client (Reply).  Connections  *)
(* interleave; each has one request in flight, as conn.serve does.         *)
(*                                                                         *)
(* The cluster also holds topics and groups that belong to no tenant.      *)
(***************************************************************************)
EXTENDS TenantViews

CONSTANTS Conn, Tenant, Owner, Requests,
          TopicPrefix,  \* TopicPrefix[t]: the tenant's prefix
          Foreign       \* cluster-space names outside every tenant's slice

UsedNames == UNION {r.topics \cup r.groups \cup r.txns \cup r.forgotten \cup r.keys : r \in Requests}

\* Every connection has a tenant, and a foreign name is in nobody's slice.
ASSUME OwnerAssumption ==
    /\ Owner \in [Conn -> Tenant]
    /\ \A t \in Tenant, n \in Foreign : ~HasPrefix(n, TopicPrefix[t])

\* What isolation rests on and nothing in the code enforces: no prefix starts
\* another, and no name is empty.
SlicesAreApart ==
    /\ \A t, u \in Tenant : t # u => Incomparable(TopicPrefix[t], TopicPrefix[u])
    /\ << >> \notin UsedNames

VARIABLES cluster,    \* the shared cluster
          request,    \* request[c]: what the client sent
          sent,       \* sent[c]: what the handler wrote upstream
          response    \* response[c]: the broker's response

vars == <<cluster, request, sent, response>>

Nothing == [api |-> "nothing"]
Prefix(c) == TopicPrefix[Owner[c]]

Init ==
    /\ cluster = [topics |-> [n \in Foreign |-> "empty"], groups |-> [n \in Foreign |-> NoGroup],
                  txns |-> << >>, brokers |-> {"broker1", "broker2"}, leader |-> "broker2"]
    /\ request = [c \in Conn |-> Nothing]
    /\ sent = [c \in Conn |-> Nothing]
    /\ response = [c \in Conn |-> Nothing]

\* The first half of a rewrite handler: decode, rewrite, write upstream.
Forward(c) ==
    /\ request[c] = Nothing
    /\ \E r \in Requests :
           /\ request' = [request EXCEPT ![c] = r]
           /\ sent' = [sent EXCEPT ![c] = RequestIn(Prefix(c), r)]
    /\ UNCHANGED <<cluster, response>>

\* The shared broker.
Execute(c) ==
    /\ sent[c] # Nothing /\ response[c] = Nothing
    /\ response' = [response EXCEPT ![c] = Answer(cluster, sent[c])]
    /\ cluster' = After(cluster, sent[c])
    /\ UNCHANGED <<request, sent>>

\* The client-space form of a response.
Rewritten(c, resp) == ResponseOut(Prefix(c), Advertised, resp)

\* The second half of the handler: read, rewrite, answer the client.
Reply(c) ==
    /\ response[c] # Nothing
    /\ request' = [request EXCEPT ![c] = Nothing]
    /\ sent' = [sent EXCEPT ![c] = Nothing]
    /\ response' = [response EXCEPT ![c] = Nothing]
    /\ UNCHANGED cluster

Next == \E c \in Conn : Forward(c) \/ Execute(c) \/ Reply(c)

Spec == Init /\ [][Next]_vars

\* A broker executes what it gets, and a handler answers.
FairSpec == Spec /\ \A c \in Conn : WF_vars(Execute(c) \/ Reply(c))

-----------------------------------------------------------------------------
\* The cluster as a tenant sees it, and the clusters of DedicatedClusters.

View(t) == TenantView(TopicPrefix[t], cluster)

Dedicated == INSTANCE DedicatedClusters WITH
    cluster  <- [t \in Tenant |-> View(t)],
    request  <- request,
    response <- [c \in Conn |-> IF response[c] = Nothing THEN Nothing
                                ELSE Rewritten(c, response[c])]

\* Behind the proxy every tenant sees a cluster of its own: each connection's
\* requests, interleaved with every other tenant's, have the effect and get the
\* response, names and broker addresses included, that they would have on a
\* dedicated cluster (the handlers of proxy/rewrite*.go and package rewrite).
TenantsHaveDedicatedClusters == Dedicated!Spec

\* What f holds outside the slice of a prefix.
Outside(prefix, f) == Restrict(f, {n \in DOMAIN f : ~HasPrefix(n, prefix)})

\* Nothing outside the slice is created, changed or deleted.
Keeps(prefix) ==
    /\ Outside(prefix, cluster'.topics) = Outside(prefix, cluster.topics)
    /\ Outside(prefix, cluster'.groups) = Outside(prefix, cluster.groups)
    /\ Outside(prefix, cluster'.txns) = Outside(prefix, cluster.txns)

\* A change of the cluster is a request of one connection being executed, and
\* it creates, changes or deletes no topic, group or transaction outside the
\* slice of that connection's tenant: neither another tenant's nor one that
\* belongs to nobody, and not by the offset commits of a transaction either,
\* which are applied when it ends (PrefixIn on every name-bearing field of a
\* request that changes the cluster).
WritesStayInSlice ==
    [][\E c \in Conn : response'[c] # response[c] /\ Keeps(Prefix(c))]_cluster
=============================================================================
