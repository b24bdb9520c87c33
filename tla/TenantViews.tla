---------------------------- MODULE TenantViews ----------------------------
(***************************************************************************)
(* A cluster as a tenant sees it through the proxy: the state half of the  *)
(* refinement mapping from SharedCluster to DedicatedClusters, and the     *)
(* requests for which the mapping holds.                                   *)
(***************************************************************************)
EXTENDS Cluster, Rewrite

CONSTANT Advertised     \* the proxy's advertised address

\* The tenant's slice of the shared cluster, in tenant-space names: what it
\* can name, the empty name (which PrefixIn leaves alone) included.

Slice(prefix, f, see(_)) ==
    LET owned == {n \in DOMAIN f : BelongsToTenant(prefix, n) \/ n = << >>}
    IN  [n \in StripAll(prefix, owned) |-> see(f[PrefixIn(prefix, n)])]

SeenGroup(prefix, g) ==
    [type |-> g.type,
     sub |-> IF MaybeConsumer(g.type) THEN stripBlob(prefix, g.sub) ELSE g.sub,
     asg |-> IF MaybeConsumer(g.type) THEN stripBlob(prefix, g.asg) ELSE g.asg,
     offsets |-> Slice(prefix, g.offsets, LAMBDA v : v)]

SeenCommit(prefix, c) ==
    [group |-> StripOut(prefix, c.group), topic |-> StripOut(prefix, c.topic), value |-> c.value]
SeenTxn(prefix, x) ==
    [topics |-> StripAll(prefix, x.topics),
     groups |-> StripAll(prefix, x.groups),
     commits |-> {SeenCommit(prefix, c) : c \in x.commits}]

TenantView(prefix, k) ==
    [topics |-> Slice(prefix, k.topics, LAMBDA v : v),
     groups |-> Slice(prefix, k.groups, LAMBDA g : SeenGroup(prefix, g)),
     txns |-> Slice(prefix, k.txns, LAMBDA x : SeenTxn(prefix, x)),
     brokers |-> {Advertised}, leader |-> Advertised]

\* The requests for which the handlers promise a cluster of one's own: an EndTxn
\* ends one transaction, a member's subscription has the format of its protocol
\* type, a coordinator is that of a group or a transaction, and a produce has no
\* transactional id (ProduceRequestIn leaves it alone).
Regular(req) ==
    /\ req.api = "EndTxn" => \A x, y \in req.txns : x = y
    /\ req.api = "JoinGroup" => req.blob.fmt = Format(req.type)
    /\ req.api = "FindCoordinator" => req.kind \in CoordinatorType
    /\ req.api = "Produce" => req.txns = {}
=============================================================================
