------------------------------ MODULE Cluster ------------------------------
(***************************************************************************)
(* A Kafka cluster, as far as the proxy's rewriting can tell one cluster   *)
(* from another.  It is not part of the repository: the operators say what *)
(* a broker does with each request the handlers forward, on names taken    *)
(* literally.  The same operators serve the shared cluster behind the      *)
(* proxy and the dedicated cluster a tenant believes it has.               *)
(*                                                                         *)
(* A cluster k is a record: topics maps an existing topic to its last      *)
(* record; groups maps a group to its protocol type, its member's          *)
(* subscription and assignment and its committed offsets; txns maps a      *)
(* transactional id to its open transaction; brokers are the addresses of  *)
(* its nodes and leader is the one that leads partitions and coordinates.  *)
(***************************************************************************)
EXTENDS Functions

Unknown == "unknown"
NoBlob == [fmt |-> "none", topics |-> {}]
NoGroup == [type |-> "none", sub |-> NoBlob, asg |-> NoBlob, offsets |-> << >>]
NoTxn == [topics |-> {}, groups |-> {}, commits |-> {}]

\* f[x], or d where f is not defined at x.
At(f, x, d) == IF x \in DOMAIN f THEN f[x] ELSE d
Without(f, S) == Restrict(f, DOMAIN f \ S)

\* f, and g where f is not defined.
Over(f, g) == [x \in DOMAIN f \cup DOMAIN g |-> IF x \in DOMAIN f THEN f[x] ELSE g[x]]

EmptyCluster(addr) ==
    [topics |-> << >>, groups |-> << >>, txns |-> << >>, brokers |-> {addr}, leader |-> addr]

TopicState(k, t) == At(k.topics, t, Unknown)
Group(k, g) == At(k.groups, g, NoGroup)
Txn(k, x) == At(k.txns, x, NoTxn)
Joined(k, g) == Group(k, g).type # "none"

\* A member joins with the group's protocol type; the leader syncs with that
\* type, where its version has one, and assignments in the format it implies.
Format(type) == IF type = "consumer" THEN "consumer" ELSE "opaque"
GroupAccepts(k, req, g) ==
    IF req.api = "JoinGroup" THEN Group(k, g).type \in {"none", req.type}
    ELSE /\ Joined(k, g) /\ req.type \in {"nil", Group(k, g).type}
         /\ Format(Group(k, g).type) = req.blob.fmt

\* A produce inside a transaction needs its partitions in that transaction.
MayProduce(k, req) ==
    \A x \in req.txns : x \in DOMAIN k.txns /\ req.topics \subseteq k.txns[x].topics

\* The group with one member, of this type and subscription.
MemberOf(group, type, sub) ==
    [type |-> type, sub |-> sub, asg |-> group.asg, offsets |-> group.offsets]

Committed(group, offsets) == [group EXCEPT !.offsets = Over(offsets, @)]
Commit(group, topics, value) == Committed(group, [t \in topics |-> value])
WithTopics(txn, topics) == [txn EXCEPT !.topics = @ \cup topics]
WithGroups(txn, groups) == [txn EXCEPT !.groups = @ \cup groups]

-----------------------------------------------------------------------------
\* The state of the cluster after req.

SetGroups(k, groups, new(_)) ==
    [k EXCEPT !.groups = Over([g \in groups |-> new(Group(k, g))], @)]
SetTxns(k, txns, new(_)) ==
    [k EXCEPT !.txns = Over([x \in txns |-> new(Txn(k, x))], @)]
OpenTxns(k, req) == req.txns \cap DOMAIN k.txns

\* The offset commits of a transaction: those a TxnOffsetCommit leaves, those it
\* adds, and what they are for one group.
Kept(txn, groups, topics) == {c \in txn.commits : c.group \notin groups \/ c.topic \notin topics}
Added(groups, topics, value) ==
    {[group |-> g, topic |-> t, value |-> value] : g \in groups, t \in topics}
Offsets(commits, g) ==
    [t \in {c.topic : c \in {d \in commits : d.group = g}} |->
        (CHOOSE c \in commits : c.group = g /\ c.topic = t).value]

\* Ending a transaction applies its offset commits, or drops them.
Commits(k, req) ==
    IF req.kind = "commit" THEN UNION {k.txns[x].commits : x \in OpenTxns(k, req)} ELSE {}
Apply(k, commits) ==
    [k EXCEPT !.groups =
        Over([g \in {c.group : c \in commits} |-> Committed(Group(k, g), Offsets(commits, g))], @)]
Ended(k, req) ==
    SetTxns(Apply(k, Commits(k, req)), OpenTxns(k, req), LAMBDA x : NoTxn)

After(k, req) ==
    CASE req.api = "CreateTopics" ->
             [k EXCEPT !.topics = Over(@, [t \in req.topics |-> "empty"])]
      [] req.api = "DeleteTopics" ->
             [k EXCEPT !.topics = Without(@, req.topics)]
      [] req.api = "Produce" ->
             IF MayProduce(k, req)
             THEN [k EXCEPT !.topics = Over([t \in req.topics \cap DOMAIN @ |-> req.value], @)]
             ELSE k
      [] req.api = "OffsetCommit" ->
             SetGroups(k, req.groups, LAMBDA g : Commit(g, req.topics, req.value))
      [] req.api = "OffsetDelete" ->
             SetGroups(k, req.groups \cap DOMAIN k.groups,
                       LAMBDA g : [g EXCEPT !.offsets = Without(@, req.topics)])
      [] req.api = "JoinGroup" ->
             SetGroups(k, {g \in req.groups : GroupAccepts(k, req, g)},
                       LAMBDA g : MemberOf(g, req.type, req.blob))
      [] req.api = "SyncGroup" ->
             SetGroups(k, {g \in req.groups : GroupAccepts(k, req, g)},
                       LAMBDA g : [g EXCEPT !.asg = req.blob])
      [] req.api = "LeaveGroup" ->
             SetGroups(k, {g \in req.groups : Joined(k, g)},
                       LAMBDA g : [NoGroup EXCEPT !.offsets = g.offsets])
      [] req.api = "DeleteGroups" ->
             [k EXCEPT !.groups = Without(@, {g \in req.groups : ~Joined(k, g)})]
      [] req.api = "InitProducerID" ->
             SetTxns(k, req.txns, LAMBDA x : NoTxn)
      [] req.api = "AddPartitionsToTxn" ->
             SetTxns(k, OpenTxns(k, req), LAMBDA x : WithTopics(x, req.topics))
      [] req.api = "AddOffsetsToTxn" ->
             SetTxns(k, OpenTxns(k, req), LAMBDA x : WithGroups(x, req.groups))
      [] req.api = "TxnOffsetCommit" ->
             SetTxns(k, {x \in OpenTxns(k, req) : req.groups \subseteq k.txns[x].groups},
                     LAMBDA x : [x EXCEPT !.commits = Kept(x, req.groups, req.topics) \cup
                                                Added(req.groups, req.topics, req.value)])
      [] req.api = "EndTxn" -> Ended(k, req)
      [] OTHER -> k

-----------------------------------------------------------------------------
\* The response to req, arriving in state k.

Answered(req, entries) == [api |-> req.api, entries |-> entries]
TopicEntries(k, req, topics) == {[topic |-> t, value |-> TopicState(k, t)] : t \in topics}

\* The topics of an OffsetFetch: those it lists, or all that have an offset.
FetchedTopics(k, req, g) == IF req.all THEN DOMAIN Group(k, g).offsets ELSE req.topics

Answer(k, req) ==
    CASE req.api \in {"CreateTopics", "DeleteTopics", "Fetch", "ListOffsets"} ->
             Answered(req, TopicEntries(k, req, req.topics))
      [] req.api = "Produce" ->
             Answered(req, {[topic |-> t, value |-> MayProduce(k, req)] : t \in req.topics})
      [] req.api = "Metadata" ->
             [api |-> req.api, brokers |-> k.brokers,
              entries |-> {[topic |-> t, value |-> TopicState(k, t), leader |-> k.leader] :
                              t \in IF req.all THEN DOMAIN k.topics ELSE req.topics}]
      [] req.api = "DescribeConfigs" ->
             Answered(req, {[kind |-> req.kind, key |-> n,
                             value |-> req.kind = "topic" => n \in DOMAIN k.topics] : n \in req.keys})
      [] req.api = "FindCoordinator" ->
             [api |-> req.api, brokers |-> {k.leader}, entries |-> {[key |-> n] : n \in req.keys}]
      [] req.api = "OffsetCommit" ->
             Answered(req, {[topic |-> t] : t \in req.topics})
      [] req.api = "OffsetDelete" ->
             Answered(req, UNION {{[topic |-> t, value |-> t \in DOMAIN Group(k, g).offsets] :
                                      t \in req.topics} : g \in req.groups})
      [] req.api = "OffsetFetch" ->
             Answered(req, UNION {{[group |-> g, topic |-> t,
                                    value |-> At(Group(k, g).offsets, t, Unknown)] :
                                      t \in FetchedTopics(k, req, g)} : g \in req.groups})
      [] req.api \in {"JoinGroup", "SyncGroup"} ->
             LET own(g) == Group(After(k, req), g)
             IN  [api |-> req.api,
                  type |-> IF req.old THEN "nil" ELSE req.type,
                  entries |-> {[blob |-> IF ~GroupAccepts(k, req, g) THEN NoBlob
                                         ELSE IF req.api = "JoinGroup" THEN own(g).sub
                                         ELSE own(g).asg] : g \in req.groups}]
      [] req.api \in {"Heartbeat", "LeaveGroup"} ->
             Answered(req, {[value |-> Joined(k, g)] : g \in req.groups})
      [] req.api = "DescribeGroups" ->
             Answered(req, {[group |-> g, type |-> Group(k, g).type, sub |-> Group(k, g).sub,
                             asg |-> Group(k, g).asg] : g \in req.groups})
      [] req.api = "ListGroups" ->
             Answered(req, {[group |-> g, type |-> k.groups[g].type] : g \in DOMAIN k.groups})
      [] req.api = "DeleteGroups" ->
             Answered(req, {[group |-> g, value |-> g \in DOMAIN k.groups] : g \in req.groups})
      [] req.api = "AddPartitionsToTxn" ->
             Answered(req, {[txn |-> x, topic |-> t, value |-> x \in DOMAIN k.txns] :
                               x \in req.txns, t \in req.topics})
      [] req.api = "TxnOffsetCommit" ->
             Answered(req, {[topic |-> t, value |-> OpenTxns(k, req) = req.txns] : t \in req.topics})
      [] req.api \in {"InitProducerID", "AddOffsetsToTxn", "EndTxn"} ->
             Answered(req, {[value |-> OpenTxns(k, req) = req.txns]})
=============================================================================
