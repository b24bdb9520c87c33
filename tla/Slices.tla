------------------------------- MODULE Slices -------------------------------
\* What a tenant can name in the shared cluster and what it sees there, in the
\* form the proofs of SharedCluster use: by looking up what the tenant can name
\* (See), where SharedCluster strips what it finds (View). The definitions are
\* auxiliary: they model no code of their own.

EXTENDS TenantViews

\* The APIs with which a client changes topics, groups and transactions.  What
\* a TxnOffsetCommit says of its groups reaches them when the transaction ends.
TopicWrites == {"CreateTopics", "DeleteTopics", "Produce"}
GroupWrites == {"OffsetCommit", "OffsetDelete", "JoinGroup", "SyncGroup", "LeaveGroup",
                "DeleteGroups", "TxnOffsetCommit"}
TxnWrites == {"InitProducerID", "AddPartitionsToTxn", "AddOffsetsToTxn", "TxnOffsetCommit",
              "EndTxn"}

\* PrefixIn and StripOut do on these names what the handlers rely on.
Rewrites(name, p) ==
    \A m \in name : /\ StripOut(p, PrefixIn(p, m)) = m
                    /\ BelongsToTenant(p, PrefixIn(p, m))
                    /\ PrefixIn(p, m) # << >>

\* The keys of f that are in the slice are names the tenant can spell.
Own(name, p, f) ==
    \A n \in DOMAIN f : BelongsToTenant(p, n) \/ n = << >> => n \in PrefixAll(p, name)

\* The tenant's names for the keys of f in its slice.
Seen(name, p, f) == {m \in name : PrefixIn(p, m) \in DOMAIN f}

\* A map from names to values without names, as the tenant sees it.
SeeTopics(name, p, f) == [m \in Seen(name, p, f) |-> f[PrefixIn(p, m)]]

\* A member's metadata or assignment in the tenant's names, where it has any.
SeeBlob(p, type, b) == IF MaybeConsumer(type) THEN stripBlob(p, b) ELSE b

\* A group in the tenant's names.
SeeGroup(name, p, g) ==
    [type |-> g.type, sub |-> SeeBlob(p, g.type, g.sub), asg |-> SeeBlob(p, g.type, g.asg),
     offsets |-> SeeTopics(name, p, g.offsets)]

\* The groups of the slice.
SeeGroups(name, p, f) == [m \in Seen(name, p, f) |-> SeeGroup(name, p, f[PrefixIn(p, m)])]

\* The transactions of the slice.
SeeTxns(name, p, f) == [m \in Seen(name, p, f) |-> SeenTxn(p, f[PrefixIn(p, m)])]

\* The view of a tenant (TenantView), by the names it can spell.
See(name, p, k) ==
    [topics |-> SeeTopics(name, p, k.topics), groups |-> SeeGroups(name, p, k.groups),
     txns |-> SeeTxns(name, p, k.txns), brokers |-> {Advertised}, leader |-> Advertised]

\* A group of the slice has offsets for topics of the slice only, and the
\* consumer format in a consumer group only.
GroupOK(name, p, g) ==
    /\ {"type", "sub", "asg", "offsets"} \subseteq DOMAIN g
    /\ DOMAIN g.offsets \subseteq PrefixAll(p, name)
    /\ g.sub.fmt = "consumer" => g.type = "consumer"
    /\ g.asg.fmt = "consumer" => g.type = "consumer"

\* A pending offset commit is within the slice.
CommitOK(name, p, c) ==
    /\ {"group", "topic", "value"} \subseteq DOMAIN c
    /\ c.group \in PrefixAll(p, name) /\ c.topic \in PrefixAll(p, name)

\* The pending commits are within the slice, at most one for a group and a
\* topic.
CommitsOK(name, p, C) ==
    /\ \A c \in C : CommitOK(name, p, c)
    /\ \A c, d \in C : c.group = d.group /\ c.topic = d.topic => c = d

\* A transaction of the slice names only what is in the slice.
TxnOK(name, p, x) ==
    /\ {"topics", "groups", "commits"} \subseteq DOMAIN x
    /\ x.topics \subseteq PrefixAll(p, name) /\ x.groups \subseteq PrefixAll(p, name)
    /\ CommitsOK(name, p, x.commits)

\* The fields of a cluster that the requests change.
IsCluster(k) == {"topics", "groups", "txns"} \subseteq DOMAIN k

\* Everything in a tenant's slice is in order: this is what makes the tenant's
\* view a cluster of its own.
SliceOK(name, p, k) ==
    /\ IsCluster(k)
    /\ Own(name, p, k.topics) /\ Own(name, p, k.groups) /\ Own(name, p, k.txns)
    /\ \A m \in Seen(name, p, k.groups) : GroupOK(name, p, k.groups[PrefixIn(p, m)])
    /\ \A m \in Seen(name, p, k.txns) : TxnOK(name, p, k.txns[PrefixIn(p, m)])

\* The requests that name topics, groups, transactional ids.
TopicNaming == {"Metadata", "Produce", "Fetch", "ListOffsets", "CreateTopics", "DeleteTopics",
                "OffsetCommit", "OffsetFetch", "OffsetDelete", "AddPartitionsToTxn",
                "TxnOffsetCommit"}

GroupNaming == {"OffsetCommit", "OffsetFetch", "OffsetDelete", "JoinGroup", "SyncGroup",
                "Heartbeat", "LeaveGroup", "DescribeGroups", "DeleteGroups", "AddOffsetsToTxn",
                "TxnOffsetCommit"}

TxnNaming == {"InitProducerID", "AddPartitionsToTxn", "AddOffsetsToTxn", "EndTxn",
              "TxnOffsetCommit"}

\* What a handler forwards for r.
Forwarded(p, r, s) ==
    /\ s.api = r.api /\ s.value = r.value /\ s.kind = r.kind /\ s.type = r.type
    /\ s.all = r.all /\ s.old = r.old
    /\ r.api \in TopicNaming => s.topics = PrefixAll(p, r.topics)
    /\ r.api \in GroupNaming => s.groups = PrefixAll(p, r.groups)
    /\ r.api \in TxnNaming => s.txns = PrefixAll(p, r.txns)
    /\ r.api = "Produce" => s.txns = r.txns
    /\ r.api = "DescribeConfigs" =>
           s.keys = IF r.kind \in TenantResource THEN PrefixAll(p, r.keys) ELSE r.keys
    /\ r.api = "FindCoordinator" =>
           s.keys = IF r.kind \in CoordinatorType THEN PrefixAll(p, r.keys) ELSE r.keys
    /\ r.api = "JoinGroup" =>
           s.blob = IF r.type = "consumer" THEN prefixBlob(p, r.blob) ELSE r.blob
    /\ r.api = "SyncGroup" =>
           s.blob = IF MaybeConsumer(r.type) THEN prefixBlob(p, r.blob) ELSE r.blob

\* The tenant's names are the only ones that appear.
Grows(name, p, k, n) ==
    /\ DOMAIN n.topics \subseteq DOMAIN k.topics \cup PrefixAll(p, name)
    /\ DOMAIN n.groups \subseteq DOMAIN k.groups \cup PrefixAll(p, name)
    /\ DOMAIN n.txns \subseteq DOMAIN k.txns \cup PrefixAll(p, name)

\* The shared cluster after s looks to the tenant as its own would after r.
SameState(name, p, k, s, r) ==
    /\ See(name, p, After(k, s)) = After(See(name, p, k), r)
    /\ SliceOK(name, p, After(k, s))
    /\ Grows(name, p, k, After(k, s))

\* The tenant reads the answer of its own cluster.
SameAnswer(name, p, k, s, r) ==
    ResponseOut(p, Advertised, Answer(k, s)) = Answer(See(name, p, k), r)

\* Functions on the tenant's names and on the prefixed ones that agree.
GroupsMatch(name, p, g, h) ==
    /\ DOMAIN g \subseteq name /\ DOMAIN h = PrefixAll(p, DOMAIN g)
    /\ \A m \in DOMAIN g : /\ g[m] = SeeGroup(name, p, h[PrefixIn(p, m)])
                           /\ GroupOK(name, p, h[PrefixIn(p, m)])

\* e sets transactions of the slice to what the tenant sees as d.
TxnsMatch(name, p, d, e) ==
    /\ DOMAIN d \subseteq name /\ DOMAIN e = PrefixAll(p, DOMAIN d)
    /\ \A m \in DOMAIN d : /\ d[m] = SeenTxn(p, e[PrefixIn(p, m)])
                           /\ TxnOK(name, p, e[PrefixIn(p, m)])

\* Two maps are the same to the tenant of prefix q.
SameMap(name, q, f, g) ==
    /\ Own(name, q, g)
    /\ \A m \in name : /\ PrefixIn(q, m) \in DOMAIN g <=> PrefixIn(q, m) \in DOMAIN f
                       /\ PrefixIn(q, m) \in DOMAIN f => g[PrefixIn(q, m)] = f[PrefixIn(q, m)]

\* v and S are what a tenant sees of the cluster and of the transactions of r
\* that are open.
SeesTxns(name, p, k, s, r, v, S) ==
    /\ v.txns = SeeTxns(name, p, k.txns) /\ v.groups = SeeGroups(name, p, k.groups)
    /\ s.api = r.api /\ s.txns = PrefixAll(p, r.txns) /\ s.value = r.value /\ s.kind = r.kind
    /\ r.groups \subseteq name /\ r.topics \subseteq name /\ r.txns \subseteq name
    /\ OpenTxns(k, s) = PrefixAll(p, S) /\ OpenTxns(v, r) = S
    /\ S \subseteq name /\ S \subseteq r.txns
    /\ \A m \in name :
         /\ Txn(v, m) = SeenTxn(p, Txn(k, PrefixIn(p, m)))
         /\ TxnOK(name, p, Txn(k, PrefixIn(p, m)))
    /\ \A m \in S : /\ Txn(k, PrefixIn(p, m)) = k.txns[PrefixIn(p, m)]
                    /\ v.txns[m] = SeenTxn(p, Txn(k, PrefixIn(p, m)))

\* The transactions of r that are open.
OpenNames(p, k, r) == {m \in r.txns : PrefixIn(p, m) \in DOMAIN k.txns}
=============================================================================
