------------------------------ MODULE Rewrite ------------------------------
(***************************************************************************)
(* The rewriting of requests and responses (package rewrite, called by the *)
(* handlers of proxy/rewrite.go, rewrite_groups.go and rewrite_admin.go).  *)
(*                                                                         *)
(* A request is a record whose name-bearing fields are sets: topics,       *)
(* groups and txns; keys are the names whose space depends on the field    *)
(* kind (FindCoordinator, DescribeConfigs); forgotten is Fetch's list of   *)
(* topics to drop from the session; blob is a member's subscription or     *)
(* assignment.  Single-name and batched encodings of one API are the same  *)
(* set, a nil pointer is an absent element.  A response is a record whose  *)
(* entries carry the fields topic, group, txn or key that the API returns. *)
(***************************************************************************)
EXTENDS Names

\* The APIs that have a handler.
RewrittenAPI ==
    {"Metadata", "Produce", "Fetch", "ListOffsets", "CreateTopics", "DeleteTopics",
     "DescribeConfigs", "FindCoordinator", "OffsetCommit", "OffsetFetch", "OffsetDelete",
     "JoinGroup", "SyncGroup", "Heartbeat", "LeaveGroup", "DescribeGroups", "ListGroups",
     "DeleteGroups", "InitProducerID", "AddPartitionsToTxn", "AddOffsetsToTxn", "EndTxn",
     "TxnOffsetCommit"}

\* The requests a client can send, whose names are in the set name.
Request(name) ==
    [api : RewrittenAPI, topics : SUBSET name, groups : SUBSET name, txns : SUBSET name,
     keys : SUBSET name, forgotten : SUBSET name, all : BOOLEAN, kind : STRING,
     type : STRING, old : BOOLEAN, blob : [fmt : STRING, topics : SUBSET name],
     value : STRING]

PrefixAll(prefix, names) == {PrefixIn(prefix, n) : n \in names}
StripAll(prefix, names) == {StripOut(prefix, n) : n \in names}

StripTopic(prefix, e) == [e EXCEPT !.topic = StripOut(prefix, @)]
StripGroup(prefix, e) == [e EXCEPT !.group = StripOut(prefix, @)]
StripTxn(prefix, e) == [e EXCEPT !.txn = StripOut(prefix, @)]
StripKey(prefix, e) == [e EXCEPT !.key = StripOut(prefix, @)]

StripTopics(prefix, resp) == [resp EXCEPT !.entries = {StripTopic(prefix, e) : e \in @}]
StripGroups(prefix, resp) == [resp EXCEPT !.entries = {StripGroup(prefix, e) : e \in @}]
StripTxns(prefix, resp) == [resp EXCEPT !.entries = {StripTxn(prefix, e) : e \in @}]
OwnedTopics(prefix, resp) ==
    [resp EXCEPT !.entries = {e \in @ : BelongsToTenant(prefix, e.topic)}]
OwnedGroups(prefix, resp) ==
    [resp EXCEPT !.entries = {e \in @ : BelongsToTenant(prefix, e.group)}]

-----------------------------------------------------------------------------
\* Topics: produce, fetch, metadata and administration.

ProduceRequestIn(prefix, req) == [req EXCEPT !.topics = PrefixAll(prefix, @)]
ProduceResponseOut(prefix, resp) == StripTopics(prefix, resp)

FetchRequestIn(prefix, req) == [req EXCEPT !.topics = PrefixAll(prefix, @)]
FetchResponseOut(prefix, resp) == StripTopics(prefix, resp)

ListOffsetsRequestIn(prefix, req) == [req EXCEPT !.topics = PrefixAll(prefix, @)]
ListOffsetsResponseOut(prefix, resp) == StripTopics(prefix, resp)

CreateTopicsRequestIn(prefix, req) == [req EXCEPT !.topics = PrefixAll(prefix, @)]
CreateTopicsResponseOut(prefix, resp) == StripTopics(prefix, resp)

\* A plausible slip: the names to delete go out as the client wrote them.
DeleteTopicsAsSent(prefix, req) == req

DeleteTopicsRequestIn(prefix, req) == [req EXCEPT !.topics = PrefixAll(prefix, @)]
DeleteTopicsResponseOut(prefix, resp) == StripTopics(prefix, resp)

MetadataRequestIn(prefix, req) == [req EXCEPT !.topics = PrefixAll(prefix, @)]

\* One virtual broker, which leads every partition.
LedBy(advertised, e) == [e EXCEPT !.leader = advertised]
VirtualBroker(advertised, resp) ==
    [resp EXCEPT !.brokers = {advertised}, !.entries = {LedBy(advertised, e) : e \in @}]

\* Only the tenant's topics, all of them led by the proxy.
MetadataResponseOut(prefix, advertised, resp) ==
    VirtualBroker(advertised, StripTopics(prefix, OwnedTopics(prefix, resp)))

\* Only topic and group resources have a tenant-space name.
TenantResource == {"topic", "group"}

DescribeConfigsRequestIn(prefix, req) ==
    IF req.kind \in TenantResource THEN [req EXCEPT !.keys = PrefixAll(prefix, @)]
                                   ELSE req

DescribeConfigsResponseOut(prefix, resp) ==
    [resp EXCEPT !.entries =
        {e \in @ : e.kind \notin TenantResource} \cup
        {StripKey(prefix, e) : e \in {f \in @ : /\ f.kind \in TenantResource
                                                /\ BelongsToTenant(prefix, f.key)}}]

-----------------------------------------------------------------------------
\* Consumer groups.

CoordinatorType == {"group", "transaction"}

FindCoordinatorRequestIn(prefix, req) ==
    IF req.kind \in CoordinatorType THEN [req EXCEPT !.keys = PrefixAll(prefix, @)]
                                    ELSE req

FindCoordinatorResponseOut(prefix, advertised, resp) ==
    [resp EXCEPT !.brokers = {advertised}, !.entries = {StripKey(prefix, e) : e \in @}]

GroupAndTopicsIn(prefix, req) ==
    [req EXCEPT !.groups = PrefixAll(prefix, @), !.topics = PrefixAll(prefix, @)]

OffsetCommitRequestIn(prefix, req) == GroupAndTopicsIn(prefix, req)
OffsetCommitResponseOut(prefix, resp) == StripTopics(prefix, resp)

OffsetFetchRequestIn(prefix, req) == GroupAndTopicsIn(prefix, req)
OffsetFetchResponseOut(prefix, resp) == StripGroups(prefix, StripTopics(prefix, resp))

OffsetDeleteRequestIn(prefix, req) == GroupAndTopicsIn(prefix, req)
OffsetDeleteResponseOut(prefix, resp) == StripTopics(prefix, resp)

\* The topics of a member's subscription or assignment.  A blob of another
\* protocol, and an empty one, do not decode and come back as they are.
prefixBlob(prefix, blob) ==
    IF blob.fmt = "consumer" THEN [blob EXCEPT !.topics = PrefixAll(prefix, @)] ELSE blob
stripBlob(prefix, blob) ==
    IF blob.fmt = "consumer" THEN [blob EXCEPT !.topics = StripAll(prefix, @)] ELSE blob

StripMember(prefix, e) == [e EXCEPT !.blob = stripBlob(prefix, @)]

\* Before a version that carries it, the protocol type is nil.
MaybeConsumer(type) == type \in {"nil", "consumer"}

JoinGroupRequestIn(prefix, req) ==
    LET r == [req EXCEPT !.groups = PrefixAll(prefix, @)]
    IN  IF req.type = "consumer" THEN [r EXCEPT !.blob = prefixBlob(prefix, @)] ELSE r

JoinGroupResponseOut(prefix, resp) ==
    IF MaybeConsumer(resp.type)
    THEN [resp EXCEPT !.entries = {StripMember(prefix, e) : e \in @}]
    ELSE resp

\* A plausible slip: a request that carries no protocol type is left alone.
SyncGroupTypedOnly(prefix, req) ==
    LET r == [req EXCEPT !.groups = PrefixAll(prefix, @)]
    IN  IF req.type = "consumer" THEN [r EXCEPT !.blob = prefixBlob(prefix, @)] ELSE r

SyncGroupRequestIn(prefix, req) ==
    LET r == [req EXCEPT !.groups = PrefixAll(prefix, @)]
    IN  IF MaybeConsumer(req.type) THEN [r EXCEPT !.blob = prefixBlob(prefix, @)] ELSE r

SyncGroupResponseOut(prefix, resp) ==
    IF MaybeConsumer(resp.type)
    THEN [resp EXCEPT !.entries = {StripMember(prefix, e) : e \in @}]
    ELSE resp

HeartbeatRequestIn(prefix, req) == [req EXCEPT !.groups = PrefixAll(prefix, @)]
LeaveGroupRequestIn(prefix, req) == [req EXCEPT !.groups = PrefixAll(prefix, @)]

DescribeGroupsRequestIn(prefix, req) == [req EXCEPT !.groups = PrefixAll(prefix, @)]
StripMembers(prefix, e) ==
    IF e.type \in {"none", "consumer"}
    THEN [group |-> e.group, type |-> e.type, sub |-> stripBlob(prefix, e.sub),
          asg |-> stripBlob(prefix, e.asg)]
    ELSE e
DescribeGroupsResponseOut(prefix, resp) ==
    StripGroups(prefix, [resp EXCEPT !.entries = {StripMembers(prefix, e) : e \in @}])

ListGroupsResponseOut(prefix, resp) == StripGroups(prefix, OwnedGroups(prefix, resp))

DeleteGroupsRequestIn(prefix, req) == [req EXCEPT !.groups = PrefixAll(prefix, @)]
DeleteGroupsResponseOut(prefix, resp) == StripGroups(prefix, resp)

-----------------------------------------------------------------------------
\* Transactions.

InitProducerIDRequestIn(prefix, req) == [req EXCEPT !.txns = PrefixAll(prefix, @)]

AddPartitionsToTxnRequestIn(prefix, req) ==
    [req EXCEPT !.txns = PrefixAll(prefix, @), !.topics = PrefixAll(prefix, @)]
AddPartitionsToTxnResponseOut(prefix, resp) == StripTxns(prefix, StripTopics(prefix, resp))

AddOffsetsToTxnRequestIn(prefix, req) ==
    [req EXCEPT !.txns = PrefixAll(prefix, @), !.groups = PrefixAll(prefix, @)]

EndTxnRequestIn(prefix, req) == [req EXCEPT !.txns = PrefixAll(prefix, @)]

TxnOffsetCommitRequestIn(prefix, req) ==
    [GroupAndTopicsIn(prefix, req) EXCEPT !.txns = PrefixAll(prefix, @)]
TxnOffsetCommitResponseOut(prefix, resp) == StripTopics(prefix, resp)

-----------------------------------------------------------------------------
\* The handler of each API, conn.rewriteHandler.  ListGroups' request has no
\* name, and six responses have none either.

RequestIn(prefix, req) ==
    CASE req.api = "Metadata" -> MetadataRequestIn(prefix, req)
      [] req.api = "Produce" -> ProduceRequestIn(prefix, req)
      [] req.api = "Fetch" -> FetchRequestIn(prefix, req)
      [] req.api = "ListOffsets" -> ListOffsetsRequestIn(prefix, req)
      [] req.api = "CreateTopics" -> CreateTopicsRequestIn(prefix, req)
      [] req.api = "DeleteTopics" -> DeleteTopicsRequestIn(prefix, req)
      [] req.api = "DescribeConfigs" -> DescribeConfigsRequestIn(prefix, req)
      [] req.api = "FindCoordinator" -> FindCoordinatorRequestIn(prefix, req)
      [] req.api = "OffsetCommit" -> OffsetCommitRequestIn(prefix, req)
      [] req.api = "OffsetFetch" -> OffsetFetchRequestIn(prefix, req)
      [] req.api = "OffsetDelete" -> OffsetDeleteRequestIn(prefix, req)
      [] req.api = "JoinGroup" -> JoinGroupRequestIn(prefix, req)
      [] req.api = "SyncGroup" -> SyncGroupRequestIn(prefix, req)
      [] req.api = "Heartbeat" -> HeartbeatRequestIn(prefix, req)
      [] req.api = "LeaveGroup" -> LeaveGroupRequestIn(prefix, req)
      [] req.api = "DescribeGroups" -> DescribeGroupsRequestIn(prefix, req)
      [] req.api = "ListGroups" -> req
      [] req.api = "DeleteGroups" -> DeleteGroupsRequestIn(prefix, req)
      [] req.api = "InitProducerID" -> InitProducerIDRequestIn(prefix, req)
      [] req.api = "AddPartitionsToTxn" -> AddPartitionsToTxnRequestIn(prefix, req)
      [] req.api = "AddOffsetsToTxn" -> AddOffsetsToTxnRequestIn(prefix, req)
      [] req.api = "EndTxn" -> EndTxnRequestIn(prefix, req)
      [] req.api = "TxnOffsetCommit" -> TxnOffsetCommitRequestIn(prefix, req)

ResponseOut(prefix, advertised, resp) ==
    CASE resp.api = "Metadata" -> MetadataResponseOut(prefix, advertised, resp)
      [] resp.api = "Produce" -> ProduceResponseOut(prefix, resp)
      [] resp.api = "Fetch" -> FetchResponseOut(prefix, resp)
      [] resp.api = "ListOffsets" -> ListOffsetsResponseOut(prefix, resp)
      [] resp.api = "CreateTopics" -> CreateTopicsResponseOut(prefix, resp)
      [] resp.api = "DeleteTopics" -> DeleteTopicsResponseOut(prefix, resp)
      [] resp.api = "DescribeConfigs" -> DescribeConfigsResponseOut(prefix, resp)
      [] resp.api = "FindCoordinator" -> FindCoordinatorResponseOut(prefix, advertised, resp)
      [] resp.api = "OffsetCommit" -> OffsetCommitResponseOut(prefix, resp)
      [] resp.api = "OffsetFetch" -> OffsetFetchResponseOut(prefix, resp)
      [] resp.api = "OffsetDelete" -> OffsetDeleteResponseOut(prefix, resp)
      [] resp.api = "JoinGroup" -> JoinGroupResponseOut(prefix, resp)
      [] resp.api = "SyncGroup" -> SyncGroupResponseOut(prefix, resp)
      [] resp.api = "DescribeGroups" -> DescribeGroupsResponseOut(prefix, resp)
      [] resp.api = "ListGroups" -> ListGroupsResponseOut(prefix, resp)
      [] resp.api = "DeleteGroups" -> DeleteGroupsResponseOut(prefix, resp)
      [] resp.api = "AddPartitionsToTxn" -> AddPartitionsToTxnResponseOut(prefix, resp)
      [] resp.api = "TxnOffsetCommit" -> TxnOffsetCommitResponseOut(prefix, resp)
      [] resp.api \in {"Heartbeat", "LeaveGroup", "InitProducerID",
                       "AddOffsetsToTxn", "EndTxn"} -> resp
=============================================================================
