-------------------------- MODULE MCSharedCluster --------------------------
(***************************************************************************)
(* Instances of SharedCluster: two tenants with prefixes "a" and "b", one  *)
(* connection each.  The tenant-space name "x" is also a name of the       *)
(* cluster that belongs to nobody, and the name "a" is also a prefix, so a *)
(* name that is not rewritten, or rewritten twice, hits something.         *)
(***************************************************************************)
EXTENDS MCRequests

\* The operators of these instances chose their prefixes well.
ASSUME SliceAssumption == SlicesAreApart

\* What the proofs ask of prefixes and requests.
MCName == Seq({"a", "b", "x"})
ASSUME RequestAssumption ==
    /\ TopicPrefix \in [Tenant -> MCName]
    /\ Foreign \subseteq MCName \ {<< >>}
    /\ Requests \subseteq Request(MCName \ {<< >>})

MCTopicPrefix == [t \in MCTenant |-> IF t = "t1" THEN <<"a">> ELSE <<"b">>]
OnTopics(api) == {[Base(api) EXCEPT !.topics = s] : s \in {{X}, {X, A}}}
OnGroup(api) == [Base(api) EXCEPT !.groups = {X}]
OnGroupAndTopic(api) == [Base(api) EXCEPT !.groups = {X}, !.topics = {X}]
OnKeys(api, kinds) == {[Base(api) EXCEPT !.kind = k, !.keys = {X}] : k \in kinds}

MCTopicRequests ==
    UNION {OnTopics(api) : api \in {"CreateTopics", "DeleteTopics"}}
    \cup {[Base(api) EXCEPT !.topics = {X, A}] : api \in {"Fetch", "ListOffsets", "Metadata"}}
    \cup {[Base("Produce") EXCEPT !.topics = {t}, !.value = "v1"] : t \in {X, A}}
    \cup {[Base("Metadata") EXCEPT !.all = TRUE]}
    \cup OnKeys("DescribeConfigs", {"topic", "group", "broker"})

ConsumerBlob == [fmt |-> "consumer", topics |-> {X, A}]
OpaqueBlob == [fmt |-> "opaque", topics |-> {}]

Joins ==
    {[OnGroup("JoinGroup") EXCEPT !.type = "consumer", !.old = o, !.blob = ConsumerBlob] :
        o \in BOOLEAN}
    \cup {[OnGroup("JoinGroup") EXCEPT !.type = "connect", !.old = TRUE, !.blob = OpaqueBlob]}

\* A version without a protocol type returns none either.
Syncs ==
    {[OnGroup("SyncGroup") EXCEPT !.type = t, !.old = (t = "nil"), !.blob = ConsumerBlob] :
        t \in {"consumer", "nil"}}
    \cup {[OnGroup("SyncGroup") EXCEPT !.type = t, !.old = (t = "nil"), !.blob = OpaqueBlob] :
        t \in {"connect", "nil"}}

MCGroupRequests ==
    {OnGroup(api) : api \in {"Heartbeat", "LeaveGroup", "DescribeGroups", "DeleteGroups"}}
    \cup {[OnGroupAndTopic("OffsetCommit") EXCEPT !.value = "v1"]}
    \cup {OnGroupAndTopic(api) : api \in {"OffsetFetch", "OffsetDelete"}}
    \cup {[OnGroup("OffsetFetch") EXCEPT !.all = TRUE], Base("ListGroups")}
    \cup OnKeys("FindCoordinator", {"group", "transaction"})
    \cup Joins \cup Syncs

OnTxn(api) == [Base(api) EXCEPT !.txns = {X}]

MCTxnRequests ==
    {OnTxn("InitProducerID"),
     [OnTxn("AddPartitionsToTxn") EXCEPT !.topics = {X, A}],
     [OnTxn("AddOffsetsToTxn") EXCEPT !.groups = {X}],
     [OnTxn("TxnOffsetCommit") EXCEPT !.groups = {X}, !.topics = {X, A}, !.value = "v1"],
     [OnGroup("OffsetFetch") EXCEPT !.all = TRUE]}
    \cup {[OnTxn("EndTxn") EXCEPT !.kind = k] : k \in {"commit", "abort"}}

\* These are requests for which the handlers promise a cluster of one's own.
ASSUME RegularAssumption ==
    \A r \in Requests : Regular(r)

VARIABLE family     \* the requests that the clients of a behaviour draw from

MCRequestSets == {MCTopicRequests, MCGroupRequests, MCTxnRequests}
AllRequests == UNION MCRequestSets

MCInit == Init /\ family \in MCRequestSets
MCNext ==
    /\ Next
    /\ \A c \in Conn : request'[c] \in family \cup {Nothing}
    /\ UNCHANGED family
MCSpec == MCInit /\ [][MCNext]_<<vars, family>>
=============================================================================
