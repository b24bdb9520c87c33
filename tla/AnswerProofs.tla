---------------------------- MODULE AnswerProofs ----------------------------
\* Proofs about SharedCluster: the response to a request, rewritten by its
\* handler, is the response of a cluster of the tenant's own, API by API.

EXTENDS StateProofs

\* The helpers of package rewrite on a response.
LEMMA StripTopicIs ==
    ASSUME NEW p, NEW n, NEW a
    PROVE  StripTopic(p, [topic |-> n, value |-> a]) = [topic |-> StripOut(p, n), value |-> a]
BY DEF StripTopic

\* What StripTopics makes of a response.
LEMMA StripTopicsIs ==
    ASSUME NEW p, NEW api, NEW E
    PROVE  StripTopics(p, [api |-> api, entries |-> E])
             = [api |-> api, entries |-> {StripTopic(p, e) : e \in E}]
<1> DEFINE X == {StripTopic(p, e) : e \in E}
<1>1. StripTopics(p, [api |-> api, entries |-> E])
         = [[api |-> api, entries |-> E] EXCEPT !.entries = X]
  BY DEF StripTopics
<1> QED
  BY <1>1, Zenon

\* What StripGroups makes of a response.
LEMMA StripGroupsIs ==
    ASSUME NEW p, NEW api, NEW E
    PROVE  StripGroups(p, [api |-> api, entries |-> E])
             = [api |-> api, entries |-> {StripGroup(p, e) : e \in E}]
<1> DEFINE X == {StripGroup(p, e) : e \in E}
<1>1. StripGroups(p, [api |-> api, entries |-> E])
         = [[api |-> api, entries |-> E] EXCEPT !.entries = X]
  BY DEF StripGroups
<1> QED
  BY <1>1

\* What StripTxns makes of a response.
LEMMA StripTxnsIs ==
    ASSUME NEW p, NEW api, NEW E
    PROVE  StripTxns(p, [api |-> api, entries |-> E])
             = [api |-> api, entries |-> {StripTxn(p, e) : e \in E}]
<1> DEFINE X == {StripTxn(p, e) : e \in E}
<1>1. StripTxns(p, [api |-> api, entries |-> E])
         = [[api |-> api, entries |-> E] EXCEPT !.entries = X]
  BY DEF StripTxns
<1> QED
  BY <1>1

\* The tenant gets the answer of its own cluster to a request about named
\* topics (TopicsResponseOut of CreateTopics, DeleteTopics, Fetch and
\* ListOffsets).
LEMMA TopicsAnswer ==
    ASSUME NEW name, NEW p, Rewrites(name, p), NEW k, SliceOK(name, p, k),
           NEW r \in Request(name), NEW s, Forwarded(p, r, s), Regular(r),
           r.api \in {"CreateTopics", "DeleteTopics", "Fetch", "ListOffsets"}
    PROVE  SameAnswer(name, p, k, s, r)
<1> DEFINE v == See(name, p, k)
           G(t) == [topic |-> t, value |-> TopicState(k, t)]
           H(t) == [topic |-> t, value |-> TopicState(v, t)]
<1>1. s.api = r.api /\ s.topics = PrefixAll(p, r.topics) /\ r.topics \subseteq name
  BY DEF Forwarded, TopicNaming, Request
<1>2. Answer(k, s) = [api |-> r.api, entries |-> {G(t) : t \in PrefixAll(p, r.topics)}]
  BY <1>1 DEF Answer, Answered, TopicEntries
<1>3. Answer(v, r) = [api |-> r.api, entries |-> {H(t) : t \in r.topics}]
  BY DEF Answer, Answered, TopicEntries
<1>4. ASSUME NEW t \in r.topics
      PROVE  StripTopic(p, G(PrefixIn(p, t))) = H(t)
  <2>1. StripOut(p, PrefixIn(p, t)) = t /\ TopicState(v, t) = TopicState(k, PrefixIn(p, t))
    BY <1>1, SeeAt DEF Rewrites
  <2> HIDE DEF v
  <2> QED
    BY <2>1 DEF StripTopic
<1> HIDE DEF G, H, v
<1>5. ResponseOut(p, Advertised, Answer(k, s))
         = [api |-> r.api, entries |-> {StripTopic(p, e) : e \in {G(t) : t \in PrefixAll(p, r.topics)}}]
  <2>1. ResponseOut(p, Advertised, Answer(k, s)) = StripTopics(p, Answer(k, s))
    BY <1>2 DEF ResponseOut, CreateTopicsResponseOut, DeleteTopicsResponseOut,
       FetchResponseOut, ListOffsetsResponseOut
  <2> QED
    BY <1>2, <2>1, StripTopicsIs
<1>6. {StripTopic(p, e) : e \in {G(t) : t \in PrefixAll(p, r.topics)}} = {H(t) : t \in r.topics}
  BY <1>4 DEF PrefixAll
<1> QED
  BY <1>3, <1>5, <1>6, Zenon DEF SameAnswer, v

\* The same for Produce, which has no transaction here (ProduceResponseOut).
LEMMA ProduceAnswer ==
    ASSUME NEW name, NEW p, Rewrites(name, p), NEW k, SliceOK(name, p, k),
           NEW r \in Request(name), NEW s, Forwarded(p, r, s), Regular(r), r.api = "Produce"
    PROVE  SameAnswer(name, p, k, s, r)
<1> DEFINE v == See(name, p, k)
           ok == TRUE
           G(t) == [topic |-> t, value |-> ok]
<1>1. s.api = r.api /\ s.topics = PrefixAll(p, r.topics) /\ r.topics \subseteq name
  BY DEF Forwarded, TopicNaming, Request
<1>2. MayProduce(k, s) = ok /\ MayProduce(v, r) = ok
  BY DEF MayProduce, Regular, Forwarded
<1> HIDE DEF ok
<1>3. Answer(k, s) = [api |-> r.api, entries |-> {G(t) : t \in PrefixAll(p, r.topics)}]
  BY <1>1, <1>2 DEF Answer, Answered
<1>4. Answer(v, r) = [api |-> r.api, entries |-> {G(t) : t \in r.topics}]
  BY <1>2 DEF Answer, Answered
<1>5. ASSUME NEW t \in r.topics
      PROVE  StripTopic(p, G(PrefixIn(p, t))) = G(t)
  <2>1. StripOut(p, PrefixIn(p, t)) = t
    BY <1>1 DEF Rewrites
  <2> QED
    BY <2>1, StripTopicIs
<1> HIDE DEF G, v
<1>6. ResponseOut(p, Advertised, Answer(k, s))
         = [api |-> r.api, entries |-> {StripTopic(p, e) : e \in {G(t) : t \in PrefixAll(p, r.topics)}}]
  <2>1. ResponseOut(p, Advertised, Answer(k, s)) = StripTopics(p, Answer(k, s))
    BY <1>3 DEF ResponseOut, ProduceResponseOut
  <2> QED
    BY <1>3, <2>1, StripTopicsIs
<1>7. {StripTopic(p, e) : e \in {G(t) : t \in PrefixAll(p, r.topics)}} = {G(t) : t \in r.topics}
  BY <1>5 DEF PrefixAll
<1> QED
  BY <1>4, <1>6, <1>7, SMTT(30) DEF SameAnswer, v

\* The same for Metadata, the list of all topics included: MetadataResponseOut
\* drops the topics of the others and puts the advertised address for every
\* broker's.
LEMMA MetadataAnswer ==
    ASSUME NEW name, NEW p, Rewrites(name, p), NEW k, SliceOK(name, p, k),
           NEW r \in Request(name), NEW s, Forwarded(p, r, s), Regular(r), r.api = "Metadata"
    PROVE  SameAnswer(name, p, k, s, r)
<1> DEFINE v == See(name, p, k)
           up == IF r.all THEN DOMAIN k.topics ELSE PrefixAll(p, r.topics)
           down == IF r.all THEN DOMAIN v.topics ELSE r.topics
           B(e) == BelongsToTenant(p, e.topic)
           G(t) == [topic |-> t, value |-> TopicState(k, t), leader |-> k.leader]
           H(t) == [topic |-> t, value |-> TopicState(v, t), leader |-> Advertised]
           E == {G(t) : t \in up}
<1>1. /\ s.api = r.api /\ s.topics = PrefixAll(p, r.topics) /\ s.all = r.all
      /\ r.topics \subseteq name
  BY DEF Forwarded, TopicNaming, Request
<1>2. Answer(k, s) = [api |-> r.api, brokers |-> k.brokers, entries |-> E]
  BY <1>1 DEF Answer
<1>3. Answer(v, r) = [api |-> r.api, brokers |-> {Advertised}, entries |-> {H(t) : t \in down}]
  BY DEF Answer, See
<1>4. /\ down \subseteq name
      /\ \A t \in name : t \in down <=> PrefixIn(p, t) \in up
      /\ \A n \in up : BelongsToTenant(p, n) => n \in PrefixAll(p, name)
  <2>1. DOMAIN v.topics = Seen(name, p, k.topics) /\ Own(name, p, k.topics)
    BY DEF See, SeeTopics, SliceOK
  <2>2. \A t \in name : t \in r.topics <=> PrefixIn(p, t) \in PrefixAll(p, r.topics)
    BY <1>1, PrefixInjective
  <2> HIDE DEF v
  <2> QED
    BY <1>1, <2>1, <2>2 DEF Seen, Own, PrefixAll
<1>5. ASSUME NEW t \in name
      PROVE  LedBy(Advertised, StripTopic(p, G(PrefixIn(p, t)))) = H(t)
  <2>1. StripOut(p, PrefixIn(p, t)) = t /\ TopicState(v, t) = TopicState(k, PrefixIn(p, t))
    BY SeeAt DEF Rewrites
  <2> HIDE DEF v
  <2>2. StripTopic(p, G(PrefixIn(p, t))) = [topic |-> t, value |-> TopicState(v, t), leader |-> k.leader]
    BY <2>1 DEF StripTopic
  <2> HIDE DEF G
  <2> QED
    BY <2>2 DEF LedBy
<1>6. \A t \in up : B(G(t)) <=> BelongsToTenant(p, t)
  OBVIOUS
<1> HIDE DEF v, up, down, G, H
<1>7. ResponseOut(p, Advertised, Answer(k, s))
         = [api |-> r.api, brokers |-> {Advertised},
            entries |-> {LedBy(Advertised, e) : e \in {StripTopic(p, e) : e \in {e \in E : B(e)}}}]
  <2> HIDE DEF E
  <2>1. ResponseOut(p, Advertised, Answer(k, s))
           = VirtualBroker(Advertised, StripTopics(p, OwnedTopics(p, Answer(k, s))))
    BY <1>2 DEF ResponseOut, MetadataResponseOut
  <2>2. OwnedTopics(p, Answer(k, s))
           = [api |-> r.api, brokers |-> k.brokers, entries |-> {e \in E : B(e)}]
    BY <1>2, SMTT(30) DEF OwnedTopics
  <2> HIDE DEF B
  <2>3. StripTopics(p, OwnedTopics(p, Answer(k, s)))
           = [api |-> r.api, brokers |-> k.brokers, entries |-> {StripTopic(p, e) : e \in {e \in E : B(e)}}]
    BY <2>2 DEF StripTopics
  <2> DEFINE X == {StripTopic(p, e) : e \in {e \in E : B(e)}}
             Y == {LedBy(Advertised, e) : e \in X}
             R == [api |-> r.api, brokers |-> k.brokers, entries |-> X]
  <2>4. VirtualBroker(Advertised, R) = [R EXCEPT !.brokers = {Advertised}, !.entries = Y]
    BY DEF VirtualBroker
  <2> HIDE DEF X, Y
  <2>5. VirtualBroker(Advertised, R) = [api |-> r.api, brokers |-> {Advertised}, entries |-> Y]
    BY <2>4, Zenon
  <2> QED
    BY <2>1, <2>3, <2>5, Zenon DEF X, Y, R
<1> HIDE DEF B
<1>8. {LedBy(Advertised, e) : e \in {StripTopic(p, e) : e \in {e \in E : B(e)}}} = {H(t) : t \in down}
  <2>1. \A t \in down : PrefixIn(p, t) \in up /\ B(G(PrefixIn(p, t)))
    BY <1>4, <1>6 DEF Rewrites
  <2>2. \A n \in up : B(G(n)) => \E t \in down : n = PrefixIn(p, t)
    BY <1>4, <1>6 DEF PrefixAll
  <2> QED
    BY <1>4, <1>5, <2>1, <2>2
<1> QED
  BY <1>3, <1>7, <1>8, Zenon DEF SameAnswer, v

\* The same for DescribeConfigs, of topics and groups and of other resources
\* (DescribeConfigsResponseOut).
LEMMA DescribeConfigsAnswer ==
    ASSUME NEW name, NEW p, Rewrites(name, p), NEW k, SliceOK(name, p, k),
           NEW r \in Request(name), NEW s, Forwarded(p, r, s), Regular(r),
           r.api = "DescribeConfigs"
    PROVE  SameAnswer(name, p, k, s, r)
<1> DEFINE v == See(name, p, k)
           G(n) == [kind |-> r.kind, key |-> n,
                    value |-> r.kind = "topic" => n \in DOMAIN k.topics]
           H(n) == [kind |-> r.kind, key |-> n,
                    value |-> r.kind = "topic" => n \in DOMAIN v.topics]
<1>1. /\ s.api = r.api /\ s.kind = r.kind /\ r.keys \subseteq name
      /\ s.keys = IF r.kind \in TenantResource THEN PrefixAll(p, r.keys) ELSE r.keys
  BY DEF Forwarded, Request
<1> DEFINE E == {G(n) : n \in s.keys}
<1>2. Answer(k, s) = [api |-> r.api, entries |-> E]
  BY <1>1 DEF Answer, Answered
<1>3. Answer(v, r) = [api |-> r.api, entries |-> {H(n) : n \in r.keys}]
  BY DEF Answer, Answered
<1>4. ResponseOut(p, Advertised, Answer(k, s))
         = [api |-> r.api,
            entries |-> {e \in E : e.kind \notin TenantResource} \cup
                        {StripKey(p, e) : e \in {f \in E : /\ f.kind \in TenantResource
                                                 /\ BelongsToTenant(p, f.key)}}]
  <2> HIDE DEF E
  <2> QED
    BY <1>2 DEF ResponseOut, DescribeConfigsResponseOut
<1>5. \A e \in E : e.kind = r.kind
  OBVIOUS
<1>6. CASE r.kind \notin TenantResource
  <2>1. \A n \in r.keys : G(n) = H(n)
    BY <1>6 DEF TenantResource
  <2>2. E = {H(n) : n \in r.keys}
    BY <1>1, <1>6, <2>1, Zenon
  <2> HIDE DEF G, H, v
  <2>3. {e \in E : e.kind \notin TenantResource} = E
    BY <1>5, <1>6
  <2>4. {StripKey(p, e) : e \in {f \in E : f.kind \in TenantResource /\ BelongsToTenant(p, f.key)}} = {}
    BY <1>5, <1>6
  <2> QED
    BY <1>3, <1>4, <2>2, <2>3, <2>4, Zenon DEF SameAnswer, v
<1>7. CASE r.kind \in TenantResource
  <2>1. ASSUME NEW n \in r.keys
        PROVE  StripKey(p, G(PrefixIn(p, n))) = H(n)
    <3>1. /\ StripOut(p, PrefixIn(p, n)) = n
          /\ n \in DOMAIN v.topics <=> PrefixIn(p, n) \in DOMAIN k.topics
      BY <1>1, SeeAt DEF Rewrites
    <3> HIDE DEF v
    <3> QED
      BY <3>1 DEF StripKey
  <2>2. \A n \in r.keys : BelongsToTenant(p, G(PrefixIn(p, n)).key)
    BY <1>1 DEF Rewrites
  <2>3. E = {G(PrefixIn(p, n)) : n \in r.keys}
    BY <1>1, <1>7 DEF PrefixAll
  <2> HIDE DEF G, H, v
  <2>4. {e \in E : e.kind \notin TenantResource} = {}
    BY <1>5, <1>7
  <2>5. {StripKey(p, e) : e \in {f \in E : f.kind \in TenantResource /\ BelongsToTenant(p, f.key)}}
           = {H(n) : n \in r.keys}
    BY <1>5, <1>7, <2>1, <2>2, <2>3
  <2> QED
    BY <1>3, <1>4, <2>4, <2>5, Zenon DEF SameAnswer, v
<1> QED
  BY <1>6, <1>7

\* The same for FindCoordinator: keys stripped, address replaced
\* (FindCoordinatorResponseOut).
LEMMA FindCoordinatorAnswer ==
    ASSUME NEW name, NEW p, Rewrites(name, p), NEW k, SliceOK(name, p, k),
           NEW r \in Request(name), NEW s, Forwarded(p, r, s), Regular(r),
           r.api = "FindCoordinator"
    PROVE  SameAnswer(name, p, k, s, r)
<1> DEFINE v == See(name, p, k)
           G(n) == [key |-> n]
<1>1. s.api = r.api /\ s.keys = PrefixAll(p, r.keys) /\ r.keys \subseteq name
  BY DEF Forwarded, Request, Regular
<1>2. Answer(k, s) = [api |-> r.api, brokers |-> {k.leader},
                      entries |-> {G(n) : n \in PrefixAll(p, r.keys)}]
  BY <1>1 DEF Answer
<1>3. Answer(v, r) = [api |-> r.api, brokers |-> {Advertised}, entries |-> {G(n) : n \in r.keys}]
  BY DEF Answer, See
<1>4. \A n \in r.keys : StripKey(p, G(PrefixIn(p, n))) = G(n)
  BY <1>1 DEF Rewrites, StripKey
<1> HIDE DEF G, v
<1>5. ResponseOut(p, Advertised, Answer(k, s))
         = [api |-> r.api, brokers |-> {Advertised},
            entries |-> {StripKey(p, e) : e \in {G(n) : n \in PrefixAll(p, r.keys)}}]
  <2>1. ResponseOut(p, Advertised, Answer(k, s))
           = FindCoordinatorResponseOut(p, Advertised, Answer(k, s))
    BY <1>2 DEF ResponseOut
  <2> DEFINE X == {G(n) : n \in PrefixAll(p, r.keys)}
             Y == {StripKey(p, e) : e \in X}
             R == [api |-> r.api, brokers |-> {k.leader}, entries |-> X]
  <2>2. FindCoordinatorResponseOut(p, Advertised, R)
           = [R EXCEPT !.brokers = {Advertised}, !.entries = Y]
    BY DEF FindCoordinatorResponseOut
  <2> HIDE DEF X, Y
  <2>3. FindCoordinatorResponseOut(p, Advertised, R)
           = [api |-> r.api, brokers |-> {Advertised}, entries |-> Y]
    BY <2>2, Zenon
  <2> QED
    BY <1>2, <2>1, <2>3, Zenon DEF X, Y, R
<1>6. {StripKey(p, e) : e \in {G(n) : n \in PrefixAll(p, r.keys)}} = {G(n) : n \in r.keys}
  BY <1>4 DEF PrefixAll
<1> QED
  BY <1>3, <1>5, <1>6, ZenonT(60) DEF SameAnswer, v

\* Group a of the cluster is group b to the tenant with prefix p.
SeenAs(name, p, a, b) ==
    /\ b.type = a.type
    /\ b.sub = stripBlob(p, a.sub) /\ b.asg = stripBlob(p, a.asg)
    /\ a.type # "consumer" => b.sub = a.sub /\ b.asg = a.asg
    /\ DOMAIN a.offsets = PrefixAll(p, DOMAIN b.offsets)
    /\ DOMAIN b.offsets \subseteq name
    /\ \A t \in name : /\ t \in DOMAIN b.offsets <=> PrefixIn(p, t) \in DOMAIN a.offsets
                       /\ At(b.offsets, t, Unknown) = At(a.offsets, PrefixIn(p, t), Unknown)

\* What the tenant finds in its groups.
LEMMA GroupFacts ==
    ASSUME NEW name, NEW p, Rewrites(name, p), NEW k, SliceOK(name, p, k), NEW g \in name
    PROVE  SeenAs(name, p, Group(k, PrefixIn(p, g)), Group(See(name, p, k), g))
<1> DEFINE a == Group(k, PrefixIn(p, g))
           b == Group(See(name, p, k), g)
<1>1. b = SeeGroup(name, p, a) /\ GroupOK(name, p, a)
  BY SeeAt, NamedGroupOK
<1> HIDE DEF a, b
<1>2. /\ b.type = a.type /\ b.sub = SeeBlob(p, a.type, a.sub)
      /\ b.asg = SeeBlob(p, a.type, a.asg) /\ b.offsets = SeeTopics(name, p, a.offsets)
  BY <1>1 DEF SeeGroup
<1>3. /\ b.sub = stripBlob(p, a.sub) /\ b.asg = stripBlob(p, a.asg)
      /\ a.type # "consumer" => b.sub = a.sub /\ b.asg = a.asg
  BY <1>1, <1>2 DEF GroupOK, SeeBlob, MaybeConsumer, stripBlob
<1>4. DOMAIN b.offsets = Seen(name, p, a.offsets) /\ DOMAIN a.offsets \subseteq PrefixAll(p, name)
  BY <1>1, <1>2 DEF SeeTopics, GroupOK
<1>5. \A t \in name : /\ t \in DOMAIN b.offsets <=> PrefixIn(p, t) \in DOMAIN a.offsets
                      /\ At(b.offsets, t, Unknown) = At(a.offsets, PrefixIn(p, t), Unknown)
  BY <1>2 DEF SeeTopics, Seen, At
<1>6. DOMAIN a.offsets = PrefixAll(p, DOMAIN b.offsets) /\ DOMAIN b.offsets \subseteq name
  BY <1>4 DEF Seen, PrefixAll
<1> QED
  BY <1>2, <1>3, <1>5, <1>6, ZenonT(60) DEF a, b, SeenAs

\* The tenant gets the answer of its own cluster to OffsetCommit
\* (OffsetCommitResponseOut).
LEMMA OffsetCommitAnswer ==
    ASSUME NEW name, NEW p, Rewrites(name, p), NEW k, SliceOK(name, p, k),
           NEW r \in Request(name), NEW s, Forwarded(p, r, s), Regular(r),
           r.api = "OffsetCommit"
    PROVE  SameAnswer(name, p, k, s, r)
<1> DEFINE v == See(name, p, k)
           G(t) == [topic |-> t]
<1>1. s.api = r.api /\ s.topics = PrefixAll(p, r.topics) /\ r.topics \subseteq name
  BY DEF Forwarded, TopicNaming, Request
<1>2. Answer(k, s) = [api |-> r.api, entries |-> {G(t) : t \in PrefixAll(p, r.topics)}]
  BY <1>1 DEF Answer, Answered
<1>3. Answer(v, r) = [api |-> r.api, entries |-> {G(t) : t \in r.topics}]
  BY DEF Answer, Answered
<1>4. \A t \in r.topics : StripTopic(p, G(PrefixIn(p, t))) = G(t)
  BY <1>1 DEF StripTopic, Rewrites
<1> HIDE DEF G, v
<1>5. ResponseOut(p, Advertised, Answer(k, s))
         = [api |-> r.api,
            entries |-> {StripTopic(p, e) : e \in {G(t) : t \in PrefixAll(p, r.topics)}}]
  <2>1. ResponseOut(p, Advertised, Answer(k, s)) = StripTopics(p, Answer(k, s))
    BY <1>2 DEF ResponseOut, OffsetCommitResponseOut
  <2> QED
    BY <1>2, <2>1, StripTopicsIs
<1>6. {StripTopic(p, e) : e \in {G(t) : t \in PrefixAll(p, r.topics)}} = {G(t) : t \in r.topics}
  BY <1>4 DEF PrefixAll
<1> QED
  BY <1>3, <1>5, <1>6, Zenon DEF SameAnswer, v

\* The same for OffsetDelete (OffsetDeleteResponseOut).
LEMMA OffsetDeleteAnswer ==
    ASSUME NEW name, NEW p, Rewrites(name, p), NEW k, SliceOK(name, p, k),
           NEW r \in Request(name), NEW s, Forwarded(p, r, s), Regular(r),
           r.api = "OffsetDelete"
    PROVE  SameAnswer(name, p, k, s, r)
<1> DEFINE v == See(name, p, k)
           G(g, t) == [topic |-> t, value |-> t \in DOMAIN Group(k, g).offsets]
           H(g, t) == [topic |-> t, value |-> t \in DOMAIN Group(v, g).offsets]
           T2 == PrefixAll(p, r.topics)
           G2 == PrefixAll(p, r.groups)
           E == UNION {{G(g, t) : t \in T2} : g \in G2}
           F == UNION {{H(g, t) : t \in r.topics} : g \in r.groups}
<1>1. /\ s.api = r.api /\ s.topics = T2 /\ s.groups = G2
      /\ r.topics \subseteq name /\ r.groups \subseteq name
  BY DEF Forwarded, TopicNaming, GroupNaming, Request
<1>2. Answer(k, s) = [api |-> r.api, entries |-> E]
  <2> HIDE DEF T2, G2
  <2> QED
    BY <1>1 DEF Answer, Answered
<1>3. Answer(v, r) = [api |-> r.api, entries |-> F]
  BY DEF Answer, Answered
<1>4. ASSUME NEW g \in r.groups, NEW t \in r.topics
      PROVE  StripTopic(p, G(PrefixIn(p, g), PrefixIn(p, t))) = H(g, t)
  <2>1. /\ StripOut(p, PrefixIn(p, t)) = t
        /\ t \in DOMAIN Group(v, g).offsets
              <=> PrefixIn(p, t) \in DOMAIN Group(k, PrefixIn(p, g)).offsets
    <3>1. g \in name /\ t \in name
      BY <1>1, SMTT(30)
    <3>2. SeenAs(name, p, Group(k, PrefixIn(p, g)), Group(v, g))
      BY <3>1, GroupFacts, ZenonT(60)
    <3> HIDE DEF v
    <3> QED
      BY <3>1, <3>2, ZenonT(60) DEF Rewrites, SeenAs
  <2> HIDE DEF v
  <2> QED
    BY <2>1, SMTT(30) DEF StripTopic
<1>5. ResponseOut(p, Advertised, Answer(k, s))
         = [api |-> r.api, entries |-> {StripTopic(p, e) : e \in E}]
  <2> HIDE DEF E
  <2>1. ResponseOut(p, Advertised, Answer(k, s)) = StripTopics(p, Answer(k, s))
    BY <1>2 DEF ResponseOut, OffsetDeleteResponseOut
  <2>2. StripTopics(p, [api |-> r.api, entries |-> E])
           = [api |-> r.api, entries |-> {StripTopic(p, e) : e \in E}]
    BY StripTopicsIs, Zenon
  <2> QED
    BY <1>2, <2>1, <2>2, Zenon
<1>6. {StripTopic(p, e) : e \in E} = F
  <2> HIDE DEF G, H, v
  <2> QED
    BY <1>4 DEF PrefixAll
<1> QED
  BY <1>3, <1>5, <1>6, Zenon DEF SameAnswer, v

\* The same for OffsetFetch, of named topics and of all
\* (OffsetFetchResponseOut).
LEMMA OffsetFetchAnswer ==
    ASSUME NEW name, NEW p, Rewrites(name, p), NEW k, SliceOK(name, p, k),
           NEW r \in Request(name), NEW s, Forwarded(p, r, s), Regular(r),
           r.api = "OffsetFetch"
    PROVE  SameAnswer(name, p, k, s, r)
<1> DEFINE v == See(name, p, k)
           G(g, t) == [group |-> g, topic |-> t, value |-> At(Group(k, g).offsets, t, Unknown)]
           H(g, t) == [group |-> g, topic |-> t, value |-> At(Group(v, g).offsets, t, Unknown)]
           U(g) == FetchedTopics(k, s, g)
           V(g) == FetchedTopics(v, r, g)
           G2 == PrefixAll(p, r.groups)
           E == UNION {{G(g, t) : t \in U(g)} : g \in G2}
           F == UNION {{H(g, t) : t \in V(g)} : g \in r.groups}
<1>1. /\ s.api = r.api /\ s.topics = PrefixAll(p, r.topics) /\ s.groups = G2 /\ s.all = r.all
      /\ r.topics \subseteq name /\ r.groups \subseteq name
  BY DEF Forwarded, TopicNaming, GroupNaming, Request
<1>2. Answer(k, s) = [api |-> r.api, entries |-> E]
  <2> HIDE DEF G2
  <2> QED
    BY <1>1 DEF Answer, Answered
<1>3. Answer(v, r) = [api |-> r.api, entries |-> F]
  BY DEF Answer, Answered
<1>4. ASSUME NEW g \in r.groups
      PROVE  V(g) \subseteq name /\ U(PrefixIn(p, g)) = PrefixAll(p, V(g))
  <2>1. /\ DOMAIN Group(v, g).offsets \subseteq name
        /\ DOMAIN Group(k, PrefixIn(p, g)).offsets = PrefixAll(p, DOMAIN Group(v, g).offsets)
    <3>1. g \in name
      BY <1>1, SMTT(30)
    <3>2. SeenAs(name, p, Group(k, PrefixIn(p, g)), Group(v, g))
      BY <3>1, GroupFacts, ZenonT(60)
    <3> HIDE DEF v
    <3> QED
      BY <3>2, ZenonT(60) DEF SeenAs
  <2> HIDE DEF v
  <2> QED
    BY <1>1, <2>1, SMTT(30) DEF FetchedTopics
<1>5. ASSUME NEW g \in r.groups, NEW t \in name
      PROVE  StripGroup(p, StripTopic(p, G(PrefixIn(p, g), PrefixIn(p, t)))) = H(g, t)
  <2>1. /\ StripOut(p, PrefixIn(p, t)) = t /\ StripOut(p, PrefixIn(p, g)) = g
        /\ At(Group(v, g).offsets, t, Unknown)
              = At(Group(k, PrefixIn(p, g)).offsets, PrefixIn(p, t), Unknown)
    <3>1. g \in name
      BY <1>1, SMTT(30)
    <3>2. \A n \in name : At(Group(v, g).offsets, n, Unknown)
                            = At(Group(k, PrefixIn(p, g)).offsets, PrefixIn(p, n), Unknown)
      <4>1. SeenAs(name, p, Group(k, PrefixIn(p, g)), Group(v, g))
        BY <3>1, GroupFacts, ZenonT(60)
      <4> HIDE DEF v
      <4> QED
        BY <4>1, ZenonT(60) DEF SeenAs
    <3> HIDE DEF v
    <3> QED
      BY <3>1, <3>2 DEF Rewrites
  <2> DEFINE x == At(Group(k, PrefixIn(p, g)).offsets, PrefixIn(p, t), Unknown)
  <2>2. /\ G(PrefixIn(p, g), PrefixIn(p, t))
             = [group |-> PrefixIn(p, g), topic |-> PrefixIn(p, t), value |-> x]
        /\ H(g, t) = [group |-> g, topic |-> t, value |-> x]
    BY <2>1
  <2> HIDE DEF G, H, x, v
  <2>3. StripTopic(p, G(PrefixIn(p, g), PrefixIn(p, t)))
          = [group |-> PrefixIn(p, g), topic |-> t, value |-> x]
    BY <2>1, <2>2 DEF StripTopic
  <2>4. StripGroup(p, StripTopic(p, G(PrefixIn(p, g), PrefixIn(p, t))))
          = [group |-> g, topic |-> t, value |-> x]
    BY <2>1, <2>3 DEF StripGroup
  <2> QED
    BY <2>2, <2>4, SMTT(30)
<1>6. ResponseOut(p, Advertised, Answer(k, s))
         = [api |-> r.api,
            entries |-> {StripGroup(p, e) : e \in {StripTopic(p, e) : e \in E}}]
  <2> HIDE DEF E
  <2>1. ResponseOut(p, Advertised, Answer(k, s)) = StripGroups(p, StripTopics(p, Answer(k, s)))
    BY <1>2 DEF ResponseOut, OffsetFetchResponseOut
  <2> DEFINE X == {StripTopic(p, e) : e \in E}
  <2>2. StripTopics(p, Answer(k, s)) = [api |-> r.api, entries |-> X]
    BY <1>2, StripTopicsIs
  <2> HIDE DEF X
  <2>3. StripGroups(p, [api |-> r.api, entries |-> X])
          = [api |-> r.api, entries |-> {StripGroup(p, e) : e \in X}]
    BY StripGroupsIs
  <2> QED
    BY <2>1, <2>2, <2>3, Zenon DEF X
<1>7. {StripGroup(p, e) : e \in {StripTopic(p, e) : e \in E}} = F
  <2> HIDE DEF G, H, v, U, V
  <2> DEFINE Z(e) == StripGroup(p, StripTopic(p, e))
  <2>1. {StripGroup(p, e) : e \in {StripTopic(p, e) : e \in E}} = {Z(e) : e \in E}
    <3> HIDE DEF E
    <3> QED
      OBVIOUS
  <2>2. ASSUME NEW g \in r.groups, NEW t \in V(g)
        PROVE  Z(G(PrefixIn(p, g), PrefixIn(p, t))) = H(g, t)
    BY <1>4, <1>5
  <2> HIDE DEF Z
  <2>3. ASSUME NEW e \in E
        PROVE  \E g \in r.groups : \E t \in V(g) : e = G(PrefixIn(p, g), PrefixIn(p, t))
    <3>1. PICK g \in r.groups : e \in {G(PrefixIn(p, g), t) : t \in U(PrefixIn(p, g))}
      BY DEF PrefixAll
    <3> QED
      BY <1>4, <3>1 DEF PrefixAll
  <2>4. ASSUME NEW g \in r.groups, NEW t \in V(g)
        PROVE  G(PrefixIn(p, g), PrefixIn(p, t)) \in E
    <3>1. PrefixIn(p, t) \in U(PrefixIn(p, g)) /\ PrefixIn(p, g) \in G2
      BY <1>4 DEF PrefixAll
    <3> HIDE DEF G2
    <3> QED
      BY <3>1
  <2>5. \A g \in r.groups : \A t \in V(g) : H(g, t) \in F
    OBVIOUS
  <2>6. \A x \in F : \E g \in r.groups : \E t \in V(g) : x = H(g, t)
    OBVIOUS
  <2> HIDE DEF E, F
  <2>7. \A x \in {Z(e) : e \in E} : x \in F
    BY <2>2, <2>3, <2>5
  <2>8. \A x \in F : x \in {Z(e) : e \in E}
    BY <2>2, <2>4, <2>6
  <2> QED
    BY <2>1, <2>7, <2>8, Zenon
<1> QED
  BY <1>3, <1>6, <1>7, Zenon DEF SameAnswer, v

\* The same for Heartbeat and LeaveGroup, whose responses have no names.
LEMMA MemberAnswer ==
    ASSUME NEW name, NEW p, Rewrites(name, p), NEW k, SliceOK(name, p, k),
           NEW r \in Request(name), NEW s, Forwarded(p, r, s), Regular(r),
           r.api \in {"Heartbeat", "LeaveGroup"}
    PROVE  SameAnswer(name, p, k, s, r)
<1> DEFINE v == See(name, p, k)
           G(g) == [value |-> Joined(k, g)]
           H(g) == [value |-> Joined(v, g)]
<1>1. s.api = r.api /\ s.groups = PrefixAll(p, r.groups) /\ r.groups \subseteq name
  BY DEF Forwarded, GroupNaming, Request
<1>2. Answer(k, s) = [api |-> r.api, entries |-> {G(g) : g \in PrefixAll(p, r.groups)}]
  BY <1>1 DEF Answer, Answered
<1>3. Answer(v, r) = [api |-> r.api, entries |-> {H(g) : g \in r.groups}]
  BY DEF Answer, Answered
<1>4. ASSUME NEW g \in r.groups
      PROVE  G(PrefixIn(p, g)) = H(g)
  <2>1. Joined(v, g) = Joined(k, PrefixIn(p, g))
    <3>1. g \in name
      BY <1>1, SMTT(30)
    <3>2. SeenAs(name, p, Group(k, PrefixIn(p, g)), Group(v, g))
      BY <3>1, GroupFacts, ZenonT(60)
    <3> HIDE DEF v
    <3> QED
      BY <3>2 DEF Joined, SeenAs
  <2> QED
    BY <2>1, ZenonT(60)
<1> HIDE DEF G, H, v
<1>5. ResponseOut(p, Advertised, Answer(k, s)) = Answer(k, s)
  BY <1>2, SMTT(30) DEF ResponseOut
<1>6. {G(g) : g \in PrefixAll(p, r.groups)} = {H(g) : g \in r.groups}
  BY <1>4 DEF PrefixAll
<1> QED
  BY <1>2, <1>3, <1>5, <1>6, ZenonT(60) DEF SameAnswer, v

\* The same for DescribeGroups, the members' subscriptions and assignments
\* included (DescribeGroupsResponseOut).
LEMMA DescribeGroupsAnswer ==
    ASSUME NEW name, NEW p, Rewrites(name, p), NEW k, SliceOK(name, p, k),
           NEW r \in Request(name), NEW s, Forwarded(p, r, s), Regular(r),
           r.api = "DescribeGroups"
    PROVE  SameAnswer(name, p, k, s, r)
<1> DEFINE v == See(name, p, k)
           G(g) == [group |-> g, type |-> Group(k, g).type, sub |-> Group(k, g).sub,
                    asg |-> Group(k, g).asg]
           H(g) == [group |-> g, type |-> Group(v, g).type, sub |-> Group(v, g).sub,
                    asg |-> Group(v, g).asg]
           E == {G(g) : g \in PrefixAll(p, r.groups)}
<1>1. s.api = r.api /\ s.groups = PrefixAll(p, r.groups) /\ r.groups \subseteq name
  BY DEF Forwarded, GroupNaming, Request
<1>2. Answer(k, s) = [api |-> r.api, entries |-> E]
  BY <1>1 DEF Answer, Answered
<1>3. Answer(v, r) = [api |-> r.api, entries |-> {H(g) : g \in r.groups}]
  BY DEF Answer, Answered
<1>4. ASSUME NEW g \in r.groups
      PROVE  StripGroup(p, StripMembers(p, G(PrefixIn(p, g)))) = H(g)
  <2> DEFINE a == Group(k, PrefixIn(p, g))
             b == Group(v, g)
  <2>1. /\ b.type = a.type /\ b.sub = stripBlob(p, a.sub) /\ b.asg = stripBlob(p, a.asg)
        /\ a.type \notin {"none", "consumer"} => b.sub = a.sub /\ b.asg = a.asg
        /\ StripOut(p, PrefixIn(p, g)) = g
    <3>1. g \in name
      BY <1>1, SMTT(30)
    <3>2. /\ b.type = a.type /\ b.sub = stripBlob(p, a.sub) /\ b.asg = stripBlob(p, a.asg)
          /\ a.type \notin {"none", "consumer"} => b.sub = a.sub /\ b.asg = a.asg
      <4>1. SeenAs(name, p, a, b)
        BY <3>1, GroupFacts, ZenonT(60)
      <4> HIDE DEF a, b
      <4> QED
        BY <4>1, ZenonT(60) DEF SeenAs
    <3> HIDE DEF a, b
    <3> QED
      BY <3>1, <3>2 DEF Rewrites
  <2>2. /\ G(PrefixIn(p, g)) = [group |-> PrefixIn(p, g), type |-> a.type, sub |-> a.sub,
                                asg |-> a.asg]
        /\ H(g) = [group |-> g, type |-> b.type, sub |-> b.sub, asg |-> b.asg]
    BY ZenonT(60)
  <2> HIDE DEF G, H, a, b
  <2>3. StripMembers(p, G(PrefixIn(p, g)))
          = [group |-> PrefixIn(p, g), type |-> b.type, sub |-> b.sub, asg |-> b.asg]
    <3>1. /\ G(PrefixIn(p, g)).group = PrefixIn(p, g) /\ G(PrefixIn(p, g)).type = a.type
          /\ G(PrefixIn(p, g)).sub = a.sub /\ G(PrefixIn(p, g)).asg = a.asg
      BY <2>2
    <3>2. CASE a.type \in {"none", "consumer"}
      BY <2>1, <3>1, <3>2, Zenon DEF StripMembers
    <3>3. CASE a.type \notin {"none", "consumer"}
      BY <2>1, <2>2, <3>1, <3>3 DEF StripMembers
    <3> QED
      BY <3>2, <3>3
  <2>4. StripGroup(p, StripMembers(p, G(PrefixIn(p, g))))
          = [group |-> g, type |-> b.type, sub |-> b.sub, asg |-> b.asg]
    BY <2>1, <2>3 DEF StripGroup
  <2> QED
    BY <2>2, <2>4
<1> HIDE DEF G, H, v
<1>5. ResponseOut(p, Advertised, Answer(k, s))
         = [api |-> r.api, entries |-> {StripGroup(p, e) : e \in {StripMembers(p, e) : e \in E}}]
  <2> HIDE DEF E
  <2> DEFINE X == {StripMembers(p, e) : e \in E}
             R == [api |-> r.api, entries |-> E]
  <2>1. ResponseOut(p, Advertised, R) = DescribeGroupsResponseOut(p, R)
    BY DEF ResponseOut
  <2>2. DescribeGroupsResponseOut(p, R) = StripGroups(p, [R EXCEPT !.entries = X])
    BY DEF DescribeGroupsResponseOut
  <2> HIDE DEF X
  <2>3. [R EXCEPT !.entries = X] = [api |-> r.api, entries |-> X]
    OBVIOUS
  <2>4. StripGroups(p, [api |-> r.api, entries |-> X])
          = [api |-> r.api, entries |-> {StripGroup(p, e) : e \in X}]
    BY StripGroupsIs
  <2> QED
    BY <1>2, <2>1, <2>2, <2>3, <2>4, Zenon DEF X
<1>6. {StripGroup(p, e) : e \in {StripMembers(p, e) : e \in E}} = {H(g) : g \in r.groups}
  BY <1>4 DEF PrefixAll
<1> QED
  BY <1>3, <1>5, <1>6, Zenon DEF SameAnswer, v

\* The same for ListGroups: ListGroupsResponseOut drops the groups of the
\* others.
LEMMA ListGroupsAnswer ==
    ASSUME NEW name, NEW p, Rewrites(name, p), NEW k, SliceOK(name, p, k),
           NEW r \in Request(name), NEW s, Forwarded(p, r, s), Regular(r),
           r.api = "ListGroups"
    PROVE  SameAnswer(name, p, k, s, r)
<1> DEFINE v == See(name, p, k)
           G(g) == [group |-> g, type |-> k.groups[g].type]
           H(g) == [group |-> g, type |-> v.groups[g].type]
           B(e) == BelongsToTenant(p, e.group)
           E == {G(g) : g \in DOMAIN k.groups}
<1>1. s.api = r.api
  BY DEF Forwarded
<1>2. Answer(k, s) = [api |-> r.api, entries |-> E]
  BY <1>1 DEF Answer, Answered
<1>3. Answer(v, r) = [api |-> r.api, entries |-> {H(g) : g \in DOMAIN v.groups}]
  BY DEF Answer, Answered
<1>4. /\ DOMAIN v.groups \subseteq name
      /\ \A g \in name : g \in DOMAIN v.groups <=> PrefixIn(p, g) \in DOMAIN k.groups
      /\ \A n \in DOMAIN k.groups : BelongsToTenant(p, n) => n \in PrefixAll(p, name)
      /\ \A g \in DOMAIN v.groups : v.groups[g].type = k.groups[PrefixIn(p, g)].type
  BY Zenon DEF See, SeeGroups, SeeGroup, Seen, SliceOK, Own
<1> HIDE DEF v
<1>5. ASSUME NEW g \in DOMAIN v.groups
      PROVE  StripGroup(p, G(PrefixIn(p, g))) = H(g)
  <2>1. StripOut(p, PrefixIn(p, g)) = g /\ v.groups[g].type = k.groups[PrefixIn(p, g)].type
    BY <1>4 DEF Rewrites
  <2> QED
    BY <2>1 DEF StripGroup
<1>6. \A n : B(G(n)) <=> BelongsToTenant(p, n)
  OBVIOUS
<1> HIDE DEF G, H
<1>7. ResponseOut(p, Advertised, Answer(k, s))
         = [api |-> r.api, entries |-> {StripGroup(p, e) : e \in {e \in E : B(e)}}]
  <2> HIDE DEF E
  <2>1. ResponseOut(p, Advertised, Answer(k, s)) = StripGroups(p, OwnedGroups(p, Answer(k, s)))
    BY <1>2 DEF ResponseOut, ListGroupsResponseOut
  <2>2. OwnedGroups(p, Answer(k, s)) = [api |-> r.api, entries |-> {e \in E : B(e)}]
    BY <1>2 DEF OwnedGroups
  <2> HIDE DEF B
  <2>3. StripGroups(p, [api |-> r.api, entries |-> {e \in E : B(e)}])
          = [api |-> r.api, entries |-> {StripGroup(p, e) : e \in {e \in E : B(e)}}]
    BY StripGroupsIs
  <2> QED
    BY <2>1, <2>2, <2>3, Zenon
<1> HIDE DEF B
<1>8. {StripGroup(p, e) : e \in {e \in E : B(e)}} = {H(g) : g \in DOMAIN v.groups}
  <2>1. \A g \in DOMAIN v.groups : PrefixIn(p, g) \in DOMAIN k.groups /\ B(G(PrefixIn(p, g)))
    BY <1>4, <1>6 DEF Rewrites
  <2>2. \A n \in DOMAIN k.groups : B(G(n)) => \E g \in DOMAIN v.groups : n = PrefixIn(p, g)
    BY <1>4, <1>6 DEF PrefixAll
  <2> QED
    BY <1>5, <2>1, <2>2
<1> QED
  BY <1>3, <1>7, <1>8, ZenonT(60) DEF SameAnswer, v

\* The same for DeleteGroups (DeleteGroupsResponseOut).
LEMMA DeleteGroupsAnswer ==
    ASSUME NEW name, NEW p, Rewrites(name, p), NEW k, SliceOK(name, p, k),
           NEW r \in Request(name), NEW s, Forwarded(p, r, s), Regular(r),
           r.api = "DeleteGroups"
    PROVE  SameAnswer(name, p, k, s, r)
<1> DEFINE v == See(name, p, k)
           G(g) == [group |-> g, value |-> g \in DOMAIN k.groups]
           H(g) == [group |-> g, value |-> g \in DOMAIN v.groups]
<1>1. s.api = r.api /\ s.groups = PrefixAll(p, r.groups) /\ r.groups \subseteq name
  BY DEF Forwarded, GroupNaming, Request
<1>2. Answer(k, s) = [api |-> r.api, entries |-> {G(g) : g \in PrefixAll(p, r.groups)}]
  BY <1>1 DEF Answer, Answered
<1>3. Answer(v, r) = [api |-> r.api, entries |-> {H(g) : g \in r.groups}]
  BY DEF Answer, Answered
<1>4. ASSUME NEW g \in r.groups
      PROVE  StripGroup(p, G(PrefixIn(p, g))) = H(g)
  <2>1. /\ StripOut(p, PrefixIn(p, g)) = g
        /\ g \in DOMAIN v.groups <=> PrefixIn(p, g) \in DOMAIN k.groups
    BY <1>1, SeeAt, SMTT(30) DEF Rewrites
  <2> HIDE DEF v
  <2> QED
    BY <2>1, SMTT(30) DEF StripGroup
<1> HIDE DEF G, H, v
<1>5. ResponseOut(p, Advertised, Answer(k, s))
         = [api |-> r.api,
            entries |-> {StripGroup(p, e) : e \in {G(g) : g \in PrefixAll(p, r.groups)}}]
  <2>1. ResponseOut(p, Advertised, Answer(k, s)) = StripGroups(p, Answer(k, s))
    BY <1>2 DEF ResponseOut, DeleteGroupsResponseOut
  <2> QED
    BY <1>2, <2>1, StripGroupsIs
<1>6. {StripGroup(p, e) : e \in {G(g) : g \in PrefixAll(p, r.groups)}} = {H(g) : g \in r.groups}
  BY <1>4 DEF PrefixAll
<1> QED
  BY <1>3, <1>5, <1>6, Zenon DEF SameAnswer, v

\* The same for AddPartitionsToTxn (AddPartitionsToTxnResponseOut).
LEMMA AddPartitionsAnswer ==
    ASSUME NEW name, NEW p, Rewrites(name, p), NEW k, SliceOK(name, p, k),
           NEW r \in Request(name), NEW s, Forwarded(p, r, s), Regular(r),
           r.api = "AddPartitionsToTxn"
    PROVE  SameAnswer(name, p, k, s, r)
<1> DEFINE v == See(name, p, k)
           G(x, t) == [txn |-> x, topic |-> t, value |-> x \in DOMAIN k.txns]
           H(x, t) == [txn |-> x, topic |-> t, value |-> x \in DOMAIN v.txns]
           T2 == PrefixAll(p, r.topics)
           X2 == PrefixAll(p, r.txns)
           E == {G(x, t) : x \in X2, t \in T2}
           F == {H(x, t) : x \in r.txns, t \in r.topics}
<1>1. /\ s.api = r.api /\ s.topics = T2 /\ s.txns = X2
      /\ r.topics \subseteq name /\ r.txns \subseteq name
  BY DEF Forwarded, TopicNaming, TxnNaming, Request
<1>2. Answer(k, s) = [api |-> r.api, entries |-> E]
  <2> HIDE DEF T2, X2
  <2> QED
    BY <1>1 DEF Answer, Answered
<1>3. Answer(v, r) = [api |-> r.api, entries |-> F]
  BY DEF Answer, Answered
<1>4. ASSUME NEW x \in r.txns, NEW t \in r.topics
      PROVE  StripTxn(p, StripTopic(p, G(PrefixIn(p, x), PrefixIn(p, t)))) = H(x, t)
  <2>1. /\ StripOut(p, PrefixIn(p, t)) = t /\ StripOut(p, PrefixIn(p, x)) = x
        /\ x \in DOMAIN v.txns <=> PrefixIn(p, x) \in DOMAIN k.txns
    BY <1>1, SeeAt, ZenonT(60) DEF Rewrites
  <2> DEFINE y == PrefixIn(p, x) \in DOMAIN k.txns
  <2> HIDE DEF v
  <2>2. G(PrefixIn(p, x), PrefixIn(p, t)) = [txn |-> PrefixIn(p, x), topic |-> PrefixIn(p, t), value |-> y]
    BY ZenonT(60)
  <2>3. H(x, t) = [txn |-> x, topic |-> t, value |-> y]
    BY <2>1
  <2> HIDE DEF G, H, y
  <2>4. StripTopic(p, G(PrefixIn(p, x), PrefixIn(p, t)))
          = [txn |-> PrefixIn(p, x), topic |-> t, value |-> y]
    BY <2>1, <2>2 DEF StripTopic
  <2>5. StripTxn(p, StripTopic(p, G(PrefixIn(p, x), PrefixIn(p, t))))
          = [txn |-> x, topic |-> t, value |-> y]
    BY <2>1, <2>4 DEF StripTxn
  <2> QED
    BY <2>3, <2>5, SMTT(30)
<1>5. ResponseOut(p, Advertised, Answer(k, s))
         = [api |-> r.api, entries |-> {StripTxn(p, e) : e \in {StripTopic(p, e) : e \in E}}]
  <2> HIDE DEF E
  <2>1. ResponseOut(p, Advertised, Answer(k, s)) = StripTxns(p, StripTopics(p, Answer(k, s)))
    BY <1>2 DEF ResponseOut, AddPartitionsToTxnResponseOut
  <2> DEFINE X == {StripTopic(p, e) : e \in E}
  <2>2. StripTopics(p, Answer(k, s)) = [api |-> r.api, entries |-> X]
    BY <1>2, StripTopicsIs
  <2> HIDE DEF X
  <2>3. StripTxns(p, [api |-> r.api, entries |-> X])
          = [api |-> r.api, entries |-> {StripTxn(p, e) : e \in X}]
    BY StripTxnsIs
  <2> QED
    BY <2>1, <2>2, <2>3, Zenon DEF X
<1>6. {StripTxn(p, e) : e \in {StripTopic(p, e) : e \in E}} = F
  <2> DEFINE Z(e) == StripTxn(p, StripTopic(p, e))
  <2>1. {StripTxn(p, e) : e \in {StripTopic(p, e) : e \in E}} = {Z(e) : e \in E}
    <3> HIDE DEF E
    <3> QED
      OBVIOUS
  <2> HIDE DEF G, H, v
  <2>2. \A x \in r.txns, t \in r.topics : Z(G(PrefixIn(p, x), PrefixIn(p, t))) = H(x, t)
    BY <1>4
  <2> HIDE DEF Z
  <2>3. \A e \in E : \E x \in r.txns, t \in r.topics : e = G(PrefixIn(p, x), PrefixIn(p, t))
    BY DEF PrefixAll
  <2>4. \A x \in r.txns, t \in r.topics : G(PrefixIn(p, x), PrefixIn(p, t)) \in E
    BY DEF PrefixAll
  <2>5. \A x \in r.txns, t \in r.topics : H(x, t) \in F
    OBVIOUS
  <2>6. \A y \in F : \E x \in r.txns, t \in r.topics : y = H(x, t)
    OBVIOUS
  <2> HIDE DEF E, F
  <2>7. \A y \in {Z(e) : e \in E} : y \in F
    BY <2>2, <2>3, <2>5
  <2>8. \A y \in F : y \in {Z(e) : e \in E}
    BY <2>2, <2>4, <2>6
  <2> QED
    BY <2>1, <2>7, <2>8
<1> HIDE DEF E, F, v
<1> QED
  BY <1>3, <1>5, <1>6, ZenonT(60) DEF SameAnswer, v

\* The transactions a request names are all open for the tenant if they are in
\* the shared cluster.
LEMMA OpenSame ==
    ASSUME NEW name, NEW p, Rewrites(name, p), NEW k,
           NEW r \in Request(name), NEW s, Forwarded(p, r, s), r.api \in TxnNaming
    PROVE  OpenTxns(k, s) = s.txns <=> OpenTxns(See(name, p, k), r) = r.txns
<1>1. s.txns = PrefixAll(p, r.txns) /\ r.txns \subseteq name
  BY DEF Forwarded, Request
<1>2. \A m \in r.txns : m \in DOMAIN See(name, p, k).txns <=> PrefixIn(p, m) \in DOMAIN k.txns
  BY <1>1, SeeAt
<1> QED
  BY <1>1, <1>2 DEF OpenTxns, PrefixAll

\* The same for TxnOffsetCommit (TxnOffsetCommitResponseOut).
LEMMA TxnCommitAnswer ==
    ASSUME NEW name, NEW p, Rewrites(name, p), NEW k, SliceOK(name, p, k),
           NEW r \in Request(name), NEW s, Forwarded(p, r, s), Regular(r),
           r.api = "TxnOffsetCommit"
    PROVE  SameAnswer(name, p, k, s, r)
<1> DEFINE v == See(name, p, k)
           a == OpenTxns(k, s) = s.txns
           b == OpenTxns(v, r) = r.txns
           G(t) == [topic |-> t, value |-> a]
           H(t) == [topic |-> t, value |-> b]
<1>1. s.api = r.api /\ s.topics = PrefixAll(p, r.topics) /\ r.topics \subseteq name
  BY DEF Forwarded, TopicNaming, Request
<1>2. Answer(k, s) = [api |-> r.api, entries |-> {G(t) : t \in PrefixAll(p, r.topics)}]
  BY <1>1 DEF Answer, Answered
<1>3. Answer(v, r) = [api |-> r.api, entries |-> {H(t) : t \in r.topics}]
  BY DEF Answer, Answered
<1>4. a = b
  BY OpenSame DEF TxnNaming
<1> HIDE DEF a, b
<1>5. \A t \in r.topics : StripTopic(p, G(PrefixIn(p, t))) = H(t)
  BY <1>1, <1>4, StripTopicIs, SMTT(30) DEF Rewrites
<1> HIDE DEF G, H, v
<1>6. ResponseOut(p, Advertised, Answer(k, s))
         = [api |-> r.api,
            entries |-> {StripTopic(p, e) : e \in {G(t) : t \in PrefixAll(p, r.topics)}}]
  <2>1. ResponseOut(p, Advertised, Answer(k, s)) = StripTopics(p, Answer(k, s))
    BY <1>2 DEF ResponseOut, TxnOffsetCommitResponseOut
  <2> QED
    BY <1>2, <2>1, StripTopicsIs
<1>7. {StripTopic(p, e) : e \in {G(t) : t \in PrefixAll(p, r.topics)}} = {H(t) : t \in r.topics}
  BY <1>5 DEF PrefixAll
<1> QED
  BY <1>3, <1>6, <1>7, Zenon DEF SameAnswer, v

\* The same for the transactional requests whose responses have no names.
LEMMA TxnAnswer ==
    ASSUME NEW name, NEW p, Rewrites(name, p), NEW k, SliceOK(name, p, k),
           NEW r \in Request(name), NEW s, Forwarded(p, r, s), Regular(r),
           r.api \in {"InitProducerID", "AddOffsetsToTxn", "EndTxn"}
    PROVE  SameAnswer(name, p, k, s, r)
<1> DEFINE v == See(name, p, k)
           a == OpenTxns(k, s) = s.txns
           b == OpenTxns(v, r) = r.txns
<1>1. s.api = r.api
  BY DEF Forwarded
<1>2. Answer(k, s) = [api |-> r.api, entries |-> {[value |-> a]}]
  BY <1>1 DEF Answer, Answered
<1>3. Answer(v, r) = [api |-> r.api, entries |-> {[value |-> b]}]
  BY DEF Answer, Answered
<1>4. a = b
  BY OpenSame DEF TxnNaming
<1> HIDE DEF a, b, v
<1>5. ResponseOut(p, Advertised, Answer(k, s)) = Answer(k, s)
  BY <1>2 DEF ResponseOut
<1> QED
  BY <1>2, <1>3, <1>4, <1>5, ZenonT(60) DEF SameAnswer, v

\* A member of a group whose type is not the consumers' keeps it so.
LEMMA OtherType ==
    ASSUME NEW k, "groups" \in DOMAIN k, NEW s, s.api \in {"JoinGroup", "SyncGroup"},
           ~MaybeConsumer(s.type), NEW g \in s.groups, GroupAccepts(k, s, g),
           {"type", "sub", "asg", "offsets"} \subseteq DOMAIN Group(k, g)
    PROVE  Group(After(k, s), g).type # "consumer"
<1>1. CASE s.api = "JoinGroup"
  <2> DEFINE h == [n \in {n \in s.groups : GroupAccepts(k, s, n)} |->
                      MemberOf(Group(k, n), s.type, s.blob)]
  <2>1. After(k, s) = [k EXCEPT !.groups = Over(h, k.groups)]
    BY <1>1 DEF After, SetGroups
  <2>2. g \in DOMAIN h /\ h[g].type = s.type
    BY DEF MemberOf
  <2> HIDE DEF h
  <2>3. Group(After(k, s), g) = h[g]
    BY <2>1, <2>2 DEF Group, At, Over
  <2> QED
    BY <2>2, <2>3 DEF MaybeConsumer
<1>2. CASE s.api = "SyncGroup"
  <2> DEFINE h == [n \in {n \in s.groups : GroupAccepts(k, s, n)} |->
                      [Group(k, n) EXCEPT !.asg = s.blob]]
  <2>1. After(k, s) = [k EXCEPT !.groups = Over(h, k.groups)]
    BY <1>2 DEF After, SetGroups
  <2>2. g \in DOMAIN h /\ h[g].type = Group(k, g).type
    OBVIOUS
  <2> HIDE DEF h
  <2>3. Group(After(k, s), g) = h[g]
    BY <2>1, <2>2, SMTT(30) DEF Group, At, Over
  <2> QED
    BY <1>2, <2>2, <2>3 DEF MaybeConsumer, GroupAccepts
<1> QED
  BY <1>1, <1>2

\* The group coordinator accepts the JoinGroup or SyncGroup of the tenant in its
\* slice exactly when the dedicated one accepts it: the prefixed blob has the
\* format of the client's, and the groups have the same type.
LEMMA JoinSyncAccepts ==
    ASSUME NEW name, NEW p, Rewrites(name, p), NEW k, SliceOK(name, p, k),
           NEW r \in Request(name), NEW s, Forwarded(p, r, s), Regular(r),
           r.api \in {"JoinGroup", "SyncGroup"}, NEW g \in r.groups
    PROVE  GroupAccepts(See(name, p, k), r, g) <=> GroupAccepts(k, s, PrefixIn(p, g))
<1> DEFINE v == See(name, p, k)
<1>1. g \in name /\ s.api = r.api /\ s.type = r.type /\ s.old = r.old
  BY SMTT(30) DEF Forwarded, GroupNaming, Request
<1>2. s.blob.fmt = r.blob.fmt
  BY StripPrefixBlob, SMTT(30) DEF Forwarded, Request
<1>3. Group(v, g).type = Group(k, PrefixIn(p, g)).type
  <2>1. SeenAs(name, p, Group(k, PrefixIn(p, g)), Group(v, g))
    BY <1>1, GroupFacts, ZenonT(60)
  <2> QED
    BY <2>1, ZenonT(60) DEF SeenAs
<1> HIDE DEF v
<1> QED
  BY <1>1, <1>2, <1>3, SMTT(30) DEF GroupAccepts, Joined, v

\* The same for JoinGroup and SyncGroup: the members and the assignment of the
\* response are stripped (JoinGroupResponseOut, SyncGroupResponseOut).
LEMMA JoinSyncAnswer ==
    ASSUME NEW name, NEW p, Rewrites(name, p), NEW k, SliceOK(name, p, k),
           NEW r \in Request(name), NEW s, Forwarded(p, r, s), Regular(r),
           r.api \in {"JoinGroup", "SyncGroup"}
    PROVE  SameAnswer(name, p, k, s, r)
<1> DEFINE v == See(name, p, k)
           n == After(k, s)
           w == After(v, r)
           type == IF r.old THEN "nil" ELSE r.type
           own(m, g) == IF r.api = "JoinGroup" THEN Group(m, g).sub ELSE Group(m, g).asg
           G(g) == [blob |-> IF ~GroupAccepts(k, s, g) THEN NoBlob ELSE own(n, g)]
           H(g) == [blob |-> IF ~GroupAccepts(v, r, g) THEN NoBlob ELSE own(w, g)]
           E == {G(g) : g \in PrefixAll(p, r.groups)}
           F == {H(g) : g \in r.groups}
<1>1. /\ s.api = r.api /\ s.groups = PrefixAll(p, r.groups) /\ r.groups \subseteq name
      /\ s.type = r.type /\ s.old = r.old
  BY DEF Forwarded, GroupNaming, Request
<1>2. Answer(k, s) = [api |-> r.api, type |-> type, entries |-> E]
  BY <1>1 DEF Answer
<1>3. Answer(v, r) = [api |-> r.api, type |-> type, entries |-> F]
  BY DEF Answer
<1>4. w = See(name, p, n) /\ SliceOK(name, p, n)
  BY GroupsSame DEF SameState, GroupWrites, TxnWrites
<1> HIDE DEF n, w, own, G, H, E, F, type
<1>6. ASSUME NEW g \in r.groups
      PROVE  GroupAccepts(v, r, g) <=> GroupAccepts(k, s, PrefixIn(p, g))
  BY JoinSyncAccepts, SMTT(30)
<1> HIDE DEF v
<1>7. ASSUME NEW g \in r.groups
      PROVE  /\ own(w, g) = stripBlob(p, own(n, PrefixIn(p, g)))
             /\ Group(n, PrefixIn(p, g)).type # "consumer" => own(w, g) = own(n, PrefixIn(p, g))
  <2>1. /\ Group(See(name, p, n), g).sub = stripBlob(p, Group(n, PrefixIn(p, g)).sub)
        /\ Group(See(name, p, n), g).asg = stripBlob(p, Group(n, PrefixIn(p, g)).asg)
        /\ Group(n, PrefixIn(p, g)).type # "consumer" =>
              /\ Group(See(name, p, n), g).sub = Group(n, PrefixIn(p, g)).sub
              /\ Group(See(name, p, n), g).asg = Group(n, PrefixIn(p, g)).asg
    <3>1. g \in name
      BY <1>1, ZenonT(60)
    <3> QED
      <4>1. SeenAs(name, p, Group(n, PrefixIn(p, g)), Group(See(name, p, n), g))
        BY <1>4, <3>1, GroupFacts, ZenonT(60)
      <4> QED
        BY <4>1, ZenonT(60) DEF SeenAs
  <2> QED
    BY <1>4, <2>1, ZenonT(60) DEF own
<1>8. ASSUME NEW g \in r.groups, MaybeConsumer(type)
      PROVE  StripMember(p, G(PrefixIn(p, g))) = H(g)
  <2>1. stripBlob(p, NoBlob) = NoBlob
    BY DEF stripBlob, NoBlob
  <2>2. CASE GroupAccepts(v, r, g)
    BY <1>6, <1>7, <2>2 DEF StripMember, G, H
  <2>3. CASE ~GroupAccepts(v, r, g)
    BY <1>6, <2>1, <2>3 DEF StripMember, G, H
  <2> QED
    BY <2>2, <2>3, ZenonT(60)
<1>9. ASSUME NEW g \in r.groups, ~MaybeConsumer(type)
      PROVE  G(PrefixIn(p, g)) = H(g)
  <2>1. ~MaybeConsumer(s.type)
    BY <1>1, <1>9 DEF MaybeConsumer, type
  <2>2. CASE GroupAccepts(v, r, g)
    <3>1. /\ PrefixIn(p, g) \in s.groups /\ GroupAccepts(k, s, PrefixIn(p, g)) /\ g \in name
          /\ s.api \in {"JoinGroup", "SyncGroup"}
      BY <1>1, <1>6, <2>2 DEF PrefixAll
    <3>2. /\ "groups" \in DOMAIN k
          /\ {"type", "sub", "asg", "offsets"} \subseteq DOMAIN Group(k, PrefixIn(p, g))
      <4>1. IsCluster(k)
        BY DEF SliceOK
      <4>2. GroupOK(name, p, Group(k, PrefixIn(p, g)))
        BY <3>1, NamedGroupOK, Zenon
      <4> QED
        BY <4>1, <4>2 DEF IsCluster, GroupOK
    <3>3. Group(n, PrefixIn(p, g)).type # "consumer"
      <4>1. /\ PrefixIn(p, g) \in s.groups /\ GroupAccepts(k, s, PrefixIn(p, g))
            /\ s.api \in {"JoinGroup", "SyncGroup"}
        BY <3>1
      <4> QED
        BY <2>1, <3>2, <4>1, OtherType DEF n
    <3> QED
      BY <1>7, <2>2, <3>1, <3>3, SMTT(30) DEF G, H
  <2>3. CASE ~GroupAccepts(v, r, g)
    BY <1>6, <2>3 DEF G, H
  <2> QED
    BY <2>2, <2>3
<1>10. CASE MaybeConsumer(type)
  <2>1. {StripMember(p, e) : e \in E} = F
    BY <1>8, <1>10 DEF PrefixAll, E, F
  <2> DEFINE X == {StripMember(p, e) : e \in E}
             R == [api |-> r.api, type |-> type, entries |-> E]
  <2>2. ResponseOut(p, Advertised, R) = [R EXCEPT !.entries = X]
    BY <1>10 DEF ResponseOut, JoinGroupResponseOut, SyncGroupResponseOut
  <2>3. X = F
    BY <2>1
  <2> HIDE DEF X
  <2>4. [R EXCEPT !.entries = X] = [api |-> r.api, type |-> type, entries |-> X]
    OBVIOUS
  <2> QED
    BY <1>2, <1>3, <2>2, <2>3, <2>4, Zenon DEF SameAnswer, v
<1>11. CASE ~MaybeConsumer(type)
  <2>1. E = F
    BY <1>9, <1>11 DEF PrefixAll, E, F
  <2>2. ResponseOut(p, Advertised, Answer(k, s)) = Answer(k, s)
    BY <1>2, <1>11 DEF ResponseOut, JoinGroupResponseOut, SyncGroupResponseOut
  <2> QED
    BY <1>2, <1>3, <2>1, <2>2 DEF SameAnswer, v
<1> QED
  BY <1>10, <1>11

\* Whatever the API.
LEMMA SameStep ==
    ASSUME NEW name, NEW p, Rewrites(name, p), NEW k, SliceOK(name, p, k),
           NEW r \in Request(name), NEW s, Forwarded(p, r, s), Regular(r)
    PROVE  SameState(name, p, k, s, r) /\ SameAnswer(name, p, k, s, r)
<1>1. SameState(name, p, k, s, r)
  <2>1. CASE r.api \in TopicWrites \cup GroupWrites \cup TxnWrites
    BY <2>1, TopicsSame, GroupsSame, TxnsSame
  <2>2. CASE r.api \notin TopicWrites \cup GroupWrites \cup TxnWrites
    <3>1. After(See(name, p, k), r) = See(name, p, k)
      BY <2>2 DEF After, TopicWrites, GroupWrites, TxnWrites
    <3>2. After(k, s) = k
      BY <2>2 DEF After, TopicWrites, GroupWrites, TxnWrites, Forwarded
    <3> QED
      BY <3>1, <3>2, NoChange
  <2> QED
    BY <2>1, <2>2
<1>2. r.api \in RewrittenAPI
  BY DEF Request
<1>3. CASE r.api \in {"CreateTopics", "DeleteTopics", "Fetch", "ListOffsets", "Produce",
                      "Metadata", "DescribeConfigs", "FindCoordinator"}
  BY <1>1, <1>3, TopicsAnswer, ProduceAnswer, MetadataAnswer, DescribeConfigsAnswer,
     FindCoordinatorAnswer, SMTT(30)
<1>4. CASE r.api \in {"OffsetCommit", "OffsetDelete", "OffsetFetch", "Heartbeat", "LeaveGroup",
                      "DescribeGroups", "ListGroups", "DeleteGroups", "JoinGroup", "SyncGroup"}
  BY <1>1, <1>4, OffsetCommitAnswer, OffsetDeleteAnswer, OffsetFetchAnswer, MemberAnswer,
     DescribeGroupsAnswer, ListGroupsAnswer, DeleteGroupsAnswer, JoinSyncAnswer
<1>5. CASE r.api \in {"AddPartitionsToTxn", "TxnOffsetCommit", "InitProducerID",
                      "AddOffsetsToTxn", "EndTxn"}
  BY <1>1, <1>5, AddPartitionsAnswer, TxnCommitAnswer, TxnAnswer
<1> QED
  BY <1>1, <1>2, <1>3, <1>4, <1>5 DEF RewrittenAPI
=============================================================================
