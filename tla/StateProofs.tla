----------------------------- MODULE StateProofs ----------------------------
\* Proofs about SharedCluster: a request has the effect on the slice of its
\* tenant that it would have on a cluster of the tenant's own, API by API.

EXTENDS Slices, TLAPS

\* Different names stay different upstream (PrefixIn).
LEMMA PrefixInjective ==
    ASSUME NEW name, NEW p, Rewrites(name, p), NEW m \in name, NEW S, S \subseteq name
    PROVE  PrefixIn(p, m) \in PrefixAll(p, S) <=> m \in S
BY DEF Rewrites, PrefixAll

\* What the tenant finds under a name is what is there under the prefixed name.
LEMMA SeeAt ==
    ASSUME NEW name, NEW p, Rewrites(name, p), NEW k, NEW m \in name
    PROVE  /\ TopicState(See(name, p, k), m) = TopicState(k, PrefixIn(p, m))
           /\ m \in DOMAIN See(name, p, k).topics <=> PrefixIn(p, m) \in DOMAIN k.topics
           /\ m \in DOMAIN See(name, p, k).groups <=> PrefixIn(p, m) \in DOMAIN k.groups
           /\ m \in DOMAIN See(name, p, k).txns <=> PrefixIn(p, m) \in DOMAIN k.txns
           /\ Group(See(name, p, k), m) = SeeGroup(name, p, Group(k, PrefixIn(p, m)))
           /\ Txn(See(name, p, k), m) = SeenTxn(p, Txn(k, PrefixIn(p, m)))
<1>1. SeeTopics(name, p, << >>) = << >>
  BY DEF SeeTopics, Seen
<1>2. SeeGroup(name, p, NoGroup) = NoGroup
  BY <1>1 DEF SeeGroup, NoGroup, SeeBlob, MaybeConsumer
<1>3. SeenTxn(p, NoTxn) = NoTxn
  BY DEF SeenTxn, NoTxn, StripAll
<1> QED
  BY <1>2, <1>3 DEF See, SeeTopics, SeeGroups, SeeTxns, Seen, TopicState, Group, Txn, At

\* A blob that is prefixed and then stripped is the blob.
LEMMA StripPrefixBlob ==
    ASSUME NEW name, NEW p, Rewrites(name, p), NEW b \in [fmt : STRING, topics : SUBSET name]
    PROVE  stripBlob(p, prefixBlob(p, b)) = b /\ prefixBlob(p, b).fmt = b.fmt
<1>1. StripAll(p, PrefixAll(p, b.topics)) = b.topics
  BY DEF Rewrites, StripAll, PrefixAll
<1> QED
  BY <1>1 DEF stripBlob, prefixBlob

\* Every group the tenant can name is in order, the missing ones too.
LEMMA NamedGroupOK ==
    ASSUME NEW name, NEW p, NEW k, SliceOK(name, p, k), NEW m \in name
    PROVE  GroupOK(name, p, Group(k, PrefixIn(p, m)))
BY DEF SliceOK, Seen, Group, At, GroupOK, NoGroup, NoBlob

\* Setting prefixed names is, to the tenant, setting its own (topics and
\* offsets).
LEMMA SeeTopicsOver ==
    ASSUME NEW name, NEW p, Rewrites(name, p), NEW S, S \subseteq name, NEW f, NEW g, NEW h,
           DOMAIN g = S, DOMAIN h = PrefixAll(p, S), \A m \in S : g[m] = h[PrefixIn(p, m)]
    PROVE  /\ SeeTopics(name, p, Over(h, f)) = Over(g, SeeTopics(name, p, f))
           /\ SeeTopics(name, p, Over(f, h)) = Over(SeeTopics(name, p, f), g)
<1>1. \A m \in name : PrefixIn(p, m) \in PrefixAll(p, S) <=> m \in S
  BY PrefixInjective
<1> QED
  BY <1>1 DEF SeeTopics, Over, Seen

\* Setting prefixed names is, to the tenant, setting its own (groups).
LEMMA SeeGroupsOver ==
    ASSUME NEW name, NEW p, Rewrites(name, p), NEW S, S \subseteq name, NEW f, NEW g, NEW h,
           DOMAIN g = S, DOMAIN h = PrefixAll(p, S),
           \A m \in S : g[m] = SeeGroup(name, p, h[PrefixIn(p, m)])
    PROVE  SeeGroups(name, p, Over(h, f)) = Over(g, SeeGroups(name, p, f))
<1>1. \A m \in name : PrefixIn(p, m) \in PrefixAll(p, S) <=> m \in S
  BY PrefixInjective
<1> QED
  BY <1>1 DEF SeeGroups, Over, Seen

\* Setting prefixed names is, to the tenant, setting its own (transactions).
LEMMA SeeTxnsOver ==
    ASSUME NEW name, NEW p, Rewrites(name, p), NEW S, S \subseteq name, NEW f, NEW g, NEW h,
           DOMAIN g = S, DOMAIN h = PrefixAll(p, S),
           \A m \in S : g[m] = SeenTxn(p, h[PrefixIn(p, m)])
    PROVE  SeeTxns(name, p, Over(h, f)) = Over(g, SeeTxns(name, p, f))
<1>1. \A m \in name : PrefixIn(p, m) \in PrefixAll(p, S) <=> m \in S
  BY PrefixInjective
<1> QED
  BY <1>1 DEF SeeTxns, Over, Seen

\* Deleting prefixed names is, to the tenant, deleting its own (DeleteTopics,
\* DeleteGroups, OffsetDelete).
LEMMA SeeWithout ==
    ASSUME NEW name, NEW p, Rewrites(name, p), NEW S, S \subseteq name, NEW f
    PROVE  /\ SeeTopics(name, p, Without(f, PrefixAll(p, S))) = Without(SeeTopics(name, p, f), S)
           /\ SeeGroups(name, p, Without(f, PrefixAll(p, S))) = Without(SeeGroups(name, p, f), S)
<1>1. \A m \in name : PrefixIn(p, m) \in PrefixAll(p, S) <=> m \in S
  BY PrefixInjective
<1> QED
  BY <1>1 DEF SeeTopics, SeeGroups, Without, Restrict, Seen

\* A request that changes neither cluster has the same effect on both.
LEMMA NoChange ==
    ASSUME NEW name, NEW p, NEW k, SliceOK(name, p, k), NEW s, NEW r,
           After(k, s) = k, After(See(name, p, k), r) = See(name, p, k)
    PROVE  SameState(name, p, k, s, r)
BY DEF SameState, Grows

\* A change of the topics is the same on both clusters if the tenant sees it
\* so.
LEMMA TopicsChange ==
    ASSUME NEW name, NEW p, NEW k, SliceOK(name, p, k), NEW s, NEW r, NEW f, NEW g,
           After(k, s) = [k EXCEPT !.topics = f],
           After(See(name, p, k), r) = [See(name, p, k) EXCEPT !.topics = g],
           SeeTopics(name, p, f) = g, DOMAIN f \subseteq DOMAIN k.topics \cup PrefixAll(p, name)
    PROVE  SameState(name, p, k, s, r)
<1> DEFINE n == [k EXCEPT !.topics = f]
<1>1. n.topics = f /\ n.groups = k.groups /\ n.txns = k.txns /\ IsCluster(n)
  BY DEF SliceOK, IsCluster
<1> HIDE DEF n
<1>2. See(name, p, n) = [See(name, p, k) EXCEPT !.topics = g]
  BY <1>1 DEF See
<1>3. SliceOK(name, p, n) /\ Grows(name, p, k, n)
  BY <1>1 DEF SliceOK, Grows, Own
<1> QED
  BY <1>2, <1>3 DEF SameState, n

\* A change of the groups is the same on both clusters if the tenant sees it
\* so.
LEMMA GroupsChange ==
    ASSUME NEW name, NEW p, NEW k, SliceOK(name, p, k), NEW s, NEW r, NEW f, NEW g,
           After(k, s) = [k EXCEPT !.groups = f],
           After(See(name, p, k), r) = [See(name, p, k) EXCEPT !.groups = g],
           SeeGroups(name, p, f) = g, DOMAIN f \subseteq DOMAIN k.groups \cup PrefixAll(p, name),
           \A m \in Seen(name, p, f) : GroupOK(name, p, f[PrefixIn(p, m)])
    PROVE  SameState(name, p, k, s, r)
<1> DEFINE n == [k EXCEPT !.groups = f]
<1>1. n.groups = f /\ n.topics = k.topics /\ n.txns = k.txns /\ IsCluster(n)
  BY DEF SliceOK, IsCluster
<1> HIDE DEF n
<1>2. See(name, p, n) = [See(name, p, k) EXCEPT !.groups = g]
  BY <1>1 DEF See
<1>3. SliceOK(name, p, n) /\ Grows(name, p, k, n)
  BY <1>1 DEF SliceOK, Grows, Own
<1> QED
  BY <1>2, <1>3 DEF SameState, n

\* A change of the transactions is the same on both clusters if the tenant sees
\* it so.
LEMMA TxnsChange ==
    ASSUME NEW name, NEW p, NEW k, SliceOK(name, p, k), NEW s, NEW r, NEW f, NEW g,
           After(k, s) = [k EXCEPT !.txns = f],
           After(See(name, p, k), r) = [See(name, p, k) EXCEPT !.txns = g],
           SeeTxns(name, p, f) = g, DOMAIN f \subseteq DOMAIN k.txns \cup PrefixAll(p, name),
           \A m \in Seen(name, p, f) : TxnOK(name, p, f[PrefixIn(p, m)])
    PROVE  SameState(name, p, k, s, r)
<1> DEFINE n == [k EXCEPT !.txns = f]
<1>1. n.txns = f /\ n.topics = k.topics /\ n.groups = k.groups /\ IsCluster(n)
  BY DEF SliceOK, IsCluster
<1> HIDE DEF n
<1>2. See(name, p, n) = [See(name, p, k) EXCEPT !.txns = g]
  BY <1>1 DEF See
<1>3. SliceOK(name, p, n) /\ Grows(name, p, k, n)
  BY <1>1 DEF SliceOK, Grows, Own
<1> QED
  BY <1>2, <1>3 DEF SameState, n

\* Creating, deleting and writing topics has the same effect
\* (CreateTopicsRequestIn, DeleteTopicsRequestIn, ProduceRequestIn).
LEMMA TopicsSame ==
    ASSUME NEW name, NEW p, Rewrites(name, p), NEW k, SliceOK(name, p, k),
           NEW r \in Request(name), NEW s, Forwarded(p, r, s), Regular(r),
           r.api \in TopicWrites
    PROVE  SameState(name, p, k, s, r)
<1> DEFINE v == See(name, p, k)
<1>1. /\ v.topics = SeeTopics(name, p, k.topics)
      /\ s.api = r.api /\ s.topics = PrefixAll(p, r.topics) /\ s.value = r.value
      /\ r.topics \subseteq name /\ PrefixAll(p, r.topics) \subseteq PrefixAll(p, name)
  BY DEF See, Forwarded, TopicWrites, TopicNaming, Request, PrefixAll
<1>2. CASE r.api = "CreateTopics"
  <2> DEFINE h == [t \in PrefixAll(p, r.topics) |-> "empty"]
             g == [t \in r.topics |-> "empty"]
  <2>1. After(k, s) = [k EXCEPT !.topics = Over(k.topics, h)]
    BY <1>1, <1>2 DEF After
  <2>2. After(v, r) = [v EXCEPT !.topics = Over(SeeTopics(name, p, k.topics), g)]
    BY <1>1, <1>2 DEF After
  <2>3. /\ DOMAIN g = r.topics /\ DOMAIN h = PrefixAll(p, r.topics)
        /\ \A m \in r.topics : g[m] = h[PrefixIn(p, m)]
    BY DEF PrefixAll
  <2> HIDE DEF v, g, h
  <2>4. SeeTopics(name, p, Over(k.topics, h)) = Over(SeeTopics(name, p, k.topics), g)
    BY <1>1, <2>3, SeeTopicsOver
  <2>5. DOMAIN Over(k.topics, h) \subseteq DOMAIN k.topics \cup PrefixAll(p, name)
    BY <1>1, <2>3 DEF Over
  <2> QED
    BY <2>1, <2>2, <2>4, <2>5, TopicsChange DEF v
<1>3. CASE r.api = "DeleteTopics"
  <2>1. After(k, s) = [k EXCEPT !.topics = Without(k.topics, PrefixAll(p, r.topics))]
    BY <1>1, <1>3 DEF After
  <2>2. After(v, r) = [v EXCEPT !.topics = Without(SeeTopics(name, p, k.topics), r.topics)]
    BY <1>1, <1>3 DEF After
  <2> HIDE DEF v
  <2>3. DOMAIN Without(k.topics, PrefixAll(p, r.topics))
           \subseteq DOMAIN k.topics \cup PrefixAll(p, name)
    BY DEF Without, Restrict
  <2>4. SeeTopics(name, p, Without(k.topics, PrefixAll(p, r.topics)))
           = Without(SeeTopics(name, p, k.topics), r.topics)
    BY <1>1, SeeWithout
  <2> QED
    BY <2>1, <2>2, <2>3, <2>4, TopicsChange DEF v
<1>4. CASE r.api = "Produce"
  <2> DEFINE S == {m \in r.topics : PrefixIn(p, m) \in DOMAIN k.topics}
             h == [t \in PrefixAll(p, r.topics) \cap DOMAIN k.topics |-> r.value]
             g == [t \in r.topics \cap DOMAIN SeeTopics(name, p, k.topics) |-> r.value]
  <2>0. MayProduce(k, s) /\ MayProduce(v, r)
    BY <1>4 DEF MayProduce, Regular, Forwarded
  <2>1. After(k, s) = [k EXCEPT !.topics = Over(h, k.topics)]
    BY <1>1, <1>4, <2>0 DEF After
  <2>2. After(v, r) = [v EXCEPT !.topics = Over(g, SeeTopics(name, p, k.topics))]
    BY <1>1, <1>4, <2>0 DEF After
  <2>3. /\ DOMAIN g = S /\ DOMAIN h = PrefixAll(p, S) /\ S \subseteq name
        /\ \A m \in S : g[m] = h[PrefixIn(p, m)]
    BY <1>1 DEF PrefixAll, SeeTopics, Seen
  <2> HIDE DEF v, g, h, S
  <2>4. SeeTopics(name, p, Over(h, k.topics)) = Over(g, SeeTopics(name, p, k.topics))
    BY <2>3, SeeTopicsOver
  <2>5. DOMAIN Over(h, k.topics) \subseteq DOMAIN k.topics \cup PrefixAll(p, name)
    BY <2>3 DEF Over, PrefixAll
  <2> QED
    BY <2>1, <2>2, <2>4, <2>5, TopicsChange DEF v
<1> QED
  BY <1>2, <1>3, <1>4 DEF TopicWrites

\* Setting groups of the slice.
LEMMA GroupsSet ==
    ASSUME NEW name, NEW p, Rewrites(name, p), NEW k, SliceOK(name, p, k), NEW s, NEW r,
           NEW S, S \subseteq name, NEW g, NEW h, DOMAIN g = S, DOMAIN h = PrefixAll(p, S),
           \A m \in S : /\ g[m] = SeeGroup(name, p, h[PrefixIn(p, m)])
                        /\ GroupOK(name, p, h[PrefixIn(p, m)]),
           After(k, s) = [k EXCEPT !.groups = Over(h, k.groups)],
           After(See(name, p, k), r)
             = [See(name, p, k) EXCEPT !.groups = Over(g, SeeGroups(name, p, k.groups))]
    PROVE  SameState(name, p, k, s, r)
<1> DEFINE f == Over(h, k.groups)
<1>1. SeeGroups(name, p, f) = Over(g, SeeGroups(name, p, k.groups))
  BY SeeGroupsOver
<1>2. DOMAIN f \subseteq DOMAIN k.groups \cup PrefixAll(p, name)
  BY DEF Over, PrefixAll
<1>3. ASSUME NEW m \in Seen(name, p, f)
      PROVE  GroupOK(name, p, f[PrefixIn(p, m)])
  <2>1. PrefixIn(p, m) \in PrefixAll(p, S) <=> m \in S
    BY PrefixInjective DEF Seen
  <2> QED
    BY <2>1 DEF Over, Seen, SliceOK
<1> HIDE DEF f
<1>4. After(k, s) = [k EXCEPT !.groups = f]
  BY DEF f
<1> QED
  BY <1>1, <1>2, <1>3, <1>4, GroupsChange

\* Replacing a group's offsets.
LEMMA OffsetsSet ==
    ASSUME NEW name, NEW p, NEW g, GroupOK(name, p, g), NEW o,
           DOMAIN o \subseteq PrefixAll(p, name)
    PROVE  /\ SeeGroup(name, p, [g EXCEPT !.offsets = o])
                = [SeeGroup(name, p, g) EXCEPT !.offsets = SeeTopics(name, p, o)]
           /\ GroupOK(name, p, [g EXCEPT !.offsets = o])
BY DEF SeeGroup, GroupOK

\* Committing offsets in a group has the same effect (OffsetCommitRequestIn).
LEMMA CommitSame ==
    ASSUME NEW name, NEW p, Rewrites(name, p), NEW g, GroupOK(name, p, g), NEW T,
           T \subseteq name, NEW value
    PROVE  /\ SeeGroup(name, p, Commit(g, PrefixAll(p, T), value))
                = Commit(SeeGroup(name, p, g), T, value)
           /\ GroupOK(name, p, Commit(g, PrefixAll(p, T), value))
<1> DEFINE h == [t \in PrefixAll(p, T) |-> value]
           d == [t \in T |-> value]
           o == Over(h, g.offsets)
<1>1. DOMAIN d = T /\ DOMAIN h = PrefixAll(p, T) /\ \A m \in T : d[m] = h[PrefixIn(p, m)]
  BY DEF PrefixAll
<1>2. /\ Commit(g, PrefixAll(p, T), value) = [g EXCEPT !.offsets = o]
      /\ Commit(SeeGroup(name, p, g), T, value)
           = [SeeGroup(name, p, g) EXCEPT !.offsets = Over(d, SeeTopics(name, p, g.offsets))]
  BY DEF Commit, Committed, SeeGroup
<1> HIDE DEF d, h
<1>3. SeeTopics(name, p, o) = Over(d, SeeTopics(name, p, g.offsets))
  BY <1>1, SeeTopicsOver
<1>4. DOMAIN o \subseteq PrefixAll(p, name)
  BY <1>1 DEF Over, GroupOK, PrefixAll
<1> HIDE DEF o
<1> QED
  BY <1>2, <1>3, <1>4, OffsetsSet

\* Deleting offsets of a group has the same effect (OffsetDeleteRequestIn).
LEMMA OffsetDeleteSame ==
    ASSUME NEW name, NEW p, Rewrites(name, p), NEW g, GroupOK(name, p, g), NEW T,
           T \subseteq name
    PROVE  /\ SeeGroup(name, p, [g EXCEPT !.offsets = Without(@, PrefixAll(p, T))])
                = [SeeGroup(name, p, g) EXCEPT !.offsets = Without(@, T)]
           /\ GroupOK(name, p, [g EXCEPT !.offsets = Without(@, PrefixAll(p, T))])
<1> DEFINE o == Without(g.offsets, PrefixAll(p, T))
<1>1. SeeTopics(name, p, o) = Without(SeeTopics(name, p, g.offsets), T)
  BY SeeWithout
<1>2. DOMAIN o \subseteq PrefixAll(p, name)
  BY DEF Without, Restrict, GroupOK
<1> HIDE DEF o
<1>3. /\ SeeGroup(name, p, [g EXCEPT !.offsets = o])
           = [SeeGroup(name, p, g) EXCEPT !.offsets = SeeTopics(name, p, o)]
      /\ GroupOK(name, p, [g EXCEPT !.offsets = o])
  BY <1>2, OffsetsSet
<1>4. SeeGroup(name, p, g).offsets = SeeTopics(name, p, g.offsets)
  BY DEF SeeGroup
<1> QED
  BY <1>1, <1>3, <1>4 DEF o

\* Joining a group has the same effect, with a subscription that
\* JoinGroupRequestIn prefixes for consumers only.
LEMMA JoinSame ==
    ASSUME NEW name, NEW p, Rewrites(name, p), NEW g, GroupOK(name, p, g), NEW type,
           g.type \in {"none", type}, NEW b \in [fmt : STRING, topics : SUBSET name],
           b.fmt = Format(type), NEW c,
           c = IF type = "consumer" THEN prefixBlob(p, b) ELSE b
    PROVE  /\ SeeGroup(name, p, MemberOf(g, type, c)) = MemberOf(SeeGroup(name, p, g), type, b)
           /\ GroupOK(name, p, MemberOf(g, type, c))
<1> DEFINE n == MemberOf(g, type, c)
<1>1. c.fmt = b.fmt /\ SeeBlob(p, type, c) = b
  BY StripPrefixBlob DEF SeeBlob, MaybeConsumer, stripBlob, Format
<1>2. /\ n.type = type /\ n.sub = c /\ n.asg = g.asg /\ n.offsets = g.offsets
      /\ {"type", "sub", "asg", "offsets"} \subseteq DOMAIN n
  BY DEF MemberOf
<1>3. SeeBlob(p, type, g.asg) = SeeBlob(p, g.type, g.asg)
  BY DEF GroupOK, SeeBlob, stripBlob, MaybeConsumer
<1> HIDE DEF n
<1>4. SeeGroup(name, p, n) = MemberOf(SeeGroup(name, p, g), type, b)
  <2> DEFINE a == SeeBlob(p, g.type, g.asg)
             o == SeeTopics(name, p, g.offsets)
  <2>1. SeeGroup(name, p, n) = [type |-> type, sub |-> b, asg |-> a, offsets |-> o]
    BY <1>1, <1>2, <1>3, Zenon DEF SeeGroup
  <2>2. SeeGroup(name, p, g).asg = a /\ SeeGroup(name, p, g).offsets = o
    BY DEF SeeGroup
  <2> QED
    BY <2>1, <2>2, Zenon DEF MemberOf
<1>5. GroupOK(name, p, n)
  BY <1>1, <1>2 DEF GroupOK, Format
<1> QED
  BY <1>4, <1>5 DEF n

\* Syncing a group has the same effect, with an assignment that
\* SyncGroupRequestIn prefixes for consumers and where the type is not given.
LEMMA SyncSame ==
    ASSUME NEW name, NEW p, Rewrites(name, p), NEW g, GroupOK(name, p, g), NEW type,
           type \in {"nil", g.type}, NEW b \in [fmt : STRING, topics : SUBSET name],
           b.fmt = Format(g.type)
    PROVE  LET b2 == IF MaybeConsumer(type) THEN prefixBlob(p, b) ELSE b
           IN  /\ SeeGroup(name, p, [g EXCEPT !.asg = b2])
                    = [SeeGroup(name, p, g) EXCEPT !.asg = b]
               /\ GroupOK(name, p, [g EXCEPT !.asg = b2])
<1> DEFINE b2 == IF MaybeConsumer(type) THEN prefixBlob(p, b) ELSE b
           n == [g EXCEPT !.asg = b2]
<1>1. b2.fmt = b.fmt /\ SeeBlob(p, g.type, b2) = b
  <2>1. CASE b.fmt = "consumer"
    BY <2>1, StripPrefixBlob DEF SeeBlob, MaybeConsumer, Format
  <2>2. CASE b.fmt # "consumer"
    BY <2>2 DEF SeeBlob, stripBlob, prefixBlob
  <2> QED
    BY <2>1, <2>2
<1> HIDE DEF b2
<1>2. n.type = g.type /\ n.sub = g.sub /\ n.asg = b2 /\ n.offsets = g.offsets /\ DOMAIN n = DOMAIN g
  BY DEF GroupOK
<1> HIDE DEF n
<1>4. SeeGroup(name, p, n) = [SeeGroup(name, p, g) EXCEPT !.asg = b]
  BY <1>1, <1>2 DEF SeeGroup
<1>5. GroupOK(name, p, n)
  BY <1>1, <1>2 DEF GroupOK, Format
<1> QED
  BY <1>4, <1>5 DEF n, b2

\* Leaving a group has the same effect (LeaveGroupRequestIn).
LEMMA LeaveSame ==
    ASSUME NEW name, NEW p, NEW g, GroupOK(name, p, g)
    PROVE  /\ SeeGroup(name, p, [NoGroup EXCEPT !.offsets = g.offsets])
                = [NoGroup EXCEPT !.offsets = SeeGroup(name, p, g).offsets]
           /\ GroupOK(name, p, [NoGroup EXCEPT !.offsets = g.offsets])
<1> DEFINE n(o) == [type |-> "none", sub |-> NoBlob, asg |-> NoBlob, offsets |-> o]
           o1 == g.offsets
           o2 == SeeTopics(name, p, o1)
<1>1. [NoGroup EXCEPT !.offsets = o1] = n(o1) /\ [NoGroup EXCEPT !.offsets = o2] = n(o2)
  BY DEF NoGroup
<1>2. SeeGroup(name, p, g).offsets = o2
  BY DEF SeeGroup
<1>3. SeeGroup(name, p, n(o1)) = n(o2)
  BY DEF SeeGroup, SeeBlob, MaybeConsumer
<1>4. GroupOK(name, p, n(o1))
  BY DEF GroupOK, NoBlob
<1> QED
  BY <1>1, <1>2, <1>3, <1>4

\* Every request that changes groups outside transactions has the same effect.
LEMMA GroupsSame ==
    ASSUME NEW name, NEW p, Rewrites(name, p), NEW k, SliceOK(name, p, k),
           NEW r \in Request(name), NEW s, Forwarded(p, r, s), Regular(r),
           r.api \in GroupWrites \ TxnWrites
    PROVE  SameState(name, p, k, s, r)
<1> DEFINE v == See(name, p, k)
           K(m) == Group(k, PrefixIn(p, m))
           V(m) == SeeGroup(name, p, K(m))
<1>1. /\ v.groups = SeeGroups(name, p, k.groups)
      /\ s.api = r.api /\ s.groups = PrefixAll(p, r.groups) /\ s.value = r.value
      /\ s.type = r.type /\ r.groups \subseteq name /\ r.topics \subseteq name
      /\ r.blob \in [fmt : STRING, topics : SUBSET name]
  BY DEF See, Forwarded, GroupWrites, TxnWrites, GroupNaming, Request
<1>2. ASSUME NEW m \in name
      PROVE  /\ Group(v, m) = V(m) /\ GroupOK(name, p, K(m)) /\ V(m).type = K(m).type
             /\ m \in DOMAIN v.groups <=> PrefixIn(p, m) \in DOMAIN k.groups
  BY SeeAt, NamedGroupOK DEF SeeGroup
<1> HIDE DEF v
<1>3. \A m \in name : Joined(v, m) <=> Joined(k, PrefixIn(p, m))
  BY <1>2 DEF Joined
<1>4. CASE r.api = "OffsetCommit"
  <2> DEFINE h == [n \in PrefixAll(p, r.groups) |-> Commit(Group(k, n), s.topics, r.value)]
             g == [m \in r.groups |-> Commit(Group(v, m), r.topics, r.value)]
  <2>1. After(k, s) = [k EXCEPT !.groups = Over(h, k.groups)]
    BY <1>1, <1>4 DEF After, SetGroups
  <2>2. After(v, r) = [v EXCEPT !.groups = Over(g, SeeGroups(name, p, k.groups))]
    BY <1>1, <1>4 DEF After, SetGroups
  <2>3. s.topics = PrefixAll(p, r.topics)
    BY <1>4 DEF Forwarded, TopicNaming
  <2>4. ASSUME NEW m \in r.groups
        PROVE  /\ g[m] = SeeGroup(name, p, h[PrefixIn(p, m)])
               /\ GroupOK(name, p, h[PrefixIn(p, m)])
    <3>1. g[m] = Commit(V(m), r.topics, r.value)
      BY <1>1, <1>2
    <3>2. h[PrefixIn(p, m)] = Commit(K(m), PrefixAll(p, r.topics), r.value)
      BY <2>3 DEF PrefixAll
    <3> HIDE DEF g, h
    <3> QED
      BY <1>1, <1>2, <3>1, <3>2, CommitSame, SMTT(30)
  <2>5. DOMAIN g = r.groups /\ DOMAIN h = PrefixAll(p, r.groups)
    OBVIOUS
  <2> HIDE DEF g, h
  <2> QED
    BY <1>1, <2>1, <2>2, <2>4, <2>5, GroupsSet DEF v
<1>5. CASE r.api = "OffsetDelete"
  <2> DEFINE S == {m \in r.groups : PrefixIn(p, m) \in DOMAIN k.groups}
             h == [n \in PrefixAll(p, r.groups) \cap DOMAIN k.groups |->
                      [Group(k, n) EXCEPT !.offsets = Without(@, s.topics)]]
             g == [m \in r.groups \cap DOMAIN v.groups |->
                      [Group(v, m) EXCEPT !.offsets = Without(@, r.topics)]]
  <2>1. After(k, s) = [k EXCEPT !.groups = Over(h, k.groups)]
    BY <1>1, <1>5 DEF After, SetGroups
  <2>2. After(v, r) = [v EXCEPT !.groups = Over(g, SeeGroups(name, p, k.groups))]
    BY <1>1, <1>5 DEF After, SetGroups
  <2>3. s.topics = PrefixAll(p, r.topics)
    BY <1>5 DEF Forwarded, TopicNaming
  <2>4. DOMAIN g = S /\ DOMAIN h = PrefixAll(p, S) /\ S \subseteq name /\ S \subseteq r.groups
    BY <1>1, <1>2 DEF PrefixAll
  <2>5. ASSUME NEW m \in S
        PROVE  /\ g[m] = SeeGroup(name, p, h[PrefixIn(p, m)])
               /\ GroupOK(name, p, h[PrefixIn(p, m)])
    <3>1. g[m] = [V(m) EXCEPT !.offsets = Without(@, r.topics)]
      BY <1>1, <1>2, <2>4
    <3>2. h[PrefixIn(p, m)] = [K(m) EXCEPT !.offsets = Without(@, PrefixAll(p, r.topics))]
      BY <2>3 DEF PrefixAll
    <3>3. GroupOK(name, p, K(m)) /\ r.topics \subseteq name
      BY <1>1, <1>2, <2>4
    <3> HIDE DEF g, h, S, K
    <3>4. /\ SeeGroup(name, p, [K(m) EXCEPT !.offsets = Without(@, PrefixAll(p, r.topics))])
               = [SeeGroup(name, p, K(m)) EXCEPT !.offsets = Without(@, r.topics)]
          /\ GroupOK(name, p, [K(m) EXCEPT !.offsets = Without(@, PrefixAll(p, r.topics))])
      BY <3>3, OffsetDeleteSame
    <3> QED
      BY <3>1, <3>2, <3>4, Zenon
  <2> HIDE DEF g, h, S
  <2> QED
    BY <2>1, <2>2, <2>4, <2>5, GroupsSet DEF v
<1>6. CASE r.api = "JoinGroup"
  <2> DEFINE S == {m \in r.groups : K(m).type \in {"none", r.type}}
             h == [n \in {n \in PrefixAll(p, r.groups) : GroupAccepts(k, s, n)} |->
                      MemberOf(Group(k, n), r.type, s.blob)]
             g == [m \in {m \in r.groups : GroupAccepts(v, r, m)} |->
                      MemberOf(Group(v, m), r.type, r.blob)]
  <2>1. After(k, s) = [k EXCEPT !.groups = Over(h, k.groups)]
    BY <1>1, <1>6 DEF After, SetGroups
  <2>2. After(v, r) = [v EXCEPT !.groups = Over(g, SeeGroups(name, p, k.groups))]
    BY <1>1, <1>6 DEF After, SetGroups
  <2>3. /\ s.blob = IF r.type = "consumer" THEN prefixBlob(p, r.blob) ELSE r.blob
        /\ r.blob.fmt = Format(r.type)
    BY <1>6, SMTT(30) DEF Forwarded, Regular
  <2>4. DOMAIN g = S /\ DOMAIN h = PrefixAll(p, S) /\ S \subseteq name /\ S \subseteq r.groups
    BY <1>1, <1>2, <1>6 DEF PrefixAll, GroupAccepts
  <2>5. ASSUME NEW m \in S
        PROVE  /\ g[m] = SeeGroup(name, p, h[PrefixIn(p, m)])
               /\ GroupOK(name, p, h[PrefixIn(p, m)])
    <3>1. g[m] = MemberOf(V(m), r.type, r.blob)
      BY <1>2, <2>4
    <3>2. h[PrefixIn(p, m)] = MemberOf(K(m), r.type, s.blob)
      BY <2>4 DEF PrefixAll
    <3>3. K(m).type \in {"none", r.type} /\ GroupOK(name, p, K(m))
      BY <1>2, <2>4
    <3> HIDE DEF g, h, S, K
    <3>4. /\ SeeGroup(name, p, MemberOf(K(m), r.type, s.blob))
               = MemberOf(SeeGroup(name, p, K(m)), r.type, r.blob)
          /\ GroupOK(name, p, MemberOf(K(m), r.type, s.blob))
      BY <1>1, <2>3, <3>3, JoinSame
    <3> QED
      BY <3>1, <3>2, <3>4, ZenonT(60)
  <2> HIDE DEF g, h, S
  <2> QED
    BY <2>1, <2>2, <2>4, <2>5, GroupsSet DEF v
<1>7. CASE r.api = "SyncGroup"
  <2> DEFINE A(type) == type # "none" /\ r.type \in {"nil", type} /\ Format(type) = r.blob.fmt
             S == {m \in r.groups : A(K(m).type)}
             h == [n \in {n \in PrefixAll(p, r.groups) : GroupAccepts(k, s, n)} |->
                      [Group(k, n) EXCEPT !.asg = s.blob]]
             g == [m \in {m \in r.groups : GroupAccepts(v, r, m)} |->
                      [Group(v, m) EXCEPT !.asg = r.blob]]
  <2>1. After(k, s) = [k EXCEPT !.groups = Over(h, k.groups)]
    BY <1>1, <1>7 DEF After, SetGroups
  <2>2. After(v, r) = [v EXCEPT !.groups = Over(g, SeeGroups(name, p, k.groups))]
    BY <1>1, <1>7 DEF After, SetGroups
  <2>3. /\ s.blob = IF MaybeConsumer(r.type) THEN prefixBlob(p, r.blob) ELSE r.blob
        /\ s.blob.fmt = r.blob.fmt
    BY <1>1, <1>7, StripPrefixBlob DEF Forwarded
  <2>4. DOMAIN g = S /\ DOMAIN h = PrefixAll(p, S) /\ S \subseteq name /\ S \subseteq r.groups
    BY <1>1, <1>2, <1>7, <2>3 DEF PrefixAll, GroupAccepts, Joined
  <2>5. ASSUME NEW m \in S
        PROVE  /\ g[m] = SeeGroup(name, p, h[PrefixIn(p, m)])
               /\ GroupOK(name, p, h[PrefixIn(p, m)])
    <3>1. g[m] = [V(m) EXCEPT !.asg = r.blob]
      BY <1>2, <2>4
    <3>2. h[PrefixIn(p, m)] = [K(m) EXCEPT !.asg = s.blob]
      BY <2>4 DEF PrefixAll
    <3>3. r.type \in {"nil", K(m).type} /\ r.blob.fmt = Format(K(m).type) /\ GroupOK(name, p, K(m))
      BY <1>2, <2>4
    <3> HIDE DEF g, h, S
    <3> QED
      BY <1>1, <2>3, <3>1, <3>2, <3>3, SyncSame
  <2> HIDE DEF g, h, S
  <2> QED
    BY <2>1, <2>2, <2>4, <2>5, GroupsSet DEF v
<1>8. CASE r.api = "LeaveGroup"
  <2> DEFINE S == {m \in r.groups : Joined(k, PrefixIn(p, m))}
             h == [n \in {n \in PrefixAll(p, r.groups) : Joined(k, n)} |->
                      [NoGroup EXCEPT !.offsets = Group(k, n).offsets]]
             g == [m \in {m \in r.groups : Joined(v, m)} |->
                      [NoGroup EXCEPT !.offsets = Group(v, m).offsets]]
  <2>1. After(k, s) = [k EXCEPT !.groups = Over(h, k.groups)]
    BY <1>1, <1>8 DEF After, SetGroups
  <2>2. After(v, r) = [v EXCEPT !.groups = Over(g, SeeGroups(name, p, k.groups))]
    BY <1>1, <1>8 DEF After, SetGroups
  <2>3. DOMAIN g = S /\ DOMAIN h = PrefixAll(p, S) /\ S \subseteq name /\ S \subseteq r.groups
    BY <1>1, <1>3 DEF PrefixAll
  <2>4. ASSUME NEW m \in S
        PROVE  /\ g[m] = SeeGroup(name, p, h[PrefixIn(p, m)])
               /\ GroupOK(name, p, h[PrefixIn(p, m)])
    <3>1. g[m] = [NoGroup EXCEPT !.offsets = V(m).offsets]
      BY <1>2, <2>3
    <3>2. h[PrefixIn(p, m)] = [NoGroup EXCEPT !.offsets = K(m).offsets]
      BY <2>3 DEF PrefixAll
    <3>3. GroupOK(name, p, K(m))
      BY <1>2, <2>3
    <3> HIDE DEF g, h, S
    <3> QED
      BY <3>1, <3>2, <3>3, LeaveSame
  <2> HIDE DEF g, h, S
  <2> QED
    BY <2>1, <2>2, <2>3, <2>4, GroupsSet DEF v
<1>9. CASE r.api = "DeleteGroups"
  <2> DEFINE S == {m \in r.groups : ~Joined(k, PrefixIn(p, m))}
             f == Without(k.groups, PrefixAll(p, S))
  <2>1. /\ {n \in PrefixAll(p, r.groups) : ~Joined(k, n)} = PrefixAll(p, S)
        /\ {m \in r.groups : ~Joined(v, m)} = S /\ S \subseteq name
    BY <1>1, <1>3 DEF PrefixAll
  <2>2. After(k, s) = [k EXCEPT !.groups = f]
    <3> DEFINE D == {n \in s.groups : ~Joined(k, n)}
    <3>1. After(k, s) = [k EXCEPT !.groups = Without(k.groups, D)]
      BY <1>1, <1>9 DEF After
    <3>2. D = PrefixAll(p, S)
      BY <1>1, <2>1
    <3> HIDE DEF D, S
    <3> QED
      BY <3>1, <3>2, Zenon
  <2>3. After(v, r) = [v EXCEPT !.groups = Without(SeeGroups(name, p, k.groups), S)]
    <3> DEFINE D == {m \in r.groups : ~Joined(v, m)}
    <3>1. After(v, r) = [v EXCEPT !.groups = Without(v.groups, D)]
      BY <1>9 DEF After
    <3>2. D = S
      BY <2>1
    <3> HIDE DEF D, S
    <3> QED
      BY <1>1, <3>1, <3>2, Zenon
  <2>4. SeeGroups(name, p, f) = Without(SeeGroups(name, p, k.groups), S)
    BY <2>1, SeeWithout
  <2>5. /\ DOMAIN f \subseteq DOMAIN k.groups \cup PrefixAll(p, name)
        /\ \A m \in Seen(name, p, f) : GroupOK(name, p, f[PrefixIn(p, m)])
    BY SMTT(30) DEF Without, Restrict, Seen, SliceOK
  <2> HIDE DEF f, S
  <2> QED
    BY <2>2, <2>3, <2>4, <2>5, GroupsChange DEF v
<1> QED
  BY <1>4, <1>5, <1>6, <1>7, <1>8, <1>9 DEF GroupWrites, TxnWrites

\* Every transaction the tenant can name is in order, the missing ones too.
LEMMA NamedTxnOK ==
    ASSUME NEW name, NEW p, NEW k, SliceOK(name, p, k), NEW m \in name
    PROVE  TxnOK(name, p, Txn(k, PrefixIn(p, m)))
BY DEF SliceOK, Seen, Txn, At, TxnOK, CommitsOK, NoTxn

\* Setting transactions of the slice.
LEMMA TxnsSet ==
    ASSUME NEW name, NEW p, Rewrites(name, p), NEW k, SliceOK(name, p, k), NEW s, NEW r,
           NEW S, S \subseteq name, NEW g, NEW h, DOMAIN g = S, DOMAIN h = PrefixAll(p, S),
           \A m \in S : /\ g[m] = SeenTxn(p, h[PrefixIn(p, m)])
                        /\ TxnOK(name, p, h[PrefixIn(p, m)]),
           After(k, s) = [k EXCEPT !.txns = Over(h, k.txns)],
           After(See(name, p, k), r)
             = [See(name, p, k) EXCEPT !.txns = Over(g, SeeTxns(name, p, k.txns))]
    PROVE  SameState(name, p, k, s, r)
<1> DEFINE f == Over(h, k.txns)
<1>1. SeeTxns(name, p, f) = Over(g, SeeTxns(name, p, k.txns))
  BY SeeTxnsOver
<1>2. DOMAIN f \subseteq DOMAIN k.txns \cup PrefixAll(p, name)
  BY DEF Over, PrefixAll
<1>3. ASSUME NEW m \in Seen(name, p, f)
      PROVE  TxnOK(name, p, f[PrefixIn(p, m)])
  <2>1. PrefixIn(p, m) \in PrefixAll(p, S) <=> m \in S
    BY PrefixInjective DEF Seen
  <2> QED
    BY <2>1 DEF Over, Seen, SliceOK
<1> HIDE DEF f
<1>4. After(k, s) = [k EXCEPT !.txns = f]
  BY DEF f
<1> QED
  BY <1>1, <1>2, <1>3, <1>4, TxnsChange

\* A forgotten transaction.
LEMMA NoTxnSame ==
    ASSUME NEW name, NEW p
    PROVE  SeenTxn(p, NoTxn) = NoTxn /\ TxnOK(name, p, NoTxn)
BY DEF SeenTxn, NoTxn, StripAll, TxnOK, CommitsOK

\* Names added to a transaction.
LEMMA AddSame ==
    ASSUME NEW name, NEW p, Rewrites(name, p), NEW x, TxnOK(name, p, x), NEW T, T \subseteq name
    PROVE  /\ SeenTxn(p, WithTopics(x, PrefixAll(p, T)))
                = WithTopics(SeenTxn(p, x), T)
           /\ TxnOK(name, p, WithTopics(x, PrefixAll(p, T)))
           /\ SeenTxn(p, WithGroups(x, PrefixAll(p, T)))
                = WithGroups(SeenTxn(p, x), T)
           /\ TxnOK(name, p, WithGroups(x, PrefixAll(p, T)))
<1> DEFINE C == {SeenCommit(p, c) : c \in x.commits}
           t1 == x.topics \cup PrefixAll(p, T)
           g1 == x.groups \cup PrefixAll(p, T)
           a == [x EXCEPT !.topics = t1]
           b == [x EXCEPT !.groups = g1]
<1>1. /\ StripAll(p, t1) = StripAll(p, x.topics) \cup T
      /\ StripAll(p, g1) = StripAll(p, x.groups) \cup T
      /\ PrefixAll(p, T) \subseteq PrefixAll(p, name)
  BY DEF Rewrites, StripAll, PrefixAll
<1>2. t1 \subseteq PrefixAll(p, name) /\ g1 \subseteq PrefixAll(p, name)
  BY <1>1 DEF TxnOK
<1> HIDE DEF t1, g1
<1>3. /\ a.topics = t1 /\ a.groups = x.groups /\ a.commits = x.commits /\ DOMAIN a = DOMAIN x
      /\ b.topics = x.topics /\ b.groups = g1 /\ b.commits = x.commits /\ DOMAIN b = DOMAIN x
  BY DEF TxnOK
<1> HIDE DEF a, b
<1>4. TxnOK(name, p, a) /\ TxnOK(name, p, b)
  BY <1>2, <1>3 DEF TxnOK
<1>5. /\ SeenTxn(p, x) = [topics |-> StripAll(p, x.topics), groups |-> StripAll(p, x.groups),
                          commits |-> C]
      /\ SeenTxn(p, a) = [topics |-> StripAll(p, x.topics) \cup T,
                          groups |-> StripAll(p, x.groups), commits |-> C]
      /\ SeenTxn(p, b) = [topics |-> StripAll(p, x.topics),
                          groups |-> StripAll(p, x.groups) \cup T, commits |-> C]
  BY <1>1, <1>3, Zenon DEF SeenTxn
<1> HIDE DEF C
<1>6. /\ SeenTxn(p, a) = WithTopics(SeenTxn(p, x), T)
      /\ SeenTxn(p, b) = WithGroups(SeenTxn(p, x), T)
  BY <1>5, SMTT(30) DEF WithTopics, WithGroups
<1> QED
  BY <1>4, <1>6 DEF a, b, t1, g1, WithTopics, WithGroups

\* Offset commits added to a transaction, over those for the same partitions.
LEMMA CommitsSame ==
    ASSUME NEW name, NEW p, Rewrites(name, p), NEW x, TxnOK(name, p, x),
           NEW G, G \subseteq name, NEW T, T \subseteq name, NEW value
    PROVE  LET G2 == PrefixAll(p, G)
               T2 == PrefixAll(p, T)
               y  == [x EXCEPT !.commits = Kept(x, G2, T2) \cup Added(G2, T2, value)]
           IN  /\ SeenTxn(p, y) = [SeenTxn(p, x) EXCEPT !.commits =
                                     Kept(SeenTxn(p, x), G, T) \cup Added(G, T, value)]
               /\ TxnOK(name, p, y)
<1> DEFINE G2 == PrefixAll(p, G)
           T2 == PrefixAll(p, T)
           N  == Kept(x, G2, T2) \cup Added(G2, T2, value)
           y  == [x EXCEPT !.commits = N]
           s  == SeenTxn(p, x)
           V  == {SeenCommit(p, c) : c \in x.commits}
           M  == Kept(s, G, T) \cup Added(G, T, value)
<1>1. ASSUME NEW c \in x.commits
      PROVE  /\ SeenCommit(p, c).group \in G <=> c.group \in G2
             /\ SeenCommit(p, c).topic \in T <=> c.topic \in T2
  <2>1. PICK m \in name : c.group = PrefixIn(p, m)
    BY DEF TxnOK, CommitsOK, CommitOK, PrefixAll
  <2>2. PICK t \in name : c.topic = PrefixIn(p, t)
    BY DEF TxnOK, CommitsOK, CommitOK, PrefixAll
  <2>3. SeenCommit(p, c).group = m /\ SeenCommit(p, c).topic = t
    BY <2>1, <2>2 DEF SeenCommit, Rewrites
  <2> QED
    BY <2>1, <2>2, <2>3, PrefixInjective
<1>2. s.commits = V
  BY DEF SeenTxn
<1>3. Kept(s, G, T) = {SeenCommit(p, c) : c \in Kept(x, G2, T2)}
  <2> HIDE DEF s, G2, T2
  <2> QED
    BY <1>1, <1>2 DEF Kept
<1>4. Added(G, T, value) = {SeenCommit(p, c) : c \in Added(G2, T2, value)}
  <2> DEFINE C(g, t) == [group |-> g, topic |-> t, value |-> value]
  <2>1. \A g \in G, t \in T : SeenCommit(p, C(PrefixIn(p, g), PrefixIn(p, t))) = C(g, t)
    BY DEF SeenCommit, Rewrites
  <2>2. Added(G, T, value) = {C(g, t) : g \in G, t \in T}
    BY DEF Added
  <2>3. Added(G2, T2, value) = {C(g, t) : g \in G2, t \in T2}
    BY DEF Added
  <2>4. /\ \A g \in G : PrefixIn(p, g) \in G2
        /\ \A t \in T : PrefixIn(p, t) \in T2
        /\ \A n \in G2 : \E g \in G : n = PrefixIn(p, g)
        /\ \A n \in T2 : \E t \in T : n = PrefixIn(p, t)
    BY DEF PrefixAll
  <2> HIDE DEF C, G2, T2
  <2>5. \A e \in {C(g, t) : g \in G, t \in T} :
           \E c \in {C(g, t) : g \in G2, t \in T2} : e = SeenCommit(p, c)
    BY <2>1, <2>4
  <2>6. \A c \in {C(g, t) : g \in G2, t \in T2} :
           SeenCommit(p, c) \in {C(g, t) : g \in G, t \in T}
    BY <2>1, <2>4
  <2> QED
    BY <2>2, <2>3, <2>5, <2>6
<1>5. M = {SeenCommit(p, c) : c \in N}
  BY <1>3, <1>4
<1>6. /\ \A c \in N : CommitOK(name, p, c)
      /\ \A c, d \in N : c.group = d.group /\ c.topic = d.topic => c = d
  <2>1. \A c \in Added(G2, T2, value) :
           /\ {"group", "topic", "value"} \subseteq DOMAIN c
           /\ c.group \in G2 /\ c.topic \in T2
           /\ c = [group |-> c.group, topic |-> c.topic, value |-> value]
    BY DEF Added
  <2>2. G2 \subseteq PrefixAll(p, name) /\ T2 \subseteq PrefixAll(p, name)
    BY DEF PrefixAll
  <2> HIDE DEF G2, T2
  <2>3. /\ \A c \in x.commits : CommitOK(name, p, c)
        /\ \A c, d \in x.commits : c.group = d.group /\ c.topic = d.topic => c = d
    BY DEF TxnOK, CommitsOK
  <2>4. \A c \in Kept(x, G2, T2) : c \in x.commits /\ (c.group \notin G2 \/ c.topic \notin T2)
    BY DEF Kept
  <2>5. \A c, d \in Added(G2, T2, value) : c.group = d.group /\ c.topic = d.topic => c = d
    BY <2>1, Zenon
  <2>6. \A c \in N : CommitOK(name, p, c)
    BY <2>1, <2>2, <2>3, <2>4 DEF CommitOK
  <2>7. ASSUME NEW c \in N, NEW d \in N, c.group = d.group, c.topic = d.topic
        PROVE  c = d
    <3>1. CASE c \in Added(G2, T2, value) /\ d \in Added(G2, T2, value)
      BY <2>5, <2>7, <3>1
    <3>2. CASE c \in Kept(x, G2, T2) /\ d \in Kept(x, G2, T2)
      BY <2>3, <2>4, <2>7, <3>2
    <3>3. ~(c \in Kept(x, G2, T2) /\ d \in Added(G2, T2, value))
      BY <2>1, <2>4, <2>7
    <3>4. ~(d \in Kept(x, G2, T2) /\ c \in Added(G2, T2, value))
      BY <2>1, <2>4, <2>7
    <3> QED
      BY <3>1, <3>2, <3>3, <3>4
  <2> QED
    BY <2>6, <2>7
<1> HIDE DEF N, M, s, G2, T2
<1>7. y.topics = x.topics /\ y.groups = x.groups /\ y.commits = N /\ DOMAIN y = DOMAIN x
  BY DEF TxnOK
<1> HIDE DEF y
<1>8. TxnOK(name, p, y)
  BY <1>6, <1>7 DEF TxnOK, CommitsOK
<1>9. SeenTxn(p, y) = [s EXCEPT !.commits = M]
  <2>1. s = [topics |-> StripAll(p, x.topics), groups |-> StripAll(p, x.groups), commits |-> V]
    BY DEF s, SeenTxn
  <2>2. SeenTxn(p, y)
          = [topics |-> StripAll(p, x.topics), groups |-> StripAll(p, x.groups), commits |-> M]
    BY <1>5, <1>7, Zenon DEF SeenTxn
  <2> HIDE DEF V
  <2> QED
    BY <2>1, <2>2
<1> QED
  BY <1>8, <1>9, Zenon DEF y, s, N, M, G2, T2

\* The offsets a set of commits leaves in a group.
LEMMA OffsetsSame ==
    ASSUME NEW name, NEW p, Rewrites(name, p), NEW C, NEW D, NEW m \in name,
           CommitsOK(name, p, C),
           D = {SeenCommit(p, c) : c \in C}
    PROVE  LET S == DOMAIN Offsets(D, m)
           IN  /\ S \subseteq name
               /\ DOMAIN Offsets(C, PrefixIn(p, m)) = PrefixAll(p, S)
               /\ \A t \in S : Offsets(D, m)[t] = Offsets(C, PrefixIn(p, m))[PrefixIn(p, t)]
<1> DEFINE n == PrefixIn(p, m)
           S == {c.topic : c \in {d \in D : d.group = m}}
           Z == {c.topic : c \in {d \in C : d.group = n}}
<1>1. DOMAIN Offsets(D, m) = S /\ DOMAIN Offsets(C, n) = Z
  BY DEF Offsets
<1>2. ASSUME NEW c \in C
      PROVE  /\ SeenCommit(p, c).group \in name /\ SeenCommit(p, c).topic \in name
             /\ c.group = PrefixIn(p, SeenCommit(p, c).group)
             /\ c.topic = PrefixIn(p, SeenCommit(p, c).topic)
             /\ SeenCommit(p, c).value = c.value
  <2>1. PICK g \in name : c.group = PrefixIn(p, g)
    BY DEF CommitsOK, CommitOK, PrefixAll
  <2>2. PICK t \in name : c.topic = PrefixIn(p, t)
    BY DEF CommitsOK, CommitOK, PrefixAll
  <2>3. /\ SeenCommit(p, c).group = g /\ SeenCommit(p, c).topic = t
        /\ SeenCommit(p, c).value = c.value
    BY <2>1, <2>2 DEF SeenCommit, Rewrites
  <2> QED
    BY <2>1, <2>2, <2>3
<1>3. \A a, b \in name : PrefixIn(p, a) = PrefixIn(p, b) => a = b
  BY DEF Rewrites
<1>4. \A c \in C : c.group = n <=> SeenCommit(p, c).group = m
  BY <1>2, <1>3
<1>5. S \subseteq name
  BY <1>2
<1>6. Z = PrefixAll(p, S)
  BY <1>2, <1>4 DEF PrefixAll
<1>7. ASSUME NEW t \in S
      PROVE  Offsets(D, m)[t] = Offsets(C, n)[PrefixIn(p, t)]
  <2> DEFINE c1 == CHOOSE c \in D : c.group = m /\ c.topic = t
             c2 == CHOOSE c \in C : c.group = n /\ c.topic = PrefixIn(p, t)
  <2>1. PrefixIn(p, t) \in Z /\ t \in name
    BY <1>5, <1>6 DEF PrefixAll
  <2>2. Offsets(D, m)[t] = c1.value /\ Offsets(C, n)[PrefixIn(p, t)] = c2.value
    BY <2>1 DEF Offsets
  <2>3. c1 \in D /\ c1.group = m /\ c1.topic = t
    <3>1. \E c \in D : c.group = m /\ c.topic = t
      OBVIOUS
    <3> QED
      BY <3>1
  <2>4. c2 \in C /\ c2.group = n /\ c2.topic = PrefixIn(p, t)
    <3>1. \E c \in C : c.group = n /\ c.topic = PrefixIn(p, t)
      BY <2>1
    <3> QED
      BY <3>1
  <2> HIDE DEF c1, c2
  <2>5. PICK d \in C : c1 = SeenCommit(p, d)
    BY <2>3
  <2>6. d.group = n /\ d.topic = PrefixIn(p, t)
    BY <1>2, <2>3, <2>5
  <2>7. d = c2
    BY <2>4, <2>6 DEF CommitsOK
  <2> QED
    BY <1>2, <2>2, <2>5, <2>7
<1> QED
  BY <1>1, <1>5, <1>6, <1>7, Zenon

\* Committing them.
LEMMA ApplySame ==
    ASSUME NEW name, NEW p, Rewrites(name, p), NEW C, NEW D, NEW m \in name,
           CommitsOK(name, p, C),
           D = {SeenCommit(p, c) : c \in C}, NEW g, GroupOK(name, p, g)
    PROVE  /\ SeeGroup(name, p, Committed(g, Offsets(C, PrefixIn(p, m))))
                = Committed(SeeGroup(name, p, g), Offsets(D, m))
           /\ GroupOK(name, p, Committed(g, Offsets(C, PrefixIn(p, m))))
<1> DEFINE d == Offsets(D, m)
           h == Offsets(C, PrefixIn(p, m))
           S == DOMAIN d
           o == Over(h, g.offsets)
<1>1. S \subseteq name /\ DOMAIN h = PrefixAll(p, S) /\ \A t \in S : d[t] = h[PrefixIn(p, t)]
  BY OffsetsSame
<1> HIDE DEF d, h
<1>2. SeeTopics(name, p, o) = Over(d, SeeTopics(name, p, g.offsets))
  BY <1>1, SeeTopicsOver
<1>3. DOMAIN o \subseteq PrefixAll(p, name)
  BY <1>1 DEF Over, GroupOK, PrefixAll
<1> HIDE DEF o
<1>4. /\ SeeGroup(name, p, [g EXCEPT !.offsets = o])
           = [SeeGroup(name, p, g) EXCEPT !.offsets = SeeTopics(name, p, o)]
      /\ GroupOK(name, p, [g EXCEPT !.offsets = o])
  BY <1>3, OffsetsSet
<1>5. SeeGroup(name, p, g).offsets = SeeTopics(name, p, g.offsets)
  BY DEF SeeGroup
<1> QED
  BY <1>2, <1>4, <1>5 DEF o, d, h, Committed

\* Setting groups and transactions of the slice at once.
LEMMA EndChange ==
    ASSUME NEW name, NEW p, Rewrites(name, p), NEW k, SliceOK(name, p, k), NEW s, NEW r,
           NEW g, NEW h, GroupsMatch(name, p, g, h), NEW d, NEW e, TxnsMatch(name, p, d, e),
           After(k, s) = [[k EXCEPT !.groups = Over(h, k.groups)]
                             EXCEPT !.txns = Over(e, k.txns)],
           After(See(name, p, k), r)
             = [[See(name, p, k) EXCEPT !.groups = Over(g, SeeGroups(name, p, k.groups))]
                   EXCEPT !.txns = Over(d, SeeTxns(name, p, k.txns))]
    PROVE  SameState(name, p, k, s, r)
<1> DEFINE f == Over(h, k.groups)
           x == Over(e, k.txns)
           n == After(k, s)
           y == Over(g, SeeGroups(name, p, k.groups))
           z == Over(d, SeeTxns(name, p, k.txns))
           S == DOMAIN g
           T == DOMAIN d
<1> USE DEF GroupsMatch, TxnsMatch
<1>1. SeeGroups(name, p, f) = y /\ SeeTxns(name, p, x) = z
  BY SeeGroupsOver, SeeTxnsOver
<1>2. /\ DOMAIN f \subseteq DOMAIN k.groups \cup PrefixAll(p, name)
      /\ DOMAIN x \subseteq DOMAIN k.txns \cup PrefixAll(p, name)
  BY DEF Over, PrefixAll
<1>3. ASSUME NEW m \in Seen(name, p, f)
      PROVE  GroupOK(name, p, f[PrefixIn(p, m)])
  <2>1. PrefixIn(p, m) \in PrefixAll(p, S) <=> m \in S
    BY PrefixInjective DEF Seen
  <2> QED
    BY <2>1 DEF Over, Seen, SliceOK
<1>4. ASSUME NEW m \in Seen(name, p, x)
      PROVE  TxnOK(name, p, x[PrefixIn(p, m)])
  <2>1. PrefixIn(p, m) \in PrefixAll(p, T) <=> m \in T
    BY PrefixInjective DEF Seen
  <2> QED
    BY <2>1 DEF Over, Seen, SliceOK
<1>5. /\ n = [[k EXCEPT !.groups = f] EXCEPT !.txns = x]
      /\ After(See(name, p, k), r) = [[See(name, p, k) EXCEPT !.groups = y] EXCEPT !.txns = z]
  OBVIOUS
<1> HIDE DEF f, x, n, y, z
<1>6. n.groups = f /\ n.txns = x /\ n.topics = k.topics /\ IsCluster(n)
  BY <1>5 DEF SliceOK, IsCluster
<1>7. See(name, p, n) = After(See(name, p, k), r)
  BY <1>1, <1>5, <1>6, ZenonT(60) DEF See
<1>8. SliceOK(name, p, n) /\ Grows(name, p, k, n)
  BY <1>2, <1>3, <1>4, <1>6 DEF SliceOK, Grows, Own
<1> QED
  BY <1>7, <1>8 DEF SameState, n

\* The transactions a request names, upstream and to the tenant.
LEMMA TxnFacts ==
    ASSUME NEW name, NEW p, Rewrites(name, p), NEW k, SliceOK(name, p, k),
           NEW r \in Request(name), NEW s, Forwarded(p, r, s), Regular(r),
           r.api \in TxnWrites
    PROVE  SeesTxns(name, p, k, s, r, See(name, p, k), OpenNames(p, k, r))
<1> DEFINE v == See(name, p, k)
           S == OpenNames(p, k, r)
<1>1. v.txns = SeeTxns(name, p, k.txns) /\ v.groups = SeeGroups(name, p, k.groups)
  BY DEF See
<1> HIDE DEF v
<1>2. /\ s.api = r.api /\ s.txns = PrefixAll(p, r.txns) /\ s.value = r.value /\ s.kind = r.kind
      /\ r.groups \subseteq name /\ r.topics \subseteq name /\ r.txns \subseteq name
  BY DEF Forwarded, TxnWrites, TxnNaming, Request
<1>3. ASSUME NEW m \in name
      PROVE  /\ Txn(v, m) = SeenTxn(p, Txn(k, PrefixIn(p, m)))
             /\ TxnOK(name, p, Txn(k, PrefixIn(p, m)))
             /\ m \in DOMAIN v.txns <=> PrefixIn(p, m) \in DOMAIN k.txns
  <2>1. /\ Txn(v, m) = SeenTxn(p, Txn(k, PrefixIn(p, m)))
        /\ m \in DOMAIN v.txns <=> PrefixIn(p, m) \in DOMAIN k.txns
    BY SeeAt DEF v
  <2>2. TxnOK(name, p, Txn(k, PrefixIn(p, m)))
    BY NamedTxnOK
  <2> QED
    BY <2>1, <2>2
<1>4. /\ OpenTxns(k, s) = PrefixAll(p, S) /\ OpenTxns(v, r) = S
      /\ S \subseteq name /\ S \subseteq r.txns
  BY <1>2, <1>3 DEF OpenTxns, PrefixAll, OpenNames
<1>5. ASSUME NEW m \in S
      PROVE  /\ Txn(k, PrefixIn(p, m)) = k.txns[PrefixIn(p, m)]
             /\ v.txns[m] = SeenTxn(p, Txn(k, PrefixIn(p, m)))
  <2>1. m \in name /\ PrefixIn(p, m) \in DOMAIN k.txns
    BY <1>4 DEF OpenNames
  <2>2. m \in DOMAIN v.txns
    BY <1>3, <2>1
  <2>3. Txn(k, PrefixIn(p, m)) = k.txns[PrefixIn(p, m)] /\ Txn(v, m) = v.txns[m]
    BY <2>1, <2>2, SMTT(30) DEF Txn, At
  <2> QED
    BY <1>3, <2>1, <2>3
<1> HIDE DEF S
<1>6. SeesTxns(name, p, k, s, r, v, S)
  BY <1>1, <1>2, <1>3, <1>4, <1>5, ZenonT(60) DEF SeesTxns
<1> QED
  BY <1>6, Zenon DEF v, S

\* InitProducerID has the same effect (InitProducerIDRequestIn).
LEMMA InitProducerSame ==
    ASSUME NEW name, NEW p, Rewrites(name, p), NEW k, SliceOK(name, p, k),
           NEW r \in Request(name), NEW s, Forwarded(p, r, s), Regular(r),
           r.api = "InitProducerID"
    PROVE  SameState(name, p, k, s, r)
<1> DEFINE v == See(name, p, k)
           S == OpenNames(p, k, r)
           K(m) == Txn(k, PrefixIn(p, m))
<1>1. SeesTxns(name, p, k, s, r, v, S)
  BY TxnFacts, Zenon DEF TxnWrites
<1> HIDE DEF v, S
<1>2. /\ v.txns = SeeTxns(name, p, k.txns) /\ v.groups = SeeGroups(name, p, k.groups)
      /\ s.api = r.api /\ s.txns = PrefixAll(p, r.txns) /\ s.value = r.value /\ s.kind = r.kind
      /\ r.groups \subseteq name /\ r.topics \subseteq name /\ r.txns \subseteq name
      /\ OpenTxns(k, s) = PrefixAll(p, S) /\ OpenTxns(v, r) = S
      /\ S \subseteq name /\ S \subseteq r.txns
      /\ \A m \in name : Txn(v, m) = SeenTxn(p, K(m)) /\ TxnOK(name, p, K(m))
      /\ \A m \in S : K(m) = k.txns[PrefixIn(p, m)] /\ v.txns[m] = SeenTxn(p, K(m))
  BY <1>1, Zenon DEF SeesTxns
<1> DEFINE h == [n \in PrefixAll(p, r.txns) |-> NoTxn]
           g == [m \in r.txns |-> NoTxn]
<1>3. After(k, s) = [k EXCEPT !.txns = Over(h, k.txns)]
  BY <1>2 DEF After, SetTxns
<1>4. After(v, r) = [v EXCEPT !.txns = Over(g, SeeTxns(name, p, k.txns))]
  BY <1>2 DEF After, SetTxns
<1>5. ASSUME NEW m \in r.txns
      PROVE  /\ g[m] = SeenTxn(p, h[PrefixIn(p, m)])
             /\ TxnOK(name, p, h[PrefixIn(p, m)])
  BY NoTxnSame, SMTT(30) DEF PrefixAll
<1>6. DOMAIN g = r.txns /\ DOMAIN h = PrefixAll(p, r.txns)
  OBVIOUS
<1> HIDE DEF g, h
<1> QED
  BY <1>2, <1>3, <1>4, <1>5, <1>6, TxnsSet DEF v

\* AddPartitionsToTxn has the same effect (AddPartitionsToTxnRequestIn).
LEMMA AddPartitionsSame ==
    ASSUME NEW name, NEW p, Rewrites(name, p), NEW k, SliceOK(name, p, k),
           NEW r \in Request(name), NEW s, Forwarded(p, r, s), Regular(r),
           r.api = "AddPartitionsToTxn"
    PROVE  SameState(name, p, k, s, r)
<1> DEFINE v == See(name, p, k)
           S == OpenNames(p, k, r)
           K(m) == Txn(k, PrefixIn(p, m))
<1>1. SeesTxns(name, p, k, s, r, v, S)
  BY TxnFacts, Zenon DEF TxnWrites
<1> HIDE DEF v, S
<1>2. /\ v.txns = SeeTxns(name, p, k.txns) /\ v.groups = SeeGroups(name, p, k.groups)
      /\ s.api = r.api /\ s.txns = PrefixAll(p, r.txns) /\ s.value = r.value /\ s.kind = r.kind
      /\ r.groups \subseteq name /\ r.topics \subseteq name /\ r.txns \subseteq name
      /\ OpenTxns(k, s) = PrefixAll(p, S) /\ OpenTxns(v, r) = S
      /\ S \subseteq name /\ S \subseteq r.txns
      /\ \A m \in name : Txn(v, m) = SeenTxn(p, K(m)) /\ TxnOK(name, p, K(m))
      /\ \A m \in S : K(m) = k.txns[PrefixIn(p, m)] /\ v.txns[m] = SeenTxn(p, K(m))
  BY <1>1, Zenon DEF SeesTxns
<1> DEFINE h == [n \in PrefixAll(p, S) |-> WithTopics(Txn(k, n), s.topics)]
           g == [m \in S |-> WithTopics(Txn(v, m), r.topics)]
<1>3. After(k, s) = [k EXCEPT !.txns = Over(h, k.txns)]
  BY <1>2 DEF After, SetTxns
<1>4. After(v, r) = [v EXCEPT !.txns = Over(g, SeeTxns(name, p, k.txns))]
  BY <1>2, SMTT(30) DEF After, SetTxns
<1>5. s.topics = PrefixAll(p, r.topics)
  BY ZenonT(60) DEF Forwarded, TopicNaming
<1>6. ASSUME NEW m \in S
      PROVE  /\ g[m] = SeenTxn(p, h[PrefixIn(p, m)])
             /\ TxnOK(name, p, h[PrefixIn(p, m)])
  <2>1. h[PrefixIn(p, m)] = WithTopics(K(m), PrefixAll(p, r.topics))
    BY <1>5, SMTT(30) DEF PrefixAll
  <2>2. g[m] = WithTopics(SeenTxn(p, K(m)), r.topics)
    BY <1>2, SMTT(30)
  <2>3. TxnOK(name, p, K(m)) /\ r.topics \subseteq name
    BY <1>2, SMTT(30)
  <2> HIDE DEF g, h, K, S
  <2>4. /\ SeenTxn(p, WithTopics(K(m), PrefixAll(p, r.topics)))
             = WithTopics(SeenTxn(p, K(m)), r.topics)
        /\ TxnOK(name, p, WithTopics(K(m), PrefixAll(p, r.topics)))
    BY <2>3, AddSame
  <2> QED
    BY <2>1, <2>2, <2>4, Zenon
<1>7. DOMAIN g = S /\ DOMAIN h = PrefixAll(p, S)
  OBVIOUS
<1> HIDE DEF g, h, S
<1> QED
  BY <1>2, <1>3, <1>4, <1>6, <1>7, TxnsSet DEF v

\* AddOffsetsToTxn has the same effect (AddOffsetsToTxnRequestIn).
LEMMA AddOffsetsSame ==
    ASSUME NEW name, NEW p, Rewrites(name, p), NEW k, SliceOK(name, p, k),
           NEW r \in Request(name), NEW s, Forwarded(p, r, s), Regular(r),
           r.api = "AddOffsetsToTxn"
    PROVE  SameState(name, p, k, s, r)
<1> DEFINE v == See(name, p, k)
           S == OpenNames(p, k, r)
           K(m) == Txn(k, PrefixIn(p, m))
<1>1. SeesTxns(name, p, k, s, r, v, S)
  BY TxnFacts, Zenon DEF TxnWrites
<1> HIDE DEF v, S
<1>2. /\ v.txns = SeeTxns(name, p, k.txns) /\ v.groups = SeeGroups(name, p, k.groups)
      /\ s.api = r.api /\ s.txns = PrefixAll(p, r.txns) /\ s.value = r.value /\ s.kind = r.kind
      /\ r.groups \subseteq name /\ r.topics \subseteq name /\ r.txns \subseteq name
      /\ OpenTxns(k, s) = PrefixAll(p, S) /\ OpenTxns(v, r) = S
      /\ S \subseteq name /\ S \subseteq r.txns
      /\ \A m \in name : Txn(v, m) = SeenTxn(p, K(m)) /\ TxnOK(name, p, K(m))
      /\ \A m \in S : K(m) = k.txns[PrefixIn(p, m)] /\ v.txns[m] = SeenTxn(p, K(m))
  BY <1>1, Zenon DEF SeesTxns
<1> DEFINE h == [n \in PrefixAll(p, S) |-> WithGroups(Txn(k, n), s.groups)]
           g == [m \in S |-> WithGroups(Txn(v, m), r.groups)]
<1>3. After(k, s) = [k EXCEPT !.txns = Over(h, k.txns)]
  BY <1>2 DEF After, SetTxns
<1>4. After(v, r) = [v EXCEPT !.txns = Over(g, SeeTxns(name, p, k.txns))]
  BY <1>2, SMTT(30) DEF After, SetTxns
<1>5. s.groups = PrefixAll(p, r.groups)
  BY DEF Forwarded, GroupNaming
<1>6. ASSUME NEW m \in S
      PROVE  /\ g[m] = SeenTxn(p, h[PrefixIn(p, m)])
             /\ TxnOK(name, p, h[PrefixIn(p, m)])
  <2>1. h[PrefixIn(p, m)] = WithGroups(K(m), PrefixAll(p, r.groups))
    BY <1>5 DEF PrefixAll
  <2>2. g[m] = WithGroups(SeenTxn(p, K(m)), r.groups)
    BY <1>2
  <2>3. TxnOK(name, p, K(m)) /\ r.groups \subseteq name
    BY <1>2, SMTT(30)
  <2> HIDE DEF g, h, K, S
  <2>4. /\ SeenTxn(p, WithGroups(K(m), PrefixAll(p, r.groups)))
             = WithGroups(SeenTxn(p, K(m)), r.groups)
        /\ TxnOK(name, p, WithGroups(K(m), PrefixAll(p, r.groups)))
    BY <2>3, AddSame
  <2> QED
    BY <2>1, <2>2, <2>4, Zenon
<1>7. DOMAIN g = S /\ DOMAIN h = PrefixAll(p, S)
  OBVIOUS
<1> HIDE DEF g, h, S
<1> QED
  BY <1>2, <1>3, <1>4, <1>6, <1>7, TxnsSet DEF v

\* TxnOffsetCommit has the same effect (TxnOffsetCommitRequestIn).
LEMMA TxnOffsetCommitSame ==
    ASSUME NEW name, NEW p, Rewrites(name, p), NEW k, SliceOK(name, p, k),
           NEW r \in Request(name), NEW s, Forwarded(p, r, s), Regular(r),
           r.api = "TxnOffsetCommit"
    PROVE  SameState(name, p, k, s, r)
<1> DEFINE v == See(name, p, k)
           S == OpenNames(p, k, r)
           K(m) == Txn(k, PrefixIn(p, m))
<1>1. SeesTxns(name, p, k, s, r, v, S)
  BY TxnFacts, Zenon DEF TxnWrites
<1> HIDE DEF v, S
<1>2. /\ v.txns = SeeTxns(name, p, k.txns) /\ v.groups = SeeGroups(name, p, k.groups)
      /\ s.api = r.api /\ s.txns = PrefixAll(p, r.txns) /\ s.value = r.value /\ s.kind = r.kind
      /\ r.groups \subseteq name /\ r.topics \subseteq name /\ r.txns \subseteq name
      /\ OpenTxns(k, s) = PrefixAll(p, S) /\ OpenTxns(v, r) = S
      /\ S \subseteq name /\ S \subseteq r.txns
      /\ \A m \in name : Txn(v, m) = SeenTxn(p, K(m)) /\ TxnOK(name, p, K(m))
      /\ \A m \in S : K(m) = k.txns[PrefixIn(p, m)] /\ v.txns[m] = SeenTxn(p, K(m))
  BY <1>1, Zenon DEF SeesTxns
<1> DEFINE G2 == PrefixAll(p, r.groups)
           T2 == PrefixAll(p, r.topics)
           W == {m \in S : G2 \subseteq K(m).groups}
           N(x) == [x EXCEPT !.commits = Kept(x, G2, T2) \cup Added(G2, T2, r.value)]
           M(x) == [x EXCEPT !.commits =
                       Kept(x, r.groups, r.topics) \cup Added(r.groups, r.topics, r.value)]
           h == [n \in {y \in OpenTxns(k, s) : G2 \subseteq k.txns[y].groups} |-> N(Txn(k, n))]
           g == [m \in {y \in OpenTxns(v, r) : r.groups \subseteq v.txns[y].groups} |->
                    M(Txn(v, m))]
<1>3. s.groups = G2 /\ s.topics = T2
  BY DEF Forwarded, TopicNaming, GroupNaming
<1>4. After(k, s) = [k EXCEPT !.txns = Over(h, k.txns)]
  <2> HIDE DEF G2, T2
  <2> QED
    BY <1>2, <1>3 DEF After, SetTxns
<1>5. After(v, r) = [v EXCEPT !.txns = Over(g, SeeTxns(name, p, k.txns))]
  BY <1>2 DEF After, SetTxns
<1>6. ASSUME NEW m \in S
      PROVE  /\ r.groups \subseteq v.txns[m].groups <=> G2 \subseteq K(m).groups
             /\ k.txns[PrefixIn(p, m)] = K(m)
  <2>1. /\ m \in name /\ k.txns[PrefixIn(p, m)] = K(m) /\ v.txns[m] = SeenTxn(p, K(m))
        /\ TxnOK(name, p, K(m))
    BY <1>2, SMTT(30)
  <2>2. SeenTxn(p, K(m)).groups = StripAll(p, K(m).groups)
    BY ZenonT(60) DEF SeenTxn
  <2> HIDE DEF K, S
  <2>3. K(m).groups \subseteq PrefixAll(p, name)
    BY <2>1, SMTT(30) DEF TxnOK
  <2>4. \A a \in r.groups : a \in StripAll(p, K(m).groups) <=> PrefixIn(p, a) \in K(m).groups
    BY <1>2, <2>3, SMTT(30) DEF Rewrites, StripAll, PrefixAll
  <2> QED
    BY <2>1, <2>2, <2>4, SMTT(30) DEF PrefixAll
<1>7. DOMAIN g = W /\ DOMAIN h = PrefixAll(p, W) /\ W \subseteq name
  <2>1. DOMAIN g = W /\ W \subseteq name
    BY <1>2, <1>6
  <2>2. DOMAIN h = {y \in PrefixAll(p, S) : G2 \subseteq k.txns[y].groups}
    BY <1>2
  <2> HIDE DEF h, g, K, S, G2
  <2>3. {y \in PrefixAll(p, S) : G2 \subseteq k.txns[y].groups} = PrefixAll(p, W)
    BY <1>6 DEF PrefixAll
  <2> QED
    BY <2>1, <2>2, <2>3
<1>8. ASSUME NEW m \in W
      PROVE  /\ g[m] = SeenTxn(p, h[PrefixIn(p, m)])
             /\ TxnOK(name, p, h[PrefixIn(p, m)])
  <2>1. PrefixIn(p, m) \in DOMAIN h /\ m \in DOMAIN g
    BY <1>7, SMTT(30) DEF PrefixAll
  <2>2. h[PrefixIn(p, m)] = N(K(m)) /\ g[m] = M(SeenTxn(p, K(m)))
    <3>1. Txn(v, m) = SeenTxn(p, K(m))
      BY <1>2, SMTT(30)
    <3> HIDE DEF N, M, G2, T2, S
    <3> QED
      BY <2>1, <3>1, ZenonT(60)
  <2>3. TxnOK(name, p, K(m))
    BY <1>2
  <2> HIDE DEF h, g, K, W
  <2>4. SeenTxn(p, N(K(m))) = M(SeenTxn(p, K(m))) /\ TxnOK(name, p, N(K(m)))
    BY <1>2, <2>3, CommitsSame
  <2> HIDE DEF N, M
  <2> QED
    BY <2>2, <2>4
<1> HIDE DEF g, h, W, G2, T2
<1> QED
  BY <1>4, <1>5, <1>7, <1>8, TxnsSet DEF v

\* EndTxn has the same effect: it applies the same commits to the same groups
\* (EndTxnRequestIn).
LEMMA EndTxnSame ==
    ASSUME NEW name, NEW p, Rewrites(name, p), NEW k, SliceOK(name, p, k),
           NEW r \in Request(name), NEW s, Forwarded(p, r, s), Regular(r),
           r.api = "EndTxn"
    PROVE  SameState(name, p, k, s, r)
<1> DEFINE v == See(name, p, k)
           S == OpenNames(p, k, r)
           K(m) == Txn(k, PrefixIn(p, m))
<1>1. SeesTxns(name, p, k, s, r, v, S)
  BY TxnFacts, Zenon DEF TxnWrites
<1> HIDE DEF v, S
<1>2. /\ v.txns = SeeTxns(name, p, k.txns) /\ v.groups = SeeGroups(name, p, k.groups)
      /\ s.api = r.api /\ s.txns = PrefixAll(p, r.txns) /\ s.value = r.value /\ s.kind = r.kind
      /\ r.groups \subseteq name /\ r.topics \subseteq name /\ r.txns \subseteq name
      /\ OpenTxns(k, s) = PrefixAll(p, S) /\ OpenTxns(v, r) = S
      /\ S \subseteq name /\ S \subseteq r.txns
      /\ \A m \in name : Txn(v, m) = SeenTxn(p, K(m)) /\ TxnOK(name, p, K(m))
      /\ \A m \in S : K(m) = k.txns[PrefixIn(p, m)] /\ v.txns[m] = SeenTxn(p, K(m))
  BY <1>1, Zenon DEF SeesTxns
<1> DEFINE C == Commits(k, s)
           D == Commits(v, r)
           F(n) == Committed(Group(k, n), Offsets(C, n))
           E(m) == Committed(Group(v, m), Offsets(D, m))
           Q == {c.group : c \in D}
           h == [n \in {c.group : c \in C} |-> F(n)]
           g == [m \in Q |-> E(m)]
           e == [n \in PrefixAll(p, S) |-> NoTxn]
           d == [m \in S |-> NoTxn]
<1>3. After(k, s) = [[k EXCEPT !.groups = Over(h, k.groups)] EXCEPT !.txns = Over(e, k.txns)]
  <2>1. After(k, s) = Ended(k, s)
    BY <1>2 DEF After
  <2>2. Apply(k, C) = [k EXCEPT !.groups = Over(h, k.groups)]
    BY DEF Apply
  <2>3. [k EXCEPT !.groups = Over(h, k.groups)].txns = k.txns
    OBVIOUS
  <2> HIDE DEF C, h, S
  <2>4. Ended(k, s) = [Apply(k, C) EXCEPT !.txns = Over(e, Apply(k, C).txns)]
    BY <1>2 DEF Ended, SetTxns, C
  <2> QED
    BY <2>1, <2>2, <2>3, <2>4
<1>4. After(v, r) = [[v EXCEPT !.groups = Over(g, SeeGroups(name, p, k.groups))]
                        EXCEPT !.txns = Over(d, SeeTxns(name, p, k.txns))]
  <2>1. After(v, r) = Ended(v, r)
    BY DEF After
  <2>2. Apply(v, D) = [v EXCEPT !.groups = Over(g, SeeGroups(name, p, k.groups))]
    BY <1>2 DEF Apply
  <2>3. [v EXCEPT !.groups = Over(g, SeeGroups(name, p, k.groups))].txns
           = SeeTxns(name, p, k.txns)
    BY <1>2
  <2> HIDE DEF D, g, S
  <2>4. Ended(v, r) = [Apply(v, D) EXCEPT !.txns = Over(d, Apply(v, D).txns)]
    BY <1>2 DEF Ended, SetTxns, D
  <2> QED
    BY <2>1, <2>2, <2>3, <2>4, Zenon
<1>5. /\ D = {SeenCommit(p, c) : c \in C}
      /\ CommitsOK(name, p, C)
  <2>1. CASE r.kind # "commit" \/ S = {}
    <3>1. C = {} /\ D = {}
      BY <1>2, <2>1, SMTT(30) DEF Commits, PrefixAll
    <3> QED
      BY <3>1 DEF CommitsOK
  <2>2. CASE r.kind = "commit" /\ S # {}
    <3>1. PICK m \in S : TRUE
      BY <2>2
    <3>2. \A y \in S : y = m
      BY <1>2 DEF Regular
    <3>3. S = {m} /\ m \in name
      BY <1>2, <3>2
    <3>4. PrefixAll(p, S) = {PrefixIn(p, m)}
      BY <3>3, SMTT(30) DEF PrefixAll
    <3>5. /\ K(m) = k.txns[PrefixIn(p, m)] /\ v.txns[m] = SeenTxn(p, K(m))
          /\ TxnOK(name, p, K(m))
      BY <1>2, <3>3, SMTT(30)
    <3>6. C = K(m).commits /\ D = SeenTxn(p, K(m)).commits
      <4> DEFINE a(x) == k.txns[x].commits
                 b(x) == v.txns[x].commits
      <4>1. C = UNION {a(x) : x \in {PrefixIn(p, m)}} /\ D = UNION {b(x) : x \in {m}}
        <5> HIDE DEF S, v
        <5> QED
          BY <1>2, <2>2, <3>3, <3>4, ZenonT(60) DEF Commits
      <4>2. a(PrefixIn(p, m)) = K(m).commits /\ b(m) = SeenTxn(p, K(m)).commits
        <5> HIDE DEF K, S, v
        <5> QED
          BY <3>5, ZenonT(60)
      <4> HIDE DEF a, b, C, D, K
      <4>3. UNION {a(x) : x \in {PrefixIn(p, m)}} = a(PrefixIn(p, m))
        OBVIOUS
      <4>4. UNION {b(x) : x \in {m}} = b(m)
        OBVIOUS
      <4> QED
        BY <4>1, <4>2, <4>3, <4>4, ZenonT(60)
    <3> HIDE DEF K, C, D
    <3> QED
      BY <3>5, <3>6, ZenonT(60) DEF SeenTxn, TxnOK
  <2> QED
    BY <2>1, <2>2
<1>6. DOMAIN g = Q /\ Q \subseteq name /\ DOMAIN h = PrefixAll(p, Q)
  <2> HIDE DEF C, D, F, E
  <2>1. ASSUME NEW c \in C
        PROVE  SeenCommit(p, c).group \in name /\ PrefixIn(p, SeenCommit(p, c).group) = c.group
    BY <1>5 DEF CommitsOK, CommitOK, SeenCommit, PrefixAll, Rewrites
  <2>2. Q = {SeenCommit(p, c).group : c \in C}
    BY <1>5
  <2>3. DOMAIN h = {c.group : c \in C}
    OBVIOUS
  <2>4. {c.group : c \in C} = {PrefixIn(p, SeenCommit(p, c).group) : c \in C}
    BY <2>1
  <2>5. DOMAIN g = Q
    OBVIOUS
  <2> HIDE DEF Q, g, h
  <2>6. PrefixAll(p, Q) = {PrefixIn(p, SeenCommit(p, c).group) : c \in C}
    BY <2>2 DEF PrefixAll
  <2> QED
    BY <2>1, <2>2, <2>3, <2>4, <2>5, <2>6, ZenonT(60)
<1>7. ASSUME NEW m \in Q
      PROVE  /\ g[m] = SeeGroup(name, p, h[PrefixIn(p, m)])
             /\ GroupOK(name, p, h[PrefixIn(p, m)])
  <2>1. g[m] = E(m) /\ h[PrefixIn(p, m)] = F(PrefixIn(p, m))
    <3> HIDE DEF C, D, E, F
    <3>1. PrefixIn(p, m) \in DOMAIN h
      BY <1>6, SMTT(30) DEF PrefixAll
    <3> QED
      BY <3>1, ZenonT(60)
  <2>2. m \in name
    BY <1>6, SMTT(30)
  <2> HIDE DEF g, h, Q
  <2> DEFINE X == Group(k, PrefixIn(p, m))
  <2>3. Group(v, m) = SeeGroup(name, p, X) /\ GroupOK(name, p, X)
    BY <2>2, SeeAt, NamedGroupOK DEF v
  <2>4. /\ F(PrefixIn(p, m)) = Committed(X, Offsets(C, PrefixIn(p, m)))
        /\ E(m) = Committed(SeeGroup(name, p, X), Offsets(D, m))
    BY <2>3
  <2> HIDE DEF C, D, E, F, X
  <2>5. /\ SeeGroup(name, p, Committed(X, Offsets(C, PrefixIn(p, m))))
             = Committed(SeeGroup(name, p, X), Offsets(D, m))
        /\ GroupOK(name, p, Committed(X, Offsets(C, PrefixIn(p, m))))
    BY <1>5, <2>2, <2>3, ApplySame
  <2> QED
    BY <2>1, <2>4, <2>5, ZenonT(60)
<1>8. ASSUME NEW m \in S
      PROVE  /\ d[m] = SeenTxn(p, e[PrefixIn(p, m)])
             /\ TxnOK(name, p, e[PrefixIn(p, m)])
  BY NoTxnSame DEF PrefixAll
<1>9. DOMAIN d = S /\ DOMAIN e = PrefixAll(p, S)
  OBVIOUS
<1> HIDE DEF g, h, d, e, Q, S
<1>10. GroupsMatch(name, p, g, h) /\ TxnsMatch(name, p, d, e)
  BY <1>2, <1>6, <1>7, <1>8, <1>9, Zenon DEF GroupsMatch, TxnsMatch
<1> QED
  BY <1>3, <1>4, <1>10, EndChange, ZenonT(60) DEF v

\* Every transactional request has the same effect.
LEMMA TxnsSame ==
    ASSUME NEW name, NEW p, Rewrites(name, p), NEW k, SliceOK(name, p, k),
           NEW r \in Request(name), NEW s, Forwarded(p, r, s), Regular(r),
           r.api \in TxnWrites
    PROVE  SameState(name, p, k, s, r)
BY InitProducerSame, AddPartitionsSame, AddOffsetsSame, TxnOffsetCommitSame, EndTxnSame
   DEF TxnWrites

\* RequestIn is a forwarding: every handler prefixes every name of its request
\* but a produce's transactional id.
LEMMA RequestIsForwarded ==
    ASSUME NEW name, NEW p, NEW r \in Request(name)
    PROVE  Forwarded(p, r, RequestIn(p, r))
<1> USE DEF Request, Forwarded, TopicNaming, GroupNaming, TxnNaming, RewrittenAPI
<1>2. CASE r.api \in {"Metadata", "Produce", "Fetch", "ListOffsets", "CreateTopics",
                      "DeleteTopics"}
  BY <1>2, ZenonT(40) DEF RequestIn, MetadataRequestIn, ProduceRequestIn, FetchRequestIn,
     ListOffsetsRequestIn, CreateTopicsRequestIn, DeleteTopicsRequestIn
<1>3. CASE r.api \in {"DescribeConfigs", "FindCoordinator", "ListGroups"}
  BY <1>3, ZenonT(40) DEF RequestIn, DescribeConfigsRequestIn, FindCoordinatorRequestIn
<1>4. CASE r.api \in {"OffsetCommit", "OffsetFetch", "OffsetDelete"}
  BY <1>4, ZenonT(40) DEF RequestIn, OffsetCommitRequestIn, OffsetFetchRequestIn,
     OffsetDeleteRequestIn, GroupAndTopicsIn
<1>5. CASE r.api \in {"JoinGroup", "SyncGroup"}
  BY <1>5, ZenonT(40) DEF RequestIn, JoinGroupRequestIn, SyncGroupRequestIn
<1>6. CASE r.api \in {"Heartbeat", "LeaveGroup", "DescribeGroups", "DeleteGroups"}
  BY <1>6, ZenonT(60) DEF RequestIn, HeartbeatRequestIn, LeaveGroupRequestIn,
     DescribeGroupsRequestIn, DeleteGroupsRequestIn
<1>7. CASE r.api \in {"InitProducerID", "AddPartitionsToTxn", "AddOffsetsToTxn", "EndTxn"}
  BY <1>7, Zenon DEF RequestIn, InitProducerIDRequestIn, AddPartitionsToTxnRequestIn,
     AddOffsetsToTxnRequestIn, EndTxnRequestIn
<1>8. CASE r.api = "TxnOffsetCommit"
  BY <1>8, Zenon DEF RequestIn, TxnOffsetCommitRequestIn, GroupAndTopicsIn
<1> QED
  BY <1>2, <1>3, <1>4, <1>5, <1>6, <1>7, <1>8, Zenon

\* Stripping the prefixes of a slice gives the names the tenant can spell
\* (StripOut).
LEMMA SliceIsSeen ==
    ASSUME NEW name, NEW p, Rewrites(name, p), NEW f, Own(name, p, f)
    PROVE  StripAll(p, {n \in DOMAIN f : BelongsToTenant(p, n) \/ n = << >>}) = Seen(name, p, f)
BY DEF Rewrites, PrefixAll, StripAll, Own, Seen

\* SeenGroup and SeeGroup agree on a group in order.
LEMMA SeenGroupIs ==
    ASSUME NEW name, NEW p, Rewrites(name, p), NEW g, GroupOK(name, p, g)
    PROVE  SeenGroup(p, g) = SeeGroup(name, p, g)
<1>1. Own(name, p, g.offsets)
  BY DEF GroupOK, Own
<1>2. StripAll(p, {n \in DOMAIN g.offsets : BelongsToTenant(p, n) \/ n = << >>}) = Seen(name, p, g.offsets)
  BY <1>1, SliceIsSeen, SMTT(30)
<1> QED
  BY <1>2 DEF SeenGroup, SeeGroup, SeeBlob, SeeTopics, Slice

\* The view by stripping what is in the slice (as the responses do) is the view
\* by looking up what the tenant can name (as the requests do).
LEMMA ViewIsSee ==
    ASSUME NEW name, NEW p, Rewrites(name, p), NEW k, SliceOK(name, p, k)
    PROVE  TenantView(p, k) = See(name, p, k)
<1>1. /\ StripAll(p, {n \in DOMAIN k.topics : BelongsToTenant(p, n) \/ n = << >>})
           = Seen(name, p, k.topics)
      /\ StripAll(p, {n \in DOMAIN k.groups : BelongsToTenant(p, n) \/ n = << >>})
           = Seen(name, p, k.groups)
      /\ StripAll(p, {n \in DOMAIN k.txns : BelongsToTenant(p, n) \/ n = << >>})
           = Seen(name, p, k.txns)
  BY SliceIsSeen, Zenon DEF SliceOK
<1>2. \A m \in Seen(name, p, k.groups) :
         SeenGroup(p, k.groups[PrefixIn(p, m)]) = SeeGroup(name, p, k.groups[PrefixIn(p, m)])
  BY SeenGroupIs DEF SliceOK
<1> QED
  BY <1>1, <1>2, Zenon DEF TenantView, See, SeeTopics, SeeGroups, SeeTxns, Slice
=============================================================================
