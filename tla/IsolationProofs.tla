-------------------------- MODULE IsolationProofs ---------------------------
(***************************************************************************)
(* Isolation of tenants in SharedCluster, for any number of tenants and    *)
(* connections, any prefixes and any requests for which the slices are     *)
(* apart.  First: what a request changes lies in the slice of the tenant   *)
(* that sent it (the set name holds the names clients use and those they   *)
(* become).  Then: SharedCluster implements DedicatedClusters, that is, to *)
(* each tenant the shared cluster, with names prefixed on the way in and   *)
(* stripped on the way out, is a cluster of its own.                       *)
(***************************************************************************)
EXTENDS SharedCluster, AnswerProofs, SequenceTheorems

-----------------------------------------------------------------------------
(* Names, over any alphabet.                                               *)

\* A prefixed name begins with the prefix, and the rest of it is the name.
LEMMA ConcatIsPrefix ==
    ASSUME NEW Letter, NEW p \in Seq(Letter), NEW n \in Seq(Letter)
    PROVE  /\ HasPrefix(p \o n, p)
           /\ SubSeq(p \o n, Len(p) + 1, Len(p \o n)) = n
<1>1. SubSeq(p \o n, 1, Len(p)) = p
  BY SubSeqOfConcat2
<1> QED
  BY <1>1 DEF HasPrefix

\* StripOut undoes PrefixIn for every prefix and every name, the empty ones and
\* names that themselves begin with the prefix included: the tenant reads back
\* the name it wrote.
THEOREM StripUndoesPrefix ==
    ASSUME NEW Letter, NEW p \in Seq(Letter), NEW n \in Seq(Letter)
    PROVE  StripOut(p, PrefixIn(p, n)) = n
<1>1. CASE p = << >>
  BY <1>1 DEF StripOut, PrefixIn
<1>2. CASE p # << >> /\ n = << >>
  <2>1. ~HasPrefix(n, p)
    BY <1>2 DEF HasPrefix
  <2> QED
    BY <1>2, <2>1 DEF StripOut, PrefixIn, TrimPrefix
<1>3. CASE p # << >> /\ n # << >>
  BY <1>3, ConcatIsPrefix DEF StripOut, PrefixIn, TrimPrefix
<1> QED
  BY <1>1, <1>2, <1>3

\* PrefixIn puts every non-empty name strictly inside the tenant's slice of the
\* cluster: BelongsToTenant holds and the name is not the bare prefix.
THEOREM PrefixedBelongs ==
    ASSUME NEW Letter, NEW p \in Seq(Letter), NEW n \in Seq(Letter), p # << >>, n # << >>
    PROVE  /\ PrefixIn(p, n) \in Seq(Letter)
           /\ BelongsToTenant(p, PrefixIn(p, n))
           /\ PrefixIn(p, n) # p
<1>1. p \o n # p
  BY ConcatEqualIffEmpty
<1> QED
  BY <1>1, ConcatIsPrefix, ConcatProperties DEF PrefixIn, BelongsToTenant

\* Two tenants whose prefixes are incomparable share no name of the cluster:
\* what one BelongsToTenant filter keeps, the other drops.
THEOREM SlicesAreDisjoint ==
    ASSUME NEW Letter, NEW p \in Seq(Letter), NEW q \in Seq(Letter), NEW x \in Seq(Letter),
           p # << >>, q # << >>, Incomparable(p, q), BelongsToTenant(p, x)
    PROVE  ~BelongsToTenant(q, x)
<1> SUFFICES ASSUME HasPrefix(x, q)
             PROVE  FALSE
  BY DEF BelongsToTenant
<1>1. HasPrefix(x, p)
  BY DEF BelongsToTenant
<1>2. /\ \A i \in 1 .. Len(p) : p[i] = x[i]
      /\ \A i \in 1 .. Len(q) : q[i] = x[i]
  BY <1>1, SubSeqProperties, SubSeqFull DEF HasPrefix
<1>3. CASE Len(p) <= Len(q)
  <2>1. SubSeq(q, 1, Len(p)) = SubSeq(p, 1, Len(p))
    BY <1>2, <1>3
  <2> QED
    BY <1>3, <2>1 DEF Incomparable, HasPrefix
<1>4. CASE Len(q) < Len(p)
  <2>1. SubSeq(p, 1, Len(q)) = SubSeq(q, 1, Len(q))
    BY <1>2, <1>4
  <2> QED
    BY <1>4, <2>1 DEF Incomparable, HasPrefix
<1> QED
  BY <1>3, <1>4

-----------------------------------------------------------------------------
InSlice(name, p) == {n \in name : HasPrefix(n, p)}

\* A forwarded request names nothing outside the slice where it changes something.
Aimed(name, p, req) ==
    /\ req.api \in RewrittenAPI
    /\ req.api \in TopicWrites => req.topics \subseteq InSlice(name, p)
    /\ req.api \in GroupWrites => req.groups \subseteq InSlice(name, p)
    /\ req.api \in TxnWrites => req.txns \subseteq InSlice(name, p)

Shape(name, k) ==
    /\ {"topics", "groups", "txns"} \subseteq DOMAIN k
    /\ DOMAIN k.txns \subseteq name
    /\ \A x \in DOMAIN k.txns : "commits" \in DOMAIN k.txns[x]

\* The pending commits of the slice's transactions are for the slice's groups.
CommitsInside(p, k) ==
    \A x \in DOMAIN k.txns :
        HasPrefix(x, p) => \A c \in k.txns[x].commits : HasPrefix(c.group, p)

\* From k to n, only the slice of p has changed.
OnlySlice(name, p, k, n) ==
    /\ Outside(p, n.topics) = Outside(p, k.topics)
    /\ Outside(p, n.groups) = Outside(p, k.groups)
    /\ Outside(p, n.txns) = Outside(p, k.txns)
    /\ Shape(name, n)
    /\ CommitsInside(p, n)

-----------------------------------------------------------------------------
\* Setting names of the slice leaves what is outside it (Over models the
\* broker's creating and updating of topics, groups and transactions).
LEMMA OverOutside ==
    ASSUME NEW p, NEW f, NEW h, \A n \in DOMAIN h : HasPrefix(n, p)
    PROVE  Outside(p, Over(h, f)) = Outside(p, f) /\ Outside(p, Over(f, h)) = Outside(p, f)
BY DEF Outside, Restrict, Over

\* Deleting names of the slice leaves what is outside it.
LEMMA WithoutOutside ==
    ASSUME NEW name, NEW p, NEW f, NEW S, S \subseteq InSlice(name, p)
    PROVE  Outside(p, Without(f, S)) = Outside(p, f)
BY DEF Outside, Restrict, Without, InSlice

\* A change of the topics alone.
LEMMA TopicsStep ==
    ASSUME NEW name, NEW p, NEW k, NEW f, Shape(name, k), CommitsInside(p, k),
           Outside(p, f) = Outside(p, k.topics)
    PROVE  OnlySlice(name, p, k, [k EXCEPT !.topics = f])
BY DEF OnlySlice, Shape, CommitsInside

\* A change of the groups alone.
LEMMA GroupsStep ==
    ASSUME NEW name, NEW p, NEW k, NEW f, Shape(name, k), CommitsInside(p, k),
           Outside(p, f) = Outside(p, k.groups)
    PROVE  OnlySlice(name, p, k, [k EXCEPT !.groups = f])
BY DEF OnlySlice, Shape, CommitsInside

\* A change of the slice's transactions alone, whose pending commits are for
\* the slice's groups.
LEMMA TxnsStep ==
    ASSUME NEW name, NEW p, NEW k, NEW h, Shape(name, k), CommitsInside(p, k),
           DOMAIN h \subseteq InSlice(name, p),
           \A x \in DOMAIN h : /\ "commits" \in DOMAIN h[x]
                               /\ \A c \in h[x].commits : HasPrefix(c.group, p)
    PROVE  OnlySlice(name, p, k, [k EXCEPT !.txns = Over(h, k.txns)])
<1> DEFINE n == [k EXCEPT !.txns = Over(h, k.txns)]
<1>1. /\ n.txns = Over(h, k.txns) /\ n.topics = k.topics /\ n.groups = k.groups
      /\ DOMAIN n = DOMAIN k
  BY DEF Shape
<1> HIDE DEF n
<1>2. Outside(p, n.txns) = Outside(p, k.txns)
  BY <1>1, OverOutside DEF InSlice
<1>3. Shape(name, n) /\ CommitsInside(p, n)
  BY <1>1 DEF Shape, CommitsInside, Over, InSlice
<1>4. OnlySlice(name, p, k, n)
  BY <1>1, <1>2, <1>3 DEF OnlySlice
<1> QED
  BY <1>4 DEF n

-----------------------------------------------------------------------------
\* A name in the slices of two incomparable prefixes does not exist: SlicesAreApart
\* gives each transaction a single owner.
LEMMA IncomparableSlices ==
    ASSUME NEW Char, NEW p \in Seq(Char), NEW q \in Seq(Char), NEW x \in Seq(Char),
           Incomparable(p, q), HasPrefix(x, p)
    PROVE  ~HasPrefix(x, q)
<1>1. p # << >> /\ q # << >>
  BY DEF Incomparable, HasPrefix
<1> QED
  BY <1>1, SlicesAreDisjoint DEF BelongsToTenant

\* Every PrefixIn over a list of non-empty names lands in the slice.
LEMMA PrefixAllInSlice ==
    ASSUME NEW Char, NEW p \in Seq(Char), NEW names \in SUBSET Seq(Char), << >> \notin names
    PROVE  PrefixAll(p, names) \subseteq InSlice(Seq(Char), p)
<1> SUFFICES ASSUME NEW n \in names
             PROVE  PrefixIn(p, n) \in Seq(Char) /\ HasPrefix(PrefixIn(p, n), p)
  BY DEF InSlice, PrefixAll
<1>1. CASE p = << >>
  BY <1>1 DEF PrefixIn, HasPrefix
<1>2. CASE p # << >>
  BY <1>2, ConcatIsPrefix, ConcatProperties, SMTT(30) DEF PrefixIn
<1> QED
  BY <1>1, <1>2

\* What each rewrite handler writes upstream is aimed at the tenant's slice.
LEMMA RequestInAimed ==
    ASSUME NEW Char, NEW p \in Seq(Char), NEW r \in Request(Seq(Char)),
           << >> \notin r.topics \cup r.groups \cup r.txns
    PROVE  Aimed(Seq(Char), p, RequestIn(p, r))
<1>1. /\ PrefixAll(p, r.topics) \subseteq InSlice(Seq(Char), p)
      /\ PrefixAll(p, r.groups) \subseteq InSlice(Seq(Char), p)
      /\ PrefixAll(p, r.txns) \subseteq InSlice(Seq(Char), p)
  BY PrefixAllInSlice, SMTT(30) DEF Request
<1> USE DEF Request, Aimed, TopicWrites, GroupWrites, TxnWrites, RewrittenAPI
<1>2. CASE r.api \in {"Metadata", "Produce", "Fetch", "ListOffsets", "CreateTopics",
                      "DeleteTopics"}
  BY <1>1, <1>2, ZenonT(60) DEF RequestIn, MetadataRequestIn, ProduceRequestIn, FetchRequestIn,
     ListOffsetsRequestIn, CreateTopicsRequestIn, DeleteTopicsRequestIn
<1>3. CASE r.api \in {"DescribeConfigs", "FindCoordinator", "ListGroups"}
  BY <1>3, ZenonT(60) DEF RequestIn, DescribeConfigsRequestIn, FindCoordinatorRequestIn
<1>4. CASE r.api \in {"OffsetCommit", "OffsetFetch", "OffsetDelete"}
  BY <1>1, <1>4, Zenon DEF RequestIn, OffsetCommitRequestIn, OffsetFetchRequestIn,
     OffsetDeleteRequestIn, GroupAndTopicsIn
<1>5. CASE r.api \in {"JoinGroup", "SyncGroup"}
  BY <1>1, <1>5, ZenonT(60) DEF RequestIn, JoinGroupRequestIn, SyncGroupRequestIn
<1>6. CASE r.api \in {"Heartbeat", "LeaveGroup", "DescribeGroups", "DeleteGroups"}
  BY <1>1, <1>6, ZenonT(60) DEF RequestIn, HeartbeatRequestIn, LeaveGroupRequestIn,
     DescribeGroupsRequestIn, DeleteGroupsRequestIn
<1>7. CASE r.api \in {"InitProducerID", "AddPartitionsToTxn", "AddOffsetsToTxn", "EndTxn"}
  BY <1>1, <1>7, Zenon DEF RequestIn, InitProducerIDRequestIn, AddPartitionsToTxnRequestIn,
     AddOffsetsToTxnRequestIn, EndTxnRequestIn
<1>8. CASE r.api = "TxnOffsetCommit"
  BY <1>1, <1>8, Zenon DEF RequestIn, TxnOffsetCommitRequestIn, GroupAndTopicsIn
<1> QED
  BY <1>2, <1>3, <1>4, <1>5, <1>6, <1>7, <1>8, ZenonT(60)

-----------------------------------------------------------------------------
\* The broker executes a request that is aimed at a slice: topics.
LEMMA TopicsAfter ==
    ASSUME NEW name, NEW p, NEW k, NEW s, Shape(name, k), CommitsInside(p, k),
           Aimed(name, p, s), s.api \in TopicWrites
    PROVE  OnlySlice(name, p, k, After(k, s))
<1>0. s.topics \subseteq InSlice(name, p)
  BY DEF Aimed
<1>1. CASE s.api = "CreateTopics"
  <2> DEFINE h == [t \in s.topics |-> "empty"]
  <2>1. After(k, s) = [k EXCEPT !.topics = Over(k.topics, h)]
    BY <1>1 DEF After
  <2>2. Outside(p, Over(k.topics, h)) = Outside(p, k.topics)
    BY <1>0, OverOutside DEF InSlice
  <2> QED
    BY <2>1, <2>2, TopicsStep
<1>2. CASE s.api = "DeleteTopics"
  <2>1. After(k, s) = [k EXCEPT !.topics = Without(k.topics, s.topics)]
    BY <1>2 DEF After
  <2> QED
    BY <1>0, <2>1, WithoutOutside, TopicsStep, SMTT(30)
<1>3. CASE s.api = "Produce" /\ MayProduce(k, s)
  <2> DEFINE h == [t \in s.topics \cap DOMAIN k.topics |-> s.value]
  <2>1. After(k, s) = [k EXCEPT !.topics = Over(h, k.topics)]
    BY <1>3 DEF After
  <2>2. Outside(p, Over(h, k.topics)) = Outside(p, k.topics)
    BY <1>0, OverOutside DEF InSlice
  <2> QED
    BY <2>1, <2>2, TopicsStep, SMTT(30)
<1>4. CASE s.api = "Produce" /\ ~MayProduce(k, s)
  <2>1. After(k, s) = k
    BY <1>4 DEF After
  <2> QED
    BY <2>1 DEF OnlySlice
<1> QED
  BY <1>1, <1>2, <1>3, <1>4 DEF TopicWrites

\* The same for groups.
LEMMA GroupsAfter ==
    ASSUME NEW name, NEW p, NEW k, NEW s, Shape(name, k), CommitsInside(p, k),
           Aimed(name, p, s), s.api \in GroupWrites \ TxnWrites
    PROVE  OnlySlice(name, p, k, After(k, s))
<1>0. s.groups \subseteq InSlice(name, p)
  BY DEF Aimed
<1>1. ASSUME NEW h, DOMAIN h \subseteq s.groups,
             After(k, s) = [k EXCEPT !.groups = Over(h, k.groups)]
      PROVE  OnlySlice(name, p, k, After(k, s))
  <2>1. Outside(p, Over(h, k.groups)) = Outside(p, k.groups)
    BY <1>0, <1>1, OverOutside DEF InSlice
  <2> QED
    BY <1>1, <2>1, GroupsStep
<1>2. CASE s.api = "OffsetCommit"
  <2> DEFINE h == [g \in s.groups |-> Commit(Group(k, g), s.topics, s.value)]
  <2>1. After(k, s) = [k EXCEPT !.groups = Over(h, k.groups)]
    BY <1>2 DEF After, SetGroups
  <2>2. DOMAIN h \subseteq s.groups
    OBVIOUS
  <2> HIDE DEF h
  <2> QED
    BY <1>1, <2>1, <2>2, SMTT(30)
<1>3. CASE s.api = "OffsetDelete"
  <2> DEFINE h == [g \in s.groups \cap DOMAIN k.groups |->
                      [Group(k, g) EXCEPT !.offsets = Without(@, s.topics)]]
  <2>1. After(k, s) = [k EXCEPT !.groups = Over(h, k.groups)]
    BY <1>3 DEF After, SetGroups
  <2>2. DOMAIN h \subseteq s.groups
    OBVIOUS
  <2> HIDE DEF h
  <2> QED
    BY <1>1, <2>1, <2>2
<1>4. CASE s.api = "JoinGroup"
  <2> DEFINE h == [g \in {g \in s.groups : GroupAccepts(k, s, g)} |->
                      MemberOf(Group(k, g), s.type, s.blob)]
  <2>1. After(k, s) = [k EXCEPT !.groups = Over(h, k.groups)]
    BY <1>4 DEF After, SetGroups
  <2>2. DOMAIN h \subseteq s.groups
    OBVIOUS
  <2> HIDE DEF h
  <2> QED
    BY <1>1, <2>1, <2>2, SMTT(30)
<1>5. CASE s.api = "SyncGroup"
  <2> DEFINE h == [g \in {g \in s.groups : GroupAccepts(k, s, g)} |->
                      [Group(k, g) EXCEPT !.asg = s.blob]]
  <2>1. After(k, s) = [k EXCEPT !.groups = Over(h, k.groups)]
    BY <1>5 DEF After, SetGroups
  <2>2. DOMAIN h \subseteq s.groups
    OBVIOUS
  <2> HIDE DEF h
  <2> QED
    BY <1>1, <2>1, <2>2
<1>6. CASE s.api = "LeaveGroup"
  <2> DEFINE h == [g \in {g \in s.groups : Joined(k, g)} |->
                      [NoGroup EXCEPT !.offsets = Group(k, g).offsets]]
  <2>1. After(k, s) = [k EXCEPT !.groups = Over(h, k.groups)]
    BY <1>6 DEF After, SetGroups
  <2>2. DOMAIN h \subseteq s.groups
    OBVIOUS
  <2> HIDE DEF h
  <2> QED
    BY <1>1, <2>1, <2>2, SMTT(30)
<1>7. CASE s.api = "DeleteGroups"
  <2> DEFINE S == {g \in s.groups : ~Joined(k, g)}
  <2>1. After(k, s) = [k EXCEPT !.groups = Without(k.groups, S)]
    BY <1>7 DEF After
  <2>2. Outside(p, Without(k.groups, S)) = Outside(p, k.groups)
    BY <1>0, WithoutOutside
  <2> QED
    BY <2>1, <2>2, GroupsStep
<1> QED
  BY <1>2, <1>3, <1>4, <1>5, <1>6, <1>7 DEF GroupWrites, TxnWrites

\* The same for transactions.  Ending one applies its pending commits to groups:
\* CommitsInside is what keeps them in the slice.
LEMMA TxnsAfter ==
    ASSUME NEW name, NEW p, NEW k, NEW s, Shape(name, k), CommitsInside(p, k),
           Aimed(name, p, s), s.api \in TxnWrites
    PROVE  OnlySlice(name, p, k, After(k, s))
<1>0. s.txns \subseteq InSlice(name, p) /\ OpenTxns(k, s) \subseteq InSlice(name, p)
  BY DEF Aimed, OpenTxns
<1>1. ASSUME NEW x \in OpenTxns(k, s)
      PROVE  /\ Txn(k, x) = k.txns[x] /\ "commits" \in DOMAIN Txn(k, x)
             /\ \A c \in Txn(k, x).commits : HasPrefix(c.group, p)
  BY <1>0 DEF Txn, At, OpenTxns, Shape, CommitsInside, InSlice
<1>2. CASE s.api = "InitProducerID"
  <2> DEFINE h == [x \in s.txns |-> NoTxn]
  <2>1. After(k, s) = [k EXCEPT !.txns = Over(h, k.txns)]
    BY <1>2 DEF After, SetTxns
  <2>2. DOMAIN h \subseteq InSlice(name, p)
    BY <1>0
  <2>3. \A x \in DOMAIN h : /\ "commits" \in DOMAIN h[x]
                            /\ \A c \in h[x].commits : HasPrefix(c.group, p)
    BY DEF NoTxn
  <2> HIDE DEF h
  <2> QED
    BY <2>1, <2>2, <2>3, TxnsStep, SMTT(30)
<1>3. CASE s.api = "AddPartitionsToTxn"
  <2> DEFINE h == [x \in OpenTxns(k, s) |-> WithTopics(Txn(k, x), s.topics)]
  <2>1. After(k, s) = [k EXCEPT !.txns = Over(h, k.txns)]
    BY <1>3 DEF After, SetTxns
  <2>2. DOMAIN h \subseteq InSlice(name, p)
    BY <1>0
  <2>3. \A x \in DOMAIN h : /\ "commits" \in DOMAIN h[x]
                            /\ \A c \in h[x].commits : HasPrefix(c.group, p)
    BY <1>1 DEF WithTopics, WithGroups
  <2> HIDE DEF h
  <2> QED
    BY <2>1, <2>2, <2>3, TxnsStep, SMTT(30)
<1>4. CASE s.api = "AddOffsetsToTxn"
  <2> DEFINE h == [x \in OpenTxns(k, s) |-> WithGroups(Txn(k, x), s.groups)]
  <2>1. After(k, s) = [k EXCEPT !.txns = Over(h, k.txns)]
    BY <1>4 DEF After, SetTxns
  <2>2. DOMAIN h \subseteq InSlice(name, p)
    BY <1>0
  <2>3. \A x \in DOMAIN h : /\ "commits" \in DOMAIN h[x]
                            /\ \A c \in h[x].commits : HasPrefix(c.group, p)
    BY <1>1 DEF WithTopics, WithGroups
  <2> HIDE DEF h
  <2> QED
    BY <2>1, <2>2, <2>3, TxnsStep
<1>5. CASE s.api = "TxnOffsetCommit"
  <2> DEFINE kept(x) == Kept(Txn(k, x), s.groups, s.topics)
             added == Added(s.groups, s.topics, s.value)
             h == [x \in {y \in OpenTxns(k, s) : s.groups \subseteq k.txns[y].groups} |->
                      [Txn(k, x) EXCEPT !.commits = kept(x) \cup added]]
  <2>1. After(k, s) = [k EXCEPT !.txns = Over(h, k.txns)]
    BY <1>5 DEF After, SetTxns
  <2>2. DOMAIN h \subseteq InSlice(name, p)
    BY <1>0
  <2>3. \A c \in added : HasPrefix(c.group, p)
    BY <1>5 DEF Aimed, GroupWrites, InSlice, Added
  <2>4. \A x \in DOMAIN h : /\ "commits" \in DOMAIN h[x]
                            /\ \A c \in h[x].commits : HasPrefix(c.group, p)
    <3> HIDE DEF added
    <3> QED
      BY <1>1, <2>3 DEF Kept
  <2> HIDE DEF h
  <2> QED
    BY <2>1, <2>2, <2>4, TxnsStep
<1>6. CASE s.api = "EndTxn"
  <2> DEFINE commits == Commits(k, s)
             f == [g \in {c.group : c \in commits} |->
                      Committed(Group(k, g), Offsets(commits, g))]
             applied == [k EXCEPT !.groups = Over(f, k.groups)]
             h == [x \in OpenTxns(k, s) |-> NoTxn]
  <2>1. After(k, s) = [applied EXCEPT !.txns = Over(h, applied.txns)]
    BY <1>6, SMTT(30) DEF After, Ended, Apply, SetTxns
  <2>2. \A g \in DOMAIN f : HasPrefix(g, p)
    BY <1>1 DEF Commits
  <2>3. DOMAIN h \subseteq InSlice(name, p)
    BY <1>0
  <2>4. \A x \in DOMAIN h : /\ "commits" \in DOMAIN h[x]
                            /\ \A c \in h[x].commits : HasPrefix(c.group, p)
    BY DEF NoTxn
  <2> HIDE DEF f, h
  <2>5. OnlySlice(name, p, k, applied)
    BY <2>2, OverOutside, GroupsStep
  <2> HIDE DEF applied
  <2>6. OnlySlice(name, p, applied, After(k, s))
    BY <2>1, <2>3, <2>4, <2>5, TxnsStep DEF OnlySlice
  <2> QED
    BY <2>5, <2>6 DEF OnlySlice
<1> QED
  BY <1>2, <1>3, <1>4, <1>5, <1>6 DEF TxnWrites

\* The broker executes whatever a handler forwards, and changes only the slice.
LEMMA AfterInSlice ==
    ASSUME NEW name, NEW p, NEW k, NEW s, Shape(name, k), CommitsInside(p, k),
           Aimed(name, p, s)
    PROVE  OnlySlice(name, p, k, After(k, s))
<1>1. CASE s.api \in TopicWrites \cup GroupWrites \cup TxnWrites
  BY <1>1, TopicsAfter, GroupsAfter, TxnsAfter, SMTT(30)
<1>2. CASE s.api \notin TopicWrites \cup GroupWrites \cup TxnWrites
  <2>1. After(k, s) = k
    BY <1>2 DEF After, TopicWrites, GroupWrites, TxnWrites
  <2> QED
    BY <2>1, SMTT(30) DEF OnlySlice
<1> QED
  BY <1>1, <1>2

\* A response names the API of its request, so it is not the absence of one.
LEMMA AnswerIsSomething ==
    ASSUME NEW k, NEW s, s.api \in RewrittenAPI
    PROVE  Answer(k, s) # Nothing
<1>1. Answer(k, s).api = s.api
  BY DEF Answer, Answered, RewrittenAPI
<1> QED
  BY <1>1, SMTT(30) DEF Nothing, RewrittenAPI

-----------------------------------------------------------------------------
IsolationInv(name) ==
    /\ Shape(name, cluster)
    /\ \A t \in Tenant : CommitsInside(TopicPrefix[t], cluster)
    /\ DOMAIN sent = Conn /\ DOMAIN response = Conn
    /\ \A c \in Conn : sent[c] # Nothing => Aimed(name, Prefix(c), sent[c])

WriteStep == \E c \in Conn : response'[c] # response[c] /\ Keeps(Prefix(c))

\* A step keeps the invariant and, where it changes the cluster, stays in the
\* slice of the tenant it works for.
LEMMA StepInSlice ==
    ASSUME NEW Char, TopicPrefix \in [Tenant -> Seq(Char)],
           Requests \subseteq Request(Seq(Char)), SlicesAreApart,
           IsolationInv(Seq(Char)), [Next]_vars
    PROVE  IsolationInv(Seq(Char))' /\ (UNCHANGED cluster \/ WriteStep)
<1> DEFINE name == Seq(Char)
<1>1. ASSUME NEW c \in Conn, Forward(c)
      PROVE  IsolationInv(name)' /\ UNCHANGED cluster
  <2>1. PICK r \in Requests : sent' = [sent EXCEPT ![c] = RequestIn(Prefix(c), r)]
    BY <1>1, Zenon DEF Forward
  <2>2. << >> \notin r.topics \cup r.groups \cup r.txns
    BY DEF SlicesAreApart, UsedNames
  <2>3. Prefix(c) \in Seq(Char)
    BY OwnerAssumption DEF Prefix
  <2>4. Aimed(name, Prefix(c), RequestIn(Prefix(c), r))
    BY <2>2, <2>3, RequestInAimed, SMTT(30)
  <2>5. \A d \in Conn : sent'[d] # Nothing => Aimed(name, Prefix(d), sent'[d])
    BY <2>1, <2>4, SMTT(30) DEF IsolationInv
  <2> QED
    BY <1>1, <2>1, <2>5 DEF Forward, IsolationInv
<1>2. ASSUME NEW c \in Conn, Execute(c)
      PROVE  IsolationInv(name)' /\ WriteStep
  <2>1. Owner[c] \in Tenant /\ Prefix(c) = TopicPrefix[Owner[c]]
    BY OwnerAssumption DEF Prefix
  <2>2. Aimed(name, Prefix(c), sent[c])
    BY <1>2 DEF IsolationInv, Execute
  <2>3. OnlySlice(name, Prefix(c), cluster, cluster')
    BY <1>2, <2>1, <2>2, AfterInSlice, SMTT(30) DEF IsolationInv, Execute
  <2>4. response'[c] # response[c]
    BY <1>2, <2>2, AnswerIsSomething DEF Execute, IsolationInv, Aimed
  <2>5. ASSUME NEW t \in Tenant
        PROVE  CommitsInside(TopicPrefix[t], cluster')
    <3>1. CASE t = Owner[c]
      BY <2>1, <2>3, <3>1, SMTT(30) DEF OnlySlice
    <3>2. CASE t # Owner[c]
      <4>1. ASSUME NEW x \in DOMAIN cluster'.txns, HasPrefix(x, TopicPrefix[t])
            PROVE  x \in DOMAIN cluster.txns /\ cluster'.txns[x] = cluster.txns[x]
        <5>1. x \in Seq(Char)
          BY <2>3 DEF OnlySlice, Shape
        <5>2. Incomparable(TopicPrefix[t], Prefix(c))
          BY <2>1, <3>2 DEF SlicesAreApart
        <5>3. ~HasPrefix(x, Prefix(c))
          BY <2>1, <4>1, <5>1, <5>2, IncomparableSlices
        <5> QED
          BY <2>3, <5>3 DEF OnlySlice, Outside, Restrict
      <4> QED
        BY <4>1 DEF CommitsInside, IsolationInv
    <3> QED
      BY <3>1, <3>2
  <2> QED
    BY <1>2, <2>3, <2>4, <2>5, SMTT(30) DEF IsolationInv, Execute, WriteStep, Keeps, OnlySlice
<1>3. ASSUME NEW c \in Conn, Reply(c)
      PROVE  IsolationInv(name)' /\ UNCHANGED cluster
  BY <1>3 DEF Reply, IsolationInv
<1>4. CASE UNCHANGED vars
  BY <1>4 DEF vars, IsolationInv
<1> QED
  BY <1>1, <1>2, <1>3, <1>4, SMTT(30) DEF Next

\* Whatever the tenants, their prefixes and their requests, if the slices are
\* apart then no request changes anything outside the slice of its tenant, at
\* once or through the transaction it adds to (all handlers of rewriteHandler).
THEOREM WritesAreIsolated ==
    ASSUME NEW CONSTANT Char, TopicPrefix \in [Tenant -> Seq(Char)],
           Requests \subseteq Request(Seq(Char)), SlicesAreApart
    PROVE  Spec => WritesStayInSlice
<1>1. Init => IsolationInv(Seq(Char))
  BY DEF Init, IsolationInv, Shape, CommitsInside
<1>2. IsolationInv(Seq(Char)) /\ [Next]_vars => IsolationInv(Seq(Char))'
  BY StepInSlice
<1>3. IsolationInv(Seq(Char)) /\ [Next]_vars
         => [\E c \in Conn : response'[c] # response[c] /\ Keeps(Prefix(c))]_cluster
  BY StepInSlice DEF WriteStep
<1> QED
  BY <1>1, <1>2, <1>3, PTL DEF Spec, WritesStayInSlice

\* A map that differs only in the slice of p, and where only names of that slice
\* are new, is the same map to the tenant of an incomparable prefix q.
LEMMA OtherMap ==
    ASSUME NEW Char, NEW p \in Seq(Char), NEW q \in Seq(Char), Incomparable(p, q),
           NEW name, name = Seq(Char) \ {<< >>}, Rewrites(name, p), Rewrites(name, q),
           NEW f, NEW g, Outside(p, g) = Outside(p, f),
           DOMAIN g \subseteq DOMAIN f \cup PrefixAll(p, name), Own(name, q, f)
    PROVE  SameMap(name, q, f, g)
<1>0. p # << >> /\ q # << >>
  BY DEF Incomparable, HasPrefix
<1>1. \A m \in name : /\ PrefixIn(p, m) \in Seq(Char) /\ HasPrefix(PrefixIn(p, m), p)
                      /\ PrefixIn(q, m) \in Seq(Char) /\ HasPrefix(PrefixIn(q, m), q)
  BY <1>0, PrefixedBelongs DEF BelongsToTenant
<1>2. \A x \in Seq(Char) : ~(HasPrefix(x, p) /\ HasPrefix(x, q))
  BY IncomparableSlices
<1>3. \A x : ~HasPrefix(x, p) => /\ x \in DOMAIN g <=> x \in DOMAIN f
                                 /\ x \in DOMAIN f => g[x] = f[x]
  BY DEF Outside, Restrict
<1>4. Own(name, q, g)
  <2> SUFFICES ASSUME NEW n \in DOMAIN g, BelongsToTenant(q, n) \/ n = << >>
               PROVE  n \in PrefixAll(q, name)
    BY Zenon DEF Own
  <2>1. CASE n \in DOMAIN f
    BY <2>1, ZenonT(60) DEF Own
  <2>2. CASE n \in PrefixAll(p, name)
    <3>1. PICK m \in name : n = PrefixIn(p, m)
      BY <2>2, SMTT(30) DEF PrefixAll
    <3>2. n \in Seq(Char) /\ HasPrefix(n, p) /\ n # << >>
      BY <1>1, <3>1 DEF Rewrites
    <3> QED
      BY <1>0, <1>2, <3>2, SMTT(30) DEF BelongsToTenant
  <2> QED
    BY <2>1, <2>2, Zenon
<1>5. \A m \in name : ~HasPrefix(PrefixIn(q, m), p)
  BY <1>1, <1>2
<1> QED
  BY <1>3, <1>4, <1>5 DEF SameMap

\* What another tenant sees stays, and stays in order.
LEMMA OtherTenant ==
    ASSUME NEW Char, NEW p \in Seq(Char), NEW q \in Seq(Char), Incomparable(p, q),
           NEW name, name = Seq(Char) \ {<< >>}, Rewrites(name, p), Rewrites(name, q),
           NEW k, NEW n, OnlySlice(Seq(Char), p, k, n), Grows(name, p, k, n),
           SliceOK(name, q, k)
    PROVE  See(name, q, n) = See(name, q, k) /\ SliceOK(name, q, n)
<1>1. SameMap(name, q, k.topics, n.topics)
  BY OtherMap, Zenon DEF OnlySlice, Grows, SliceOK
<1>2. SameMap(name, q, k.groups, n.groups)
  BY OtherMap, Zenon DEF OnlySlice, Grows, SliceOK
<1>3. SameMap(name, q, k.txns, n.txns)
  BY OtherMap, Zenon DEF OnlySlice, Grows, SliceOK
<1>4. IsCluster(n)
  BY SMTT(30) DEF OnlySlice, Shape, IsCluster
<1>5. /\ SeeTopics(name, q, n.topics) = SeeTopics(name, q, k.topics)
      /\ SeeGroups(name, q, n.groups) = SeeGroups(name, q, k.groups)
      /\ SeeTxns(name, q, n.txns) = SeeTxns(name, q, k.txns)
  BY <1>1, <1>2, <1>3, ZenonT(60) DEF SameMap, SeeTopics, SeeGroups, SeeTxns, Seen
<1>6. SliceOK(name, q, n)
  BY <1>1, <1>2, <1>3, <1>4, Zenon DEF SameMap, SliceOK, Seen
<1> QED
  BY <1>5, <1>6, Zenon DEF See

\* The names of a tenant rewrite back, whatever the prefix.
LEMMA NamesRewrite ==
    ASSUME NEW Char, NEW p \in Seq(Char)
    PROVE  Rewrites(Seq(Char) \ {<< >>}, p)
<1> SUFFICES ASSUME NEW m \in Seq(Char), m # << >>
             PROVE  /\ StripOut(p, PrefixIn(p, m)) = m
                    /\ BelongsToTenant(p, PrefixIn(p, m)) /\ PrefixIn(p, m) # << >>
  BY DEF Rewrites
<1>1. StripOut(p, PrefixIn(p, m)) = m
  BY StripUndoesPrefix
<1>2. CASE p = << >>
  BY <1>1, <1>2 DEF BelongsToTenant, PrefixIn
<1>3. CASE p # << >>
  <2>1. BelongsToTenant(p, PrefixIn(p, m))
    BY <1>3, PrefixedBelongs
  <2>2. p \o m # << >>
    <3>1. Len(p) \in Nat /\ Len(m) \in Nat /\ Len(p \o m) = Len(p) + Len(m)
      BY ConcatProperties, LenProperties
    <3>2. Len(p) # 0
      BY <1>3, EmptySeq, ZenonT(60)
    <3> QED
      BY <3>1, <3>2
  <2> QED
    BY <1>1, <1>3, <2>1, <2>2 DEF PrefixIn
<1> QED
  BY <1>2, <1>3

\* The two copies of the broker are one.
LEMMA DedicatedAfter ==
    ASSUME NEW k, NEW r
    PROVE  Dedicated!After(k, r) = After(k, r)
<1>1. Dedicated!Ended(k, r) = Ended(k, r)
  BY DEF Ended, Dedicated!Ended, SetTxns, Dedicated!SetTxns, Txn, Dedicated!Txn, NoTxn,
     Dedicated!NoTxn, OpenTxns, Dedicated!OpenTxns, Over, Dedicated!Over, Apply,
     Dedicated!Apply, Commits, Dedicated!Commits, Committed, Dedicated!Committed, Offsets,
     Dedicated!Offsets, Group, Dedicated!Group, At, Dedicated!At, NoGroup, Dedicated!NoGroup,
     NoBlob, Dedicated!NoBlob
<1>2. Dedicated!MayProduce(k, r) = MayProduce(k, r) /\ Dedicated!OpenTxns(k, r) = OpenTxns(k, r)
  BY DEF MayProduce, Dedicated!MayProduce, OpenTxns, Dedicated!OpenTxns
<1>3. \A g : /\ Dedicated!Joined(k, g) = Joined(k, g)
           /\ Dedicated!GroupAccepts(k, r, g) = GroupAccepts(k, r, g)
  BY DEF GroupAccepts, Dedicated!GroupAccepts, Joined, Dedicated!Joined, Format,
     Dedicated!Format, Group, Dedicated!Group, At, Dedicated!At, NoGroup, Dedicated!NoGroup,
     NoBlob, Dedicated!NoBlob
<1> QED
  BY <1>1, <1>2, <1>3 DEF After, Dedicated!After, Over, Dedicated!Over, Without,
     Dedicated!Without, Restrict, Dedicated!Restrict, SetGroups, Dedicated!SetGroups, SetTxns,
     Dedicated!SetTxns, Commit, Dedicated!Commit, MemberOf, Dedicated!MemberOf, WithTopics,
     Dedicated!WithTopics, WithGroups, Dedicated!WithGroups, Kept, Dedicated!Kept, Added,
     Dedicated!Added, Committed, Dedicated!Committed, Txn, Dedicated!Txn, NoTxn,
     Dedicated!NoTxn, Group, Dedicated!Group, At, Dedicated!At, NoGroup, Dedicated!NoGroup,
     NoBlob, Dedicated!NoBlob

\* Its answers.
LEMMA DedicatedAnswer ==
    ASSUME NEW k, NEW r
    PROVE  Dedicated!Answer(k, r) = Answer(k, r)
BY DedicatedAfter DEF Answer, Dedicated!Answer, Answered, Dedicated!Answered, TopicEntries,
   Dedicated!TopicEntries, TopicState, Dedicated!TopicState, Unknown, Dedicated!Unknown,
   FetchedTopics, Dedicated!FetchedTopics, MayProduce, Dedicated!MayProduce, OpenTxns,
   Dedicated!OpenTxns, GroupAccepts, Dedicated!GroupAccepts, Group, Dedicated!Group, At,
   Dedicated!At, NoGroup, Dedicated!NoGroup, NoTxn, Dedicated!NoTxn, NoBlob, Dedicated!NoBlob,
   Joined, Dedicated!Joined, Format, Dedicated!Format

-----------------------------------------------------------------------------
\* What the theorem assumes of the constants.
Setting(Char) ==
    /\ TopicPrefix \in [Tenant -> Seq(Char)]
    /\ Foreign \subseteq Seq(Char) \ {<< >>}
    /\ Requests \subseteq Request(Seq(Char) \ {<< >>})
    /\ \A r \in Requests : Regular(r)
    /\ SlicesAreApart

\* The slices are in order, a connection's request has been forwarded, and a
\* response is one for the client too.
RefinementInv(Char) ==
    /\ IsolationInv(Seq(Char))
    /\ \A t \in Tenant : SliceOK(Seq(Char) \ {<< >>}, TopicPrefix[t], cluster)
    /\ DOMAIN request = Conn
    /\ \A c \in Conn :
         \/ request[c] = Nothing /\ sent[c] = Nothing /\ response[c] = Nothing
         \/ request[c] \in Requests /\ sent[c] = RequestIn(Prefix(c), request[c])
    /\ \A c \in Conn : response[c] # Nothing => Rewritten(c, response[c]) # Nothing

\* At the start no tenant sees anything: what there is belongs to nobody.
LEMMA InitRefines ==
    ASSUME NEW Char, Setting(Char), Init
    PROVE  RefinementInv(Char) /\ Dedicated!Init
<1> DEFINE name == Seq(Char) \ {<< >>}
<1>1. IsolationInv(Seq(Char))
  BY DEF Init, IsolationInv, Shape, CommitsInside
<1>2. ASSUME NEW t \in Tenant
      PROVE  /\ SliceOK(name, TopicPrefix[t], cluster)
             /\ View(t) = EmptyCluster(Advertised)
  <2> DEFINE p == TopicPrefix[t]
  <2>1. p \in Seq(Char) /\ Rewrites(name, p)
    BY NamesRewrite DEF Setting
  <2>2. ASSUME NEW n \in Foreign
        PROVE  ~BelongsToTenant(p, n) /\ n # << >>
    <3>1. n \in Seq(Char) /\ n # << >> /\ ~HasPrefix(n, p)
      BY OwnerAssumption DEF Setting
    <3>2. p = << >> => HasPrefix(n, p)
      BY <3>1 DEF HasPrefix
    <3> QED
      BY <3>1, <3>2 DEF BelongsToTenant
  <2>3. /\ DOMAIN cluster.topics = Foreign /\ DOMAIN cluster.groups = Foreign
        /\ DOMAIN cluster.txns = {} /\ IsCluster(cluster)
    BY DEF Init, IsCluster
  <2> HIDE DEF name, p
  <2>4. \A m \in name : PrefixIn(p, m) \notin Foreign
    BY <2>1, <2>2 DEF Rewrites
  <2>5. /\ Seen(name, p, cluster.topics) = {} /\ Seen(name, p, cluster.groups) = {}
        /\ Seen(name, p, cluster.txns) = {}
    BY <2>3, <2>4, SMTT(30) DEF Seen
  <2>6. SliceOK(name, p, cluster)
    BY <2>2, <2>3, <2>5 DEF SliceOK, Own
  <2>7. See(name, p, cluster) = EmptyCluster(Advertised)
    <3>1. /\ SeeTopics(name, p, cluster.topics) = << >>
          /\ SeeGroups(name, p, cluster.groups) = << >>
          /\ SeeTxns(name, p, cluster.txns) = << >>
      BY <2>5 DEF SeeTopics, SeeGroups, SeeTxns
    <3> QED
      BY <3>1, Zenon DEF See, EmptyCluster
  <2> QED
    BY <2>1, <2>6, <2>7, ViewIsSee DEF View, p
<1>3. RefinementInv(Char)
  BY <1>1, <1>2, Zenon DEF Init, RefinementInv
<1>4. Dedicated!Init
  <2>1. [t \in Tenant |-> View(t)] = [t \in Tenant |-> Dedicated!EmptyCluster(Advertised)]
    BY <1>2 DEF EmptyCluster, Dedicated!EmptyCluster
  <2> QED
    BY <2>1 DEF Init, Dedicated!Init, Nothing, Dedicated!Nothing
<1> QED
  BY <1>3, <1>4

\* The broker's step on the shared cluster is one on the dedicated cluster of
\* the connection's tenant, and no step on any other.
LEMMA ExecuteRefines ==
    ASSUME NEW Char, Setting(Char), RefinementInv(Char), NEW c \in Conn, Execute(c)
    PROVE  /\ \A t \in Tenant : SliceOK(Seq(Char) \ {<< >>}, TopicPrefix[t], cluster')
           /\ Rewritten(c, response'[c]) # Nothing /\ response'[c] # Nothing
           /\ Dedicated!Execute(c)
<1> DEFINE name == Seq(Char) \ {<< >>}
           p == Prefix(c)
           r == request[c]
           s == sent[c]
           o == Owner[c]
<1>1. /\ o \in Tenant /\ p = TopicPrefix[o] /\ p \in Seq(Char) /\ Rewrites(name, p)
      /\ r \in Requests /\ r \in Request(name) /\ Regular(r) /\ s = RequestIn(p, r)
      /\ SliceOK(name, p, cluster)
  <2>1. o \in Tenant /\ p = TopicPrefix[o] /\ p \in Seq(Char)
    BY OwnerAssumption DEF Prefix, Setting
  <2>2. r \in Requests /\ s = RequestIn(p, r)
    BY DEF RefinementInv, Execute
  <2> QED
    BY <2>1, <2>2, NamesRewrite, Zenon DEF Setting, RefinementInv
<1>2. Forwarded(p, r, s)
  BY <1>1, RequestIsForwarded, SMTT(30)
<1>3. SameState(name, p, cluster, s, r) /\ SameAnswer(name, p, cluster, s, r)
  BY <1>1, <1>2, SameStep, SMTT(30)
<1>4. /\ cluster' = After(cluster, s) /\ response' = [response EXCEPT ![c] = Answer(cluster, s)]
      /\ request' = request /\ response[c] = Nothing /\ DOMAIN response = Conn
  BY DEF Execute, RefinementInv, IsolationInv
<1>5. /\ See(name, p, cluster') = After(See(name, p, cluster), r)
      /\ SliceOK(name, p, cluster') /\ Grows(name, p, cluster, cluster')
      /\ ResponseOut(p, Advertised, Answer(cluster, s)) = Answer(See(name, p, cluster), r)
  BY <1>3, <1>4 DEF SameState, SameAnswer
<1>6. OnlySlice(Seq(Char), p, cluster, cluster')
  <2>1. /\ Shape(Seq(Char), cluster) /\ CommitsInside(p, cluster)
        /\ Aimed(Seq(Char), p, s)
    BY <1>1 DEF RefinementInv, IsolationInv, Execute
  <2> QED
    BY <1>4, <2>1, AfterInSlice, SMTT(30)
<1>7. ASSUME NEW t \in Tenant, t # o
      PROVE  /\ See(name, TopicPrefix[t], cluster') = See(name, TopicPrefix[t], cluster)
             /\ SliceOK(name, TopicPrefix[t], cluster')
  <2>1. /\ TopicPrefix[t] \in Seq(Char) /\ Incomparable(p, TopicPrefix[t])
        /\ SliceOK(name, TopicPrefix[t], cluster)
    BY <1>1, <1>7, Zenon DEF Setting, SlicesAreApart, RefinementInv
  <2>2. Rewrites(name, TopicPrefix[t])
    BY <2>1, NamesRewrite
  <2> HIDE DEF p
  <2> QED
    BY <1>1, <1>5, <1>6, <2>1, <2>2, OtherTenant, ZenonT(40)
<1>8. \A t \in Tenant : SliceOK(name, TopicPrefix[t], cluster')
  BY <1>1, <1>5, <1>7, Zenon
<1>9. ASSUME NEW t \in Tenant
      PROVE  /\ View(t) = See(name, TopicPrefix[t], cluster)
             /\ View(t)' = See(name, TopicPrefix[t], cluster')
  <2>1. TopicPrefix[t] \in Seq(Char) /\ SliceOK(name, TopicPrefix[t], cluster)
    BY Zenon DEF Setting, RefinementInv
  <2>2. Rewrites(name, TopicPrefix[t])
    BY <2>1, NamesRewrite
  <2>3. TenantView(TopicPrefix[t], cluster) = See(name, TopicPrefix[t], cluster)
    BY <2>1, <2>2, ViewIsSee
  <2>4. TenantView(TopicPrefix[t], cluster') = See(name, TopicPrefix[t], cluster')
    BY <1>8, <2>2, ViewIsSee, Zenon
  <2> QED
    BY <2>3, <2>4 DEF View
<1>10. /\ View(o)' = After(View(o), r)
       /\ \A t \in Tenant : t # o => View(t)' = View(t)
  BY <1>1, <1>5, <1>7, <1>9, ZenonT(40)
<1>11. Rewritten(c, Answer(cluster, s)) = Answer(View(o), r)
  BY <1>1, <1>5, <1>9, Zenon DEF Rewritten
<1>12. response'[c] = Answer(cluster, s) /\ \A d \in Conn : d # c => response'[d] = response[d]
  BY <1>4
<1>13. Answer(View(o), r) # Nothing /\ Answer(cluster, s) # Nothing
  <2>1. r.api \in RewrittenAPI /\ s.api = r.api
    BY <1>1, <1>2, Zenon DEF Request, Forwarded
  <2> QED
    BY <2>1, AnswerIsSomething
<1>14. Dedicated!Execute(c)
  <2> DEFINE K == [t \in Tenant |-> View(t)]
             R == [d \in Conn |-> IF response[d] = Nothing THEN Nothing
                                  ELSE Rewritten(d, response[d])]
  <2>1. r # Nothing
    <3>1. r.api \in RewrittenAPI
      BY <1>1 DEF Request
    <3> QED
      BY <3>1 DEF Nothing, RewrittenAPI
  <2>2. R[c] = Nothing
    BY <1>4
  <2>3. K[o] = View(o)
    BY <1>1
  <2>4. K' = [K EXCEPT ![o] = After(View(o), r)]
    BY <1>1, <1>10, Zenon
  <2>5. R' = [R EXCEPT ![c] = Answer(View(o), r)]
    <3>1. ASSUME NEW d \in Conn
          PROVE  R'[d] = IF d = c THEN Answer(View(o), r) ELSE R[d]
      BY <1>11, <1>12, <1>13 DEF Rewritten, Prefix
    <3> QED
      BY <3>1, Zenon
  <2> HIDE DEF o, r
  <2>6. /\ Dedicated!Answer(K[o], r) = Answer(View(o), r)
        /\ Dedicated!After(K[o], r) = After(View(o), r)
    BY <2>3, DedicatedAfter, DedicatedAnswer
  <2> QED
    BY <1>4, <2>1, <2>2, <2>4, <2>5, <2>6, Zenon DEF Dedicated!Execute, Dedicated!Nothing, Nothing, o, r
<1> QED
  BY <1>8, <1>11, <1>12, <1>13, <1>14, Zenon

\* A step of the proxy or of the broker is one of the dedicated clusters, or
\* changes nothing a tenant sees.
LEMMA StepRefines ==
    ASSUME NEW Char, Setting(Char), RefinementInv(Char), [Next]_vars
    PROVE  RefinementInv(Char)' /\ [Dedicated!Next]_Dedicated!vars
<1> DEFINE name == Seq(Char) \ {<< >>}
           K == [t \in Tenant |-> View(t)]
           R == [d \in Conn |-> IF response[d] = Nothing THEN Nothing
                                ELSE Rewritten(d, response[d])]
<1>1. IsolationInv(Seq(Char))'
  <2>1. Requests \subseteq Request(Seq(Char))
    <3>1. Request(name) \subseteq Request(Seq(Char))
      BY DEF Request
    <3> QED
      BY <3>1, Zenon DEF Setting
  <2> QED
    BY <2>1, StepInSlice DEF Setting, RefinementInv
<1>2. Nothing \notin Requests
  <2>1. \A r \in Requests : r.api \in RewrittenAPI
    BY DEF Setting, Request
  <2> QED
    BY <2>1 DEF Nothing, RewrittenAPI
<1>3. cluster' = cluster => K' = K
  BY DEF View
<1>4. ASSUME NEW c \in Conn, Forward(c)
      PROVE  RefinementInv(Char)' /\ Dedicated!Next
  <2>1. PICK r \in Requests : /\ request' = [request EXCEPT ![c] = r]
                              /\ sent' = [sent EXCEPT ![c] = RequestIn(Prefix(c), r)]
    BY <1>4, Zenon DEF Forward
  <2>2. request[c] = Nothing /\ cluster' = cluster /\ response' = response
    BY <1>4 DEF Forward
  <2>3. /\ request'[c] = r /\ sent'[c] = RequestIn(Prefix(c), r) /\ DOMAIN request' = Conn
        /\ \A d \in Conn : d # c => request'[d] = request[d] /\ sent'[d] = sent[d]
    BY <2>1 DEF RefinementInv, IsolationInv
  <2>4. RefinementInv(Char)'
    BY <1>1, <2>2, <2>3, Zenon DEF RefinementInv, Prefix, Rewritten
  <2>5. R' = R
    BY <2>2 DEF Rewritten, Prefix
  <2>6. Dedicated!Send(c)
    BY <1>3, <2>1, <2>2, <2>5, Zenon DEF Dedicated!Send, Dedicated!Nothing, Nothing
  <2> QED
    BY <2>4, <2>6 DEF Dedicated!Next
<1>5. ASSUME NEW c \in Conn, Execute(c)
      PROVE  RefinementInv(Char)' /\ Dedicated!Next
  <2>1. /\ \A t \in Tenant : SliceOK(name, TopicPrefix[t], cluster')
        /\ Rewritten(c, response'[c]) # Nothing /\ Dedicated!Execute(c)
    BY <1>5, ExecuteRefines, ZenonT(60)
  <2>2. /\ request' = request /\ sent' = sent /\ sent[c] # Nothing
        /\ \A d \in Conn : d # c => response'[d] = response[d]
    BY <1>5 DEF Execute, RefinementInv, IsolationInv
  <2>3. RefinementInv(Char)'
    BY <1>1, <2>1, <2>2, Zenon DEF RefinementInv, Prefix, Rewritten
  <2> QED
    BY <2>1, <2>3 DEF Dedicated!Next
<1>6. ASSUME NEW c \in Conn, Reply(c)
      PROVE  RefinementInv(Char)' /\ Dedicated!Next
  <2>1. /\ request' = [request EXCEPT ![c] = Nothing] /\ sent' = [sent EXCEPT ![c] = Nothing]
        /\ response' = [response EXCEPT ![c] = Nothing] /\ cluster' = cluster
        /\ response[c] # Nothing
    BY <1>6 DEF Reply
  <2>2. /\ request'[c] = Nothing /\ sent'[c] = Nothing /\ response'[c] = Nothing
        /\ DOMAIN request' = Conn
        /\ \A d \in Conn : d # c => /\ request'[d] = request[d] /\ sent'[d] = sent[d]
                                    /\ response'[d] = response[d]
    BY <2>1 DEF RefinementInv, IsolationInv
  <2>3. RefinementInv(Char)'
    BY <1>1, <2>1, <2>2, ZenonT(60) DEF RefinementInv, Prefix, Rewritten
  <2>4. R' = [R EXCEPT ![c] = Nothing]
    <3>1. ASSUME NEW d \in Conn
          PROVE  R'[d] = IF d = c THEN Nothing ELSE R[d]
      BY <2>2, Zenon DEF Rewritten, Prefix
    <3> QED
      BY <3>1, Zenon
  <2>5. R[c] # Nothing
    BY <2>1 DEF RefinementInv
  <2>6. Dedicated!Receive(c)
    BY <1>3, <2>1, <2>4, <2>5 DEF Dedicated!Receive, Dedicated!Nothing, Nothing
  <2> QED
    BY <2>3, <2>6 DEF Dedicated!Next
<1>7. ASSUME UNCHANGED vars
      PROVE  RefinementInv(Char)' /\ UNCHANGED Dedicated!vars
  <2>1. /\ cluster' = cluster /\ request' = request /\ sent' = sent
        /\ response' = response
    BY <1>7 DEF vars
  <2>2. RefinementInv(Char)'
    BY <1>1, <2>1, Zenon DEF RefinementInv, Prefix, Rewritten
  <2>3. R' = R
    BY <2>1 DEF Rewritten, Prefix
  <2> QED
    BY <1>3, <2>1, <2>2, <2>3 DEF Dedicated!vars
<1> QED
  BY <1>4, <1>5, <1>6, <1>7 DEF Next

\* Whatever the tenants, their prefixes, the connections and the requests, if
\* the slices are apart then behind the proxy every tenant has a cluster of its
\* own: what it does, and what it is told, interleaved with the requests of all
\* other tenants, is what would happen on a dedicated cluster (all handlers of
\* rewriteHandler; the fields they leave alone are excluded by Regular).
THEOREM SharedImplementsDedicated ==
    ASSUME NEW CONSTANT Char, TopicPrefix \in [Tenant -> Seq(Char)],
           Foreign \subseteq Seq(Char) \ {<< >>},
           Requests \subseteq Request(Seq(Char) \ {<< >>}),
           \A r \in Requests : Regular(r), SlicesAreApart
    PROVE  Spec => TenantsHaveDedicatedClusters
<1>1. Setting(Char)
  BY Zenon DEF Setting
<1>2. Init => RefinementInv(Char) /\ Dedicated!Init
  BY <1>1, InitRefines
<1>3. RefinementInv(Char) /\ [Next]_vars
         => RefinementInv(Char)' /\ [Dedicated!Next]_Dedicated!vars
  BY <1>1, StepRefines
<1> QED
  BY <1>2, <1>3, PTL DEF Spec, TenantsHaveDedicatedClusters, Dedicated!Spec
=============================================================================
