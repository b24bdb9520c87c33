--------------------------- MODULE FramingProofs ---------------------------
(***************************************************************************)
(* Proofs about what is read and written.  Framing, for any limit and any  *)
(* sizes of frames, and however the stream is cut into portions: where a   *)
(* frame ends.  Headers, for every key, version and client id: where a     *)
(* body begins.                                                            *)
(***************************************************************************)
EXTENDS Framing, Headers, WellFoundedInduction, TLAPS

-----------------------------------------------------------------------------
(* Sequences.                                                              *)

\* What a sequence is, and what Append and \o make of it.
LEMMA SeqFacts ==
    ASSUME NEW S, NEW q \in Seq(S)
    PROVE  /\ Len(q) \in Nat /\ DOMAIN q = 1 .. Len(q)
           /\ q \in [1 .. Len(q) -> S]
OBVIOUS

LEMMA SeqOfMore ==
    ASSUME NEW S, NEW T, NEW q \in Seq(S), S \subseteq T
    PROVE  q \in Seq(T)
OBVIOUS

LEMMA AppendFacts ==
    ASSUME NEW S, NEW q \in Seq(S), NEW e \in S
    PROVE  /\ Append(q, e) \in Seq(S) /\ Len(Append(q, e)) = Len(q) + 1
           /\ \A i \in 1 .. Len(q) : Append(q, e)[i] = q[i]
           /\ Append(q, e)[Len(q) + 1] = e
OBVIOUS

LEMMA ConcatFacts ==
    ASSUME NEW S, NEW p \in Seq(S), NEW q \in Seq(S)
    PROVE  /\ p \o q \in Seq(S)
           /\ Len(p \o q) = Len(p) + Len(q)
           /\ \A i \in 1 .. Len(p) + Len(q) :
                  (p \o q)[i] = IF i <= Len(p) THEN p[i] ELSE q[i - Len(p)]
OBVIOUS

LEMMA SubSeqFacts ==
    ASSUME NEW S, NEW q, NEW m \in Int, NEW n \in Int, \A i \in m .. n : q[i] \in S
    PROVE  /\ SubSeq(q, m, n) \in Seq(S)
           /\ Len(SubSeq(q, m, n)) = IF m <= n THEN n - m + 1 ELSE 0
           /\ \A i \in 1 .. n - m + 1 : SubSeq(q, m, n)[i] = q[m + i - 1]
OBVIOUS

-----------------------------------------------------------------------------
(* Headers.                                                                *)

\* What is known of the response at each stage: its header is the one that Kafka
\* defines for the request, so that a decoded one can be encoded again.
HeaderInv ==
    /\ req.key \in DOMAIN KafkaFlexibleFrom /\ req.version \in Nat
    /\ req.key = "DescribeConfigs" => req.version < 4
    /\ stage = "decoded" => ~Passthrough(req.key)
    /\ stage \in {"upstream", "answered"} =>
           respHeader = 4 + KafkaResponseHeaderVersion(req.key, req.version)
    /\ ResponseIsFound

\* The proxy's table has Kafka's versions, for the keys and versions in use.
LEMMA TablesAgree ==
    ASSUME NEW k \in DOMAIN FlexibleFrom, NEW v \in Nat, k = "DescribeConfigs" => v < 4
    PROVE  isFlexibleRequest(k, v) <=> KafkaFlexible(k, v)
<1>1. CASE k = "DescribeConfigs"
  <2>1. FlexibleFrom[k] = NeverFlexible /\ KafkaFlexibleFrom[k] = 4
    BY <1>1 DEF FlexibleFrom, KafkaFlexibleFrom
  <2> QED
    BY <1>1, <2>1, SMTT(30) DEF isFlexibleRequest, KafkaFlexible, NeverFlexible
<1>2. CASE k # "DescribeConfigs"
  <2>1. FlexibleFrom[k] = KafkaFlexibleFrom[k]
    <3> HIDE DEF NeverFlexible
    <3> QED
      BY <1>2, SMTT(60) DEF FlexibleFrom, KafkaFlexibleFrom
  <2> QED
    BY <2>1, ZenonT(60) DEF isFlexibleRequest, KafkaFlexible
<1> QED
  BY <1>1, <1>2

\* The keys that the proxy lists have numbers.
LEMMA KeysHaveNumbers ==
    ASSUME NEW k, ~Passthrough(k)
    PROVE  KeyNumber[k] \in Nat
<1> DEFINE Keys ==
        {"Produce", "Fetch", "ListOffsets", "Metadata", "OffsetCommit", "OffsetFetch",
         "FindCoordinator", "JoinGroup", "Heartbeat", "LeaveGroup", "SyncGroup",
         "DescribeGroups", "ListGroups", "SaslHandshake", "ApiVersions", "CreateTopics",
         "DeleteTopics", "InitProducerID", "AddPartitionsToTxn", "AddOffsetsToTxn",
         "EndTxn", "TxnOffsetCommit", "DescribeConfigs", "SaslAuthenticate",
         "DeleteGroups", "OffsetDelete"}
<1>1. k \in DOMAIN FlexibleFrom
  BY DEF Passthrough
<1>2. k \in Keys
  <2> HIDE DEF NeverFlexible
  <2> QED
    BY <1>1, SMTT(30) DEF FlexibleFrom
<1>3. \A x \in Keys : KeyNumber[x] \in 0 .. 255
  BY SMTT(60) DEF KeyNumber
<1> HIDE DEF Keys
<1>4. KeyNumber[k] \in 0 .. 255
  BY <1>2, <1>3, Zenon
<1> QED
  BY <1>4

\* The proxy expects tagged fields in the headers that have them.
LEMMA VersionsAgree ==
    ASSUME NEW k, NEW v \in Nat, ~Passthrough(k), k = "DescribeConfigs" => v < 4
    PROVE  RequestHeaderVersion(k, v) < 2 <=> ~KafkaFlexible(k, v)
<1>1. isFlexibleRequest(k, v) <=> KafkaFlexible(k, v)
  BY TablesAgree DEF Passthrough
<1>2. RequestHeaderVersion(k, v) = IF isFlexibleRequest(k, v) THEN 2 ELSE 1
  <2>1. CASE k = "ApiVersions"
    <3>1. FlexibleFrom[k] = 3 /\ k \in DOMAIN FlexibleFrom
      <4> HIDE DEF NeverFlexible
      <4> QED
        BY <2>1 DEF FlexibleFrom
    <3> QED
      BY <2>1, <3>1, SMTT(30) DEF RequestHeaderVersion, isFlexibleRequest
  <2>2. CASE k # "ApiVersions"
    BY <2>2, Zenon DEF RequestHeaderVersion
  <2> QED
    BY <2>1, <2>2
<1> QED
  BY <1>1, <1>2

\* So both have the same idea of the header of a response.
LEMMA HeadersAgree ==
    ASSUME NEW k, NEW v \in Nat, ~Passthrough(k), k = "DescribeConfigs" => v < 4
    PROVE  /\ ResponseHeaderVersion(k, v) = KafkaResponseHeaderVersion(k, v)
           /\ AppendResponseHeader(ResponseHeaderVersion(k, v))
                  = 4 + KafkaResponseHeaderVersion(k, v)
<1>1. isFlexibleRequest(k, v) <=> KafkaFlexible(k, v)
  BY TablesAgree DEF Passthrough
<1>2. ResponseHeaderVersion(k, v) = KafkaResponseHeaderVersion(k, v)
  BY <1>1, Zenon DEF ResponseHeaderVersion, KafkaResponseHeaderVersion
<1>3. ResponseHeaderVersion(k, v) \in {0, 1}
  BY SMTT(30) DEF ResponseHeaderVersion
<1> QED
  BY <1>2, <1>3 DEF AppendResponseHeader

\* The keys that the proxy answers itself are in its table.
LEMMA LocalKeys == \A k \in Local : ~Passthrough(k)
  BY ZenonT(60) DEF Local, Passthrough, FlexibleFrom

\* Both ends of every response agree on where its header ends, for every key of
\* Kafka, every version but DescribeConfigs 4, and whatever the request's header
\* contains.
THEOREM ResponsesAreFound == NoDescribeConfigs4 /\ HeaderSpec => []ResponseIsFound
<1>1. NoDescribeConfigs4 /\ HeaderInit => HeaderInv
  <2> SUFFICES ASSUME NoDescribeConfigs4, HeaderInit PROVE HeaderInv
    OBVIOUS
  <2>1. PICK r \in Request, cid \in ClientID, ts \in Tags, cut \in 0 .. MaxFrame :
            req = ClientRequest(r[1], r[2], cid, ts, cut)
    BY Zenon DEF HeaderInit
  <2>2. req.key = r[1] /\ req.version = r[2]
    BY <2>1 DEF ClientRequest
  <2>3. stage = "sent"
    BY SMTT(30) DEF HeaderInit
  <2> QED
    BY <2>2, <2>3, RequestAssumption, SMTT(30) DEF HeaderInv, ResponseIsFound, NoDescribeConfigs4
<1>2. HeaderInv /\ [HeaderNext]_headerVars => HeaderInv'
  <2> SUFFICES ASSUME HeaderInv, [HeaderNext]_headerVars PROVE HeaderInv'
    OBVIOUS
  <2> USE DEF HeaderInv, ResponseIsFound
  <2>1. CASE Parse
    BY <2>1 DEF Parse
  <2>2. CASE LocalReply
    <3>1. respHeader' = 4 + KafkaResponseHeaderVersion(req.key, req.version)
      BY <2>2, HeadersAgree, LocalKeys, SMTT(30) DEF LocalReply, EncodeResponse
    <3> QED
      BY <2>2, <3>1 DEF LocalReply
  <2>3. CASE BrokerAnswers
    BY <2>3 DEF BrokerAnswers
  <2>4. CASE PassOn
    BY <2>4 DEF PassOn
  <2>5. CASE Rewrite
    <3>1. respOffset = respHeader
      BY <2>5, HeadersAgree DEF Rewrite, respOffset
    <3> QED
      BY <2>5, <3>1, SMTT(30) DEF Rewrite
  <2>6. CASE Reply
    <3>1. respHeader' = 4 + KafkaResponseHeaderVersion(req.key, req.version)
      BY <2>6, HeadersAgree DEF Reply, EncodeResponse
    <3> QED
      BY <2>6, <3>1 DEF Reply
  <2>7. CASE ClientReads
    BY <2>7 DEF ClientReads
  <2>8. CASE Done \/ UNCHANGED headerVars
    BY <2>8 DEF Done, headerVars
  <2> QED
    BY <2>1, <2>2, <2>3, <2>4, <2>5, <2>6, <2>7, <2>8, ZenonT(60) DEF HeaderNext
<1>3. HeaderInv => ResponseIsFound
  BY DEF HeaderInv
<1> QED
  BY <1>1, <1>2, <1>3, PTL DEF HeaderSpec

-----------------------------------------------------------------------------
(* Frames.                                                                 *)

Bytes == [frame : Nat, at : Nat, size : Nat]

\* The frame that is being read, and the bytes read of it.
Current == Len(got) + 1
Offset == (IF part = "prefix" THEN 0 ELSE HdrLen) + Len(have)

\* The byte after the first o of frame f, when frames of the sizes w are written.
Following(w, f, o) ==
    IF o < HdrLen + w[f] THEN Byte(f, o + 1, w[f]) ELSE Byte(f + 1, 1, w[f + 1])

Types ==
    /\ TypeOK
    /\ stream \in Seq(Bytes) /\ have \in Seq(Bytes) /\ got \in Seq(Seq(Bytes))

\* The writer is inside the last frame or at its end.
WriterInv ==
    /\ written = << >> => pos = 0 /\ stream = << >>
    /\ written # << >> => pos < HdrLen + written[Len(written)]
    /\ result = "EOF" => closed

\* The stream holds bytes of frames, and its last byte is the last one written.
StreamInv ==
    /\ \A i \in 1 .. Len(stream) :
           LET b == stream[i]
           IN  /\ b.frame \in 1 .. Len(written) /\ b.size = written[b.frame]
               /\ b.at \in 1 .. HdrLen + b.size
    /\ stream # << >> =>
           LET w == written[Len(written)]
           IN  stream[Len(stream)] = Byte(Len(written), IF pos = 0 THEN HdrLen + w ELSE pos, w)

\* From any byte of the stream to the first of the next frame, the bytes follow
\* one another.  Stated for pairs at any distance, since a Read takes as many
\* bytes as have arrived.
Consecutive ==
    \A i \in 1 .. Len(stream) : \A j \in i .. Len(stream) :
        LET o == stream[i].at + (j - i) - 1
        IN  o <= HdrLen + stream[i].size => stream[j] = Following(written, stream[i].frame, o)

\* The reader is where the stream begins.
ReaderInv ==
    Reading =>
        /\ need = IF part = "prefix" THEN HdrLen ELSE written[Current]
        /\ part = "body" => need > 0
        /\ Offset > 0 => Current <= Len(written)
        /\ \A k \in 1 .. Len(have) :
               have[k] = Byte(Current, Offset - Len(have) + k, written[Current])
        /\ stream # << >> => stream[1] = Following(written, Current, Offset)
        /\ stream = << >> =>
               \/ pos = 0 /\ Offset = 0 /\ Len(written) = Len(got)
               \/ pos = 0 /\ Len(written) = Current /\ Offset = HdrLen + written[Current]
               \/ pos > 0 /\ Len(written) = Current /\ Offset = pos

GotInv == Len(got) <= Len(written) /\ FramesIntact

\* The inductive invariant.
IInv ==
    /\ Types /\ WriterInv /\ StreamInv /\ Consecutive /\ ReaderInv /\ GotInv
    /\ CleanEndLosesNothing

-----------------------------------------------------------------------------
\* The facts about the constants.
LEMMA Sizes ==
    /\ Size \subseteq Nat /\ MaxFrameSize \in Nat /\ MaxFrames \in Nat
    /\ HdrLen = 4
    /\ \A n \in Nat : n <= HdrLen \/ n <= MaxFrameSize => n \in 0 .. Max({HdrLen, MaxFrameSize})
    /\ Max({HdrLen, MaxFrameSize}) \in Nat
<1>1. Size \subseteq Nat /\ MaxFrameSize \in Nat /\ MaxFrames \in Nat /\ HdrLen = 4
  BY SizeAssumption DEF HdrLen
<1> DEFINE m == IF HdrLen <= MaxFrameSize THEN MaxFrameSize ELSE HdrLen
<1>2. Max({HdrLen, MaxFrameSize}) = m
  <2>1. m \in {HdrLen, MaxFrameSize} /\ \A y \in {HdrLen, MaxFrameSize} : m >= y
    BY <1>1
  <2>2. \A x \in {HdrLen, MaxFrameSize} : (\A y \in {HdrLen, MaxFrameSize} : x >= y) => x = m
    BY <1>1
  <2> QED
    BY <2>1, <2>2 DEF Max
<1> QED
  BY <1>1, <1>2

\* The lesser of two numbers.
LEMMA MinOfTwo ==
    ASSUME NEW a \in Int, NEW b \in Int
    PROVE  Min({a, b}) = IF a <= b THEN a ELSE b
<1> DEFINE m == IF a <= b THEN a ELSE b
<1>1. m \in {a, b} /\ \A y \in {a, b} : m <= y
  OBVIOUS
<1>2. \A x \in {a, b} : (\A y \in {a, b} : x <= y) => x = m
  OBVIOUS
<1> QED
  BY <1>1, <1>2 DEF Min

\* The types, for the proofs below.
LEMMA TypeFacts ==
    ASSUME IInv
    PROVE  /\ written \in Seq(Nat) /\ Len(written) \in Nat /\ pos \in Nat
           /\ stream \in Seq(Bytes) /\ Len(stream) \in Nat /\ arrived \in 0 .. Len(stream)
           /\ have \in Seq(Bytes) /\ Len(have) \in Nat /\ need \in Nat /\ Len(have) <= need
           /\ got \in Seq(Seq(Bytes)) /\ Len(got) \in Nat
           /\ part \in {"prefix", "body"}
<1>1. /\ written \in Seq(Size) /\ pos \in Nat /\ arrived \in 0 .. Len(stream)
      /\ part \in {"prefix", "body"} /\ need \in 0 .. Max({HdrLen, MaxFrameSize})
      /\ Len(have) <= need
      /\ stream \in Seq(Bytes) /\ have \in Seq(Bytes) /\ got \in Seq(Seq(Bytes))
  BY Zenon DEF IInv, Types, TypeOK
<1>2. written \in Seq(Nat)
  BY <1>1, Sizes, SeqOfMore, Zenon
<1>3. need \in Nat
  BY <1>1, Sizes
<1> QED
  BY <1>1, <1>2, <1>3, SeqFacts, Zenon

\* Those of them that are about numbers.
LEMMA NumFacts ==
    ASSUME IInv
    PROVE  /\ Len(written) \in Nat /\ pos \in Nat
           /\ Len(stream) \in Nat /\ arrived \in 0 .. Len(stream)
           /\ Len(have) \in Nat /\ need \in Nat /\ Len(have) <= need /\ Len(got) \in Nat
  BY TypeFacts, Zenon

\* The sizes of the frames written.
LEMMA WrittenFacts ==
    ASSUME IInv, NEW i \in 1 .. Len(written)
    PROVE  written[i] \in Nat
  BY TypeFacts, SeqFacts, SMTT(30)

\* A byte is written.
LEMMA WriteByteInv ==
    ASSUME IInv, NEW n \in Size, WriteByte(n)
    PROVE  IInv'
<1> DEFINE L == Len(stream)
           W == Len(written)
           b == Byte(Len(written'), pos + 1, n)
<1>0. n \in Nat /\ HdrLen = 4
  BY Sizes
<1>1. /\ \/ pos = 0 /\ written' = Append(written, n)
         \/ pos > 0 /\ n = written[W] /\ written' = written
      /\ pos > 0 => written # << >>
  BY Sizes DEF WriteByte, IInv, WriterInv
<1>2. /\ Len(written') \in Nat /\ Len(written') >= W /\ Len(written') > 0
      /\ Len(written') = IF pos = 0 THEN W + 1 ELSE W
      /\ written'[Len(written')] = n
      /\ \A i \in 1 .. W : written'[i] = written[i] /\ written[i] \in Nat
      /\ written' \in Seq(Size)
  <2>0. written \in Seq(Size)
    BY Zenon DEF IInv, Types, TypeOK
  <2>1. CASE pos = 0
    <3>1. written' = Append(written, n)
      BY <1>1, <2>1, TypeFacts
    <3> QED
      BY <1>0, <2>0, <2>1, <3>1, TypeFacts, SMTT(30)
  <2>2. CASE pos > 0
    <3>1. written' = written /\ n = written[W] /\ W > 0
      BY <1>1, <2>2, TypeFacts
    <3> QED
      BY <1>0, <2>0, <2>2, <3>1, TypeFacts, SMTT(30)
  <2> QED
    BY <2>1, <2>2, TypeFacts
<1>3. /\ stream' \in Seq(Bytes) /\ Len(stream') = L + 1
      /\ stream'[L + 1] = b
      /\ \A i \in 1 .. L : stream'[i] = stream[i]
  <2>1. b \in Bytes
    BY <1>0, <1>2, TypeFacts, SMTT(30) DEF Byte, Bytes
  <2>2. stream' = Append(stream, b)
    BY DEF WriteByte
  <2> QED
    BY <2>1, <2>2, TypeFacts, AppendFacts, SMTT(30)
<1>4. pos' = (IF pos + 1 = HdrLen + n THEN 0 ELSE pos + 1) /\ pos' \in Nat
  BY <1>0, TypeFacts, SMTT(30) DEF WriteByte
<1>5. UNCHANGED <<closed, arrived, part, need, have, got, result>> /\ ~closed
  BY DEF WriteByte, readerVars
<1>6. Types'
  <2>1. arrived' \in 0 .. Len(stream')
    BY <1>3, <1>5, TypeFacts
  <2> QED
    BY <1>2, <1>3, <1>4, <1>5, <2>1, Zenon DEF IInv, Types, TypeOK
<1>7. pos < HdrLen + n /\ (pos > 0 => pos < HdrLen + written[W])
  BY <1>0, <1>1, NumFacts DEF IInv, WriterInv
<1>8. WriterInv'
  <2>1. written' # << >>
    BY <1>2
  <2>2. pos' < HdrLen + n
    BY <1>0, <1>4, <1>7, NumFacts, SMTT(30)
  <2> QED
    BY <1>2, <1>5, <2>1, <2>2 DEF IInv, WriterInv
<1>9. StreamInv'
  <2>1. ASSUME NEW i \in 1 .. Len(stream')
        PROVE  /\ stream'[i].frame \in 1 .. Len(written')
               /\ stream'[i].size = written'[stream'[i].frame]
               /\ stream'[i].at \in 1 .. HdrLen + stream'[i].size
    <3> HIDE DEF b
    <3>1. CASE i \in 1 .. L
      <4>1. stream'[i] = stream[i] /\ Len(written') \in Nat /\ Len(written') >= W
        BY <1>2, <1>3, <3>1, SMTT(30)
      <4>2. /\ stream[i].frame \in 1 .. W /\ stream[i].size = written[stream[i].frame]
            /\ stream[i].at \in 1 .. HdrLen + stream[i].size
        BY <3>1 DEF IInv, StreamInv
      <4>3. written'[stream[i].frame] = written[stream[i].frame]
        BY <1>2, <4>2
      <4> QED
        BY <4>1, <4>2, <4>3, NumFacts, SMTT(30)
    <3>2. CASE i = L + 1
      <4>1. stream'[i] = b
        BY <1>3, <3>2
      <4>2. b.frame = Len(written') /\ b.at = pos + 1 /\ b.size = n
        BY DEF b, Byte
      <4>3. Len(written') \in 1 .. Len(written') /\ n = written'[Len(written')]
        BY <1>2
      <4>4. pos + 1 \in 1 .. HdrLen + n
        BY <1>0, <1>7, NumFacts, SMTT(30)
      <4> QED
        BY <4>1, <4>2, <4>3, <4>4
    <3> QED
      BY <1>3, <3>1, <3>2, NumFacts
  <2>2. stream'[Len(stream')] = Byte(Len(written'), IF pos' = 0 THEN HdrLen + n ELSE pos', n)
    BY <1>0, <1>3, <1>4, NumFacts, SMTT(30)
  <2> QED
    BY <1>2, <2>1, <2>2, SMTT(30) DEF StreamInv
<1>10. Consecutive'
  <2> SUFFICES ASSUME NEW i \in 1 .. L + 1, NEW j \in i .. L + 1,
                      stream'[i].at + (j - i) - 1 <= HdrLen + stream'[i].size
               PROVE  stream'[j] = Following(written', stream'[i].frame, stream'[i].at + (j - i) - 1)
    BY <1>3 DEF Consecutive
  <2>1. CASE i = L + 1
    <3>1. j = L + 1 /\ stream'[i] = b /\ stream'[j] = b
      BY <1>3, <2>1, NumFacts, SMTT(30)
    <3>2. b.frame = Len(written') /\ b.at = pos + 1 /\ b.at + (j - i) - 1 = pos
      BY <2>1, <3>1, NumFacts, SMTT(30) DEF Byte
    <3> QED
      BY <1>2, <1>7, <3>1, <3>2, ZenonT(60) DEF Following
  <2>2. CASE i \in 1 .. L
    <3>0. PICK f, a : f = stream[i].frame /\ a = stream[i].at
      BY Zenon
    <3>1. stream'[i] = stream[i]
      BY <1>3, <2>2, SMTT(30)
    <3>2. /\ f \in 1 .. W /\ stream[i].size = written[f] /\ a \in 1 .. HdrLen + written[f]
      BY <2>2, <3>0, SMTT(30) DEF IInv, StreamInv
    <3>3. written'[f] = written[f] /\ written[f] \in Nat /\ written[W] \in Nat /\ W > 0
      <4>1. W \in Nat /\ (W > 0 => W \in 1 .. W) /\ \A m \in 1 .. W : written[m] \in Nat
        BY NumFacts, WrittenFacts, SMTT(30)
      <4>2. \A m \in 1 .. W : written'[m] = written[m]
        BY <1>2, Zenon
      <4> HIDE DEF W
      <4> QED
        BY <3>2, <4>1, <4>2
    <3>4. PICK o \in Nat : o = a + (j - i) - 1 /\ o <= HdrLen + written[f]
      <4>1. a + (j - i) - 1 <= HdrLen + written[f]
        BY <3>0, <3>1, <3>2, ZenonT(60)
      <4>2. i \in Int /\ j \in Int /\ i <= j /\ a \in Nat \ {0}
        BY <1>0, <2>2, <3>2, <3>3, NumFacts, SMTT(30)
      <4> QED
        BY <4>1, <4>2
    <3>5. CASE j \in i .. L
      <4>1. stream[j] = Following(written, f, o)
        BY <2>2, <3>0, <3>2, <3>4, <3>5, ZenonT(60) DEF IInv, Consecutive
      <4>2. stream'[j] = stream[j]
        BY <1>3, <2>2, <3>5, NumFacts, SMTT(30)
      <4>3. CASE o < HdrLen + written[f]
        BY <3>0, <3>1, <3>3, <3>4, <4>1, <4>2, <4>3, Zenon DEF Following
      <4>4. CASE o = HdrLen + written[f]
        <5>1. stream[j] = Byte(f + 1, 1, written[f + 1])
          BY <1>0, <3>3, <4>1, <4>4, SMTT(30) DEF Following
        <5>2. stream[j].frame \in 1 .. W
          BY <2>2, <3>5, NumFacts, SMTT(30) DEF IInv, StreamInv
        <5>3. f + 1 \in 1 .. W
          BY <5>1, <5>2, SMTT(30) DEF Byte
        <5>4. written'[f + 1] = written[f + 1]
          BY <1>2, <5>3, SMTT(30)
        <5> QED
          <6>1. Following(written', f, o) = Byte(f + 1, 1, written'[f + 1])
            BY <1>0, <3>3, <3>4, <4>4, SMTT(30) DEF Following
          <6> QED
            BY <3>0, <3>1, <3>4, <4>2, <5>1, <5>4, <6>1, ZenonT(60)
      <4> QED
        BY <1>0, <3>3, <3>4, <4>3, <4>4
    <3>6. CASE j = L + 1
      <4>1. L \in i .. L /\ o - 1 = a + (L - i) - 1 /\ o \in Nat \ {0} /\ o - 1 <= HdrLen + written[f]
        <5>1. a \in Nat \ {0} /\ HdrLen + written[f] \in Nat
          BY <1>0, <3>2, <3>3, SMTT(30)
        <5>2. L \in Nat
          BY NumFacts, Zenon
        <5> HIDE DEF L
        <5> QED
          BY <2>2, <3>4, <3>6, <5>1, <5>2, SMTT(30)
      <4>2. stream[L] = Following(written, f, o - 1)
        <5>1. stream[i].at + (L - i) - 1 = o - 1 /\ o - 1 <= HdrLen + stream[i].size
          BY <3>0, <3>2, <4>1, ZenonT(60)
        <5> QED
          BY <2>2, <3>0, <4>1, <5>1, ZenonT(60) DEF IInv, Consecutive
      <4>3. stream[L] = Byte(W, IF pos = 0 THEN HdrLen + written[W] ELSE pos, written[W])
        BY <2>2, NumFacts, SMTT(30) DEF IInv, StreamInv
      <4>4. b = Following(written', f, o)
        <5>1. Following(written, f, o - 1) = Byte(f, o, written[f])
          <6>1. o - 1 < HdrLen + written[f] /\ (o - 1) + 1 = o
            BY <1>0, <3>3, <3>4, SMTT(30)
          <6> QED
            BY <6>1, ZenonT(60) DEF Following
        <5>2. f = W /\ o = IF pos = 0 THEN HdrLen + written[W] ELSE pos
          BY <4>2, <4>3, <5>1 DEF Byte
        <5>3. CASE pos = 0
          <6>1. b = Byte(W + 1, 1, written'[W + 1])
            BY <1>2, <5>3
          <6>2. Following(written', f, o) = Byte(f + 1, 1, written'[f + 1])
            BY <1>0, <3>3, <3>4, <5>2, <5>3 DEF Following
          <6> QED
            BY <5>2, <6>1, <6>2, ZenonT(60)
        <5>4. CASE pos > 0
          <6>1. b = Byte(W, pos + 1, written[W])
            BY <1>1, <1>2, <5>4, SMTT(30)
          <6>2. Following(written', f, o) = Byte(f, o + 1, written[f])
            BY <1>0, <1>7, <3>3, <3>4, <5>2, <5>4, SMTT(30) DEF Following
          <6>3. o = pos
            BY <5>2, <5>4
          <6> QED
            BY <5>2, <6>1, <6>2, <6>3, ZenonT(60)
        <5> QED
          BY <5>3, <5>4, NumFacts
      <4> QED
        BY <1>3, <3>0, <3>1, <3>4, <3>6, <4>4, SMTT(30)
    <3> QED
      BY <2>2, <3>5, <3>6, NumFacts
  <2> QED
    BY <2>1, <2>2, NumFacts, SMTT(30)
<1>11. ReaderInv'
  <2> SUFFICES ASSUME Reading
               PROVE  ReaderInv'
    BY <1>5 DEF ReaderInv, Reading
  <2>1. Current' = Current /\ Offset' = Offset /\ Current \in Nat \ {0} /\ Offset \in Nat
    BY <1>0, <1>5, NumFacts DEF Current, Offset
  <2>2. /\ need = IF part = "prefix" THEN HdrLen ELSE written[Current]
        /\ part = "body" => need > 0
        /\ Offset > 0 => Current <= W
        /\ \A k \in 1 .. Len(have) : have[k] = Byte(Current, Offset - Len(have) + k, written[Current])
    BY DEF IInv, ReaderInv
  <2>3. Offset > 0 => Current <= Len(written') /\ written'[Current] = written[Current]
    BY <1>2, <2>1, <2>2, NumFacts
  <2>4. part = "body" \/ Len(have) > 0 => Offset > 0
    BY <1>0, NumFacts, SMTT(30) DEF Offset
  <2>5. /\ need' = IF part' = "prefix" THEN HdrLen ELSE written'[Current]
        /\ part' = "body" => need' > 0
    BY <1>5, <2>2, <2>3, <2>4, TypeFacts, SMTT(30)
  <2>6. \A k \in 1 .. Len(have') :
            have'[k] = Byte(Current', Offset' - Len(have') + k, written'[Current'])
    BY <1>5, <2>1, <2>2, <2>3, <2>4, NumFacts
  <2>7. stream'[1] = Following(written', Current, Offset)
    <3>1. CASE L > 0
      <4>1. stream'[1] = stream[1] /\ stream[1] = Following(written, Current, Offset)
        BY <1>3, <3>1, NumFacts, SMTT(30) DEF IInv, ReaderInv
      <4>2. stream[1].frame \in 1 .. W
        BY <3>1, NumFacts DEF IInv, StreamInv
      <4>3. CASE Offset < HdrLen + written[Current]
        <5>1. Following(written, Current, Offset) = Byte(Current, Offset + 1, written[Current])
          BY <4>3, SMTT(30) DEF Following
        <5>2. Current \in 1 .. W
          BY <4>1, <4>2, <5>1 DEF Byte
        <5>3. written'[Current] = written[Current]
          BY <1>2, <5>2
        <5> QED
          BY <4>1, <4>3, <5>3, Zenon DEF Following
      <4>4. CASE ~(Offset < HdrLen + written[Current])
        <5>1. Following(written, Current, Offset) = Byte(Current + 1, 1, written[Current + 1])
          BY <4>4, SMTT(30) DEF Following
        <5>2. Current + 1 \in 1 .. W
          BY <4>1, <4>2, <5>1 DEF Byte
        <5>3. Current \in 1 .. W
          BY <2>1, <5>2, NumFacts
        <5>4. written'[Current] = written[Current] /\ written'[Current + 1] = written[Current + 1]
          BY <1>2, <5>2, <5>3
        <5> QED
          BY <4>1, <4>4, <5>4, Zenon DEF Following
      <4> QED
        BY <4>3, <4>4, SMTT(30)
    <3>2. CASE L = 0
      <4>1. \/ pos = 0 /\ Offset = 0 /\ W = Len(got)
            \/ pos = 0 /\ W = Current /\ Offset = HdrLen + written[Current]
            \/ pos > 0 /\ W = Current /\ Offset = pos
        <5>1. stream = << >>
          BY <3>2, TypeFacts
        <5> QED
          BY <5>1 DEF IInv, ReaderInv
      <4>2. stream'[1] = b /\ b = Byte(Len(written'), pos + 1, n)
        BY <1>3, <3>2
      <4>3. CASE pos = 0 /\ Offset = 0 /\ W = Len(got)
        <5>1. Current = W + 1 /\ Len(written') = W + 1 /\ written'[W + 1] = n
          BY <1>2, <4>3 DEF Current
        <5>2. Following(written', Current, Offset) = Byte(Current, 1, n)
          BY <1>0, <4>3, <5>1 DEF Following
        <5> QED
          BY <4>2, <4>3, <5>1, <5>2
      <4>4. CASE pos = 0 /\ W = Current /\ Offset = HdrLen + written[Current]
        <5>1. Len(written') = W + 1 /\ written'[W + 1] = n /\ written'[W] = written[W]
          BY <1>2, <2>1, <4>4
        <5>2. Following(written', Current, Offset) = Byte(Current + 1, 1, n)
          BY <1>0, <2>1, <4>4, <5>1 DEF Following
        <5> QED
          BY <4>2, <4>4, <5>1, <5>2
      <4>5. CASE pos > 0 /\ W = Current /\ Offset = pos
        <5>1. Len(written') = W /\ written'[W] = n
          BY <1>2, <4>5, NumFacts
        <5>2. Following(written', Current, Offset) = Byte(Current, pos + 1, n)
          BY <1>0, <1>7, <4>5, <5>1, NumFacts DEF Following
        <5> QED
          BY <4>2, <4>5, <5>1, <5>2
      <4> QED
        BY <4>1, <4>3, <4>4, <4>5
    <3> QED
      BY <3>1, <3>2, NumFacts
  <2>8. stream' # << >>
    BY <1>3, NumFacts
  <2> QED
    BY <2>1, <2>3, <2>5, <2>6, <2>7, <2>8, SMTT(30) DEF ReaderInv
<1>12. GotInv'
  <2>1. Len(got) <= W /\ Len(got) <= Len(written')
    BY <1>2, NumFacts DEF IInv, GotInv
  <2>2. ASSUME NEW i \in 1 .. Len(got)
        PROVE  got[i] = Body(i, written'[i])
    <3>1. written'[i] = written[i]
      BY <1>2, <2>1, NumFacts
    <3> QED
      BY <3>1, Zenon DEF IInv, GotInv, FramesIntact
  <2> QED
    BY <1>5, <2>1, <2>2, Zenon DEF GotInv, FramesIntact
<1>13. CleanEndLosesNothing'
  BY <1>5, Zenon DEF IInv, WriterInv, CleanEndLosesNothing
<1> QED
  BY <1>6, <1>8, <1>9, <1>10, <1>11, <1>12, <1>13 DEF IInv

\* The writer closes its end.
LEMMA CloseInv ==
    ASSUME IInv, Close
    PROVE  IInv'
<1>1. Types' /\ WriterInv'
  BY SMTT(30) DEF IInv, Types, TypeOK, WriterInv, Close, readerVars
<1>2. StreamInv' /\ Consecutive'
  BY SMTT(30) DEF IInv, StreamInv, Consecutive, Following, Close
<1>3. ReaderInv'
  BY DEF IInv, ReaderInv, Following, Close, readerVars, Reading, Current, Offset
<1>4. GotInv' /\ CleanEndLosesNothing'
  BY DEF IInv, GotInv, FramesIntact, CleanEndLosesNothing, Close, readerVars
<1> QED
  BY <1>1, <1>2, <1>3, <1>4, SMTT(30) DEF IInv

\* Another byte arrives.
LEMMA DeliverInv ==
    ASSUME IInv, Deliver
    PROVE  IInv'
<1>1. Types' /\ WriterInv'
  BY SMTT(30) DEF IInv, Types, TypeOK, WriterInv, Deliver, readerVars, writerVars
<1>2. StreamInv' /\ Consecutive'
  BY SMTT(30) DEF IInv, StreamInv, Consecutive, Following, Deliver, writerVars
<1>3. ReaderInv'
  BY DEF IInv, ReaderInv, Following, Deliver, readerVars, writerVars, Reading, Current, Offset
<1>4. GotInv' /\ CleanEndLosesNothing'
  BY DEF IInv, GotInv, FramesIntact, CleanEndLosesNothing, Deliver, readerVars, writerVars
<1> QED
  BY <1>1, <1>2, <1>3, <1>4, SMTT(30) DEF IInv

\* A Read takes what has arrived, or what the part still needs.
LEMMA ReadInv ==
    ASSUME IInv, Read
    PROVE  IInv'
<1> DEFINE k == Min({arrived, need - Len(have)})
           h == Len(have)
           L == Len(stream)
           w == written[Current]
<1>0. HdrLen = 4
  BY DEF HdrLen
<1>1. /\ k \in Nat \ {0} /\ k <= L /\ k <= arrived /\ h + k <= need
  <2>1. k = IF arrived <= need - h THEN arrived ELSE need - h
    BY NumFacts, MinOfTwo
  <2>2. k > 0
    BY DEF Read
  <2> HIDE DEF k
  <2> QED
    BY <2>1, <2>2, NumFacts
<1> HIDE DEF k
<1>2. /\ have' = have \o SubSeq(stream, 1, k) /\ stream' = SubSeq(stream, k + 1, L)
      /\ arrived' = arrived - k
      /\ UNCHANGED <<written, pos, closed, part, need, got, result>> /\ Reading
  BY DEF Read, writerVars, k
<1>3. /\ have' \in Seq(Bytes) /\ Len(have') = h + k
      /\ \A i \in 1 .. h : have'[i] = have[i]
      /\ \A i \in 1 .. k : have'[h + i] = stream[i]
  <2>1. /\ SubSeq(stream, 1, k) \in Seq(Bytes) /\ Len(SubSeq(stream, 1, k)) = k
        /\ \A i \in 1 .. k : SubSeq(stream, 1, k)[i] = stream[i]
    BY <1>1, TypeFacts, SubSeqFacts
  <2> QED
    BY <1>1, <1>2, <2>1, TypeFacts, ConcatFacts, SMTT(30)
<1>4. /\ stream' \in Seq(Bytes) /\ Len(stream') = L - k
      /\ \A i \in 1 .. L - k : stream'[i] = stream[i + k]
  BY <1>1, <1>2, TypeFacts, SMTT(30)
<1>5. Types'
  <2>1. arrived' \in 0 .. Len(stream') /\ Len(have') <= need
    BY <1>1, <1>2, <1>3, <1>4, NumFacts, SMTT(30)
  <2> QED
    BY <1>2, <1>3, <1>4, <2>1, Zenon DEF IInv, Types, TypeOK
<1>6. WriterInv'
  <2>1. written = << >> => stream' = << >>
    <3>1. written = << >> => stream = << >>
      BY Zenon DEF IInv, WriterInv
    <3> QED
      BY <1>1, <3>1, NumFacts
  <2> QED
    BY <1>2, <2>1, Zenon DEF IInv, WriterInv
<1>7. StreamInv'
  <2>1. ASSUME NEW i \in 1 .. L - k
        PROVE  /\ stream'[i] = stream[i + k]
               /\ stream[i + k].frame \in 1 .. Len(written)
               /\ stream[i + k].size = written[stream[i + k].frame]
               /\ stream[i + k].at \in 1 .. HdrLen + stream[i + k].size
    <3>1. i + k \in 1 .. L
      BY <1>1, NumFacts
    <3> QED
      BY <1>4, <3>1, Zenon DEF IInv, StreamInv
  <2>2. stream' # << >> => stream # << >> /\ stream'[Len(stream')] = stream[L]
    <3>1. stream' # << >> => L - k > 0
      BY <1>1, <1>4, TypeFacts
    <3>2. L - k > 0 => L - k \in 1 .. L - k /\ (L - k) + k = L
      BY <1>1, NumFacts
    <3>3. L - k > 0 => stream # << >>
      BY <1>1, TypeFacts
    <3> QED
      BY <1>4, <3>1, <3>2, <3>3, Zenon
  <2> QED
    BY <1>2, <1>4, <2>1, <2>2, ZenonT(60) DEF IInv, StreamInv
<1>8. Consecutive'
  <2> SUFFICES ASSUME NEW i \in 1 .. L - k, NEW j \in i .. L - k,
                      stream'[i].at + (j - i) - 1 <= HdrLen + stream'[i].size
               PROVE  stream'[j] = Following(written, stream'[i].frame, stream'[i].at + (j - i) - 1)
    BY <1>2, <1>4, Zenon DEF Consecutive
  <2>1. /\ i + k \in 1 .. L /\ j + k \in i + k .. L /\ (j + k) - (i + k) = j - i
        /\ j \in 1 .. L - k
    BY <1>1, NumFacts
  <2>2. stream'[i] = stream[i + k] /\ stream'[j] = stream[j + k]
    BY <1>4, <2>1, Zenon
  <2> QED
    BY <2>1, <2>2, Zenon DEF IInv, Consecutive
<1>9. ReaderInv'
  <2>1. /\ need = IF part = "prefix" THEN HdrLen ELSE w
        /\ part = "body" => need > 0
        /\ Offset > 0 => Current <= Len(written)
        /\ \A i \in 1 .. h : have[i] = Byte(Current, Offset - h + i, w)
    BY <1>2 DEF IInv, ReaderInv
  <2>2. L > 0 /\ stream # << >>
    BY <1>1, TypeFacts
  <2>3. stream[1] = Following(written, Current, Offset)
    BY <1>2, <2>2, Zenon DEF IInv, ReaderInv
  <2>4. stream[1].frame \in 1 .. Len(written)
    BY <2>2, NumFacts DEF IInv, StreamInv
  <2>5. Current \in Nat /\ Offset \in Nat /\ Offset < HdrLen + w /\ w \in Nat
    <3>1. Current \in Nat /\ Current > 0
      BY NumFacts DEF Current
    <3>2. Current <= Len(written)
      BY <2>3, <2>4, <3>1, NumFacts DEF Following, Byte
    <3>3. w \in Nat
      BY <3>1, <3>2, WrittenFacts, NumFacts
    <3>4. h < need /\ h \in Nat
      BY <1>1, NumFacts
    <3>5. Offset \in Nat /\ Offset < HdrLen + w
      BY <1>0, <2>1, <3>3, <3>4, TypeFacts, SMTT(30) DEF Offset
    <3> QED
      BY <3>1, <3>3, <3>5
  <2>6. /\ stream[1].at = Offset + 1 /\ stream[1].size = w /\ stream[1].frame = Current
    BY <2>3, <2>5 DEF Following, Byte
  <2>7. \A i \in 1 .. L : Offset + (i - 1) <= HdrLen + w =>
                               stream[i] = Following(written, Current, Offset + (i - 1))
    <3> SUFFICES ASSUME NEW i \in 1 .. L, Offset + (i - 1) <= HdrLen + w
                 PROVE  stream[i] = Following(written, Current, Offset + (i - 1))
      BY Zenon
    <3>1. 1 \in 1 .. L /\ i \in 1 .. L /\ stream[1].at + (i - 1) - 1 = Offset + (i - 1)
      <4>1. L \in Nat
        BY NumFacts, Zenon
      <4>2. Offset \in Nat /\ stream[1].at = Offset + 1
        BY <2>5, <2>6
      <4> HIDE DEF L
      <4>3. 1 \in 1 .. L /\ i \in 1 .. L
        BY <4>1, SMTT(30)
      <4>4. (Offset + 1) + (i - 1) - 1 = Offset + (i - 1)
        BY <4>1, <4>2, SMTT(30)
      <4> QED
        BY <4>2, <4>3, <4>4, Zenon
    <3> QED
      BY <2>6, <3>1, Zenon DEF IInv, Consecutive
  <2>8. Offset + k <= HdrLen + w /\ Offset' = Offset + k /\ Current' = Current
    <3>1. Current' = Current
      BY <1>2 DEF Current
    <3>2. Len(have') = h + k /\ part' = part
      BY <1>2, <1>3, Zenon
    <3>3. Offset' = Offset + k
      BY <1>0, <1>1, <3>2, NumFacts DEF Offset
    <3>4. part = "prefix" \/ part = "body"
      BY TypeFacts
    <3>5. Offset + k <= HdrLen + w
      BY <1>0, <1>1, <2>1, <2>5, <3>4, NumFacts, SMTT(30) DEF Offset
    <3> QED
      BY <3>1, <3>3, <3>5
  <2>9. ASSUME NEW i \in 1 .. h + k
        PROVE  have'[i] = Byte(Current, (Offset + k) - (h + k) + i, w)
    <3>1. CASE i \in 1 .. h
      <4>1. Offset - h + i = (Offset + k) - (h + k) + i
        BY <1>1, <2>5, NumFacts
      <4> QED
        BY <1>3, <2>1, <3>1, <4>1, Zenon
    <3>2. CASE i \in h + 1 .. h + k
      <4>1. i - h \in 1 .. k /\ h + (i - h) = i
        BY <1>1, <3>2, NumFacts
      <4>2. have'[i] = stream[i - h]
        BY <1>3, <4>1, Zenon
      <4>3. i - h \in 1 .. L /\ Offset + ((i - h) - 1) < HdrLen + w
        <5> HIDE DEF w
        <5>1. Offset + k <= HdrLen + w
          BY <2>8
        <5> QED
          BY <1>0, <1>1, <2>5, <4>1, <5>1, NumFacts
      <4>4. (Offset + ((i - h) - 1)) + 1 = (Offset + k) - (h + k) + i
        BY <1>1, <2>5, <3>2, NumFacts
      <4>5. stream[i - h] = Following(written, Current, Offset + ((i - h) - 1))
        BY <1>0, <2>5, <2>7, <4>3, SMTT(30)
      <4> QED
        BY <4>2, <4>3, <4>4, <4>5, Zenon DEF Following
    <3> QED
      BY <1>1, <3>1, <3>2, NumFacts
  <2>10. stream' # << >> => stream'[1] = Following(written, Current, Offset + k)
    <3>1. stream' # << >> => L - k > 0
      BY <1>1, <1>4, TypeFacts
    <3>2. L - k > 0 => 1 \in 1 .. L - k /\ 1 + k \in 1 .. L /\ (1 + k) - 1 = k
      BY <1>1, NumFacts
    <3> QED
      BY <1>4, <2>7, <2>8, <3>1, <3>2, Zenon
  <2>11. stream' = << >> =>
            \/ pos = 0 /\ Len(written) = Current /\ Offset + k = HdrLen + w
            \/ pos > 0 /\ Len(written) = Current /\ Offset + k = pos
    <3> SUFFICES ASSUME stream' = << >>
                 PROVE  Len(written) = Current /\ Offset + k = IF pos = 0 THEN HdrLen + w ELSE pos
      BY NumFacts
    <3>1. k = L
      BY <1>1, <1>4, NumFacts
    <3>2. stream[L] = Byte(Len(written), IF pos = 0 THEN HdrLen + written[Len(written)] ELSE pos,
                           written[Len(written)])
      BY <2>2, Zenon DEF IInv, StreamInv
    <3>3. L \in 1 .. L /\ Offset + (L - 1) < HdrLen + w /\ (Offset + (L - 1)) + 1 = Offset + k
      <4> HIDE DEF w
      <4>1. Offset + k <= HdrLen + w
        BY <2>8
      <4> QED
        BY <1>0, <1>1, <2>5, <3>1, <4>1, NumFacts
    <3>4. stream[L] = Following(written, Current, Offset + (L - 1))
      BY <1>0, <2>5, <2>7, <3>3
    <3>5. stream[L] = Byte(Current, Offset + k, w)
      BY <3>3, <3>4, Zenon DEF Following
    <3> QED
      BY <3>2, <3>5 DEF Byte
  <2>12. Offset + k > 0 => Current <= Len(written)
    BY <2>4, <2>6, NumFacts
  <2> QED
    BY <1>2, <1>3, <2>1, <2>8, <2>9, <2>10, <2>11, <2>12, ZenonT(60) DEF ReaderInv
<1>10. GotInv' /\ CleanEndLosesNothing'
  BY <1>2, Zenon DEF IInv, GotInv, FramesIntact, CleanEndLosesNothing
<1> QED
  BY <1>5, <1>6, <1>7, <1>8, <1>9, <1>10 DEF IInv

\* A prefix is complete: the body begins, or the frame is refused.
LEMMA ReadPrefixInv ==
    ASSUME IInv, ReadPrefix
    PROVE  IInv'
<1> DEFINE w == written[Current]
<1>1. /\ Reading /\ part = "prefix" /\ Len(have) = need /\ have' = << >>
      /\ UNCHANGED <<written, pos, closed, stream, arrived, got>>
      /\ \/ SizeAccepted(DecodedSize) /\ part' = "body" /\ need' = DecodedSize /\ result' = result
         \/ /\ result' \in {"zeroLength", "tooLarge"} /\ part' = part /\ need' = need
  BY Zenon DEF ReadPrefix, ReadFull, writerVars
<1>2. /\ Len(have) = 4 /\ HdrLen = 4 /\ Offset = 4 /\ Current \in 1 .. Len(written)
      /\ have[4] = Byte(Current, 4, w)
  <2>1. /\ need = HdrLen /\ (Offset > 0 => Current <= Len(written))
        /\ \A k \in 1 .. Len(have) : have[k] = Byte(Current, Offset - Len(have) + k, w)
    BY <1>1, Zenon DEF IInv, ReaderInv
  <2>2. Len(have) = 4 /\ HdrLen = 4 /\ Offset = 4
    BY <1>1, <2>1 DEF HdrLen, Offset
  <2>3. have[4] = Byte(Current, 4, w)
    BY <2>1, <2>2
  <2> QED
    BY <2>1, <2>2, <2>3, NumFacts DEF Current
<1>3. DecodedSize = w /\ w \in Nat
  BY <1>2, WrittenFacts DEF DecodedSize, Byte
<1>4. Types'
  <2>1. have' \in Seq(Bytes) /\ Len(have') = 0
    BY <1>1
  <2>2. need' \in 0 .. Max({HdrLen, MaxFrameSize})
    <3>1. need \in 0 .. Max({HdrLen, MaxFrameSize})
      BY Zenon DEF IInv, Types, TypeOK
    <3>2. CASE need' = need
      BY <2>1, <3>1, <3>2, NumFacts
    <3>3. CASE SizeAccepted(DecodedSize) /\ need' = DecodedSize
      <4>1. need' \in Nat /\ need' <= MaxFrameSize
        BY <1>3, <3>3 DEF SizeAccepted
      <4> QED
        BY <2>1, <4>1, Sizes, Zenon
    <3> QED
      BY <1>1, <3>2, <3>3
  <2>3. /\ part' \in {"prefix", "body"}
        /\ result' \in {"none", "EOF", "unexpectedEOF", "zeroLength", "tooLarge", "error"}
    BY <1>1 DEF Reading
  <2>4. Len(have') <= need'
    BY <2>1, <2>2, Sizes
  <2> QED
    BY <1>1, <2>1, <2>2, <2>3, <2>4, Zenon DEF IInv, Types, TypeOK
<1>5. WriterInv' /\ CleanEndLosesNothing'
  <2>1. result' # "EOF"
    BY <1>1 DEF Reading
  <2> QED
    BY <1>1, <2>1, Zenon DEF IInv, WriterInv, CleanEndLosesNothing
<1>6. StreamInv' /\ Consecutive' /\ GotInv'
  BY <1>1, Zenon DEF IInv, StreamInv, Consecutive, GotInv, FramesIntact
<1>7. ReaderInv'
  <2> SUFFICES ASSUME Reading'
               PROVE  ReaderInv'
    BY Zenon DEF ReaderInv
  <2>1. SizeAccepted(w) /\ part' = "body" /\ need' = w
    BY <1>1, <1>3 DEF Reading
  <2>2. Current' = Current /\ Len(have') = 0 /\ Offset' = Offset
    BY <1>1, <1>2, <2>1 DEF Current, Offset
  <2>3. /\ need' = IF part' = "prefix" THEN HdrLen ELSE w
        /\ part' = "body" => need' > 0
        /\ Current <= Len(written)
    BY <1>2, <1>3, <2>1, NumFacts DEF SizeAccepted
  <2>4. \A k \in 1 .. Len(have') : have'[k] = Byte(Current', Offset' - Len(have') + k, w)
    BY <2>2
  <2> QED
    BY <1>1, <2>2, <2>3, <2>4, Zenon DEF IInv, ReaderInv
<1> QED
  BY <1>4, <1>5, <1>6, <1>7 DEF IInv

\* A body is complete: the frame is returned, and it is the one written.
LEMMA ReadBodyInv ==
    ASSUME IInv, ReadBody
    PROVE  IInv'
<1> DEFINE w == written[Current]
<1>0. HdrLen = 4
  BY DEF HdrLen
<1>1. /\ Reading /\ part = "body" /\ Len(have) = need
      /\ got' = Append(got, have) /\ part' = "prefix" /\ need' = HdrLen /\ have' = << >>
      /\ UNCHANGED <<written, pos, closed, stream, arrived, result>>
  BY Zenon DEF ReadBody, ReadFull, writerVars
<1>2. /\ need = w /\ Offset = HdrLen + w /\ Current \in 1 .. Len(written) /\ w \in Nat
      /\ \A k \in 1 .. w : have[k] = Byte(Current, HdrLen + k, w)
  <2>1. /\ need = w /\ (Offset > 0 => Current <= Len(written))
        /\ \A k \in 1 .. Len(have) : have[k] = Byte(Current, Offset - Len(have) + k, w)
    BY <1>1 DEF IInv, ReaderInv
  <2>2. Offset = HdrLen + need /\ Offset > 0
    BY <1>0, <1>1, NumFacts DEF Offset
  <2>3. Current \in 1 .. Len(written)
    BY <2>1, <2>2, NumFacts DEF Current
  <2>4. \A k \in 1 .. need : Offset - Len(have) + k = HdrLen + k
    BY <1>0, <1>1, <2>2, NumFacts, SMTT(30)
  <2> QED
    BY <1>1, <2>1, <2>2, <2>3, <2>4, WrittenFacts, Zenon
<1>3. have = Body(Current, w)
  <2>1. have \in [1 .. w -> Bytes]
    BY <1>1, <1>2, TypeFacts, SeqFacts, SMTT(30)
  <2> QED
    BY <1>2, <2>1 DEF Body
<1>4. /\ got' \in Seq(Seq(Bytes)) /\ Len(got') = Current /\ got'[Current] = have
      /\ \A i \in 1 .. Len(got) : got'[i] = got[i]
  BY <1>1, TypeFacts, AppendFacts DEF Current
<1>5. have' \in Seq(Bytes) /\ Len(have') = 0
  BY <1>1
<1>6. Types'
  <2>1. need' \in 0 .. Max({HdrLen, MaxFrameSize}) /\ Len(have') <= need'
    <3>1. HdrLen \in Nat /\ HdrLen <= HdrLen /\ 0 <= HdrLen
      BY <1>0
    <3> QED
      BY <1>1, <1>5, <3>1, Sizes, Zenon
  <2> QED
    BY <1>1, <1>4, <1>5, <2>1, Zenon DEF IInv, Types, TypeOK
<1>7. WriterInv' /\ CleanEndLosesNothing' /\ StreamInv' /\ Consecutive'
  <2>1. result' # "EOF"
    BY <1>1 DEF Reading
  <2> QED
    BY <1>1, <2>1, Zenon DEF IInv, WriterInv, CleanEndLosesNothing, StreamInv, Consecutive
<1>8. ReaderInv'
  <2>1. Current' = Current + 1 /\ Offset' = 0 /\ Len(got') = Current
    BY <1>1, <1>4, <1>5 DEF Current, Offset
  <2>2. stream # << >> => stream[1] = Following(written, Current + 1, 0)
    <3> SUFFICES ASSUME stream # << >>
                 PROVE  stream[1] = Following(written, Current + 1, 0)
      OBVIOUS
    <3>1. stream[1] = Following(written, Current, Offset)
      BY <1>1, Zenon DEF IInv, ReaderInv
    <3>2. stream[1] = Byte(Current + 1, 1, written[Current + 1])
      BY <1>0, <1>2, <3>1 DEF Following
    <3>3. 1 \in 1 .. Len(stream)
      BY TypeFacts
    <3>4. stream[1].frame \in 1 .. Len(written)
      BY <3>3, Zenon DEF IInv, StreamInv
    <3>5. Current + 1 \in 1 .. Len(written)
      BY <3>2, <3>4 DEF Byte
    <3>6. written[Current + 1] \in Nat
      BY <3>5, WrittenFacts
    <3> QED
      BY <1>0, <3>2, <3>6 DEF Following
  <2>3. stream = << >> => pos = 0 /\ Len(written) = Current
    <3> SUFFICES ASSUME stream = << >>
                 PROVE  pos = 0 /\ Len(written) = Current
      OBVIOUS
    <3>1. \/ pos = 0 /\ Offset = 0 /\ Len(written) = Len(got)
          \/ pos = 0 /\ Len(written) = Current /\ Offset = HdrLen + w
          \/ pos > 0 /\ Len(written) = Current /\ Offset = pos
      BY <1>1, Zenon DEF IInv, ReaderInv
    <3>2. Len(written) = Current => pos < HdrLen + w
      <4>1. written # << >>
        BY <1>2
      <4> QED
        BY <4>1, Zenon DEF IInv, WriterInv
    <3> QED
      BY <1>0, <1>2, <3>1, <3>2, NumFacts
  <2>4. \A k \in 1 .. Len(have') :
            have'[k] = Byte(Current', Offset' - Len(have') + k, written'[Current'])
    BY <1>5
  <2>5. ~(Offset' > 0) /\ part' # "body"
    BY <1>1, <2>1
  <2> QED
    BY <1>1, <2>1, <2>2, <2>3, <2>4, <2>5, Zenon DEF ReaderInv
<1>9. GotInv'
  <2>1. Len(got') <= Len(written)
    BY <1>2, <1>4, NumFacts
  <2>2. ASSUME NEW i \in 1 .. Len(got')
        PROVE  got'[i] = Body(i, written[i])
    <3>1. i = Current \/ i \in 1 .. Len(got)
      BY <1>4, NumFacts DEF Current
    <3> QED
      BY <1>3, <1>4, <3>1, Zenon DEF IInv, GotInv, FramesIntact
  <2> QED
    BY <1>1, <2>1, <2>2, Zenon DEF GotInv, FramesIntact
<1> QED
  BY <1>6, <1>7, <1>8, <1>9 DEF IInv

\* The stream ends.  At a clean end the writer was between two parts.
LEMMA ReadEndInv ==
    ASSUME IInv, ReadEnd
    PROVE  IInv'
<1>1. /\ Reading /\ Len(have) # need /\ closed /\ stream = << >>
      /\ UNCHANGED <<written, pos, closed, stream, arrived, part, need, have, got>>
      /\ result' = IF have = << >> THEN "EOF" ELSE "unexpectedEOF"
  BY Zenon DEF ReadEnd, ReadFull, EndOfStream, writerVars
<1>2. result' \in {"EOF", "unexpectedEOF"}
  BY <1>1
<1>3. Types' /\ WriterInv'
  BY <1>1, <1>2, Zenon DEF IInv, Types, TypeOK, WriterInv
<1>4. StreamInv' /\ Consecutive' /\ GotInv'
  BY <1>1, ZenonT(60) DEF IInv, StreamInv, Consecutive, GotInv, FramesIntact
<1>5. ReaderInv'
  BY <1>2 DEF ReaderInv, Reading
<1>6. CleanEndLosesNothing'
  <2> SUFFICES ASSUME have = << >>
               PROVE  /\ Len(got) = IF pos = 0 THEN Len(written) ELSE Len(written) - 1
                      /\ pos \in {0, HdrLen}
    BY <1>1 DEF CleanEndLosesNothing
  <2>1. /\ \/ pos = 0 /\ Offset = 0 /\ Len(written) = Len(got)
           \/ pos = 0 /\ Len(written) = Current /\ Offset = HdrLen + written[Current]
           \/ pos > 0 /\ Len(written) = Current /\ Offset = pos
        /\ need = IF part = "prefix" THEN HdrLen ELSE written[Current]
    BY <1>1, Zenon DEF IInv, ReaderInv
  <2>2. Len(have) = 0 /\ HdrLen = 4
    BY DEF HdrLen
  <2>3. ~(Len(written) = Current /\ Offset = HdrLen + written[Current])
    <3> SUFFICES ASSUME Len(written) = Current, Offset = HdrLen + written[Current]
                 PROVE  FALSE
      OBVIOUS
    <3>1. written[Current] \in Nat
      BY WrittenFacts, NumFacts DEF Current
    <3> QED
      BY <1>1, <2>1, <2>2, <3>1, NumFacts DEF Offset
  <2>4. \/ pos = 0 /\ Len(written) = Len(got)
        \/ pos = HdrLen /\ Len(written) = Len(got) + 1
    <3>1. Offset \in {0, HdrLen}
      BY <2>2 DEF Offset
    <3>2. Current = Len(got) + 1
      BY DEF Current
    <3> QED
      BY <2>1, <2>2, <2>3, <3>1, <3>2
  <2> QED
    BY <2>2, <2>4, NumFacts
<1> QED
  BY <1>3, <1>4, <1>5, <1>6 DEF IInv

\* The reader gives up.
LEMMA ReadErrorInv ==
    ASSUME IInv, ReadError
    PROVE  IInv'
<1>0. result' = "error" /\ result' # "none" /\ result' # "EOF"
  BY DEF ReadError
<1>1. Types' /\ WriterInv'
  BY <1>0, Zenon DEF IInv, Types, TypeOK, WriterInv, ReadError, writerVars
<1>2. StreamInv' /\ Consecutive' /\ GotInv'
  BY Zenon DEF IInv, StreamInv, Consecutive, GotInv, FramesIntact, ReadError, writerVars
<1>3. ReaderInv' /\ CleanEndLosesNothing'
  BY <1>0, Zenon DEF ReaderInv, CleanEndLosesNothing, Reading
<1> QED
  BY <1>1, <1>2, <1>3 DEF IInv

\* The inductive invariant holds: every action of Next preserves it.
THEOREM Invariance == Spec => []IInv
<1>1. Init => IInv
  <2> SUFFICES ASSUME Init PROVE IInv
    OBVIOUS
  <2>1. Types /\ WriterInv
    <3>1. 0 \in 0 .. Len(stream) /\ Len(have) <= HdrLen /\ HdrLen \in Nat /\ HdrLen <= HdrLen
      BY DEF Init, HdrLen
    <3>2. << >> \in Seq(Size) /\ << >> \in Seq(Bytes) /\ << >> \in Seq(Seq(Bytes)) /\ 0 \in Nat
      OBVIOUS
    <3> QED
      BY <3>1, <3>2, Sizes, Zenon DEF Init, Types, TypeOK, WriterInv
  <2>2. StreamInv /\ Consecutive
    BY DEF Init, StreamInv, Consecutive
  <2>3. ReaderInv /\ GotInv /\ CleanEndLosesNothing
    <3>1. Len(got) = 0 /\ Len(have) = 0 /\ Len(written) = 0 /\ Offset = 0 /\ result # "EOF"
      BY DEF Init, Offset
    <3>2. part # "body" /\ need = (IF part = "prefix" THEN HdrLen ELSE written[Current])
      BY DEF Init
    <3>3. ReaderInv
      BY <3>1, <3>2 DEF Init, ReaderInv
    <3> QED
      BY <3>1, <3>3 DEF GotInv, FramesIntact, CleanEndLosesNothing
  <2> QED
    BY <2>1, <2>2, <2>3 DEF IInv
<1>2. IInv /\ [Next]_vars => IInv'
  <2> SUFFICES ASSUME IInv, [Next]_vars
               PROVE  IInv'
    OBVIOUS
  <2>1. CASE UNCHANGED vars
    <3>1. Types' /\ WriterInv'
      BY <2>1, Zenon DEF IInv, Types, TypeOK, WriterInv, vars, writerVars, readerVars
    <3>2. StreamInv' /\ Consecutive' /\ GotInv'
      BY <2>1, Zenon
         DEF IInv, StreamInv, Consecutive, GotInv, FramesIntact, vars, writerVars, readerVars
    <3>3. ReaderInv' /\ CleanEndLosesNothing'
      BY <2>1, Zenon DEF IInv, ReaderInv, Reading, Current, Offset, CleanEndLosesNothing,
         vars, writerVars, readerVars
    <3> QED
      BY <3>1, <3>2, <3>3 DEF IInv
  <2> QED
    BY <2>1, WriteByteInv, CloseInv, DeliverInv, ReadInv, ReadPrefixInv, ReadBodyInv,
       ReadEndInv, ReadErrorInv DEF Next, Stopped
<1> QED
  BY <1>1, <1>2, PTL DEF Spec

\* Every run keeps to the types: no buffer is larger than the limit allows.
THEOREM TypeCorrect == Spec => []TypeOK
<1>1. IInv => TypeOK
  BY DEF IInv, Types
<1> QED
  BY <1>1, Invariance, PTL

\* Whatever the sizes, and however the network cuts the stream: the frames that
\* ReadFrame returns are those that were written, whole and in order.
THEOREM FramesAreIntact == Spec => []FramesIntact
<1>1. IInv => FramesIntact
  BY DEF IInv, GotInv
<1> QED
  BY <1>1, Invariance, PTL

\* An io.EOF means that every complete frame was returned and that the writer
\* stopped between two parts.
THEOREM CleanEnds == Spec => []CleanEndLosesNothing
<1>1. IInv => CleanEndLosesNothing
  BY DEF IInv
<1> QED
  BY <1>1, Invariance, PTL
-----------------------------------------------------------------------------
(* Bodies: what the skipped fields of a header take, and what follows it.  *)

\* Induction over the naturals, for a set.
LEMMA NatSetInduction ==
    ASSUME NEW T, \A n \in Nat : (\A m \in Nat : m < n => m \in T) => n \in T
    PROVE  Nat \subseteq T
<1> DEFINE R == {ss \in Nat \X Nat : ss[1] < ss[2]}
<1>1. IsWellFoundedOn(R, Nat)
  BY NatLessThanWellFounded DEF OpToRel
<1>2. SUFFICES ASSUME Nat \ T # {} PROVE FALSE
  OBVIOUS
<1>3. PICK n \in Nat \ T : \A y \in Nat \ T : <<y, n>> \notin R
  <2> HIDE DEF R
  <2>1. Nat \ T \subseteq Nat
    OBVIOUS
  <2> QED
    BY <1>1, <1>2, <2>1, WFMin, Zenon
<1>4. \A m \in Nat : m < n => m \in T
  BY <1>3, ZenonT(60)
<1> QED
  BY <1>3, <1>4

\* Induction in steps of one, for a set.
LEMMA StepInduction ==
    ASSUME NEW T, 0 \in T, \A n \in Nat : n \in T => n + 1 \in T
    PROVE  Nat \subseteq T
<1>1. ASSUME NEW n \in Nat, \A m \in Nat : m < n => m \in T
      PROVE  n \in T
  <2>1. CASE n = 0
    BY <2>1
  <2>2. CASE n # 0
    <3>1. n - 1 \in Nat /\ n - 1 < n /\ (n - 1) + 1 = n
      BY <2>2
    <3>2. n - 1 \in T
      BY <1>1, <3>1
    <3>3. (n - 1) + 1 \in T
      BY <3>1, <3>2
    <3> QED
      BY <3>1, <3>3
  <2> QED
    BY <2>1, <2>2
<1> QED
  BY <1>1, NatSetInduction, Zenon

\* One step of a recursion over the numbers up to N: h gives the next value.
Next1(a, h, f, i) == IF i = 0 THEN a ELSE h[<<i, f[i - 1]>>]

\* Where the steps lead, and what a solution is.
Steps(N, V) == [(1 .. N) \X V -> V]
Solves(N, a, h, f) == \A i \in 0 .. N : f[i] = Next1(a, h, f, i)

\* It has a solution, with values in V when it starts there and stays there.
LEMMA RecursionExists ==
    ASSUME NEW N \in Nat, NEW V, NEW a \in V, NEW h \in Steps(N, V)
    PROVE  \E f \in [0 .. N -> V] : Solves(N, a, h, f)
<1> DEFINE Upto(f, n) == \A i \in 0 .. N : i <= n => f[i] = Next1(a, h, f, i)
           T == {n \in Nat : \E f \in [0 .. N -> V] : Upto(f, n)}
<1>1. 0 \in T
  <2> DEFINE f == [i \in 0 .. N |-> a]
  <2>1. f \in [0 .. N -> V] /\ Upto(f, 0)
    BY DEF Next1
  <2> HIDE DEF f, Upto
  <2> QED
    BY <2>1, Zenon
<1>2. ASSUME NEW n \in Nat, n \in T PROVE n + 1 \in T
  <2>1. PICK f \in [0 .. N -> V] : Upto(f, n)
    BY <1>2
  <2> DEFINE v == IF n + 1 \in 1 .. N THEN h[<<n + 1, f[n]>>] ELSE a
             g == [i \in 0 .. N |-> IF i = n + 1 THEN v ELSE f[i]]
  <2>2. v \in V
    BY DEF Steps
  <2>3. g \in [0 .. N -> V]
    BY <2>2
  <2>4. ASSUME NEW i \in 0 .. N, i <= n + 1 PROVE g[i] = Next1(a, h, g, i)
    <3>1. CASE i = n + 1
      <4>1. i \in 1 .. N /\ i # 0 /\ i - 1 = n /\ n \in 0 .. N /\ n # n + 1
        BY <3>1
      <4>2. g[i] = h[<<i, f[n]>>] /\ g[i - 1] = f[n]
        BY <3>1, <4>1
      <4> HIDE DEF g
      <4> QED
        BY <4>1, <4>2 DEF Next1
    <3>2. CASE i # n + 1
      <4>1. f[i] = Next1(a, h, f, i)
        BY <2>1, <2>4, <3>2
      <4>2. i # 0 => g[i - 1] = f[i - 1]
        BY <2>4, <3>2
      <4> QED
        BY <3>2, <4>1, <4>2, ZenonT(60) DEF Next1
    <3> QED
      BY <3>1, <3>2, ZenonT(60)
  <2> HIDE DEF g
  <2> QED
    BY <2>3, <2>4
<1>3. N \in T
  <2> HIDE DEF T
  <2> QED
    BY <1>1, <1>2, StepInduction
<1>4. PICK f \in [0 .. N -> V] : Upto(f, N)
  BY <1>3
<1> QED
  BY <1>4 DEF Solves

-----------------------------------------------------------------------------
(* The encoder.                                                            *)

\* One step of the recursion of Uvarint.
UvarintStep(u, n) == IF n < 128 THEN <<n>> ELSE <<128 + (n % 128)>> \o u[n \div 128]

\* Lengths are numbers.
LEMMA Lengths == MaxLength \in Nat /\ \A n : n \in Length <=> n \in Nat /\ n <= MaxLength
<1>1. MaxLength \in Nat
  BY FieldAssumption
<1> QED
  BY <1>1, SMT DEF Length

\* The numbers that an int holds are as they are, and none of them is Refused.
LEMMA Widths ==
    /\ MaxInt \in Nat /\ MaxUvarint \in Nat /\ Word \in Nat /\ Refused \in Int /\ Refused < 0
    /\ \A x \in Nat : x <= MaxInt => x % Word = x /\ int(x) = x
<1>1. /\ MaxInt \in Nat /\ MaxUvarint \in Nat /\ Word \in Nat
      /\ Refused \in Int /\ Refused < 0 /\ MaxInt < Word
  BY WidthAssumption DEF Word, Refused
<1>2. ASSUME NEW x \in Nat, x <= MaxInt PROVE x % Word = x /\ int(x) = x
  <2> HIDE DEF Word
  <2>1. x < Word
    BY <1>1, <1>2
  <2>2. x % Word = x
    BY <1>1, <2>1
  <2> QED
    BY <1>2, <2>2, Zenon DEF int
<1> QED
  BY <1>1, <1>2

\* What a division by 128 leaves.
LEMMA Digits ==
    ASSUME NEW n \in Nat
    PROVE  /\ n % 128 \in 0 .. 127 /\ n \div 128 \in Nat
           /\ n = (n % 128) + 128 * (n \div 128)
           /\ n >= 128 => n \div 128 < n
           /\ n \in Length => n \div 128 \in Length
<1>1. n % 128 \in 0 .. 127 /\ n \div 128 \in Nat /\ n = (n % 128) + 128 * (n \div 128)
  BY SMTT(30)
<1>2. n >= 128 => n \div 128 < n
  BY <1>1, SMTT(30)
<1>3. n \div 128 <= n
  BY <1>1, SMTT(30)
<1>4. n \in Length => n \div 128 \in Length
  BY <1>1, <1>3, Lengths, SMT
<1> QED
  BY <1>1, <1>2, <1>4

\* The recursion has a solution.
LEMMA UvarintExists ==
    \E u \in [Length -> Seq(Nat)] : u = [n \in Length |-> UvarintStep(u, n)]
<1> DEFINE Upto(u, k) == \A n \in Length : n < k => u[n] = UvarintStep(u, n)
           T == {k \in Nat : \E u \in [Length -> Seq(Nat)] : Upto(u, k)}
<1>0. MaxLength \in Nat /\ \A n \in Length : n \in Nat /\ n < MaxLength + 1
  BY Lengths
<1>1. 0 \in T
  <2> DEFINE u == [n \in Length |-> << >>]
  <2>1. u \in [Length -> Seq(Nat)] /\ Upto(u, 0)
    BY <1>0
  <2> HIDE DEF u, Upto
  <2> QED
    BY <2>1, Zenon
<1>2. ASSUME NEW k \in Nat, k \in T PROVE k + 1 \in T
  <2>1. PICK u \in [Length -> Seq(Nat)] : Upto(u, k)
    BY <1>2
  <2> DEFINE v == [n \in Length |-> IF n = k THEN UvarintStep(u, k) ELSE u[n]]
  <2>2. k \in Length => UvarintStep(u, k) \in Seq(Nat)
    <3>1. CASE k < 128
      BY <3>1 DEF UvarintStep
    <3>2. CASE ~(k < 128) /\ k \in Length
      <4>1. u[k \div 128] \in Seq(Nat)
        BY <3>2, Digits
      <4>2. <<128 + (k % 128)>> \in Seq(Nat)
        BY Digits
      <4>3. <<128 + (k % 128)>> \o u[k \div 128] \in Seq(Nat)
        BY <4>1, <4>2, ConcatFacts, ZenonT(60)
      <4> QED
        BY <3>2, <4>3 DEF UvarintStep
    <3> QED
      BY <3>1, <3>2
  <2>3. v \in [Length -> Seq(Nat)]
    BY <2>2
  <2>4. ASSUME NEW n \in Length, n < k + 1 PROVE v[n] = UvarintStep(v, n)
    <3>1. n >= 128 => n \div 128 \in Length /\ n \div 128 # k
      <4>1. n \in Nat
        BY <1>0
      <4>2. /\ n >= 128 => n \div 128 < n
            /\ n \div 128 \in Nat /\ n \div 128 \in Length
        BY <4>1, Digits
      <4> QED
        BY <2>4, <4>1, <4>2
    <3>2. UvarintStep(v, n) = UvarintStep(u, n)
      BY <1>0, <3>1 DEF UvarintStep
    <3>3. n # k => u[n] = UvarintStep(u, n)
      BY <1>0, <2>1, <2>4
    <3> QED
      BY <3>2, <3>3, Zenon
  <2> HIDE DEF v
  <2> QED
    BY <2>3, <2>4
<1>3. MaxLength + 1 \in T
  <2> HIDE DEF T
  <2> QED
    BY <1>0, <1>1, <1>2, StepInduction
<1>4. PICK u \in [Length -> Seq(Nat)] : Upto(u, MaxLength + 1)
  BY <1>3
<1>5. \A n \in Length : u[n] = UvarintStep(u, n)
  BY <1>0, <1>4
<1>6. u = [n \in Length |-> UvarintStep(u, n)]
  BY <1>5
<1> QED
  BY <1>6

\* Uvarint is a solution.
LEMMA UvarintIs ==
    ASSUME NEW n \in Length
    PROVE  /\ Uvarint[n] = UvarintStep(Uvarint, n)
           /\ n < 128 => Uvarint[n] = <<n>>
           /\ n >= 128 => Uvarint[n] = <<128 + (n % 128)>> \o Uvarint[n \div 128]
<1> DEFINE U == CHOOSE u : u = [m \in Length |-> UvarintStep(u, m)]
<1>1. U = [m \in Length |-> UvarintStep(U, m)]
  BY UvarintExists, Zenon
<1>2. Uvarint = U
  BY DEF Uvarint, UvarintStep
<1> HIDE DEF U
<1>3. U[n] = UvarintStep(U, n)
  BY <1>1, Zenon
<1>4. n \in Nat
  BY Lengths
<1> QED
  BY <1>2, <1>3, <1>4 DEF UvarintStep

\* The bytes of a number: all but the last have the top bit.
Bytewise(u) ==
    /\ u \in Seq(Nat) /\ Len(u) >= 1
    /\ \A i \in 1 .. Len(u) - 1 : u[i] >= 128
    /\ u[Len(u)] < 128

\* A byte with the top bit, before such bytes.
LEMMA BytewiseCons ==
    ASSUME NEW b \in Nat, b >= 128, NEW u, Bytewise(u)
    PROVE  Bytewise(<<b>> \o u) /\ Len(<<b>> \o u) = Len(u) + 1
<1>1. u \in Seq(Nat) /\ Len(u) \in Nat /\ Len(u) >= 1
  BY DEF Bytewise
<1> DEFINE v == <<b>> \o u
<1>2. /\ v \in Seq(Nat) /\ Len(v) = Len(u) + 1 /\ v[1] = b
      /\ \A i \in 1 .. Len(u) : v[i + 1] = u[i]
  BY <1>1
<1> HIDE DEF v
<1>3. v[Len(v)] < 128
  <2>1. Len(u) \in 1 .. Len(u) /\ u[Len(u)] < 128
    BY <1>1 DEF Bytewise
  <2>2. v[Len(u) + 1] = u[Len(u)]
    BY <1>2, <2>1
  <2> QED
    BY <1>2, <2>1, <2>2
<1>4. ASSUME NEW i \in 1 .. Len(v) - 1 PROVE v[i] >= 128
  <2>1. CASE i = 1
    BY <1>2, <2>1
  <2>2. CASE i # 1
    <3>1. i - 1 \in 1 .. Len(u) - 1 /\ i - 1 \in 1 .. Len(u) /\ (i - 1) + 1 = i
      BY <1>1, <1>2, <2>2
    <3>2. v[(i - 1) + 1] = u[i - 1] /\ u[i - 1] >= 128
      BY <1>2, <3>1, ZenonT(60) DEF Bytewise
    <3> QED
      BY <3>1, <3>2
  <2> QED
    BY <2>1, <2>2
<1> QED
  BY <1>1, <1>2, <1>3, <1>4 DEF Bytewise, v

\* The encoder writes such bytes.
LEMMA UvarintBytes ==
    ASSUME NEW n \in Length
    PROVE  Bytewise(Uvarint[n])
<1> DEFINE T == {m \in Nat : m \in Length => Bytewise(Uvarint[m])}
<1>1. ASSUME NEW m \in Nat, \A k \in Nat : k < m => k \in T
      PROVE  m \in T
  <2>1. SUFFICES ASSUME m \in Length PROVE Bytewise(Uvarint[m])
    OBVIOUS
  <2>2. CASE m < 128
    <3>1. Uvarint[m] = <<m>>
      BY <2>1, <2>2, UvarintIs, ZenonT(60)
    <3> QED
      BY <2>2, <3>1 DEF Bytewise
  <2>3. CASE m >= 128
    <3>1. m \div 128 \in Nat /\ m \div 128 < m /\ m \div 128 \in Length /\ 128 + (m % 128) \in Nat
          /\ 128 + (m % 128) >= 128
      BY <2>1, <2>3, Digits
    <3>2. Bytewise(Uvarint[m \div 128])
      BY <1>1, <3>1
    <3>3. Bytewise(<<128 + (m % 128)>> \o Uvarint[m \div 128])
      BY <3>1, <3>2, BytewiseCons, ZenonT(60)
    <3> QED
      BY <2>1, <2>3, <3>3, UvarintIs, ZenonT(60)
  <2> QED
    BY <2>2, <2>3
<1>2. Nat \subseteq T
  <2> HIDE DEF T
  <2> QED
    BY <1>1, NatSetInduction, Zenon
<1> QED
  BY <1>2, Lengths

-----------------------------------------------------------------------------
(* Places in a sequence.                                                   *)

\* s is what w has after its first off elements.
Lies(w, off, s) ==
    /\ off + Len(s) <= Len(w)
    /\ \A i \in 1 .. Len(s) : w[off + i] = s[i]

\* The parts of a concatenation lie one after the other.
LEMMA LiesParts ==
    ASSUME NEW w \in Seq(Nat), NEW off \in Nat, NEW s \in Seq(Nat), NEW t \in Seq(Nat),
           Lies(w, off, s \o t)
    PROVE  Lies(w, off, s) /\ Lies(w, off + Len(s), t) /\ Len(s \o t) = Len(s) + Len(t)
<1> DEFINE c == s \o t
<1>1. /\ c \in Seq(Nat) /\ Len(c) = Len(s) + Len(t)
      /\ \A i \in 1 .. Len(s) : c[i] = s[i]
      /\ \A i \in 1 .. Len(t) : c[Len(s) + i] = t[i]
  OBVIOUS
<1>2. /\ off + Len(c) <= Len(w)
      /\ \A i \in 1 .. Len(c) : w[off + i] = c[i]
  BY DEF Lies
<1>3. Len(s) \in Nat /\ Len(t) \in Nat /\ Len(w) \in Nat
  OBVIOUS
<1> HIDE DEF c
<1>4. Lies(w, off, s)
  <2>1. ASSUME NEW i \in 1 .. Len(s) PROVE w[off + i] = s[i]
    <3>1. i \in 1 .. Len(c)
      BY <1>1, <1>3
    <3> QED
      BY <1>1, <1>2, <3>1, ZenonT(60)
  <2>2. off + Len(s) <= Len(w)
    BY <1>1, <1>2, <1>3
  <2> QED
    BY <2>1, <2>2 DEF Lies
<1>5. Lies(w, off + Len(s), t)
  <2>1. ASSUME NEW i \in 1 .. Len(t) PROVE w[(off + Len(s)) + i] = t[i]
    <3>1. Len(s) + i \in 1 .. Len(c) /\ off + (Len(s) + i) = (off + Len(s)) + i
      BY <1>1, <1>3
    <3>2. w[off + (Len(s) + i)] = c[Len(s) + i] /\ c[Len(s) + i] = t[i]
      BY <1>1, <1>2, <3>1, ZenonT(60)
    <3> QED
      BY <3>1, <3>2
  <2>2. (off + Len(s)) + Len(t) <= Len(w)
    BY <1>1, <1>2, <1>3
  <2> QED
    BY <2>1, <2>2, ZenonT(60) DEF Lies
<1> QED
  BY <1>1, <1>4, <1>5 DEF c

\* buf is w as far as it goes.
Cut(w, buf) ==
    /\ buf \in Seq(Nat) /\ Len(buf) <= Len(w)
    /\ \A i \in 1 .. Len(buf) : buf[i] = w[i]

\* What lies before the cut is still there.
LEMMA LiesBeforeCut ==
    ASSUME NEW w \in Seq(Nat), NEW buf, Cut(w, buf), NEW off \in Nat, NEW s \in Seq(Nat),
           Lies(w, off, s), off + Len(s) <= Len(buf)
    PROVE  Lies(buf, off, s)
<1>1. ASSUME NEW i \in 1 .. Len(s) PROVE buf[off + i] = s[i]
  <2>1. off + i \in 1 .. Len(buf)
    BY DEF Cut
  <2> QED
    BY <2>1 DEF Cut, Lies
<1> QED
  BY <1>1 DEF Lies

-----------------------------------------------------------------------------
(* The decoder.                                                            *)

\* The least element is the least element (Min).
LEMMA MinIs ==
    ASSUME NEW S \in SUBSET Int, NEW x \in S, \A y \in S : x <= y
    PROVE  Min(S) = x
<1>1. Min(S) \in S /\ \A y \in S : Min(S) <= y
  BY Zenon DEF Min
<1>2. Min(S) <= x /\ x <= Min(S) /\ Min(S) \in Int /\ x \in Int
  BY <1>1, Zenon
<1> QED
  BY <1>2, SMT

\* The recursion of septets.
LEMMA SeptetsIs ==
    ASSUME NEW buf \in Seq(Nat), NEW last \in 0 .. Len(buf)
    PROVE  /\ septets(buf, last, 0) = 0
           /\ \A k \in 1 .. last : septets(buf, last, k)
                 = (buf[last - k + 1] % 128) + 128 * septets(buf, last, k - 1)
<1> DEFINE h == [p \in (1 .. last) \X Nat |-> (buf[last - p[1] + 1] % 128) + 128 * p[2]]
           V == CHOOSE f : f = [k \in 0 .. last |->
                    IF k = 0 THEN 0 ELSE (buf[last - k + 1] % 128) + 128 * f[k - 1]]
<1>0. 0 \in Nat
  OBVIOUS
<1>1. last \in Nat
  OBVIOUS
<1>2. ASSUME NEW k \in 1 .. last, NEW v \in Nat
      PROVE  (buf[last - k + 1] % 128) + 128 * v \in Nat
  <2>1. buf[last - k + 1] \in Nat
    OBVIOUS
  <2>2. buf[last - k + 1] % 128 \in Nat
    BY <2>1, Digits
  <2> QED
    BY <2>2
<1>3. h \in Steps(last, Nat)
  BY <1>2, SMTT(30) DEF Steps
<1>4. PICK f \in [0 .. last -> Nat] : Solves(last, 0, h, f)
  <2> HIDE DEF h
  <2> QED
    BY <1>1, <1>3, <1>0, RecursionExists, Zenon
<1>5. f = [k \in 0 .. last |-> IF k = 0 THEN 0 ELSE (buf[last - k + 1] % 128) + 128 * f[k - 1]]
  <2>1. ASSUME NEW k \in 0 .. last
        PROVE  f[k] = IF k = 0 THEN 0 ELSE (buf[last - k + 1] % 128) + 128 * f[k - 1]
    <3>1. CASE k = 0
      BY <1>4, <3>1, ZenonT(60) DEF Solves, Next1
    <3>2. CASE k # 0
      <4>1. k \in 1 .. last /\ f[k - 1] \in Nat
        BY <3>2
      <4>2. f[k] = h[<<k, f[k - 1]>>]
        BY <1>4, <3>2, ZenonT(60) DEF Solves, Next1
      <4> QED
        BY <3>2, <4>1, <4>2, ZenonT(60)
    <3> QED
      BY <3>1, <3>2
  <2> QED
    BY <2>1
<1>6. V = [k \in 0 .. last |-> IF k = 0 THEN 0 ELSE (buf[last - k + 1] % 128) + 128 * V[k - 1]]
  BY <1>5, ZenonT(60)
<1>7. \A n : septets(buf, last, n) = V[n]
  BY Zenon DEF septets
<1> HIDE DEF V
<1>8. V[0] = 0 /\ \A k \in 1 .. last : V[k] = (buf[last - k + 1] % 128) + 128 * V[k - 1]
  BY <1>1, <1>6, SMTT(30)
<1>9. ASSUME NEW k \in 1 .. last
      PROVE  septets(buf, last, k)
                = (buf[last - k + 1] % 128) + 128 * septets(buf, last, k - 1)
  <2>1. septets(buf, last, k) = V[k] /\ septets(buf, last, k - 1) = V[k - 1]
    BY <1>7, Zenon
  <2>2. V[k] = (buf[last - k + 1] % 128) + 128 * V[k - 1]
    BY <1>8
  <2> QED
    BY <2>1, <2>2, SMTT(30)
<1> QED
  BY <1>7, <1>8, <1>9

\* The bytes of a number say the number, wherever they end.
LEMMA UvarintValue ==
    ASSUME NEW buf \in Seq(Nat), NEW off \in Nat, NEW n \in Length,
           Lies(buf, off, Uvarint[n])
    PROVE  septets(buf, off + Len(Uvarint[n]), Len(Uvarint[n])) = n
<1> DEFINE last == off + Len(Uvarint[n])
           T == {m \in Nat : \A o \in Nat :
                    m \in Length /\ Lies(buf, o, Uvarint[m]) /\ o + Len(Uvarint[m]) = last
                    => septets(buf, last, Len(Uvarint[m])) = m}
<1>0. /\ \A m \in Length : m \in Nat /\ Uvarint[m] \in Seq(Nat)
                           /\ Len(Uvarint[m]) \in Nat /\ Len(Uvarint[m]) >= 1
      /\ last \in 0 .. Len(buf)
  <2>1. ASSUME NEW m \in Length PROVE Bytewise(Uvarint[m]) /\ m \in Nat
    BY UvarintBytes, Lengths
  <2>2. \A m \in Length : m \in Nat /\ Uvarint[m] \in Seq(Nat)
                          /\ Len(Uvarint[m]) \in Nat /\ Len(Uvarint[m]) >= 1
    BY <2>1 DEF Bytewise
  <2>3. last \in 0 .. Len(buf)
    BY <2>2 DEF Lies
  <2> QED
    BY <2>2, <2>3
<1> HIDE DEF last
<1>s. /\ septets(buf, last, 0) = 0
      /\ \A k \in 1 .. last : septets(buf, last, k)
            = (buf[last - k + 1] % 128) + 128 * septets(buf, last, k - 1)
  BY <1>0, SeptetsIs
<1>1. ASSUME NEW m \in Nat, \A k \in Nat : k < m => k \in T
      PROVE  m \in T
  <2>1. SUFFICES ASSUME NEW o \in Nat, m \in Length, Lies(buf, o, Uvarint[m]),
                        o + Len(Uvarint[m]) = last
                 PROVE  septets(buf, last, Len(Uvarint[m])) = m
    BY Zenon
  <2> DEFINE l == Len(Uvarint[m])
  <2>2. l \in Nat /\ l >= 1 /\ l \in 1 .. last /\ last - l + 1 = o + 1
    <3>1. l \in Nat /\ l >= 1 /\ o + l = last
      BY <1>0, <2>1
    <3> HIDE DEF l
    <3> QED
      BY <3>1
  <2>3. buf[o + 1] = Uvarint[m][1]
    BY <2>1, <2>2 DEF Lies
  <2>4. septets(buf, last, l) = (buf[o + 1] % 128) + 128 * septets(buf, last, l - 1)
    BY <1>s, <2>2
  <2>5. CASE m < 128
    <3>1. Uvarint[m] = <<m>>
      BY <2>1, <2>5, UvarintIs, ZenonT(60)
    <3>2. l = 1 /\ Uvarint[m][1] = m
      BY <3>1
    <3> HIDE DEF l
    <3> QED
      BY <1>s, <2>3, <2>4, <2>5, <3>2 DEF l
  <2>6. CASE m >= 128
    <3> DEFINE q == m \div 128
    <3>1. /\ q \in Nat /\ q < m /\ q \in Length /\ m % 128 \in 0 .. 127
          /\ m = (m % 128) + 128 * q
      BY <2>1, <2>6, Digits
    <3>2. Uvarint[m] = <<128 + (m % 128)>> \o Uvarint[q] /\ Uvarint[q] \in Seq(Nat)
      BY <1>0, <2>1, <2>6, <3>1, UvarintIs, ZenonT(60)
    <3> HIDE DEF q
    <3>3. /\ Uvarint[m][1] = 128 + (m % 128) /\ l = 1 + Len(Uvarint[q])
          /\ <<128 + (m % 128)>> \in Seq(Nat) /\ Len(<<128 + (m % 128)>>) = 1
      BY <3>1, <3>2
    <3>4. Lies(buf, o + 1, Uvarint[q])
      <4> DEFINE b == <<128 + (m % 128)>>
      <4>1. Lies(buf, o, b \o Uvarint[q]) /\ b \in Seq(Nat) /\ Len(b) = 1
        BY <2>1, <3>2, <3>3
      <4> HIDE DEF b
      <4>2. Lies(buf, o + Len(b), Uvarint[q])
        BY <3>2, <4>1, LiesParts, Zenon
      <4> QED
        BY <4>1, <4>2
    <3>5. septets(buf, last, l - 1) = q
      <4>1. q \in T
        BY <1>1, <3>1
      <4>2. Len(Uvarint[q]) \in Nat
        BY <1>0, <3>1
      <4> DEFINE k == Len(Uvarint[q])
      <4>3. k \in Nat /\ o + l = last /\ l = 1 + k
        BY <2>1, <3>3, <4>2
      <4> HIDE DEF l, k
      <4>4. o + 1 \in Nat /\ (o + 1) + k = last /\ l - 1 = k
        BY <4>3
      <4> QED
        BY <3>1, <3>4, <4>1, <4>4, ZenonT(60) DEF k
    <3>6. (128 + (m % 128)) % 128 = m % 128
      BY <3>1
    <3> HIDE DEF l
    <3> QED
      BY <2>3, <2>4, <3>1, <3>3, <3>5, <3>6, ZenonT(60) DEF l
  <2> QED
    BY <2>5, <2>6
<1>2. Nat \subseteq T
  <2> HIDE DEF T
  <2> QED
    BY <1>1, NatSetInduction, Zenon
<1> QED
  BY <1>0, <1>2, ZenonT(60) DEF last

\* A number that is there is read (readUvarint).
LEMMA UvarintRead ==
    ASSUME NEW buf \in Seq(Nat), NEW off \in Nat, NEW n \in Length, n <= MaxInt,
           Lies(buf, off, Uvarint[n])
    PROVE  readUvarint(buf, off) = [value |-> n, off |-> off + Len(Uvarint[n])]
<1> DEFINE u == Uvarint[n]
           last == off + Len(u)
           ends == {i \in off + 1 .. Len(buf) : buf[i] < 128}
<1>1. Bytewise(u) /\ Len(u) <= MaxUvarint
  BY UvarintBytes, WidthAssumption
<1>2. septets(buf, off + Len(u), Len(u)) % Word = n
  <2>1. septets(buf, off + Len(u), Len(u)) = n
    BY UvarintValue
  <2>2. n % Word = n
    BY Lengths, Widths
  <2> QED
    BY <2>1, <2>2, Zenon
<1>3. /\ Len(u) \in Nat /\ Len(u) >= 1 /\ Len(u) <= MaxUvarint
      /\ Len(buf) \in Nat /\ off + Len(u) <= Len(buf)
  <2>1. off + Len(u) <= Len(buf)
    BY DEF Lies
  <2>2. Len(buf) \in Nat
    OBVIOUS
  <2>3. Len(u) \in Nat /\ Len(u) >= 1
    BY <1>1 DEF Bytewise
  <2> QED
    BY <1>1, <2>1, <2>2, <2>3, Zenon
<1> HIDE DEF u
<1>b. ASSUME NEW i \in 1 .. Len(u)
      PROVE  buf[off + i] = u[i] /\ u[i] \in Nat /\ (u[i] < 128 <=> i = Len(u))
  <2>1. buf[off + i] = u[i]
    BY DEF Lies, u
  <2>2. u \in Seq(Nat) /\ u[Len(u)] < 128 /\ (i \in 1 .. Len(u) - 1 => u[i] >= 128)
    BY <1>1 DEF Bytewise
  <2>3. u[i] \in Nat
    BY <2>2
  <2>4. CASE i = Len(u)
    BY <2>1, <2>2, <2>3, <2>4
  <2>5. CASE i # Len(u)
    <3>1. i \in 1 .. Len(u) - 1
      BY <1>3, <2>5
    <3> QED
      BY <2>1, <2>2, <2>3, <2>5, <3>1
  <2> QED
    BY <2>4, <2>5
<1>4. last \in ends
  <2>1. last \in off + 1 .. Len(buf) /\ Len(u) \in 1 .. Len(u)
    BY <1>3
  <2> QED
    BY <1>b, <2>1, SMTT(30)
<1>5. ASSUME NEW i \in ends PROVE last <= i
  <2>1. SUFFICES ASSUME i < last PROVE FALSE
    BY <1>3
  <2>2. i - off \in 1 .. Len(u) /\ off + (i - off) = i /\ i - off # Len(u)
    BY <1>3, <2>1
  <2>3. buf[off + (i - off)] = u[i - off] /\ ~(u[i - off] < 128)
    BY <1>b, <2>2, ZenonT(60)
  <2> QED
    BY <2>2, <2>3
<1>6. Min(ends) = last
  <2>1. ends \in SUBSET Int
    OBVIOUS
  <2> HIDE DEF ends, last
  <2> QED
    BY <1>4, <1>5, <2>1, MinIs
<1>7. ~(ends = {} \/ last - off > MaxUvarint) /\ last - off = Len(u)
  <2>1. last - off = Len(u)
    BY <1>3
  <2> HIDE DEF ends, last
  <2> QED
    BY <1>3, <1>4, <2>1, Widths
<1>8. readUvarint(buf, off) = IF ends = {} \/ Min(ends) - off > MaxUvarint THEN Bad
           ELSE [value |-> septets(buf, Min(ends), Min(ends) - off) % Word, off |-> Min(ends)]
  BY DEF readUvarint
<1> HIDE DEF ends
<1> QED
  BY <1>2, <1>6, <1>7, <1>8 DEF u

\* A number that is cut off is not (readUvarint).
LEMMA UvarintCut ==
    ASSUME NEW w \in Seq(Nat), NEW buf, Cut(w, buf), NEW off \in Nat, NEW n \in Length,
           Lies(w, off, Uvarint[n]), Len(buf) < off + Len(Uvarint[n])
    PROVE  readUvarint(buf, off) = Bad
<1> DEFINE u == Uvarint[n]
           ends == {i \in off + 1 .. Len(buf) : buf[i] < 128}
<1>1. Bytewise(u) /\ Lies(w, off, u) /\ Len(buf) < off + Len(u)
  BY UvarintBytes
<1> HIDE DEF u
<1>2. ASSUME NEW i \in off + 1 .. Len(buf) PROVE ~(buf[i] < 128)
  <2>1. i - off \in 1 .. Len(u) - 1 /\ off + (i - off) = i /\ i \in 1 .. Len(buf)
    BY <1>1 DEF Bytewise, Cut
  <2>2. buf[i] = w[i]
    BY <2>1 DEF Cut
  <2>4. w[off + (i - off)] = u[i - off]
    <3>1. i - off \in 1 .. Len(u)
      BY <1>1, <2>1 DEF Bytewise
    <3> QED
      BY <1>1, <3>1, ZenonT(60) DEF Lies
  <2>5. u[i - off] >= 128
    BY <1>1, <2>1 DEF Bytewise
  <2>3. u[i - off] \in Nat
    BY <1>1, <2>1, SMTT(30) DEF Bytewise
  <2> QED
    BY <2>1, <2>2, <2>3, <2>4, <2>5
<1>3. ends = {}
  BY <1>2, Zenon
<1> QED
  BY <1>3, Zenon DEF readUvarint

-----------------------------------------------------------------------------
(* Tagged fields.                                                          *)

\* The bytes of a payload.
LEMMA FillIs == ASSUME NEW n \in Nat PROVE Fill(n) \in Seq(Nat) /\ Len(Fill(n)) = n
BY DEF Fill

\* The bytes of a number and how many they are.
LEMMA UvarintType ==
    ASSUME NEW n \in Length
    PROVE  /\ n \in Nat /\ Uvarint[n] \in Seq(Nat)
           /\ Len(Uvarint[n]) \in Nat /\ Len(Uvarint[n]) >= 1
<1>1. Bytewise(Uvarint[n]) /\ n \in Nat
  BY UvarintBytes, Lengths
<1> QED
  BY <1>1 DEF Bytewise

\* The parts of a field lie one after the other.
LEMMA FieldIs ==
    ASSUME NEW tag \in Length, NEW n \in Length
    PROVE  /\ TaggedField(tag, n) \in Seq(Nat)
           /\ Len(TaggedField(tag, n)) = Len(Uvarint[tag]) + Len(Uvarint[n]) + n
           /\ \A w \in Seq(Nat), off \in Nat : Lies(w, off, TaggedField(tag, n)) =>
                 /\ Lies(w, off, Uvarint[tag])
                 /\ Lies(w, off + Len(Uvarint[tag]), Uvarint[n])
<1> DEFINE a == Uvarint[tag]
           b == Uvarint[n]
           c == Fill(n)
<1>1. a \in Seq(Nat) /\ b \in Seq(Nat) /\ c \in Seq(Nat) /\ Len(c) = n
  BY UvarintType, FillIs, ZenonT(60)
<1>2. TaggedField(tag, n) = (a \o b) \o c
  BY DEF TaggedField
<1> HIDE DEF a, b, c
<1>3. a \o b \in Seq(Nat) /\ Len(a \o b) = Len(a) + Len(b)
  BY <1>1
<1>4. (a \o b) \o c \in Seq(Nat) /\ Len((a \o b) \o c) = Len(a \o b) + Len(c)
  BY <1>1, <1>3, ConcatFacts, Zenon
<1>5. ASSUME NEW w \in Seq(Nat), NEW off \in Nat, Lies(w, off, (a \o b) \o c)
      PROVE  Lies(w, off, a) /\ Lies(w, off + Len(a), b)
  <2>1. Lies(w, off, a \o b)
    BY <1>1, <1>3, <1>5, LiesParts, Zenon
  <2> QED
    BY <1>1, <2>1, LiesParts, Zenon
<1> QED
  BY <1>1, <1>2, <1>3, <1>4, <1>5 DEF a, b

\* A field is skipped when it is all there, and refused when it is cut off
\* (the loop of ParseRequestHeader).
LEMMA FieldRead ==
    ASSUME NEW w \in Seq(Nat), NEW buf, Cut(w, buf), NEW off \in Nat,
           NEW tag \in Length, tag <= MaxInt, NEW n \in Length, Lies(w, off, TaggedField(tag, n)),
           off + Len(TaggedField(tag, n)) <= MaxInt
    PROVE  afterTaggedField(buf, off)
             = IF off + Len(TaggedField(tag, n)) <= Len(buf)
               THEN off + Len(TaggedField(tag, n)) ELSE Refused
<1> DEFINE a == Len(Uvarint[tag])
           b == Len(Uvarint[n])
           L == Len(buf)
<1>1. /\ a \in Nat /\ b \in Nat /\ n \in Nat /\ L \in Nat /\ buf \in Seq(Nat)
      /\ Uvarint[tag] \in Seq(Nat) /\ Uvarint[n] \in Seq(Nat)
  BY UvarintType DEF Cut
<1>2. /\ Len(TaggedField(tag, n)) = a + b + n
      /\ Lies(w, off, Uvarint[tag]) /\ Lies(w, off + a, Uvarint[n])
  BY FieldIs, ZenonT(60)
<1>3. /\ off + a \in Nat /\ ~(off < 0) /\ off + a # Refused
      /\ n <= MaxInt /\ ((off + a) + b) + n \in Nat /\ ((off + a) + b) + n <= MaxInt
      /\ (off + a) + b # Refused
  <2>1. off + (a + b + n) <= MaxInt
    BY <1>2, ZenonT(60)
  <2> HIDE DEF a, b
  <2> QED
    BY <1>1, <2>1, Widths
<1>4. CASE L < off + a
  <2>1. readUvarint(buf, off) = Bad
    BY <1>2, <1>4, UvarintCut
  <2> HIDE DEF a, b, L
  <2>2. ~(off + (a + b + n) <= L)
    BY <1>1, <1>4
  <2> QED
    BY <1>2, <1>3, <2>1, <2>2 DEF afterTaggedField, L
<1>5. CASE ~(L < off + a)
  <2>1. Lies(buf, off, Uvarint[tag])
    BY <1>1, <1>2, <1>5, LiesBeforeCut
  <2>2. readUvarint(buf, off) = [value |-> tag, off |-> off + a]
    BY <1>1, <2>1, UvarintRead
  <2>3. readUvarint(buf, off) # Bad /\ readUvarint(buf, off).off = off + a
    BY <1>3, <2>2 DEF Bad
  <2>4. CASE L < (off + a) + b
    <3>1. readUvarint(buf, off + a) = Bad
      BY <1>2, <1>3, <2>4, UvarintCut, ZenonT(60)
    <3> HIDE DEF a, b, L
    <3>2. ~(off + (a + b + n) <= L)
      BY <1>1, <2>4
    <3> QED
      BY <1>2, <1>3, <2>3, <3>1, <3>2, SMTT(30) DEF afterTaggedField, L
  <2>5. CASE ~(L < (off + a) + b)
    <3>0. (off + a) + b <= L
      <4> HIDE DEF a, b, L
      <4> QED
        BY <1>1, <2>5
    <3>1. Lies(buf, off + a, Uvarint[n])
      BY <1>1, <1>2, <1>3, <3>0, LiesBeforeCut, ZenonT(60)
    <3>2. readUvarint(buf, off + a) = [value |-> n, off |-> (off + a) + b]
      BY <1>1, <1>3, <3>1, UvarintRead, ZenonT(60)
    <3> HIDE DEF a, b
    <3>3. /\ readUvarint(buf, off + a) # Bad
          /\ readUvarint(buf, off + a).off = (off + a) + b
          /\ readUvarint(buf, off + a).value = n
      BY <1>1, <1>3, <3>2, SMTT(30) DEF Bad
    <3>4. afterTaggedField(buf, off) = skip(buf, (off + a) + b, n)
      BY <1>3, <2>3, <3>3 DEF afterTaggedField
    <3>5. skip(buf, (off + a) + b, n) = IF L < ((off + a) + b) + n THEN Refused ELSE ((off + a) + b) + n
      <4>1. int(((off + a) + b) + n) = ((off + a) + b) + n
        BY <1>3, Widths, Zenon
      <4> QED
        BY <4>1, Zenon DEF skip
    <3> HIDE DEF L
    <3>6. ((off + a) + b) + n = off + (a + b + n)
      BY <1>1
    <3> QED
      BY <1>1, <1>2, <3>4, <3>5, <3>6 DEF L
  <2> QED
    BY <2>4, <2>5, ZenonT(60)
<1> QED
  BY <1>4, <1>5

\* The tagged fields of a header.
Fields(ts) == ts \in Seq(Length) /\ Len(ts) \in Length /\ Len(ts) <= MaxInt

\* The last n of the fields, as TaggedFields builds them.
Ending(ts) ==
    CHOOSE f : f = [n \in 0 .. Len(ts) |->
        IF n = 0 THEN << >>
        ELSE TaggedField(Len(ts) - n + 1, ts[Len(ts) - n + 1]) \o f[n - 1]]

\* The field of which n come after the one before it.
EndingField(ts, n) == TaggedField(Len(ts) - n + 1, ts[Len(ts) - n + 1])

\* The numbers of such a field, and its bytes.
LEMMA EndingFieldType ==
    ASSUME NEW ts, Fields(ts), NEW n \in 1 .. Len(ts)
    PROVE  /\ Len(ts) - n + 1 \in Length /\ ts[Len(ts) - n + 1] \in Length
           /\ EndingField(ts, n) \in Seq(Nat)
<1>1. ts \in Seq(Length) /\ Len(ts) \in Nat /\ Len(ts) <= MaxLength
  BY Lengths DEF Fields
<1>2. Len(ts) - n + 1 \in 1 .. Len(ts) /\ Len(ts) - n + 1 \in Nat /\ Len(ts) - n + 1 <= MaxLength
  <2> DEFINE N == Len(ts)
  <2>1. N \in Nat /\ N <= MaxLength /\ n \in 1 .. N /\ MaxLength \in Nat
    BY <1>1, Lengths
  <2> HIDE DEF N
  <2>2. N - n + 1 \in 1 .. N /\ N - n + 1 \in Nat /\ N - n + 1 <= MaxLength
    BY <2>1, SMT
  <2> QED
    BY <2>2 DEF N
<1>3. Len(ts) - n + 1 \in Length /\ ts[Len(ts) - n + 1] \in Length
  BY <1>1, <1>2, Lengths, SMTT(30)
<1> QED
  BY <1>3, FieldIs, ZenonT(60) DEF EndingField

\* The recursion of Ending.
LEMMA EndingIs ==
    ASSUME NEW ts, Fields(ts)
    PROVE  /\ \A n \in 0 .. Len(ts) : Ending(ts)[n] \in Seq(Nat)
           /\ Ending(ts)[0] = << >>
           /\ \A n \in 1 .. Len(ts) : Ending(ts)[n] = EndingField(ts, n) \o Ending(ts)[n - 1]
           /\ TaggedFields(ts) = Uvarint[Len(ts)] \o Ending(ts)[Len(ts)]
<1> DEFINE N == Len(ts)
           h == [p \in (1 .. N) \X Seq(Nat) |-> EndingField(ts, p[1]) \o p[2]]
           F(f) == [n \in 0 .. N |-> IF n = 0 THEN << >> ELSE EndingField(ts, n) \o f[n - 1]]
<1>1. N \in Nat
  BY Lengths DEF Fields
<1>2. ASSUME NEW n \in 1 .. N, NEW s \in Seq(Nat) PROVE EndingField(ts, n) \o s \in Seq(Nat)
  <2>1. EndingField(ts, n) \in Seq(Nat)
    BY EndingFieldType
  <2> QED
    BY <2>1, ConcatFacts, Zenon
<1>3. h \in Steps(N, Seq(Nat)) /\ << >> \in Seq(Nat)
  BY <1>2 DEF Steps
<1>4. PICK f \in [0 .. N -> Seq(Nat)] : Solves(N, << >>, h, f)
  <2> HIDE DEF h, N
  <2> QED
    BY <1>1, <1>3, RecursionExists, Zenon
<1>5. f = F(f)
  <2>1. ASSUME NEW n \in 0 .. N
        PROVE  f[n] = IF n = 0 THEN << >> ELSE EndingField(ts, n) \o f[n - 1]
    <3>1. CASE n = 0
      BY <1>4, <3>1, ZenonT(60) DEF Solves, Next1
    <3>2. CASE n # 0
      <4>1. n \in 1 .. N /\ f[n - 1] \in Seq(Nat)
        BY <1>1, <3>2
      <4>2. f[n] = h[<<n, f[n - 1]>>]
        BY <1>4, <3>2, ZenonT(60) DEF Solves, Next1
      <4> QED
        BY <3>2, <4>1, <4>2, ZenonT(60)
    <3> QED
      BY <3>1, <3>2
  <2> QED
    BY <2>1
<1>6. Ending(ts) = CHOOSE g : g = F(g)
  BY Zenon DEF Ending, EndingField
<1>7. Ending(ts) = F(Ending(ts))
  <2> HIDE DEF F
  <2> QED
    BY <1>5, <1>6, Zenon
<1>8. /\ Ending(ts)[0] = << >>
      /\ \A n \in 1 .. N : Ending(ts)[n] = EndingField(ts, n) \o Ending(ts)[n - 1]
  <2> DEFINE g == Ending(ts)
  <2>1. g = [n \in 0 .. N |-> IF n = 0 THEN << >> ELSE EndingField(ts, n) \o g[n - 1]]
    BY <1>7, Zenon
  <2> HIDE DEF g, N
  <2>2. 0 \in 0 .. N /\ \A n \in 1 .. N : n \in 0 .. N /\ n # 0
    BY <1>1
  <2>3. g[0] = << >> /\ \A n \in 1 .. N : g[n] = EndingField(ts, n) \o g[n - 1]
    BY <2>1, <2>2, Zenon
  <2> QED
    BY <2>3, ZenonT(60) DEF g
<1> DEFINE T == {n \in Nat : n <= N => Ending(ts)[n] \in Seq(Nat)}
<1>9. Nat \subseteq T
  <2>1. 0 \in T
    <3>1. Ending(ts)[0] \in Seq(Nat)
      BY <1>3, <1>8, Zenon
    <3> QED
      BY <3>1
  <2>2. ASSUME NEW n \in Nat, n \in T PROVE n + 1 \in T
    <3>1. SUFFICES ASSUME n + 1 <= N PROVE Ending(ts)[n + 1] \in Seq(Nat)
      OBVIOUS
    <3>2. n + 1 \in 1 .. N /\ (n + 1) - 1 = n /\ n <= N
      BY <1>1, <3>1
    <3>3. Ending(ts)[n] \in Seq(Nat)
      BY <2>2, <3>2
    <3>4. Ending(ts)[n + 1] = EndingField(ts, n + 1) \o Ending(ts)[n]
      BY <1>8, <3>2, ZenonT(60)
    <3> QED
      BY <1>2, <3>2, <3>3, <3>4, Zenon
  <2> HIDE DEF T
  <2> QED
    BY <2>1, <2>2, StepInduction, Zenon
<1>10. TaggedFields(ts) = Uvarint[Len(ts)] \o Ending(ts)[Len(ts)]
  BY Zenon DEF TaggedFields, Ending
<1> QED
  BY <1>1, <1>8, <1>9, <1>10

\* The bytes of the fields.
LEMMA FieldsType ==
    ASSUME NEW ts, Fields(ts)
    PROVE  TaggedFields(ts) \in Seq(Nat)
<1> DEFINE a == Uvarint[Len(ts)]
           b == Ending(ts)[Len(ts)]
<1>1. Len(ts) \in Length /\ Len(ts) \in 0 .. Len(ts)
  BY Lengths DEF Fields
<1>2. a \in Seq(Nat) /\ b \in Seq(Nat) /\ TaggedFields(ts) = a \o b
  BY <1>1, EndingIs, UvarintType, ZenonT(60)
<1> HIDE DEF a, b
<1> QED
  BY <1>2

\* The fields are skipped when they are all there, and refused when they are
\* cut off, wherever the cut is (the last part of ParseRequestHeader).
LEMMA FieldsRead ==
    ASSUME NEW w \in Seq(Nat), NEW buf, Cut(w, buf), NEW off \in Nat,
           NEW ts, Fields(ts), Lies(w, off, TaggedFields(ts)),
           off + Len(TaggedFields(ts)) <= MaxInt
    PROVE  /\ TaggedFields(ts) \in Seq(Nat)
           /\ afterTaggedFields(buf, off)
                = IF off + Len(TaggedFields(ts)) <= Len(buf)
                  THEN off + Len(TaggedFields(ts)) ELSE Refused
<1> DEFINE N == Len(ts)
           e == Ending(ts)
           u == Len(Uvarint[N])
           L == Len(buf)
           D == off + Len(TaggedFields(ts))
           P(k) == D - Len(e[N - k])
           A(k) == IF P(k) <= L THEN P(k) ELSE Refused
<1>1. /\ N \in Length /\ N \in Nat /\ N <= MaxInt /\ L \in Nat /\ buf \in Seq(Nat)
      /\ u \in Nat /\ Uvarint[N] \in Seq(Nat)
  BY Lengths, UvarintType DEF Fields, Cut
<1>2. /\ \A n \in 0 .. N : e[n] \in Seq(Nat)
      /\ e[0] = << >>
      /\ \A n \in 1 .. N : e[n] = EndingField(ts, n) \o e[n - 1]
      /\ TaggedFields(ts) = Uvarint[N] \o e[N]
  BY EndingIs, ZenonT(60)
<1> HIDE DEF e
<1>3. e[N] \in Seq(Nat) /\ Len(e[N]) \in Nat
  BY <1>1, <1>2
<1>4. /\ TaggedFields(ts) \in Seq(Nat) /\ Len(TaggedFields(ts)) = u + Len(e[N])
      /\ Lies(w, off, Uvarint[N]) /\ Lies(w, off + u, e[N])
  <2>1. Lies(w, off, Uvarint[N] \o e[N])
    BY <1>2, Zenon
  <2>2. Uvarint[N] \o e[N] \in Seq(Nat)
    BY <1>1, <1>3, ConcatFacts, ZenonT(60)
  <2>3. /\ Lies(w, off, Uvarint[N]) /\ Lies(w, off + Len(Uvarint[N]), e[N])
        /\ Len(Uvarint[N] \o e[N]) = Len(Uvarint[N]) + Len(e[N])
    <3> DEFINE a == Uvarint[N]
               b == e[N]
    <3>1. a \in Seq(Nat) /\ b \in Seq(Nat) /\ Lies(w, off, a \o b)
      BY <1>1, <1>3, <2>1
    <3> HIDE DEF a, b
    <3>2. Lies(w, off, a) /\ Lies(w, off + Len(a), b)
      BY <3>1, LiesParts, Zenon
    <3>3. Len(a \o b) = Len(a) + Len(b)
      BY <3>1
    <3> QED
      BY <3>2, <3>3 DEF a, b
  <2> QED
    BY <1>2, <2>2, <2>3, Zenon
<1>5. D \in Nat /\ P(0) = off + u /\ D <= MaxInt
  <2> DEFINE x == Len(e[N])
  <2>1. N - 0 = N
    BY <1>1
  <2>2. D = off + (u + x) /\ P(0) = D - x /\ u \in Nat /\ x \in Nat
    BY <1>1, <1>3, <1>4, <2>1, ZenonT(60)
  <2>3. D <= MaxInt
    OBVIOUS
  <2> HIDE DEF u, x, D, P
  <2> QED
    BY <2>2, <2>3
<1>6. ASSUME NEW k \in Nat, k < N, P(k) \in Nat, Lies(w, P(k), e[N - k])
      PROVE  /\ P(k + 1) \in Nat /\ P(k) <= P(k + 1) /\ Lies(w, P(k + 1), e[N - (k + 1)])
             /\ afterTaggedField(buf, A(k)) = A(k + 1)
  <2> DEFINE m == N - k
             t == EndingField(ts, m)
  <2>1. m \in 1 .. N /\ m - 1 \in 0 .. N /\ m \in 0 .. N /\ N - (k + 1) = m - 1
    BY <1>1, <1>6, SMTT(30)
  <2>2. e[m] = t \o e[m - 1] /\ e[m - 1] \in Seq(Nat) /\ e[m] \in Seq(Nat)
    BY <1>2, <2>1, ZenonT(60)
  <2>3. /\ t \in Seq(Nat) /\ Len(ts) - m + 1 \in Length /\ ts[Len(ts) - m + 1] \in Length
        /\ Len(ts) - m + 1 <= MaxInt
    <3>1. t \in Seq(Nat) /\ Len(ts) - m + 1 \in Length /\ ts[Len(ts) - m + 1] \in Length
      BY <2>1, EndingFieldType
    <3>2. N - m + 1 <= MaxInt
      <4> HIDE DEF N, m
      <4> QED
        BY <1>1, <2>1, Widths
    <3> QED
      BY <3>1, <3>2
  <2>4. P(k) = D - Len(e[m]) /\ P(k + 1) = D - Len(e[m - 1])
    BY <2>1
  <2> HIDE DEF m, t
  <2>5. /\ Lies(w, P(k), t) /\ Lies(w, P(k) + Len(t), e[m - 1])
        /\ Len(e[m]) = Len(t) + Len(e[m - 1])
    <3>1. Lies(w, P(k), t \o e[m - 1])
      BY <1>6, <2>2, ZenonT(60) DEF m
    <3>2. P(k) \in Nat
      BY <1>6
    <3> DEFINE p == P(k)
               s == e[m - 1]
    <3>3. p \in Nat /\ s \in Seq(Nat) /\ Lies(w, p, t \o s)
      BY <2>2, <3>1, <3>2, Zenon
    <3> HIDE DEF p, s
    <3>4. Lies(w, p, t) /\ Lies(w, p + Len(t), s)
      BY <2>3, <3>3, LiesParts, Zenon
    <3>5. Len(t \o s) = Len(t) + Len(s)
      BY <2>3, <3>3
    <3> QED
      BY <2>2, <3>4, <3>5, Zenon DEF p, s
  <2>6. /\ P(k + 1) = P(k) + Len(t) /\ P(k + 1) \in Nat /\ P(k) <= P(k + 1)
        /\ P(k) + Len(t) <= MaxInt
    <3> DEFINE x == Len(e[m])
               y == Len(e[m - 1])
               z == Len(t)
    <3>0. x \in Nat /\ y \in Nat /\ z \in Nat
      BY <2>2, <2>3
    <3>1. /\ x \in Nat /\ y \in Nat /\ z \in Nat /\ x = z + y /\ D \in Nat /\ D <= MaxInt
          /\ P(k) = D - x /\ P(k + 1) = D - y /\ P(k) \in Nat
      BY <1>5, <1>6, <2>4, <2>5, <3>0, ZenonT(60)
    <3> HIDE DEF x, y, z, P, D
    <3>2. /\ P(k + 1) = P(k) + z /\ P(k + 1) \in Nat /\ P(k) <= P(k + 1)
          /\ P(k) + z <= MaxInt
      BY <3>1, Widths
    <3> QED
      BY <3>2 DEF z
  <2> HIDE DEF P
  <2>7. Lies(w, P(k + 1), e[N - (k + 1)])
    BY <2>1, <2>5, <2>6
  <2>8. t = TaggedField(Len(ts) - m + 1, ts[Len(ts) - m + 1])
    BY DEF t, EndingField
  <2>9. afterTaggedField(buf, P(k)) = IF P(k) + Len(t) <= L THEN P(k) + Len(t) ELSE Refused
    <3> DEFINE p == P(k)
               i == Len(ts) - m + 1
    <3>1. /\ p \in Nat /\ i \in Length /\ i <= MaxInt /\ ts[i] \in Length
          /\ Lies(w, p, TaggedField(i, ts[i])) /\ p + Len(TaggedField(i, ts[i])) <= MaxInt
      BY <1>6, <2>3, <2>5, <2>6, <2>8, Zenon
    <3> HIDE DEF p, i
    <3>2. afterTaggedField(buf, p) = IF p + Len(TaggedField(i, ts[i])) <= L
                                     THEN p + Len(TaggedField(i, ts[i])) ELSE Refused
      BY <3>1, FieldRead, Zenon
    <3> QED
      BY <2>8, <3>2, Zenon DEF p, i
  <2>10. afterTaggedField(buf, A(k)) = A(k + 1)
    <3>1. CASE P(k) <= L
      BY <2>6, <2>9, <3>1
    <3>2. CASE ~(P(k) <= L)
      <4>1. ~(P(k + 1) <= L)
        BY <1>1, <1>6, <2>6, <3>2
      <4>2. afterTaggedField(buf, Refused) = Refused
        BY Widths, Zenon DEF afterTaggedField
      <4> QED
        BY <3>2, <4>1, <4>2
    <3> QED
      BY <3>1, <3>2
  <2> QED
    BY <2>6, <2>7, <2>10
<1> DEFINE T == {k \in Nat : k <= N => P(k) \in Nat /\ Lies(w, P(k), e[N - k])}
<1>7. Nat \subseteq T
  <2>1. 0 \in T
    <3>1. N - 0 = N /\ off + u \in Nat
      BY <1>1
    <3>2. P(0) \in Nat /\ Lies(w, P(0), e[N - 0])
      BY <1>4, <1>5, <3>1, Zenon
    <3> HIDE DEF P
    <3> QED
      BY <3>2
  <2>2. ASSUME NEW k \in Nat, k \in T PROVE k + 1 \in T
    <3> HIDE DEF P, A
    <3>1. SUFFICES ASSUME k + 1 <= N PROVE P(k + 1) \in Nat /\ Lies(w, P(k + 1), e[N - (k + 1)])
      OBVIOUS
    <3>2. k < N /\ k <= N
      BY <1>1, <3>1
    <3>3. P(k) \in Nat /\ Lies(w, P(k), e[N - k])
      BY <2>2, <3>2
    <3> QED
      BY <1>6, <3>2, <3>3, Zenon
  <2> HIDE DEF T
  <2> QED
    BY <2>1, <2>2, StepInduction, Zenon
<1>8. ASSUME NEW k \in 0 .. N
      PROVE  P(k) \in Nat /\ (k < N => P(k) <= P(k + 1) /\ afterTaggedField(buf, A(k)) = A(k + 1))
  <2> HIDE DEF P, A
  <2>1. k \in Nat /\ k <= N
    BY <1>1
  <2>2. P(k) \in Nat /\ Lies(w, P(k), e[N - k])
    BY <1>7, <2>1
  <2> QED
    BY <1>6, <2>1, <2>2, Zenon
<1>9. P(N) = D
  <2>1. N - N = 0 /\ Len(e[0]) = 0
    BY <1>1, <1>2
  <2>2. P(N) = D - 0
    BY <2>1, Zenon
  <2> HIDE DEF D, P
  <2> QED
    BY <1>5, <2>2, SMTT(30)
<1> DEFINE c == readUvarint(buf, off)
           F(f) == [i \in 0 .. c.value |-> IF i = 0 THEN c.off ELSE afterTaggedField(buf, f[i - 1])]
           after == CHOOSE f : f = F(f)
<1>10. afterTaggedFields(buf, off) = after[c.value]
  BY ZenonT(60) DEF afterTaggedFields
<1>11. CASE L < off + u
  <2>1. c = Bad
    BY <1>1, <1>4, <1>11, UvarintCut, SMTT(30)
  <2>2. c.value = 0 /\ c.off = Refused
    BY <2>1 DEF Bad
  <2> HIDE DEF c
  <2> DEFINE f == [i \in 0 .. 0 |-> Refused]
  <2>3. f = F(f)
    BY <2>2
  <2> HIDE DEF f
  <2>4. after = F(after)
    <3> HIDE DEF F
    <3> QED
      BY <2>3, Zenon
  <2> HIDE DEF after
  <2>5. after[0] = Refused
    BY <2>2, <2>4
  <2>6. ~(D <= L)
    <3> DEFINE x == Len(e[N])
    <3>1. D = off + (u + x) /\ x \in Nat /\ u \in Nat /\ L \in Nat
      BY <1>1, <1>3, <1>4, SMTT(30)
    <3> HIDE DEF x, D, L, u
    <3> QED
      BY <1>11, <3>1, SMTT(30)
  <2> HIDE DEF D
  <2> QED
    BY <1>4, <1>10, <2>2, <2>5, <2>6, SMTT(30) DEF D
<1>12. CASE ~(L < off + u)
  <2>1. Lies(buf, off, Uvarint[N])
    <3>1. off + u <= L
      BY <1>1, <1>12, SMTT(30)
    <3> QED
      BY <1>1, <1>4, <3>1, LiesBeforeCut
  <2>2. c = [value |-> N, off |-> off + u]
    BY <1>1, <2>1, UvarintRead
  <2>3. c.value = N /\ c.off = off + u
    BY <2>2
  <2>4. A(0) = off + u
    <3> HIDE DEF P, L, u
    <3> QED
      BY <1>1, <1>5, <1>12
  <2> HIDE DEF c, A, P
  <2> DEFINE f == [i \in 0 .. N |-> A(i)]
  <2>5. f = F(f)
    <3>1. ASSUME NEW i \in 0 .. N
          PROVE  A(i) = IF i = 0 THEN c.off ELSE afterTaggedField(buf, f[i - 1])
      <4>1. CASE i = 0
        BY <2>3, <2>4, <4>1, SMTT(30)
      <4>2. CASE i # 0
        <5>1. i - 1 \in 0 .. N /\ i - 1 < N /\ (i - 1) + 1 = i
          BY <1>1, <4>2
        <5>2. afterTaggedField(buf, A(i - 1)) = A((i - 1) + 1) /\ f[i - 1] = A(i - 1)
          BY <1>8, <5>1
        <5> HIDE DEF f
        <5> QED
          BY <4>2, <5>1, <5>2
      <4> QED
        BY <4>1, <4>2
    <3> QED
      BY <2>3, <3>1
  <2> HIDE DEF f
  <2>6. after = F(after)
    <3> HIDE DEF F
    <3> QED
      BY <2>5, Zenon
  <2> HIDE DEF after
  <2>7. /\ after[0] = off + u
        /\ \A i \in 1 .. N : after[i] = afterTaggedField(buf, after[i - 1])
    <3> DEFINE g == after
    <3>1. g = [i \in 0 .. N |-> IF i = 0 THEN off + u ELSE afterTaggedField(buf, g[i - 1])]
      BY <2>3, <2>6, Zenon
    <3> HIDE DEF g
    <3>2. 0 \in 0 .. N /\ \A i \in 1 .. N : i \in 0 .. N /\ i # 0
      BY <1>1
    <3>3. g[0] = off + u /\ \A i \in 1 .. N : g[i] = afterTaggedField(buf, g[i - 1])
      BY <3>1, <3>2, Zenon
    <3> QED
      BY <3>3 DEF g
  <2> DEFINE S == {k \in Nat : k <= N => after[k] = A(k)}
  <2>8. Nat \subseteq S
    <3>1. 0 \in S
      BY <2>4, <2>7
    <3>2. ASSUME NEW k \in Nat, k \in S PROVE k + 1 \in S
      <4>1. SUFFICES ASSUME k + 1 <= N PROVE after[k + 1] = A(k + 1)
        OBVIOUS
      <4>2. k \in 0 .. N /\ k < N /\ k <= N /\ k + 1 \in 1 .. N /\ (k + 1) - 1 = k
        BY <1>1, <4>1
      <4>3. after[k] = A(k)
        BY <3>2, <4>2
      <4>4. after[k + 1] = afterTaggedField(buf, after[k])
        BY <2>7, <4>2
      <4> QED
        BY <1>8, <4>2, <4>3, <4>4, ZenonT(60)
    <3> HIDE DEF S
    <3> QED
      BY <3>1, <3>2, StepInduction, Zenon
  <2>9. after[N] = A(N)
    BY <1>1, <2>8
  <2>10. A(N) = IF D <= L THEN D ELSE Refused
    BY <1>9, Zenon DEF A
  <2> QED
    BY <1>4, <1>10, <2>3, <2>9, <2>10, SMTT(30)
<1> QED
  BY <1>11, <1>12, SMTT(30)

\* The front of a concatenation.
LEMMA FrontIs ==
    ASSUME NEW h \in Seq(Nat), NEW f \in Seq(Nat)
    PROVE  Len(h \o f) = Len(h) + Len(f) /\ \A i \in 1 .. Len(h) : (h \o f)[i] = h[i]
OBVIOUS

\* Two bytes in front of others.
LEMMA TwoBytesThen ==
    ASSUME NEW h \in Seq(Nat), Len(h) = 2, NEW f \in Seq(Nat)
    PROVE  Len(h \o f) = 2 + Len(f) /\ (h \o f)[1] = h[1] /\ (h \o f)[2] = h[2]
<1>1. Len(h \o f) = Len(h) + Len(f) /\ \A i \in 1 .. Len(h) : (h \o f)[i] = h[i]
  BY FrontIs, Zenon
<1>2. 1 \in 1 .. Len(h) /\ 2 \in 1 .. Len(h)
  OBVIOUS
<1> QED
  BY <1>1, <1>2, Zenon

\* The client id is read when it is all there, and refused when it is cut off;
\* null and empty ones have no bytes (the first part of ParseRequestHeader).
LEMMA ClientIDRead ==
    ASSUME NEW w \in Seq(Nat), NEW buf, Cut(w, buf), NEW off \in Nat,
           NEW n \in Int, -1 <= n, n <= MaxInt16, Lies(w, off, NullableString(n)),
           off + Len(NullableString(n)) <= MaxInt
    PROVE  afterClientID(buf, off)
             = IF off + Len(NullableString(n)) <= Len(buf)
               THEN off + Len(NullableString(n)) ELSE Refused
<1> DEFINE s == NullableString(n)
           L == Len(buf)
<1>1. buf \in Seq(Nat) /\ L \in Nat /\ \A i \in 1 .. L : buf[i] = w[i]
  <2>1. buf \in Seq(Nat) /\ \A i \in 1 .. L : buf[i] = w[i]
    BY Zenon DEF Cut
  <2> QED
    BY <2>1
<1>2. \A i \in 1 .. Len(s) : w[off + i] = s[i]
  BY DEF Lies
<1>3. MaxInt16 = 32767 /\ 2 ^ 16 = 65536
  BY SMTT(30) DEF MaxInt16
<1>b. ASSUME Len(s) \in Nat, Len(s) >= 2, L >= off + 2
      PROVE  buf[off + 1] = s[1] /\ buf[off + 2] = s[2]
  <2>1. off + 1 \in 1 .. L /\ off + 2 \in 1 .. L
    <3> HIDE DEF L
    <3> QED
      BY <1>1, <1>b
  <2>2. 1 \in 1 .. Len(s) /\ 2 \in 1 .. Len(s)
    <3> HIDE DEF s
    <3> QED
      BY <1>b
  <2> HIDE DEF s, L
  <2> QED
    BY <1>1, <1>2, <2>1, <2>2, Zenon
<1>4. CASE n = -1
  <2>1. s = <<255, 255>> /\ Len(s) = 2 /\ s[1] = 255 /\ s[2] = 255
    BY <1>4 DEF NullableString
  <2>2. L >= off + 2 => buf[off + 1] = 255 /\ buf[off + 2] = 255
    BY <1>b, <2>1, SMT
  <2> HIDE DEF s
  <2>3. L >= off + 2 => afterClientID(buf, off) = off + 2
    BY <1>1, <1>3, <2>2, SMTT(30) DEF afterClientID
  <2>4. L < off + 2 => afterClientID(buf, off) = Refused
    BY SMT DEF afterClientID
  <2> HIDE DEF L
  <2>5. afterClientID(buf, off) = IF off + Len(s) <= L THEN off + Len(s) ELSE Refused
    BY <1>1, <2>1, <2>3, <2>4
  <2> QED
    BY <2>5 DEF s, L
<1>5. CASE n \in Nat
  <2> DEFINE h == <<n \div 256, n % 256>>
  <2>1. /\ n \div 256 \in Nat /\ n % 256 \in Nat /\ n = 256 * (n \div 256) + (n % 256)
    BY <1>5, SMT
  <2>2. h \in Seq(Nat) /\ Len(h) = 2 /\ h[1] = n \div 256 /\ h[2] = n % 256
    BY <2>1
  <2>3. Fill(n) \in Seq(Nat) /\ Len(Fill(n)) = n
    BY <1>5, FillIs
  <2>4. s = h \o Fill(n)
    BY <1>5, SMT DEF NullableString
  <2> HIDE DEF h
  <2>5. Len(s) = 2 + n /\ s[1] = n \div 256 /\ s[2] = n % 256
    <3> DEFINE f == Fill(n)
    <3>1. f \in Seq(Nat) /\ Len(f) = n /\ s = h \o f
      BY <2>3, <2>4
    <3> HIDE DEF f, s
    <3>2. Len(h \o f) = 2 + Len(f) /\ (h \o f)[1] = h[1] /\ (h \o f)[2] = h[2]
      <4>1. h \in Seq(Nat) /\ Len(h) = 2
        BY <2>2
      <4> QED
        BY <3>1, <4>1, TwoBytesThen, Zenon
    <3> QED
      BY <2>2, <3>1, <3>2, ZenonT(60)
  <2>6. off + Len(s) <= MaxInt
    OBVIOUS
  <2> HIDE DEF s
  <2>7. L >= off + 2 => buf[off + 1] = n \div 256 /\ buf[off + 2] = n % 256
    BY <1>5, <1>b, <2>5
  <2>8. L >= off + 2 => 256 * buf[off + 1] + buf[off + 2] = n
    BY <2>1, <2>7, SMTT(30)
  <2>9. L >= off + 2 => afterClientID(buf, off) = IF n > 0 THEN skip(buf, off + 2, n) ELSE off + 2
    BY <1>3, <1>5, <2>8, SMTT(30) DEF afterClientID
  <2>10. L < off + 2 => afterClientID(buf, off) = Refused
    BY SMT DEF afterClientID
  <2>11. skip(buf, off + 2, n) = IF L < (off + 2) + n THEN Refused ELSE (off + 2) + n
    <3>1. (off + 2) + n \in Nat /\ (off + 2) + n <= MaxInt
      BY <1>5, <2>5, <2>6, Widths
    <3>2. int((off + 2) + n) = (off + 2) + n
      BY <3>1, Widths, ZenonT(60)
    <3> QED
      BY <3>2, Zenon DEF skip
  <2> HIDE DEF L
  <2>12. afterClientID(buf, off) = IF off + Len(s) <= L THEN off + Len(s) ELSE Refused
    BY <1>1, <1>5, <2>5, <2>9, <2>10, <2>11, SMTT(30)
  <2> QED
    BY <2>12 DEF s, L
<1> QED
  BY <1>4, <1>5, SMT

\* The bytes of a client id.
LEMMA NullableStringType ==
    ASSUME NEW n \in Int, -1 <= n
    PROVE  NullableString(n) \in Seq(Nat)
<1>1. CASE n = -1
  BY <1>1 DEF NullableString
<1>2. CASE n \in Nat
  <2>1. <<n \div 256, n % 256>> \in Seq(Nat)
    BY <1>2, SMT
  <2>2. Fill(n) \in Seq(Nat)
    BY <1>2, FillIs
  <2>3. <<n \div 256, n % 256>> \o Fill(n) \in Seq(Nat)
    BY <2>1, <2>2, ConcatFacts
  <2> QED
    BY <1>2, <2>3, SMT DEF NullableString
<1> QED
  BY <1>1, <1>2, SMT

\* A sequence lies in itself, and its parts do.
LEMMA LiesWhole ==
    ASSUME NEW s \in Seq(Nat), NEW t \in Seq(Nat)
    PROVE  Lies(s \o t, 0, s)
BY DEF Lies

\* Some bytes and a cut behind the first m of them.
LEMMA CutIs ==
    ASSUME NEW w \in Seq(Nat), NEW m \in 0 .. Len(w)
    PROVE  Cut(w, SubSeq(w, 1, m)) /\ Len(SubSeq(w, 1, m)) = m
<1>1. SubSeq(w, 1, m) \in Seq(Nat) /\ Len(SubSeq(w, 1, m)) = m
  BY SubSeqFacts
<1>2. \A i \in 1 .. m : SubSeq(w, 1, m)[i] = w[i]
  BY SubSeqFacts
<1> QED
  BY <1>1, <1>2 DEF Cut

\* What clients send, and the proxy handles.
Sends(k, v, n, ts) ==
    /\ v \in Nat /\ ~Passthrough(k) /\ (k = "DescribeConfigs" => v < 4)
    /\ n \in Int /\ -1 <= n /\ n <= MaxInt16
    /\ Fields(ts)

\* buf is a cut of bytes that have s behind o, and the end of s is an int.
Holds(w, buf, o, s) ==
    w \in Seq(Nat) /\ Cut(w, buf) /\ o \in Nat /\ Lies(w, o, s) /\ o + Len(s) <= MaxInt

\* Where ParseRequestHeader stops if the fixed bytes end at o.
Stop(buf, k, v, o) ==
    IF afterClientID(buf, o) < 0 \/ RequestHeaderVersion(k, v) < 2
    THEN afterClientID(buf, o) ELSE afterTaggedFields(buf, afterClientID(buf, o))

\* The header of a request behind the fixed bytes: where it ends is where the
\* parser stops, if the cut is behind it.
LEMMA HeaderIsRead ==
    ASSUME NEW k, NEW v, NEW n, NEW ts, Sends(k, v, n, ts),
           NEW w, NEW buf, NEW o, Holds(w, buf, o, Header(k, v, n, ts))
    PROVE  Stop(buf, k, v, o)
             = IF o + Len(Header(k, v, n, ts)) <= Len(buf)
               THEN o + Len(Header(k, v, n, ts)) ELSE Refused
<1> SUFFICES
      ASSUME v \in Nat, ~Passthrough(k), k = "DescribeConfigs" => v < 4,
             n \in Int, -1 <= n, n <= MaxInt16, Fields(ts),
             w \in Seq(Nat), Cut(w, buf), o \in Nat,
             Lies(w, o, Header(k, v, n, ts)), o + Len(Header(k, v, n, ts)) <= MaxInt
      PROVE  (IF afterClientID(buf, o) < 0 \/ RequestHeaderVersion(k, v) < 2
              THEN afterClientID(buf, o) ELSE afterTaggedFields(buf, afterClientID(buf, o)))
             = IF o + Len(Header(k, v, n, ts)) <= Len(buf)
               THEN o + Len(Header(k, v, n, ts)) ELSE Refused
  BY Zenon DEF Sends, Holds, Stop
<1> DEFINE s == NullableString(n)
           f == TaggedFields(ts)
           H == Header(k, v, n, ts)
           L == Len(buf)
           cid == afterClientID(buf, o)
           off == IF cid < 0 \/ RequestHeaderVersion(k, v) < 2 THEN cid
                  ELSE afterTaggedFields(buf, cid)
<1>1. s \in Seq(Nat) /\ f \in Seq(Nat) /\ Len(s) \in Nat /\ Len(f) \in Nat
  <2>1. s \in Seq(Nat)
    BY NullableStringType
  <2>2. f \in Seq(Nat)
    BY FieldsType, SMTT(30)
  <2> QED
    BY <2>1, <2>2
<1>2. L \in Nat /\ Lies(w, o, H) /\ o + Len(H) <= MaxInt
  BY SMTT(30) DEF Cut
<1>3. CASE ~KafkaFlexible(k, v)
  <2>1. H = s
    BY <1>1, <1>3 DEF Header
  <2>2. Lies(w, o, s) /\ o + Len(s) <= MaxInt
    BY <1>2, <2>1, Zenon
  <2>3. cid = IF o + Len(s) <= L THEN o + Len(s) ELSE Refused
    BY <2>2, ClientIDRead, ZenonT(60)
  <2>4. off = cid
    BY <1>3, VersionsAgree
  <2> HIDE DEF s, H, cid, off, L
  <2>5. off = IF o + Len(H) <= L THEN o + Len(H) ELSE Refused
    BY <2>1, <2>3, <2>4
  <2> QED
    BY <2>5 DEF off, cid, H, L
<1>4. CASE KafkaFlexible(k, v)
  <2>1. H = s \o f
    BY <1>4 DEF Header
  <2>2. s \o f \in Seq(Nat) /\ Len(s \o f) = Len(s) + Len(f)
    <3> HIDE DEF s, f
    <3> QED
      BY <1>1
  <2>3. o + Len(s) <= MaxInt /\ (o + Len(s)) + Len(f) <= MaxInt /\ o + Len(s) \in Nat
    <3> HIDE DEF s, f, H
    <3> QED
      BY <1>1, <1>2, <2>1, <2>2, Widths
  <2>4. Lies(w, o, s) /\ Lies(w, o + Len(s), f)
    <3> HIDE DEF s, f, H
    <3> QED
      BY <1>1, <1>2, <2>1, LiesParts
  <2>5. cid = IF o + Len(s) <= L THEN o + Len(s) ELSE Refused
    BY <2>3, <2>4, ClientIDRead
  <2>6. CASE ~(o + Len(s) <= L)
    <3> HIDE DEF s, f, H, L, cid
    <3>1. cid = Refused /\ cid < 0 /\ ~(o + Len(H) <= L)
      BY <1>1, <1>2, <2>1, <2>2, <2>5, <2>6, Widths, SMTT(30)
    <3> QED
      BY <3>1 DEF cid, H, L
  <2>7. CASE o + Len(s) <= L
    <3>1. cid = o + Len(s) /\ ~(cid < 0)
      <4> HIDE DEF s, L, cid
      <4> QED
        BY <1>1, <2>5, <2>7
    <3>2. off = afterTaggedFields(buf, o + Len(s))
      BY <1>4, <3>1, VersionsAgree, SMTT(30)
    <3>3. afterTaggedFields(buf, o + Len(s))
            = IF (o + Len(s)) + Len(f) <= L THEN (o + Len(s)) + Len(f) ELSE Refused
      <4> HIDE DEF s
      <4> QED
        BY <1>1, <2>3, <2>4, FieldsRead, SMTT(30)
    <3> HIDE DEF s, f, H, L, off
    <3>4. off = IF o + Len(H) <= L THEN o + Len(H) ELSE Refused
      BY <1>1, <2>1, <2>2, <3>2, <3>3
    <3> QED
      BY <3>4 DEF off, cid, H, L
  <2> QED
    BY <2>6, <2>7
<1> QED
  BY <1>3, <1>4

\* The bytes of a header.
LEMMA HeaderType ==
    ASSUME NEW k, NEW v, NEW n \in Int, -1 <= n, n <= MaxInt16, NEW ts, Fields(ts)
    PROVE  Header(k, v, n, ts) \in Seq(Nat)
<1> DEFINE s == NullableString(n)
           f == TaggedFields(ts)
<1>1. s \in Seq(Nat) /\ f \in Seq(Nat)
  BY FieldsType, NullableStringType
<1>2. Header(k, v, n, ts) = s \o f \/ Header(k, v, n, ts) = s \o << >>
  BY Zenon DEF Header
<1> HIDE DEF s, f
<1>3. s \o f \in Seq(Nat) /\ s \o << >> \in Seq(Nat)
  <2>1. << >> \in Seq(Nat)
    OBVIOUS
  <2> QED
    BY <1>1, <2>1, ConcatFacts, Zenon
<1> QED
  BY <1>2, <1>3, Zenon

\* The bytes in front of it.
LEMMA FixedType ==
    ASSUME NEW k, ~Passthrough(k), NEW v \in Nat
    PROVE  Fixed(k, v) \in Seq(Nat) /\ Len(Fixed(k, v)) = 8
<1>1. KeyNumber[k] \in Nat
  BY KeysHaveNumbers
<1> DEFINE x == KeyNumber[k]
<1>2. x \in Nat /\ Fixed(k, v) = <<0, x, 0, v, 0, 0, 0, 1>>
  BY <1>1 DEF Fixed
<1> HIDE DEF x
<1> QED
  BY <1>2

\* ParseRequestHeader on the first cut bytes of a request: it refuses them when
\* they end inside the header, and stops at the body otherwise.
LEMMA RequestIsParsed ==
    ASSUME NEW k, NEW v \in Nat, ~Passthrough(k), k = "DescribeConfigs" => v < 4,
           NEW n \in Int, -1 <= n, n <= MaxInt16, NEW ts, Fields(ts),
           NEW cut \in Nat, cut <= 10 + Len(Header(k, v, n, ts)),
           NEW r, r = ClientRequest(k, v, n, ts, cut), r.header <= MaxInt
    PROVE  IF Len(r.frame) < r.header THEN ParseRequestHeader(r).err = "error"
           ELSE ParseRequestHeader(r).err = "none" /\ ParseRequestHeader(r).size = r.header
<1> DEFINE H == Header(k, v, n, ts)
           F == Fixed(k, v)
           t == Fill(2)
           w == (F \o H) \o t
           buf == SubSeq(w, 1, cut)
           cid == afterClientID(buf, 8)
           off == IF cid < 0 \/ RequestHeaderVersion(k, v) < 2 THEN cid
                  ELSE afterTaggedFields(buf, cid)
           end == IF Len(buf) < 8 THEN Refused ELSE off
<1>1. t \in Seq(Nat) /\ Len(t) = 2
  BY FillIs, ZenonT(60)
<1>2. H \in Seq(Nat) /\ Len(H) \in Nat /\ F \in Seq(Nat) /\ Len(F) = 8
  <2>1. H \in Seq(Nat)
    BY HeaderType
  <2>2. F \in Seq(Nat) /\ Len(F) = 8
    BY FixedType
  <2> QED
    BY <2>1, <2>2
<1>3. /\ F \o H \in Seq(Nat) /\ Len(F \o H) = 8 + Len(H)
      /\ w \in Seq(Nat) /\ Len(w) = 10 + Len(H)
  <2> HIDE DEF H, F, t
  <2>1. F \o H \in Seq(Nat) /\ Len(F \o H) = 8 + Len(H)
    <3>1. F \o H \in Seq(Nat) /\ Len(F \o H) = Len(F) + Len(H)
      BY <1>2, ConcatFacts, Zenon
    <3> QED
      BY <1>2, <3>1, Zenon
  <2>2. w \in Seq(Nat) /\ Len(w) = Len(F \o H) + Len(t)
    BY <1>1, <2>1, ConcatFacts, Zenon
  <2> HIDE DEF w
  <2> QED
    BY <1>1, <1>2, <2>1, <2>2
<1>4. r.key = k /\ r.version = v /\ r.header = Len(F \o H) /\ r.frame = buf
  BY ZenonT(60) DEF ClientRequest
<1>5. Lies(w, 8, H)
  <2> HIDE DEF H, F, t
  <2>1. Lies(w, 0, F \o H)
    BY <1>1, <1>3, LiesWhole, ZenonT(60)
  <2> HIDE DEF w
  <2>2. Lies(w, 0 + Len(F), H)
    BY <1>2, <1>3, <2>1, LiesParts
  <2> QED
    BY <1>2, <2>2
<1>6. Cut(w, buf) /\ Len(buf) = cut
  <2>1. cut \in 0 .. Len(w)
    <3>1. cut \in Nat /\ cut <= 10 + Len(H)
      OBVIOUS
    <3> HIDE DEF H, w
    <3> QED
      BY <1>2, <1>3, <3>1
  <2> HIDE DEF w
  <2> QED
    BY <1>3, <2>1, CutIs
<1>7. HeaderEnd(r) = end
  BY <1>4, Zenon DEF HeaderEnd
<1>8. 8 + Len(H) <= MaxInt /\ r.header = 8 + Len(H)
  BY <1>3, <1>4
<1>9. off = IF 8 + Len(H) <= Len(buf) THEN 8 + Len(H) ELSE Refused
  <2> HIDE DEF buf, w
  <2>1. Sends(k, v, n, ts)
    BY Zenon DEF Sends
  <2>2. Holds(w, buf, 8, H)
    BY <1>3, <1>5, <1>6, <1>8 DEF Holds
  <2>3. off = Stop(buf, k, v, 8)
    BY Zenon DEF Stop
  <2> QED
    BY <2>1, <2>2, <2>3, HeaderIsRead, Zenon
<1>10. end = IF 8 + Len(H) <= cut THEN 8 + Len(H) ELSE Refused
  <2> HIDE DEF off, H, buf
  <2> QED
    BY <1>2, <1>6, <1>9
<1> HIDE DEF end, H, buf, w
<1>11. CASE 8 + Len(H) <= cut
  <2>1. HeaderEnd(r) = 8 + Len(H) /\ ~(HeaderEnd(r) < 0) /\ HeaderEnd(r) # Refused
    BY <1>2, <1>7, <1>10, <1>11, Widths
  <2>2. ~(Len(r.frame) < r.header)
    BY <1>2, <1>4, <1>6, <1>8, <1>11
  <2> QED
    BY <1>8, <2>1, <2>2 DEF ParseRequestHeader
<1>12. CASE ~(8 + Len(H) <= cut)
  <2>1. HeaderEnd(r) = Refused /\ Len(r.frame) < r.header
    BY <1>2, <1>4, <1>6, <1>7, <1>8, <1>10, <1>12
  <2> QED
    BY <2>1 DEF ParseRequestHeader
<1> QED
  BY <1>11, <1>12

\* The request is one that a client sends, and hdr is what the parser said of it.
BodyInv ==
    /\ \E r \in Request, cid \in ClientID, ts \in Tags, cut \in 0 .. MaxFrame :
           /\ cut <= 10 + Len(Header(r[1], r[2], cid, ts))
           /\ req = ClientRequest(r[1], r[2], cid, ts, cut)
    /\ stage # "sent" => hdr = ParseRequestHeader(req)
    /\ NoDescribeConfigs4

\* So the body of every request is found.
LEMMA BodyInvSuffices == BodyInv => BodyIsFound
<1> SUFFICES ASSUME BodyInv, stage # "sent", ~Passthrough(req.key), req.header <= MaxInt
             PROVE  IF Len(req.frame) < req.header THEN hdr.err = "error"
                    ELSE hdr.err = "none" /\ hdr.size = req.header
  BY DEF BodyIsFound
<1>1. PICK r \in Request, n \in ClientID, ts \in Tags, cut \in 0 .. MaxFrame :
           /\ cut <= 10 + Len(Header(r[1], r[2], n, ts))
           /\ req = ClientRequest(r[1], r[2], n, ts, cut)
  BY DEF BodyInv
<1>2. cut \in Nat
  BY WidthAssumption
<1> DEFINE k == r[1]
           v == r[2]
<1>3. n \in Int /\ -1 <= n /\ n <= MaxInt16
  <2>1. MaxInt16 \in Int
    BY SMT DEF MaxInt16
  <2>2. n \in -1 .. MaxInt16
    BY FieldAssumption, Zenon
  <2> QED
    BY <2>1, <2>2
<1>4. Fields(ts)
  BY FieldAssumption, ZenonT(60) DEF Fields
<1>5. v \in Nat /\ (k = "DescribeConfigs" => v < 4)
  BY RequestAssumption DEF BodyInv, NoDescribeConfigs4
<1>6. req.key = k
  BY <1>1 DEF ClientRequest
<1>7. ~Passthrough(k)
  BY <1>6
<1>8. hdr = ParseRequestHeader(req)
  BY DEF BodyInv
<1>9. IF Len(req.frame) < req.header THEN ParseRequestHeader(req).err = "error"
      ELSE ParseRequestHeader(req).err = "none" /\ ParseRequestHeader(req).size = req.header
  <2>1. cut <= 10 + Len(Header(k, v, n, ts)) /\ req = ClientRequest(k, v, n, ts, cut)
    BY <1>1
  <2> HIDE DEF k, v
  <2> QED
    BY <1>2, <1>3, <1>4, <1>5, <1>7, <2>1, RequestIsParsed
<1> QED
  BY <1>8, <1>9, Zenon

\* ParseRequestHeader finds the body of every request that the proxy handles:
\* for every length of a client id that an int16 holds, every number and length
\* of tagged fields whose end is an int of any width, every key and version but
\* DescribeConfigs 4, and wherever the frame is cut off.
THEOREM BodiesAreFound == NoDescribeConfigs4 /\ HeaderSpec => []BodyIsFound
<1>1. NoDescribeConfigs4 /\ HeaderInit => BodyInv
  BY Zenon DEF HeaderInit, BodyInv
<1>2. BodyInv /\ [HeaderNext]_headerVars => BodyInv'
  <2> SUFFICES ASSUME BodyInv, [HeaderNext]_headerVars PROVE BodyInv'
    OBVIOUS
  <2>1. CASE Parse
    BY <2>1, Zenon DEF BodyInv, Parse
  <2>2. CASE stage # "sent" /\ UNCHANGED <<req, hdr>>
    BY <2>2, Zenon DEF BodyInv
  <2>3. CASE UNCHANGED headerVars
    BY <2>3, Zenon DEF BodyInv, headerVars
  <2> QED
    BY <2>1, <2>2, <2>3 DEF HeaderNext, LocalReply, BrokerAnswers, PassOn, Rewrite, Reply,
       ClientReads, Done
<1> QED
  BY <1>1, <1>2, BodyInvSuffices, PTL DEF HeaderSpec

=============================================================================
