------------------------------ MODULE Headers ------------------------------
(***************************************************************************)
(* Where headers end (protocol/header.go, keys.go, response.go, and the    *)
(* offsets in upstream/conn.go): one request of a client through the proxy *)
(* and the response back.                                                  *)
(*                                                                         *)
(* The client and the broker follow Kafka's table of flexible versions;    *)
(* the proxy follows its own.  A request frame is its bytes, cut off after *)
(* any of them, with the key and the version that the first four spell; of *)
(* a response only the length of the header matters.  Integers have the    *)
(* width of Go's int and uint64, scaled down where TLC counts.             *)
(***************************************************************************)
EXTENDS Integers, Sequences, FiniteSetsExt

CONSTANTS
    Request,    \* the <<key, version>> pairs that clients send
    ClientID,   \* the lengths of client ids; -1 is null
    Tags,       \* the tagged fields of headers: sequences of field lengths
    MaxInt,     \* the largest int, 2^63 - 1
    MaxUvarint, \* the most bytes that readUvarint takes, 10
    MaxFrame,   \* protocol.MaxFrameSize: ReadFrame returns no longer frame
    MaxLength   \* bound: the largest number that a client encodes

VARIABLES
    req,        \* the request as the client built it
    hdr,        \* what ParseRequestHeader returned
    stage,      \* how far the request is
    respHeader, \* the length of the header of the response on the wire
    stripped,   \* the length of the header that the proxy took off
    found       \* the length of the header the client takes off

headerVars == <<req, hdr, stage, respHeader, stripped, found>>

-----------------------------------------------------------------------------
(* The tables.                                                             *)

NeverFlexible == 100

\* isFlexibleRequest: the first flexible version of each key it lists.
FlexibleFrom ==
    [Produce |-> 9, Fetch |-> 12, ListOffsets |-> 6, Metadata |-> 9, OffsetCommit |-> 8,
     OffsetFetch |-> 6, FindCoordinator |-> 3, JoinGroup |-> 6, Heartbeat |-> 4,
     LeaveGroup |-> 4, SyncGroup |-> 4, DescribeGroups |-> 5, ListGroups |-> 3,
     SaslHandshake |-> NeverFlexible, ApiVersions |-> 3, CreateTopics |-> 5, DeleteTopics |-> 4,
     InitProducerID |-> 2, AddPartitionsToTxn |-> 3, AddOffsetsToTxn |-> 3, EndTxn |-> 3,
     TxnOffsetCommit |-> 3, DescribeConfigs |-> NeverFlexible, SaslAuthenticate |-> 2,
     DeleteGroups |-> 2, OffsetDelete |-> NeverFlexible]

\* Kafka's message definitions, with one key that the proxy does not list.
KafkaFlexibleFrom ==
    [Produce |-> 9, Fetch |-> 12, ListOffsets |-> 6, Metadata |-> 9, OffsetCommit |-> 8,
     OffsetFetch |-> 6, FindCoordinator |-> 3, JoinGroup |-> 6, Heartbeat |-> 4,
     LeaveGroup |-> 4, SyncGroup |-> 4, DescribeGroups |-> 5, ListGroups |-> 3,
     SaslHandshake |-> NeverFlexible, ApiVersions |-> 3, CreateTopics |-> 5, DeleteTopics |-> 4,
     InitProducerID |-> 2, AddPartitionsToTxn |-> 3, AddOffsetsToTxn |-> 3, EndTxn |-> 3,
     TxnOffsetCommit |-> 3, DescribeConfigs |-> 4, SaslAuthenticate |-> 2,
     DeleteGroups |-> 2, OffsetDelete |-> NeverFlexible, OffsetForLeaderEpoch |-> 4]

\* handleApiVersions: the highest version advertised for each key; the lowest
\* is zero.
MaxVersion ==
    [ApiVersions |-> 3, SaslHandshake |-> 1, SaslAuthenticate |-> 2, Produce |-> 9,
     Fetch |-> 11, ListOffsets |-> 7, Metadata |-> 9, OffsetCommit |-> 9, OffsetFetch |-> 9,
     FindCoordinator |-> 4, JoinGroup |-> 9, Heartbeat |-> 4, LeaveGroup |-> 5,
     SyncGroup |-> 5, DescribeGroups |-> 5, ListGroups |-> 4, CreateTopics |-> 6,
     DeleteTopics |-> 5, InitProducerID |-> 4, AddPartitionsToTxn |-> 4,
     AddOffsetsToTxn |-> 3, EndTxn |-> 3, TxnOffsetCommit |-> 3, DescribeConfigs |-> 4,
     DeleteGroups |-> 2, OffsetDelete |-> 0]

Advertised == UNION {{<<k, v>> : v \in 0 .. MaxVersion[k]} : k \in DOMAIN MaxVersion}

\* Clients send what Kafka defines.
ASSUME RequestAssumption ==
    \A r \in Request : r[1] \in DOMAIN KafkaFlexibleFrom /\ r[2] \in Nat

\* The one version that the proxy advertises and isFlexibleRequest has wrong is
\* not in use.
NoDescribeConfigs4 == \A r \in Request : r[1] = "DescribeConfigs" => r[2] < 4

MaxInt16 == 32767
Length == 0 .. MaxLength
ASSUME FieldAssumption ==
    /\ MaxLength \in Nat
    /\ ClientID \subseteq -1 .. MaxInt16
    /\ \A ts \in Tags : ts \in Seq(Length) /\ Len(ts) \in Length /\ Len(ts) <= MaxInt

\* Keys that the default of isFlexibleRequest stands for.
isFlexibleRequest(k, v) == k \in DOMAIN FlexibleFrom /\ v >= FlexibleFrom[k]
KafkaFlexible(k, v) == v >= KafkaFlexibleFrom[k]

RequestHeaderVersion(k, v) ==
    IF k = "ApiVersions" THEN IF v >= 3 THEN 2 ELSE 1
    ELSE IF isFlexibleRequest(k, v) THEN 2 ELSE 1

\* A plausible slip: ApiVersions is treated like the others.
NoApiVersionsException(k, v) == IF isFlexibleRequest(k, v) THEN 1 ELSE 0

ResponseHeaderVersion(k, v) ==
    IF k # "ApiVersions" /\ isFlexibleRequest(k, v) THEN 1 ELSE 0

KafkaResponseHeaderVersion(k, v) ==
    IF k # "ApiVersions" /\ KafkaFlexible(k, v) THEN 1 ELSE 0

\* The API keys (keys.go).
KeyNumber ==
    [Produce |-> 0, Fetch |-> 1, ListOffsets |-> 2, Metadata |-> 3, OffsetCommit |-> 8,
     OffsetFetch |-> 9, FindCoordinator |-> 10, JoinGroup |-> 11, Heartbeat |-> 12,
     LeaveGroup |-> 13, SyncGroup |-> 14, DescribeGroups |-> 15, ListGroups |-> 16,
     SaslHandshake |-> 17, ApiVersions |-> 18, CreateTopics |-> 19, DeleteTopics |-> 20,
     InitProducerID |-> 22, OffsetForLeaderEpoch |-> 23, AddPartitionsToTxn |-> 24,
     AddOffsetsToTxn |-> 25, EndTxn |-> 26, TxnOffsetCommit |-> 28, DescribeConfigs |-> 32,
     SaslAuthenticate |-> 36, DeleteGroups |-> 42, OffsetDelete |-> 47]

\* The proxy answers these itself, and sends those without a handler on as
\* they are.
Local == {"ApiVersions", "SaslHandshake", "SaslAuthenticate"}
Passthrough(k) == k \notin DOMAIN FlexibleFrom

-----------------------------------------------------------------------------
(* The client's encoder: the bytes after the fixed ones.                   *)

Fill(n) == [i \in 1 .. n |-> 7]
Uvarint[n \in Length] ==
    IF n < 128 THEN <<n>> ELSE <<128 + (n % 128)>> \o Uvarint[n \div 128]
NullableString(n) == IF n < 0 THEN <<255, 255>> ELSE <<n \div 256, n % 256>> \o Fill(n)

TaggedField(tag, n) == Uvarint[tag] \o Uvarint[n] \o Fill(n)
TaggedFields(ts) ==
    LET last[n \in 0 .. Len(ts)] ==
            IF n = 0 THEN << >>
            ELSE TaggedField(Len(ts) - n + 1, ts[Len(ts) - n + 1]) \o last[n - 1]
    IN  Uvarint[Len(ts)] \o last[Len(ts)]

Header(k, v, cid, ts) ==
    NullableString(cid) \o (IF KafkaFlexible(k, v) THEN TaggedFields(ts) ELSE << >>)

\* Key and version, both below 256, and the correlation id.
Fixed(k, v) == <<0, KeyNumber[k], 0, v, 0, 0, 0, 1>>

\* A request frame: the first cut bytes of header and body.
ClientRequest(k, v, cid, ts, cut) ==
    LET header == Fixed(k, v) \o Header(k, v, cid, ts)
    IN  [key |-> k, version |-> v, header |-> Len(header),
         frame |-> SubSeq(header \o Fill(2), 1, cut)]

\* The widths: an int has room for the length of a frame, and readUvarint for
\* every int; these hold of 2^63 - 1, ten and a hundred megabytes.
ASSUME WidthAssumption ==
    /\ MaxInt \in Nat /\ MaxUvarint \in Nat /\ MaxFrame \in 0 .. MaxInt
    /\ \A n \in Length : n <= MaxInt => Len(Uvarint[n]) <= MaxUvarint

HeaderInit ==
    /\ \E r \in Request, cid \in ClientID, ts \in Tags, cut \in 0 .. MaxFrame :
           /\ cut <= 10 + Len(Header(r[1], r[2], cid, ts))
           /\ req = ClientRequest(r[1], r[2], cid, ts, cut)
    /\ hdr = [err |-> "none", size |-> 0]
    /\ stage = "sent"
    /\ respHeader = 0 /\ stripped = 0 /\ found = 0

-----------------------------------------------------------------------------
(* ParseRequestHeader.                                                     *)

\* Offsets are ints.  Slicing a frame at a negative one panics, so none of those
\* leads anywhere; Refused, which no int is, stands for an error that is
\* returned.
Word == 2 * (MaxInt + 1)
Refused == -Word

\* An integer as an int of Go holds it.
int(x) == IF x % Word <= MaxInt THEN x % Word ELSE (x % Word) - Word

\* What the n bytes up to last say, seven bits each and the lowest first.
septets(buf, last, n) ==
    LET value[k \in 0 .. last] ==
            IF k = 0 THEN 0 ELSE (buf[last - k + 1] % 128) + 128 * value[k - 1]
    IN  value[n]

\* readUvarint from the byte after off: a uint64, which loses the bits that are
\* shifted out of it, and the offset behind it; or Bad.
Bad == [value |-> 0, off |-> Refused]
readUvarint(buf, off) ==
    LET ends == {i \in off + 1 .. Len(buf) : buf[i] < 128}
        last == Min(ends)
    IN  IF ends = {} \/ last - off > MaxUvarint THEN Bad
        ELSE [value |-> septets(buf, last, last - off) % Word, off |-> last]

\* Past n bytes from off, if they are there, as off+int(n) has it.
skip(buf, off, n) == IF Len(buf) < int(off + n) THEN Refused ELSE int(off + n)

\* The client_id behind off, of which -1 and 0 have no bytes.
afterClientID(buf, off) ==
    IF Len(buf) < off + 2 THEN Refused
    ELSE LET u == 256 * buf[off + 1] + buf[off + 2]
             clen == IF u <= MaxInt16 THEN u ELSE u - 2 ^ 16
         IN  IF clen > 0 THEN skip(buf, off + 2, clen) ELSE off + 2

\* A plausible slip: the tagged fields are taken to be empty.
noTaggedFields(buf, off) == readUvarint(buf, off).off

afterTaggedField(buf, off) ==
    LET tag == readUvarint(buf, off)
        length == readUvarint(buf, tag.off)
    IN  IF off < 0 THEN off
        ELSE IF tag = Bad \/ length = Bad THEN Refused
        ELSE skip(buf, length.off, length.value)

afterTaggedFields(buf, off) ==
    LET n == readUvarint(buf, off)
        after[i \in 0 .. n.value] ==
            IF i = 0 THEN n.off ELSE afterTaggedField(buf, after[i - 1])
    IN  after[n.value]

\* The end of the header: the fixed bytes and what follows them.
HeaderEnd(r) ==
    LET cid == afterClientID(r.frame, 8)
    IN  IF Len(r.frame) < 8 THEN Refused
        ELSE IF cid < 0 \/ RequestHeaderVersion(r.key, r.version) < 2 THEN cid
        ELSE afterTaggedFields(r.frame, cid)

\* With the slice of the body that serve takes: frame[hdr.HeaderSize:].
ParseRequestHeader(r) ==
    [err |-> IF HeaderEnd(r) = Refused THEN "error" ELSE IF HeaderEnd(r) < 0 THEN "panic" ELSE "none",
     size |-> IF HeaderEnd(r) < 0 THEN 0 ELSE HeaderEnd(r)]

\* serve: an error of the parser ends the connection, and a panic the process.
Parse ==
    /\ stage = "sent"
    /\ hdr' = ParseRequestHeader(req)
    /\ stage' = IF hdr'.err = "none" THEN "parsed" ELSE "closed"
    /\ UNCHANGED <<req, respHeader, stripped, found>>

-----------------------------------------------------------------------------
\* AppendResponseHeader: the correlation id, and an empty set of tags.
AppendResponseHeader(version) == IF version >= 1 THEN 5 ELSE 4

\* EncodeResponse for the client.
EncodeResponse == respHeader' = AppendResponseHeader(ResponseHeaderVersion(req.key, req.version))

LocalReply ==
    /\ stage = "parsed"
    /\ req.key \in Local
    /\ EncodeResponse
    /\ stage' = "answered"
    /\ UNCHANGED <<req, hdr, stripped, found>>

\* The broker answers the request, which the proxy's Kafka library encoded or
\* the client did.
BrokerAnswers ==
    /\ stage = "parsed"
    /\ req.key \notin Local
    /\ respHeader' = 4 + KafkaResponseHeaderVersion(req.key, req.version)
    /\ stage' = "upstream"
    /\ UNCHANGED <<req, hdr, stripped, found>>

\* RoundTrip: only the correlation id is replaced.
PassOn ==
    /\ stage = "upstream"
    /\ Passthrough(req.key)
    /\ stage' = "answered"
    /\ UNCHANGED <<req, hdr, respHeader, stripped, found>>

\* RoundTripRequest takes the header off, the handler decodes and encodes.
respOffset == 4 + ResponseHeaderVersion(req.key, req.version)

Rewrite ==
    /\ stage = "upstream"
    /\ ~Passthrough(req.key)
    /\ stripped' = respOffset
    /\ stage' = IF respOffset = respHeader THEN "decoded" ELSE "garbled"
    /\ UNCHANGED <<req, hdr, respHeader, found>>

Reply ==
    /\ stage = "decoded"
    /\ EncodeResponse
    /\ stage' = "answered"
    /\ UNCHANGED <<req, hdr, stripped, found>>

ClientReads ==
    /\ stage = "answered"
    /\ found' = 4 + KafkaResponseHeaderVersion(req.key, req.version)
    /\ stage' = "read"
    /\ UNCHANGED <<req, hdr, respHeader, stripped>>

Done == stage \in {"closed", "garbled", "read"} /\ UNCHANGED headerVars

HeaderNext ==
    \/ Parse \/ LocalReply \/ BrokerAnswers \/ PassOn \/ Rewrite \/ Reply \/ ClientReads
    \/ Done

HeaderSpec == HeaderInit /\ [][HeaderNext]_headerVars

-----------------------------------------------------------------------------
(* Properties.                                                             *)

\* ParseRequestHeader refuses exactly the frames that end inside their header,
\* wherever the cut is, and finds the first byte of the body in all others: no
\* byte of a client id or tagged field is taken for the body, or the reverse.
\* It does so as long as the end of the header is an int, also where that end
\* is beyond the longest frame; TruncatedIsRefused is about the rest.
BodyIsFound ==
    stage # "sent" /\ ~Passthrough(req.key) /\ req.header <= MaxInt =>
        IF Len(req.frame) < req.header THEN hdr.err = "error"
        ELSE hdr.err = "none" /\ hdr.size = req.header


\* Each end of a response agrees with the next on where its header ends, over
\* the answers of the proxy itself, the decoded ones and those it passes on,
\* for keys that isFlexibleRequest does not list too.
ResponseIsFound ==
    /\ stage # "garbled"
    /\ stage = "read" => found = respHeader
=============================================================================
