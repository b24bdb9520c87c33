# A TLA+ development for kroxy

kroxy is a Kafka proxy that serves several tenants from one cluster. It
terminates SASL, looks the user up in a tenant catalogue, and prefixes every
name a tenant uses on its way to the broker. This directory holds TLA+ modules
translated from that code, TLC instances of them, and TLAPS proofs.

## The system

| Part | Source | State | Operations | Interacts with |
| --- | --- | --- | --- | --- |
| client connection | `proxy/conn.go` | SASL state, mechanism, tenant snapshot, password, SCRAM round count, upstream | serve loop, ApiVersions, SaslHandshake, SaslAuthenticate (PLAIN, SCRAM), lazy dial, forward, passthrough, close | catalogue, upstream, listener |
| upstream connection | `upstream/conn.go` | socket, deadline, correlation counter | three dials, SCRAM relay, round trips | client connection, broker |
| name rewriting | `rewrite/*.go` | none | one `RequestIn` and one `ResponseOut` per API | rewrite handlers |
| rewrite handlers | `proxy/rewrite*.go` | none of their own | decode, rewrite, round trip, rewrite, answer | upstream, rewriting |
| tenant catalogue | `resolver/*.go` | map of tenants under an RWMutex | Get, Set, Delete, List | connections, admin RPC |
| admin RPC | `admin/*.go` | request ids | Set, Delete, List over HTTP | catalogue |
| SASL parsers | `auth/*.go` | none | PLAIN message, SCRAM client-first | client connection |
| listener, lifecycle | `proxy/listener.go`, `cmd/kroxy/main.go` | wait group, accept back-off, context | accept, handle, drain, signal | all |
| wire | `protocol/*.go` | none | frames, header versions | connections |
| configuration | `config/config.go` | none after start | load, default, validate | all |
| observability | `observability/*.go` | counters, gauge | observe, serve | all |

What makes it hard: a connection authenticates in several rounds while the
operator edits the catalogue and the dial to the broker can fail at each step
and be retried; a PLAIN client is told it is authenticated before any broker
has seen its password; answers of the broker can come late or twice; shutdown
meets connections that are blocked; and tenants interleave on a single cluster
in which nothing but the spelling of a name separates them.
`PROJECT.json` lists the hazards at their lines with the properties that watch
them.

## Modules

The connection:

* `Resolver` - the catalogue as a connection sees it. `Get` is an operator; `Set`
  and `Delete` are atomic actions. `issued` is a history variable.
* `Session` - connections, each with its upstream connection, against the
  catalogue. One connection is one goroutine; `pc` names the calls in which it
  can block, and a stretch between two of them is one action, the whole of the
  handler included. The steps of a dial are separate actions because each can
  fail. The broker (`Accepts`, `BrokerSasl`, `BrokerAnswers`) is external: its
  SASL server gives up at the first message it does not accept, and it answers
  a forwarded request never, once or twice.
* `Deadlines` - the same calls in discrete time: which deadline each socket is
  under, who set it, and when the call ends.
* `Metrics` - the labelled counters that the handlers keep; a counter is a
  function from the label values in use to numbers. An API key outside the
  three that the proxy answers itself is any member of `Key`, known or not, as
  the label is the number that the client sent.

The isolation of tenants:

* `Names` - `PrefixIn`, `StripOut`, `BelongsToTenant` on sequences of characters.
* `Rewrite` - every `RequestIn` / `ResponseOut` of package `rewrite`, under its
  source name, on records whose name-bearing fields are sets. `RequestIn` and
  `ResponseOut` are the dispatch by API (`rewriteHandler`).
* `Cluster` - what a Kafka cluster does with each of these requests (external).
* `DedicatedClusters` - the abstract specification: one private cluster per
  tenant ("a flat namespace that looks like its own dedicated cluster").
* `TenantViews` - a tenant's slice of a cluster with names stripped and the
  proxy as its only broker; `Regular`, the requests the promise covers.
* `SharedCluster` - the proxy's handlers in front of one cluster, with
  `TenantView` as the refinement mapping to `DedicatedClusters`. The handlers
  of `rewrite.go`, `rewrite_groups.go` and `rewrite_admin.go` have one shape: decode, `RequestIn`, round trip, `ResponseOut`, encode.

The process around the connections:

* `AtomicCatalogue` - the abstract specification of the catalogue: each call
  takes effect at one moment, or never if it got lost.
* `AdminRPC` - the methods of `memoryResolver` step by step under its RWMutex,
  called by admin clients whose requests and replies can be lost and who can
  give up, and by connections. It implements `AtomicCatalogue`.
* `Listener` - `Server.Run`, `Server.Wait`, the accept back-off, the wait group,
  the gauge, the two HTTP servers, signals and `main`.
* `Startup` - from the configuration file to the running servers.

The bytes:

* `Framing` - length-prefixed frames over a stream that arrives in portions and
  may end after any byte.
* `Headers` - the extent of request and response headers by key and version, on
  the proxy's side and on Kafka's, on bytes and with integers of a fixed width:
  `int` and `readUvarint` wrap where those of Go do, and a slice at a negative
  offset panics. `MaxInt`, `MaxUvarint` and `MaxFrame` are constants, small for
  TLC and arbitrary in the proofs.
* `SaslParsers` - the PLAIN and SCRAM client-first parsers, character by
  character, against the formats.

`MC*` modules hold the instances (`MCRequests` what `MCSharedCluster` and
`MCOverlap` have in common, `MCParts` the six components that share no state).
`Slices` and `SessionInvariant` hold definitions
that only the proofs use, `*Proofs` the proofs.

Composition. `Session` uses the atomic catalogue that `AdminRPC` is shown to
implement. `Listener` takes from `Session` only that a connection may end or not
end. `SharedCluster` takes up where `Session` has bound a connection to a tenant
and a prefix; that the binding is right and final is `PrincipalIsTenant`,
`WireNamesArePrefixed` and `SnapshotIsFinal` there.

Data are abstract: a SASL payload is, outside `SaslParsers`, what the parsers
and the broker make of it; an API key is one of four classes in `Session`
(rewritten; rewritten with the advertised address in the answer; refused by its
handler; passed through); a topic holds its last record; a member's blob is a
set of topics in the consumer format or an opaque value; a byte of a frame is
its frame and position. Go's empty string is written `"empty"`. Definitions
described as mutants or "a plausible slip" are deliberate faults; each stands in
for one definition to confirm that a property notices it.

## What TLC checks

| Run | Instance | Shows |
| --- | --- | --- |
| `session` | 1 connection, 2 tenants, 4 correlation ids, all inputs | types and the safety of a connection |
| `session_live` | 1 connection, 1 tenant, brokers with PLAIN and SCRAM-SHA-256, `upstream_sasl_mechanism` SCRAM-SHA-256, an advertised address that does not parse, `FairSpec` | the principal of bridged and relayed clients; while clients take their responses, every request ends and shutdown closes the connection |
| `shared` | 2 tenants, 2 names, 1 unowned name, 1 group, 1 transactional id | the topic, the group and the transaction APIs refine `DedicatedClusters` and stay in their slice |
| `listener` | 2 clients, both HTTP servers, 3 back-off delays, fairness | what `Run` and `Wait` guarantee when they return; a signal ends the process; queued clients are accepted |
| `admin_rpc` | 2 concurrent calls, 1 user, 8 operations, fairness | `AdminRPC` implements `AtomicCatalogue`; records are immutable; every method that was entered returns |
| `parts` | the six instances below, a behaviour being one of one of them | see below |
| `nested_prefix`, `dial_cap`, `frame_end`, `tagged_length`, `advertised`, `nonce` | one component each; fairness in the first | violations, see Findings |

Deadlines, frames, headers, SASL parsers, startup and counters share no state
with one another. `parts` has them in one instance: the variable `component`
names the one that runs, and the others stay in one initial state. No behaviour
interleaves two of them, so each is checked as it would be alone. Connections
can be exchanged for one another in `Metrics`, and nothing in `parts` is about
liveness, so `SYMMETRY` is sound.

| Component | Instance | Shows |
| --- | --- | --- |
| `Deadlines` | the three dial paths, timeouts in the order of the source | no call but a client write can block forever; no call is cut short by an old deadline; a bound on dials, larger than the one that is documented |
| `Framing` | 2 frames of sizes around 0 and the limit | frames whole and in order, or an error; a clean end loses no complete frame |
| `Headers` | every advertised version but one and a key that the proxy does not know, cut anywhere, nine-bit integers | a header that an int can measure is found or refused; both sides find the same body of a response |
| `SaslParsers` | payloads of up to 6 or 7 characters, of seven forms | PLAIN is accepted with two NULs and not otherwise; SCRAM is accepted by the part of the message in front of the nonce; the names are those that were meant, the same by both |
| `Startup` | configurations of up to 2 tenants | what validation accepts starts, with the catalogue as written |
| `Metrics` | 2 connections, 1 tenant, 1 key that Kafka has and 1 that it has not, 5 requests | each SASL step is counted under one outcome, "ok" only for authenticated clients; mechanisms and tenants among the labels are bounded, API keys only for connections without a tenant |

The properties that need several steps of several actors to break:

* `PrincipalIsTenant`: a connection that counts as authenticated and has its
  upstream is authenticated at the tenant's broker as that tenant.
* `WireNamesArePrefixed`, `ReplyMatchesRequest`: what goes out is in the slice,
  what comes back answers this request.
* `NoSocketLeak`: no failure of a dial leaves a socket behind.
* `DialsOnlyKnownTenants`: "Unknown tenant IDs are rejected before any upstream
  round-trip".
* `OnlyPlainDialsWithPassword`, `SnapshotIsFinal`: mechanism and identity cannot
  be changed under an upstream that is bound to them.
* `TenantsHaveDedicatedClusters`: a tenant cannot tell the shared cluster from
  one of its own, whatever the others do in between.
* `WritesStayInSlice`: a request changes nothing outside its tenant's slice, not
  even by offset commits that are applied when a transaction ends.
* `CallsAreAtomic`: a caller that is answered is told what happened; one that
  gives up may still have changed the catalogue, once.
* `RunReturnsDrained`, `WaitCoversGroup`: returning means that the connections
  are gone, or that the drain timeout is over.

Bounds. Connections share only the catalogue, which is always in a state that
any sequence of edits can produce, so one connection with all inputs covers what
a connection can do. Four correlation ids let the counter wrap in one
connection's life. Names include one that begins with a tenant's prefix and one
that is also a name of the cluster nobody owns, so a missing or doubled rewrite
hits something. In `shared` the clients of a behaviour draw their requests from
one of three families (`family`: topics, groups, transactions): the families
meet in topics and groups, and each has the requests of the others that change
what it reads. One request is in flight per connection, as in `serve`. Two calls
on the catalogue make every pair of methods meet, on the same user, where they
can interfere; a third one would only wait at the same lock. Two clients let one
be between `Accept` and `wg.Go` while another is served. The back-off goes 5,
10, 15: one doubling and one cut. Frames are 0, 1, 3, 5 and 6 bytes at a limit
of 5, so a size is below, at and above it. Nine-bit integers are those in which
two-byte lengths reach and exceed both `MaxFrame` and `MaxInt`. Timeouts are small numbers in the
order of the source (dial < request = handshake < idle), and clocks stop at
`Horizon`, which is past every bound the properties mention. `MaxRequests` and
`MaxFrames` bound unbounded histories. Deadlock is checked in every run; where
the code really stops, the module says so with a step that changes nothing.
Most of these bounds concern TLC alone: the safety properties are also proved,
without them.

Fairness. `Session` assumes that a goroutine which can go on does. Its reads,
its dials and its round trips have deadlines (`clientIdleTimeout`,
`clientHandshakeTimeout`, the dial timeout, the request timeout), and their
expiry is one of the steps. The write of a response to a client has none
(`proxy/conn.go:506`, `OnlyWritesBlockForever`); in `Session` it always ends, so
`RequestsComplete` and `ShutdownDrains` hold of clients that take their
responses and of no others. `Listener` assumes that goroutines run, that
a closed listener makes `Accept` fail, that timers fire and that accept errors
are transient; a connection need not end, which is what the drain timeout is
for. `AdminRPC` assumes that goroutines run and that the RWMutex starves nobody,
as Go documents. `SharedCluster` has fairness only in `nested_prefix`. Brokers,
clients, operators, signals and losses are never fair.

Assumptions. `SliceAssumption` (in `MCSharedCluster`): no tenant's prefix starts
another's, and names are not empty. The catalogue and the rewriting enforce
neither; `nested_prefix` shows what happens without the first.
`RegularAssumption`: the requests are `Regular`, that is, an EndTxn ends one
transaction, a JoinGroup's blob has the format of its protocol type (a blob of
another protocol does not happen to decode as a consumer blob), a
FindCoordinator is for a group or a transaction, and a produce has no
transactional id (see Divergences). `OwnerAssumption`: a
connection belongs to a tenant, which is what `Session` establishes.
`ConfigAssumption` is the shape of the configuration struct, `TimeoutAssumption`
that timeouts are positive, as the constants of the source are.
`RequestAssumption` of `Headers`: clients send keys and versions that Kafka
defines. `NoDescribeConfigs4` is a hypothesis of the two theorems on headers and
holds in `parts`; `advertised` is about the version it leaves out.
`FieldAssumption`: the length of a client id fits an int16, and the number of
tagged fields an int; their lengths need not. `WidthAssumption`: a frame's length
is an int, and `readUvarint` takes as many bytes as an int needs, which is so
for 64 bits, ten bytes and 100 MB. `FormAssumption`: a payload consists of
characters, and a user name has no NUL, which PLAIN could not carry. In
`Metrics`, `ConnAssumption`: connections are finitely many; `TenantAssumption`:
no tenant has the empty id, which `validateTenant` refuses; `KeyAssumption`:
`Key` holds the keys that the proxy does not answer itself. A broker closes, or
stays failed, after a SASL error. In
`Headers` clients and brokers send whole headers as Kafka defines them, cut off
only by the end of a frame.

## What is proved

For every value of the constants, with the assumptions named in the modules.

**Connections** (`SessionProofs`): `TypeOK`,
`PrincipalIsTenant`, `WireNamesArePrefixed`, `NoSocketLeak`,
`ReplyMatchesRequest`, `DialsOnlyKnownTenants`, `OnlyPlainDialsWithPassword` and
the action property `SnapshotIsFinal`, for any number of connections, tenants,
names, passwords, accounts and correlation ids (at least two). The inductive
invariant `IInv` (`SessionInvariant`) is a conjunction over connections.
`Control` ties `pc` to the SASL state, the mechanism and the request; `Socket`
ties sockets, `upstream` and the phase of the broker's end; `Principal` says how
far the SASL exchange has come for which user; `Frames` says that a frame with
the current correlation id is the answer to the current request; `Answer` is
about the response. None of the properties is inductive alone: that two answered
rounds mean an authenticated principal needs the round count to equal the
progress of the broker, and that a repeated frame is harmless needs every frame
left over from an earlier request to carry that request's id, ahead of the
answer to the current one, so that reading it closes the connection. Because an
action touches one connection, `OneConnection` reduces a step to the invariant
of that connection.

**Isolation** (`StateProofs`, `AnswerProofs`, `IsolationProofs`):

* `WritesAreIsolated`: `SharedCluster` satisfies `WritesStayInSlice` for any
  tenants, connections, prefixes and requests with `SlicesAreApart`. A forwarded
  request is `Aimed` at its slice in every field by which it changes something,
  and the pending offset commits of a transaction stay inside the slice of its
  id (`CommitsInside`), which is what makes the statement inductive: an EndTxn
  names no group, and still changes some.
* `SharedImplementsDedicated`: `SharedCluster` implements `DedicatedClusters`
  under the assumptions above. `Slices` restates a tenant's view by what the
  tenant can name (`See`) instead of by what it finds; `SliceOK` says that the
  slice is in order (groups hold offsets of the tenant's topics only,
  transactions name only what is the tenant's, a consumer blob is in a consumer
  group). `StateProofs` shows API by API that the prefixed request does to the
  slice what the client's request does to the view, `AnswerProofs` that the
  stripped response is the one the view gives. Together they are
  `SameStep`, the step of the tenant that sent the request. `OtherTenant` uses
  disjoint slices for all the others, and `RefinementInv` carries `SliceOK` and
  the relation between a request and what was sent for it.

* Names: stripping undoes prefixing, a prefixed name belongs to its tenant, and
  slices of incomparable prefixes are disjoint. `SessionProofs` has those of
  them that it uses as lemmas of its own.

**Catalogue** (`CatalogueProofs`): `AdminRPC` implements `AtomicCatalogue`
(`CallsRefine`), its types, and `RecordsAreImmutable`, for any number of
concurrent calls. `LockInv` says who holds the lock by where the goroutines are;
`CallOK` what a call has done by then, so that the step that writes or reads
under the lock is the moment at which the abstract call takes effect; `ListInv`
that what a List has gathered is still in the catalogue until it lets go.

**Startup** (`CatalogueProofs`), for any set of files: `AcceptedConfigStarts` and
`CatalogueIsAsWritten`. `StartupInv` says that the configuration changes once,
from the file to the file with its defaults, that it is validated in that form
and in no other, and what the resolver has made of it (`Filed`: one entry per
line, none besides). The two properties speak of a moment at which the file is
long read, so without the first clauses nothing ties the catalogue to it.

**Listener** (`ProcessProofs`), for any finite set of clients: types,
`RunReturnsDrained`, `OnlyShutdownEndsRun` and `WaitCoversGroup`. `CountInv`
equates the wait group and the gauge with the cardinality of the sets of
goroutines they count; `ShutdownInv` traces every ending without an error to the
context; `WaitInv` follows what `Wait` was started with.

**Deadlines** (`SessionProofs`), for any positive timeouts and any number of
SCRAM rounds: types, `OnlyWritesBlockForever`, `NoStaleDeadline`,
`DialIsBounded`. `Progress` ties the call to the path and to the round count;
`Used` says that the time a call has left and the time it has spent add up to
its own timeout, which is what a deadline left over from an earlier call would
break; `Spent` adds up a dial over its steps. The bound on a dial follows from
what is left at each step and not from the bound itself, hence `Spent`.

**Metrics** (`ProcessProofs`), for any finite set of connections and any
tenants, mechanisms and numbers of requests: `OkCountsAuthentications`,
`EveryStepHasOneOutcome`, `LabelsAreBounded`. They equate sums over the series
of a counter with numbers of connections, so the proof first shows what a sum
is: the recursion behind it has a solution (`SumExists`), the sum does not depend
on the order in which it is taken (`WeightFacts`), and `Inc` adds one to the total of any set of
labels with its label (`TotalAdd`). The invariant `Inv` adds to the three
properties what a connection's fields say of where its handler is (`ConnOK`):
without it an "ok" could be counted for a connection that is already
authenticated, and the second sum would not see that a handshake is accepted once
in a connection's life. `Named` bounds the tenants that any series or connection
names by the lookups that found one. `KeyInv` is for the API keys: a request
with a key that the proxy does not answer itself, on a connection without a
tenant, is refused with an error, so its series is that of the last request of a
closed connection, and there are no more of them than closed connections.

**Frames** (`FramingProofs`), for any limit, any sizes and any way the stream
arrives: types, `FramesIntact`, `CleanEndLosesNothing` (every complete frame was
returned before the end that `serve` takes for a clean one). `WriterInv`, `StreamInv`
and `ReaderInv` say that the bytes in transit begin where the reader is and end
where the writer is; `Consecutive` that they follow one another. A `Read` takes
any number of bytes at once, so it is stated for bytes at any distance: the
statement for neighbours would need an induction over the distance.

**Headers** (`FramingProofs`), for any keys and versions with
`RequestAssumption` and `NoDescribeConfigs4`:

* `ResponseIsFound`: the proxy takes the body of a response from where the broker
  put it, and a client that of a local reply. `HeaderInv` remembers that a key
  without a handler is never decoded, and how long the broker's header is;
  `TablesAgree` compares the proxy's table of flexible versions with Kafka's, key
  by key.
* `BodyIsFound`, for all client ids and tagged fields with `FieldAssumption`,
  every width with `WidthAssumption`, and wherever a frame is cut:
  `ParseRequestHeader` refuses what ends inside the header and finds the body of
  the rest, if the end of the header is an int (it need not be inside a frame).
  The argument follows the bytes. A number is spelled in bytes of which only the
  last is below 128 (`UvarintBytes`), no more of them than `readUvarint` takes
  for an int (`WidthAssumption`), so `readUvarint` stops at that byte and
  returns the number (`UvarintRead`), or finds no such byte in front of the cut
  (`UvarintCut`); a field is skipped whole or not at all (`FieldRead`); the same
  holds of any number of fields (`FieldsRead`), of the client id (`ClientIDRead`)
  and of the header (`HeaderIsRead`). `Lies` says that some bytes are at an
  offset of the frame, `Cut` that a buffer is the beginning of a frame.

**SASL** (`SaslProofs`), for texts of every length:

* `PlainFollowsGrammar`: `ParsePlain` accepts exactly the texts with two NULs,
  and the user it returns lies between the first two, whatever the password
  contains. Each cut is at the least of a set of positions (`FirstOf`); two cuts
  leave three parts that make up the text (`SplitAt`).
* `ScramReadsTheName`: `ParseSCRAMClientFirstUsername` accepts exactly the
  messages that follow the grammar up to the comma in front of the nonce, and
  returns the name whose escaped form the message contains. `nonce` is about
  what follows the comma.
* `SameUserOnBothMechanisms`, and as a theorem of its own `NameSurvives`: a name
  that is escaped for SCRAM, or put between NULs for PLAIN, is read back as it
  was, so the mechanism does not decide which tenant a user is.

What a recursive function computes is proved by induction over sets of numbers:
the set of lengths for which a lemma holds contains every length whose
predecessors it contains, so by the well-founded order of the naturals
(`NatSetInduction`) it contains all. A recursive definition is in TLA+ a choice
of some function that solves the recursion, so each first needs a lemma that
there is one.

Only model-checked: liveness (`RequestsComplete`, `ShutdownDrains`,
`SignalEndsProcess`, `QueuedAreTaken`, `HandlersReturn`), since the prover has
neither fairness nor `ENABLED`. Every safety invariant and every action property
of the passing runs has a theorem.

## Findings

Each is a run in which TLC finds a statement of the repository violated by what
the code does.

* `nested_prefix`: the catalogue accepts a prefix that starts another one
  (`resolver/memory.go:89`), and one tenant then sees the topics of the other.
  The README of the repository promises a namespace that looks like a dedicated
  cluster.
* `dial_cap`: `dialTimeout` "caps the time spent establishing the TCP connection
  and completing the SASL handshake" (`upstream/conn.go:20`). The connect and the
  negotiation have one each, and the messages of the SCRAM bridge a request
  timeout each. `DialIsBounded` is the bound that holds.
* `frame_end`: `ReadFrame` "returns io.EOF only when the underlying reader is at
  a clean message boundary" (`protocol/framing.go:17`). It also does right behind
  a length prefix, and `serve` takes the lost request for a client that closed.
  `CleanEndLosesNothing` is what holds: no complete frame is lost.
* `tagged_length`: a frame that ends inside a tagged field is to be refused as
  "truncated tagged field" (`protocol/header.go:108`). A length beyond `MaxInt`
  is negative after `int(length)`, and the check passes. Depending on the
  length, the offset moves backward in the frame or becomes negative, and slicing
  there panics. `BodyIsFound` covers the headers whose end is an int.
  That a panic of one connection ends the process is not carried into `Session`
  and `Listener`.
* `advertised`: DescribeConfigs 4 is advertised (`proxy/conn.go:273`), and
  `isFlexibleRequest` takes no version of it for flexible (`protocol/keys.go:86`),
  so the body is looked for one byte early.
* `nonce`: "The grammar we accept" (`auth/sasl_scram.go:27`) has a nonce behind the
  name; the parser stops at the comma in front of it.

## Divergences

Where the code does other than its comments or the README say, and a property
states what the code does:

* API keys without a rewrite handler are passed through with their names as they
  are; `WireNamesArePrefixed` is about the rewritten ones.
* `ProduceRequestIn` leaves the transactional id of a produce as it is, while the
  other transaction APIs prefix it, so a transactional produce does not find the
  transaction that `InitProducerID` began; and `FetchRequestIn` leaves the
  forgotten topics. `Regular` excludes the one, and `Cluster` keeps no fetch
  sessions, in which the other would matter.
* The empty name is not prefixed and is one name for all; `SlicesAreApart`
  excludes it.
* `Wait` may begin while `Run` holds a connection that is not in the wait group
  yet; `WaitCoversGroup` covers what is in the group.
* A frame at the limit grows when names are prefixed and is forwarded; the limit
  that `Framing` states is that of reading.
* A failed round trip is not counted as an upstream error, and no property of
  `Metrics` says that it is.
* The `api_key` label is the number that the client sent. `LabelsAreBounded`
  bounds it for connections without a tenant only, and by the connections that
  were closed for it.

## Not modelled

* Message bodies beyond their names, and their encodings: the Kafka library's.
  Encodings of the blobs that package `rewrite` decodes itself are abstracted to
  the set of topics in them.
* TLS, HTTP, JSON and YAML as text. Their outcomes are steps: a key pair that
  does not load, a request or reply that is lost, a field that is empty.
* Durations, log lines and debug formatting: nothing depends on them.
* The broker's cryptographic checks: `Accepts` is whether the account has the
  password.
* Time outside `Deadlines`: in the other modules a timer may fire at any moment
  after its start, so `ShutdownDrains` says that a connection ends, not that it
  ends within `drainTimeout`.
