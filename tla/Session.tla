------------------------------ MODULE Session ------------------------------
(***************************************************************************)
(* One client connection of the proxy and the upstream connection it owns  *)
(* (proxy/conn.go, upstream/conn.go), several of them running against the  *)
(* shared tenant catalogue while an operator edits it.                     *)
(*                                                                         *)
(* A connection is one goroutine.  pc names the place where it can block:  *)
(*   top      the head of serve's loop         read   in ReadFrame(client) *)
(*   dialRelay, dialPlain, dialBridge   in DialForSCRAM, Dial, DialSCRAM   *)
(*   relay    in RelaySASLAuthenticate         forward about to send       *)
(*   await    in RoundTrip / RoundTripRequest  closed serve has returned   *)
(* Between two such places the goroutine touches only its own state and,   *)
(* in one critical section, the catalogue: that stretch is one action.     *)
(*                                                                         *)
(* A response that cannot be written because the client is gone ends the   *)
(* connection just as the next read would; the model takes the read.       *)
(***************************************************************************)
EXTENDS Resolver, Integers

CONSTANTS
    Conn,                   \* client connections
    ClientCid,              \* correlation ids clients choose
    Password,               \* passwords; "empty" may be one
    Name,                   \* tenant-space names; << >> may be one
    Accounts,               \* broker: the <<addr, user, password>> it accepts
    BrokerMechanisms,       \* broker: the <<addr, mechanism>> it enables
    UpstreamSASLMechanism,  \* config upstream_sasl_mechanism; "empty" when unset
    AdvertisedParses,       \* config advertised is host:port with a valid port
    CidSpace                \* number of correlation ids; 2^32 for an int32

ASSUME CidSpaceAssumption == CidSpace \in Nat /\ CidSpace >= 2
ASSUME NameAssumption == Name \subseteq Seq(Char)

VARIABLES
    ctxDone,                \* the server's context has been cancelled
    pc,
    state,                  \* conn.state
    clientMechanism,        \* conn.clientMechanism
    tenant,                 \* conn.tenant
    password,               \* conn.password
    upstream,               \* conn.upstream # nil
    scramRoundsCompleted,   \* conn.scramRoundsCompleted
    req,                    \* the request being handled
    resp,                   \* the response written for it
    sockets,                \* open TCP connections to a broker made by conn
    peer,                   \* broker end of the latest of them
    corrIDGen,              \* upstream.Conn.corrIDGen
    wire,                   \* the forwarded request the broker still has
    inbuf                   \* frames from the broker, not read yet

connVars == <<ctxDone, pc, state, clientMechanism, tenant, password, upstream,
              scramRoundsCompleted, req, resp, sockets, peer, corrIDGen, wire,
              inbuf>>
vars == <<catalogueVars, connVars>>

\* What the SASL part of a connection is made of.
saslVars == <<state, clientMechanism, tenant, password, scramRoundsCompleted>>
\* What the upstream part is made of.
upVars == <<upstream, sockets, peer, corrIDGen, wire, inbuf>>

-----------------------------------------------------------------------------
ScramMechanisms == {"SCRAM-SHA-256", "SCRAM-SHA-512"}
Mechanisms == {"PLAIN"} \cup ScramMechanisms

IsSCRAMMechanism(m) == m \in ScramMechanisms

errSaslAuthFailed == 58
errUnsupportedSaslMech == 33
errIllegalSaslState == 34

\* The SASLAuthBytes of a client, by what the two parsers and the broker make
\* of them.
Payload ==
    [kind : {"plain"}, user : UserID, pw : Password]
        \cup [kind : {"first"}, user : UserID, pw : {"empty"}]
        \cup [kind : {"final"}, user : {"empty"}, pw : Password]
        \cup [kind : {"malformed"}, user : {"empty"}, pw : {"empty"}]

\* The classes of API keys that dispatch and the rewrite handlers tell apart:
\* rewritten; rewritten with an answer that carries the advertised address;
\* refused by its handler, as Produce with acks=0 or a body that does not
\* decode; no rewrite handler.
DataClass == {"named", "advertised", "refused", "raw"}

ApiVersionsRequest == [api : {"ApiVersions"}, cid : ClientCid]
SaslHandshakeRequest ==
    [api : {"SaslHandshake"}, cid : ClientCid, mech : Mechanisms \cup {"GSSAPI"}]
SaslAuthenticateRequest ==
    [api : {"SaslAuthenticate"}, cid : ClientCid, payload : Payload]
DataRequest ==
    [api : {"Data"}, cid : ClientCid, class : DataClass, name : Name]
Request == ApiVersionsRequest \cup SaslHandshakeRequest
               \cup SaslAuthenticateRequest \cup DataRequest

Cid == 0 .. CidSpace - 1

NoRequest == [api |-> "none"]
NoResponse == [code |-> -1, cid |-> 0, name |-> << >>]
NoFrame == [cid |-> -1, name |-> << >>]
NoPeer == [phase |-> "none", addr |-> "empty", mech |-> "empty", user |-> "empty"]

-----------------------------------------------------------------------------
(* Mutants: each is a plausible bug of the definition it stands in for.    *)

CidNeverWraps(c) == corrIDGen[c] + 1
CtxIgnored == FALSE
HandshakeAnyTime(c) == FALSE
ReauthenticateAnyTime(c) == state[c] = "AwaitHandshake"
ErrorOfGetIgnored(m, kind) == m.kind = kind
OneRoundIsEnough == 1
NameNotPrefixed(c) == req[c].name
AnyFrameMatches(c) == TRUE
NoRequestDeadline(c) == FALSE
SocketLeftOpen(c) == sockets[c]

-----------------------------------------------------------------------------
\* atomic.Int32.Add(1), which wraps.
nextCorrelationID(c) ==
    IF corrIDGen[c] = CidSpace - 1 THEN 0 ELSE corrIDGen[c] + 1

-----------------------------------------------------------------------------
(* The broker's SASL server: the exchange fails for good at the first      *)
(* message it does not accept, and a SCRAM exchange authenticates the user *)
(* of its first message.                                                   *)

Accepts(p, m) ==
    \/ /\ p.phase = "negotiated" /\ p.mech = "PLAIN" /\ m.kind = "plain"
       /\ <<p.addr, m.user, m.pw>> \in Accounts
    \/ /\ p.phase = "negotiated" /\ p.mech \in ScramMechanisms /\ m.kind = "first"
       /\ \E pw \in Password : <<p.addr, m.user, pw>> \in Accounts
    \/ /\ p.phase = "challenged" /\ m.kind = "final"
       /\ <<p.addr, p.user, m.pw>> \in Accounts

BrokerSasl(p, m) ==
    IF ~Accepts(p, m) THEN [p EXCEPT !.phase = "failed"]
    ELSE IF m.kind = "first" THEN [p EXCEPT !.phase = "challenged", !.user = m.user]
    ELSE IF m.kind = "plain" THEN [p EXCEPT !.phase = "authenticated", !.user = m.user]
    ELSE [p EXCEPT !.phase = "authenticated"]

-----------------------------------------------------------------------------
Init ==
    /\ CatalogueInit
    /\ ctxDone = FALSE
    /\ pc = [c \in Conn |-> "top"]
    /\ state = [c \in Conn |-> "AwaitHandshake"]
    /\ clientMechanism = [c \in Conn |-> "empty"]
    /\ tenant = [c \in Conn |-> ZeroTenant]
    /\ password = [c \in Conn |-> "empty"]
    /\ upstream = [c \in Conn |-> FALSE]
    /\ scramRoundsCompleted = [c \in Conn |-> 0]
    /\ req = [c \in Conn |-> NoRequest]
    /\ resp = [c \in Conn |-> NoResponse]
    /\ sockets = [c \in Conn |-> 0]
    /\ peer = [c \in Conn |-> NoPeer]
    /\ corrIDGen = [c \in Conn |-> 0]
    /\ wire = [c \in Conn |-> NoFrame]
    /\ inbuf = [c \in Conn |-> << >>]

\* A response with an error code, or with the name the answer is about.
Respond(c, r, code, name) ==
    /\ resp' = [resp EXCEPT ![c] = [code |-> code, cid |-> r.cid, name |-> name]]
    /\ pc' = [pc EXCEPT ![c] = "top"]

\* serve returns and handle closes the connection with its upstream, if any.
close(c) ==
    /\ pc' = [pc EXCEPT ![c] = "closed"]
    /\ sockets' = [sockets EXCEPT ![c] = IF upstream[c] THEN @ - 1 ELSE @]
    /\ peer' = [peer EXCEPT ![c] = NoPeer]
    /\ wire' = [wire EXCEPT ![c] = NoFrame]
    /\ inbuf' = [inbuf EXCEPT ![c] = << >>]
    /\ req' = [req EXCEPT ![c] = NoRequest]
    /\ resp' = [resp EXCEPT ![c] = NoResponse]
    /\ UNCHANGED <<catalogueVars, ctxDone, saslVars, upstream, corrIDGen>>

-----------------------------------------------------------------------------
(* serve: the loop around one request.                                     *)

\* c.ctx.Err() # nil
ctxErr == ctxDone

ServeNext(c) ==
    /\ pc[c] = "top"
    /\ ~ctxErr
    /\ pc' = [pc EXCEPT ![c] = "read"]
    /\ req' = [req EXCEPT ![c] = NoRequest]
    /\ resp' = [resp EXCEPT ![c] = NoResponse]
    /\ UNCHANGED <<catalogueVars, ctxDone, saslVars, upVars>>

ServeCtxDone(c) == pc[c] = "top" /\ ctxErr /\ close(c)

\* The read deadline, the end of the client's stream, or a frame, header or
\* SASL body that does not decode.
ReadFails(c) == pc[c] = "read" /\ close(c)

\* A request r is read and dispatched to its handler.
Read(c, r) ==
    /\ pc[c] = "read"
    /\ req' = [req EXCEPT ![c] = r]
    /\ UNCHANGED <<catalogueVars, ctxDone>>

handleApiVersions(c, r) ==
    /\ Read(c, r)
    /\ Respond(c, r, 0, << >>)
    /\ UNCHANGED <<saslVars, upVars>>

IllegalHandshake(c) == state[c] # "AwaitHandshake"

handleSaslHandshake(c, r) ==
    /\ Read(c, r)
    /\ UNCHANGED <<tenant, password, scramRoundsCompleted, upVars>>
    /\ \/ /\ IllegalHandshake(c)
          /\ Respond(c, r, errIllegalSaslState, << >>)
          /\ UNCHANGED <<state, clientMechanism>>
       \/ /\ ~IllegalHandshake(c)
          /\ r.mech \notin Mechanisms
          /\ Respond(c, r, errUnsupportedSaslMech, << >>)
          /\ UNCHANGED <<state, clientMechanism>>
       \/ /\ ~IllegalHandshake(c)
          /\ r.mech \in Mechanisms
          /\ Respond(c, r, 0, << >>)
          /\ state' = [state EXCEPT ![c] = "AwaitAuth"]
          /\ clientMechanism' = [clientMechanism EXCEPT ![c] = r.mech]

\* Whether the payload parses and names a tenant the catalogue has now.
Resolves(m, kind) == m.kind = kind /\ Get(m.user) # ZeroTenant

IllegalPlain(c) == state[c] # "AwaitAuth"

\* PLAIN: the proxy answers from the catalogue alone and keeps the password
\* for the dial that the first data request causes.
handleSaslAuthenticatePlain(c, r) ==
    /\ ~IsSCRAMMechanism(clientMechanism[c])
    /\ Read(c, r)
    /\ UNCHANGED <<clientMechanism, scramRoundsCompleted, upVars>>
    /\ \/ /\ IllegalPlain(c)
          /\ Respond(c, r, errIllegalSaslState, << >>)
          /\ UNCHANGED <<state, tenant, password>>
       \/ /\ ~IllegalPlain(c)
          /\ ~Resolves(r.payload, "plain")
          /\ Respond(c, r, errSaslAuthFailed, << >>)
          /\ UNCHANGED <<state, tenant, password>>
       \/ /\ ~IllegalPlain(c)
          /\ Resolves(r.payload, "plain")
          /\ Respond(c, r, 0, << >>)
          /\ tenant' = [tenant EXCEPT ![c] = Get(r.payload.user)]
          /\ password' = [password EXCEPT ![c] = r.payload.pw]
          /\ state' = [state EXCEPT ![c] = "Authenticated"]

\* SCRAM: the first message selects the tenant and dials its cluster; every
\* later one goes to that cluster as it is.
handleSaslAuthenticateSCRAM(c, r) ==
    /\ IsSCRAMMechanism(clientMechanism[c])
    /\ Read(c, r)
    /\ UNCHANGED <<state, clientMechanism, password, scramRoundsCompleted, upVars>>
    /\ \/ /\ state[c] \notin {"AwaitAuth", "RelaySaslInFlight"}
          /\ Respond(c, r, errIllegalSaslState, << >>)
          /\ UNCHANGED tenant
       \/ /\ state[c] = "AwaitAuth"
          /\ ~Resolves(r.payload, "first")
          /\ Respond(c, r, errSaslAuthFailed, << >>)
          /\ UNCHANGED tenant
       \/ /\ state[c] = "AwaitAuth"
          /\ Resolves(r.payload, "first")
          /\ tenant' = [tenant EXCEPT ![c] = Get(r.payload.user)]
          /\ pc' = [pc EXCEPT ![c] = "dialRelay"]
          /\ UNCHANGED resp
       \/ /\ state[c] = "RelaySaslInFlight"
          /\ pc' = [pc EXCEPT ![c] = "relay"]
          /\ UNCHANGED <<tenant, resp>>

shouldTranslatePlainToSCRAM(c) ==
    clientMechanism[c] = "PLAIN" /\ IsSCRAMMechanism(UpstreamSASLMechanism)

\* dispatch's default case up to the dial that ensureUpstream may need.
ensureUpstream(c, r) ==
    /\ state[c] = "Authenticated"
    /\ Read(c, r)
    /\ pc' = [pc EXCEPT ![c] =
                 IF upstream[c] THEN "forward"
                 ELSE IF shouldTranslatePlainToSCRAM(c) THEN "dialBridge"
                 ELSE "dialPlain"]
    /\ UNCHANGED <<saslVars, upVars, resp>>

\* dispatch's default case: a data request before authentication.
requestBeforeAuth(c, r) ==
    /\ pc[c] = "read"
    /\ state[c] # "Authenticated"
    /\ close(c)

-----------------------------------------------------------------------------
(* upstream: dialling.  Each exchange on the new socket is private to this *)
(* goroutine, so a request and its answer are one step.                    *)

Dialing(c) == pc[c] \in {"dialRelay", "dialPlain", "dialBridge"}

DialMechanism(c) ==
    CASE pc[c] = "dialRelay" -> clientMechanism[c]
      [] pc[c] = "dialPlain" -> "PLAIN"
      [] pc[c] = "dialBridge" -> UpstreamSASLMechanism

\* The message the proxy sends when it is itself the SASL client.
DialMessage(c) ==
    IF pc[c] = "dialPlain"
    THEN [kind |-> "plain", user |-> tenant[c].ID, pw |-> password[c]]
    ELSE IF peer[c].phase = "negotiated"
    THEN [kind |-> "first", user |-> tenant[c].ID, pw |-> "empty"]
    ELSE [kind |-> "final", user |-> "empty", pw |-> password[c]]

\* dialAndNegotiate: the TCP connection.
DialConnect(c) ==
    /\ Dialing(c)
    /\ peer[c].phase = "none"
    /\ sockets' = [sockets EXCEPT ![c] = @ + 1]
    /\ peer' = [peer EXCEPT ![c] = [NoPeer EXCEPT !.phase = "connected",
                                                  !.addr = tenant[c].Upstream]]
    /\ corrIDGen' = [corrIDGen EXCEPT ![c] = 0]
    /\ UNCHANGED <<catalogueVars, ctxDone, pc, saslVars, req, resp, upstream,
                   wire, inbuf>>

\* dialAndNegotiate: ApiVersions.
DialApiVersions(c) ==
    /\ Dialing(c)
    /\ peer[c].phase = "connected"
    /\ peer' = [peer EXCEPT ![c].phase = "versioned"]
    /\ corrIDGen' = [corrIDGen EXCEPT ![c] = nextCorrelationID(c)]
    /\ UNCHANGED <<catalogueVars, ctxDone, pc, saslVars, req, resp, upstream,
                   sockets, wire, inbuf>>

\* dialAndNegotiate: SaslHandshake.  DialForSCRAM ends here and the relay of
\* the client's first message follows.
DialSaslHandshake(c) ==
    /\ Dialing(c)
    /\ peer[c].phase = "versioned"
    /\ <<peer[c].addr, DialMechanism(c)>> \in BrokerMechanisms
    /\ peer' = [peer EXCEPT ![c].phase = "negotiated", ![c].mech = DialMechanism(c)]
    /\ corrIDGen' = [corrIDGen EXCEPT ![c] = nextCorrelationID(c)]
    /\ IF pc[c] = "dialRelay"
       THEN /\ upstream' = [upstream EXCEPT ![c] = TRUE]
            /\ state' = [state EXCEPT ![c] = "RelaySaslInFlight"]
            /\ pc' = [pc EXCEPT ![c] = "relay"]
       ELSE UNCHANGED <<upstream, state, pc>>
    /\ UNCHANGED <<catalogueVars, ctxDone, clientMechanism, tenant, password,
                   scramRoundsCompleted, req, resp, sockets, wire, inbuf>>

\* plainAuthenticate, or one round of scramAuthenticate.
DialAuthenticate(c) ==
    /\ pc[c] \in {"dialPlain", "dialBridge"}
    /\ peer[c].phase \in {"negotiated", "challenged"}
    /\ Accepts(peer[c], DialMessage(c))
    /\ peer' = [peer EXCEPT ![c] = BrokerSasl(peer[c], DialMessage(c))]
    /\ corrIDGen' = [corrIDGen EXCEPT ![c] = nextCorrelationID(c)]
    /\ IF peer'[c].phase = "authenticated"
       THEN /\ upstream' = [upstream EXCEPT ![c] = TRUE]
            /\ pc' = [pc EXCEPT ![c] = "forward"]
       ELSE UNCHANGED <<upstream, pc>>
    /\ UNCHANGED <<catalogueVars, ctxDone, saslVars, req, resp, sockets, wire, inbuf>>

\* The dial fails: TCP, a deadline, a refused mechanism or credential.  The
\* new socket, if there is one, is closed.
SocketsAfterAbort(c) ==
    IF peer[c].phase = "none" THEN sockets[c] ELSE sockets[c] - 1

DialAborts(c) ==
    /\ sockets' = [sockets EXCEPT ![c] = SocketsAfterAbort(c)]
    /\ peer' = [peer EXCEPT ![c] = NoPeer]

\* ... in the SCRAM relay: the client is told and may try again.
DialForSCRAMFails(c) ==
    /\ pc[c] = "dialRelay"
    /\ DialAborts(c)
    /\ Respond(c, req[c], errSaslAuthFailed, << >>)
    /\ UNCHANGED <<catalogueVars, ctxDone, saslVars, req, upstream, corrIDGen,
                   wire, inbuf>>

\* ... in ensureUpstream: the connection ends.
ensureUpstreamFails(c) ==
    /\ pc[c] \in {"dialPlain", "dialBridge"}
    /\ DialAborts(c)
    /\ pc' = [pc EXCEPT ![c] = "closed"]
    /\ req' = [req EXCEPT ![c] = NoRequest]
    /\ UNCHANGED <<catalogueVars, ctxDone, saslVars, resp, upstream, corrIDGen,
                   wire, inbuf>>

-----------------------------------------------------------------------------
(* Relaying SCRAM and forwarding requests.                                 *)

\* The number of answered SaslAuthenticate rounds after which the client is
\* taken to be authenticated.
ScramRounds == 2

\* handleSaslAuthenticateSCRAM from RelaySASLAuthenticate on.  An error code
\* from the broker goes to the client and changes nothing here.
RelaySASLAuthenticate(c) ==
    /\ pc[c] = "relay"
    /\ peer[c].phase # "failed"
    /\ peer' = [peer EXCEPT ![c] = BrokerSasl(peer[c], req[c].payload)]
    /\ corrIDGen' = [corrIDGen EXCEPT ![c] = nextCorrelationID(c)]
    /\ \/ /\ peer'[c].phase = "failed"
          /\ Respond(c, req[c], errSaslAuthFailed, << >>)
          /\ UNCHANGED <<state, scramRoundsCompleted>>
       \/ /\ peer'[c].phase # "failed"
          /\ Respond(c, req[c], 0, << >>)
          /\ scramRoundsCompleted' = [scramRoundsCompleted EXCEPT ![c] = @ + 1]
          /\ state' = [state EXCEPT ![c] =
                          IF scramRoundsCompleted'[c] >= ScramRounds
                          THEN "Authenticated" ELSE @]
    /\ UNCHANGED <<catalogueVars, ctxDone, clientMechanism, tenant, password, req,
                   upstream, sockets, wire, inbuf>>

\* A transport error: deadline, or a broker that closed after a failure.
RelayFails(c) == pc[c] = "relay" /\ close(c)

\* The name as it goes upstream and as it comes back.
NameIn(c) == IF req[c].class = "raw" THEN req[c].name
             ELSE PrefixIn(tenant[c].TopicPrefix, req[c].name)
NameOut(c, name) == IF req[c].class = "raw" THEN name
                    ELSE StripOut(tenant[c].TopicPrefix, name)

\* The rewrite handler up to the write of RoundTrip / RoundTripRequest.
Forward(c) ==
    /\ pc[c] = "forward"
    /\ req[c].class # "refused"
    /\ corrIDGen' = [corrIDGen EXCEPT ![c] = nextCorrelationID(c)]
    /\ wire' = [wire EXCEPT ![c] = [cid |-> nextCorrelationID(c), name |-> NameIn(c)]]
    /\ pc' = [pc EXCEPT ![c] = "await"]
    /\ UNCHANGED <<catalogueVars, ctxDone, saslVars, req, resp, upstream, sockets,
                   peer, inbuf>>

\* The handler returns an error before it sends anything: the body does not
\* decode, or it is a Produce with acks=0, which nothing would ever answer.
HandlerRefuses(c) == pc[c] = "forward" /\ req[c].class = "refused" /\ close(c)

\* The broker answers; it may repeat an answer.
BrokerAnswers(c, copies) ==
    /\ wire[c] # NoFrame
    /\ inbuf' = [inbuf EXCEPT ![c] = IF copies = 1 THEN Append(@, wire[c])
                                     ELSE Append(Append(@, wire[c]), wire[c])]
    /\ wire' = [wire EXCEPT ![c] = NoFrame]
    /\ UNCHANGED <<catalogueVars, ctxDone, pc, saslVars, req, resp, upstream,
                   sockets, peer, corrIDGen>>

\* Whether the rewrite handler can build the response.
Answerable(c) == req[c].class = "advertised" => AdvertisedParses

\* gotCID = upstreamCID
FrameMatches(c) == Head(inbuf[c]).cid = corrIDGen[c]

\* The matching frame, its name mapped back and the client's correlation id
\* put back on it.
RoundTrip(c) ==
    /\ pc[c] = "await"
    /\ inbuf[c] # << >>
    /\ FrameMatches(c)
    /\ Answerable(c)
    /\ Respond(c, req[c], 0, NameOut(c, Head(inbuf[c]).name))
    /\ inbuf' = [inbuf EXCEPT ![c] = Tail(@)]
    /\ UNCHANGED <<catalogueVars, ctxDone, saslVars, req, upstream, sockets, peer,
                   corrIDGen, wire>>

\* A frame with another correlation id, or one no response can be built from.
RoundTripRejects(c) ==
    /\ pc[c] = "await"
    /\ inbuf[c] # << >>
    /\ FrameMatches(c) => ~Answerable(c)
    /\ close(c)

\* The request deadline, or the end of the broker's stream.
RoundTripFails(c) == pc[c] = "await" /\ close(c)

-----------------------------------------------------------------------------
Shutdown == ~ctxDone /\ ctxDone' = TRUE
            /\ UNCHANGED <<catalogueVars, pc, saslVars, req, resp, upVars>>

AdminSet(t) == Set(t) /\ UNCHANGED connVars
AdminDelete(id) == Delete(id) /\ UNCHANGED connVars

\* What the goroutine does on its own; time and the network bound each step.
HandlerStep(c) ==
    \/ ServeNext(c) \/ ServeCtxDone(c)
    \/ DialConnect(c) \/ DialApiVersions(c) \/ DialSaslHandshake(c)
    \/ DialAuthenticate(c)
    \/ DialForSCRAMFails(c) \/ ensureUpstreamFails(c)
    \/ RelaySASLAuthenticate(c) \/ RelayFails(c)
    \/ Forward(c) \/ HandlerRefuses(c)
    \/ RoundTrip(c) \/ RoundTripRejects(c) \/ RoundTripFails(c)

\* What a request of the client starts.
ClientRequest(c) ==
    \/ \E r \in ApiVersionsRequest : handleApiVersions(c, r)
    \/ \E r \in SaslHandshakeRequest : handleSaslHandshake(c, r)
    \/ \E r \in SaslAuthenticateRequest : handleSaslAuthenticatePlain(c, r)
    \/ \E r \in SaslAuthenticateRequest : handleSaslAuthenticateSCRAM(c, r)
    \/ \E r \in DataRequest : ensureUpstream(c, r)
    \/ \E r \in DataRequest : requestBeforeAuth(c, r)

Next ==
    \/ \E c \in Conn : HandlerStep(c)
    \/ \E c \in Conn : ClientRequest(c)
    \/ \E c \in Conn : ReadFails(c)
    \/ \E c \in Conn, copies \in 1 .. 2 : BrokerAnswers(c, copies)
    \/ \E t \in Tenant : AdminSet(t)
    \/ \E id \in UserID : AdminDelete(id)
    \/ Shutdown

Spec == Init /\ [][Next]_vars

\* Weak fairness of the goroutine's own steps and of the client read deadline.
\* The calls to the broker and the read from the client have deadlines, so
\* brokers and operators may stop at any time, and clients may stop sending; the
\* write of a response has none, so that clients are assumed to take theirs.
FairSpec ==
    /\ Spec
    /\ \A c \in Conn : WF_vars(HandlerStep(c)) /\ WF_vars(ReadFails(c))

-----------------------------------------------------------------------------
(* Properties.                                                             *)

PC == {"top", "read", "dialRelay", "dialPlain", "dialBridge", "relay", "forward",
       "await", "closed"}
SaslState == {"AwaitHandshake", "AwaitAuth", "RelaySaslInFlight", "Authenticated"}
ClusterName == Name \cup {PrefixIn(p, n) : p \in Prefix, n \in Name}
Frame == [cid : Cid, name : ClusterName]
Peer == [phase : {"connected", "versioned", "negotiated", "challenged",
                  "authenticated", "failed"},
         addr : Addr, mech : Mechanisms \cup {"empty"}, user : UserID \cup {"empty"}]
Response == [code : {0, errSaslAuthFailed, errUnsupportedSaslMech, errIllegalSaslState},
             cid : ClientCid, name : Name \cup {<< >>}]

\* The types of the fields of conn and upstream.Conn and of the model's view of
\* the network.
TypeOK ==
    /\ CatalogueTypeOK
    /\ ctxDone \in BOOLEAN
    /\ pc \in [Conn -> PC]
    /\ state \in [Conn -> SaslState]
    /\ clientMechanism \in [Conn -> Mechanisms \cup {"empty"}]
    /\ tenant \in [Conn -> ValidTenant \cup {ZeroTenant}]
    /\ password \in [Conn -> Password \cup {"empty"}]
    /\ upstream \in [Conn -> BOOLEAN]
    /\ scramRoundsCompleted \in [Conn -> 0 .. ScramRounds]
    /\ req \in [Conn -> Request \cup {NoRequest}]
    /\ resp \in [Conn -> Response \cup {NoResponse}]
    /\ sockets \in [Conn -> Int]
    /\ peer \in [Conn -> Peer \cup {NoPeer}]
    /\ corrIDGen \in [Conn -> Cid]
    /\ wire \in [Conn -> Frame \cup {NoFrame}]
    /\ inbuf \in [Conn -> Seq(Frame)]

\* Once a connection that has its upstream counts as authenticated, the broker
\* at the tenant's address has authenticated exactly that tenant: requests are
\* rewritten for the principal they run as.  A SCRAM client has its upstream
\* from the relay on; a PLAIN client gets it from ensureUpstream.
PrincipalIsTenant ==
    \A c \in Conn :
        /\ pc[c] # "closed"
        /\ state[c] = "Authenticated"
        /\ upstream[c] \/ IsSCRAMMechanism(clientMechanism[c])
        => /\ upstream[c]
           /\ peer[c].phase = "authenticated"
           /\ peer[c].user = tenant[c].ID
           /\ peer[c].addr = tenant[c].Upstream

\* A request on the wire belongs to an authenticated connection, and a name that
\* a rewrite handler put there is the tenant's prefix with something after it.
WireNamesArePrefixed ==
    \A c \in Conn :
        wire[c] # NoFrame
        => /\ state[c] = "Authenticated"
           /\ req[c].class # "raw" /\ req[c].name # << >>
              => /\ BelongsToTenant(tenant[c].TopicPrefix, wire[c].name)
                 /\ wire[c].name # tenant[c].TopicPrefix

\* Every dial that fails, at whatever step, closes its socket: a connection has
\* at most one, none while it waits for a client without an upstream, and none
\* after close.
NoSocketLeak ==
    \A c \in Conn :
        /\ sockets[c] \in 0 .. 1
        /\ pc[c] = "closed" => sockets[c] = 0
        /\ pc[c] = "read" => (sockets[c] = 1 <=> upstream[c])

\* The response to a request carries the request's correlation id and the very
\* name the client used, whatever frames of earlier requests the broker repeats.
ReplyMatchesRequest ==
    \A c \in Conn :
        resp[c] # NoResponse
        => /\ resp[c].cid = req[c].cid
           /\ req[c].api = "Data" => resp[c].name = req[c].name

\* A broker is contacted only for a tenant record that the catalogue held, and
\* only at that record's address: an unknown user never causes a dial.
DialsOnlyKnownTenants ==
    \A c \in Conn :
        sockets[c] > 0 => /\ tenant[c] \in issued
                          /\ peer[c].addr = tenant[c].Upstream

\* The proxy is a SASL client only with the password of a PLAIN client: a client
\* that speaks SCRAM never gets there, and its password is never held.
OnlyPlainDialsWithPassword ==
    \A c \in Conn :
        /\ pc[c] \in {"dialPlain", "dialBridge"} => clientMechanism[c] = "PLAIN"
        /\ password[c] # "empty" => clientMechanism[c] = "PLAIN"

\* A step keeps what an authenticated connection is authenticated as.
KeepsSnapshot(c) ==
    state[c] = "Authenticated"
    => /\ UNCHANGED <<state[c], clientMechanism[c], tenant[c], password[c]>>
       /\ upstream[c] /\ pc'[c] # "closed" => peer'[c] = peer[c]

\* Authentication is final: whatever the client sends and the operator edits, an
\* authenticated connection keeps its state, mechanism, tenant record and
\* password, and its upstream until it is closed.
SnapshotIsFinal ==
    [][\A c \in Conn : KeepsSnapshot(c)]_vars

\* A request that was read is answered, or the connection is closed: no dial,
\* relay or round trip blocks the goroutine for ever.  This is of clients that
\* take their responses (FairSpec).
RequestsComplete ==
    \A c \in Conn : pc[c] \notin {"read", "closed"} ~> pc[c] \in {"read", "closed"}

\* After the context is cancelled every connection closes, even if its client
\* keeps sending requests, as long as it takes its responses: the write to one
\* that does not has no deadline (OnlyWritesBlockForever in Deadlines).
ShutdownDrains == \A c \in Conn : ctxDone ~> pc[c] = "closed"
=============================================================================
