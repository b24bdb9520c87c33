------------------------------ MODULE Metrics ------------------------------
(***************************************************************************)
(* The counters of observability/metrics.go that the handlers of           *)
(* proxy/conn.go keep, over several connections.  A counter with labels is *)
(* a function from label values to numbers; it has the series that were    *)
(* counted.                                                                *)
(*                                                                         *)
(* A handler is cut where it waits for the broker, and before serve counts *)
(* the request, because the metrics can be scraped at any moment.          *)
(***************************************************************************)
EXTENDS Integers, FiniteSetsExt

CONSTANTS
    Conn,           \* client connections, each with one life
    TenantID,       \* the tenants that the catalogue may hold
    Stranger,       \* a user name that is never in the catalogue
    Mech,           \* the mechanisms that clients name
    Key,            \* the api keys that clients send, but for those in OwnKeys
    MaxRequests     \* bound: requests begun

VARIABLES
    known,          \* the ids in the catalogue
    conn,           \* the fields of each conn, and where its handler is
    metrics         \* the Metrics of the process

\* The keys of the requests that dispatch answers itself.
OwnKeys == {"ApiVersions", "SaslHandshake", "SaslAuthenticate"}

ASSUME ConnAssumption == IsFiniteSet(Conn)
\* validateTenant refuses an empty id.
ASSUME TenantAssumption == "empty" \notin TenantID
ASSUME KeyAssumption == Key \cap OwnKeys = {}

metricsVars == <<known, conn, metrics>>

\* WithLabelValues(x).Inc(), which makes the series when it is new.
Inc(counter, x) ==
    [y \in DOMAIN counter \cup {x} |->
        (IF y \in DOMAIN counter THEN counter[y] ELSE 0) + (IF y = x THEN 1 ELSE 0)]

\* The sum of the series of a counter that have one of these labels.
Total(counter, labels) ==
    MapThenSumSet(LAMBDA x : counter[x], DOMAIN counter \cap labels)

ScramMechanisms == {"SCRAM-SHA-256", "SCRAM-SHA-512"}
Mechanisms == {"PLAIN"} \cup ScramMechanisms

MetricsInit ==
    /\ known \in SUBSET TenantID
    /\ conn = [c \in Conn |->
                  [state |-> "AwaitHandshake", mech |-> "empty", tenant |-> "empty",
                   rounds |-> 0, upstream |-> FALSE, key |-> "none", pc |-> "read",
                   err |-> FALSE, garbled |-> FALSE]]
    /\ metrics = [SaslHandshake |-> << >>, ResolverCalls |-> << >>,
                  UpstreamError |-> << >>, Requests |-> << >>]

\* The admin RPC.
Operate ==
    /\ known' \in SUBSET TenantID
    /\ UNCHANGED <<conn, metrics>>

-----------------------------------------------------------------------------
\* The handler waits for the broker, with the fields of conn as in r.
Wait(c, r, pc) == conn' = [conn EXCEPT ![c] = [r EXCEPT !.pc = pc]]

\* It returns to serve.
Return(c, r, err) == conn' = [conn EXCEPT ![c] = [r EXCEPT !.pc = "observe", !.err = err]]

\* writeResponse, which may fail, and the return.
writeResponse(c, r) == \E err \in BOOLEAN : Return(c, r, err)

\* A plausible slip: the label is what the client sent.
LabelAsSent(mech) == mech

MechLabel(mech) == IF mech \in Mechanisms THEN mech ELSE "unknown"

observeHandshake(m, mech, result) ==
    [m EXCEPT !.SaslHandshake = Inc(@, <<MechLabel(mech), result>>)]
ResolverCalls(m, result) == [m EXCEPT !.ResolverCalls = Inc(@, result)]
UpstreamError(m, kind) == [m EXCEPT !.UpstreamError = Inc(@, kind)]

Begun == Total(metrics.Requests, DOMAIN metrics.Requests)
         + Cardinality({c \in Conn : conn[c].pc \notin {"read", "closed"}})

\* A request arrives.
Dispatch(c) == conn[c].pc = "read" /\ Begun < MaxRequests

\* Its body does not decode; the handler returns the error.
Garbled(c, k) ==
    /\ Dispatch(c)
    /\ Return(c, [conn[c] EXCEPT !.key = k, !.garbled = TRUE], TRUE)
    /\ UNCHANGED <<known, metrics>>

handleSaslHandshake(c, mech) ==
    LET r == [conn[c] EXCEPT !.key = "SaslHandshake"]
        Refuse(result) ==
            metrics' = observeHandshake(metrics, mech, result) /\ writeResponse(c, r)
    IN  /\ Dispatch(c)
        /\ \/ conn[c].state # "AwaitHandshake" /\ Refuse("illegal_state")
           \/ conn[c].state = "AwaitHandshake" /\ mech \notin Mechanisms /\ Refuse("unsupported")
           \/ /\ conn[c].state = "AwaitHandshake" /\ mech \in Mechanisms
              /\ writeResponse(c, [r EXCEPT !.mech = mech, !.state = "AwaitAuth"])
              /\ UNCHANGED metrics
        /\ UNCHANGED known

\* The SASLAuthBytes: a user, or "malformed".
Payload == TenantID \cup {Stranger, "malformed"}

\* A plausible slip: a malformed payload is not counted.
CountResolvedOnly(m, mech, p) ==
    IF p \in known THEN observeHandshake(ResolverCalls(m, "ok"), mech, "ok")
    ELSE IF p = "malformed" THEN m
    ELSE observeHandshake(ResolverCalls(m, "unauthorized"), mech, "unauthorized")

\* What handleSaslAuthenticatePlain counts for a payload it looks at.
CountPlain(m, mech, p) ==
    IF p \in known THEN observeHandshake(ResolverCalls(m, "ok"), mech, "ok")
    ELSE IF p = "malformed" THEN observeHandshake(m, mech, "malformed")
    ELSE observeHandshake(ResolverCalls(m, "unauthorized"), mech, "unauthorized")

handleSaslAuthenticatePlain(c, p) ==
    LET r == [conn[c] EXCEPT !.key = "SaslAuthenticate"]
    IN  /\ Dispatch(c)
        /\ conn[c].mech \notin ScramMechanisms
        /\ IF conn[c].state # "AwaitAuth"
           THEN /\ metrics' = observeHandshake(metrics, "PLAIN", "illegal_state")
                /\ writeResponse(c, r)
           ELSE /\ metrics' = CountPlain(metrics, "PLAIN", p)
                /\ writeResponse(c, IF p \notin known THEN r
                                    ELSE [r EXCEPT !.tenant = p, !.state = "Authenticated"])
        /\ UNCHANGED known

\* Up to the dial or the relay.
handleSaslAuthenticateSCRAM(c, p) ==
    LET r == [conn[c] EXCEPT !.key = "SaslAuthenticate"]
        mech == conn[c].mech
        Refuse(m, result) == metrics' = observeHandshake(m, mech, result) /\ writeResponse(c, r)
    IN  /\ Dispatch(c)
        /\ mech \in ScramMechanisms
        /\ \/ conn[c].state = "Authenticated" /\ Refuse(metrics, "illegal_state")
           \/ /\ conn[c].state = "AwaitAuth"
              /\ \/ p = "malformed" /\ Refuse(metrics, "malformed")
                 \/ /\ p \notin known \cup {"malformed"}
                    /\ Refuse(ResolverCalls(metrics, "unauthorized"), "unauthorized")
                 \/ /\ p \in known
                    /\ metrics' = ResolverCalls(metrics, "ok")
                    /\ Wait(c, [r EXCEPT !.tenant = p], "dialRelay")
           \/ /\ conn[c].state = "RelaySaslInFlight"
              /\ Wait(c, r, "relay")
              /\ UNCHANGED metrics
        /\ UNCHANGED known

DialForSCRAM(c) ==
    /\ conn[c].pc = "dialRelay"
    /\ \/ /\ Wait(c, [conn[c] EXCEPT !.upstream = TRUE, !.state = "RelaySaslInFlight"], "relay")
          /\ UNCHANGED metrics
       \/ /\ metrics' = observeHandshake(UpstreamError(metrics, "scram_dial"),
                                         conn[c].mech, "upstream_error")
          /\ writeResponse(c, conn[c])
    /\ UNCHANGED known

\* A plausible slip: every answered round is counted as an outcome.
CountEveryRound(m, mech, n) == observeHandshake(m, mech, "ok")

\* What an answered round counts, the n-th of the exchange.
CountRound(m, mech, n) == IF n >= 2 THEN observeHandshake(m, mech, "ok") ELSE m

Relay(c) ==
    LET n == conn[c].rounds + 1
    IN  /\ conn[c].pc = "relay"
        /\ \/ /\ metrics' = observeHandshake(UpstreamError(metrics, "scram_relay"),
                                             conn[c].mech, "upstream_error")
              /\ Return(c, conn[c], TRUE)
           \/ /\ metrics' = observeHandshake(metrics, conn[c].mech, "unauthorized")
              /\ writeResponse(c, conn[c])
           \/ /\ metrics' = CountRound(metrics, conn[c].mech, n)
              /\ writeResponse(c, [conn[c] EXCEPT !.rounds = n,
                                      !.state = IF n >= 2 THEN "Authenticated" ELSE @])
        /\ UNCHANGED known

handleApiVersions(c) ==
    /\ Dispatch(c)
    /\ writeResponse(c, [conn[c] EXCEPT !.key = "ApiVersions"])
    /\ UNCHANGED <<known, metrics>>

\* Any other request, up to the dial or the round trip.
Forward(c, k) ==
    LET r == [conn[c] EXCEPT !.key = k]
    IN  /\ Dispatch(c)
        /\ IF conn[c].state # "Authenticated" THEN Return(c, r, TRUE)
           ELSE Wait(c, r, IF conn[c].upstream THEN "roundTrip" ELSE "dial")
        /\ UNCHANGED <<known, metrics>>

ensureUpstream(c) ==
    /\ conn[c].pc = "dial"
    /\ \/ /\ Wait(c, [conn[c] EXCEPT !.upstream = TRUE], "roundTrip")
          /\ UNCHANGED metrics
       \/ /\ metrics' = UpstreamError(metrics, "dial")
          /\ Return(c, conn[c], TRUE)
    /\ UNCHANGED known

\* An exchange that fails is an error as a response that cannot be written is.
RoundTrip(c) ==
    /\ conn[c].pc = "roundTrip"
    /\ writeResponse(c, conn[c])
    /\ UNCHANGED <<known, metrics>>

\* serve counts the request, and ends on an error.
ObserveRequest(c) ==
    LET label == IF conn[c].tenant = "empty" THEN "_unauth" ELSE conn[c].tenant
    IN  /\ conn[c].pc = "observe"
        /\ metrics' = [metrics EXCEPT !.Requests = Inc(@, <<conn[c].key, label>>)]
        /\ conn' = [conn EXCEPT ![c].pc = IF conn[c].err THEN "closed" ELSE "read"]
        /\ UNCHANGED known

MetricsNext ==
    \/ Operate
    \/ \E c \in Conn :
          \/ \E k \in {"SaslHandshake", "SaslAuthenticate"} : Garbled(c, k)
          \/ \E m \in Mech : handleSaslHandshake(c, m)
          \/ \E p \in Payload : handleSaslAuthenticatePlain(c, p) \/ handleSaslAuthenticateSCRAM(c, p)
          \/ DialForSCRAM(c) \/ Relay(c)
          \/ handleApiVersions(c) \/ ensureUpstream(c) \/ RoundTrip(c)
          \/ \E k \in Key : Forward(c, k)
          \/ ObserveRequest(c)

MetricsSpec == MetricsInit /\ [][MetricsNext]_metricsVars

-----------------------------------------------------------------------------
(* Properties.                                                             *)

\* "ok" counts authentications: the series of that result add up to the number
\* of connections that got authenticated, at every moment, whichever mechanism
\* they used and however many attempts, refusals and failed dials came before.
OkCountsAuthentications ==
    Total(metrics.SaslHandshake, Mechanisms \X {"ok"})
        = Cardinality({c \in Conn : conn[c].state = "Authenticated"})

\* Every SASL request that decodes leaves one outcome, except a handshake that
\* is accepted and the first round of a relayed exchange; none is counted twice
\* or dropped on any of the early returns (observeHandshake).
EveryStepHasOneOutcome ==
    LET sasl == {"SaslHandshake", "SaslAuthenticate"}
        silent == Cardinality({c \in Conn : conn[c].state # "AwaitHandshake"})
                  + Cardinality({c \in Conn : conn[c].rounds > 0})
                  + Cardinality({c \in Conn : conn[c].garbled})
        uncounted == {c \in Conn : conn[c].pc = "observe" /\ conn[c].key \in sasl}
    IN  Total(metrics.SaslHandshake, DOMAIN metrics.SaslHandshake) + silent
        = Total(metrics.Requests, sasl \X (TenantID \cup {"_unauth"})) + Cardinality(uncounted)

\* How far clients can make series.  The mechanism is one of a fixed list, so
\* that a client "cannot create unbounded Prometheus label cardinality"
\* (observeHandshake), and a tenant has a series only after the catalogue has
\* returned it.  The api_key is the number that the client sent (ObserveRequest):
\* before a tenant is known, every further key costs the connection that sent it
\* (when no tenant is called "_unauth"); a connection with a tenant has no such
\* bound but the width of the number.
LabelsAreBounded ==
    /\ \A x \in DOMAIN metrics.SaslHandshake : x[1] \in Mechanisms \cup {"unknown"}
    /\ \A x \in DOMAIN metrics.Requests : x[2] \in TenantID \cup {"_unauth"}
    /\ Cardinality({x[2] : x \in DOMAIN metrics.Requests} \ {"_unauth"})
           <= Total(metrics.ResolverCalls, {"ok"})
    /\ "_unauth" \notin TenantID =>
           Cardinality({x \in DOMAIN metrics.Requests : x[2] = "_unauth" /\ x[1] \notin OwnKeys})
               <= Cardinality({c \in Conn : conn[c].pc = "closed"})
=============================================================================
