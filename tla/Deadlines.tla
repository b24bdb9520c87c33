----------------------------- MODULE Deadlines -----------------------------
(***************************************************************************)
(* Time on one connection: the deadlines that proxy/conn.go and            *)
(* upstream/conn.go put on the client's socket and on the broker's, over   *)
(* the calls in which the goroutine blocks.                                *)
(*                                                                         *)
(* call is the call in progress: read and write (client), connect,         *)
(* apiVersions, saslHandshake, plainAuth, scramAuth (the dial), relay and  *)
(* roundTrip (an established upstream); top and closed are not calls.      *)
(* A deadline is the time left to it, zero once it is over, Never if there *)
(* is none.  It belongs to the socket and outlives the call that set it.   *)
(* Time passes only in calls, and a call ends at the deadline it is under. *)
(***************************************************************************)
EXTENDS Integers, FiniteSetsExt

CONSTANTS
    Path,               \* "plain", "relay" or "bridge": how clients log in
    dialTimeout,
    requestTimeout,     \* DefaultRequestTimeout
    clientHandshakeTimeout,
    clientIdleTimeout,
    ScramMessages       \* messages of the SCRAM client, 2

ASSUME TimeoutAssumption ==
    {dialTimeout, requestTimeout, clientHandshakeTimeout, clientIdleTimeout, ScramMessages}
        \subseteq Nat \ {0}

VARIABLES
    path,           \* the path of this connection
    call,
    authenticated,  \* conn.state = stateAuthenticated
    hasUpstream,    \* conn.upstream # nil
    rounds,         \* rounds of SCRAM that the broker has answered
    readDeadline,   \* of the client's socket
    deadline,       \* of the upstream socket
    inCall,         \* time spent in the call so far
    dialling,       \* time spent so far on dial and SASL
    timedOut        \* the call whose deadline closed the connection, if any

deadlineVars == <<path, call, authenticated, hasUpstream, rounds, readDeadline, deadline,
          inCall, dialling, timedOut>>

Never == -1
\* Clocks stop here: past every bound the properties mention.
Horizon ==
    2 * dialTimeout + (ScramMessages + 1) * requestTimeout
        + clientHandshakeTimeout + clientIdleTimeout

ClientCalls == {"read", "write"}
DialCalls == {"connect", "apiVersions", "saslHandshake", "plainAuth", "scramAuth"}
UpstreamCalls == DialCalls \cup {"relay", "roundTrip"}
Blocked == call \in ClientCalls \cup UpstreamCalls

\* The deadline the call in progress is under.  Writes to the client have
\* none: serve only sets read deadlines on that socket.
CallDeadline ==
    IF call = "read" THEN readDeadline
    ELSE IF call \in UpstreamCalls THEN deadline
    ELSE Never

DeadlineInit ==
    /\ path \in Path
    /\ call = "top"
    /\ authenticated = FALSE
    /\ hasUpstream = FALSE
    /\ rounds = 0
    /\ readDeadline = Never
    /\ deadline = Never
    /\ inCall = 0
    /\ dialling = 0
    /\ timedOut = "none"

-----------------------------------------------------------------------------
Tick ==
    LET older(d) == IF d > 0 THEN d - 1 ELSE d
        later(t) == Min({t + 1, Horizon})
    IN  /\ Blocked /\ CallDeadline # 0
        /\ readDeadline' = older(readDeadline)
        /\ deadline' = older(deadline)
        /\ inCall' = later(inCall)
        /\ dialling' = IF call \in DialCalls THEN later(dialling) ELSE dialling
        /\ UNCHANGED <<path, call, authenticated, hasUpstream, rounds, timedOut>>

\* The call fails.  A dial for the relay that fails is answered with an error,
\* and the client may try again; any other failure makes serve return.
GiveUp ==
    IF call \in DialCalls /\ path = "relay"
    THEN call' = "write" /\ inCall' = 0
    ELSE call' = "closed" /\ UNCHANGED inCall

Timeout ==
    /\ Blocked /\ CallDeadline = 0
    /\ GiveUp
    /\ timedOut' = IF call' = "closed" THEN call ELSE timedOut
    /\ UNCHANGED <<path, authenticated, hasUpstream, rounds, readDeadline, deadline, dialling>>

\* A failure that is not a timeout, or the end of the client's stream.
CallFails ==
    /\ Blocked
    /\ GiveUp
    /\ UNCHANGED <<path, authenticated, hasUpstream, rounds, readDeadline, deadline,
                   dialling, timedOut>>

\* The call returns in time and the goroutine enters the next one.
Enter(next) ==
    /\ CallDeadline # 0
    /\ call' = next
    /\ inCall' = 0

-----------------------------------------------------------------------------
(* conn.serve: the client's socket.                                        *)

\* The time the client has for its next request.
ReadTimeout == IF authenticated THEN clientIdleTimeout ELSE clientHandshakeTimeout

\* nc.SetReadDeadline(now + to), then ReadFrame.
ServeRead ==
    /\ call = "top"
    /\ Enter("read")
    /\ readDeadline' = ReadTimeout
    /\ UNCHANGED <<path, authenticated, hasUpstream, rounds, deadline, dialling, timedOut>>

\* The request has been read and is answered by the proxy itself: ApiVersions,
\* SaslHandshake, an error, or the SaslAuthenticate of a PLAIN client.
AnswerLocally ==
    /\ call = "read"
    /\ Enter("write")
    /\ authenticated' \in {authenticated, path # "relay" \/ authenticated}
    /\ readDeadline' = Never
    /\ UNCHANGED <<path, hasUpstream, rounds, deadline, dialling, timedOut>>

\* Whether the request just read needs the upstream: the SaslAuthenticate of a
\* SCRAM client, or a data request.
NeedsUpstream == authenticated \/ path = "relay"

\* Plausible slips: an exchange made under no deadline, or under the one that is
\* still on the socket.
DeadlineCleared == Never
DeadlineSetOnce == IF deadline = Never THEN requestTimeout ELSE deadline

\* applyRequestDeadline on the upstream socket, before each exchange with an
\* established upstream and each round of SCRAM.
applyRequestDeadline == requestTimeout

\* The request has been read; it goes to the upstream, which is dialled first
\* if there is none (net.Dialer.Timeout).
UseUpstream ==
    /\ call = "read"
    /\ NeedsUpstream
    /\ Enter(IF ~hasUpstream THEN "connect" ELSE IF authenticated THEN "roundTrip" ELSE "relay")
    /\ deadline' = IF hasUpstream THEN applyRequestDeadline ELSE dialTimeout
    /\ dialling' = IF hasUpstream THEN dialling ELSE 0
    /\ readDeadline' = Never
    /\ UNCHANGED <<path, authenticated, hasUpstream, rounds, timedOut>>

\* The response has been written; the next turn of serve's loop.
Written ==
    /\ call = "write"
    /\ Enter("top")
    /\ UNCHANGED <<path, authenticated, hasUpstream, rounds, readDeadline, deadline,
                   dialling, timedOut>>

-----------------------------------------------------------------------------
(* upstream: dialling.                                                     *)

\* A plausible slip: the negotiation is given a request timeout per exchange.
NegotiateLikeRequest == requestTimeout

\* dialAndNegotiate sets a deadline on the socket it has just opened.
NegotiateDeadline == dialTimeout

Connected ==
    /\ call = "connect"
    /\ Enter("apiVersions")
    /\ deadline' = NegotiateDeadline
    /\ UNCHANGED <<path, authenticated, hasUpstream, rounds, readDeadline, dialling, timedOut>>

GotApiVersions ==
    /\ call = "apiVersions"
    /\ Enter("saslHandshake")
    /\ UNCHANGED <<path, authenticated, hasUpstream, rounds, readDeadline, deadline,
                   dialling, timedOut>>

\* Dial goes on to plainAuthenticate, under the deadline of the dial; DialSCRAM
\* to its first round, and DialForSCRAM returns to the relay of the client's
\* first message, each of which has a deadline of its own.
GotHandshake ==
    /\ call = "saslHandshake"
    /\ \/ path = "plain" /\ Enter("plainAuth") /\ UNCHANGED <<hasUpstream, deadline>>
       \/ path = "bridge" /\ Enter("scramAuth")
          /\ deadline' = applyRequestDeadline /\ UNCHANGED hasUpstream
       \/ path = "relay" /\ Enter("relay")
          /\ deadline' = applyRequestDeadline /\ hasUpstream' = TRUE
    /\ UNCHANGED <<path, authenticated, rounds, readDeadline, dialling, timedOut>>

\* The broker has accepted: the dial clears its deadline, and the request that
\* caused it is sent under one of its own.
Dialled ==
    /\ \/ call = "plainAuth" /\ UNCHANGED rounds
       \/ call = "scramAuth" /\ rounds + 1 = ScramMessages /\ rounds' = rounds + 1
    /\ Enter("roundTrip")
    /\ deadline' = applyRequestDeadline
    /\ hasUpstream' = TRUE
    /\ UNCHANGED <<path, authenticated, readDeadline, dialling, timedOut>>

\* scramAuthenticate: the broker's challenge, and the next message.
Challenged ==
    /\ call = "scramAuth"
    /\ rounds + 1 < ScramMessages
    /\ Enter("scramAuth")
    /\ rounds' = rounds + 1
    /\ deadline' = applyRequestDeadline
    /\ UNCHANGED <<path, authenticated, hasUpstream, readDeadline, dialling, timedOut>>

-----------------------------------------------------------------------------
\* A plausible slip: the end of the exchange goes unnoticed.
NeverComplete(r) == FALSE

\* The relay is complete after the second round that the broker accepted.
ScramComplete(r) == r = ScramMessages

\* The broker answers a relayed round, with an error or not.
Relayed ==
    /\ call = "relay"
    /\ Enter("write")
    /\ rounds' \in {rounds, rounds + 1}
    /\ authenticated' = ScramComplete(rounds')
    /\ UNCHANGED <<path, hasUpstream, readDeadline, deadline, dialling, timedOut>>

\* The broker answers a data request.
RoundTripped ==
    /\ call = "roundTrip"
    /\ Enter("write")
    /\ UNCHANGED <<path, authenticated, hasUpstream, rounds, readDeadline, deadline,
                   dialling, timedOut>>

Closed == call = "closed" /\ UNCHANGED deadlineVars

DeadlineNext ==
    \/ Tick \/ Timeout \/ CallFails
    \/ ServeRead \/ AnswerLocally \/ UseUpstream \/ Written
    \/ Connected \/ GotApiVersions \/ GotHandshake \/ Dialled \/ Challenged
    \/ Relayed \/ RoundTripped
    \/ Closed

DeadlineSpec == DeadlineInit /\ [][DeadlineNext]_deadlineVars

-----------------------------------------------------------------------------
(* Properties.                                                             *)

\* Types; the counted rounds never pass the end of the exchange.
DeadlineTypeOK ==
    /\ path \in Path
    /\ call \in {"top", "closed"} \cup ClientCalls \cup UpstreamCalls
    /\ authenticated \in BOOLEAN /\ hasUpstream \in BOOLEAN
    /\ rounds \in 0 .. ScramMessages
    /\ readDeadline \in {Never} \cup (0 .. Horizon)
    /\ deadline \in {Never} \cup (0 .. Horizon)
    /\ inCall \in 0 .. Horizon /\ dialling \in 0 .. Horizon
    /\ timedOut \in {"none"} \cup ClientCalls \cup UpstreamCalls

\* Every call can end by itself, except the write of a response to a client
\* that does not read it: no path through the dials and the relay leaves a call
\* to the broker, or a read of the client, without a deadline ("a stalled
\* upstream cannot block indefinitely").
OnlyWritesBlockForever == Blocked /\ call # "write" => CallDeadline # Never

\* A connection is given up on a deadline only after the whole time that call
\* is entitled to: no deadline of an earlier call on the same socket, of the
\* dial or of the previous request, cuts a later call short.
NoStaleDeadline ==
    /\ timedOut \in {"relay", "roundTrip", "scramAuth"} => inCall >= requestTimeout
    /\ timedOut = "connect" => inCall >= dialTimeout
    /\ timedOut = "read" => inCall >= ReadTimeout

\* "dialTimeout caps the time spent establishing the TCP connection and
\* completing the SASL handshake to the upstream broker."  It does not: the
\* connection and the negotiation behind it have a dialTimeout each, and every
\* round of the bridge's SCRAM has a request timeout.
DialWithinTimeout == dialling <= dialTimeout

\* How long a dial does take at most: two dial timeouts, and for the bridge a
\* request timeout per round.  No path through a slow broker adds to that.
DialIsBounded ==
    dialling <= 2 * dialTimeout + (IF path = "bridge" THEN ScramMessages * requestTimeout ELSE 0)
=============================================================================
