--------------------------- MODULE SessionProofs ---------------------------
(***************************************************************************)
(* Safety of a client's connection.  Session, for any set of connections,  *)
(* any catalogue, broker and operator, and any values of the other         *)
(* constants.  Deadlines, for any timeouts, any number of SCRAM messages   *)
(* and any mix of login paths: what a connection's goroutine waits for.    *)
(***************************************************************************)
EXTENDS SessionInvariant, Deadlines, SequenceTheorems, TLAPS

-----------------------------------------------------------------------------
(* The names of a request, on the way to the broker and back.              *)

\* A prefixed name begins with the prefix, and the rest of it is the name.
LEMMA ConcatIsPrefix ==
    ASSUME NEW p \in Seq(Char), NEW n \in Seq(Char)
    PROVE  /\ HasPrefix(p \o n, p)
           /\ SubSeq(p \o n, Len(p) + 1, Len(p \o n)) = n
<1>1. SubSeq(p \o n, 1, Len(p)) = p
  BY SubSeqOfConcat2
<1> QED
  BY <1>1 DEF HasPrefix

\* StripOut undoes PrefixIn for every prefix and every name, the empty ones and
\* names that themselves begin with the prefix included: the tenant reads back
\* the name it wrote.
LEMMA StripUndoesPrefix ==
    ASSUME NEW p \in Seq(Char), NEW n \in Seq(Char)
    PROVE  StripOut(p, PrefixIn(p, n)) = n
<1>1. CASE p = << >>
  BY <1>1 DEF StripOut, PrefixIn
<1>2. CASE p # << >> /\ n = << >>
  <2>1. ~HasPrefix(n, p)
    BY <1>2 DEF HasPrefix
  <2> QED
    BY <1>2, <2>1 DEF StripOut, PrefixIn, TrimPrefix
<1>3. CASE p # << >> /\ n # << >>
  BY <1>3, ConcatIsPrefix DEF StripOut, PrefixIn, TrimPrefix
<1> QED
  BY <1>1, <1>2, <1>3

\* PrefixIn puts every non-empty name strictly inside the tenant's slice of the
\* cluster: BelongsToTenant holds and the name is not the bare prefix.
LEMMA PrefixedBelongs ==
    ASSUME NEW p \in Seq(Char), NEW n \in Seq(Char), p # << >>, n # << >>
    PROVE  /\ PrefixIn(p, n) \in Seq(Char)
           /\ BelongsToTenant(p, PrefixIn(p, n))
           /\ PrefixIn(p, n) # p
<1>1. p \o n # p
  BY ConcatEqualIffEmpty
<1> QED
  BY <1>1, ConcatIsPrefix, ConcatProperties DEF PrefixIn, BelongsToTenant

-----------------------------------------------------------------------------
(* The steps of serve, of the SASL handlers and of the dials keep the      *)
(* inductive invariant.                                                    *)

\* A step that leaves a connection alone keeps its invariant, since the catalogue
\* only ever adds to the records it has issued.
LEMMA Undisturbed ==
    ASSUME NEW c \in Conn, ConnInv(c), UNCHANGED Mine(c), issued \subseteq issued'
    PROVE  ConnInv(c)'
<1>1. Typed(c)'
  BY DEF ConnInv, Typed, Mine
<1>2. Control(c)'
  BY DEF ConnInv, Control, Mine
<1>3. Socket(c)'
  BY DEF ConnInv, Socket, Dialing, Mine
<1>4. Principal(c)'
  BY SMTT(30) DEF ConnInv, Principal, Mine
<1>5. Frames(c)'
  BY ZenonT(60) DEF ConnInv, Frames, NameIn, Mine
<1>6. Answer(c)'
  BY DEF ConnInv, Answer, Mine
<1> QED
  BY <1>1, <1>2, <1>3, <1>4, <1>5, <1>6 DEF ConnInv

\* A step of connection c, which leaves the catalogue and the other connections
\* alone, has only c's own invariant and snapshot to keep.
LEMMA OneConnection ==
    ASSUME IInv, NEW c \in Conn, Shape', ConnInv(c)', KeepsSnapshot(c),
           UNCHANGED <<tenants, issued, ctxDone>>,
           \A d \in Conn \ {c} : UNCHANGED Mine(d)
    PROVE  IInv' /\ \A d \in Conn : KeepsSnapshot(d)
<1>1. \A d \in Conn \ {c} : ConnInv(d)'
  BY Undisturbed DEF IInv
<1>2. \A d \in Conn \ {c} : KeepsSnapshot(d)
  BY Zenon DEF KeepsSnapshot, Mine
<1> QED
  BY <1>1, <1>2 DEF IInv, CatalogueTypeOK

\* The next correlation id is another one.
LEMMA NextCid ==
    ASSUME NEW c \in Conn, corrIDGen[c] \in Cid
    PROVE  nextCorrelationID(c) \in Cid /\ nextCorrelationID(c) # corrIDGen[c]
  BY CidSpaceAssumption DEF nextCorrelationID, Cid

\* A connection with nothing in flight has no frames to match.
LEMMA NothingInFlight ==
    ASSUME NEW c \in Conn, pc'[c] # "await", wire'[c] = NoFrame, inbuf'[c] = << >>
    PROVE  Frames(c)'
  BY DEF Frames

\* A socket that exists is one of the types of the broker's end.
LEMMA PeerExists ==
    ASSUME NEW p \in Peer \cup {NoPeer}, p.phase # "none"
    PROVE  p \in Peer
  BY DEF NoPeer

\* What each kind of request is.
LEMMA RequestFacts ==
    /\ \A r \in ApiVersionsRequest \cup SaslHandshakeRequest \cup SaslAuthenticateRequest :
          r \in Request /\ r.cid \in ClientCid /\ r.api # "Data"
    /\ \A r \in DataRequest :
          r \in Request /\ r.cid \in ClientCid /\ r.api = "Data" /\ r.name \in Name
    /\ \A r \in SaslAuthenticateRequest : r.payload \in Payload
  BY DEF Request, ApiVersionsRequest, SaslHandshakeRequest, SaslAuthenticateRequest, DataRequest

\* A response that names nothing.
LEMMA ResponseFacts ==
    ASSUME NEW cid \in ClientCid,
           NEW code \in {0, errSaslAuthFailed, errUnsupportedSaslMech, errIllegalSaslState},
           NEW name \in Name \cup {<< >>}
    PROVE  /\ [code |-> code, cid |-> cid, name |-> name] \in Response
           /\ [code |-> code, cid |-> cid, name |-> name].cid = cid
           /\ [code |-> code, cid |-> cid, name |-> name].name = name
  BY DEF Response

\* The answer to a request of the SASL exchange, whatever its error code.
LEMMA SaslAnswer ==
    ASSUME NEW q \in ApiVersionsRequest \cup SaslHandshakeRequest \cup SaslAuthenticateRequest,
           NEW w,
           \E code \in {0, errSaslAuthFailed, errUnsupportedSaslMech, errIllegalSaslState} :
               w = [code |-> code, cid |-> q.cid, name |-> << >>]
    PROVE  q \in Request /\ q.api # "Data" /\ w \in Response /\ w.cid = q.cid
  BY RequestFacts, ResponseFacts

\* Message m takes the broker's side of a connection from p to q.
SaslStep(p, m, q) ==
    /\ q \in Peer /\ q.addr = p.addr /\ q.mech = p.mech
    /\ ~Accepts(p, m) => q.phase = "failed"
    /\ Accepts(p, m) /\ p.phase = "challenged" =>
          q.phase = "authenticated" /\ q.user = p.user /\ m.kind = "final"
    /\ Accepts(p, m) /\ p.phase # "challenged" =>
          /\ p.phase = "negotiated" /\ q.user = m.user
          /\ \/ p.mech = "PLAIN" /\ m.kind = "plain" /\ q.phase = "authenticated"
             \/ p.mech # "PLAIN" /\ m.kind = "first" /\ q.phase = "challenged"

\* The broker's SASL server keeps to its types, and moves an exchange on only
\* with a message that it accepts.
LEMMA BrokerSaslFacts ==
    ASSUME NEW p \in Peer, NEW m, m.user \in UserID \cup {"empty"}
    PROVE  SaslStep(p, m, BrokerSasl(p, m))
<1> USE DEF SaslStep
<1>1. CASE ~Accepts(p, m)
  BY <1>1 DEF BrokerSasl, Peer
<1>2. CASE Accepts(p, m) /\ m.kind = "first"
  BY <1>2, Zenon DEF BrokerSasl, Accepts, Peer, ScramMechanisms
<1>3. CASE Accepts(p, m) /\ m.kind = "plain"
  BY <1>3, Zenon DEF BrokerSasl, Accepts, Peer
<1>4. CASE Accepts(p, m) /\ m.kind = "final"
  BY <1>4 DEF BrokerSasl, Accepts, Peer
<1> QED
  BY <1>1, <1>2, <1>3, <1>4, ZenonT(60) DEF Accepts

-----------------------------------------------------------------------------
(* The steps of serve and of the SASL handlers of proxy/conn.go, and those *)
(* of the dials of upstream/conn.go, keep the inductive invariant.         *)

\* Closing the connection, from wherever no dial is in progress.
LEMMA CloseInv ==
    ASSUME IInv, NEW c \in Conn, ~Dialing(c), pc[c] # "closed", close(c)
    PROVE  IInv' /\ \A d \in Conn : KeepsSnapshot(d)
<1>1. /\ Shape'
      /\ \A d \in Conn \ {c} : UNCHANGED Mine(d)
      /\ UNCHANGED <<tenants, issued, ctxDone>>
  BY ZenonT(60) DEF IInv, Shape, Mine, close, saslVars, upVars, catalogueVars
<1>2. /\ ~Dialing(c) /\ pc[c] # "closed"
      /\ pc'[c] = "closed" /\ peer'[c] = NoPeer /\ wire'[c] = NoFrame
      /\ inbuf'[c] = << >> /\ req'[c] = NoRequest /\ resp'[c] = NoResponse
      /\ sockets'[c] = IF upstream[c] THEN sockets[c] - 1 ELSE sockets[c]
      /\ UNCHANGED <<state[c], clientMechanism[c], tenant[c], password[c],
                     upstream[c], scramRoundsCompleted[c], corrIDGen[c]>>
  BY Zenon DEF IInv, Shape, close, saslVars, upVars, catalogueVars
<1>3. ConnInv(c)
  BY Zenon DEF IInv
<1>4. Typed(c)'
  BY <1>2, <1>3 DEF ConnInv, Typed, PC
<1>5. Control(c)'
  BY <1>2, <1>3, Zenon DEF ConnInv, Control
<1>6. Socket(c)'
  BY <1>2, <1>3, <1>1 DEF ConnInv, Socket, Dialing
<1>7. Principal(c)'
  BY <1>2, <1>3, ZenonT(60) DEF ConnInv, Principal
<1>8. Frames(c)'
  BY <1>2 DEF Frames
<1>9. Answer(c)'
  BY <1>2, <1>3, Zenon DEF ConnInv, Answer
<1>10. KeepsSnapshot(c)
  BY <1>2, Zenon DEF KeepsSnapshot
<1> QED
  BY <1>1, <1>10, <1>4, <1>5, <1>6, <1>7, <1>8, <1>9, OneConnection, Zenon DEF ConnInv

\* The loop of serve takes up the next request with a clean slate.
LEMMA ServeNextInv ==
    ASSUME IInv, NEW c \in Conn, ServeNext(c)
    PROVE  IInv' /\ \A d \in Conn : KeepsSnapshot(d)
<1>1. /\ Shape'
      /\ \A d \in Conn \ {c} : UNCHANGED Mine(d)
      /\ UNCHANGED <<tenants, issued, ctxDone>>
  BY ZenonT(30) DEF IInv, Shape, Mine, ServeNext, saslVars, upVars, catalogueVars
<1>2. /\ pc[c] = "top"
      /\ pc'[c] = "read" /\ req'[c] = NoRequest /\ resp'[c] = NoResponse
      /\ UNCHANGED <<state[c], clientMechanism[c], tenant[c], password[c],
                     upstream[c], scramRoundsCompleted[c], sockets[c], peer[c],
                     corrIDGen[c], wire[c], inbuf[c]>>
  BY Zenon DEF IInv, Shape, ServeNext, saslVars, upVars, catalogueVars
<1>3. ConnInv(c)
  BY Zenon DEF IInv
<1>4. Typed(c)'
  BY <1>2, <1>3, Zenon DEF ConnInv, Typed, PC
<1>5. Control(c)'
  BY <1>2, <1>3, Zenon DEF ConnInv, Control
<1>6. Socket(c)'
  BY <1>2, <1>3, <1>1, Zenon DEF ConnInv, Socket, Dialing
<1>7. Principal(c)'
  BY <1>2, <1>3, Zenon DEF ConnInv, Principal, Control
<1>8. Frames(c)'
  BY <1>2, <1>3, Zenon DEF ConnInv, Frames, NameIn
<1>9. Answer(c)'
  BY <1>2, <1>3, Zenon DEF ConnInv, Answer
<1>10. KeepsSnapshot(c)
  BY <1>2, Zenon DEF KeepsSnapshot
<1> QED
  BY <1>1, <1>10, <1>4, <1>5, <1>6, <1>7, <1>8, <1>9, OneConnection, Zenon DEF ConnInv

\* ApiVersions is answered in any state and changes nothing else.
LEMMA ApiVersionsInv ==
    ASSUME IInv, NEW c \in Conn, NEW r \in ApiVersionsRequest, handleApiVersions(c, r)
    PROVE  IInv' /\ \A d \in Conn : KeepsSnapshot(d)
<1>1. /\ Shape'
      /\ \A d \in Conn \ {c} : UNCHANGED Mine(d)
      /\ UNCHANGED <<tenants, issued, ctxDone>>
  BY ZenonT(30) DEF IInv, Shape, Mine, handleApiVersions, Read, Respond, saslVars, upVars,
         catalogueVars
<1>2. /\ pc[c] = "read"
      /\ pc'[c] = "top" /\ req'[c] = r
      /\ resp'[c] = [code |-> 0, cid |-> r.cid, name |-> << >>]
      /\ UNCHANGED <<state[c], clientMechanism[c], tenant[c], password[c],
                     upstream[c], scramRoundsCompleted[c], sockets[c], peer[c],
                     corrIDGen[c], wire[c], inbuf[c]>>
  BY Zenon DEF IInv, Shape, handleApiVersions, Read, Respond, saslVars, upVars,
         catalogueVars
<1>3. ConnInv(c)
  BY Zenon DEF IInv
<1>4. /\ req'[c] \in Request /\ req'[c].api # "Data"
      /\ resp'[c] \in Response /\ resp'[c].cid = req'[c].cid
  <2>1. \E code \in {0, errSaslAuthFailed, errUnsupportedSaslMech, errIllegalSaslState} :
            resp'[c] = [code |-> code, cid |-> r.cid, name |-> << >>]
    BY <1>2, Zenon
  <2> QED
    BY <1>2, <2>1, SaslAnswer, ZenonT(60)
<1>5. Typed(c)'
  BY <1>2, <1>3, <1>4, Zenon DEF ConnInv, Typed, PC
<1>6. Control(c)'
  BY <1>2, <1>3, Zenon DEF ConnInv, Control
<1>7. Socket(c)'
  BY <1>2, <1>3, <1>1, Zenon DEF ConnInv, Socket, Dialing
<1>8. Principal(c)'
  BY <1>2, <1>3, ZenonT(60) DEF ConnInv, Principal, Control
<1>9. Frames(c)'
  BY <1>2, <1>3, Zenon DEF ConnInv, Frames, NameIn
<1>10. Answer(c)'
  BY <1>2, <1>4, Zenon DEF Answer
<1>11. KeepsSnapshot(c)
  BY <1>2, Zenon DEF KeepsSnapshot
<1> QED
  BY <1>1, <1>11, <1>5, <1>6, <1>7, <1>8, <1>9, <1>10, OneConnection, Zenon DEF ConnInv

\* handleSaslHandshake: the mechanism is recorded once, with the move to AwaitAuth.
LEMMA SaslHandshakeInv ==
    ASSUME IInv, NEW c \in Conn, NEW r \in SaslHandshakeRequest, handleSaslHandshake(c, r)
    PROVE  IInv' /\ \A d \in Conn : KeepsSnapshot(d)
<1>1. /\ Shape'
      /\ \A d \in Conn \ {c} : UNCHANGED Mine(d)
      /\ UNCHANGED <<tenants, issued, ctxDone>>
  BY ZenonT(60) DEF IInv, Shape, Mine, handleSaslHandshake, IllegalHandshake, Read, Respond,
         saslVars, upVars, catalogueVars
<1>2. /\ pc[c] = "read" /\ pc'[c] = "top" /\ req'[c] = r
      /\ \E code \in {0, errIllegalSaslState, errUnsupportedSaslMech} :
            resp'[c] = [code |-> code, cid |-> r.cid, name |-> << >>]
      /\ \/ state'[c] = state[c] /\ clientMechanism'[c] = clientMechanism[c]
         \/ /\ state[c] = "AwaitHandshake" /\ state'[c] = "AwaitAuth"
            /\ clientMechanism'[c] = r.mech /\ r.mech \in Mechanisms
      /\ UNCHANGED <<tenant[c], password[c], upstream[c], scramRoundsCompleted[c],
                     sockets[c], peer[c], corrIDGen[c], wire[c], inbuf[c]>>
  BY Zenon DEF IInv, Shape, handleSaslHandshake, IllegalHandshake, Read, Respond,
         saslVars, upVars, catalogueVars
<1>3. ConnInv(c)
  BY Zenon DEF IInv
<1>4. /\ req'[c] \in Request /\ req'[c].api # "Data"
      /\ resp'[c] \in Response /\ resp'[c].cid = req'[c].cid
  <2>1. \E code \in {0, errSaslAuthFailed, errUnsupportedSaslMech, errIllegalSaslState} :
            resp'[c] = [code |-> code, cid |-> r.cid, name |-> << >>]
    BY <1>2, Zenon
  <2> QED
    BY <1>2, <2>1, SaslAnswer, ZenonT(60)
<1>5. Typed(c)'
  BY <1>2, <1>3, <1>4, Zenon DEF ConnInv, Typed, PC, SaslState
<1>6. Control(c)'
  BY <1>2, <1>3, Zenon DEF ConnInv, Control, Mechanisms, ScramMechanisms
<1>7. Socket(c)'
  BY <1>2, <1>3, <1>1, Zenon DEF ConnInv, Socket, Dialing
<1>8. Principal(c)'
  BY <1>2, <1>3, Zenon DEF ConnInv, Principal, Control
<1>9. Frames(c)'
  BY <1>2, <1>3, ZenonT(60) DEF ConnInv, Frames, NameIn, Control
<1>10. Answer(c)'
  BY <1>2, <1>4, Zenon DEF Answer
<1>11. KeepsSnapshot(c)
  BY <1>2, Zenon DEF KeepsSnapshot
<1> QED
  BY <1>1, <1>11, <1>5, <1>6, <1>7, <1>8, <1>9, <1>10, OneConnection, Zenon DEF ConnInv

\* handleSaslAuthenticatePlain: the tenant comes from the catalogue, the password from
\* a PLAIN client.
LEMMA SaslPlainInv ==
    ASSUME IInv, NEW c \in Conn, NEW r \in SaslAuthenticateRequest, handleSaslAuthenticatePlain(c, r)
    PROVE  IInv' /\ \A d \in Conn : KeepsSnapshot(d)
<1>1. /\ Shape'
      /\ \A d \in Conn \ {c} : UNCHANGED Mine(d)
      /\ UNCHANGED <<tenants, issued, ctxDone>>
  BY ZenonT(60) DEF IInv, Shape, Mine, handleSaslAuthenticatePlain, IllegalPlain, Resolves,
         Read, Respond, saslVars, upVars, catalogueVars
<1>2. /\ pc[c] = "read" /\ pc'[c] = "top" /\ req'[c] = r /\ ~IsSCRAMMechanism(clientMechanism[c])
      /\ \E code \in {0, errIllegalSaslState, errSaslAuthFailed} :
            resp'[c] = [code |-> code, cid |-> r.cid, name |-> << >>]
      /\ \/ state'[c] = state[c] /\ tenant'[c] = tenant[c] /\ password'[c] = password[c]
         \/ /\ state[c] = "AwaitAuth" /\ state'[c] = "Authenticated"
            /\ tenant'[c] = Get(r.payload.user) /\ Get(r.payload.user) # ZeroTenant
            /\ r.payload.kind = "plain" /\ password'[c] = r.payload.pw
      /\ UNCHANGED <<clientMechanism[c], upstream[c], scramRoundsCompleted[c],
                     sockets[c], peer[c], corrIDGen[c], wire[c], inbuf[c]>>
  BY Zenon DEF IInv, Shape, handleSaslAuthenticatePlain, IllegalPlain, Resolves, Read,
         Respond, saslVars, upVars, catalogueVars
<1>3. ConnInv(c)
  BY Zenon DEF IInv
<1>4. Get(r.payload.user) # ZeroTenant => Get(r.payload.user) \in issued /\ Get(r.payload.user) \in ValidTenant
  BY <1>2, <1>3, Zenon DEF Get, IInv, CatalogueTypeOK
<1>5. r.payload.kind = "plain" => r.payload.pw \in Password
  BY <1>2, <1>3, Zenon DEF SaslAuthenticateRequest, Payload
<1>6. /\ req'[c] \in Request /\ req'[c].api # "Data"
      /\ resp'[c] \in Response /\ resp'[c].cid = req'[c].cid
  <2>1. \E code \in {0, errSaslAuthFailed, errUnsupportedSaslMech, errIllegalSaslState} :
            resp'[c] = [code |-> code, cid |-> r.cid, name |-> << >>]
    BY <1>2, Zenon
  <2> QED
    BY <1>2, <2>1, SaslAnswer, ZenonT(60)
<1>7. Typed(c)'
  BY <1>2, <1>3, <1>4, <1>5, <1>6, Zenon DEF ConnInv, Typed, PC, SaslState
<1>8. Control(c)'
  BY <1>2, <1>3, <1>4, <1>5, Zenon
     DEF ConnInv, Control, IsSCRAMMechanism, ScramMechanisms, Mechanisms, Typed
<1>9. Socket(c)'
  BY <1>2, <1>3, <1>4, <1>5, <1>1, Zenon DEF ConnInv, Socket, Dialing, Control
<1>10. Principal(c)'
  BY <1>2, <1>3, <1>4, <1>5, Zenon DEF ConnInv, Principal, Control
<1>11. Frames(c)'
  BY <1>2, <1>3, <1>4, <1>5, ZenonT(60) DEF ConnInv, Frames, NameIn, Control
<1>12. Answer(c)'
  BY <1>2, <1>6, Zenon DEF Answer
<1>13. KeepsSnapshot(c)
  BY <1>2, Zenon DEF KeepsSnapshot
<1> QED
  BY <1>1, <1>13, <1>7, <1>8, <1>9, <1>10, <1>11, <1>12, OneConnection, Zenon DEF ConnInv

\* handleSaslAuthenticateSCRAM up to the network: the dial is for the tenant that the
\* first message names.
LEMMA SaslScramInv ==
    ASSUME IInv, NEW c \in Conn, NEW r \in SaslAuthenticateRequest, handleSaslAuthenticateSCRAM(c, r)
    PROVE  IInv' /\ \A d \in Conn : KeepsSnapshot(d)
<1>1. /\ Shape'
      /\ \A d \in Conn \ {c} : UNCHANGED Mine(d)
      /\ UNCHANGED <<tenants, issued, ctxDone>>
  BY ZenonT(60) DEF IInv, Shape, Mine, handleSaslAuthenticateSCRAM, Resolves, Read, Respond,
         saslVars, upVars, catalogueVars
<1>2. /\ pc[c] = "read" /\ req'[c] = r /\ IsSCRAMMechanism(clientMechanism[c])
      /\ \/ /\ pc'[c] = "top" /\ tenant'[c] = tenant[c]
            /\ \E code \in {errIllegalSaslState, errSaslAuthFailed} :
                  resp'[c] = [code |-> code, cid |-> r.cid, name |-> << >>]
         \/ /\ state[c] = "AwaitAuth" /\ pc'[c] = "dialRelay" /\ resp'[c] = resp[c]
            /\ r.payload.kind = "first" /\ Get(r.payload.user) # ZeroTenant
            /\ tenant'[c] = Get(r.payload.user)
         \/ /\ state[c] = "RelaySaslInFlight" /\ pc'[c] = "relay" /\ resp'[c] = resp[c]
            /\ tenant'[c] = tenant[c]
      /\ UNCHANGED <<state[c], clientMechanism[c], password[c], upstream[c],
                     scramRoundsCompleted[c], sockets[c], peer[c], corrIDGen[c],
                     wire[c], inbuf[c]>>
  BY Zenon DEF IInv, Shape, handleSaslAuthenticateSCRAM, Resolves, Read, Respond,
         saslVars, upVars, catalogueVars
<1>3. ConnInv(c)
  BY Zenon DEF IInv
<1>4. Get(r.payload.user) # ZeroTenant =>
         /\ Get(r.payload.user) \in issued /\ Get(r.payload.user) \in ValidTenant
         /\ Get(r.payload.user).ID = r.payload.user
  BY <1>2, <1>3, Zenon DEF Get, IInv, CatalogueTypeOK
<1>5. /\ req'[c] \in Request /\ req'[c].api # "Data"
      /\ pc'[c] = "top" => resp'[c] \in Response /\ resp'[c].cid = req'[c].cid
  <2>1. r \in Request /\ r.api # "Data"
    BY RequestFacts, Zenon
  <2>2. ASSUME pc'[c] = "top"
        PROVE  \E code \in {0, errSaslAuthFailed, errUnsupportedSaslMech, errIllegalSaslState} :
                   resp'[c] = [code |-> code, cid |-> r.cid, name |-> << >>]
    BY <1>2, <2>2, Zenon
  <2> QED
    BY <1>2, <2>1, <2>2, SaslAnswer, ZenonT(60)
<1>6. Typed(c)'
  BY <1>2, <1>3, <1>4, <1>5, ZenonT(60) DEF ConnInv, Typed, PC
<1>7. Control(c)'
  BY <1>2, <1>3, <1>4, ZenonT(60) DEF ConnInv, Control, Socket
<1>8. Socket(c)'
  BY <1>2, <1>3, <1>4, <1>1, ZenonT(60) DEF ConnInv, Socket, Dialing, Control
<1>9. Principal(c)'
  BY <1>2, <1>3, <1>4, ZenonT(60) DEF ConnInv, Principal, Control, Socket, Dialing
<1>10. Frames(c)'
  BY <1>2, <1>3, <1>4, ZenonT(60) DEF ConnInv, Frames, NameIn, Control
<1>11. Answer(c)'
  BY <1>2, <1>3, <1>5, Zenon DEF ConnInv, Answer
<1>12. KeepsSnapshot(c)
  BY <1>2, Zenon DEF KeepsSnapshot
<1> QED
  BY <1>1, <1>12, <1>6, <1>7, <1>8, <1>9, <1>10, <1>11, OneConnection, Zenon DEF ConnInv

\* ensureUpstream dials for a PLAIN client only: a SCRAM client already has its upstream.
LEMMA EnsureUpstreamInv ==
    ASSUME IInv, NEW c \in Conn, NEW r \in DataRequest, ensureUpstream(c, r)
    PROVE  IInv' /\ \A d \in Conn : KeepsSnapshot(d)
<1>1. /\ Shape'
      /\ \A d \in Conn \ {c} : UNCHANGED Mine(d)
      /\ UNCHANGED <<tenants, issued, ctxDone>>
  BY ZenonT(30) DEF IInv, Shape, Mine, ensureUpstream, Read, saslVars, upVars, catalogueVars
<1>2. /\ state[c] = "Authenticated"
      /\ pc[c] = "read" /\ req'[c] = r
      /\ \/ upstream[c] /\ pc'[c] = "forward"
         \/ ~upstream[c] /\ pc'[c] = "dialBridge" /\ shouldTranslatePlainToSCRAM(c)
         \/ ~upstream[c] /\ pc'[c] = "dialPlain"
      /\ UNCHANGED <<state[c], clientMechanism[c], tenant[c], password[c],
                     upstream[c], scramRoundsCompleted[c], resp[c], sockets[c],
                     peer[c], corrIDGen[c], wire[c], inbuf[c]>>
  BY Zenon DEF IInv, Shape, ensureUpstream, Read, saslVars, upVars, catalogueVars
<1>3. ConnInv(c)
  BY Zenon DEF IInv
<1>4. Typed(c)'
  BY <1>2, <1>3, Zenon DEF ConnInv, Typed, PC, Request
<1>5. Control(c)'
  BY <1>2, <1>3, Zenon DEF ConnInv, Control, Typed, shouldTranslatePlainToSCRAM, Principal,
         Mechanisms, IsSCRAMMechanism
<1>6. Socket(c)'
  BY <1>2, <1>3, <1>1, Zenon DEF ConnInv, Socket, Dialing
<1>7. Principal(c)'
  BY <1>2, <1>3, Zenon DEF ConnInv, Principal, Control, Socket, Dialing
<1>8. Frames(c)'
  BY <1>2, <1>3, Zenon DEF ConnInv, Frames, NameIn
<1>9. Answer(c)'
  BY <1>2, <1>3, Zenon DEF ConnInv, Answer
<1>10. KeepsSnapshot(c)
  BY <1>2, Zenon DEF KeepsSnapshot
<1> QED
  BY <1>1, <1>10, <1>4, <1>5, <1>6, <1>7, <1>8, <1>9, OneConnection, Zenon DEF ConnInv

-----------------------------------------------------------------------------
\* The dials of upstream/conn.go.

\* dialAndNegotiate opens the only socket, to the address in the tenant record.
LEMMA DialConnectInv ==
    ASSUME IInv, NEW c \in Conn, DialConnect(c)
    PROVE  IInv' /\ \A d \in Conn : KeepsSnapshot(d)
<1>1. /\ Shape'
      /\ \A d \in Conn \ {c} : UNCHANGED Mine(d)
      /\ UNCHANGED <<tenants, issued, ctxDone>>
  BY ZenonT(30) DEF IInv, Shape, Mine, DialConnect, saslVars, upVars, catalogueVars
<1>2. /\ Dialing(c) /\ peer[c].phase = "none"
      /\ corrIDGen'[c] = 0 /\ sockets'[c] = sockets[c] + 1
      /\ peer'[c] = [NoPeer EXCEPT !.phase = "connected", !.addr = tenant[c].Upstream]
      /\ UNCHANGED <<pc[c], state[c], clientMechanism[c], tenant[c], password[c],
                     upstream[c], scramRoundsCompleted[c], req[c], resp[c],
                     wire[c], inbuf[c]>>
  BY Zenon DEF IInv, Shape, DialConnect, saslVars, upVars, catalogueVars
<1>3. ConnInv(c)
  BY Zenon DEF IInv
<1>4. ~upstream[c] /\ tenant[c] \in ValidTenant /\ pc[c] # "closed"
  BY <1>2, <1>3, Zenon DEF ConnInv, Control, Socket, Dialing, IInv, CatalogueTypeOK
<1>5. /\ peer'[c].phase = "connected" /\ peer'[c].addr = tenant[c].Upstream
      /\ peer'[c] \in Peer
  BY <1>2, <1>3, <1>4, Zenon DEF NoPeer, Peer, ValidTenant, Tenant
<1>6. Typed(c)'
  BY <1>2, <1>3, <1>4, <1>5, CidSpaceAssumption DEF ConnInv, Typed, Cid
<1>7. Control(c)'
  BY <1>2, <1>3, <1>4, <1>5 DEF ConnInv, Control, Dialing
<1>8. Socket(c)'
  BY <1>2, <1>3, <1>4, <1>5, <1>1 DEF ConnInv, Socket, Dialing
<1>9. Principal(c)'
  BY <1>2, <1>3, <1>4, <1>5, ZenonT(60) DEF ConnInv, Principal, Control, Dialing
<1>10. Frames(c)'
  BY <1>2, <1>3, <1>4, <1>5 DEF ConnInv, Frames, NameIn, Control, Dialing
<1>11. Answer(c)'
  BY <1>2, <1>3, <1>4, <1>5, Zenon DEF ConnInv, Answer
<1>12. KeepsSnapshot(c)
  BY <1>2, <1>4, Zenon DEF KeepsSnapshot
<1> QED
  BY <1>1, <1>12, <1>6, <1>7, <1>8, <1>9, <1>10, <1>11, OneConnection, Zenon DEF ConnInv

\* dialAndNegotiate: ApiVersions on the new socket.
LEMMA DialApiVersionsInv ==
    ASSUME IInv, NEW c \in Conn, DialApiVersions(c)
    PROVE  IInv' /\ \A d \in Conn : KeepsSnapshot(d)
<1>1. /\ Shape'
      /\ \A d \in Conn \ {c} : UNCHANGED Mine(d)
      /\ UNCHANGED <<tenants, issued, ctxDone>>
  BY ZenonT(30) DEF IInv, Shape, Mine, DialApiVersions, saslVars, upVars, catalogueVars
<1>2. /\ Dialing(c) /\ peer[c].phase = "connected"
      /\ peer'[c] = [peer[c] EXCEPT !.phase = "versioned"]
      /\ corrIDGen'[c] = nextCorrelationID(c)
      /\ UNCHANGED <<pc[c], state[c], clientMechanism[c], tenant[c], password[c],
                     upstream[c], scramRoundsCompleted[c], req[c], resp[c],
                     sockets[c], wire[c], inbuf[c]>>
  BY Zenon DEF IInv, Shape, DialApiVersions, saslVars, upVars, catalogueVars
<1>3. ConnInv(c)
  BY Zenon DEF IInv
<1>4. peer[c] \in Peer /\ peer'[c] \in Peer
  BY <1>2, <1>3 DEF ConnInv, Typed, Peer, NoPeer
<1>5. Typed(c)'
  BY <1>2, <1>3, <1>4, CidSpaceAssumption DEF ConnInv, Typed, nextCorrelationID, Cid
<1>6. Control(c)'
  BY <1>2, <1>3, <1>4 DEF ConnInv, Control
<1>7. Socket(c)'
  BY <1>2, <1>3, <1>4, <1>1, Zenon DEF ConnInv, Socket, Dialing, Peer
<1>8. Principal(c)'
  BY <1>2, <1>3, <1>4, ZenonT(60) DEF ConnInv, Principal, Control, Dialing, Peer
<1>9. Frames(c)'
  BY <1>2, <1>3, <1>4 DEF ConnInv, Frames, NameIn, Control, Dialing
<1>10. Answer(c)'
  BY <1>2, <1>3, <1>4, Zenon DEF ConnInv, Answer, Dialing
<1>11. KeepsSnapshot(c)
  BY <1>2, <1>3, Zenon DEF ConnInv, Control, KeepsSnapshot, Dialing
<1> QED
  BY <1>1, <1>11, <1>5, <1>6, <1>7, <1>8, <1>9, <1>10, OneConnection, Zenon DEF ConnInv

\* dialAndNegotiate: SaslHandshake; DialForSCRAM hands the socket over to the relay.
LEMMA DialSaslHandshakeInv ==
    ASSUME IInv, NEW c \in Conn, DialSaslHandshake(c)
    PROVE  IInv' /\ \A d \in Conn : KeepsSnapshot(d)
<1>1. /\ Shape'
      /\ \A d \in Conn \ {c} : UNCHANGED Mine(d)
      /\ UNCHANGED <<tenants, issued, ctxDone>>
  BY ZenonT(30) DEF IInv, Shape, Mine, DialSaslHandshake, saslVars, upVars, catalogueVars
<1>2. /\ Dialing(c) /\ peer[c].phase = "versioned"
      /\ peer'[c] = [peer[c] EXCEPT !.phase = "negotiated", !.mech = DialMechanism(c)]
      /\ corrIDGen'[c] = nextCorrelationID(c)
      /\ \/ /\ pc[c] = "dialRelay" /\ pc'[c] = "relay" /\ upstream'[c] = TRUE
            /\ state'[c] = "RelaySaslInFlight"
         \/ /\ pc[c] # "dialRelay" /\ pc'[c] = pc[c] /\ upstream'[c] = upstream[c]
            /\ state'[c] = state[c]
      /\ UNCHANGED <<clientMechanism[c], tenant[c], password[c],
                     scramRoundsCompleted[c], req[c], resp[c], sockets[c], wire[c],
                     inbuf[c]>>
  BY Zenon DEF IInv, Shape, DialSaslHandshake, saslVars, upVars, catalogueVars
<1>3. ConnInv(c)
  BY Zenon DEF IInv
<1>4. DialMechanism(c) \in Mechanisms /\ (pc[c] = "dialRelay" => DialMechanism(c) # "PLAIN")
  BY <1>2, <1>3, Zenon
     DEF ConnInv, Control, Dialing, DialMechanism, IsSCRAMMechanism, Mechanisms,
         ScramMechanisms
<1>5. peer[c] \in Peer
  BY <1>2, <1>3 DEF ConnInv, Typed, NoPeer
<1>6. peer'[c] \in Peer
  BY <1>2, <1>4, <1>5, Zenon DEF Peer
<1>7. /\ peer'[c].phase = "negotiated" /\ peer'[c].addr = peer[c].addr
      /\ peer'[c].mech = DialMechanism(c)
  BY <1>2, <1>5, Zenon DEF Peer
<1>8. corrIDGen'[c] \in Cid
  BY <1>2, <1>3, CidSpaceAssumption DEF ConnInv, Typed, nextCorrelationID, Cid
<1>9. Typed(c)'
  BY <1>2, <1>3, <1>6, <1>8, Zenon DEF ConnInv, Typed, PC, SaslState
<1>10. Control(c)'
  BY <1>2, <1>3, <1>4, <1>6, <1>7 DEF ConnInv, Control, Dialing
<1>11. Socket(c)'
  BY <1>2, <1>3, <1>4, <1>6, <1>7, <1>1, Zenon DEF ConnInv, Socket, Dialing
<1>12. Principal(c)'
  BY <1>2, <1>3, <1>4, <1>6, <1>7, ZenonT(60) DEF ConnInv, Principal, Control, Dialing
<1>13. Frames(c)'
  BY <1>2, <1>3, <1>4, <1>6, <1>7 DEF ConnInv, Frames, NameIn, Control, Dialing
<1>14. Answer(c)'
  BY <1>2, <1>3, <1>4, <1>6, <1>7, Zenon DEF ConnInv, Answer, Dialing
<1>15. KeepsSnapshot(c)
  BY <1>2, <1>3, Zenon DEF ConnInv, Control, KeepsSnapshot, Dialing
<1> QED
  BY <1>1, <1>15, <1>9, <1>10, <1>11, <1>12, <1>13, <1>14, OneConnection, Zenon DEF ConnInv

\* plainAuthenticate and scramAuthenticate authenticate the tenant itself.
LEMMA DialAuthenticateInv ==
    ASSUME IInv, NEW c \in Conn, DialAuthenticate(c)
    PROVE  IInv' /\ \A d \in Conn : KeepsSnapshot(d)
<1>1. /\ Shape'
      /\ \A d \in Conn \ {c} : UNCHANGED Mine(d)
      /\ UNCHANGED <<tenants, issued, ctxDone>>
  BY ZenonT(30) DEF IInv, Shape, Mine, DialAuthenticate, saslVars, upVars, catalogueVars
<1>2. /\ pc[c] \in {"dialPlain", "dialBridge"} /\ peer[c].phase \in {"negotiated", "challenged"}
      /\ Accepts(peer[c], DialMessage(c))
      /\ peer'[c] = BrokerSasl(peer[c], DialMessage(c))
      /\ corrIDGen'[c] = nextCorrelationID(c)
      /\ \/ /\ peer'[c].phase = "authenticated" /\ pc'[c] = "forward"
            /\ upstream'[c] = TRUE
         \/ /\ peer'[c].phase # "authenticated" /\ pc'[c] = pc[c]
            /\ upstream'[c] = upstream[c]
      /\ UNCHANGED <<state[c], clientMechanism[c], tenant[c], password[c],
                     scramRoundsCompleted[c], req[c], resp[c], sockets[c], wire[c],
                     inbuf[c]>>
  BY Zenon DEF IInv, Shape, DialAuthenticate, saslVars, upVars, catalogueVars
<1>3. ConnInv(c)
  BY Zenon DEF IInv
<1>4. tenant[c] \in ValidTenant
  BY <1>2, <1>3, ZenonT(60) DEF ConnInv, Socket, Dialing, IInv, CatalogueTypeOK
<1>5. peer[c] \in Peer
  <2>1. peer[c] \in Peer \cup {NoPeer}
    BY <1>3, Zenon DEF ConnInv, Typed
  <2>2. NoPeer.phase = "none"
    BY DEF NoPeer
  <2> QED
    BY <1>2, <2>1, <2>2, Zenon
<1>6. /\ DialMessage(c).user \in UserID \cup {"empty"}
      /\ DialMessage(c).kind # "final" => DialMessage(c).user = tenant[c].ID
  BY <1>4, ZenonT(60) DEF DialMessage, ValidTenant, Tenant
<1>7. /\ peer'[c] \in Peer /\ peer'[c].addr = peer[c].addr
      /\ peer'[c].phase \in {"challenged", "authenticated"}
      /\ peer'[c].user = tenant[c].ID
  <2> DEFINE m == DialMessage(c)
  <2>1. SaslStep(peer[c], m, BrokerSasl(peer[c], m))
    BY <1>5, <1>6, BrokerSaslFacts, ZenonT(60)
  <2>2. /\ SaslStep(peer[c], m, peer'[c])
        /\ m.kind # "final" => m.user = tenant[c].ID
    BY <1>2, <1>6, <2>1, ZenonT(60)
  <2>3. /\ Accepts(peer[c], m)
        /\ peer[c].phase = "challenged" => peer[c].user = tenant[c].ID
    BY <1>2, <1>3, ZenonT(60) DEF ConnInv, Principal
  <2> HIDE DEF m
  <2> QED
    BY <2>2, <2>3, ZenonT(60) DEF SaslStep
<1>8. corrIDGen'[c] \in Cid
  <2>1. corrIDGen[c] \in Cid
    BY <1>3, Zenon DEF ConnInv, Typed
  <2> QED
    BY <1>2, <2>1, NextCid, Zenon
<1>9. Typed(c)'
  BY <1>2, <1>3, <1>7, <1>8, Zenon DEF ConnInv, Typed, PC
<1>10. Control(c)'
  BY <1>2, <1>3, <1>4, <1>5, <1>7, Zenon DEF ConnInv, Control
<1>11. Socket(c)'
  BY <1>2, <1>3, <1>4, <1>5, <1>7, <1>1, Zenon DEF ConnInv, Socket, Dialing, Control
<1>12. Principal(c)'
  BY <1>2, <1>3, <1>4, <1>5, <1>7, Zenon DEF ConnInv, Principal, Control
<1>13. Frames(c)'
  <2>1. wire'[c] = NoFrame /\ inbuf'[c] = << >> /\ pc'[c] # "await"
    BY <1>2, <1>3, Zenon DEF ConnInv, Frames, Control
  <2> QED
    BY <2>1, NothingInFlight, Zenon
<1>14. Answer(c)'
  BY <1>2, <1>3, <1>4, <1>5, <1>7, Zenon DEF ConnInv, Answer
<1>15. KeepsSnapshot(c)
  BY <1>2, <1>3, Zenon DEF ConnInv, Control, KeepsSnapshot
<1> QED
  BY <1>1, <1>15, <1>9, <1>10, <1>11, <1>12, <1>13, <1>14, OneConnection, Zenon DEF ConnInv

\* The count of sockets stays a number when one is closed.
LEMMA OneLess == \A n \in Int : n - 1 \in Int
OBVIOUS

\* Closing the only socket leaves none.
LEMMA OneMinusOne == 1 - 1 = 0
OBVIOUS

\* A failed DialForSCRAM closes its socket and answers the client.
LEMMA DialForSCRAMFailsInv ==
    ASSUME IInv, NEW c \in Conn, DialForSCRAMFails(c)
    PROVE  IInv' /\ \A d \in Conn : KeepsSnapshot(d)
<1>1. /\ Shape'
      /\ \A d \in Conn \ {c} : UNCHANGED Mine(d)
      /\ UNCHANGED <<tenants, issued, ctxDone>>
  BY ZenonT(30) DEF IInv, Shape, Mine, DialForSCRAMFails, DialAborts, SocketsAfterAbort,
         Respond, saslVars, upVars, catalogueVars
<1>2. /\ pc[c] = "dialRelay"
      /\ peer'[c] = NoPeer /\ pc'[c] = "top"
      /\ sockets'[c] = IF peer[c].phase = "none" THEN sockets[c] ELSE sockets[c] - 1
      /\ resp'[c] = [code |-> errSaslAuthFailed, cid |-> req[c].cid, name |-> << >>]
      /\ UNCHANGED <<state[c], clientMechanism[c], tenant[c], password[c],
                     upstream[c], scramRoundsCompleted[c], req[c], corrIDGen[c],
                     wire[c], inbuf[c]>>
  BY Zenon DEF IInv, Shape, DialForSCRAMFails, DialAborts, SocketsAfterAbort, Respond,
         saslVars, upVars, catalogueVars
<1>3. ConnInv(c)
  BY Zenon DEF IInv
<1>4. /\ req[c] \in Request /\ req[c].api # "Data"
      /\ resp'[c] \in Response /\ resp'[c].cid = req[c].cid
  <2>1. req[c] \in SaslAuthenticateRequest
    BY <1>2, <1>3, Zenon DEF ConnInv, Control
  <2>2. \E code \in {0, errSaslAuthFailed, errUnsupportedSaslMech, errIllegalSaslState} :
            resp'[c] = [code |-> code, cid |-> req[c].cid, name |-> << >>]
    BY <1>2, Zenon
  <2> QED
    BY <2>1, <2>2, SaslAnswer, ZenonT(40)
<1>5. Typed(c)'
  <2>1. Typed(c)
    BY <1>3, ZenonT(30) DEF ConnInv
  <2>2. sockets'[c] \in Int
    BY <1>2, <2>1, OneLess, Zenon DEF Typed
  <2> QED
    BY <1>2, <1>4, <2>1, <2>2, Zenon DEF Typed, PC
<1>6. Control(c)'
  BY <1>2, <1>3, Zenon DEF ConnInv, Control
<1>7. Socket(c)'
  <2>1. state[c] = "AwaitAuth" /\ ~upstream[c] /\ Socket(c)
    BY <1>2, <1>3, Zenon DEF ConnInv, Control
  <2>2. sockets'[c] = 0
    BY <1>2, <2>1, OneMinusOne, Zenon DEF Socket
  <2>3. peer'[c].phase = "none"
    <3>1. NoPeer.phase = "none"
      BY DEF NoPeer
    <3> QED
      BY <1>2, <3>1, Zenon
  <2> QED
    BY <1>1, <1>2, <2>1, <2>2, <2>3, Zenon DEF Socket, Dialing
<1>8. Principal(c)'
  BY <1>2, <1>3, Zenon DEF ConnInv, Principal, Control
<1>9. Frames(c)'
  BY <1>2, <1>3, Zenon DEF ConnInv, Frames, NameIn
<1>10. Answer(c)'
  BY <1>2, <1>4, Zenon DEF Answer
<1>11. KeepsSnapshot(c)
  BY <1>2, <1>3, Zenon DEF ConnInv, Control, KeepsSnapshot
<1> QED
  BY <1>1, <1>11, <1>5, <1>6, <1>7, <1>8, <1>9, <1>10, OneConnection, Zenon DEF ConnInv

\* A failed dial in ensureUpstream closes its socket and ends the connection.
LEMMA EnsureUpstreamFailsInv ==
    ASSUME IInv, NEW c \in Conn, ensureUpstreamFails(c)
    PROVE  IInv' /\ \A d \in Conn : KeepsSnapshot(d)
<1>1. /\ Shape'
      /\ \A d \in Conn \ {c} : UNCHANGED Mine(d)
      /\ UNCHANGED <<tenants, issued, ctxDone>>
  BY ZenonT(30) DEF IInv, Shape, Mine, ensureUpstreamFails, DialAborts, SocketsAfterAbort,
         saslVars, upVars, catalogueVars
<1>2. /\ pc[c] \in {"dialPlain", "dialBridge"}
      /\ peer'[c] = NoPeer /\ pc'[c] = "closed" /\ req'[c] = NoRequest
      /\ sockets'[c] = IF peer[c].phase = "none" THEN sockets[c] ELSE sockets[c] - 1
      /\ UNCHANGED <<state[c], clientMechanism[c], tenant[c], password[c],
                     upstream[c], scramRoundsCompleted[c], resp[c], corrIDGen[c],
                     wire[c], inbuf[c]>>
  BY Zenon DEF IInv, Shape, ensureUpstreamFails, DialAborts, SocketsAfterAbort, saslVars,
         upVars, catalogueVars
<1>3. ConnInv(c)
  BY Zenon DEF IInv
<1>4. Typed(c)'
  <2>1. Typed(c)
    BY <1>3, ZenonT(30) DEF ConnInv
  <2>2. sockets'[c] \in Int
    BY <1>2, <2>1, OneLess, Zenon DEF Typed
  <2> QED
    BY <1>2, <2>1, <2>2, Zenon DEF Typed, PC
<1>5. Control(c)'
  BY <1>2, <1>3, Zenon DEF ConnInv, Control
<1>6. Socket(c)'
  <2>1. state[c] = "Authenticated" /\ Socket(c)
    BY <1>2, <1>3, ZenonT(30) DEF ConnInv, Control
  <2>2. sockets'[c] = 0 /\ tenant[c] \in issued
    BY <1>2, <2>1, OneMinusOne, Zenon DEF Socket
  <2> QED
    BY <1>1, <1>2, <2>1, <2>2, Zenon DEF Socket
<1>7. Principal(c)'
  BY <1>2, <1>3, Zenon DEF ConnInv, Principal
<1>8. Frames(c)'
  BY <1>2, <1>3, Zenon DEF ConnInv, Frames, NameIn, Control
<1>9. Answer(c)'
  BY <1>2, <1>3, Zenon DEF ConnInv, Answer
<1>10. KeepsSnapshot(c)
  BY <1>2, Zenon DEF KeepsSnapshot
<1> QED
  BY <1>1, <1>10, <1>4, <1>5, <1>6, <1>7, <1>8, <1>9, OneConnection, Zenon DEF ConnInv


-----------------------------------------------------------------------------
(* Relaying SCRAM, forwarding and answering requests keep it.              *)

\* RelaySASLAuthenticate: the count of answered rounds follows the broker, so that the
\* second one is the broker's acceptance of the tenant.
LEMMA RelayInv ==
    ASSUME IInv, NEW c \in Conn, RelaySASLAuthenticate(c)
    PROVE  IInv' /\ \A d \in Conn : KeepsSnapshot(d)
<1>1. /\ Shape'
      /\ \A d \in Conn \ {c} : UNCHANGED Mine(d)
      /\ UNCHANGED <<tenants, issued, ctxDone>>
  BY ZenonT(30) DEF IInv, Shape, Mine, RelaySASLAuthenticate, ScramRounds, Respond, saslVars,
         upVars, catalogueVars
<1>2. /\ pc[c] = "relay" /\ peer[c].phase # "failed"
      /\ peer'[c] = BrokerSasl(peer[c], req[c].payload)
      /\ corrIDGen'[c] = nextCorrelationID(c) /\ pc'[c] = "top"
      /\ \/ /\ peer'[c].phase = "failed"
            /\ state'[c] = state[c] /\ scramRoundsCompleted'[c] = scramRoundsCompleted[c]
            /\ resp'[c] = [code |-> errSaslAuthFailed, cid |-> req[c].cid, name |-> << >>]
         \/ /\ peer'[c].phase # "failed"
            /\ scramRoundsCompleted'[c] = scramRoundsCompleted[c] + 1
            /\ state'[c] = IF scramRoundsCompleted'[c] >= 2 THEN "Authenticated" ELSE state[c]
            /\ resp'[c] = [code |-> 0, cid |-> req[c].cid, name |-> << >>]
      /\ UNCHANGED <<clientMechanism[c], tenant[c], password[c], upstream[c],
                     req[c], sockets[c], wire[c], inbuf[c]>>
  BY Zenon DEF IInv, Shape, RelaySASLAuthenticate, ScramRounds, Respond, saslVars,
         upVars, catalogueVars
<1>3. ConnInv(c)
  BY Zenon DEF IInv
<1>4. /\ state[c] = "RelaySaslInFlight" /\ upstream[c] /\ scramRoundsCompleted[c] \in 0 .. 1
      /\ IsSCRAMMechanism(clientMechanism[c]) /\ req[c] \in SaslAuthenticateRequest
  BY <1>2, <1>3, Zenon DEF ConnInv, Control
<1>5. /\ peer[c].phase \in {"negotiated", "challenged"} /\ peer[c].mech # "PLAIN"
      /\ peer[c].phase = "negotiated" =>
            req[c].payload.user = tenant[c].ID /\ scramRoundsCompleted[c] = 0
      /\ peer[c].phase = "challenged" =>
            peer[c].user = tenant[c].ID /\ scramRoundsCompleted[c] = 1
  BY <1>2, <1>3, <1>4, Zenon DEF ConnInv, Principal
<1>6. peer[c] \in Peer
  <2>1. peer[c] \in Peer \cup {NoPeer}
    BY <1>3, Zenon DEF ConnInv, Typed
  <2>2. NoPeer.phase = "none"
    BY DEF NoPeer
  <2> QED
    BY <1>5, <2>1, <2>2, Zenon
<1>7. req[c].payload.user \in UserID \cup {"empty"}
  BY <1>4, RequestFacts, Zenon DEF Payload
<1>8. /\ peer'[c] \in Peer /\ peer'[c].addr = peer[c].addr /\ peer'[c].mech # "PLAIN"
      /\ peer'[c].phase # "failed" =>
            /\ peer'[c].user = tenant[c].ID
            /\ \/ scramRoundsCompleted[c] = 0 /\ peer'[c].phase = "challenged"
               \/ scramRoundsCompleted[c] = 1 /\ peer'[c].phase = "authenticated"
  <2> DEFINE m == req[c].payload
  <2> DEFINE q == BrokerSasl(peer[c], m)
  <2>1. /\ q \in Peer /\ q.addr = peer[c].addr /\ q.mech = peer[c].mech
        /\ ~Accepts(peer[c], m) => q.phase = "failed"
        /\ Accepts(peer[c], m) /\ peer[c].phase = "challenged" =>
              q.phase = "authenticated" /\ q.user = peer[c].user
        /\ Accepts(peer[c], m) /\ peer[c].phase # "challenged" =>
              /\ peer[c].phase = "negotiated" /\ q.user = m.user
              /\ peer[c].mech = "PLAIN" \/ q.phase = "challenged"
    BY <1>6, <1>7, BrokerSaslFacts, ZenonT(60) DEF SaslStep
  <2> QED
    BY <1>2, <1>5, <2>1, Zenon
<1>9. \/ /\ peer'[c].phase = "failed" /\ state'[c] = "RelaySaslInFlight"
         /\ scramRoundsCompleted'[c] \in 0 .. 1
      \/ /\ peer'[c].phase = "challenged" /\ state'[c] = "RelaySaslInFlight"
         /\ scramRoundsCompleted'[c] = 1 /\ peer'[c].user = tenant[c].ID
      \/ /\ peer'[c].phase = "authenticated" /\ state'[c] = "Authenticated"
         /\ scramRoundsCompleted'[c] = 2 /\ peer'[c].user = tenant[c].ID
  <2>1. 0 + 1 = 1 /\ 1 + 1 = 2 /\ ~(1 >= 2) /\ 2 >= 2
    OBVIOUS
  <2> QED
    BY <1>2, <1>4, <1>8, <2>1, ZenonT(60)
<1>10. /\ req[c] \in Request /\ req[c].api # "Data"
       /\ resp'[c] \in Response /\ resp'[c].cid = req[c].cid
  <2>1. \E code \in {0, errSaslAuthFailed, errUnsupportedSaslMech, errIllegalSaslState} :
            resp'[c] = [code |-> code, cid |-> req[c].cid, name |-> << >>]
    BY <1>2, Zenon
  <2> QED
    BY <1>4, <2>1, SaslAnswer
<1>11. corrIDGen'[c] \in Cid
  <2>1. corrIDGen[c] \in Cid
    BY <1>3, Zenon DEF ConnInv, Typed
  <2> QED
    BY <1>2, <2>1, NextCid, Zenon
<1>12. Typed(c)'
  <2>1. 0 .. 1 \subseteq 0 .. 2 /\ {1, 2} \subseteq 0 .. 2
    OBVIOUS
  <2> QED
    BY <1>2, <1>3, <1>8, <1>9, <1>10, <1>11, <2>1, Zenon
       DEF ConnInv, Typed, PC, SaslState, ScramRounds
<1>13. Control(c)'
  <2>1. 1 \in 0 .. 1
    OBVIOUS
  <2> QED
    BY <1>2, <1>3, <1>4, <1>9, <2>1, Zenon DEF ConnInv, Control
<1>14. Socket(c)'
  BY <1>1, <1>2, <1>3, <1>4, <1>8, <1>9, Zenon DEF ConnInv, Socket, Dialing
<1>15. Principal(c)'
  BY <1>2, <1>4, <1>8, <1>9, Zenon DEF Principal
<1>16. Frames(c)'
  <2>1. wire'[c] = NoFrame /\ inbuf'[c] = << >> /\ pc'[c] # "await"
    BY <1>2, <1>3, <1>4, Zenon DEF ConnInv, Frames
  <2> QED
    BY <2>1, NothingInFlight, Zenon
<1>17. Answer(c)'
  BY <1>2, <1>10, Zenon DEF Answer
<1>18. KeepsSnapshot(c)
  BY <1>2, <1>4, Zenon DEF KeepsSnapshot
<1> QED
  BY <1>1, <1>18, <1>12, <1>13, <1>14, <1>15, <1>16, <1>17, OneConnection, Zenon DEF ConnInv

\* RoundTrip writes the request under a correlation id no frame in the buffer has.
LEMMA ForwardInv ==
    ASSUME IInv, NEW c \in Conn, Forward(c)
    PROVE  IInv' /\ \A d \in Conn : KeepsSnapshot(d)
<1>1. /\ Shape'
      /\ \A d \in Conn \ {c} : UNCHANGED Mine(d)
      /\ UNCHANGED <<tenants, issued, ctxDone>>
  BY ZenonT(30) DEF IInv, Shape, Mine, Forward, saslVars, upVars, catalogueVars
<1>2. /\ pc[c] = "forward"
      /\ corrIDGen'[c] = nextCorrelationID(c) /\ pc'[c] = "await"
      /\ wire'[c] = [cid |-> nextCorrelationID(c), name |-> NameIn(c)]
      /\ UNCHANGED <<state[c], clientMechanism[c], tenant[c], password[c],
                     upstream[c], scramRoundsCompleted[c], req[c], resp[c],
                     sockets[c], peer[c], inbuf[c]>>
  BY Zenon DEF IInv, Shape, Forward, saslVars, upVars, catalogueVars
<1>3. ConnInv(c)
  BY Zenon DEF IInv
<1>4. nextCorrelationID(c) \in Cid /\ nextCorrelationID(c) # corrIDGen[c]
  <2>1. corrIDGen[c] \in Cid
    BY <1>3, Zenon DEF ConnInv, Typed
  <2> QED
    BY <2>1, NextCid, Zenon
<1>5. tenant[c].TopicPrefix \in Prefix /\ req[c].name \in Name
  BY <1>2, <1>3, RequestFacts, Zenon
     DEF ConnInv, Control, Socket, IInv, CatalogueTypeOK, ValidTenant, Tenant
<1>6. NameIn(c) \in ClusterName
  <2>1. \A p \in Prefix, n \in Name : PrefixIn(p, n) \in ClusterName /\ n \in ClusterName
    BY DEF ClusterName
  <2> QED
    BY <1>5, <2>1, Zenon DEF NameIn
<1>7. wire'[c] \in Frame /\ wire'[c].cid = corrIDGen'[c] /\ wire'[c].name = NameIn(c)
  <2>1. \A i \in Cid, n \in ClusterName :
            LET f == [cid |-> i, name |-> n] IN f \in Frame /\ f.cid = i /\ f.name = n
    BY DEF Frame
  <2> QED
    BY <1>2, <1>4, <1>6, <2>1, ZenonT(60)
<1>8. NameIn(c)' = NameIn(c)
  BY <1>2, Zenon DEF NameIn
<1>9. /\ \A i \in 1 .. Len(inbuf[c]) : inbuf[c][i].cid # corrIDGen'[c]
      /\ inbuf[c] # << >> => 1 \in 1 .. Len(inbuf[c])
  <2>1. inbuf[c] \in Seq(Frame) /\ \A i \in 1 .. Len(inbuf[c]) : inbuf[c][i].cid = corrIDGen[c]
    BY <1>2, <1>3, Zenon DEF ConnInv, Typed, Frames
  <2>2. inbuf[c] # << >> => 1 \in 1 .. Len(inbuf[c])
    BY <2>1
  <2> QED
    BY <1>2, <1>4, <2>1, <2>2, Zenon
<1>10. Typed(c)'
  BY <1>2, <1>3, <1>4, <1>7, Zenon DEF ConnInv, Typed, PC
<1>11. Control(c)'
  BY <1>2, <1>3, <1>4, <1>6, Zenon DEF ConnInv, Control
<1>12. Socket(c)'
  BY <1>2, <1>3, <1>4, <1>6, <1>1, Zenon DEF ConnInv, Socket, Dialing, Control
<1>13. Principal(c)'
  BY <1>2, <1>3, <1>4, <1>6, Zenon DEF ConnInv, Principal, Control
<1>14. Frames(c)'
  <2>1. /\ pc'[c] = "await" /\ upstream'[c] /\ state'[c] = "Authenticated"
        /\ UNCHANGED inbuf[c]
        /\ wire'[c] = [cid |-> corrIDGen'[c], name |-> NameIn(c)']
    BY <1>2, <1>3, <1>8, Zenon DEF ConnInv, Control
  <2> QED
    BY <1>9, <2>1, Zenon DEF Frames
<1>15. Answer(c)'
  BY <1>2, <1>3, <1>4, <1>6, Zenon DEF ConnInv, Answer
<1>16. KeepsSnapshot(c)
  BY <1>2, Zenon DEF KeepsSnapshot
<1> QED
  BY <1>1, <1>16, <1>10, <1>11, <1>12, <1>13, <1>14, <1>15, OneConnection, Zenon DEF ConnInv

\* The broker answers, once or twice, behind whatever it sent before.
LEMMA BrokerAnswersInv ==
    ASSUME IInv, NEW c \in Conn, NEW copies \in 1 .. 2, BrokerAnswers(c, copies)
    PROVE  IInv' /\ \A d \in Conn : KeepsSnapshot(d)
<1>1. /\ Shape'
      /\ \A d \in Conn \ {c} : UNCHANGED Mine(d)
      /\ UNCHANGED <<tenants, issued, ctxDone>>
  BY ZenonT(30) DEF IInv, Shape, Mine, BrokerAnswers, saslVars, upVars, catalogueVars
<1>2. /\ wire[c] # NoFrame
      /\ wire'[c] = NoFrame
      /\ \/ inbuf'[c] = Append(inbuf[c], wire[c])
         \/ inbuf'[c] = Append(Append(inbuf[c], wire[c]), wire[c])
      /\ UNCHANGED <<pc[c], state[c], clientMechanism[c], tenant[c], password[c],
                     upstream[c], scramRoundsCompleted[c], req[c], resp[c],
                     sockets[c], peer[c], corrIDGen[c]>>
  BY Zenon DEF IInv, Shape, BrokerAnswers, saslVars, upVars, catalogueVars
<1>3. ConnInv(c)
  BY Zenon DEF IInv
<1>4. wire[c] \in Frame /\ pc[c] = "await"
  BY <1>2, <1>3, Zenon DEF ConnInv, Typed, Frames
<1>5. inbuf[c] \in Seq(Frame)
  BY <1>3, Zenon DEF ConnInv, Typed
<1>6. /\ inbuf'[c] \in Seq(Frame) /\ inbuf'[c] # << >>
      /\ \A i \in 1 .. Len(inbuf'[c]) :
            \/ inbuf'[c][i] = wire[c]
            \/ i \in 1 .. Len(inbuf[c]) /\ inbuf'[c][i] = inbuf[c][i]
      /\ inbuf[c] # << >> => 1 \in 1 .. Len(inbuf[c]) /\ inbuf'[c][1] = inbuf[c][1]
      /\ inbuf[c] = << >> => \A i \in 1 .. Len(inbuf'[c]) : inbuf'[c][i] = wire[c]
  <2>1. CASE inbuf'[c] = Append(inbuf[c], wire[c])
    BY <1>4, <1>5, <2>1
  <2>2. CASE inbuf'[c] = Append(Append(inbuf[c], wire[c]), wire[c])
    BY <1>4, <1>5, <2>2
  <2> QED
    BY <1>2, <2>1, <2>2
<1>7. Typed(c)'
  BY <1>2, <1>3, <1>6, Zenon DEF ConnInv, Typed
<1>8. Control(c)'
  BY <1>2, <1>3, <1>4, Zenon DEF ConnInv, Control
<1>9. Socket(c)'
  BY <1>2, <1>3, <1>4, <1>1, Zenon DEF ConnInv, Socket, Dialing
<1>10. Principal(c)'
  BY <1>2, <1>3, <1>4, Zenon DEF ConnInv, Principal
<1>11. Frames(c)'
  <2>1. /\ wire[c] = [cid |-> corrIDGen[c], name |-> NameIn(c)]
        /\ \A i \in 1 .. Len(inbuf[c]) : inbuf[c][i].cid # corrIDGen[c]
        /\ state[c] = "Authenticated" /\ upstream[c]
    BY <1>2, <1>3, <1>4, Zenon DEF ConnInv, Frames, Control
  <2>2. wire[c].cid = corrIDGen[c] /\ wire[c].name = NameIn(c)
    BY <2>1
  <2>3. \A i \in 1 .. Len(inbuf'[c]) :
           inbuf'[c][i].cid = corrIDGen[c] => inbuf'[c][i].name = NameIn(c)
    BY <1>6, <2>1, <2>2, Zenon
  <2>4. inbuf'[c][1].cid = corrIDGen[c] =>
           \A i \in 1 .. Len(inbuf'[c]) : inbuf'[c][i].cid = corrIDGen[c]
    BY <1>6, <2>1, <2>2, Zenon
  <2>5. NameIn(c)' = NameIn(c)
    BY <1>2, Zenon DEF NameIn
  <2>6. /\ pc'[c] = "await" /\ wire'[c] = NoFrame /\ UNCHANGED corrIDGen[c]
        /\ upstream'[c] /\ state'[c] = "Authenticated"
    BY <1>2, <1>4, <2>1, Zenon
  <2> QED
    BY <2>3, <2>4, <2>5, <2>6, Zenon DEF Frames
<1>12. Answer(c)'
  BY <1>2, <1>3, <1>4, Zenon DEF ConnInv, Answer
<1>13. KeepsSnapshot(c)
  BY <1>2, Zenon DEF KeepsSnapshot
<1> QED
  BY <1>1, <1>13, <1>7, <1>8, <1>9, <1>10, <1>11, <1>12, OneConnection, Zenon DEF ConnInv

\* RoundTrip takes the matching frame; what stays in the buffer has the id just used.
LEMMA RoundTripInv ==
    ASSUME IInv, NEW c \in Conn, RoundTrip(c)
    PROVE  IInv' /\ \A d \in Conn : KeepsSnapshot(d)
<1>1. /\ Shape'
      /\ \A d \in Conn \ {c} : UNCHANGED Mine(d)
      /\ UNCHANGED <<tenants, issued, ctxDone>>
  BY ZenonT(30) DEF IInv, Shape, Mine, RoundTrip, FrameMatches, Respond, saslVars, upVars,
         catalogueVars
<1>2. /\ pc[c] = "await" /\ inbuf[c] # << >> /\ Head(inbuf[c]).cid = corrIDGen[c]
      /\ pc'[c] = "top" /\ inbuf'[c] = Tail(inbuf[c])
      /\ resp'[c] = [code |-> 0, cid |-> req[c].cid, name |-> NameOut(c, Head(inbuf[c]).name)]
      /\ UNCHANGED <<state[c], clientMechanism[c], tenant[c], password[c],
                     upstream[c], scramRoundsCompleted[c], req[c], sockets[c],
                     peer[c], corrIDGen[c], wire[c]>>
  BY Zenon DEF IInv, Shape, RoundTrip, FrameMatches, Respond, saslVars, upVars,
         catalogueVars
<1>3. ConnInv(c)
  BY Zenon DEF IInv
<1>4. inbuf[c] \in Seq(Frame) /\ req[c] \in DataRequest
  BY <1>2, <1>3, Zenon DEF ConnInv, Typed, Control
<1>5. 1 \in 1 .. Len(inbuf[c]) /\ Head(inbuf[c]) = inbuf[c][1]
  BY <1>2, <1>4
<1>6. /\ Head(inbuf[c]).name = NameIn(c)
      /\ \A i \in 1 .. Len(inbuf[c]) : inbuf[c][i].cid = corrIDGen[c]
      /\ wire[c] = NoFrame /\ upstream[c] /\ state[c] = "Authenticated"
  BY <1>2, <1>3, <1>5, Zenon DEF ConnInv, Frames, Control
<1>7. /\ inbuf'[c] \in Seq(Frame)
      /\ \A i \in 1 .. Len(inbuf'[c]) : inbuf'[c][i].cid = corrIDGen[c]
  <2>1. /\ Tail(inbuf[c]) \in Seq(Frame)
        /\ \A i \in 1 .. Len(Tail(inbuf[c])) :
              i + 1 \in 1 .. Len(inbuf[c]) /\ Tail(inbuf[c])[i] = inbuf[c][i + 1]
    BY <1>4, <1>5
  <2>2. \A i \in 1 .. Len(Tail(inbuf[c])) : Tail(inbuf[c])[i].cid = corrIDGen[c]
    BY <1>6, <2>1, Zenon
  <2>3. inbuf'[c] = Tail(inbuf[c])
    BY <1>2, Zenon
  <2> QED
    BY <2>1, <2>2, <2>3
<1>8. tenant[c].TopicPrefix \in Seq(Char) /\ req[c].name \in Seq(Char)
  BY <1>2, <1>3, <1>6, PrefixAssumption, NameAssumption, Zenon
     DEF ConnInv, Control, Socket, IInv, CatalogueTypeOK, ValidTenant, Tenant,
         DataRequest
<1>9. NameOut(c, Head(inbuf[c]).name) = req[c].name
  BY <1>2, <1>3, <1>6, <1>8, StripUndoesPrefix, ZenonT(60) DEF NameIn, NameOut
<1>10. /\ req[c] \in Request /\ resp'[c] \in Response /\ resp'[c].cid = req[c].cid
      /\ resp'[c].name = req[c].name
  <2>1. req[c] \in Request /\ req[c].cid \in ClientCid /\ req[c].name \in Name
    BY <1>4, RequestFacts, Zenon
  <2>2. resp'[c] = [code |-> 0, cid |-> req[c].cid, name |-> req[c].name]
    BY <1>2, <1>9, Zenon
  <2> QED
    BY <2>1, <2>2, ResponseFacts
<1>11. Typed(c)'
  BY <1>2, <1>3, <1>10, <1>7, Zenon DEF ConnInv, Typed, PC
<1>12. Control(c)'
  BY <1>2, <1>3, <1>6, <1>8, <1>9, Zenon DEF ConnInv, Control
<1>13. Socket(c)'
  BY <1>2, <1>3, <1>6, <1>8, <1>9, <1>1, Zenon DEF ConnInv, Socket, Dialing, Control
<1>14. Principal(c)'
  BY <1>2, <1>3, <1>6, <1>8, <1>9, Zenon DEF ConnInv, Principal, Control
<1>15. Frames(c)'
  BY <1>2, <1>6, <1>7, Zenon DEF Frames
<1>16. Answer(c)'
  BY <1>2, <1>10, Zenon DEF Answer
<1>17. KeepsSnapshot(c)
  BY <1>2, Zenon DEF KeepsSnapshot
<1> QED
  BY <1>1, <1>17, <1>11, <1>12, <1>13, <1>14, <1>15, <1>16, OneConnection, Zenon DEF ConnInv

-----------------------------------------------------------------------------
(* All steps keep it, and it implies the properties.                       *)

\* A new connection has done nothing, and the catalogue has issued its records.
LEMMA InitInv == Init => IInv
<1> SUFFICES ASSUME Init
             PROVE  IInv
  OBVIOUS
<1>1. CatalogueTypeOK /\ ctxDone \in BOOLEAN
  <2>1. PICK ids \in SUBSET UserID :
           tenants \in [ids -> ValidTenant] /\ \A id \in ids : tenants[id].ID = id
    BY Zenon DEF Init, CatalogueInit, newMemoryResolver
  <2>2. issued = {tenants[id] : id \in DOMAIN tenants} /\ ctxDone = FALSE
    BY Zenon DEF Init, CatalogueInit
  <2> QED
    BY <2>1, <2>2, Zenon DEF CatalogueTypeOK
<1>2. Shape
  BY DEF Init, Shape
<1>3. ASSUME NEW c \in Conn
      PROVE  ConnInv(c)
  <2>1. /\ pc[c] = "top" /\ state[c] = "AwaitHandshake" /\ clientMechanism[c] = "empty"
        /\ tenant[c] = ZeroTenant /\ password[c] = "empty" /\ upstream[c] = FALSE
        /\ scramRoundsCompleted[c] = 0 /\ req[c] = NoRequest /\ resp[c] = NoResponse
        /\ sockets[c] = 0 /\ peer[c] = NoPeer /\ corrIDGen[c] = 0 /\ wire[c] = NoFrame
        /\ inbuf[c] = << >>
    BY DEF Init
  <2>2. Typed(c)
    <3>1. 0 \in Cid /\ 0 \in 0 .. ScramRounds /\ 0 \in Int /\ << >> \in Seq(Frame)
      BY CidSpaceAssumption DEF Cid, ScramRounds
    <3> QED
      BY <2>1, <3>1, Zenon DEF Typed, PC, SaslState
  <2>3. Control(c)
    BY <2>1 DEF Control
  <2>4. Socket(c)
    BY <2>1 DEF Socket, Dialing, NoPeer
  <2>5. Principal(c)
    BY <2>1 DEF Principal
  <2>6. Frames(c) /\ Answer(c)
    BY <2>1 DEF Frames, Answer
  <2> QED
    BY <2>2, <2>3, <2>4, <2>5, <2>6 DEF ConnInv
<1> QED
  BY <1>1, <1>2, <1>3 DEF IInv

\* Editing the catalogue, cancelling the context and doing nothing leave the
\* connections alone; the records of the connections stay issued.
LEMMA EnvironmentInv ==
    ASSUME IInv,
           \/ \E t \in Tenant : AdminSet(t)
           \/ \E id \in UserID : AdminDelete(id)
           \/ Shutdown
           \/ UNCHANGED vars
    PROVE  IInv' /\ \A d \in Conn : KeepsSnapshot(d)
<1>1. CatalogueTypeOK' /\ issued \subseteq issued'
  <2>1. CASE \E t \in Tenant : AdminSet(t)
    <3> PICK t \in Tenant : AdminSet(t)
      BY <2>1
    <3>1. PICK ids \in SUBSET UserID : tenants \in [ids -> ValidTenant]
      BY DEF IInv, CatalogueTypeOK
    <3>2. /\ t \in ValidTenant /\ DOMAIN tenants = ids
          /\ tenants' = [i \in ids \cup {t.ID} |-> IF i = t.ID THEN t ELSE tenants[i]]
          /\ issued' = issued \cup {t}
      BY <3>1 DEF AdminSet, Set, ValidTenant
    <3>3. ids \cup {t.ID} \in SUBSET UserID
      BY DEF Tenant
    <3>4. tenants' \in [ids \cup {t.ID} -> ValidTenant]
      BY <3>1, <3>2
    <3>5. \A id \in DOMAIN tenants' : tenants'[id].ID = id /\ tenants'[id] \in issued'
      BY <3>1, <3>2 DEF IInv, CatalogueTypeOK
    <3> QED
      BY <3>2, <3>3, <3>4, <3>5 DEF IInv, CatalogueTypeOK
  <2>2. CASE \E id \in UserID : AdminDelete(id)
    <3> PICK id \in UserID : AdminDelete(id)
      BY <2>2
    <3>1. PICK ids \in SUBSET UserID : tenants \in [ids -> ValidTenant]
      BY DEF IInv, CatalogueTypeOK
    <3>2. /\ DOMAIN tenants = ids /\ issued' = issued
          /\ tenants' = [i \in ids \ {id} |-> tenants[i]]
      BY <3>1 DEF AdminDelete, Delete
    <3>3. tenants' \in [ids \ {id} -> ValidTenant]
      BY <3>1, <3>2
    <3>4. \A i \in DOMAIN tenants' : tenants'[i].ID = i /\ tenants'[i] \in issued'
      BY <3>1, <3>2 DEF IInv, CatalogueTypeOK
    <3>5. ids \ {id} \in SUBSET UserID
      BY <3>1
    <3> QED
      BY <3>2, <3>3, <3>4, <3>5, Zenon DEF IInv, CatalogueTypeOK
  <2>3. CASE Shutdown \/ UNCHANGED vars
    BY <2>3 DEF IInv, CatalogueTypeOK, Shutdown, vars, catalogueVars
  <2> QED
    BY <2>1, <2>2, <2>3
<1>2. ctxDone' \in BOOLEAN /\ Shape' /\ \A c \in Conn : UNCHANGED Mine(c)
  BY Zenon DEF IInv, Shape, Mine, AdminSet, AdminDelete, Shutdown, vars, connVars, saslVars,
         upVars
<1>3. \A c \in Conn : KeepsSnapshot(c)
  BY <1>2, Zenon DEF KeepsSnapshot, Mine
<1> QED
  BY <1>1, <1>2, <1>3, Undisturbed, Zenon DEF IInv

\* Every step of the system keeps the invariant and every snapshot.
LEMMA NextInv == IInv /\ [Next]_vars => IInv' /\ \A d \in Conn : KeepsSnapshot(d)
<1> SUFFICES ASSUME IInv, [Next]_vars
             PROVE  IInv' /\ \A d \in Conn : KeepsSnapshot(d)
  OBVIOUS
<1>1. ASSUME NEW c \in Conn, HandlerStep(c)
      PROVE  IInv' /\ \A d \in Conn : KeepsSnapshot(d)
  <2>1. CASE ServeCtxDone(c) \/ RelayFails(c) \/ HandlerRefuses(c) \/ RoundTripRejects(c)
             \/ RoundTripFails(c)
    <3>1. ~Dialing(c) /\ pc[c] # "closed" /\ close(c)
      BY <2>1 DEF ServeCtxDone, RelayFails, HandlerRefuses, RoundTripRejects, RoundTripFails,
                  Dialing
    <3> QED
      BY <3>1, CloseInv
  <2> QED
    BY <1>1, <2>1, ServeNextInv, DialConnectInv, DialApiVersionsInv, DialSaslHandshakeInv,
       DialAuthenticateInv, DialForSCRAMFailsInv, EnsureUpstreamFailsInv, RelayInv,
       ForwardInv, RoundTripInv, Zenon DEF HandlerStep
<1>2. ASSUME NEW c \in Conn, ClientRequest(c)
      PROVE  IInv' /\ \A d \in Conn : KeepsSnapshot(d)
  <2>1. ASSUME NEW r \in DataRequest, requestBeforeAuth(c, r)
        PROVE  IInv' /\ \A d \in Conn : KeepsSnapshot(d)
    <3>1. ~Dialing(c) /\ pc[c] # "closed" /\ close(c)
      BY <2>1 DEF requestBeforeAuth, Dialing
    <3> QED
      BY <3>1, CloseInv
  <2> QED
    BY <1>2, <2>1, ApiVersionsInv, SaslHandshakeInv, SaslPlainInv, SaslScramInv,
       EnsureUpstreamInv, Zenon DEF ClientRequest
<1>3. ASSUME NEW c \in Conn, ReadFails(c)
      PROVE  IInv' /\ \A d \in Conn : KeepsSnapshot(d)
  <2>1. ~Dialing(c) /\ pc[c] # "closed" /\ close(c)
    BY <1>3 DEF ReadFails, Dialing
  <2> QED
    BY <2>1, CloseInv
<1> QED
  BY <1>1, <1>2, <1>3, BrokerAnswersInv, EnvironmentInv, Zenon DEF Next
-----------------------------------------------------------------------------
\* The inductive invariant holds in every reachable state.
THEOREM Invariance == Spec => []IInv
  BY InitInv, NextInv, PTL DEF Spec

\* The fields of conn and upstream.Conn keep their types; the correlation id
\* of nextCorrelationID stays within its width.
THEOREM TypeCorrect == Spec => []TypeOK
<1>1. IInv => TypeOK
  <2> SUFFICES ASSUME IInv
               PROVE  TypeOK
    OBVIOUS
  <2>1. \A c \in Conn : Typed(c)
    BY Zenon DEF IInv, ConnInv
  <2>2. /\ pc \in [Conn -> PC] /\ state \in [Conn -> SaslState]
        /\ clientMechanism \in [Conn -> Mechanisms \cup {"empty"}]
        /\ tenant \in [Conn -> ValidTenant \cup {ZeroTenant}]
        /\ password \in [Conn -> Password \cup {"empty"}]
    BY <2>1, Zenon DEF Typed, IInv, Shape
  <2>3. /\ upstream \in [Conn -> BOOLEAN]
        /\ scramRoundsCompleted \in [Conn -> 0 .. ScramRounds]
        /\ req \in [Conn -> Request \cup {NoRequest}]
        /\ resp \in [Conn -> Response \cup {NoResponse}]
    BY <2>1, Zenon DEF Typed, IInv, Shape
  <2>4. /\ sockets \in [Conn -> Int] /\ peer \in [Conn -> Peer \cup {NoPeer}]
        /\ corrIDGen \in [Conn -> Cid] /\ wire \in [Conn -> Frame \cup {NoFrame}]
        /\ inbuf \in [Conn -> Seq(Frame)]
    BY <2>1, Zenon DEF Typed, IInv, Shape
  <2> QED
    BY <2>2, <2>3, <2>4, Zenon DEF TypeOK, IInv
<1> QED
  BY <1>1, Invariance, PTL

\* Requests run as the tenant they are rewritten for: once a connection with an
\* upstream is authenticated, the broker has authenticated its tenant.
THEOREM PrincipalSafe == Spec => []PrincipalIsTenant
<1>1. IInv => PrincipalIsTenant
  <2> SUFFICES ASSUME IInv, NEW c \in Conn, pc[c] # "closed", state[c] = "Authenticated",
                      upstream[c] \/ IsSCRAMMechanism(clientMechanism[c])
               PROVE  /\ upstream[c] /\ peer[c].phase = "authenticated"
                      /\ peer[c].user = tenant[c].ID /\ peer[c].addr = tenant[c].Upstream
    BY Zenon DEF PrincipalIsTenant
  <2>1. Principal(c) /\ Socket(c)
    BY Zenon DEF IInv, ConnInv
  <2> QED
    BY <2>1 DEF Principal, Socket
<1> QED
  BY <1>1, Invariance, PTL

\* RoundTrip never puts a rewritten name outside the tenant's slice on the wire.
THEOREM WireSafe == Spec => []WireNamesArePrefixed
<1>1. IInv => WireNamesArePrefixed
  <2> SUFFICES ASSUME IInv, NEW c \in Conn, wire[c] # NoFrame
               PROVE  /\ state[c] = "Authenticated"
                      /\ req[c].class # "raw" /\ req[c].name # << >> =>
                           /\ BelongsToTenant(tenant[c].TopicPrefix, wire[c].name)
                           /\ wire[c].name # tenant[c].TopicPrefix
    BY Zenon DEF WireNamesArePrefixed
  <2>1. Frames(c) /\ Control(c) /\ Socket(c)
    BY Zenon DEF IInv, ConnInv
  <2>2. /\ state[c] = "Authenticated" /\ req[c] \in DataRequest
        /\ wire[c] = [cid |-> corrIDGen[c], name |-> NameIn(c)]
    BY <2>1, Zenon DEF Frames, Control
  <2>3. tenant[c] \in ValidTenant
    BY <2>1, <2>2, Zenon DEF Socket, IInv, CatalogueTypeOK
  <2>4. /\ tenant[c].TopicPrefix \in Seq(Char) /\ tenant[c].TopicPrefix # << >>
        /\ req[c].name \in Seq(Char)
    BY <2>2, <2>3, RequestFacts, PrefixAssumption, NameAssumption
       DEF ValidTenant, validateTenant, Tenant
  <2> QED
    BY <2>2, <2>4, PrefixedBelongs DEF NameIn
<1> QED
  BY <1>1, Invariance, PTL

\* Whatever step of a dial fails, close and the abort of the dial leave no
\* socket behind.
THEOREM SocketsSafe == Spec => []NoSocketLeak
<1>1. IInv => NoSocketLeak
  <2> SUFFICES ASSUME IInv, NEW c \in Conn
               PROVE  /\ sockets[c] \in 0 .. 1
                      /\ pc[c] = "closed" => sockets[c] = 0
                      /\ pc[c] = "read" => (sockets[c] = 1 <=> upstream[c])
    BY Zenon DEF NoSocketLeak
  <2>1. Socket(c)
    BY Zenon DEF IInv, ConnInv
  <2> QED
    BY <2>1 DEF Socket, Dialing
<1> QED
  BY <1>1, Invariance, PTL

\* RoundTrip answers a request with its own correlation id and name, whatever
\* the broker repeats.
THEOREM RepliesSafe == Spec => []ReplyMatchesRequest
<1>1. IInv => ReplyMatchesRequest
  BY Zenon DEF IInv, ConnInv, Answer, ReplyMatchesRequest
<1> QED
  BY <1>1, Invariance, PTL

\* dialAndNegotiate is reached only with a record the catalogue held.
THEOREM DialsSafe == Spec => []DialsOnlyKnownTenants
<1>1. IInv => DialsOnlyKnownTenants
  <2> SUFFICES ASSUME IInv, NEW c \in Conn, sockets[c] > 0
               PROVE  tenant[c] \in issued /\ peer[c].addr = tenant[c].Upstream
    BY Zenon DEF DialsOnlyKnownTenants
  <2>1. Socket(c) /\ Typed(c)
    BY Zenon DEF IInv, ConnInv
  <2> QED
    BY <2>1 DEF Socket, Typed
<1> QED
  BY <1>1, Invariance, PTL

\* ensureUpstream never dials with the (empty) password of a SCRAM client.
THEOREM PasswordsSafe == Spec => []OnlyPlainDialsWithPassword
<1>1. IInv => OnlyPlainDialsWithPassword
  BY Zenon DEF IInv, ConnInv, Control, OnlyPlainDialsWithPassword
<1> QED
  BY <1>1, Invariance, PTL
\* Authentication is final: no request of the client and no edit of the
\* operator changes what an authenticated connection runs as.
THEOREM SnapshotSafe == Spec => SnapshotIsFinal
<1>1. IInv /\ [Next]_vars => [\A c \in Conn : KeepsSnapshot(c)]_vars
  BY NextInv
<1> QED
  BY <1>1, Invariance, PTL DEF Spec, SnapshotIsFinal

-----------------------------------------------------------------------------
(* Deadlines.                                                              *)

\* Where the goroutine can be on which path, and how far the SASL exchange is.
Progress ==
    /\ timedOut # "none" => call = "closed"
    /\ call \in DialCalls => ~hasUpstream
    /\ call = "plainAuth" => path = "plain"
    /\ call = "scramAuth" => path = "bridge" /\ rounds < ScramMessages
    /\ call = "relay" => path = "relay" /\ hasUpstream /\ ~authenticated
    /\ ~hasUpstream /\ call \notin {"scramAuth", "closed"} => rounds = 0
    /\ path = "relay" => (authenticated <=> rounds = ScramMessages)

\* A call under a deadline has used up exactly what is missing from its due.
Used ==
    /\ call = "read" => readDeadline \in Nat /\ readDeadline + inCall = ReadTimeout
    /\ call \in UpstreamCalls => deadline \in Nat
    /\ call = "connect" => deadline + inCall = dialTimeout
    /\ call \in {"relay", "roundTrip", "scramAuth"} => deadline + inCall = requestTimeout

\* What the dial has left, at each of its steps.
Spent ==
    /\ call = "connect" => dialling + deadline <= dialTimeout
    /\ call \in {"apiVersions", "saslHandshake", "plainAuth"} =>
          dialling + deadline <= 2 * dialTimeout
    /\ call = "scramAuth" =>
          dialling + deadline <= 2 * dialTimeout + (rounds + 1) * requestTimeout

\* The inductive invariant.
DeadlineInv == DeadlineTypeOK /\ Progress /\ Used /\ Spent /\ NoStaleDeadline /\ DialIsBounded

-----------------------------------------------------------------------------
\* The lesser of two numbers.
LEMMA MinOfTwo ==
    ASSUME NEW a \in Int, NEW b \in Int
    PROVE  Min({a, b}) = IF a <= b THEN a ELSE b
<1> DEFINE m == IF a <= b THEN a ELSE b
<1>1. m \in {a, b} /\ \A y \in {a, b} : m <= y
  OBVIOUS
<1>2. \A x \in {a, b} : (\A y \in {a, b} : x <= y) => x = m
  OBVIOUS
<1> QED
  BY <1>1, <1>2 DEF Min

\* The timeouts are positive, and the horizon is behind all that is measured.
LEMMA Timeouts ==
    /\ dialTimeout \in Nat \ {0} /\ requestTimeout \in Nat \ {0} /\ ScramMessages \in Nat \ {0}
    /\ clientHandshakeTimeout \in Nat \ {0} /\ clientIdleTimeout \in Nat \ {0}
    /\ \A n \in Nat : /\ n * requestTimeout \in Nat
                       /\ (n + 1) * requestTimeout = n * requestTimeout + requestTimeout
    /\ \A n \in 0 .. ScramMessages : n * requestTimeout <= ScramMessages * requestTimeout
    /\ Horizon \in Nat
    /\ dialTimeout <= Horizon /\ requestTimeout <= Horizon
    /\ clientHandshakeTimeout <= Horizon /\ clientIdleTimeout <= Horizon
    /\ 2 * dialTimeout + ScramMessages * requestTimeout < Horizon
<1>1. /\ dialTimeout \in Nat \ {0} /\ requestTimeout \in Nat \ {0} /\ ScramMessages \in Nat \ {0}
      /\ clientHandshakeTimeout \in Nat \ {0} /\ clientIdleTimeout \in Nat \ {0}
  BY TimeoutAssumption
<1>2. \A n \in Nat : /\ n * requestTimeout \in Nat
                     /\ (n + 1) * requestTimeout = n * requestTimeout + requestTimeout
  BY <1>1
<1>3. \A n \in 0 .. ScramMessages : n * requestTimeout <= ScramMessages * requestTimeout
  BY <1>1
<1>4. /\ ScramMessages * requestTimeout \in Nat
      /\ Horizon = 2 * dialTimeout + ScramMessages * requestTimeout + requestTimeout
                      + clientHandshakeTimeout + clientIdleTimeout
  BY <1>1, <1>2 DEF Horizon
<1> QED
  BY <1>1, <1>2, <1>3, <1>4, SMTT(30)

\* Time passes: what a deadline loses, its call has spent.
LEMMA TickInv ==
    ASSUME DeadlineInv, Tick
    PROVE  DeadlineInv'
<1>1. DeadlineTypeOK'
  BY Timeouts, MinOfTwo DEF DeadlineInv, Tick, Never, DeadlineTypeOK
<1>2. Progress'
  BY SMTT(30) DEF DeadlineInv, Tick, Progress
<1>3. Used'
  BY Timeouts, MinOfTwo DEF DeadlineInv, Tick, CallDeadline, UpstreamCalls, DialCalls, DeadlineTypeOK,
     Used, ReadTimeout
<1>4. Spent'
  BY Timeouts, MinOfTwo DEF DeadlineInv, Tick, CallDeadline, UpstreamCalls, Never, DeadlineTypeOK,
     Used, Spent
<1>5. NoStaleDeadline'
  BY Timeouts, MinOfTwo DEF DeadlineInv, Tick, DeadlineTypeOK, NoStaleDeadline, ReadTimeout
<1>6. DialIsBounded'
  BY Timeouts, MinOfTwo DEF DeadlineInv, Tick, CallDeadline, UpstreamCalls, DialCalls, DeadlineTypeOK,
     Progress, Used, Spent, DialIsBounded
<1> QED
  BY <1>1, <1>2, <1>3, <1>4, <1>5, <1>6, SMTT(30) DEF DeadlineInv

\* A deadline ends its call, or the connection.
LEMMA TimeoutInv ==
    ASSUME DeadlineInv, Timeout
    PROVE  DeadlineInv'
<1>1. DeadlineTypeOK'
  BY DEF DeadlineInv, Timeout, GiveUp, CallDeadline, ClientCalls, Never, DeadlineTypeOK
<1>2. Progress'
  BY DEF DeadlineInv, Timeout, GiveUp, DialCalls, Progress
<1>3. Used'
  BY DEF Timeout, GiveUp, UpstreamCalls, DialCalls, Used
<1>4. Spent'
  BY SMTT(30) DEF Timeout, GiveUp, Spent
<1>5. NoStaleDeadline'
  BY DEF DeadlineInv, Timeout, GiveUp, CallDeadline, DialCalls, Never, DeadlineTypeOK, Progress, Used,
     NoStaleDeadline, ReadTimeout
<1>6. DialIsBounded'
  BY DEF DeadlineInv, Timeout, DialIsBounded
<1> QED
  BY <1>1, <1>2, <1>3, <1>4, <1>5, <1>6 DEF DeadlineInv

\* A call fails before its deadline.
LEMMA FailInv ==
    ASSUME DeadlineInv, CallFails
    PROVE  DeadlineInv'
<1>1. DeadlineTypeOK'
  BY Timeouts, SMTT(30) DEF DeadlineInv, CallFails, GiveUp, ClientCalls, DeadlineTypeOK
<1>2. Progress'
  BY DEF DeadlineInv, CallFails, GiveUp, DialCalls, Progress
<1>3. Used'
  BY DEF CallFails, GiveUp, UpstreamCalls, DialCalls, Used
<1>4. Spent'
  BY DEF CallFails, GiveUp, Spent
<1>5. NoStaleDeadline'
  BY DEF DeadlineInv, CallFails, Blocked, ClientCalls, UpstreamCalls, DialCalls, Progress,
     NoStaleDeadline
<1>6. DialIsBounded'
  BY DEF DeadlineInv, CallFails, DialIsBounded
<1> QED
  BY <1>1, <1>2, <1>3, <1>4, <1>5, <1>6, SMTT(30) DEF DeadlineInv

\* serve gives the client the whole time for its next request.
LEMMA ServeReadInv ==
    ASSUME DeadlineInv, ServeRead
    PROVE  DeadlineInv'
<1>1. DeadlineTypeOK'
  BY Timeouts DEF DeadlineInv, ServeRead, Enter, ClientCalls, DeadlineTypeOK, ReadTimeout
<1>2. Progress'
  BY DEF DeadlineInv, ServeRead, Enter, DialCalls, Progress
<1>3. Used'
  BY Timeouts DEF ServeRead, Enter, UpstreamCalls, DialCalls, Used, ReadTimeout
<1>4. Spent'
  BY DEF ServeRead, Enter, Spent
<1>5. NoStaleDeadline'
  BY DEF DeadlineInv, ServeRead, Progress, NoStaleDeadline
<1>6. DialIsBounded'
  BY DEF DeadlineInv, ServeRead, DialIsBounded
<1> QED
  BY <1>1, <1>2, <1>3, <1>4, <1>5, <1>6, SMTT(30) DEF DeadlineInv

\* The proxy answers by itself.
LEMMA AnswerLocallyInv ==
    ASSUME DeadlineInv, AnswerLocally
    PROVE  DeadlineInv'
<1>0. authenticated' \in BOOLEAN
  BY ZenonT(60) DEF DeadlineInv, DeadlineTypeOK, AnswerLocally
<1>1. DeadlineTypeOK'
  BY <1>0, Timeouts DEF DeadlineInv, DeadlineTypeOK, AnswerLocally, Enter, ClientCalls
<1>2. Progress'
  BY Zenon DEF DeadlineInv, AnswerLocally, Enter, DialCalls, Progress
<1>3. Used'
  BY DEF AnswerLocally, Enter, UpstreamCalls, DialCalls, Used
<1>4. Spent'
  BY DEF AnswerLocally, Enter, Spent
<1>5. NoStaleDeadline'
  BY DEF DeadlineInv, AnswerLocally, Progress, NoStaleDeadline
<1>6. DialIsBounded'
  BY DEF DeadlineInv, AnswerLocally, DialIsBounded
<1> QED
  BY <1>1, <1>2, <1>3, <1>4, <1>5, <1>6, SMTT(30) DEF DeadlineInv

\* A request needs the upstream: an exchange or a dial begins with its own deadline.
LEMMA UseUpstreamInv ==
    ASSUME DeadlineInv, UseUpstream
    PROVE  DeadlineInv'
<1>1. DeadlineTypeOK'
  BY Timeouts DEF DeadlineInv, UseUpstream, Enter, applyRequestDeadline, UpstreamCalls,
     DialCalls, DeadlineTypeOK
<1>2. Progress'
  BY DEF DeadlineInv, UseUpstream, Enter, NeedsUpstream, DialCalls, Progress
<1>3. Used'
  BY Timeouts DEF UseUpstream, Enter, applyRequestDeadline, Used
<1>4. Spent'
  BY Timeouts DEF UseUpstream, Enter, Spent
<1>5. NoStaleDeadline'
  BY DEF DeadlineInv, UseUpstream, Progress, NoStaleDeadline
<1>6. DialIsBounded'
  BY Timeouts DEF DeadlineInv, UseUpstream, DialIsBounded
<1> QED
  BY <1>1, <1>2, <1>3, <1>4, <1>5, <1>6, SMTT(30) DEF DeadlineInv

\* serve goes round its loop.
LEMMA WrittenInv ==
    ASSUME DeadlineInv, Written
    PROVE  DeadlineInv'
<1>1. DeadlineTypeOK'
  BY Timeouts DEF DeadlineInv, Written, Enter, DeadlineTypeOK
<1>2. Progress'
  BY DEF DeadlineInv, Written, Enter, DialCalls, Progress
<1>3. Used'
  BY DEF Written, Enter, UpstreamCalls, DialCalls, Used
<1>4. Spent'
  BY DEF Written, Enter, Spent
<1>5. NoStaleDeadline'
  BY DEF DeadlineInv, Written, Progress, NoStaleDeadline
<1>6. DialIsBounded'
  BY DEF DeadlineInv, Written, DialIsBounded
<1> QED
  BY <1>1, <1>2, <1>3, <1>4, <1>5, <1>6, SMTT(30) DEF DeadlineInv

\* The second of the two dial timeouts begins.
LEMMA ConnectedInv ==
    ASSUME DeadlineInv, Connected
    PROVE  DeadlineInv'
<1>1. DeadlineTypeOK'
  BY Timeouts DEF DeadlineInv, Connected, Enter, NegotiateDeadline, UpstreamCalls, DialCalls,
     DeadlineTypeOK
<1>2. Progress'
  BY DEF DeadlineInv, Connected, Enter, DialCalls, Progress
<1>3. Used'
  BY Timeouts, SMTT(30) DEF Connected, Enter, NegotiateDeadline, Used
<1>4. Spent'
  BY DEF DeadlineInv, Connected, Enter, NegotiateDeadline, UpstreamCalls, DialCalls, DeadlineTypeOK,
     Used, Spent
<1>5. NoStaleDeadline'
  BY DEF DeadlineInv, Connected, Progress, NoStaleDeadline
<1>6. DialIsBounded'
  BY DEF DeadlineInv, Connected, DialIsBounded
<1> QED
  BY <1>1, <1>2, <1>3, <1>4, <1>5, <1>6, SMTT(30) DEF DeadlineInv

\* The negotiation goes on under the same deadline.
LEMMA GotApiVersionsInv ==
    ASSUME DeadlineInv, GotApiVersions
    PROVE  DeadlineInv'
<1>1. DeadlineTypeOK'
  BY Timeouts DEF DeadlineInv, GotApiVersions, Enter, UpstreamCalls, DialCalls, DeadlineTypeOK
<1>2. Progress'
  BY DEF DeadlineInv, GotApiVersions, Enter, DialCalls, Progress
<1>3. Used'
  BY DEF DeadlineInv, GotApiVersions, Enter, UpstreamCalls, DialCalls, Used
<1>4. Spent'
  BY DEF DeadlineInv, GotApiVersions, Enter, Spent
<1>5. NoStaleDeadline'
  BY DEF DeadlineInv, GotApiVersions, Progress, NoStaleDeadline
<1>6. DialIsBounded'
  BY DEF DeadlineInv, GotApiVersions, DialIsBounded
<1> QED
  BY <1>1, <1>2, <1>3, <1>4, <1>5, <1>6, SMTT(30) DEF DeadlineInv

\* The dial goes on to the login of its path.
LEMMA GotHandshakeInv ==
    ASSUME DeadlineInv, GotHandshake
    PROVE  DeadlineInv'
<1>0. hasUpstream' \in BOOLEAN
  BY ZenonT(60) DEF DeadlineInv, DeadlineTypeOK, GotHandshake
<1>1. DeadlineTypeOK'
  BY <1>0, Timeouts, SMTT(30) DEF DeadlineInv, DeadlineTypeOK, GotHandshake, Enter, applyRequestDeadline,
     UpstreamCalls, DialCalls
<1>2. Progress'
  BY Timeouts, SMTT(30) DEF DeadlineInv, GotHandshake, Enter, DialCalls, Progress
<1>3. Used'
  BY Timeouts, SMTT(30) DEF DeadlineInv, GotHandshake, Enter, applyRequestDeadline, UpstreamCalls,
     DialCalls, Used
<1>4. Spent'
  BY Timeouts DEF DeadlineInv, GotHandshake, Enter, applyRequestDeadline, UpstreamCalls,
     DialCalls, DeadlineTypeOK, Used, Spent
<1>5. NoStaleDeadline'
  BY DEF DeadlineInv, GotHandshake, Progress, NoStaleDeadline
<1>6. DialIsBounded'
  BY DEF DeadlineInv, GotHandshake, DialIsBounded
<1> QED
  BY <1>1, <1>2, <1>3, <1>4, <1>5, <1>6, SMTT(30) DEF DeadlineInv

\* The dial is over.
LEMMA DialledInv ==
    ASSUME DeadlineInv, Dialled
    PROVE  DeadlineInv'
<1>1. DeadlineTypeOK'
  BY Timeouts DEF DeadlineInv, Dialled, Enter, applyRequestDeadline, UpstreamCalls, DeadlineTypeOK
<1>2. Progress'
  BY DEF DeadlineInv, Dialled, Enter, DialCalls, Progress
<1>3. Used'
  BY Timeouts DEF Dialled, Enter, applyRequestDeadline, Used
<1>4. Spent'
  BY DEF Dialled, Enter, Spent
<1>5. NoStaleDeadline'
  BY DEF DeadlineInv, Dialled, Progress, NoStaleDeadline
<1>6. DialIsBounded'
  BY DEF DeadlineInv, Dialled, DialIsBounded
<1> QED
  BY <1>1, <1>2, <1>3, <1>4, <1>5, <1>6, SMTT(30) DEF DeadlineInv

\* A round of the bridge's login begins with its own deadline.
LEMMA ChallengedInv ==
    ASSUME DeadlineInv, Challenged
    PROVE  DeadlineInv'
<1>1. DeadlineTypeOK'
  BY Timeouts DEF DeadlineInv, Challenged, Enter, applyRequestDeadline, DeadlineTypeOK
<1>2. Progress'
  BY DEF DeadlineInv, Challenged, Enter, Progress
<1>3. Used'
  BY Timeouts, SMTT(30) DEF Challenged, Enter, applyRequestDeadline, Used
<1>4. Spent'
  BY Timeouts DEF DeadlineInv, Challenged, Enter, applyRequestDeadline, UpstreamCalls,
     DialCalls, DeadlineTypeOK, Used, Spent
<1>5. NoStaleDeadline'
  BY DEF DeadlineInv, Challenged, Progress, NoStaleDeadline
<1>6. DialIsBounded'
  BY DEF DeadlineInv, Challenged, DialIsBounded
<1> QED
  BY <1>1, <1>2, <1>3, <1>4, <1>5, <1>6, SMTT(30) DEF DeadlineInv

\* A relayed round is answered.
LEMMA RelayedInv ==
    ASSUME DeadlineInv, Relayed
    PROVE  DeadlineInv'
<1>1. DeadlineTypeOK'
  BY Timeouts DEF DeadlineInv, Relayed, Enter, ScramComplete, ClientCalls, DeadlineTypeOK, Progress
<1>2. Progress'
  BY Zenon DEF DeadlineInv, Relayed, Enter, ScramComplete, Progress, DialCalls
<1>3. Used'
  BY DEF Relayed, Enter, UpstreamCalls, DialCalls, Used
<1>4. Spent'
  BY DEF Relayed, Enter, Spent
<1>5. NoStaleDeadline'
  BY DEF DeadlineInv, Relayed, Progress, NoStaleDeadline
<1>6. DialIsBounded'
  BY DEF DeadlineInv, Relayed, DialIsBounded
<1> QED
  BY <1>1, <1>2, <1>3, <1>4, <1>5, <1>6, SMTT(30) DEF DeadlineInv

\* A data request is answered.
LEMMA RoundTrippedInv ==
    ASSUME DeadlineInv, RoundTripped
    PROVE  DeadlineInv'
<1>1. DeadlineTypeOK'
  BY Timeouts DEF DeadlineInv, RoundTripped, Enter, ClientCalls, DeadlineTypeOK
<1>2. Progress'
  BY DEF DeadlineInv, RoundTripped, Enter, DialCalls, Progress
<1>3. Used'
  BY DEF RoundTripped, Enter, UpstreamCalls, DialCalls, Used
<1>4. Spent'
  BY DEF RoundTripped, Enter, Spent
<1>5. NoStaleDeadline'
  BY DEF DeadlineInv, RoundTripped, Progress, NoStaleDeadline
<1>6. DialIsBounded'
  BY DEF DeadlineInv, RoundTripped, DialIsBounded
<1> QED
  BY <1>1, <1>2, <1>3, <1>4, <1>5, <1>6, SMTT(30) DEF DeadlineInv

\* The inductive invariant holds: every action of DeadlineNext preserves it.
THEOREM DeadlineInvariance == DeadlineSpec => []DeadlineInv
<1>1. DeadlineInit => DeadlineInv
  <2> SUFFICES ASSUME DeadlineInit PROVE DeadlineInv
    BY SMTT(30)
  <2>1. DeadlineTypeOK
    <3>1. authenticated \in BOOLEAN /\ hasUpstream \in BOOLEAN
      BY Zenon DEF DeadlineInit
    <3> QED
      BY <3>1, Timeouts DEF DeadlineInit, DeadlineTypeOK
  <2>2. Progress /\ Used /\ Spent
    <3>1. 0 # ScramMessages
      BY Timeouts
    <3> QED
      BY <3>1, Zenon DEF DeadlineInit, Progress, Used, Spent, UpstreamCalls, DialCalls
  <2>3. NoStaleDeadline /\ DialIsBounded
    BY Timeouts DEF DeadlineInit, NoStaleDeadline, DialIsBounded
  <2> QED
    BY <2>1, <2>2, <2>3 DEF DeadlineInv
<1>2. DeadlineInv /\ [DeadlineNext]_deadlineVars => DeadlineInv'
  <2> SUFFICES ASSUME DeadlineInv, [DeadlineNext]_deadlineVars
               PROVE  DeadlineInv'
    BY SMTT(30)
  <2>1. CASE UNCHANGED deadlineVars
    BY <2>1 DEF deadlineVars, DeadlineInv, DeadlineTypeOK, Progress, Used, Spent, NoStaleDeadline,
       DialIsBounded, ReadTimeout
  <2> QED
    BY <2>1, TickInv, TimeoutInv, FailInv, ServeReadInv, AnswerLocallyInv,
       UseUpstreamInv, WrittenInv, ConnectedInv, GotApiVersionsInv, GotHandshakeInv,
       DialledInv, ChallengedInv, RelayedInv, RoundTrippedInv, SMTT(30) DEF DeadlineNext, Closed
<1> QED
  BY <1>1, <1>2, PTL DEF DeadlineSpec

\* Every run keeps to the types, and SCRAM never goes past its last round.
THEOREM DeadlineTypeCorrect == DeadlineSpec => []DeadlineTypeOK
<1>1. DeadlineInv => DeadlineTypeOK
  BY DEF DeadlineInv
<1> QED
  BY <1>1, DeadlineInvariance, PTL

\* Whatever the timeouts: every call but the write of a response to the client
\* is under a deadline, on every path through the dials, the relay and serve.
THEOREM DeadlinesAreSet == DeadlineSpec => []OnlyWritesBlockForever
<1>1. DeadlineInv => OnlyWritesBlockForever
  BY DEF DeadlineInv, Used, OnlyWritesBlockForever, Blocked, CallDeadline, ClientCalls, Never
<1> QED
  BY <1>1, DeadlineInvariance, PTL

\* Whatever the timeouts: a connection that is closed on a deadline had the whole
\* time of the call it was in, so no earlier deadline of the socket was left on.
THEOREM DeadlinesAreFresh == DeadlineSpec => []NoStaleDeadline
<1>1. DeadlineInv => NoStaleDeadline
  BY DEF DeadlineInv
<1> QED
  BY <1>1, DeadlineInvariance, PTL

\* Whatever the timeouts and the number of rounds: no dial lasts longer than two
\* dial timeouts and, for the bridge, a request timeout per round.
THEOREM DialsAreBounded == DeadlineSpec => []DialIsBounded
<1>1. DeadlineInv => DialIsBounded
  BY DEF DeadlineInv
<1> QED
  BY <1>1, DeadlineInvariance, PTL
=============================================================================
