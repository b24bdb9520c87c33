-------------------------- MODULE SessionInvariant --------------------------
(***************************************************************************)
(* The inductive invariant of Session.                                     *)
(***************************************************************************)
EXTENDS Session

-----------------------------------------------------------------------------
(* The inductive invariant, one clause per concern.                        *)

\* Where the goroutine is determines how far the SASL exchange is and what
\* request it is handling.
Control(c) ==
    /\ state[c] = "AwaitHandshake" <=> clientMechanism[c] = "empty"
    /\ state[c] \in {"AwaitHandshake", "AwaitAuth"} =>
          ~upstream[c] /\ password[c] = "empty" /\ scramRoundsCompleted[c] = 0
    /\ state[c] = "RelaySaslInFlight" =>
          /\ IsSCRAMMechanism(clientMechanism[c])
          /\ upstream[c]
          /\ scramRoundsCompleted[c] \in 0 .. 1
    /\ password[c] # "empty" => clientMechanism[c] = "PLAIN"
    /\ pc[c] = "dialRelay" =>
          /\ state[c] = "AwaitAuth"
          /\ IsSCRAMMechanism(clientMechanism[c])
          /\ req[c] \in SaslAuthenticateRequest
          /\ req[c].payload.kind = "first"
          /\ req[c].payload.user = tenant[c].ID
    /\ pc[c] \in {"dialPlain", "dialBridge"} =>
          /\ state[c] = "Authenticated"
          /\ clientMechanism[c] = "PLAIN"
          /\ ~upstream[c]
          /\ req[c] \in DataRequest
    /\ pc[c] = "dialBridge" => IsSCRAMMechanism(UpstreamSASLMechanism)
    /\ pc[c] = "relay" =>
          state[c] = "RelaySaslInFlight" /\ req[c] \in SaslAuthenticateRequest
    /\ pc[c] \in {"forward", "await"} =>
          state[c] = "Authenticated" /\ upstream[c] /\ req[c] \in DataRequest

\* The sockets to brokers, and whose they are.
Socket(c) ==
    /\ pc[c] = "closed" => sockets[c] = 0
    /\ pc[c] # "closed" =>
          /\ sockets[c] = IF peer[c].phase = "none" THEN 0 ELSE 1
          /\ peer[c].phase # "none" => peer[c].addr = tenant[c].Upstream
          /\ upstream[c] => peer[c].phase # "none"
          /\ ~upstream[c] /\ ~Dialing(c) => peer[c].phase = "none"
    /\ upstream[c] \/ Dialing(c) \/ state[c] = "Authenticated" => tenant[c] \in issued

\* How far the broker's end of the SASL exchange is.
Principal(c) ==
    pc[c] # "closed" =>
      /\ pc[c] = "dialRelay" => peer[c].phase \in {"none", "connected", "versioned"}
      /\ pc[c] \in {"dialPlain", "dialBridge"} =>
            /\ peer[c].phase \notin {"authenticated", "failed"}
            /\ peer[c].phase = "challenged" => peer[c].user = tenant[c].ID
      /\ state[c] = "RelaySaslInFlight" =>
            /\ peer[c].phase \in {"negotiated", "challenged", "failed"}
            /\ peer[c].mech # "PLAIN"
            /\ peer[c].phase = "negotiated" =>
                  /\ pc[c] = "relay"
                  /\ req[c].payload.kind = "first"
                  /\ req[c].payload.user = tenant[c].ID
                  /\ scramRoundsCompleted[c] = 0
            /\ peer[c].phase = "challenged" =>
                  peer[c].user = tenant[c].ID /\ scramRoundsCompleted[c] = 1
      /\ state[c] = "Authenticated" /\ (upstream[c] \/ IsSCRAMMechanism(clientMechanism[c])) =>
            /\ upstream[c]
            /\ peer[c].phase = "authenticated"
            /\ peer[c].user = tenant[c].ID

\* Frames left over from earlier requests never carry the current correlation
\* id, and they are ahead of the answer to the current one.
Frames(c) ==
    /\ pc[c] # "await" => wire[c] = NoFrame
    /\ ~upstream[c] \/ state[c] # "Authenticated" => inbuf[c] = << >>
    /\ pc[c] # "await" => \A i \in 1 .. Len(inbuf[c]) : inbuf[c][i].cid = corrIDGen[c]
    /\ wire[c] # NoFrame =>
          /\ wire[c] = [cid |-> corrIDGen[c], name |-> NameIn(c)]
          /\ \A i \in 1 .. Len(inbuf[c]) : inbuf[c][i].cid # corrIDGen[c]
    /\ pc[c] = "await" =>
          /\ \A i \in 1 .. Len(inbuf[c]) :
                inbuf[c][i].cid = corrIDGen[c] => inbuf[c][i].name = NameIn(c)
          /\ inbuf[c] # << >> /\ inbuf[c][1].cid = corrIDGen[c] =>
                \A i \in 1 .. Len(inbuf[c]) : inbuf[c][i].cid = corrIDGen[c]

\* A response exists only at the top of the loop, and answers the request.
Answer(c) ==
    resp[c] # NoResponse =>
      /\ pc[c] = "top"
      /\ req[c] \in Request
      /\ resp[c].cid = req[c].cid
      /\ req[c].api = "Data" => resp[c].name = req[c].name

\* The types of what belongs to one connection.
Typed(c) ==
    /\ pc[c] \in PC
    /\ state[c] \in SaslState
    /\ clientMechanism[c] \in Mechanisms \cup {"empty"}
    /\ tenant[c] \in ValidTenant \cup {ZeroTenant}
    /\ password[c] \in Password \cup {"empty"}
    /\ upstream[c] \in BOOLEAN
    /\ scramRoundsCompleted[c] \in 0 .. ScramRounds
    /\ req[c] \in Request \cup {NoRequest}
    /\ resp[c] \in Response \cup {NoResponse}
    /\ sockets[c] \in Int
    /\ peer[c] \in Peer \cup {NoPeer}
    /\ corrIDGen[c] \in Cid
    /\ wire[c] \in Frame \cup {NoFrame}
    /\ inbuf[c] \in Seq(Frame)

ConnInv(c) == Typed(c) /\ Control(c) /\ Socket(c) /\ Principal(c) /\ Frames(c) /\ Answer(c)

\* Every per-connection variable is a function on Conn.
Shape ==
    /\ pc = [c \in Conn |-> pc[c]]
    /\ state = [c \in Conn |-> state[c]]
    /\ clientMechanism = [c \in Conn |-> clientMechanism[c]]
    /\ tenant = [c \in Conn |-> tenant[c]]
    /\ password = [c \in Conn |-> password[c]]
    /\ upstream = [c \in Conn |-> upstream[c]]
    /\ scramRoundsCompleted = [c \in Conn |-> scramRoundsCompleted[c]]
    /\ req = [c \in Conn |-> req[c]]
    /\ resp = [c \in Conn |-> resp[c]]
    /\ sockets = [c \in Conn |-> sockets[c]]
    /\ peer = [c \in Conn |-> peer[c]]
    /\ corrIDGen = [c \in Conn |-> corrIDGen[c]]
    /\ wire = [c \in Conn |-> wire[c]]
    /\ inbuf = [c \in Conn |-> inbuf[c]]

IInv ==
    /\ CatalogueTypeOK
    /\ ctxDone \in BOOLEAN
    /\ Shape
    /\ \A c \in Conn : ConnInv(c)

-----------------------------------------------------------------------------
\* The part of the state that belongs to one connection.
Mine(c) == <<pc[c], state[c], clientMechanism[c], tenant[c], password[c], upstream[c],
             scramRoundsCompleted[c], req[c], resp[c], sockets[c], peer[c],
             corrIDGen[c], wire[c], inbuf[c]>>
=============================================================================
