------------------------------ MODULE Listener ------------------------------
(***************************************************************************)
(* The life of the process: Server.Run and Server.Wait (proxy/listener.go) *)
(* with the goroutines they start, the metrics and admin HTTP servers, and *)
(* main's wait for any of them to end (cmd/kroxy/main.go).                 *)
(*                                                                         *)
(* client[c] is where a client's TCP connection is: queued in the kernel,  *)
(* accepted (Accept has returned it, wg.Go has not been called), spawned,  *)
(* serving, closing (serve has returned), gone.  What a serving connection *)
(* does is the subject of Session; here serve returns at some time.        *)
(* Timers have no length: each may fire at any time after it is started.   *)
(***************************************************************************)
EXTENDS Integers, FiniteSets

CONSTANTS
    Client,             \* the client connections that may arrive
    MetricsEnabled,     \* config metrics.enabled
    AdminEnabled,       \* config admin.enabled
    firstAcceptBackoff, \* 5 ms
    maxAcceptBackoff    \* 1 s

ASSUME ClientAssumption == IsFiniteSet(Client)
ASSUME BackoffAssumption ==
    /\ firstAcceptBackoff \in Nat \ {0}
    /\ maxAcceptBackoff \in Nat
    /\ firstAcceptBackoff <= maxAcceptBackoff
ASSUME EnabledAssumption == MetricsEnabled \in BOOLEAN /\ AdminEnabled \in BOOLEAN

VARIABLES
    ctxDone,    \* the signal context of main is cancelled
    listener,   \* "none" before Listen, then "open", then "closed"
    run,        \* where Server.Run is
    backoff,    \* Run's backoff, in ms
    client,
    wg,         \* Server.wg's counter
    active,     \* the gauge ConnectionsActive
    server,     \* where ServeMetrics and admin.Serve are
    errCh,      \* main's three error channels
    main,       \* where run() of main.go is
    waiter,     \* the goroutine that Wait starts
    waitedFor,  \* history: the connections in wg when main called Wait
    outcome     \* how the process ended

acceptVars == <<listener, run, backoff>>
connVars == <<client, wg, active>>
mainVars == <<main, waiter, waitedFor, outcome>>
listenerVars == <<ctxDone, acceptVars, connVars, server, errCh, mainVars>>

Server == {"metrics", "admin"}
Enabled(s) == IF s = "metrics" THEN MetricsEnabled ELSE AdminEnabled

\* Connections that Run has accepted and whose goroutine has not ended.
Grouped == {c \in Client : client[c] \in {"spawned", "serving", "closing"}}
InFlight == {c \in Client : client[c] = "accepted"} \cup Grouped
Serving == {c \in Client : client[c] = "serving"}

ListenerInit ==
    /\ ctxDone = FALSE
    /\ listener = "none"
    /\ run = "listen"
    /\ backoff = 0
    /\ client = [c \in Client |-> "absent"]
    /\ wg = 0
    /\ active = 0
    /\ server = [s \in Server |-> IF Enabled(s) THEN "serving" ELSE "off"]
    /\ errCh = [s \in Server \cup {"proxy"} |-> "empty"]
    /\ main = "select"
    /\ waiter = "none"
    /\ waitedFor = {}
    /\ outcome = "running"

-----------------------------------------------------------------------------
(* The environment: SIGINT or SIGTERM, and clients that connect.           *)

Signal ==
    /\ ctxDone' = TRUE
    /\ UNCHANGED <<acceptVars, connVars, server, errCh, mainVars>>

Connect(c) ==
    /\ listener = "open"
    /\ client[c] = "absent"
    /\ client' = [client EXCEPT ![c] = "queued"]
    /\ UNCHANGED <<ctxDone, acceptVars, wg, active, server, errCh, mainVars>>

-----------------------------------------------------------------------------
(* Server.Run.                                                             *)

\* Run returns e, which main's goroutine sends to errCh.
RunReturn(e) ==
    /\ run' = "returned"
    /\ errCh' = [errCh EXCEPT !["proxy"] = e]

Listen ==
    /\ run = "listen"
    /\ \/ /\ run' = "accept"
          /\ listener' = "open"
          /\ UNCHANGED errCh
       \/ RunReturn("err") /\ UNCHANGED listener
    /\ UNCHANGED <<ctxDone, backoff, connVars, server, mainVars>>

\* The goroutine that waits for ctx.Done; the kernel drops what is queued.
CloseListener ==
    /\ ctxDone
    /\ listener = "open"
    /\ listener' = "closed"
    /\ client' = [c \in Client |-> IF client[c] = "queued" THEN "gone" ELSE client[c]]
    /\ UNCHANGED <<ctxDone, run, backoff, wg, active, server, errCh, mainVars>>

\* ln.Accept returns c, and backoff is reset.
Accept(c) ==
    /\ run = "accept"
    /\ listener = "open"
    /\ client[c] = "queued"
    /\ client' = [client EXCEPT ![c] = "accepted"]
    /\ run' = "spawn"
    /\ backoff' = 0
    /\ UNCHANGED <<ctxDone, listener, wg, active, server, errCh, mainVars>>

\* wg.Go: the counter is raised before the goroutine exists.
Spawn(c) ==
    /\ run = "spawn"
    /\ client[c] = "accepted"
    /\ client' = [client EXCEPT ![c] = "spawned"]
    /\ wg' = wg + 1
    /\ run' = "accept"
    /\ UNCHANGED <<ctxDone, listener, backoff, active, server, errCh, mainVars>>

\* A plausible slip: an error that cannot be told from shutdown ends Run.
AnyErrorIsFinal == TRUE

\* Whether an Accept error means shutdown.
AcceptErrorIsFinal == ctxDone \/ listener = "closed"

\* A plausible slip: the delay is never capped.
UncappedBackoff == IF backoff = 0 THEN firstAcceptBackoff ELSE 2 * backoff

\* The delay before the next Accept.
NextBackoff ==
    LET b == IF backoff = 0 THEN firstAcceptBackoff ELSE 2 * backoff
    IN  IF b > maxAcceptBackoff THEN maxAcceptBackoff ELSE b

\* ln.Accept returns an error.
AcceptFails ==
    /\ run = "accept"
    /\ \/ /\ AcceptErrorIsFinal
          /\ run' = "drain"
          /\ UNCHANGED backoff
       \/ /\ ~AcceptErrorIsFinal
          /\ run' = "backoff"
          /\ backoff' = NextBackoff
    /\ UNCHANGED <<ctxDone, listener, connVars, server, errCh, mainVars>>

\* The select on ctx.Done and the timer, which are both ready at times.
Backoff ==
    /\ run = "backoff"
    /\ \/ run' = "accept"
       \/ ctxDone /\ run' = "drain"
    /\ UNCHANGED <<ctxDone, listener, backoff, connVars, server, errCh, mainVars>>

\* A plausible slip: the wait is left out.
NoWait == TRUE

\* s.wg.Wait() returns at a moment at which the counter is zero.
wgWait == wg = 0

Drained ==
    /\ run = "drain"
    /\ wgWait
    /\ RunReturn("nil")
    /\ UNCHANGED <<ctxDone, listener, backoff, connVars, server, mainVars>>

-----------------------------------------------------------------------------
(* Server.handle, one goroutine per connection.                            *)

Handle(c) ==
    /\ client[c] = "spawned"
    /\ client' = [client EXCEPT ![c] = "serving"]
    /\ active' = IF MetricsEnabled THEN active + 1 ELSE active
    /\ UNCHANGED <<ctxDone, acceptVars, wg, server, errCh, mainVars>>

\* A plausible slip: the gauge is not taken back.
GaugeKept == active

\* The deferred Dec runs when serve has returned.
GaugeDec == IF MetricsEnabled THEN active - 1 ELSE active

ServeReturns(c) ==
    /\ client[c] = "serving"
    /\ client' = [client EXCEPT ![c] = "closing"]
    /\ active' = GaugeDec
    /\ UNCHANGED <<ctxDone, acceptVars, wg, server, errCh, mainVars>>

\* The deferred close, and the end of the goroutine.
HandleReturns(c) ==
    /\ client[c] = "closing"
    /\ client' = [client EXCEPT ![c] = "gone"]
    /\ wg' = wg - 1
    /\ UNCHANGED <<ctxDone, acceptVars, active, server, errCh, mainVars>>

-----------------------------------------------------------------------------
(* ServeMetrics and admin.Serve: an HTTP server each.                      *)

\* The address cannot be bound, or the accept loop of net/http ends.
ServerFails(s) ==
    /\ server[s] = "serving"
    /\ server' = [server EXCEPT ![s] = "returned"]
    /\ errCh' = [errCh EXCEPT ![s] = "err"]
    /\ UNCHANGED <<ctxDone, acceptVars, connVars, mainVars>>

ShutdownStarts(s) ==
    /\ ctxDone
    /\ server[s] = "serving"
    /\ server' = [server EXCEPT ![s] = "shutdown"]
    /\ UNCHANGED <<ctxDone, acceptVars, connVars, errCh, mainVars>>

\* Shutdown returns within its timeout; only admin.Serve reports that the
\* timeout was hit.
ShutdownEnds(s) ==
    /\ server[s] = "shutdown"
    /\ server' = [server EXCEPT ![s] = "returned"]
    /\ \E e \in IF s = "admin" THEN {"nil", "err"} ELSE {"nil"} :
           errCh' = [errCh EXCEPT ![s] = e]
    /\ UNCHANGED <<ctxDone, acceptVars, connVars, mainVars>>

-----------------------------------------------------------------------------
(* run() of main.go from its select on, and Server.Wait.                   *)

Exit(o) == main' = "exited" /\ outcome' = o

\* srv.Wait() starts the goroutine that closes done.
CallWait ==
    /\ main' = "wait"
    /\ waiter' = "waiting"
    /\ waitedFor' = Grouped
    /\ UNCHANGED outcome

SelectDone ==
    /\ main = "select"
    /\ ctxDone
    /\ CallWait
    /\ UNCHANGED <<ctxDone, acceptVars, connVars, server, errCh>>

SelectError(s) ==
    /\ main = "select"
    /\ errCh[s] # "empty"
    /\ errCh' = [errCh EXCEPT ![s] = "empty"]
    /\ \/ errCh[s] = "err" /\ Exit("error") /\ UNCHANGED <<waiter, waitedFor>>
       \/ errCh[s] = "nil" /\ CallWait
    /\ UNCHANGED <<ctxDone, acceptVars, connVars, server>>

\* wg.Wait in the goroutine, then close(done).
WaiterDone ==
    /\ waiter = "waiting"
    /\ wgWait
    /\ waiter' = "done"
    /\ UNCHANGED <<ctxDone, acceptVars, connVars, server, errCh, main, waitedFor, outcome>>

\* The select of Wait: the done channel.
WaitDone ==
    /\ main = "wait"
    /\ waiter = "done"
    /\ Exit("drained")
    /\ UNCHANGED <<ctxDone, acceptVars, connVars, server, errCh, waiter, waitedFor>>

\* A plausible slip: Wait only waits for the group.
NoDrainTimeout == FALSE

\* Whether Wait has a timer.
HasDrainTimeout == TRUE

\* The select of Wait: time.After(drainTimeout).
WaitTimeout ==
    /\ main = "wait"
    /\ HasDrainTimeout
    /\ Exit("timeout")
    /\ UNCHANGED <<ctxDone, acceptVars, connVars, server, errCh, waiter, waitedFor>>

\* The process has ended, and its goroutines with it.
Exited == main = "exited" /\ UNCHANGED listenerVars

RunNext == Listen \/ CloseListener \/ AcceptFails \/ Backoff \/ Drained
ClientNext(c) == Accept(c) \/ Spawn(c) \/ Handle(c) \/ ServeReturns(c) \/ HandleReturns(c)
ServerNext(s) == ServerFails(s) \/ ShutdownStarts(s) \/ ShutdownEnds(s)
MainNext ==
    \/ SelectDone
    \/ \E s \in DOMAIN errCh : SelectError(s)
    \/ WaiterDone \/ WaitDone \/ WaitTimeout

Alive == main # "exited"

ListenerNext ==
    \/ Alive /\ (Signal \/ \E c \in Client : Connect(c))
    \/ Alive /\ RunNext
    \/ Alive /\ \E c \in Client : ClientNext(c)
    \/ Alive /\ \E s \in Server : ServerNext(s)
    \/ Alive /\ MainNext
    \/ Exited

ListenerSpec == ListenerInit /\ [][ListenerNext]_listenerVars

\* What the scheduler, the kernel and the timers guarantee: a goroutine that
\* can go on does; a closed listener makes Accept fail; Accept errors are
\* transient, so a queued client is handed over in the end; timers fire.
\* Clients, signals and failures are not fair, and serve need not return.
ListenerFairness ==
    /\ WF_listenerVars(Alive /\ Listen) /\ WF_listenerVars(Alive /\ CloseListener)
    /\ WF_listenerVars(Alive /\ Backoff) /\ WF_listenerVars(Alive /\ Drained)
    /\ WF_listenerVars(Alive /\ AcceptErrorIsFinal /\ AcceptFails)
    /\ \A c \in Client :
           /\ SF_listenerVars(Alive /\ Accept(c))
           /\ WF_listenerVars(Alive /\ (Spawn(c) \/ Handle(c) \/ HandleReturns(c)))
    /\ \A s \in Server : WF_listenerVars(Alive /\ (ShutdownStarts(s) \/ ShutdownEnds(s)))
    /\ WF_listenerVars(Alive /\ SelectDone)
    /\ WF_listenerVars(Alive /\ WaiterDone) /\ WF_listenerVars(Alive /\ WaitDone)
    /\ WF_listenerVars(Alive /\ WaitTimeout)

ListenerFairSpec == ListenerSpec /\ ListenerFairness

-----------------------------------------------------------------------------
(* Properties.                                                             *)

\* Types; the delay between two Accepts never exceeds maxAcceptBackoff.
ListenerTypeOK ==
    /\ ctxDone \in BOOLEAN
    /\ listener \in {"none", "open", "closed"}
    /\ run \in {"listen", "accept", "spawn", "backoff", "drain", "returned"}
    /\ backoff \in 0 .. maxAcceptBackoff
    /\ client \in [Client -> {"absent", "queued", "accepted", "spawned", "serving",
                              "closing", "gone"}]
    /\ wg \in Nat /\ active \in Nat
    /\ server \in [Server -> {"off", "serving", "shutdown", "returned"}]
    /\ errCh \in [Server \cup {"proxy"} -> {"empty", "nil", "err"}]
    /\ main \in {"select", "wait", "exited"}
    /\ waiter \in {"none", "waiting", "done"}
    /\ waitedFor \subseteq Client
    /\ outcome \in {"running", "error", "drained", "timeout"}

\* When Run returns, every connection it ever accepted has ended and the gauge
\* of active connections is back at zero, on whichever of its two shutdown
\* paths it left the loop.
RunReturnsDrained == run = "returned" => InFlight = {} /\ active = 0

\* No Accept error and no client ends the accept loop: Run leaves it only after
\* the context was cancelled, and main ends without an error only then.
OnlyShutdownEndsRun ==
    /\ run = "drain" => ctxDone
    /\ outcome \in {"drained", "timeout"} => ctxDone

\* A process that ends because everything was drained has seen the end of every
\* connection that was in the wait group when main called Wait.
WaitCoversGroup == outcome = "drained" => waitedFor \cap Grouped = {}

\* A signal ends the process, whatever the clients and the servers do.
SignalEndsProcess == ctxDone ~> main = "exited"

\* A client in the accept queue is taken from it: Accept errors delay the loop
\* but do not stop it.
QueuedAreTaken == \A c \in Client : client[c] = "queued" ~> (client[c] # "queued" \/ main = "exited")
=============================================================================
