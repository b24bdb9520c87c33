--------------------------- MODULE ProcessProofs ---------------------------
(***************************************************************************)
(* Proofs about the process and the connections it serves.  Listener, for  *)
(* any finite set of clients and any back-off: how the accept loop and the *)
(* drain end.  Metrics, for any finite set of connections, any tenants and *)
(* mechanisms: what the counters add up to.                                *)
(***************************************************************************)
EXTENDS Listener, Metrics, FiniteSetTheorems, TLAPS

-----------------------------------------------------------------------------
(* Listener.                                                               *)

\* The wait group and the gauge count goroutines; a connection is between Accept
\* and wg.Go only while Run is; Run has none left once it has returned.
CountInv ==
    /\ wg = Cardinality(Grouped)
    /\ active = IF MetricsEnabled THEN Cardinality(Serving) ELSE 0
    /\ \A c \in Client : client[c] = "accepted" => run = "spawn"
    /\ \A c, d \in Client : client[c] = "accepted" /\ client[d] = "accepted" => c = d
    /\ run = "listen" => listener = "none" /\ \A c \in Client : client[c] = "absent"
    /\ run = "returned" => Grouped = {}

\* Nothing but the cancellation of the context makes a part end without an error.
ShutdownInv ==
    /\ run = "drain" => ctxDone
    /\ listener = "closed" => ctxDone
    /\ \A s \in Server : server[s] = "shutdown" => ctxDone
    /\ \A s \in Server \cup {"proxy"} : errCh[s] = "nil" => ctxDone
    /\ main = "wait" \/ outcome \in {"drained", "timeout"} => ctxDone

\* Those that Wait waits for have been started, and once it has seen the group empty
\* none of them is in it again.
WaitInv ==
    /\ \A c \in waitedFor : client[c] \in {"spawned", "serving", "closing", "gone"}
    /\ waiter = "done" => waitedFor \cap Grouped = {}
    /\ outcome = "drained" => waiter = "done" /\ main = "exited"

ListenerInv == ListenerTypeOK /\ CountInv /\ ShutdownInv /\ WaitInv

-----------------------------------------------------------------------------
\* The sets of goroutines are finite; the wait group is at zero exactly when none is left.
LEMMA Counts ==
    ASSUME ListenerInv
    PROVE  /\ IsFiniteSet(Grouped) /\ IsFiniteSet(Serving)
           /\ Cardinality(Grouped) \in Nat /\ Cardinality(Serving) \in Nat
           /\ wg = 0 <=> Grouped = {}
           /\ Grouped = {} => Serving = {}
           /\ Serving = {} => active = 0
<1>1. Grouped \in SUBSET Client /\ Serving \in SUBSET Client /\ Serving \subseteq Grouped
  BY Zenon DEF Grouped, Serving
<1>2. IsFiniteSet(Grouped) /\ IsFiniteSet(Serving)
  BY <1>1, ClientAssumption, FS_Subset, Zenon
<1>3. Cardinality(Grouped) \in Nat /\ Cardinality(Serving) \in Nat
  BY <1>2, FS_CardinalityType, Zenon
<1>4. Cardinality(Grouped) = 0 <=> Grouped = {}
  BY <1>2, FS_EmptySet, Zenon
<1>5. Serving = {} => Cardinality(Serving) = 0
  BY <1>2, FS_EmptySet, Zenon
<1> QED
  BY <1>1, <1>2, <1>3, <1>4, <1>5, Zenon DEF ListenerInv, CountInv

\* What a change of one connection does to these sets.
LEMMA Moved ==
    ASSUME ListenerTypeOK, NEW c \in Client, NEW y, client' = [client EXCEPT ![c] = y]
    PROVE  /\ client'[c] = y /\ \A d \in Client \ {c} : client'[d] = client[d]
           /\ Grouped' = IF y \in {"spawned", "serving", "closing"} THEN Grouped \cup {c}
                                                                 ELSE Grouped \ {c}
           /\ Serving' = IF y = "serving" THEN Serving \cup {c} ELSE Serving \ {c}
BY Zenon DEF ListenerTypeOK, Grouped, Serving

-----------------------------------------------------------------------------
(* Each kind of step keeps the invariant.                                  *)

\* The signal, and the steps of the HTTP servers and of main, leave Run and the
\* connections alone.
LEMMA MainInv ==
    ASSUME ListenerInv, Signal \/ (\E s \in Server : ServerNext(s)) \/ MainNext \/ UNCHANGED listenerVars
    PROVE  ListenerInv'
<1> USE DEF acceptVars, connVars, mainVars
<1>1. UNCHANGED <<listener, run, backoff, client, wg, active>>
  BY Zenon DEF Signal, ServerNext, ServerFails, ShutdownStarts, ShutdownEnds, MainNext, SelectDone,
         SelectError, WaiterDone, WaitDone, WaitTimeout, listenerVars
<1>2. Grouped' = Grouped /\ Serving' = Serving
  BY <1>1, Zenon DEF Grouped, Serving
<1>3. CountInv'
  BY <1>1, <1>2, Zenon DEF ListenerInv, CountInv
<1>4. CASE Signal \/ UNCHANGED listenerVars
  <2>1. /\ UNCHANGED <<server, errCh, main, waiter, waitedFor, outcome>>
        /\ ctxDone' = ctxDone \/ ctxDone' = TRUE
    BY <1>4, Zenon DEF Signal, listenerVars
  <2>2. ListenerTypeOK'
    BY <1>1, <2>1, ZenonT(60) DEF ListenerInv, ListenerTypeOK
  <2>3. ShutdownInv'
    BY <1>1, <2>1, Zenon DEF ListenerInv, ShutdownInv
  <2>4. WaitInv'
    BY <1>1, <1>2, <2>1, Zenon DEF ListenerInv, WaitInv
  <2> QED
    BY <1>3, <2>2, <2>3, <2>4, Zenon DEF ListenerInv
<1>5. CASE \E s \in Server : ServerNext(s)
  <2>1. PICK s \in Server : ServerNext(s)
    BY <1>5, Zenon
  <2>2. ListenerTypeOK'
    BY <2>1, SMTT(30) DEF ServerNext, ServerFails, ShutdownStarts, ShutdownEnds, ListenerInv, ListenerTypeOK
  <2>3. ShutdownInv'
    BY <2>1, SMTT(30) DEF ServerNext, ServerFails, ShutdownStarts, ShutdownEnds, ListenerInv, ListenerTypeOK, ShutdownInv
  <2>4. WaitInv'
    BY <1>2, <2>1, Zenon DEF ServerNext, ServerFails, ShutdownStarts, ShutdownEnds, ListenerInv, WaitInv
  <2> QED
    BY <1>3, <2>2, <2>3, <2>4, Zenon DEF ListenerInv
<1>6. CASE SelectDone \/ \E s \in DOMAIN errCh : SelectError(s)
  <2>1. Grouped \subseteq Client
    BY Zenon DEF Grouped
  <2>2. ListenerTypeOK'
    BY <1>6, <2>1, SMTT(30) DEF SelectDone, SelectError, CallWait, Exit, ListenerInv, ListenerTypeOK
  <2>3. ShutdownInv'
    BY <1>6 DEF SelectDone, SelectError, CallWait, Exit, ListenerInv, ListenerTypeOK, ShutdownInv
  <2>4. \/ waiter' = "waiting" /\ waitedFor' = Grouped /\ outcome' = outcome /\ main = "select"
        \/ outcome' = "error" /\ UNCHANGED <<waiter, waitedFor>>
    BY <1>6, Zenon DEF SelectDone, SelectError, CallWait, Exit
  <2>5. main = "select" => outcome # "drained"
    BY Zenon DEF ListenerInv, WaitInv
  <2>6. \A c \in Grouped : client[c] \in {"spawned", "serving", "closing", "gone"}
    BY Zenon DEF Grouped
  <2>7. WaitInv'
    BY <1>1, <1>2, <2>4, <2>5, <2>6, Zenon DEF ListenerInv, WaitInv
  <2> QED
    BY <1>3, <2>2, <2>3, <2>7, Zenon DEF ListenerInv
<1>7. CASE WaiterDone
  <2>1. Grouped = {}
    BY <1>7, Counts, Zenon DEF WaiterDone, wgWait
  <2>2. ListenerTypeOK' /\ ShutdownInv' /\ WaitInv'
    BY <1>2, <1>7, <2>1, ZenonT(60) DEF WaiterDone, ListenerInv, ListenerTypeOK, ShutdownInv, WaitInv
  <2> QED
    BY <1>3, <2>2, Zenon DEF ListenerInv
<1>8. CASE WaitDone \/ WaitTimeout
  <2>1. ListenerTypeOK' /\ ShutdownInv' /\ WaitInv'
    BY <1>2, <1>8, ZenonT(60) DEF WaitDone, WaitTimeout, Exit, ListenerInv, ListenerTypeOK, ShutdownInv, WaitInv
  <2> QED
    BY <1>3, <2>1, Zenon DEF ListenerInv
<1> QED
  BY <1>4, <1>5, <1>6, <1>7, <1>8, Zenon DEF MainNext

\* The delay after a failed Accept stays within maxAcceptBackoff.
LEMMA BackoffCapped ==
    ASSUME ListenerInv
    PROVE  NextBackoff \in 0 .. maxAcceptBackoff
BY BackoffAssumption DEF ListenerInv, ListenerTypeOK, NextBackoff

\* Run, apart from accepting: it leaves its loop only on shutdown and returns only
\* when the group is empty.
LEMMA RunInv ==
    ASSUME ListenerInv, RunNext
    PROVE  ListenerInv'
<1> USE DEF acceptVars, connVars, mainVars
<1>1. CASE Listen \/ AcceptFails \/ Backoff \/ Drained
  <2>1. UNCHANGED <<client, wg, active, ctxDone, server, main, waiter, waitedFor, outcome>>
    BY <1>1, Zenon DEF Listen, AcceptFails, Backoff, Drained
  <2>2. Grouped' = Grouped /\ Serving' = Serving
    BY <2>1, Zenon DEF Grouped, Serving
  <2>3. Listen => \A c \in Client : client[c] = "absent"
    BY Zenon DEF Listen, ListenerInv, CountInv
  <2>4. Listen \/ Drained => Grouped = {}
    BY <2>3, Counts, Zenon DEF Drained, wgWait, Grouped
  <2>5. CountInv'
    BY <1>1, <2>1, <2>2, <2>3, <2>4, Zenon
       DEF Listen, AcceptFails, Backoff, Drained, RunReturn, ListenerInv, CountInv
  <2>6. ListenerTypeOK'
    BY <1>1, <2>1, BackoffCapped, SMTT(30)
       DEF Listen, AcceptFails, Backoff, Drained, RunReturn, ListenerInv, ListenerTypeOK
  <2>7. ShutdownInv'
    BY <1>1, <2>1, Zenon DEF Listen, AcceptFails, AcceptErrorIsFinal, Backoff, Drained, RunReturn, ListenerInv,
           ListenerTypeOK, ShutdownInv
  <2>8. WaitInv'
    BY <2>1, <2>2, Zenon DEF ListenerInv, WaitInv
  <2> QED
    BY <2>5, <2>6, <2>7, <2>8, Zenon DEF ListenerInv
<1>2. CASE CloseListener
  <2>1. Grouped' = Grouped /\ Serving' = Serving
    BY <1>2, Zenon DEF CloseListener, Grouped, Serving, ListenerInv, ListenerTypeOK
  <2>2. ListenerTypeOK'
    BY <1>2, Zenon DEF CloseListener, ListenerInv, ListenerTypeOK
  <2>3. run = "listen" => UNCHANGED client
    BY <1>2, Zenon DEF CloseListener, ListenerInv, CountInv, ListenerTypeOK
  <2>4. CountInv'
    BY <1>2, <2>1, <2>3, Zenon DEF CloseListener, ListenerInv, CountInv, ListenerTypeOK
  <2>5. ShutdownInv' /\ WaitInv'
    BY <1>2, <2>1, Zenon DEF CloseListener, ListenerInv, ShutdownInv, WaitInv, ListenerTypeOK
  <2> QED
    BY <2>2, <2>4, <2>5, Zenon DEF ListenerInv
<1> QED
  BY <1>1, <1>2, Zenon DEF RunNext

\* A connection arrives, is accepted, started, served and ended: the wait group and the
\* gauge follow its goroutine.
LEMMA ConnInv ==
    ASSUME ListenerInv, NEW c \in Client, Connect(c) \/ ClientNext(c)
    PROVE  ListenerInv'
<1> USE DEF acceptVars, connVars, mainVars
<1> DEFINE MoveTo(y) ==
        \/ /\ y = "queued" /\ client[c] = "absent" /\ listener = "open"
           /\ UNCHANGED <<run, wg, active, backoff>>
        \/ /\ y = "accepted" /\ client[c] = "queued" /\ run = "accept" /\ run' = "spawn"
           /\ backoff' = 0 /\ UNCHANGED <<wg, active>>
        \/ /\ y = "spawned" /\ client[c] = "accepted" /\ run = "spawn" /\ run' = "accept"
           /\ wg' = wg + 1 /\ UNCHANGED <<active, backoff>>
        \/ /\ y = "serving" /\ client[c] = "spawned" /\ UNCHANGED <<run, wg, backoff>>
           /\ active' = IF MetricsEnabled THEN active + 1 ELSE active
        \/ /\ y = "closing" /\ client[c] = "serving" /\ UNCHANGED <<run, wg, backoff>>
           /\ active' = IF MetricsEnabled THEN active - 1 ELSE active
        \/ /\ y = "gone" /\ client[c] = "closing" /\ UNCHANGED <<run, active, backoff>>
           /\ wg' = wg - 1
<1>1. PICK y : client' = [client EXCEPT ![c] = y] /\ MoveTo(y)
  BY Zenon DEF Connect, ClientNext, Accept, Spawn, Handle, ServeReturns, GaugeDec, HandleReturns
<1>2. /\ client'[c] = y /\ \A d \in Client \ {c} : client'[d] = client[d]
      /\ Grouped' = IF y \in {"spawned", "serving", "closing"} THEN Grouped \cup {c}
                                                            ELSE Grouped \ {c}
      /\ Serving' = IF y = "serving" THEN Serving \cup {c} ELSE Serving \ {c}
  BY <1>1, Moved, ZenonT(60) DEF ListenerInv
<1>3. UNCHANGED <<ctxDone, listener, server, errCh, main, waiter, waitedFor, outcome>>
  BY Zenon DEF Connect, ClientNext, Accept, Spawn, Handle, ServeReturns, HandleReturns
<1>4. /\ wg' = Cardinality(Grouped')
      /\ active' = IF MetricsEnabled THEN Cardinality(Serving') ELSE 0
      /\ wg' \in Nat /\ active' \in Nat
  <2>1. /\ Cardinality(Grouped \cup {c}) =
               IF c \in Grouped THEN Cardinality(Grouped) ELSE Cardinality(Grouped) + 1
        /\ Cardinality(Grouped \ {c}) =
               IF c \in Grouped THEN Cardinality(Grouped) - 1 ELSE Cardinality(Grouped)
        /\ Cardinality(Serving \cup {c}) =
               IF c \in Serving THEN Cardinality(Serving) ELSE Cardinality(Serving) + 1
        /\ Cardinality(Serving \ {c}) =
               IF c \in Serving THEN Cardinality(Serving) - 1 ELSE Cardinality(Serving)
    BY Counts, FS_AddElement, FS_RemoveElement, ZenonT(60)
  <2>2. /\ c \in Grouped <=> client[c] \in {"spawned", "serving", "closing"}
        /\ c \in Serving <=> client[c] = "serving"
    BY Zenon DEF Grouped, Serving
  <2>3. /\ wg' = Cardinality(Grouped')
        /\ active' = IF MetricsEnabled THEN Cardinality(Serving') ELSE 0
    BY <1>1, <1>2, <2>1, <2>2, Counts, ZenonT(60) DEF ListenerInv, CountInv
  <2>4. IsFiniteSet(Grouped') /\ IsFiniteSet(Serving')
    BY <1>2, Counts, FS_AddElement, FS_RemoveElement, ZenonT(60)
  <2> QED
    BY <2>3, <2>4, FS_CardinalityType, Zenon
<1>5. ListenerTypeOK'
  BY <1>1, <1>3, <1>4, BackoffAssumption, SMTT(30) DEF ListenerInv, ListenerTypeOK
<1>6. CountInv'
  <2>1. \A d \in Client : client'[d] = "accepted" => run' = "spawn"
    BY <1>1, <1>2, Zenon DEF ListenerInv, CountInv
  <2>2. \A d, e \in Client : client'[d] = "accepted" /\ client'[e] = "accepted" => d = e
    BY <1>1, <1>2, ZenonT(60) DEF ListenerInv, CountInv
  <2>3. run' = "listen" => FALSE
    BY <1>1, Zenon DEF ListenerInv, CountInv
  <2>4. run' = "returned" => Grouped' = {}
    BY <1>1, <1>2, Zenon DEF ListenerInv, CountInv, Grouped
  <2> QED
    BY <1>4, <2>1, <2>2, <2>3, <2>4, Zenon DEF CountInv
<1>7. ShutdownInv'
  BY <1>1, <1>3, Zenon DEF ListenerInv, ShutdownInv
<1>8. WaitInv'
  <2>1. c \in waitedFor => client[c] \notin {"absent", "queued", "accepted"}
    BY Zenon DEF ListenerInv, WaitInv
  <2>2. waiter = "done" => waitedFor \cap Grouped' = {}
    BY <1>1, <1>2, <2>1, Zenon DEF ListenerInv, WaitInv, Grouped
  <2>3. \A d \in waitedFor : client'[d] \in {"spawned", "serving", "closing", "gone"}
    BY <1>1, <1>2, <2>1, Zenon DEF ListenerInv, WaitInv, ListenerTypeOK
  <2> QED
    BY <1>3, <2>2, <2>3, Zenon DEF ListenerInv, WaitInv
<1> QED
  BY <1>5, <1>6, <1>7, <1>8, Zenon DEF ListenerInv

-----------------------------------------------------------------------------
\* The invariant holds when main has started the servers.
LEMMA ListenerInitInv == ListenerInit => ListenerInv
<1> SUFFICES ASSUME ListenerInit PROVE ListenerInv
  BY Zenon
<1>1. ListenerTypeOK
  <2>1. /\ server \in [Server -> {"off", "serving", "shutdown", "returned"}]
        /\ errCh \in [Server \cup {"proxy"} -> {"empty", "nil", "err"}]
        /\ client \in [Client -> {"absent", "queued", "accepted", "spawned", "serving",
                              "closing", "gone"}]
    BY Zenon DEF ListenerInit
  <2>2. ctxDone \in BOOLEAN /\ waitedFor \subseteq Client
    BY Zenon DEF ListenerInit
  <2>3. backoff \in 0 .. maxAcceptBackoff
    BY BackoffAssumption DEF ListenerInit
  <2> QED
    BY <2>1, <2>2, <2>3, Zenon DEF ListenerInit, ListenerTypeOK
<1>2. Grouped = {} /\ Serving = {}
  BY Zenon DEF ListenerInit, Grouped, Serving
<1>3. CountInv /\ ShutdownInv /\ WaitInv
  BY <1>2, FS_EmptySet, EnabledAssumption, Zenon DEF ListenerInit, CountInv, ShutdownInv, WaitInv
<1> QED
  BY <1>1, <1>3, Zenon DEF ListenerInv

\* Every step of the process keeps the invariant.
LEMMA ListenerNextInv == ListenerInv /\ [ListenerNext]_listenerVars => ListenerInv'
BY MainInv, RunInv, ConnInv, Zenon DEF ListenerNext, Exited

\* Types, and the cap on the back-off, for any number of clients.
THEOREM ListenerTypeCorrect == ListenerSpec => []ListenerTypeOK
<1>1. ListenerInv => ListenerTypeOK
  BY Zenon DEF ListenerInv
<1> QED
  BY ListenerInitInv, ListenerNextInv, <1>1, PTL DEF ListenerSpec

\* When Run has returned, all it ever accepted has ended and the gauge is at zero.
THEOREM RunSafe == ListenerSpec => []RunReturnsDrained
<1>1. ListenerInv => RunReturnsDrained
  BY Counts, Zenon DEF ListenerInv, CountInv, RunReturnsDrained, InFlight
<1> QED
  BY ListenerInitInv, ListenerNextInv, <1>1, PTL DEF ListenerSpec

\* Only the cancellation of the context ends the accept loop, and the process without
\* an error.
THEOREM LoopSafe == ListenerSpec => []OnlyShutdownEndsRun
<1>1. ListenerInv => OnlyShutdownEndsRun
  BY Zenon DEF ListenerInv, ShutdownInv, OnlyShutdownEndsRun
<1> QED
  BY ListenerInitInv, ListenerNextInv, <1>1, PTL DEF ListenerSpec

\* A process that reports a complete drain has seen the end of all that main waited for.
THEOREM WaitSafe == ListenerSpec => []WaitCoversGroup
<1>1. ListenerInv => WaitCoversGroup
  BY Zenon DEF ListenerInv, WaitInv, WaitCoversGroup
<1> QED
  BY ListenerInitInv, ListenerNextInv, <1>1, PTL DEF ListenerSpec

-----------------------------------------------------------------------------
(* Metrics.                                                                *)

\* The sum of f over S.
Weight(f, S) == MapThenSumSet(LAMBDA x : f[x], S)

\* Induction over the naturals, for a set.
LEMMA NatSetInduction ==
    ASSUME NEW T, \A n \in Nat : (\A m \in Nat : m < n => m \in T) => n \in T
    PROVE  Nat \subseteq T
<1> DEFINE R == {ss \in Nat \X Nat : ss[1] < ss[2]}
<1>1. IsWellFoundedOn(R, Nat)
  BY NatLessThanWellFounded, Zenon DEF OpToRel
<1>2. SUFFICES ASSUME Nat \ T # {} PROVE FALSE
  BY Zenon
<1>3. PICK n \in Nat \ T : \A y \in Nat \ T : <<y, n>> \notin R
  <2> HIDE DEF R
  <2>1. Nat \ T \subseteq Nat
    BY Zenon
  <2> QED
    BY <1>1, <1>2, <2>1, WFMin, Zenon
<1>4. \A m \in Nat : m < n => m \in T
  BY <1>3, ZenonT(60)
<1> QED
  BY <1>3, <1>4, Zenon

\* Induction over the subsets of a finite set.
LEMMA SetInduction ==
    ASSUME NEW S, IsFiniteSet(S), NEW T,
           \A U \in SUBSET S : (\A V \in SUBSET U : V # U => V \in T) => U \in T
    PROVE  SUBSET S \subseteq T
<1> DEFINE N == {n \in Nat : \A U \in SUBSET S : Cardinality(U) = n => U \in T}
<1>1. ASSUME NEW n \in Nat, \A m \in Nat : m < n => m \in N
      PROVE  n \in N
  <2>1. SUFFICES ASSUME NEW U \in SUBSET S, Cardinality(U) = n PROVE U \in T
    BY Zenon
  <2>2. ASSUME NEW V \in SUBSET U, V # U PROVE V \in T
    <3>1. IsFiniteSet(U) /\ V \in SUBSET S
      BY FS_Subset, Zenon
    <3>2. Cardinality(V) \in Nat /\ Cardinality(V) < n
      BY <2>1, <2>2, <3>1, FS_Subset, FS_CardinalityType
    <3>3. Cardinality(V) \in N
      BY <1>1, <3>2, Zenon
    <3> QED
      BY <3>1, <3>3, Zenon
  <2> QED
    BY <2>2, Zenon
<1>2. Nat \subseteq N
  <2> HIDE DEF N
  <2> QED
    BY <1>1, NatSetInduction, Zenon
<1> QED
  BY <1>2, FS_Subset, FS_CardinalityType, Zenon

\* The recursion that defines Weight.
First(s) == CHOOSE x \in s : TRUE
\* One step of the recursion of the sum.
Step(f, g, s) == IF s = {} THEN 0 ELSE f[First(s)] + g[s \ {First(s)}]

\* It has a solution.
LEMMA SumExists ==
    ASSUME NEW S, IsFiniteSet(S), NEW f, \A x \in S : f[x] \in Int
    PROVE  \E g \in [SUBSET S -> Int] : \A s \in SUBSET S : g[s] = Step(f, g, s)
<1> DEFINE Upto(g, n) == \A s \in SUBSET S : Cardinality(s) <= n => g[s] = Step(f, g, s)
           N == {n \in Nat : \E g \in [SUBSET S -> Int] : Upto(g, n)}
<1>0. ASSUME NEW s \in SUBSET S
      PROVE  /\ IsFiniteSet(s) /\ Cardinality(s) \in Nat /\ Cardinality(s) <= Cardinality(S)
             /\ s # {} => First(s) \in s /\ s \ {First(s)} \in SUBSET S
             /\ s # {} => Cardinality(s \ {First(s)}) = Cardinality(s) - 1
             /\ s = {} <=> Cardinality(s) = 0
  <2> HIDE DEF Upto, N
  <2>1. /\ IsFiniteSet(s) /\ Cardinality(s) \in Nat /\ Cardinality(s) <= Cardinality(S)
        /\ s = {} <=> Cardinality(s) = 0
    BY FS_Subset, FS_CardinalityType, FS_EmptySet, Zenon
  <2>2. s # {} => First(s) \in s
    BY Zenon DEF First
  <2> QED
    BY <2>1, <2>2, FS_RemoveElement, ZenonT(60)
<1>1. ASSUME NEW g \in [SUBSET S -> Int], NEW s \in SUBSET S
      PROVE  Step(f, g, s) \in Int
  <2>1. CASE s = {}
    BY <2>1 DEF Step
  <2>2. CASE s # {}
    <3>1. f[First(s)] \in Int /\ g[s \ {First(s)}] \in Int
      BY <1>0, <2>2, ZenonT(60)
    <3> QED
      BY <2>2, <3>1 DEF Step
  <2> QED
    BY <2>1, <2>2, Zenon
<1>2. ASSUME NEW n \in Nat, \A m \in Nat : m < n => m \in N
      PROVE  n \in N
  <2>1. CASE n = 0
    <3> DEFINE g == [s \in SUBSET S |-> 0]
    <3>1. g \in [SUBSET S -> Int]
      OBVIOUS
    <3>2. ASSUME NEW s \in SUBSET S, Cardinality(s) <= 0 PROVE g[s] = Step(f, g, s)
      <4>1. Cardinality(s) \in Nat /\ (s = {} <=> Cardinality(s) = 0)
        BY <1>0, Zenon
      <4>2. s = {}
        BY <3>2, <4>1
      <4> QED
        BY <4>2, Zenon DEF Step
    <3> HIDE DEF g
    <3> QED
      BY <2>1, <3>1, <3>2, Zenon
  <2>2. CASE n > 0
    <3>1. n - 1 \in Nat /\ n - 1 < n
      BY <2>2
    <3>2. PICK g \in [SUBSET S -> Int] : Upto(g, n - 1)
      BY <1>2, <3>1, Zenon
    <3> DEFINE h == [s \in SUBSET S |-> IF Cardinality(s) = n THEN Step(f, g, s) ELSE g[s]]
    <3>3. h \in [SUBSET S -> Int]
      BY <1>1, Zenon
    <3>4. ASSUME NEW s \in SUBSET S, Cardinality(s) <= n PROVE h[s] = Step(f, h, s)
      <4>1. Step(f, h, s) = Step(f, g, s)
        <5>1. CASE s = {}
          BY <5>1, Zenon DEF Step
        <5>2. CASE s # {}
          <6>0. /\ s \ {First(s)} \in SUBSET S /\ Cardinality(s) \in Nat
                /\ Cardinality(s \ {First(s)}) = Cardinality(s) - 1
            BY <1>0, <5>2, Zenon
          <6>1. Cardinality(s \ {First(s)}) # n
            BY <3>4, <6>0
          <6>2. h[s \ {First(s)}] = g[s \ {First(s)}]
            BY <6>0, <6>1, Zenon
          <6> QED
            BY <5>2, <6>2, Zenon DEF Step
        <5> QED
          BY <5>1, <5>2, Zenon
      <4>2. CASE Cardinality(s) = n
        BY <4>1, <4>2, Zenon
      <4>3. CASE Cardinality(s) # n
        <5>0. Cardinality(s) \in Nat
          BY <1>0, Zenon
        <5>1. Cardinality(s) <= n - 1
          BY <3>4, <4>3, <5>0
        <5>2. g[s] = Step(f, g, s)
          BY <3>2, <5>1, Zenon
        <5> QED
          BY <4>1, <4>3, <5>2, Zenon
      <4> QED
        BY <4>2, <4>3, Zenon
    <3> HIDE DEF h
    <3> QED
      BY <3>3, <3>4, Zenon
  <2> HIDE DEF N
  <2> QED
    BY <2>1, <2>2
<1>3. Cardinality(S) \in N
  <2>1. Nat \subseteq N
    <3> HIDE DEF N
    <3> QED
      BY <1>2, NatSetInduction, Zenon
  <2>2. Cardinality(S) \in Nat
    BY FS_CardinalityType, Zenon
  <2> HIDE DEF N
  <2> QED
    BY <2>1, <2>2, Zenon
<1>4. PICK g \in [SUBSET S -> Int] : Upto(g, Cardinality(S))
  BY <1>3, Zenon
<1> QED
  BY <1>0, <1>4, Zenon

\* Weight is a solution of it.
LEMMA WeightRec ==
    ASSUME NEW S, IsFiniteSet(S), NEW f, \A x \in S : f[x] \in Int
    PROVE  \E g : /\ \A s \in SUBSET S : g[s] = Step(f, g, s)
                 /\ Weight(f, S) = g[S]
<1> DEFINE iter == CHOOSE g : g = [s \in SUBSET S |-> Step(f, g, s)]
<1>1. \E g : g = [s \in SUBSET S |-> Step(f, g, s)]
  <2>1. PICK g \in [SUBSET S -> Int] : \A s \in SUBSET S : g[s] = Step(f, g, s)
    BY SumExists, ZenonT(60)
  <2>2. g = [s \in SUBSET S |-> Step(f, g, s)]
    BY <2>1, Zenon
  <2> QED
    BY <2>2, Zenon
<1>2. iter = [s \in SUBSET S |-> Step(f, iter, s)]
  BY <1>1, Zenon
<1>3. Weight(f, S) = iter[S]
  BY Zenon DEF Weight, MapThenSumSet, MapThenFoldSet, Step, First
<1> HIDE DEF iter
<1>4. \A s \in SUBSET S : iter[s] = Step(f, iter, s)
  BY <1>2, Zenon
<1> QED
  BY <1>3, <1>4, Zenon

\* All solutions are Weight.
LEMMA WeightIs ==
    ASSUME NEW S, IsFiniteSet(S), NEW f, \A x \in S : f[x] \in Int,
           NEW g, \A s \in SUBSET S : g[s] = Step(f, g, s), NEW s \in SUBSET S
    PROVE  Weight(f, s) = g[s]
<1>1. IsFiniteSet(s) /\ \A x \in s : f[x] \in Int
  BY FS_Subset, Zenon
<1>2. PICK h : (\A u \in SUBSET s : h[u] = Step(f, h, u)) /\ Weight(f, s) = h[s]
  BY <1>1, WeightRec, Zenon
<1> DEFINE T == {u \in SUBSET s : h[u] = g[u]}
<1>3. ASSUME NEW U \in SUBSET s, \A V \in SUBSET U : V # U => V \in T
      PROVE  U \in T
  <2>1. h[U] = Step(f, h, U) /\ g[U] = Step(f, g, U)
    <3>1. U \in SUBSET S
      BY Zenon
    <3> QED
      BY <1>2, <3>1, Zenon
  <2>2. CASE U = {}
    BY <2>1, <2>2, Zenon DEF Step
  <2>3. CASE U # {}
    <3>1. First(U) \in U
      BY <2>3, Zenon DEF First
    <3>2. U \ {First(U)} \in T
      BY <1>3, <3>1, Zenon
    <3> QED
      BY <2>1, <2>3, <3>2, Zenon DEF Step
  <2> QED
    BY <2>2, <2>3, Zenon
<1>4. SUBSET s \subseteq T
  <2> HIDE DEF T
  <2> QED
    BY <1>1, <1>3, SetInduction, Zenon
<1> QED
  BY <1>2, <1>4, Zenon

\* Weight adds up from any element.
LEMMA WeightFacts ==
    ASSUME NEW S, IsFiniteSet(S), NEW f, \A x \in S : f[x] \in Int
    PROVE  /\ Weight(f, S) \in Int
           /\ S = {} => Weight(f, S) = 0
           /\ \A y \in S : Weight(f, S) = f[y] + Weight(f, S \ {y})
<1>1. PICK g \in [SUBSET S -> Int] : \A s \in SUBSET S : g[s] = Step(f, g, s)
  BY SumExists, Zenon
<1>2. ASSUME NEW s \in SUBSET S PROVE Weight(f, s) = g[s] /\ g[s] \in Int
  <2>1. Weight(f, s) = g[s]
    BY <1>1, WeightIs
  <2> QED
    BY <2>1, Zenon
<1> DEFINE T == {u \in SUBSET S : \A y \in u : g[u] = f[y] + g[u \ {y}]}
<1>3. ASSUME NEW U \in SUBSET S, \A V \in SUBSET U : V # U => V \in T
      PROVE  U \in T
  <2>1. SUFFICES ASSUME NEW y \in U PROVE g[U] = f[y] + g[U \ {y}]
    BY Zenon
  <2> DEFINE x == First(U)
  <2>2. x \in U
    BY Zenon DEF First
  <2>3. g[U] = f[x] + g[U \ {x}]
    BY <1>1, <2>2, Zenon DEF Step
  <2> HIDE DEF x
  <2>4. CASE x = y
    BY <2>3, <2>4, Zenon
  <2>5. CASE x # y
    <3>1. U \ {x} \in T /\ U \ {y} \in T
      BY <1>3, <2>2, Zenon
    <3>2. (U \ {x}) \ {y} = (U \ {y}) \ {x}
      BY Zenon
    <3>3. /\ g[U \ {x}] = f[y] + g[(U \ {x}) \ {y}]
          /\ g[U \ {y}] = f[x] + g[(U \ {x}) \ {y}]
      BY <2>2, <2>5, <3>1, <3>2, Zenon
    <3>4. /\ f[x] \in Int /\ f[y] \in Int
          /\ g[(U \ {x}) \ {y}] \in Int
      BY <2>2, <1>1, Zenon
    <3> HIDE DEF T
    <3> QED
      BY <2>3, <3>3, <3>4
  <2> QED
    BY <2>4, <2>5, Zenon
<1>4. SUBSET S \subseteq T
  <2> HIDE DEF T
  <2> QED
    BY <1>3, SetInduction
<1>5. S = {} => g[S] = 0
  BY <1>1, Zenon DEF Step
<1>6. \A y \in S : g[S] = f[y] + g[S \ {y}]
  BY <1>4, Zenon
<1> QED
  BY <1>2, <1>5, <1>6, Zenon

\* Functions that agree have the same weight.
LEMMA WeightAgrees ==
    ASSUME NEW S, IsFiniteSet(S), NEW f, NEW h, \A x \in S : f[x] \in Int /\ h[x] = f[x]
    PROVE  Weight(h, S) = Weight(f, S)
<1> DEFINE T == {u \in SUBSET S : Weight(h, u) = Weight(f, u)}
<1>1. ASSUME NEW U \in SUBSET S, \A V \in SUBSET U : V # U => V \in T
      PROVE  U \in T
  <2>1. IsFiniteSet(U)
    BY FS_Subset, Zenon
  <2>2. CASE U = {}
    BY <2>1, <2>2, WeightFacts, Zenon
  <2>3. CASE U # {}
    <3>1. PICK y \in U : TRUE
      BY <2>3, Zenon
    <3>2. Weight(h, U \ {y}) = Weight(f, U \ {y})
      BY <1>1, Zenon
    <3>3. (\A x \in U : f[x] \in Int) /\ (\A x \in U : h[x] \in Int) /\ h[y] = f[y]
      BY Zenon
    <3>4. /\ Weight(h, U) = h[y] + Weight(h, U \ {y})
          /\ Weight(f, U) = f[y] + Weight(f, U \ {y})
      BY <2>1, <3>3, WeightFacts, ZenonT(60)
    <3> QED
      BY <3>2, <3>3, <3>4, Zenon
  <2> QED
    BY <2>2, <2>3, Zenon
<1>2. SUBSET S \subseteq T
  <2> HIDE DEF T
  <2> QED
    BY <1>1, SetInduction, Zenon
<1> QED
  BY <1>2, Zenon

-----------------------------------------------------------------------------
(* Counters.                                                               *)

\* A counter: finitely many series, each with a number.
Counter(B) == IsFiniteSet(DOMAIN B) /\ \A x \in DOMAIN B : B[x] \in Nat

\* A counter adds up to a number.
LEMMA TotalType ==
    ASSUME NEW B, Counter(B), NEW L
    PROVE  Total(B, L) \in Int
<1>1. IsFiniteSet(DOMAIN B \cap L) /\ \A x \in DOMAIN B \cap L : B[x] \in Int
  BY FS_Subset DEF Counter
<1>2. Total(B, L) = Weight(B, DOMAIN B \cap L)
  BY Zenon DEF Total, Weight
<1> QED
  BY <1>1, <1>2, WeightFacts, Zenon

\* Inc adds one to one of them.
LEMMA IncIs ==
    ASSUME NEW B, Counter(B), NEW x
    PROVE  /\ Counter(Inc(B, x)) /\ DOMAIN Inc(B, x) = DOMAIN B \cup {x}
           /\ Inc(B, x)[x] = (IF x \in DOMAIN B THEN B[x] ELSE 0) + 1
           /\ \A y \in DOMAIN B : y # x => Inc(B, x)[y] = B[y]
<1> DEFINE C == Inc(B, x)
<1>1. /\ DOMAIN C = DOMAIN B \cup {x}
      /\ C[x] = (IF x \in DOMAIN B THEN B[x] ELSE 0) + 1
      /\ \A y \in DOMAIN B : y # x => C[y] = B[y]
  BY DEF Inc, Counter
<1>2. IsFiniteSet(DOMAIN C)
  BY <1>1, FS_AddElement DEF Counter
<1>3. \A y \in DOMAIN C : C[y] \in Nat
  BY <1>1 DEF Counter
<1> QED
  BY <1>1, <1>2, <1>3, Zenon DEF Counter

\* One, when it holds.
Bit(b) == IF b THEN 1 ELSE 0

\* Inc adds one to the total of any set of labels with the label.
LEMMA TotalAdd ==
    ASSUME NEW B, Counter(B), NEW x, NEW L
    PROVE  Total(Inc(B, x), L) = Total(B, L) + Bit(x \in L)
<1> DEFINE C == Inc(B, x)
           D == DOMAIN B \cap L
           E == DOMAIN C \cap L
           b == IF x \in DOMAIN B THEN B[x] ELSE 0
<1>1. /\ Counter(C) /\ DOMAIN C = DOMAIN B \cup {x} /\ C[x] = b + 1
      /\ \A y \in DOMAIN B : y # x => C[y] = B[y]
  BY IncIs, Zenon
<1>2. b \in Nat
  BY Zenon DEF Counter
<1> HIDE DEF C
<1>4. /\ IsFiniteSet(D) /\ IsFiniteSet(E)
      /\ \A y \in D : B[y] \in Int
      /\ \A y \in E : C[y] \in Int
  BY <1>1, FS_Subset DEF Counter
<1>5. Total(B, L) = Weight(B, D) /\ Total(C, L) = Weight(C, E)
  BY Zenon DEF Total, Weight
<1>6. CASE x \notin L
  <2>0. E = D
    BY <1>1, <1>6, Zenon
  <2>1. \A y \in D : B[y] \in Int /\ C[y] = B[y]
    BY <1>1, <1>4, <1>6, Zenon
  <2>2. Weight(C, D) = Weight(B, D) /\ Weight(B, D) \in Int
    BY <1>4, <2>1, WeightAgrees, WeightFacts, Zenon
  <2> HIDE DEF D, E
  <2>3. Weight(C, E) = Weight(B, D)
    BY <2>0, <2>2, Zenon
  <2> QED
    BY <1>5, <1>6, <2>2, <2>3 DEF C, Bit
<1>7. CASE x \in L
  <2> DEFINE R == D \ {x}
  <2>1. /\ x \in E /\ E \ {x} = R /\ IsFiniteSet(R)
        /\ \A y \in R : B[y] \in Int /\ C[y] = B[y]
    BY <1>1, <1>4, <1>7, FS_Subset, Zenon
  <2>2. Weight(C, E) = b + 1 + Weight(C, R)
    BY <1>1, <1>4, <2>1, WeightFacts
  <2>3. Weight(C, R) = Weight(B, R) /\ Weight(B, R) \in Int
    BY <2>1, WeightAgrees, WeightFacts, Zenon
  <2>4. Weight(B, D) = b + Weight(B, R)
    <3>1. CASE x \in D
      BY <1>4, <3>1, WeightFacts, Zenon
    <3>2. CASE x \notin D
      BY <1>7, <2>3, <3>2
    <3> QED
      BY <3>1, <3>2, Zenon
  <2> HIDE DEF R, D, E, b
  <2>5. Weight(C, E) = Weight(B, D) + 1
    BY <1>2, <2>2, <2>3, <2>4
  <2> QED
    BY <1>5, <1>7, <2>5, Zenon DEF C, Bit
<1> QED
  BY <1>6, <1>7, Zenon

\* What a function takes on a finite set is finite, and not larger.
LEMMA ImageIsFinite ==
    ASSUME NEW S, IsFiniteSet(S), NEW f, NEW T, T = {f[x] : x \in S}
    PROVE  IsFiniteSet(T) /\ Cardinality(T) <= Cardinality(S)
<1> DEFINE g == [x \in S |-> f[x]]
<1>1. g \in Surjection(S, T)
  BY Zenon DEF Surjection
<1> HIDE DEF g
<1> QED
  BY <1>1, FS_Surjection, Zenon

\* One member of a set decides how two subsets differ.
LEMMA CountChange ==
    ASSUME NEW S, IsFiniteSet(S), NEW c \in S, NEW A \in SUBSET S, NEW B \in SUBSET S,
           \A d \in S : d # c => (d \in A <=> d \in B)
    PROVE  /\ Cardinality(A) \in Nat /\ Cardinality(B) \in Nat
           /\ Cardinality(B) = Cardinality(A) + (IF c \in B THEN 1 ELSE 0)
                                             - (IF c \in A THEN 1 ELSE 0)
<1> DEFINE R == A \ {c}
<1>1. IsFiniteSet(A) /\ IsFiniteSet(B) /\ IsFiniteSet(R)
  BY FS_Subset, Zenon
<1>2. Cardinality(A) \in Nat /\ Cardinality(B) \in Nat /\ Cardinality(R) \in Nat
  BY <1>1, FS_CardinalityType, Zenon
<1>3. R = B \ {c}
  BY Zenon
<1>4. /\ Cardinality(R) = IF c \in A THEN Cardinality(A) - 1 ELSE Cardinality(A)
      /\ Cardinality(R) = IF c \in B THEN Cardinality(B) - 1 ELSE Cardinality(B)
  BY <1>1, <1>3, FS_RemoveElement
<1> HIDE DEF R
<1> QED
  BY <1>2, <1>4

-----------------------------------------------------------------------------
(* The inductive invariant of Metrics.                                     *)

Fields == {"state", "mech", "tenant", "rounds", "upstream", "key", "pc", "err", "garbled"}
\* The counters of the metrics.
Counters == {"SaslHandshake", "ResolverCalls", "UpstreamError", "Requests"}
\* The requests of a login.
Sasl == {"SaslHandshake", "SaslAuthenticate"}

\* What a connection's fields say of where its handler is.
ConnOK(r) ==
    /\ DOMAIN r = Fields
    /\ r.tenant \in TenantID \cup {"empty"} /\ r.rounds \in Nat
    /\ r.pc \in {"dialRelay", "relay"} => r.key = "SaslAuthenticate" /\ r.mech \in ScramMechanisms
    /\ r.pc = "dialRelay" => r.state = "AwaitAuth"
    /\ r.pc = "relay" => r.state = "RelaySaslInFlight"
    /\ r.pc \in {"dial", "roundTrip"} => r.key \in Key
    /\ r.garbled \in BOOLEAN /\ r.err \in BOOLEAN
    /\ r.garbled => r.pc \in {"observe", "closed"} /\ r.err

\* The labels of the series.
MetricsOK(m) ==
    /\ DOMAIN m = Counters /\ \A k \in Counters : Counter(m[k])
    /\ \A x \in DOMAIN m.SaslHandshake : x[1] \in Mechanisms \cup {"unknown"}
    /\ \A x \in DOMAIN m.Requests : x[2] \in TenantID \cup {"_unauth"} /\ x[2] # "empty"

\* The sums that the properties are about.
Oks(m) == Total(m.SaslHandshake, Mechanisms \X {"ok"})
\* All outcomes of login steps.
Outcomes(m) == Total(m.SaslHandshake, DOMAIN m.SaslHandshake)
\* All login requests that were observed.
Steps(m) == Total(m.Requests, Sasl \X (TenantID \cup {"_unauth"}))
Found(m) == Total(m.ResolverCalls, {"ok"})

\* What a connection contributes.
Authenticated(r) == r.state = "Authenticated"
\* Its handshake was accepted.
Accepted(r) == r.state # "AwaitHandshake"
RelayLeg(r) == r.rounds > 0
\* It is about to be observed.
Uncounted(r) == r.pc = "observe" /\ r.key \in Sasl

\* The tenants that a connection or a series names.
Named(m, cs) ==
    ({x[2] : x \in DOMAIN m.Requests} \cup {cs[c].tenant : c \in Conn}) \ {"_unauth", "empty"}

\* The inductive invariant.
Inv ==
    /\ DOMAIN conn = Conn /\ \A c \in Conn : ConnOK(conn[c])
    /\ MetricsOK(metrics)
    /\ OkCountsAuthentications
    /\ EveryStepHasOneOutcome
    /\ Cardinality(Named(metrics, conn)) <= Found(metrics)

-----------------------------------------------------------------------------
(* What counting does.                                                     *)

\* The sums are numbers.
LEMMA SumTypes ==
    ASSUME NEW m, MetricsOK(m)
    PROVE  Oks(m) \in Int /\ Outcomes(m) \in Int /\ Steps(m) \in Int /\ Found(m) \in Int
<1>1. Counter(m.SaslHandshake) /\ Counter(m.Requests) /\ Counter(m.ResolverCalls)
  BY Zenon DEF MetricsOK, Counters
<1> QED
  BY <1>1, TotalType, Zenon DEF Oks, Outcomes, Steps, Found

\* The whole of a counter grows by one.
LEMMA TotalAll ==
    ASSUME NEW B, Counter(B), NEW x
    PROVE  Total(Inc(B, x), DOMAIN Inc(B, x)) = Total(B, DOMAIN B) + 1
<1>1. DOMAIN Inc(B, x) = DOMAIN B \cup {x}
  BY IncIs, Zenon
<1>4. Total(Inc(B, x), DOMAIN B \cup {x})
        = Total(B, DOMAIN B \cup {x}) + Bit(x \in DOMAIN B \cup {x})
  BY TotalAdd, Zenon
<1>5. Bit(x \in DOMAIN B \cup {x}) = 1
  BY Zenon DEF Bit
<1>2. DOMAIN B \cap (DOMAIN B \cup {x}) = DOMAIN B \cap DOMAIN B
  BY Zenon
<1>3. Total(B, DOMAIN B \cup {x}) = Total(B, DOMAIN B)
  BY <1>2, Zenon DEF Total
<1> QED
  BY <1>1, <1>3, <1>4, <1>5, Zenon

\* observeHandshake adds one outcome.
LEMMA OutcomeIsCounted ==
    ASSUME NEW m, MetricsOK(m), NEW mech, NEW result,
           NEW n, n = observeHandshake(m, mech, result)
    PROVE  /\ MetricsOK(n) /\ n.Requests = m.Requests /\ Steps(n) = Steps(m) /\ Found(n) = Found(m)
           /\ Outcomes(n) = Outcomes(m) + 1
           /\ Oks(n) = Oks(m) + Bit(mech \in Mechanisms /\ result = "ok")
<1> DEFINE x == <<MechLabel(mech), result>>
           H == m.SaslHandshake
<1>1. /\ DOMAIN n = Counters /\ n.SaslHandshake = Inc(H, x)
      /\ \A k \in Counters : k # "SaslHandshake" => n[k] = m[k]
  BY Zenon DEF observeHandshake, MetricsOK, Counters
<1>2. Counter(H)
  BY Zenon DEF MetricsOK, Counters
<1> HIDE DEF H
<1>3. MechLabel(mech) \in Mechanisms \cup {"unknown"} /\ "unknown" \notin Mechanisms
  BY Zenon DEF MechLabel, Mechanisms, ScramMechanisms
<1>4. x \in Mechanisms \X {"ok"} <=> mech \in Mechanisms /\ result = "ok"
  BY <1>3, Zenon DEF MechLabel
<1>5. x[1] = MechLabel(mech)
  BY Zenon
<1> HIDE DEF x
<1>6. /\ Counter(Inc(H, x)) /\ DOMAIN Inc(H, x) = DOMAIN H \cup {x}
      /\ Total(Inc(H, x), Mechanisms \X {"ok"})
            = Total(H, Mechanisms \X {"ok"}) + Bit(x \in Mechanisms \X {"ok"})
      /\ Total(Inc(H, x), DOMAIN Inc(H, x)) = Total(H, DOMAIN H) + 1
  <2>1. Counter(Inc(H, x)) /\ DOMAIN Inc(H, x) = DOMAIN H \cup {x}
    BY <1>2, IncIs, Zenon
  <2>2. Total(Inc(H, x), DOMAIN Inc(H, x)) = Total(H, DOMAIN H) + 1
    BY <1>2, TotalAll, Zenon
  <2>3. Total(Inc(H, x), Mechanisms \X {"ok"})
          = Total(H, Mechanisms \X {"ok"}) + Bit(x \in Mechanisms \X {"ok"})
    BY <1>2, TotalAdd, Zenon
  <2> QED
    BY <2>1, <2>2, <2>3, Zenon
<1>7. n.Requests = m.Requests /\ n.ResolverCalls = m.ResolverCalls
  BY <1>1, Zenon DEF Counters
<1>8. MetricsOK(n)
  <2>1. \A k \in Counters : Counter(n[k])
    BY <1>1, <1>6, Zenon DEF MetricsOK
  <2>2. \A y \in DOMAIN n.SaslHandshake : y[1] \in Mechanisms \cup {"unknown"}
    BY <1>1, <1>3, <1>5, <1>6, Zenon DEF MetricsOK, H
  <2> QED
    BY <1>1, <1>7, <2>1, <2>2, Zenon DEF MetricsOK
<1>9. Oks(n) = Oks(m) + Bit(mech \in Mechanisms /\ result = "ok")
  BY <1>1, <1>4, <1>6, Zenon DEF Oks, Bit, H
<1> QED
  BY <1>1, <1>6, <1>7, <1>8, <1>9, Zenon DEF Steps, Found, Outcomes, H

\* So does ResolverCalls, in a counter of its own.
LEMMA CallIsCounted ==
    ASSUME NEW m, MetricsOK(m), NEW result, NEW n, n = ResolverCalls(m, result)
    PROVE  /\ MetricsOK(n) /\ n.Requests = m.Requests /\ Steps(n) = Steps(m)
           /\ Outcomes(n) = Outcomes(m) /\ Oks(n) = Oks(m)
           /\ Found(n) = Found(m) + Bit(result = "ok")
<1>1. /\ DOMAIN n = Counters /\ n.ResolverCalls = Inc(m.ResolverCalls, result)
      /\ n.SaslHandshake = m.SaslHandshake /\ n.Requests = m.Requests
      /\ \A k \in Counters : k # "ResolverCalls" => n[k] = m[k]
  BY Zenon DEF ResolverCalls, MetricsOK, Counters
<1>2. Counter(m.ResolverCalls)
  BY Zenon DEF MetricsOK, Counters
<1>3. Counter(Inc(m.ResolverCalls, result))
  BY <1>2, IncIs, Zenon
<1>6. Total(Inc(m.ResolverCalls, result), {"ok"})
        = Total(m.ResolverCalls, {"ok"}) + Bit(result \in {"ok"})
  BY <1>2, TotalAdd, Zenon
<1>5. Found(n) = Found(m) + Bit(result \in {"ok"})
  BY <1>1, <1>6, Zenon DEF Found
<1>4. MetricsOK(n)
  BY <1>1, <1>3, Zenon DEF MetricsOK
<1> QED
  BY <1>1, <1>4, <1>5, Zenon DEF Steps, Outcomes, Oks, Bit

\* And UpstreamError.
LEMMA ErrorIsCounted ==
    ASSUME NEW m, MetricsOK(m), NEW kind, NEW n, n = UpstreamError(m, kind)
    PROVE  /\ MetricsOK(n) /\ n.Requests = m.Requests /\ Steps(n) = Steps(m)
           /\ Outcomes(n) = Outcomes(m) /\ Oks(n) = Oks(m) /\ Found(n) = Found(m)
<1>1. /\ DOMAIN n = Counters /\ n.UpstreamError = Inc(m.UpstreamError, kind)
      /\ n.SaslHandshake = m.SaslHandshake /\ n.Requests = m.Requests
      /\ n.ResolverCalls = m.ResolverCalls
      /\ \A k \in Counters : k # "UpstreamError" => n[k] = m[k]
  BY Zenon DEF UpstreamError, MetricsOK, Counters
<1>2. Counter(m.UpstreamError)
  BY Zenon DEF MetricsOK, Counters
<1>3. Counter(Inc(m.UpstreamError, kind))
  BY <1>2, IncIs, Zenon
<1>4. MetricsOK(n)
  BY <1>1, <1>3, Zenon DEF MetricsOK
<1> QED
  BY <1>1, <1>4, Zenon DEF Steps, Outcomes, Oks, Found

-----------------------------------------------------------------------------
(* One connection moves.                                                   *)

\* The login steps of a connection that have no outcome of their own.
Silent(r) == Bit(Accepted(r)) + Bit(RelayLeg(r)) + Bit(r.garbled)

\* The three properties in these words.
SilentSum(cs) ==
    Cardinality({c \in Conn : Accepted(cs[c])}) + Cardinality({c \in Conn : RelayLeg(cs[c])})
    + Cardinality({c \in Conn : cs[c].garbled})

\* OkCountsAuthentications by its sums.
LEMMA OkRestated ==
    OkCountsAuthentications
        <=> Oks(metrics) = Cardinality({c \in Conn : Authenticated(conn[c])})
BY Zenon DEF OkCountsAuthentications, Oks, Authenticated

\* EveryStepHasOneOutcome by its sums.
LEMMA StepRestated ==
    EveryStepHasOneOutcome
        <=> Outcomes(metrics) + SilentSum(conn)
              = Steps(metrics) + Cardinality({c \in Conn : Uncounted(conn[c])})
BY Zenon DEF EveryStepHasOneOutcome, Outcomes, SilentSum, Accepted, RelayLeg, Steps, Uncounted, Sasl

\* What the counts of connections become.
LEMMA CountsMove ==
    ASSUME DOMAIN conn = Conn, NEW c \in Conn, NEW r, conn' = [conn EXCEPT ![c] = r]
    PROVE  /\ Cardinality({d \in Conn : Authenticated(conn'[d])})
                = Cardinality({d \in Conn : Authenticated(conn[d])})
                    + Bit(Authenticated(r)) - Bit(Authenticated(conn[c]))
           /\ Cardinality({d \in Conn : Uncounted(conn'[d])})
                = Cardinality({d \in Conn : Uncounted(conn[d])})
                    + Bit(Uncounted(r)) - Bit(Uncounted(conn[c]))
           /\ SilentSum(conn') = SilentSum(conn) + Silent(r) - Silent(conn[c])
           /\ Cardinality({d \in Conn : Authenticated(conn[d])}) \in Nat
           /\ Cardinality({d \in Conn : Uncounted(conn[d])}) \in Nat
           /\ SilentSum(conn) \in Nat
<1>1. conn'[c] = r /\ \A d \in Conn : d # c => conn'[d] = conn[d]
  BY Zenon
<1>2. IsFiniteSet(Conn)
  BY ConnAssumption, Zenon
<1> DEFINE A == {d \in Conn : Authenticated(conn[d])}
           A1 == {d \in Conn : Authenticated(conn'[d])}
           U == {d \in Conn : Uncounted(conn[d])}
           U1 == {d \in Conn : Uncounted(conn'[d])}
           H == {d \in Conn : Accepted(conn[d])}
           H1 == {d \in Conn : Accepted(conn'[d])}
           L == {d \in Conn : RelayLeg(conn[d])}
           L1 == {d \in Conn : RelayLeg(conn'[d])}
           G == {d \in Conn : conn[d].garbled}
           G1 == {d \in Conn : conn'[d].garbled}
<1>3. /\ Cardinality(A) \in Nat
      /\ Cardinality(A1) = Cardinality(A) + Bit(Authenticated(r)) - Bit(Authenticated(conn[c]))
  <2>1. (c \in A <=> Authenticated(conn[c])) /\ (c \in A1 <=> Authenticated(r))
    BY <1>1, Zenon
  <2>2. A \in SUBSET Conn /\ A1 \in SUBSET Conn /\ \A d \in Conn : d # c => (d \in A <=> d \in A1)
    BY <1>1, Zenon
  <2> HIDE DEF A, A1
  <2> QED
    BY <1>2, <2>1, <2>2, CountChange DEF Bit
<1>4. /\ Cardinality(U) \in Nat
      /\ Cardinality(U1) = Cardinality(U) + Bit(Uncounted(r)) - Bit(Uncounted(conn[c]))
  <2>1. (c \in U <=> Uncounted(conn[c])) /\ (c \in U1 <=> Uncounted(r))
    BY <1>1, Zenon
  <2>2. U \in SUBSET Conn /\ U1 \in SUBSET Conn /\ \A d \in Conn : d # c => (d \in U <=> d \in U1)
    BY <1>1, Zenon
  <2> HIDE DEF U, U1
  <2> QED
    BY <1>2, <2>1, <2>2, CountChange DEF Bit
<1>5. /\ Cardinality(H) \in Nat
      /\ Cardinality(H1) = Cardinality(H) + Bit(Accepted(r)) - Bit(Accepted(conn[c]))
  <2>1. (c \in H <=> Accepted(conn[c])) /\ (c \in H1 <=> Accepted(r))
    BY <1>1, Zenon
  <2>2. H \in SUBSET Conn /\ H1 \in SUBSET Conn /\ \A d \in Conn : d # c => (d \in H <=> d \in H1)
    BY <1>1, Zenon
  <2> HIDE DEF H, H1
  <2> QED
    BY <1>2, <2>1, <2>2, CountChange DEF Bit
<1>6. /\ Cardinality(L) \in Nat
      /\ Cardinality(L1) = Cardinality(L) + Bit(RelayLeg(r)) - Bit(RelayLeg(conn[c]))
  <2>1. (c \in L <=> RelayLeg(conn[c])) /\ (c \in L1 <=> RelayLeg(r))
    BY <1>1, Zenon
  <2>2. L \in SUBSET Conn /\ L1 \in SUBSET Conn /\ \A d \in Conn : d # c => (d \in L <=> d \in L1)
    BY <1>1, Zenon
  <2> HIDE DEF L, L1
  <2> QED
    BY <1>2, <2>1, <2>2, CountChange DEF Bit
<1>7. /\ Cardinality(G) \in Nat
      /\ Cardinality(G1) = Cardinality(G) + Bit(r.garbled) - Bit(conn[c].garbled)
  <2>1. (c \in G <=> conn[c].garbled) /\ (c \in G1 <=> r.garbled)
    BY <1>1, Zenon
  <2>2. G \in SUBSET Conn /\ G1 \in SUBSET Conn /\ \A d \in Conn : d # c => (d \in G <=> d \in G1)
    BY <1>1, Zenon
  <2> HIDE DEF G, G1
  <2> QED
    BY <1>2, <2>1, <2>2, CountChange DEF Bit
<1>8. \A b : Bit(b) \in {0, 1}
  BY Zenon DEF Bit
<1>9. /\ SilentSum(conn) = Cardinality(H) + Cardinality(L) + Cardinality(G)
      /\ SilentSum(conn') = Cardinality(H1) + Cardinality(L1) + Cardinality(G1)
  BY Zenon DEF SilentSum
<1> HIDE DEF A, A1, U, U1, H, H1, L, L1, G, G1
<1>10. /\ SilentSum(conn') = SilentSum(conn) + Silent(r) - Silent(conn[c])
       /\ SilentSum(conn) \in Nat
  BY <1>5, <1>6, <1>7, <1>8, <1>9 DEF Silent
<1> QED
  BY <1>3, <1>4, <1>10, Zenon DEF A, A1, U, U1

\* The tenants named are finitely many.
LEMMA NamedIsFinite ==
    ASSUME Inv
    PROVE  IsFiniteSet(Named(metrics, conn))
<1>1. IsFiniteSet(DOMAIN metrics.Requests)
  BY Zenon DEF Inv, MetricsOK, Counter, Counters
<1>2. IsFiniteSet({x[2] : x \in DOMAIN metrics.Requests})
  <2> DEFINE f == [x \in DOMAIN metrics.Requests |-> x[2]]
             T == {x[2] : x \in DOMAIN metrics.Requests}
  <2>1. T = {f[x] : x \in DOMAIN metrics.Requests}
    BY Zenon
  <2> HIDE DEF f, T
  <2>2. IsFiniteSet(T)
    BY <1>1, <2>1, ImageIsFinite, Zenon
  <2> QED
    BY <2>2, Zenon DEF T
<1>3. IsFiniteSet({conn[d].tenant : d \in Conn})
  <2> DEFINE f == [d \in Conn |-> conn[d].tenant]
             T == {conn[d].tenant : d \in Conn}
  <2>1. T = {f[d] : d \in Conn}
    BY Zenon
  <2> HIDE DEF f, T
  <2>2. IsFiniteSet(T)
    BY ConnAssumption, <2>1, ImageIsFinite, Zenon
  <2> QED
    BY <2>2, Zenon DEF T
<1>4. IsFiniteSet({x[2] : x \in DOMAIN metrics.Requests} \cup {conn[d].tenant : d \in Conn})
  BY <1>2, <1>3, FS_Union, Zenon
<1> QED
  BY <1>4, FS_Difference, Zenon DEF Named

\* A tenant that is named no more than once per call that found it stays so:
\* the step names the connection's own tenant, or one that was just found.
LEMMA NamedMove ==
    ASSUME Inv, NEW c \in Conn, NEW r, conn' = [conn EXCEPT ![c] = r],
           MetricsOK(metrics'),
           \A x \in DOMAIN metrics'.Requests :
               x \in DOMAIN metrics.Requests \/ x[2] \in {"_unauth", conn[c].tenant},
           \/ r.tenant = conn[c].tenant /\ Found(metrics') = Found(metrics)
           \/ Found(metrics') = Found(metrics) + 1
    PROVE  Cardinality(Named(metrics', conn')) <= Found(metrics')
<1> DEFINE N == Named(metrics, conn)
           N1 == Named(metrics', conn')
<1>1. conn'[c] = r /\ \A d \in Conn : d # c => conn'[d] = conn[d]
  BY Zenon DEF Inv
<1>2. IsFiniteSet(N)
  BY NamedIsFinite, Zenon
<1>3. N1 \subseteq N \cup {r.tenant}
  BY <1>1 DEF Named
<1>4. r.tenant = conn[c].tenant => N1 \subseteq N
  BY <1>1 DEF Named
<1>0. Cardinality(N) <= Found(metrics) /\ Found(metrics) \in Int
  BY SumTypes, Zenon DEF Inv
<1> HIDE DEF N, N1
<1>5. Cardinality(N) \in Nat
  BY <1>2, FS_CardinalityType, Zenon
<1>6. IsFiniteSet(N \cup {r.tenant}) /\ Cardinality(N \cup {r.tenant}) <= Cardinality(N) + 1
  <2>1. /\ IsFiniteSet(N \cup {r.tenant})
        /\ \/ Cardinality(N \cup {r.tenant}) = Cardinality(N)
           \/ Cardinality(N \cup {r.tenant}) = Cardinality(N) + 1
    BY <1>2, FS_AddElement, Zenon
  <2> QED
    BY <1>5, <2>1
<1>7. Cardinality(N1) <= Cardinality(N) + 1
  BY <1>3, <1>5, <1>6, FS_Subset, FS_CardinalityType
<1>8. r.tenant = conn[c].tenant => Cardinality(N1) <= Cardinality(N)
  BY <1>2, <1>4, <1>5, FS_Subset, FS_CardinalityType, Zenon
<1>9. Cardinality(N1) \in Nat
  BY <1>3, <1>6, FS_Subset, FS_CardinalityType, Zenon
<1> QED
  BY <1>0, <1>5, <1>7, <1>8, <1>9 DEF N1

\* A step of one connection keeps the invariant when what it adds to the
\* counters is what it adds to the counts of connections.
LEMMA Moves ==
    ASSUME Inv, NEW c \in Conn, NEW r, conn' = [conn EXCEPT ![c] = r], ConnOK(r),
           MetricsOK(metrics'),
           Oks(metrics') = Oks(metrics) + Bit(Authenticated(r)) - Bit(Authenticated(conn[c])),
           Outcomes(metrics') - Outcomes(metrics) + Silent(r) - Silent(conn[c])
               = Steps(metrics') - Steps(metrics) + Bit(Uncounted(r)) - Bit(Uncounted(conn[c])),
           Cardinality(Named(metrics', conn')) <= Found(metrics')
    PROVE  Inv'
<1> DEFINE A == Cardinality({d \in Conn : Authenticated(conn[d])})
           A1 == Cardinality({d \in Conn : Authenticated(conn'[d])})
           U == Cardinality({d \in Conn : Uncounted(conn[d])})
           U1 == Cardinality({d \in Conn : Uncounted(conn'[d])})
<1>1. /\ A1 = A + Bit(Authenticated(r)) - Bit(Authenticated(conn[c])) /\ A \in Nat
      /\ U1 = U + Bit(Uncounted(r)) - Bit(Uncounted(conn[c])) /\ U \in Nat
      /\ SilentSum(conn') = SilentSum(conn) + Silent(r) - Silent(conn[c])
      /\ SilentSum(conn) \in Nat
  BY CountsMove, Zenon DEF Inv
<1>2. \A b : Bit(b) \in {0, 1}
  BY Zenon DEF Bit
<1>3. Oks(metrics) = A /\ Outcomes(metrics) + SilentSum(conn) = Steps(metrics) + U
  BY OkRestated, StepRestated, Zenon DEF Inv
<1>4. /\ Oks(metrics) \in Int /\ Outcomes(metrics) \in Int /\ Steps(metrics) \in Int
      /\ Oks(metrics') \in Int /\ Outcomes(metrics') \in Int /\ Steps(metrics') \in Int
  BY SumTypes, Zenon DEF Inv
<1> HIDE DEF A, A1, U, U1
<1>5. Oks(metrics') = A1
  BY <1>1, <1>2, <1>3, <1>4, Zenon
<1>6. Silent(r) \in Int /\ Silent(conn[c]) \in Int
  BY <1>2 DEF Silent
<1>7. Outcomes(metrics') + SilentSum(conn') = Steps(metrics') + U1
  BY <1>1, <1>2, <1>3, <1>4, <1>6
<1>8. OkCountsAuthentications'
  <2>1. OkCountsAuthentications' <=> Oks(metrics') = A1
    BY Zenon DEF OkCountsAuthentications, Oks, Authenticated, A1
  <2> QED
    BY <1>5, <2>1, Zenon
<1>9. EveryStepHasOneOutcome'
  <2>1. EveryStepHasOneOutcome' <=> Outcomes(metrics') + SilentSum(conn') = Steps(metrics') + U1
    BY Zenon DEF EveryStepHasOneOutcome, Outcomes, SilentSum, Accepted, RelayLeg, Steps, Uncounted, Sasl, U1
  <2> QED
    BY <1>7, <2>1, Zenon
<1>10. DOMAIN conn' = Conn /\ \A d \in Conn : ConnOK(conn'[d])
  <2>1. DOMAIN conn = Conn /\ \A d \in Conn : ConnOK(conn[d])
    BY Zenon DEF Inv
  <2>2. DOMAIN conn' = Conn /\ conn'[c] = r /\ \A d \in Conn : d # c => conn'[d] = conn[d]
    BY <2>1, Zenon
  <2> QED
    BY <2>1, <2>2, Zenon
<1> QED
  BY <1>8, <1>9, <1>10, Zenon DEF Inv, ConnOK, MetricsOK, Named, Found

\* The fields that a handler may leave to serve.
Fit(q) ==
    /\ DOMAIN q = Fields /\ q.tenant \in TenantID \cup {"empty"} /\ q.rounds \in Nat
    /\ q.garbled \in BOOLEAN

\* Return leaves a request that serve has not counted.
LEMMA ReturnIs ==
    ASSUME NEW q, Fit(q), NEW err \in BOOLEAN, q.garbled => err,
           NEW r, r = [q EXCEPT !.pc = "observe", !.err = err]
    PROVE  /\ ConnOK(r) /\ Silent(r) = Silent(q) /\ r.tenant = q.tenant
           /\ Bit(Authenticated(r)) = Bit(Authenticated(q))
           /\ Bit(Uncounted(r)) = Bit(q.key \in Sasl)
<1>1. /\ DOMAIN r = Fields /\ r.pc = "observe" /\ r.err = err /\ r.state = q.state
      /\ r.tenant = q.tenant /\ r.rounds = q.rounds /\ r.garbled = q.garbled /\ r.key = q.key
  BY Zenon DEF Fit, Fields
<1>2. ConnOK(r)
  BY <1>1, Zenon DEF Fit, ConnOK
<1>3. Bit(Uncounted(r)) = Bit(q.key \in Sasl)
  BY <1>1, Zenon DEF Uncounted, Bit
<1> QED
  BY <1>1, <1>2, <1>3, Zenon DEF Silent, Accepted, RelayLeg, Authenticated

\* Wait leaves one that its handler still has.
LEMMA WaitIs ==
    ASSUME NEW q, Fit(q), ~q.garbled, q.err \in BOOLEAN,
           NEW pc \in {"dialRelay", "relay", "dial", "roundTrip"},
           pc \in {"dialRelay", "relay"} => q.key = "SaslAuthenticate" /\ q.mech \in ScramMechanisms,
           pc = "dialRelay" => q.state = "AwaitAuth",
           pc = "relay" => q.state = "RelaySaslInFlight",
           pc \in {"dial", "roundTrip"} => q.key \in Key,
           NEW r, r = [q EXCEPT !.pc = pc]
    PROVE  /\ ConnOK(r) /\ Silent(r) = Silent(q) /\ r.tenant = q.tenant
           /\ Bit(Authenticated(r)) = Bit(Authenticated(q)) /\ Bit(Uncounted(r)) = 0
<1>1. /\ DOMAIN r = Fields /\ r.pc = pc /\ r.err = q.err /\ r.state = q.state /\ r.mech = q.mech
      /\ r.tenant = q.tenant /\ r.rounds = q.rounds /\ r.garbled = q.garbled /\ r.key = q.key
  BY Zenon DEF Fit, Fields
<1>2. ConnOK(r)
  BY <1>1, Zenon DEF Fit, ConnOK
<1>3. ~Uncounted(r)
  BY <1>1, Zenon DEF Uncounted
<1> QED
  BY <1>1, <1>2, <1>3, Zenon DEF Silent, Accepted, RelayLeg, Authenticated, Bit

\* What is known of a connection whose handler runs.
LEMMA HandlerRuns ==
    ASSUME Inv, NEW c \in Conn, conn[c].pc \in {"read", "dialRelay", "relay", "dial", "roundTrip"}
    PROVE  /\ Fit(conn[c]) /\ ~conn[c].garbled /\ conn[c].err \in BOOLEAN
           /\ Bit(Uncounted(conn[c])) = 0 /\ MetricsOK(metrics)
<1>1. ConnOK(conn[c]) /\ MetricsOK(metrics)
  BY Zenon DEF Inv
<1>2. Fit(conn[c]) /\ ~conn[c].garbled /\ conn[c].err \in BOOLEAN
  BY <1>1, Zenon DEF ConnOK, Fit
<1>3. ~Uncounted(conn[c])
  BY Zenon DEF Uncounted
<1> QED
  BY <1>1, <1>2, <1>3, Zenon DEF Bit

\* The step of a handler: it counts a outcomes "ok" and b in all.
LEMMA HandlerMoves ==
    ASSUME Inv, NEW c \in Conn, NEW r, conn' = [conn EXCEPT ![c] = r], ConnOK(r),
           MetricsOK(metrics'), metrics'.Requests = metrics.Requests,
           Steps(metrics') = Steps(metrics),
           \/ r.tenant = conn[c].tenant /\ Found(metrics') = Found(metrics)
           \/ Found(metrics') = Found(metrics) + 1,
           NEW a \in {0, 1}, Oks(metrics') = Oks(metrics) + a,
           Bit(Authenticated(r)) = Bit(Authenticated(conn[c])) + a,
           NEW b \in {0, 1}, Outcomes(metrics') = Outcomes(metrics) + b,
           Bit(Uncounted(conn[c])) = 0, b + Silent(r) = Silent(conn[c]) + Bit(Uncounted(r))
    PROVE  Inv'
<1>1. Cardinality(Named(metrics', conn')) <= Found(metrics')
  BY NamedMove, Zenon
<1>2. /\ Oks(metrics) \in Int /\ Outcomes(metrics) \in Int /\ Steps(metrics) \in Int
  BY SumTypes, Zenon DEF Inv
<1>3. \A x : Bit(x) \in {0, 1}
  BY Zenon DEF Bit
<1>4. Silent(r) \in Int /\ Silent(conn[c]) \in Int
  BY <1>3 DEF Silent
<1>5. Oks(metrics') = Oks(metrics) + Bit(Authenticated(r)) - Bit(Authenticated(conn[c]))
  BY <1>2, <1>3
<1>6. Outcomes(metrics') - Outcomes(metrics) + Silent(r) - Silent(conn[c])
        = Steps(metrics') - Steps(metrics) + Bit(Uncounted(r)) - Bit(Uncounted(conn[c]))
  BY <1>2, <1>3, <1>4
<1> QED
  BY <1>1, <1>5, <1>6, Moves, Zenon

-----------------------------------------------------------------------------
(* The actions.                                                            *)

\* A handler that answers with one outcome that is not "ok", and changes
\* nothing of the connection.
LEMMA Refuses ==
    ASSUME Inv, NEW c \in Conn, conn[c].pc \in {"read", "dialRelay", "relay"},
           NEW q, Fit(q), ~q.garbled, q.key \in Sasl, q.tenant = conn[c].tenant,
           Silent(q) = Silent(conn[c]),
           Bit(Authenticated(q)) = Bit(Authenticated(conn[c])),
           NEW err \in BOOLEAN, Return(c, q, err),
           NEW m, MetricsOK(m), m.Requests = metrics.Requests, Steps(m) = Steps(metrics),
           Outcomes(m) = Outcomes(metrics), Oks(m) = Oks(metrics), Found(m) = Found(metrics),
           NEW mech, NEW result, result # "ok", metrics' = observeHandshake(m, mech, result)
    PROVE  Inv'
<1> DEFINE r == [q EXCEPT !.pc = "observe", !.err = err]
<1>1. conn' = [conn EXCEPT ![c] = r]
  BY Zenon DEF Return
<1>2. /\ ConnOK(r) /\ Silent(r) = Silent(q) /\ r.tenant = q.tenant
      /\ Bit(Authenticated(r)) = Bit(Authenticated(q)) /\ Bit(Uncounted(r)) = Bit(q.key \in Sasl)
  BY ReturnIs, ZenonT(60)
<1> HIDE DEF r
<1>3. /\ MetricsOK(metrics') /\ metrics'.Requests = m.Requests /\ Steps(metrics') = Steps(m)
      /\ Found(metrics') = Found(m) /\ Outcomes(metrics') = Outcomes(m) + 1
      /\ Oks(metrics') = Oks(m) + Bit(mech \in Mechanisms /\ result = "ok")
  BY OutcomeIsCounted
<1>4. Bit(mech \in Mechanisms /\ result = "ok") = 0 /\ Bit(q.key \in Sasl) = 1
  BY Zenon DEF Bit
<1>5. Bit(Uncounted(conn[c])) = 0 /\ MetricsOK(metrics)
  BY HandlerRuns, Zenon
<1>6. Oks(metrics') = Oks(metrics) + 0
  BY <1>3, <1>4, ZenonT(60)
<1>7. \A x : Bit(x) \in {0, 1}
  BY ZenonT(60) DEF Bit
<1>8. /\ Bit(Authenticated(r)) = Bit(Authenticated(conn[c])) + 0
      /\ 1 + Silent(r) = Silent(conn[c]) + Bit(Uncounted(r))
  BY <1>2, <1>4, <1>7, SMTT(30) DEF Silent
<1>9. 0 \in {0, 1} /\ 1 \in {0, 1}
  BY Zenon
<1> QED
  BY <1>1, <1>2, <1>3, <1>5, <1>6, <1>8, <1>9, HandlerMoves, ZenonT(60)

\* A handler that counts no outcome.
LEMMA Silently ==
    ASSUME Inv, NEW c \in Conn,
           conn[c].pc \in {"read", "dialRelay", "relay", "dial", "roundTrip"},
           NEW r, conn' = [conn EXCEPT ![c] = r], ConnOK(r),
           MetricsOK(metrics'), metrics'.Requests = metrics.Requests,
           Steps(metrics') = Steps(metrics),
           \/ r.tenant = conn[c].tenant /\ Found(metrics') = Found(metrics)
           \/ Found(metrics') = Found(metrics) + 1,
           Oks(metrics') = Oks(metrics), Outcomes(metrics') = Outcomes(metrics),
           Bit(Authenticated(r)) = Bit(Authenticated(conn[c])),
           Silent(r) = Silent(conn[c]) + Bit(Uncounted(r))
    PROVE  Inv'
<1>1. Bit(Uncounted(conn[c])) = 0 /\ MetricsOK(metrics)
  BY HandlerRuns, Zenon
<1>2. Oks(metrics) \in Int /\ Outcomes(metrics) \in Int
  BY <1>1, SumTypes, Zenon
<1>3. \A x : Bit(x) \in {0, 1}
  BY Zenon DEF Bit
<1>4. /\ 0 \in {0, 1} /\ Oks(metrics') = Oks(metrics) + 0
      /\ Outcomes(metrics') = Outcomes(metrics) + 0
      /\ Bit(Authenticated(r)) = Bit(Authenticated(conn[c])) + 0
      /\ 0 + Silent(r) = Silent(conn[c]) + Bit(Uncounted(r))
  BY <1>2, <1>3 DEF Silent
<1> QED
  BY <1>1, <1>4, HandlerMoves, ZenonT(30)

\* A request of another kind.
LEMMA KeySet ==
    ASSUME NEW p, Fit(p), ~p.garbled, NEW k, NEW q, q = [p EXCEPT !.key = k]
    PROVE  /\ Fit(q) /\ ~q.garbled /\ q.key = k /\ q.tenant = p.tenant /\ q.err = p.err
           /\ q.state = p.state /\ q.mech = p.mech /\ q.rounds = p.rounds
           /\ Silent(q) = Silent(p) /\ Bit(Authenticated(q)) = Bit(Authenticated(p))
<1>1. /\ DOMAIN q = Fields /\ q.key = k /\ q.tenant = p.tenant /\ q.err = p.err
      /\ q.state = p.state /\ q.mech = p.mech /\ q.rounds = p.rounds /\ q.garbled = p.garbled
  BY Zenon DEF Fit, Fields
<1> QED
  BY <1>1, Zenon DEF Fit, Silent, Accepted, RelayLeg, Authenticated

\* A body that does not decode is no outcome.
LEMMA GarbledKeeps ==
    ASSUME Inv, NEW c \in Conn, NEW k \in {"SaslHandshake", "SaslAuthenticate"}, Garbled(c, k)
    PROVE  Inv'
<1> DEFINE q == [conn[c] EXCEPT !.key = k, !.garbled = TRUE]
           r == [q EXCEPT !.pc = "observe", !.err = TRUE]
<1>1. conn[c].pc = "read" /\ conn' = [conn EXCEPT ![c] = r] /\ metrics' = metrics
  BY Zenon DEF Garbled, Dispatch, Return
<1>2. Fit(conn[c]) /\ ~conn[c].garbled /\ MetricsOK(metrics)
  BY <1>1, HandlerRuns, Zenon
<1>3. /\ Fit(q) /\ q.key = k /\ q.garbled = TRUE /\ q.state = conn[c].state
      /\ q.rounds = conn[c].rounds /\ q.tenant = conn[c].tenant
  BY <1>2, Zenon DEF Fit, Fields
<1> HIDE DEF q
<1>4. /\ ConnOK(r) /\ Silent(r) = Silent(q) /\ r.tenant = q.tenant
      /\ Bit(Authenticated(r)) = Bit(Authenticated(q)) /\ Bit(Uncounted(r)) = Bit(q.key \in Sasl)
  BY <1>3, ReturnIs, Zenon
<1> HIDE DEF r
<1>5. Bit(q.key \in Sasl) = 1
  BY <1>3, ZenonT(60) DEF Bit, Sasl
<1>6. Silent(q) = Silent(conn[c]) + 1
  BY <1>2, <1>3 DEF Silent, Accepted, RelayLeg, Bit
<1>7. Bit(Authenticated(r)) = Bit(Authenticated(conn[c]))
  BY <1>3, <1>4, Zenon DEF Authenticated
<1>8. Silent(r) = Silent(conn[c]) + Bit(Uncounted(r))
  BY <1>4, <1>5, <1>6, Zenon
<1>9. /\ Oks(metrics') = Oks(metrics) /\ Outcomes(metrics') = Outcomes(metrics)
      /\ Steps(metrics') = Steps(metrics) /\ Found(metrics') = Found(metrics)
      /\ MetricsOK(metrics') /\ metrics'.Requests = metrics.Requests
  BY <1>1, <1>2, Zenon
<1> QED
  BY <1>1, <1>3, <1>4, <1>7, <1>8, <1>9, Silently, ZenonT(60)

\* A handshake is an outcome when it is refused, and is silent when accepted.
LEMMA HandshakeKeeps ==
    ASSUME Inv, NEW c \in Conn, NEW mech, handleSaslHandshake(c, mech)
    PROVE  Inv'
<1> DEFINE q == [conn[c] EXCEPT !.key = "SaslHandshake"]
           q1 == [q EXCEPT !.mech = mech, !.state = "AwaitAuth"]
<1>1. /\ conn[c].pc = "read"
      /\ \/ \E result \in {"illegal_state", "unsupported"} :
               metrics' = observeHandshake(metrics, mech, result) /\ writeResponse(c, q)
         \/ conn[c].state = "AwaitHandshake" /\ writeResponse(c, q1) /\ metrics' = metrics
  BY Zenon DEF handleSaslHandshake, Dispatch
<1>2. Fit(conn[c]) /\ ~conn[c].garbled /\ MetricsOK(metrics)
  BY <1>1, HandlerRuns, Zenon
<1>3. /\ Fit(q) /\ ~q.garbled /\ q.key = "SaslHandshake" /\ q.tenant = conn[c].tenant
      /\ q.state = conn[c].state /\ q.rounds = conn[c].rounds
      /\ Silent(q) = Silent(conn[c]) /\ Bit(Authenticated(q)) = Bit(Authenticated(conn[c]))
  BY <1>2, KeySet
<1> HIDE DEF q
<1>4. q.key \in Sasl
  BY <1>3, Zenon DEF Sasl
<1>5. CASE \E result \in {"illegal_state", "unsupported"} :
               metrics' = observeHandshake(metrics, mech, result) /\ writeResponse(c, q)
  <2>1. PICK result \in {"illegal_state", "unsupported"}, err \in BOOLEAN :
            metrics' = observeHandshake(metrics, mech, result) /\ Return(c, q, err)
    BY <1>5, Zenon DEF writeResponse
  <2>2. result # "ok"
    BY Zenon
  <2> QED
    BY <1>1, <1>2, <1>3, <1>4, <2>1, <2>2, Refuses, ZenonT(60)
<1>6. CASE conn[c].state = "AwaitHandshake" /\ writeResponse(c, q1) /\ metrics' = metrics
  <2>1. PICK err \in BOOLEAN : Return(c, q1, err)
    BY <1>6, Zenon DEF writeResponse
  <2> DEFINE r == [q1 EXCEPT !.pc = "observe", !.err = err]
  <2>2. conn' = [conn EXCEPT ![c] = r]
    BY <2>1, Zenon DEF Return
  <2>3. /\ Fit(q1) /\ ~q1.garbled /\ q1.key = q.key /\ q1.tenant = conn[c].tenant
        /\ q1.state = "AwaitAuth" /\ q1.rounds = conn[c].rounds
    BY <1>3, Zenon DEF Fit, Fields
  <2> HIDE DEF q1
  <2>4. /\ ConnOK(r) /\ Silent(r) = Silent(q1) /\ r.tenant = q1.tenant
        /\ Bit(Authenticated(r)) = Bit(Authenticated(q1)) /\ Bit(Uncounted(r)) = Bit(q1.key \in Sasl)
    BY <2>3, ReturnIs, Zenon
  <2> HIDE DEF r
  <2>5. Bit(q1.key \in Sasl) = 1
    BY <1>4, <2>3, Zenon DEF Bit
  <2>6. Silent(q1) = Silent(conn[c]) + 1
    BY <1>2, <1>6, <2>3 DEF Silent, Accepted, RelayLeg, Bit
  <2>7. Bit(Authenticated(q1)) = Bit(Authenticated(conn[c]))
    BY <1>6, <2>3, Zenon DEF Authenticated, Bit
  <2>8. /\ Bit(Authenticated(r)) = Bit(Authenticated(conn[c]))
        /\ Silent(r) = Silent(conn[c]) + Bit(Uncounted(r))
    BY <2>4, <2>5, <2>6, <2>7, Zenon
  <2>9. /\ Oks(metrics') = Oks(metrics) /\ Outcomes(metrics') = Outcomes(metrics)
        /\ Steps(metrics') = Steps(metrics) /\ Found(metrics') = Found(metrics)
        /\ MetricsOK(metrics') /\ metrics'.Requests = metrics.Requests
    BY <1>2, <1>6, Zenon
  <2> QED
    BY <1>1, <2>2, <2>3, <2>4, <2>8, <2>9, Silently, ZenonT(60)
<1> QED
  BY <1>1, <1>5, <1>6, Zenon

\* A handler that authenticates the connection counts "ok".
LEMMA Succeeds ==
    ASSUME Inv, NEW c \in Conn, conn[c].pc \in {"read", "relay"},
           conn[c].state \in {"AwaitAuth", "RelaySaslInFlight"},
           NEW q, Fit(q), ~q.garbled, q.key \in Sasl, q.state = "Authenticated",
           Bit(RelayLeg(q)) = Bit(RelayLeg(conn[c])),
           NEW err \in BOOLEAN, Return(c, q, err),
           NEW m, MetricsOK(m), m.Requests = metrics.Requests, Steps(m) = Steps(metrics),
           Outcomes(m) = Outcomes(metrics), Oks(m) = Oks(metrics),
           \/ q.tenant = conn[c].tenant /\ Found(m) = Found(metrics)
           \/ Found(m) = Found(metrics) + 1,
           NEW mech \in Mechanisms, metrics' = observeHandshake(m, mech, "ok")
    PROVE  Inv'
<1> DEFINE r == [q EXCEPT !.pc = "observe", !.err = err]
<1>1. conn' = [conn EXCEPT ![c] = r]
  BY Zenon DEF Return
<1>2. /\ ConnOK(r) /\ Silent(r) = Silent(q) /\ r.tenant = q.tenant
      /\ Bit(Authenticated(r)) = Bit(Authenticated(q)) /\ Bit(Uncounted(r)) = Bit(q.key \in Sasl)
  BY ReturnIs, ZenonT(60)
<1> HIDE DEF r
<1>3. /\ MetricsOK(metrics') /\ metrics'.Requests = m.Requests /\ Steps(metrics') = Steps(m)
      /\ Found(metrics') = Found(m) /\ Outcomes(metrics') = Outcomes(m) + 1
      /\ Oks(metrics') = Oks(m) + Bit(mech \in Mechanisms /\ "ok" = "ok")
  BY OutcomeIsCounted
<1>4. Bit(mech \in Mechanisms /\ "ok" = "ok") = 1 /\ Bit(q.key \in Sasl) = 1
  BY Zenon DEF Bit
<1>5. /\ Bit(Uncounted(conn[c])) = 0 /\ MetricsOK(metrics) /\ ~conn[c].garbled
  BY HandlerRuns, Zenon
<1>6. Oks(metrics') = Oks(metrics) + 1
  BY <1>3, <1>4, ZenonT(60)
<1>7. Silent(q) = Silent(conn[c]) /\ Silent(q) \in Int
  BY <1>5, SMTT(30) DEF Silent, Accepted, Bit
<1>8. Bit(Authenticated(q)) = Bit(Authenticated(conn[c])) + 1
  BY SMTT(30) DEF Authenticated, Bit
<1>9. /\ Bit(Authenticated(r)) = Bit(Authenticated(conn[c])) + 1
      /\ 1 + Silent(r) = Silent(conn[c]) + Bit(Uncounted(r)) /\ 1 \in {0, 1}
  BY <1>2, <1>4, <1>7, <1>8, SMTT(30)
<1> QED
  BY <1>1, <1>2, <1>3, <1>5, <1>6, <1>9, HandlerMoves, ZenonT(60)

\* PLAIN: one outcome for each payload, "ok" when the catalogue knows the user.
LEMMA PlainKeeps ==
    ASSUME Inv, known \in SUBSET TenantID, NEW c \in Conn, NEW p \in Payload,
           handleSaslAuthenticatePlain(c, p)
    PROVE  Inv'
<1> DEFINE q == [conn[c] EXCEPT !.key = "SaslAuthenticate"]
           q1 == [q EXCEPT !.tenant = p, !.state = "Authenticated"]
           m0 == ResolverCalls(metrics, "ok")
           m1 == ResolverCalls(metrics, "unauthorized")
<1>1. /\ conn[c].pc = "read"
      /\ \/ writeResponse(c, q) /\ metrics' = observeHandshake(metrics, "PLAIN", "illegal_state")
         \/ writeResponse(c, q) /\ metrics' = observeHandshake(metrics, "PLAIN", "malformed")
         \/ writeResponse(c, q) /\ metrics' = observeHandshake(m1, "PLAIN", "unauthorized")
         \/ /\ conn[c].state = "AwaitAuth" /\ p \in known
            /\ writeResponse(c, q1) /\ metrics' = observeHandshake(m0, "PLAIN", "ok")
  BY Zenon DEF handleSaslAuthenticatePlain, Dispatch, CountPlain
<1>2. Fit(conn[c]) /\ ~conn[c].garbled /\ MetricsOK(metrics)
  BY <1>1, HandlerRuns, Zenon
<1>3. /\ Fit(q) /\ ~q.garbled /\ q.key = "SaslAuthenticate" /\ q.tenant = conn[c].tenant
      /\ q.state = conn[c].state /\ q.rounds = conn[c].rounds
      /\ Silent(q) = Silent(conn[c]) /\ Bit(Authenticated(q)) = Bit(Authenticated(conn[c]))
  BY <1>2, KeySet
<1> HIDE DEF q, m0, m1
<1>4. q.key \in Sasl
  BY <1>3, Zenon DEF Sasl
<1>5. /\ MetricsOK(m1) /\ m1.Requests = metrics.Requests /\ Steps(m1) = Steps(metrics)
      /\ Outcomes(m1) = Outcomes(metrics) /\ Oks(m1) = Oks(metrics) /\ Found(m1) = Found(metrics)
  <2>1. /\ MetricsOK(m1) /\ m1.Requests = metrics.Requests /\ Steps(m1) = Steps(metrics)
        /\ Outcomes(m1) = Outcomes(metrics) /\ Oks(m1) = Oks(metrics)
        /\ Found(m1) = Found(metrics) + Bit("unauthorized" = "ok")
    BY <1>2, CallIsCounted, Zenon DEF m1
  <2>2. Found(metrics) \in Int /\ Bit("unauthorized" = "ok") = 0
    BY <1>2, SumTypes, Zenon DEF Bit
  <2> QED
    BY <2>1, <2>2
<1>6. CASE writeResponse(c, q) /\ \E result \in {"illegal_state", "malformed"} :
               metrics' = observeHandshake(metrics, "PLAIN", result)
  <2>1. PICK result \in {"illegal_state", "malformed"}, err \in BOOLEAN :
            metrics' = observeHandshake(metrics, "PLAIN", result) /\ Return(c, q, err)
    BY <1>6, Zenon DEF writeResponse
  <2>2. result # "ok"
    BY Zenon
  <2> QED
    BY <1>1, <1>2, <1>3, <1>4, <2>1, <2>2, Refuses, ZenonT(60)
<1>7. CASE writeResponse(c, q) /\ metrics' = observeHandshake(m1, "PLAIN", "unauthorized")
  <2>1. PICK err \in BOOLEAN : Return(c, q, err)
    BY <1>7, Zenon DEF writeResponse
  <2>2. "unauthorized" # "ok"
    BY Zenon
  <2> QED
    BY <1>1, <1>2, <1>3, <1>4, <1>5, <1>7, <2>1, <2>2, Refuses, ZenonT(60)
<1>8. CASE /\ conn[c].state = "AwaitAuth" /\ p \in known
           /\ writeResponse(c, q1) /\ metrics' = observeHandshake(m0, "PLAIN", "ok")
  <2>1. PICK err \in BOOLEAN : Return(c, q1, err)
    BY <1>8, Zenon DEF writeResponse
  <2>2. /\ MetricsOK(m0) /\ m0.Requests = metrics.Requests /\ Steps(m0) = Steps(metrics)
        /\ Outcomes(m0) = Outcomes(metrics) /\ Oks(m0) = Oks(metrics)
        /\ Found(m0) = Found(metrics) + Bit("ok" = "ok")
    BY <1>2, CallIsCounted DEF m0
  <2>3. Bit("ok" = "ok") = 1 /\ "PLAIN" \in Mechanisms
    BY Zenon DEF Bit, Mechanisms
  <2>4. p \in TenantID
    BY <1>8, Zenon
  <2>5. /\ Fit(q1) /\ ~q1.garbled /\ q1.key = q.key /\ q1.state = "Authenticated"
        /\ q1.rounds = conn[c].rounds
    BY <1>3, <2>4, Zenon DEF Fit, Fields
  <2> HIDE DEF q1
  <2>6. Bit(RelayLeg(q1)) = Bit(RelayLeg(conn[c]))
    BY <2>5, ZenonT(60) DEF RelayLeg
  <2>7. conn[c].state \in {"AwaitAuth", "RelaySaslInFlight"} /\ conn[c].pc \in {"read", "relay"}
    BY <1>1, <1>8, Zenon
  <2>8. Found(m0) = Found(metrics) + 1 /\ q1.key \in Sasl
    BY <1>4, <2>2, <2>3, <2>5, ZenonT(60)
  <2> QED
    BY <1>8, <2>1, <2>2, <2>3, <2>5, <2>6, <2>7, <2>8, Succeeds, ZenonT(60)
<1> QED
  BY <1>1, <1>6, <1>7, <1>8, ZenonT(60)

\* SCRAM, up to the dial or the relay: an outcome when it is refused.
LEMMA ScramKeeps ==
    ASSUME Inv, known \in SUBSET TenantID, NEW c \in Conn, NEW p \in Payload,
           handleSaslAuthenticateSCRAM(c, p)
    PROVE  Inv'
<1> DEFINE q == [conn[c] EXCEPT !.key = "SaslAuthenticate"]
           q1 == [q EXCEPT !.tenant = p]
           mech == conn[c].mech
           m0 == ResolverCalls(metrics, "ok")
           m1 == ResolverCalls(metrics, "unauthorized")
<1>1. /\ conn[c].pc = "read" /\ mech \in ScramMechanisms
      /\ \/ writeResponse(c, q) /\ metrics' = observeHandshake(metrics, mech, "illegal_state")
         \/ writeResponse(c, q) /\ metrics' = observeHandshake(metrics, mech, "malformed")
         \/ writeResponse(c, q) /\ metrics' = observeHandshake(m1, mech, "unauthorized")
         \/ /\ conn[c].state = "AwaitAuth" /\ p \in known
            /\ Wait(c, q1, "dialRelay") /\ metrics' = m0
         \/ /\ conn[c].state = "RelaySaslInFlight"
            /\ Wait(c, q, "relay") /\ metrics' = metrics
  BY Zenon DEF handleSaslAuthenticateSCRAM, Dispatch
<1>2. Fit(conn[c]) /\ ~conn[c].garbled /\ MetricsOK(metrics) /\ conn[c].err \in BOOLEAN
  BY <1>1, HandlerRuns, Zenon
<1>3. /\ Fit(q) /\ ~q.garbled /\ q.key = "SaslAuthenticate" /\ q.tenant = conn[c].tenant
      /\ q.state = conn[c].state /\ q.rounds = conn[c].rounds /\ q.err = conn[c].err
      /\ q.mech = mech
      /\ Silent(q) = Silent(conn[c]) /\ Bit(Authenticated(q)) = Bit(Authenticated(conn[c]))
  BY <1>2, KeySet
<1> HIDE DEF q, m0, m1
<1>4. q.key \in Sasl
  BY <1>3, Zenon DEF Sasl
<1>5. /\ MetricsOK(m1) /\ m1.Requests = metrics.Requests /\ Steps(m1) = Steps(metrics)
      /\ Outcomes(m1) = Outcomes(metrics) /\ Oks(m1) = Oks(metrics) /\ Found(m1) = Found(metrics)
  <2>1. /\ MetricsOK(m1) /\ m1.Requests = metrics.Requests /\ Steps(m1) = Steps(metrics)
        /\ Outcomes(m1) = Outcomes(metrics) /\ Oks(m1) = Oks(metrics)
        /\ Found(m1) = Found(metrics) + Bit("unauthorized" = "ok")
    BY <1>2, CallIsCounted, Zenon DEF m1
  <2>2. Found(metrics) \in Int /\ Bit("unauthorized" = "ok") = 0
    BY <1>2, SumTypes, Zenon DEF Bit
  <2> QED
    BY <2>1, <2>2, SMTT(30)
<1>6. CASE writeResponse(c, q) /\ \E result \in {"illegal_state", "malformed"} :
               metrics' = observeHandshake(metrics, mech, result)
  <2>1. PICK result \in {"illegal_state", "malformed"}, err \in BOOLEAN :
            metrics' = observeHandshake(metrics, mech, result) /\ Return(c, q, err)
    BY <1>6, Zenon DEF writeResponse
  <2>2. result # "ok"
    BY Zenon
  <2> QED
    BY <1>1, <1>2, <1>3, <1>4, <2>1, <2>2, Refuses, ZenonT(60)
<1>7. CASE writeResponse(c, q) /\ metrics' = observeHandshake(m1, mech, "unauthorized")
  <2>1. PICK err \in BOOLEAN : Return(c, q, err)
    BY <1>7, Zenon DEF writeResponse
  <2>2. "unauthorized" # "ok"
    BY Zenon
  <2> QED
    BY <1>1, <1>2, <1>3, <1>4, <1>5, <1>7, <2>1, <2>2, Refuses, ZenonT(60)
<1>8. CASE /\ conn[c].state = "AwaitAuth" /\ p \in known
           /\ Wait(c, q1, "dialRelay") /\ metrics' = m0
  <2> DEFINE r == [q1 EXCEPT !.pc = "dialRelay"]
  <2>1. conn' = [conn EXCEPT ![c] = r]
    BY <1>8, ZenonT(60) DEF Wait
  <2>2. /\ MetricsOK(m0) /\ m0.Requests = metrics.Requests /\ Steps(m0) = Steps(metrics)
        /\ Outcomes(m0) = Outcomes(metrics) /\ Oks(m0) = Oks(metrics)
        /\ Found(m0) = Found(metrics) + Bit("ok" = "ok")
    BY <1>2, CallIsCounted, Zenon DEF m0
  <2>3. Found(m0) = Found(metrics) + 1
    BY <2>2, Zenon DEF Bit
  <2>4. p \in TenantID
    BY <1>8, Zenon
  <2>5. /\ Fit(q1) /\ ~q1.garbled /\ q1.key = "SaslAuthenticate" /\ q1.state = conn[c].state
        /\ q1.rounds = q.rounds /\ q1.mech = mech /\ q1.err \in BOOLEAN /\ q1.garbled = q.garbled
    BY <1>2, <1>3, <2>4, Zenon DEF Fit, Fields
  <2>6. Silent(q1) = Silent(q) /\ Bit(Authenticated(q1)) = Bit(Authenticated(q))
    BY <1>3, <2>5, Zenon DEF Silent, Accepted, RelayLeg, Authenticated
  <2> HIDE DEF q1
  <2>7. /\ ConnOK(r) /\ Silent(r) = Silent(q1)
        /\ Bit(Authenticated(r)) = Bit(Authenticated(q1)) /\ Bit(Uncounted(r)) = 0
    BY <1>1, <1>8, <2>5, WaitIs, ZenonT(60)
  <2> HIDE DEF r
  <2>8. Silent(r) = Silent(conn[c]) + Bit(Uncounted(r))
    BY <1>3, <2>6, <2>7 DEF Silent, Bit
  <2> QED
    BY <1>1, <1>3, <1>8, <2>1, <2>2, <2>3, <2>6, <2>7, <2>8, Silently, ZenonT(60)
<1>9. CASE conn[c].state = "RelaySaslInFlight" /\ Wait(c, q, "relay") /\ metrics' = metrics
  <2> DEFINE r == [q EXCEPT !.pc = "relay"]
  <2>1. conn' = [conn EXCEPT ![c] = r]
    BY <1>9, Zenon DEF Wait
  <2>2. /\ ConnOK(r) /\ Silent(r) = Silent(q) /\ r.tenant = q.tenant
        /\ Bit(Authenticated(r)) = Bit(Authenticated(q)) /\ Bit(Uncounted(r)) = 0
    BY <1>1, <1>2, <1>3, <1>9, WaitIs, ZenonT(60)
  <2> HIDE DEF r
  <2>3. Silent(r) = Silent(conn[c]) + Bit(Uncounted(r))
    BY <1>3, <2>2 DEF Silent, Bit
  <2>4. /\ Oks(metrics') = Oks(metrics) /\ Outcomes(metrics') = Outcomes(metrics)
        /\ Steps(metrics') = Steps(metrics) /\ Found(metrics') = Found(metrics)
        /\ MetricsOK(metrics') /\ metrics'.Requests = metrics.Requests
    BY <1>2, <1>9, Zenon
  <2> QED
    BY <1>1, <1>3, <2>1, <2>2, <2>3, <2>4, Silently, ZenonT(60)
<1> QED
  BY <1>1, <1>6, <1>7, <1>8, <1>9, ZenonT(60)

\* A handler that counts nothing at all.
LEMMA CountsNothing ==
    ASSUME MetricsOK(metrics), metrics' = metrics
    PROVE  /\ Oks(metrics') = Oks(metrics) /\ Outcomes(metrics') = Outcomes(metrics)
           /\ Steps(metrics') = Steps(metrics) /\ Found(metrics') = Found(metrics)
           /\ MetricsOK(metrics') /\ metrics'.Requests = metrics.Requests
BY Zenon

\* The dial is an outcome when it fails.
LEMMA DialKeeps ==
    ASSUME Inv, NEW c \in Conn, DialForSCRAM(c)
    PROVE  Inv'
<1> DEFINE q == [conn[c] EXCEPT !.upstream = TRUE, !.state = "RelaySaslInFlight"]
           m == UpstreamError(metrics, "scram_dial")
<1>1. /\ conn[c].pc = "dialRelay"
      /\ \/ Wait(c, q, "relay") /\ metrics' = metrics
         \/ writeResponse(c, conn[c]) /\ metrics' = observeHandshake(m, conn[c].mech, "upstream_error")
  BY Zenon DEF DialForSCRAM
<1>2. Fit(conn[c]) /\ ~conn[c].garbled /\ MetricsOK(metrics) /\ conn[c].err \in BOOLEAN
  BY <1>1, HandlerRuns, Zenon
<1>3. ConnOK(conn[c])
  BY Zenon DEF Inv
<1>4. /\ conn[c].key = "SaslAuthenticate" /\ conn[c].mech \in ScramMechanisms
      /\ conn[c].state = "AwaitAuth"
  BY <1>1, <1>3, Zenon DEF ConnOK
<1>5. CASE Wait(c, q, "relay") /\ metrics' = metrics
  <2> DEFINE r == [q EXCEPT !.pc = "relay"]
  <2>1. conn' = [conn EXCEPT ![c] = r]
    BY <1>5, Zenon DEF Wait
  <2>2. /\ Fit(q) /\ ~q.garbled /\ q.key = "SaslAuthenticate" /\ q.tenant = conn[c].tenant
        /\ q.state = "RelaySaslInFlight" /\ q.rounds = conn[c].rounds /\ q.err \in BOOLEAN
        /\ q.mech \in ScramMechanisms /\ q.garbled = conn[c].garbled
    BY <1>2, <1>4, Zenon DEF Fit, Fields
  <2> HIDE DEF q
  <2>3. /\ ConnOK(r) /\ Silent(r) = Silent(q) /\ r.tenant = q.tenant
        /\ Bit(Authenticated(r)) = Bit(Authenticated(q)) /\ Bit(Uncounted(r)) = 0
    BY <2>2, WaitIs, ZenonT(60)
  <2> HIDE DEF r
  <2>4. Silent(r) = Silent(conn[c]) + Bit(Uncounted(r))
    BY <1>4, <2>2, <2>3 DEF Silent, Accepted, RelayLeg, Bit
  <2>5. Bit(Authenticated(r)) = Bit(Authenticated(conn[c]))
    BY <1>4, <2>2, <2>3, ZenonT(60) DEF Authenticated, Bit
  <2> QED
    BY <1>1, <1>2, <1>5, <2>1, <2>2, <2>3, <2>4, <2>5, CountsNothing, Silently, ZenonT(60)
<1>6. CASE writeResponse(c, conn[c]) /\ metrics' = observeHandshake(m, conn[c].mech, "upstream_error")
  <2>1. PICK err \in BOOLEAN : Return(c, conn[c], err)
    BY <1>6, Zenon DEF writeResponse
  <2>2. "upstream_error" # "ok" /\ conn[c].key \in Sasl
    BY <1>4, Zenon DEF Sasl
  <2>3. /\ MetricsOK(m) /\ m.Requests = metrics.Requests /\ Steps(m) = Steps(metrics)
        /\ Outcomes(m) = Outcomes(metrics) /\ Oks(m) = Oks(metrics) /\ Found(m) = Found(metrics)
    BY <1>2, ErrorIsCounted, Zenon
  <2> HIDE DEF m
  <2> QED
    BY <1>1, <1>2, <1>6, <2>1, <2>2, <2>3, Refuses, ZenonT(60)
<1> QED
  BY <1>1, <1>5, <1>6, ZenonT(60)

\* A round is an outcome, except the first that the broker answers.
LEMMA RelayKeeps ==
    ASSUME Inv, NEW c \in Conn, Relay(c)
    PROVE  Inv'
<1> DEFINE n == conn[c].rounds + 1
           q == [conn[c] EXCEPT !.rounds = n, !.state = IF n >= 2 THEN "Authenticated" ELSE @]
           mech == conn[c].mech
           m == UpstreamError(metrics, "scram_relay")
<1>1. /\ conn[c].pc = "relay"
      /\ \/ Return(c, conn[c], TRUE) /\ metrics' = observeHandshake(m, mech, "upstream_error")
         \/ writeResponse(c, conn[c]) /\ metrics' = observeHandshake(metrics, mech, "unauthorized")
         \/ writeResponse(c, q) /\ metrics' = CountRound(metrics, mech, n)
  BY Zenon DEF Relay
<1>2. Fit(conn[c]) /\ ~conn[c].garbled /\ MetricsOK(metrics) /\ conn[c].err \in BOOLEAN
  BY <1>1, HandlerRuns, Zenon
<1>3. ConnOK(conn[c])
  BY Zenon DEF Inv
<1>4. /\ conn[c].key = "SaslAuthenticate" /\ mech \in ScramMechanisms
      /\ conn[c].state = "RelaySaslInFlight" /\ conn[c].rounds \in Nat
  BY <1>1, <1>3, Zenon DEF ConnOK
<1>5. conn[c].key \in Sasl /\ "unauthorized" # "ok" /\ "upstream_error" # "ok" /\ TRUE \in BOOLEAN
  BY <1>4, Zenon DEF Sasl
<1>6. CASE Return(c, conn[c], TRUE) /\ metrics' = observeHandshake(m, mech, "upstream_error")
  <2>1. /\ MetricsOK(m) /\ m.Requests = metrics.Requests /\ Steps(m) = Steps(metrics)
        /\ Outcomes(m) = Outcomes(metrics) /\ Oks(m) = Oks(metrics) /\ Found(m) = Found(metrics)
    BY <1>2, ErrorIsCounted, Zenon
  <2> HIDE DEF m
  <2> QED
    BY <1>1, <1>2, <1>5, <1>6, <2>1, Refuses, ZenonT(60)
<1>7. CASE writeResponse(c, conn[c]) /\ metrics' = observeHandshake(metrics, mech, "unauthorized")
  <2>1. PICK err \in BOOLEAN : Return(c, conn[c], err)
    BY <1>7, Zenon DEF writeResponse
  <2> QED
    BY <1>1, <1>2, <1>5, <1>7, <2>1, Refuses, ZenonT(60)
<1>8. CASE writeResponse(c, q) /\ metrics' = CountRound(metrics, mech, n)
  <2>1. PICK err \in BOOLEAN : Return(c, q, err)
    BY <1>8, Zenon DEF writeResponse
  <2>2. /\ Fit(q) /\ ~q.garbled /\ q.key = conn[c].key /\ q.tenant = conn[c].tenant
        /\ q.rounds = n /\ q.garbled = conn[c].garbled
        /\ q.state = IF n >= 2 THEN "Authenticated" ELSE conn[c].state
    BY <1>2, <1>4 DEF Fit, Fields
  <2> HIDE DEF q
  <2>3. CASE n >= 2
    <3>1. q.state = "Authenticated" /\ metrics' = observeHandshake(metrics, mech, "ok")
      BY <1>8, <2>2, <2>3, ZenonT(60) DEF CountRound
    <3>2. Bit(RelayLeg(q)) = Bit(RelayLeg(conn[c]))
      BY <1>4, <2>2, <2>3, SMTT(30) DEF RelayLeg, Bit
    <3>3. mech \in Mechanisms /\ q.key \in Sasl
      BY <1>4, <1>5, <2>2, ZenonT(60) DEF Mechanisms
    <3> HIDE DEF n, mech
    <3> QED
      BY <1>1, <1>2, <1>4, <2>1, <2>2, <3>1, <3>2, <3>3, Succeeds, ZenonT(60)
  <2>4. CASE ~(n >= 2)
    <3> DEFINE r == [q EXCEPT !.pc = "observe", !.err = err]
    <3>1. q.state = conn[c].state /\ metrics' = metrics
      BY <1>8, <2>2, <2>4, ZenonT(60) DEF CountRound
    <3>2. conn' = [conn EXCEPT ![c] = r]
      BY <2>1, Zenon DEF Return
    <3>3. /\ ConnOK(r) /\ Silent(r) = Silent(q) /\ r.tenant = q.tenant
          /\ Bit(Authenticated(r)) = Bit(Authenticated(q)) /\ Bit(Uncounted(r)) = Bit(q.key \in Sasl)
      BY <2>2, ReturnIs, Zenon
    <3> HIDE DEF r
    <3>4. Bit(q.key \in Sasl) = 1
      BY <1>5, <2>2, ZenonT(60) DEF Bit
    <3>5. Silent(q) = Silent(conn[c]) + 1
      BY <1>2, <1>4, <2>2, <2>4, <3>1, SMTT(30) DEF Silent, Accepted, RelayLeg, Bit
    <3>6. /\ Bit(Authenticated(r)) = Bit(Authenticated(conn[c]))
          /\ Silent(r) = Silent(conn[c]) + Bit(Uncounted(r))
      BY <3>1, <3>3, <3>4, <3>5, ZenonT(60) DEF Authenticated
    <3> HIDE DEF n, mech
    <3> QED
      BY <1>1, <1>2, <2>2, <3>1, <3>2, <3>3, <3>6, CountsNothing, Silently, ZenonT(60)
  <2> QED
    BY <2>3, <2>4, Zenon
<1> QED
  BY <1>1, <1>6, <1>7, <1>8, ZenonT(60)

\* A request that is not part of SASL counts no outcome, and returns to serve.
LEMMA OtherReturns ==
    ASSUME Inv, NEW c \in Conn, conn[c].pc \in {"read", "dial", "roundTrip"},
           NEW q, Fit(q), ~q.garbled, q.key \notin Sasl,
           q.tenant = conn[c].tenant, Silent(q) = Silent(conn[c]),
           Bit(Authenticated(q)) = Bit(Authenticated(conn[c])),
           NEW err \in BOOLEAN, Return(c, q, err),
           metrics' = metrics \/ metrics' = UpstreamError(metrics, "dial")
    PROVE  Inv'
<1> DEFINE r == [q EXCEPT !.pc = "observe", !.err = err]
<1>1. conn' = [conn EXCEPT ![c] = r]
  BY Zenon DEF Return
<1>2. /\ ConnOK(r) /\ Silent(r) = Silent(q) /\ r.tenant = q.tenant
      /\ Bit(Authenticated(r)) = Bit(Authenticated(q)) /\ Bit(Uncounted(r)) = Bit(q.key \in Sasl)
  BY ReturnIs, Zenon
<1> HIDE DEF r
<1>3. Bit(q.key \in Sasl) = 0
  BY Zenon DEF Bit
<1>4. MetricsOK(metrics)
  BY ZenonT(60) DEF Inv
<1>5. /\ Oks(metrics') = Oks(metrics) /\ Outcomes(metrics') = Outcomes(metrics)
      /\ Steps(metrics') = Steps(metrics) /\ Found(metrics') = Found(metrics)
      /\ MetricsOK(metrics') /\ metrics'.Requests = metrics.Requests
  <2>1. CASE metrics' = metrics
    BY <1>4, <2>1, CountsNothing, ZenonT(60)
  <2>2. CASE metrics' = UpstreamError(metrics, "dial")
    BY <1>4, <2>2, ErrorIsCounted, ZenonT(60)
  <2> QED
    BY <2>1, <2>2, Zenon
<1>6. Silent(r) = Silent(conn[c]) + Bit(Uncounted(r))
  BY <1>2, <1>3, SMTT(30) DEF Silent, Bit
<1> QED
  BY <1>1, <1>2, <1>5, <1>6, Silently, ZenonT(60)

\* One that waits for the broker.
LEMMA OtherWaits ==
    ASSUME Inv, NEW c \in Conn, conn[c].pc \in {"read", "dial"},
           NEW q, Fit(q), ~q.garbled, q.key \in Key, q.err \in BOOLEAN,
           q.tenant = conn[c].tenant, Silent(q) = Silent(conn[c]),
           Bit(Authenticated(q)) = Bit(Authenticated(conn[c])),
           NEW pc \in {"dial", "roundTrip"}, Wait(c, q, pc), metrics' = metrics
    PROVE  Inv'
<1> DEFINE r == [q EXCEPT !.pc = pc]
<1>1. conn' = [conn EXCEPT ![c] = r]
  BY Zenon DEF Wait
<1>2. /\ ConnOK(r) /\ Silent(r) = Silent(q) /\ r.tenant = q.tenant
      /\ Bit(Authenticated(r)) = Bit(Authenticated(q)) /\ Bit(Uncounted(r)) = 0
  BY WaitIs, Zenon
<1> HIDE DEF r
<1>3. MetricsOK(metrics)
  BY ZenonT(60) DEF Inv
<1>4. Silent(r) = Silent(conn[c]) + Bit(Uncounted(r))
  BY <1>2 DEF Silent, Bit
<1> QED
  BY <1>1, <1>2, <1>3, <1>4, CountsNothing, Silently, ZenonT(60)

\* ApiVersions and the forwarded requests.
LEMMA OtherKeeps ==
    ASSUME Inv, NEW c \in Conn,
           \/ handleApiVersions(c) \/ ensureUpstream(c) \/ RoundTrip(c)
           \/ \E k \in Key : Forward(c, k)
    PROVE  Inv'
<1>0. "ApiVersions" \notin Sasl /\ \A k \in Key : k \notin Sasl
  BY KeyAssumption, Zenon DEF OwnKeys, Sasl
<1>1. ConnOK(conn[c])
  BY Zenon DEF Inv
<1>2. CASE handleApiVersions(c)
  <2> DEFINE q == [conn[c] EXCEPT !.key = "ApiVersions"]
  <2>1. PICK err \in BOOLEAN : conn[c].pc = "read" /\ Return(c, q, err) /\ metrics' = metrics
    BY <1>2, Zenon DEF handleApiVersions, Dispatch, writeResponse
  <2>2. Fit(conn[c]) /\ ~conn[c].garbled
    BY <2>1, HandlerRuns, Zenon
  <2>3. /\ Fit(q) /\ ~q.garbled /\ q.key = "ApiVersions" /\ q.tenant = conn[c].tenant
        /\ Silent(q) = Silent(conn[c]) /\ Bit(Authenticated(q)) = Bit(Authenticated(conn[c]))
    BY <2>2, KeySet
  <2> HIDE DEF q
  <2> QED
    BY <1>0, <2>1, <2>3, OtherReturns, ZenonT(60)
<1>3. ASSUME NEW k \in Key, Forward(c, k) PROVE Inv'
  <2> DEFINE q == [conn[c] EXCEPT !.key = k]
  <2>1. /\ conn[c].pc = "read" /\ metrics' = metrics
        /\ \/ Return(c, q, TRUE)
           \/ Wait(c, q, "dial") \/ Wait(c, q, "roundTrip")
    BY <1>3, Zenon DEF Forward, Dispatch
  <2>2. Fit(conn[c]) /\ ~conn[c].garbled /\ conn[c].err \in BOOLEAN
    BY <2>1, HandlerRuns, Zenon
  <2>3. /\ Fit(q) /\ ~q.garbled /\ q.key = k /\ q.tenant = conn[c].tenant
        /\ q.err = conn[c].err
        /\ Silent(q) = Silent(conn[c]) /\ Bit(Authenticated(q)) = Bit(Authenticated(conn[c]))
    BY <2>2, KeySet
  <2> HIDE DEF q
  <2>4. CASE Return(c, q, TRUE)
    BY <1>0, <2>1, <2>3, <2>4, OtherReturns, ZenonT(60)
  <2>5. CASE Wait(c, q, "dial") \/ Wait(c, q, "roundTrip")
    BY <2>1, <2>2, <2>3, <2>5, OtherWaits, ZenonT(60)
  <2> QED
    BY <2>1, <2>4, <2>5, ZenonT(60)
<1>4. CASE ensureUpstream(c)
  <2> DEFINE q == [conn[c] EXCEPT !.upstream = TRUE]
  <2>1. /\ conn[c].pc = "dial"
        /\ \/ Wait(c, q, "roundTrip") /\ metrics' = metrics
           \/ Return(c, conn[c], TRUE) /\ metrics' = UpstreamError(metrics, "dial")
    BY <1>4, Zenon DEF ensureUpstream
  <2>2. Fit(conn[c]) /\ ~conn[c].garbled /\ conn[c].err \in BOOLEAN
    BY <2>1, HandlerRuns, Zenon
  <2>3. conn[c].key \in Key
    BY <1>1, <2>1, Zenon DEF ConnOK
  <2>4. /\ Fit(q) /\ ~q.garbled /\ q.key \in Key /\ q.tenant = conn[c].tenant
        /\ q.err = conn[c].err /\ q.state = conn[c].state /\ q.rounds = conn[c].rounds
        /\ q.garbled = conn[c].garbled
    BY <2>2, <2>3, Zenon DEF Fit, Fields
  <2>5. Silent(q) = Silent(conn[c]) /\ Bit(Authenticated(q)) = Bit(Authenticated(conn[c]))
    BY <2>4, Zenon DEF Silent, Accepted, RelayLeg, Authenticated
  <2> HIDE DEF q
  <2>6. CASE Wait(c, q, "roundTrip") /\ metrics' = metrics
    BY <2>1, <2>2, <2>4, <2>5, <2>6, OtherWaits, ZenonT(60)
  <2>7. CASE Return(c, conn[c], TRUE) /\ metrics' = UpstreamError(metrics, "dial")
    BY <1>0, <2>1, <2>2, <2>3, <2>7, OtherReturns, ZenonT(60)
  <2> QED
    BY <2>1, <2>6, <2>7, ZenonT(60)
<1>5. CASE RoundTrip(c)
  <2>1. PICK err \in BOOLEAN : conn[c].pc = "roundTrip" /\ Return(c, conn[c], err) /\ metrics' = metrics
    BY <1>5, Zenon DEF RoundTrip, writeResponse
  <2>2. Fit(conn[c]) /\ ~conn[c].garbled
    BY <2>1, HandlerRuns, ZenonT(60)
  <2>3. conn[c].key \in Key
    BY <1>1, <2>1, Zenon DEF ConnOK
  <2> QED
    BY <1>0, <2>1, <2>2, <2>3, OtherReturns, ZenonT(60)
<1> QED
  BY <1>2, <1>3, <1>4, <1>5, ZenonT(60)

\* serve counts the request, once.
LEMMA ObserveKeeps ==
    ASSUME Inv, NEW c \in Conn, ObserveRequest(c)
    PROVE  Inv'
<1> DEFINE label == IF conn[c].tenant = "empty" THEN "_unauth" ELSE conn[c].tenant
           x == <<conn[c].key, label>>
           pc == IF conn[c].err THEN "closed" ELSE "read"
           r == [conn[c] EXCEPT !.pc = pc]
           Q == metrics.Requests
           L == Sasl \X (TenantID \cup {"_unauth"})
<1>1. /\ conn[c].pc = "observe" /\ metrics' = [metrics EXCEPT !.Requests = Inc(@, x)]
      /\ conn' = [conn EXCEPT ![c] = r]
  BY Zenon DEF ObserveRequest
<1>2. ConnOK(conn[c]) /\ MetricsOK(metrics)
  BY Zenon DEF Inv
<1>3. /\ DOMAIN r = Fields /\ r.pc = pc /\ r.err = conn[c].err /\ r.state = conn[c].state
      /\ r.tenant = conn[c].tenant /\ r.rounds = conn[c].rounds /\ r.garbled = conn[c].garbled
  BY <1>2, Zenon DEF ConnOK, Fields
<1> HIDE DEF r
<1>4. ConnOK(r) /\ pc # "observe"
  BY <1>2, <1>3, Zenon DEF ConnOK
<1>5. /\ Silent(r) = Silent(conn[c]) /\ Bit(Authenticated(r)) = Bit(Authenticated(conn[c]))
  BY <1>3, ZenonT(60) DEF Silent, Accepted, RelayLeg, Authenticated
<1>6. /\ label \in TenantID \cup {"_unauth"} /\ label # "empty"
      /\ label \in {"_unauth", conn[c].tenant}
  BY <1>2, Zenon DEF ConnOK
<1>7. Bit(Uncounted(r)) = 0 /\ Bit(Uncounted(conn[c])) = Bit(conn[c].key \in Sasl)
  BY <1>1, <1>3, <1>4, Zenon DEF Uncounted, Bit
<1> HIDE DEF pc, label
<1>8. Bit(x \in L) = Bit(conn[c].key \in Sasl) /\ x[2] = label
  BY <1>6, Zenon DEF Bit
<1> HIDE DEF x, L
<1>9. /\ DOMAIN metrics' = Counters /\ metrics'.Requests = Inc(Q, x)
      /\ metrics'.SaslHandshake = metrics.SaslHandshake
      /\ metrics'.ResolverCalls = metrics.ResolverCalls
      /\ \A k \in Counters : k # "Requests" => metrics'[k] = metrics[k]
  BY <1>1, <1>2, Zenon DEF MetricsOK, Counters
<1>10. Counter(Q)
  BY <1>2, Zenon DEF MetricsOK, Counters
<1> HIDE DEF Q
<1>11. Counter(Inc(Q, x)) /\ DOMAIN Inc(Q, x) = DOMAIN Q \cup {x}
  BY <1>10, IncIs, Zenon
<1>12. Total(Inc(Q, x), L) = Total(Q, L) + Bit(x \in L)
  BY <1>10, TotalAdd, Zenon
<1>13. MetricsOK(metrics')
  <2>1. \A k \in Counters : Counter(metrics'[k])
    BY <1>2, <1>9, <1>11, ZenonT(60) DEF MetricsOK
  <2>2. \A y \in DOMAIN Inc(Q, x) : y[2] \in TenantID \cup {"_unauth"} /\ y[2] # "empty"
    BY <1>2, <1>6, <1>8, <1>11, ZenonT(60) DEF MetricsOK, Q
  <2> QED
    BY <1>2, <1>9, <2>1, <2>2, ZenonT(60) DEF MetricsOK
<1>14. /\ Oks(metrics') = Oks(metrics) /\ Outcomes(metrics') = Outcomes(metrics)
       /\ Found(metrics') = Found(metrics)
  BY <1>9, Zenon DEF Oks, Outcomes, Found
<1>15. Steps(metrics') = Steps(metrics) + Bit(conn[c].key \in Sasl)
  BY <1>8, <1>9, <1>12, ZenonT(60) DEF Steps, L, Q
<1>16. \A y \in DOMAIN metrics'.Requests :
          y \in DOMAIN metrics.Requests \/ y[2] \in {"_unauth", conn[c].tenant}
  BY <1>6, <1>8, <1>9, <1>11, ZenonT(60) DEF Q
<1>17. Cardinality(Named(metrics', conn')) <= Found(metrics')
  BY <1>1, <1>3, <1>13, <1>14, <1>16, NamedMove, ZenonT(60)
<1>18. Oks(metrics) \in Int /\ Outcomes(metrics) \in Int /\ Steps(metrics) \in Int
  BY <1>2, SumTypes, Zenon
<1>19. \A b : Bit(b) \in {0, 1}
  BY ZenonT(60) DEF Bit
<1>20. /\ Oks(metrics') = Oks(metrics) + Bit(Authenticated(r)) - Bit(Authenticated(conn[c]))
       /\ Outcomes(metrics') - Outcomes(metrics) + Silent(r) - Silent(conn[c])
            = Steps(metrics') - Steps(metrics) + Bit(Uncounted(r)) - Bit(Uncounted(conn[c]))
  BY <1>5, <1>7, <1>14, <1>15, <1>18, <1>19, SMTT(30) DEF Silent
<1> QED
  BY <1>1, <1>4, <1>13, <1>17, <1>20, Moves, ZenonT(60)

\* At the start nothing is counted.
LEMMA InitInv ==
    ASSUME MetricsInit
    PROVE  Inv
<1> DEFINE e == << >>
           r == [state |-> "AwaitHandshake", mech |-> "empty", tenant |-> "empty",
                 rounds |-> 0, upstream |-> FALSE, key |-> "none", pc |-> "read",
                 err |-> FALSE, garbled |-> FALSE]
<1>1. DOMAIN e = {}
  BY SMTT(30)
<1>2. /\ conn = [c \in Conn |-> r]
      /\ DOMAIN metrics = Counters /\ \A k \in Counters : metrics[k] = e
  BY SMTT(30) DEF MetricsInit, Counters
<1>3. /\ ConnOK(r) /\ r.state = "AwaitHandshake" /\ ~r.garbled /\ r.pc = "read"
      /\ r.rounds = 0 /\ r.tenant = "empty"
  BY Zenon DEF ConnOK, Fields
<1> HIDE DEF r, e
<1>4. DOMAIN conn = Conn /\ \A c \in Conn : conn[c] = r
  BY <1>2, Zenon
<1>5. metrics.SaslHandshake = e /\ metrics.Requests = e /\ metrics.ResolverCalls = e
  BY <1>2, Zenon DEF Counters
<1>6. Counter(e)
  BY <1>1, FS_EmptySet, Zenon DEF Counter
<1>7. ASSUME NEW L PROVE Total(e, L) = 0
  <2>1. Total(e, L) = Weight(e, DOMAIN e \cap L)
    BY Zenon DEF Total, Weight
  <2>2. DOMAIN e \cap L = {}
    BY <1>1, Zenon
  <2>3. Weight(e, {}) = 0
    BY FS_EmptySet, WeightFacts, Zenon
  <2> QED
    BY <2>1, <2>2, <2>3, ZenonT(60)
<1>8. MetricsOK(metrics)
  BY <1>1, <1>2, <1>5, <1>6, ZenonT(60) DEF MetricsOK
<1>9. Cardinality({}) = 0
  BY FS_EmptySet, ZenonT(60)
<1>10. /\ {c \in Conn : Authenticated(conn[c])} = {}
       /\ {c \in Conn : Accepted(conn[c])} = {}
       /\ {c \in Conn : RelayLeg(conn[c])} = {}
       /\ {c \in Conn : conn[c].garbled} = {}
       /\ {c \in Conn : Uncounted(conn[c])} = {}
  BY <1>3, <1>4 DEF Authenticated, Accepted, RelayLeg, Uncounted
<1>11. Oks(metrics) = 0 /\ Outcomes(metrics) = 0 /\ Steps(metrics) = 0 /\ Found(metrics) = 0
  BY <1>5, <1>7, Zenon DEF Oks, Outcomes, Steps, Found
<1>12. OkCountsAuthentications
  BY <1>9, <1>10, <1>11, OkRestated, ZenonT(60)
<1>13. EveryStepHasOneOutcome
  <2>1. SilentSum(conn) = 0 + 0 + 0
    BY <1>9, <1>10, ZenonT(60) DEF SilentSum
  <2>2. Outcomes(metrics) + SilentSum(conn)
          = Steps(metrics) + Cardinality({c \in Conn : Uncounted(conn[c])})
    <3>1. Cardinality({c \in Conn : Uncounted(conn[c])}) = 0
      BY <1>9, <1>10, ZenonT(60)
    <3> QED
      BY <1>11, <2>1, <3>1
  <2> QED
    BY <2>2, StepRestated, Zenon
<1>14. Cardinality(Named(metrics, conn)) <= Found(metrics)
  <2>1. Named(metrics, conn) = {}
    BY <1>1, <1>3, <1>4, <1>5, ZenonT(60) DEF Named
  <2> QED
    BY <1>9, <1>11, <2>1
<1> QED
  BY <1>3, <1>4, <1>8, <1>12, <1>13, <1>14, ZenonT(60) DEF Inv

\* The steps of one connection.
ConnNext(c) ==
    \/ \E k \in {"SaslHandshake", "SaslAuthenticate"} : Garbled(c, k)
    \/ \E m \in Mech : handleSaslHandshake(c, m)
    \/ \E p \in Payload : handleSaslAuthenticatePlain(c, p) \/ handleSaslAuthenticateSCRAM(c, p)
    \/ DialForSCRAM(c) \/ Relay(c)
    \/ handleApiVersions(c) \/ ensureUpstream(c) \/ RoundTrip(c)
    \/ \E k \in Key : Forward(c, k)
    \/ ObserveRequest(c)

\* The inductive invariant holds in every reachable state.
LEMMA MetricsInvariant == MetricsSpec => [](Inv /\ known \in SUBSET TenantID)
<1>1. MetricsInit => Inv /\ known \in SUBSET TenantID
  BY InitInv, Zenon DEF MetricsInit
<1>2. ASSUME Inv, known \in SUBSET TenantID, [MetricsNext]_metricsVars
      PROVE  Inv' /\ (known \in SUBSET TenantID)'
  <2>1. CASE UNCHANGED <<conn, metrics>> /\ known' \in SUBSET TenantID
    <3>1. conn' = conn /\ metrics' = metrics
      BY <2>1, Zenon
    <3>2. OkCountsAuthentications' /\ EveryStepHasOneOutcome'
      BY <1>2, <3>1, Zenon DEF Inv, OkCountsAuthentications, EveryStepHasOneOutcome
    <3> QED
      BY <1>2, <2>1, <3>1, <3>2, ZenonT(60) DEF Inv
  <2>2. ASSUME NEW c \in Conn, ConnNext(c)
        PROVE  Inv' /\ known' = known
    <3>1. CASE \E k \in {"SaslHandshake", "SaslAuthenticate"} : Garbled(c, k)
      BY <1>2, <3>1, GarbledKeeps, Zenon DEF Garbled
    <3>2. CASE \E m \in Mech : handleSaslHandshake(c, m)
      BY <1>2, <3>2, HandshakeKeeps, ZenonT(60) DEF handleSaslHandshake
    <3>3. CASE \E p \in Payload : handleSaslAuthenticatePlain(c, p)
      BY <1>2, <3>3, PlainKeeps, ZenonT(60) DEF handleSaslAuthenticatePlain
    <3>4. CASE \E p \in Payload : handleSaslAuthenticateSCRAM(c, p)
      BY <1>2, <3>4, ScramKeeps, ZenonT(60) DEF handleSaslAuthenticateSCRAM
    <3>5. CASE DialForSCRAM(c)
      BY <1>2, <3>5, DialKeeps, Zenon DEF DialForSCRAM
    <3>6. CASE Relay(c)
      BY <1>2, <3>6, RelayKeeps, ZenonT(60) DEF Relay
    <3>7. CASE \/ handleApiVersions(c) \/ ensureUpstream(c) \/ RoundTrip(c)
               \/ \E k \in Key : Forward(c, k)
      <4>1. Inv'
        BY <1>2, <3>7, OtherKeeps, ZenonT(60)
      <4>2. known' = known
        BY <3>7, Zenon DEF handleApiVersions, Forward, ensureUpstream, RoundTrip
      <4> QED
        BY <4>1, <4>2, Zenon
    <3>8. CASE ObserveRequest(c)
      BY <1>2, <3>8, ObserveKeeps, ZenonT(60) DEF ObserveRequest
    <3> QED
      BY <2>2, <3>1, <3>2, <3>3, <3>4, <3>5, <3>6, <3>7, <3>8, ZenonT(60) DEF ConnNext
  <2>3. \/ UNCHANGED <<conn, metrics>> /\ known' \in SUBSET TenantID
        \/ \E c \in Conn : ConnNext(c)
    BY <1>2, Zenon DEF MetricsNext, metricsVars, Operate, ConnNext
  <2> QED
    BY <1>2, <2>1, <2>2, <2>3, ZenonT(60)
<1> QED
  BY <1>1, <1>2, PTL DEF MetricsSpec

\* "ok" counts authentications, however many connections there are and whatever
\* they send: observeHandshake is called with "ok" once for each connection that
\* becomes Authenticated, in both mechanisms, and never for another.
THEOREM OkIsAuthentication == MetricsSpec => []OkCountsAuthentications
<1>1. Inv => OkCountsAuthentications
  BY Zenon DEF Inv
<1> QED
  BY <1>1, MetricsInvariant, PTL

\* Every SASL request that decodes has one outcome, but for the accepted
\* handshakes and the first rounds, on every early return of the handlers.
THEOREM OneOutcomePerStep == MetricsSpec => []EveryStepHasOneOutcome
<1>1. Inv => EveryStepHasOneOutcome
  BY Zenon DEF Inv
<1> QED
  BY <1>1, MetricsInvariant, PTL

-----------------------------------------------------------------------------
(* The keys that are counted before a tenant is known.                     *)

\* A relayed or authenticated connection has a tenant.
HasTenant(r) == r.state \in {"RelaySaslInFlight", "Authenticated"} => r.tenant # "empty"

\* A handler that waits for the broker has one; without one, a request that is
\* not answered by the proxy ends the connection.
KeyOK(r) ==
    /\ HasTenant(r)
    /\ r.pc \in {"dialRelay", "relay", "dial", "roundTrip"} => r.tenant # "empty"
    /\ r.pc = "observe" /\ r.key \notin OwnKeys /\ r.tenant = "empty" => r.err

\* The series of the other keys without a tenant.
Stray(m) == {x \in DOMAIN m.Requests : x[2] = "_unauth" /\ x[1] \notin OwnKeys}

\* Each of them is the last request of a connection.
KeyInv ==
    /\ \A c \in Conn : KeyOK(conn[c])
    /\ \A x \in Stray(metrics) : \E c \in Conn : conn[c].pc = "closed" /\ x = <<conn[c].key, "_unauth">>

\* A handler returns.
LEMMA KeyReturn ==
    ASSUME NEW q, Fit(q), HasTenant(q), NEW err \in BOOLEAN,
           q.key \in OwnKeys \/ q.tenant # "empty" \/ err,
           NEW r, r = [q EXCEPT !.pc = "observe", !.err = err]
    PROVE  KeyOK(r)
<1>1. /\ r.pc = "observe" /\ r.err = err /\ r.state = q.state
      /\ r.tenant = q.tenant /\ r.key = q.key
  BY Zenon DEF Fit, Fields
<1> QED
  BY <1>1, Zenon DEF KeyOK, HasTenant

\* A handler waits.
LEMMA KeyWait ==
    ASSUME NEW q, Fit(q), q.tenant # "empty", NEW pc \in {"dialRelay", "relay", "dial", "roundTrip"},
           NEW r, r = [q EXCEPT !.pc = pc]
    PROVE  KeyOK(r)
<1>1. r.pc = pc /\ r.tenant = q.tenant
  BY Zenon DEF Fit, Fields
<1> QED
  BY <1>1, Zenon DEF KeyOK, HasTenant

\* The step of a handler.
LEMMA KeyMoves ==
    ASSUME Inv, KeyInv, NEW c \in Conn, conn[c].pc # "closed",
           NEW r, conn' = [conn EXCEPT ![c] = r], KeyOK(r),
           metrics'.Requests = metrics.Requests
    PROVE  KeyInv'
<1>1. conn'[c] = r /\ \A d \in Conn : d # c => conn'[d] = conn[d]
  BY Zenon DEF Inv
<1>2. Stray(metrics') = Stray(metrics)
  BY Zenon DEF Stray
<1>3. \A d \in Conn : KeyOK(conn'[d])
  BY <1>1, Zenon DEF KeyInv
<1>4. ASSUME NEW x \in Stray(metrics')
      PROVE  \E d \in Conn : conn'[d].pc = "closed" /\ x = <<conn'[d].key, "_unauth">>
  <2>1. PICK d \in Conn : conn[d].pc = "closed" /\ x = <<conn[d].key, "_unauth">>
    BY <1>2, Zenon DEF KeyInv
  <2> QED
    BY <1>1, <2>1, Zenon
<1> QED
  BY <1>3, <1>4, Zenon DEF KeyInv, KeyOK, HasTenant, Stray


\* A handler step keeps the invariant: it returns, with a request of the proxy's
\* own, with a tenant or with an error, or it waits with a tenant.
Answers(c, q) ==
    /\ Fit(q) /\ HasTenant(q)
    /\ \E err \in BOOLEAN :
          Return(c, q, err) /\ (q.key \in OwnKeys \/ q.tenant # "empty" \/ err)
Waits(c, q) ==
    /\ Fit(q) /\ q.tenant # "empty"
    /\ \E pc \in {"dialRelay", "relay", "dial", "roundTrip"} : Wait(c, q, pc)

LEMMA KeyStep ==
    ASSUME Inv, KeyInv, NEW c \in Conn, conn[c].pc # "closed",
           metrics'.Requests = metrics.Requests, NEW q, Answers(c, q) \/ Waits(c, q)
    PROVE  KeyInv'
<1>1. CASE Answers(c, q)
  <2>1. PICK err \in BOOLEAN : /\ conn' = [conn EXCEPT ![c] = [q EXCEPT !.pc = "observe", !.err = err]]
                               /\ q.key \in OwnKeys \/ q.tenant # "empty" \/ err
    BY <1>1, Zenon DEF Answers, Return
  <2>2. KeyOK([q EXCEPT !.pc = "observe", !.err = err])
    BY <1>1, <2>1, KeyReturn, Zenon DEF Answers
  <2> QED
    BY <2>1, <2>2, KeyMoves, Zenon
<1>2. CASE Waits(c, q)
  <2>1. PICK pc \in {"dialRelay", "relay", "dial", "roundTrip"} :
            conn' = [conn EXCEPT ![c] = [q EXCEPT !.pc = pc]]
    BY <1>2, Zenon DEF Waits, Wait
  <2>2. KeyOK([q EXCEPT !.pc = pc])
    BY <1>2, KeyWait, Zenon DEF Waits
  <2> QED
    BY <2>1, <2>2, KeyMoves, Zenon
<1> QED
  BY <1>1, <1>2, Zenon

\* The handlers that decide on their own.
LEMMA OwnKeep ==
    ASSUME Inv, KeyInv, known \in SUBSET TenantID, NEW c \in Conn,
           \/ \E k \in {"SaslHandshake", "SaslAuthenticate"} : Garbled(c, k)
           \/ \E m \in Mech : handleSaslHandshake(c, m)
           \/ \E p \in Payload : handleSaslAuthenticatePlain(c, p) \/ handleSaslAuthenticateSCRAM(c, p)
           \/ handleApiVersions(c)
           \/ \E k \in Key : Forward(c, k)
    PROVE  KeyInv'
<1> DEFINE p0 == conn[c]
<1>0. /\ DOMAIN metrics = Counters
      /\ p0.pc = "read" /\ p0.pc # "closed"
  BY Zenon DEF Inv, MetricsOK, Garbled, handleSaslHandshake, handleSaslAuthenticatePlain,
               handleSaslAuthenticateSCRAM, handleApiVersions, Forward, Dispatch
<1>1. Fit(p0) /\ HasTenant(p0)
  BY <1>0, HandlerRuns, Zenon DEF KeyInv, KeyOK
<1>2. /\ "SaslHandshake" \in OwnKeys /\ "SaslAuthenticate" \in OwnKeys /\ "ApiVersions" \in OwnKeys
      /\ \A t \in known : t \in TenantID /\ t # "empty"
  BY TenantAssumption, Zenon DEF OwnKeys
<1>3. CASE \E k \in {"SaslHandshake", "SaslAuthenticate"} : Garbled(c, k)
  <2>1. PICK k \in {"SaslHandshake", "SaslAuthenticate"} : Garbled(c, k)
    BY <1>3, Zenon
  <2> DEFINE q == [p0 EXCEPT !.key = k, !.garbled = TRUE]
  <2>2. Fit(q) /\ HasTenant(q)
    BY <1>1, Zenon DEF Fit, Fields, HasTenant
  <2>3. Return(c, q, TRUE) /\ metrics' = metrics
    BY <2>1, Zenon DEF Garbled
  <2> HIDE DEF q
  <2>4. Answers(c, q)
    BY <2>2, <2>3, Zenon DEF Answers
  <2> QED
    BY <1>0, <2>3, <2>4, KeyStep, ZenonT(60)
<1>4. CASE \E m \in Mech : handleSaslHandshake(c, m)
  <2> DEFINE q == [p0 EXCEPT !.key = "SaslHandshake"]
  <2>1. PICK mech \in Mech : handleSaslHandshake(c, mech)
    BY <1>4, Zenon
  <2> DEFINE n == [q EXCEPT !.mech = mech, !.state = "AwaitAuth"]
  <2>2. /\ Fit(q) /\ HasTenant(q) /\ q.key \in OwnKeys
        /\ Fit(n) /\ HasTenant(n) /\ n.key \in OwnKeys
    BY <1>1, <1>2, Zenon DEF Fit, Fields, HasTenant
  <2>3. /\ writeResponse(c, q) \/ writeResponse(c, n)
        /\ metrics' = metrics \/ \E result : metrics' = observeHandshake(metrics, mech, result)
    BY <2>1, Zenon DEF handleSaslHandshake
  <2> HIDE DEF n, q
  <2>4. Answers(c, q) \/ Answers(c, n)
    BY <2>2, <2>3, Zenon DEF Answers, writeResponse
  <2>5. metrics'.Requests = metrics.Requests
    BY <1>0, <2>3, ZenonT(60) DEF observeHandshake, Counters
  <2> QED
    BY <1>0, <2>4, <2>5, KeyStep, ZenonT(60)
<1>5. CASE \E p \in Payload : handleSaslAuthenticatePlain(c, p)
  <2> DEFINE q == [p0 EXCEPT !.key = "SaslAuthenticate"]
  <2>1. PICK p \in Payload : handleSaslAuthenticatePlain(c, p)
    BY <1>5, Zenon
  <2> DEFINE n == [q EXCEPT !.tenant = p, !.state = "Authenticated"]
  <2>2. /\ Fit(q) /\ HasTenant(q) /\ q.key \in OwnKeys
        /\ p \in known => Fit(n) /\ HasTenant(n) /\ n.key \in OwnKeys
    BY <1>1, <1>2, Zenon DEF Fit, Fields, HasTenant
  <2>3. writeResponse(c, q) \/ (p \in known /\ writeResponse(c, n))
    BY <2>1, Zenon DEF handleSaslAuthenticatePlain
  <2>6. \/ metrics' = observeHandshake(metrics, "PLAIN", "illegal_state")
        \/ metrics' = CountPlain(metrics, "PLAIN", p)
    BY <2>1, Zenon DEF handleSaslAuthenticatePlain
  <2> HIDE DEF n, q
  <2>4. Answers(c, q) \/ Answers(c, n)
    BY <2>2, <2>3, Zenon DEF Answers, writeResponse
  <2>5. metrics'.Requests = metrics.Requests
    BY <1>0, <2>6, ZenonT(60) DEF CountPlain, observeHandshake, ResolverCalls, Counters
  <2> QED
    BY <1>0, <2>4, <2>5, KeyStep, ZenonT(60)
<1>6. CASE \E p \in Payload : handleSaslAuthenticateSCRAM(c, p)
  <2> DEFINE q == [p0 EXCEPT !.key = "SaslAuthenticate"]
  <2>1. PICK p \in Payload : handleSaslAuthenticateSCRAM(c, p)
    BY <1>6, Zenon
  <2> DEFINE n == [q EXCEPT !.tenant = p]
  <2>2. /\ Fit(q) /\ HasTenant(q) /\ q.key \in OwnKeys
        /\ p \in known => Fit(n) /\ n.tenant # "empty"
        /\ p0.state = "RelaySaslInFlight" => q.tenant # "empty"
    BY <1>1, <1>2, Zenon DEF Fit, Fields, HasTenant
  <2>3. \/ writeResponse(c, q)
        \/ p \in known /\ Wait(c, n, "dialRelay")
        \/ p0.state = "RelaySaslInFlight" /\ Wait(c, q, "relay")
    BY <2>1, Zenon DEF handleSaslAuthenticateSCRAM
  <2>6. \/ metrics' = metrics \/ metrics' = ResolverCalls(metrics, "ok")
        \/ \E result : \/ metrics' = observeHandshake(metrics, p0.mech, result)
                       \/ metrics' = observeHandshake(ResolverCalls(metrics, "unauthorized"), p0.mech, result)
    BY <2>1, Zenon DEF handleSaslAuthenticateSCRAM
  <2> HIDE DEF n, q
  <2>4. Answers(c, q) \/ Waits(c, n) \/ Waits(c, q)
    BY <2>2, <2>3, ZenonT(60) DEF Answers, Waits, writeResponse
  <2>5. metrics'.Requests = metrics.Requests
    BY <1>0, <2>6, ZenonT(60) DEF observeHandshake, ResolverCalls, Counters
  <2> QED
    BY <1>0, <2>4, <2>5, KeyStep, ZenonT(60)
<1>7. CASE handleApiVersions(c)
  <2> DEFINE q == [p0 EXCEPT !.key = "ApiVersions"]
  <2>1. writeResponse(c, q) /\ metrics' = metrics
    BY <1>7, Zenon DEF handleApiVersions
  <2>2. Fit(q) /\ HasTenant(q) /\ q.key \in OwnKeys
    BY <1>1, <1>2, Zenon DEF Fit, Fields, HasTenant
  <2> HIDE DEF q
  <2>3. Answers(c, q)
    BY <2>1, <2>2, Zenon DEF Answers, writeResponse
  <2> QED
    BY <1>0, <2>1, <2>3, KeyStep, ZenonT(60)
<1>8. ASSUME NEW k \in Key, Forward(c, k) PROVE KeyInv'
  <2> DEFINE q == [p0 EXCEPT !.key = k]
  <2>1. /\ metrics' = metrics
        /\ \/ Return(c, q, TRUE)
           \/ p0.state = "Authenticated" /\ (Wait(c, q, "dial") \/ Wait(c, q, "roundTrip"))
    BY <1>8, Zenon DEF Forward
  <2>2. Fit(q) /\ HasTenant(q) /\ (p0.state = "Authenticated" => q.tenant # "empty")
    BY <1>1, Zenon DEF Fit, Fields, HasTenant
  <2> HIDE DEF q
  <2>3. Answers(c, q) \/ Waits(c, q)
    BY <2>1, <2>2, Zenon DEF Answers, Waits
  <2> QED
    BY <1>0, <2>1, <2>3, KeyStep, ZenonT(60)
<1> QED
  BY <1>3, <1>4, <1>5, <1>6, <1>7, <1>8, ZenonT(60)

\* The handlers that have waited for the broker.
LEMMA BrokerKeep ==
    ASSUME Inv, KeyInv, NEW c \in Conn,
           DialForSCRAM(c) \/ Relay(c) \/ ensureUpstream(c) \/ RoundTrip(c)
    PROVE  KeyInv'
<1> DEFINE q == conn[c]
           u == [q EXCEPT !.upstream = TRUE]
           d == [q EXCEPT !.upstream = TRUE, !.state = "RelaySaslInFlight"]
           n == [q EXCEPT !.rounds = q.rounds + 1,
                          !.state = IF q.rounds + 1 >= 2 THEN "Authenticated" ELSE @]
<1>1. /\ DOMAIN metrics = Counters
      /\ q.pc \in {"dialRelay", "relay", "dial", "roundTrip"} /\ q.pc # "closed"
  BY Zenon DEF Inv, MetricsOK, DialForSCRAM, Relay, ensureUpstream, RoundTrip
<1>2. Fit(q) /\ HasTenant(q) /\ q.tenant # "empty"
  BY <1>1, HandlerRuns, Zenon DEF KeyInv, KeyOK
<1>3. /\ Fit(u) /\ u.tenant # "empty"
      /\ Fit(d) /\ d.tenant # "empty"
  BY <1>2, Zenon DEF Fit, Fields
<1>4. Fit(n) /\ n.tenant # "empty" /\ HasTenant(n)
  BY <1>2 DEF Fit, Fields, HasTenant
<1>5. /\ \/ \E err \in BOOLEAN : Return(c, q, err) \/ Return(c, n, err)
         \/ Wait(c, u, "roundTrip") \/ Wait(c, d, "relay")
      /\ \/ metrics' = metrics
         \/ \E kind, mech, result : metrics' = observeHandshake(UpstreamError(metrics, kind), mech, result)
         \/ \E mech, result : metrics' = observeHandshake(metrics, mech, result)
         \/ metrics' = UpstreamError(metrics, "dial")
  <2>1. CASE DialForSCRAM(c)
    BY <2>1, Zenon DEF DialForSCRAM, writeResponse
  <2>2. CASE Relay(c)
    BY <2>2, Zenon DEF Relay, writeResponse, CountRound
  <2>3. CASE ensureUpstream(c)
    BY <2>3, Zenon DEF ensureUpstream
  <2>4. CASE RoundTrip(c)
    BY <2>4, Zenon DEF RoundTrip, writeResponse
  <2> QED
    BY <2>1, <2>2, <2>3, <2>4, ZenonT(60)
<1> HIDE DEF q, u, d, n
<1>6. Answers(c, q) \/ Answers(c, n) \/ Waits(c, u) \/ Waits(c, d)
  BY <1>2, <1>3, <1>4, <1>5, ZenonT(60) DEF Answers, Waits
<1>7. metrics'.Requests = metrics.Requests
  BY <1>1, <1>5, ZenonT(60) DEF observeHandshake, UpstreamError, Counters
<1> QED
  BY <1>1, <1>6, <1>7, KeyStep, ZenonT(60) DEF q

\* serve counts a request without a tenant as it closes the connection.
LEMMA ObserveKeepsKeys ==
    ASSUME Inv, KeyInv, "_unauth" \notin TenantID, NEW c \in Conn, ObserveRequest(c)
    PROVE  KeyInv'
<1> DEFINE label == IF conn[c].tenant = "empty" THEN "_unauth" ELSE conn[c].tenant
           x == <<conn[c].key, label>>
           r == [conn[c] EXCEPT !.pc = IF conn[c].err THEN "closed" ELSE "read"]
<1>1. /\ conn[c].pc = "observe" /\ metrics' = [metrics EXCEPT !.Requests = Inc(@, x)]
      /\ conn' = [conn EXCEPT ![c] = r]
  BY Zenon DEF ObserveRequest
<1>2. ConnOK(conn[c]) /\ DOMAIN conn = Conn /\ DOMAIN metrics = Counters /\ KeyOK(conn[c])
  BY Zenon DEF Inv, MetricsOK, KeyInv
<1>3. /\ r.pc = (IF conn[c].err THEN "closed" ELSE "read") /\ r.state = conn[c].state
      /\ r.tenant = conn[c].tenant /\ r.key = conn[c].key
  BY <1>2, Zenon DEF ConnOK, Fields
<1> HIDE DEF r
<1>4. conn'[c] = r /\ \A d \in Conn : d # c => conn'[d] = conn[d]
  BY <1>1, <1>2, Zenon
<1>5. KeyOK(r)
  BY <1>2, <1>3, Zenon DEF KeyOK, HasTenant
<1>6. /\ x[1] = conn[c].key
      /\ x[2] = "_unauth" => conn[c].tenant = "empty" /\ x = <<conn[c].key, "_unauth">>
  BY <1>2, Zenon DEF ConnOK
<1> HIDE DEF label, x
<1>7. DOMAIN metrics'.Requests = DOMAIN metrics.Requests \cup {x}
  <2>1. metrics'.Requests = Inc(metrics.Requests, x)
    BY <1>1, <1>2, Zenon DEF Counters
  <2> QED
    BY <2>1, Zenon DEF Inc
<1>8. ASSUME NEW y \in Stray(metrics')
      PROVE  \E d \in Conn : conn'[d].pc = "closed" /\ y = <<conn'[d].key, "_unauth">>
  <2>1. CASE y \in Stray(metrics)
    <3>1. PICK d \in Conn : conn[d].pc = "closed" /\ y = <<conn[d].key, "_unauth">>
      BY <2>1, Zenon DEF KeyInv
    <3>2. d # c
      BY <1>1, <3>1, Zenon
    <3> QED
      BY <1>4, <3>1, <3>2, ZenonT(60)
  <2>2. CASE y \notin Stray(metrics)
    <3>1. y = x /\ x[2] = "_unauth" /\ x[1] \notin OwnKeys
      BY <1>7, <2>2, Zenon DEF Stray
    <3>2. conn[c].err
      BY <1>1, <1>2, <1>6, <3>1, ZenonT(60) DEF KeyOK
    <3>3. conn'[c].pc = "closed" /\ y = <<conn'[c].key, "_unauth">>
      BY <1>3, <1>4, <1>6, <3>1, <3>2, ZenonT(60)
    <3> QED
      BY <3>3, ZenonT(60)
  <2> QED
    BY <2>1, <2>2, Zenon
<1>9. \A d \in Conn : KeyOK(conn'[d])
  BY <1>4, <1>5, Zenon DEF KeyInv
<1> QED
  BY <1>8, <1>9, Zenon DEF KeyInv, KeyOK, HasTenant, Stray

\* The invariant of the keys holds in every reachable state.
LEMMA KeyInvariant == "_unauth" \notin TenantID /\ MetricsSpec => []KeyInv
<1> SUFFICES ASSUME "_unauth" \notin TenantID PROVE MetricsSpec => []KeyInv
  BY Zenon
<1>1. ASSUME MetricsInit PROVE KeyInv
  <2> DEFINE e == << >>
             r == [state |-> "AwaitHandshake", mech |-> "empty", tenant |-> "empty",
                   rounds |-> 0, upstream |-> FALSE, key |-> "none", pc |-> "read",
                   err |-> FALSE, garbled |-> FALSE]
  <2>0. conn = [c \in Conn |-> r] /\ metrics.Requests = e
    BY <1>1, Zenon DEF MetricsInit
  <2>1. \A c \in Conn : conn[c].state = "AwaitHandshake" /\ conn[c].pc = "read"
    BY <2>0, Zenon
  <2>2. Stray(metrics) = {}
    <3>1. metrics.Requests = << >>
      BY <2>0, Zenon
    <3>2. DOMAIN metrics.Requests = {}
      BY <3>1, SMTT(30)
    <3> QED
      BY <3>2, ZenonT(60) DEF Stray
  <2>3. \A c \in Conn : KeyOK(conn[c])
    BY <2>1, Zenon DEF KeyOK, HasTenant
  <2> QED
    BY <2>2, <2>3, ZenonT(60) DEF KeyInv
<1>2. ASSUME Inv, known \in SUBSET TenantID, KeyInv, [MetricsNext]_metricsVars
      PROVE  KeyInv'
  <2>1. CASE UNCHANGED <<conn, metrics>>
    BY <1>2, <2>1, Zenon DEF KeyInv, KeyOK, HasTenant, Stray
  <2>2. ASSUME NEW c \in Conn, ConnNext(c) PROVE KeyInv'
    <3>1. CASE ObserveRequest(c)
      BY <1>2, <3>1, ObserveKeepsKeys, Zenon
    <3>2. CASE DialForSCRAM(c) \/ Relay(c) \/ ensureUpstream(c) \/ RoundTrip(c)
      BY <1>2, <3>2, BrokerKeep, Zenon
    <3>3. CASE \/ \E k \in {"SaslHandshake", "SaslAuthenticate"} : Garbled(c, k)
               \/ \E m \in Mech : handleSaslHandshake(c, m)
               \/ \E p \in Payload : handleSaslAuthenticatePlain(c, p) \/ handleSaslAuthenticateSCRAM(c, p)
               \/ handleApiVersions(c)
               \/ \E k \in Key : Forward(c, k)
      BY <1>2, <3>3, OwnKeep, Zenon
    <3> QED
      BY <2>2, <3>1, <3>2, <3>3, Zenon DEF ConnNext
  <2>3. UNCHANGED <<conn, metrics>> \/ \E c \in Conn : ConnNext(c)
    BY <1>2, Zenon DEF MetricsNext, metricsVars, Operate, ConnNext
  <2> QED
    BY <2>1, <2>2, <2>3, ZenonT(60)
<1> QED
  BY <1>1, <1>2, MetricsInvariant, PTL DEF MetricsSpec

\* As many connections have ended as there are such series.
LEMMA StrayIsBounded ==
    ASSUME KeyInv
    PROVE  Cardinality(Stray(metrics)) <= Cardinality({c \in Conn : conn[c].pc = "closed"})
<1> DEFINE C == {c \in Conn : conn[c].pc = "closed"}
           f == [c \in C |-> <<conn[c].key, "_unauth">>]
           I == {f[c] : c \in C}
<1>1. Stray(metrics) \subseteq I
  BY Zenon DEF KeyInv
<1>2. IsFiniteSet(C)
  BY ConnAssumption, FS_Subset, Zenon
<1> HIDE DEF C, f
<1>3. IsFiniteSet(I) /\ Cardinality(I) <= Cardinality(C)
  BY <1>2, ImageIsFinite, Zenon
<1> HIDE DEF I
<1>4. Cardinality(Stray(metrics)) <= Cardinality(I) /\ IsFiniteSet(Stray(metrics))
  BY <1>1, <1>3, FS_Subset, Zenon
<1>5. /\ Cardinality(Stray(metrics)) \in Nat /\ Cardinality(I) \in Nat /\ Cardinality(C) \in Nat
  BY <1>2, <1>3, <1>4, FS_CardinalityType, Zenon
<1> QED
  BY <1>3, <1>4, <1>5 DEF C

\* Series come from the list of mechanisms, the answers of the catalogue, and,
\* for the other keys without a tenant, from connections that have ended: each
\* such series is the last request of one of them.
THEOREM LabelsBounded == MetricsSpec => []LabelsAreBounded
<1>1. ASSUME Inv, "_unauth" \notin TenantID => KeyInv PROVE LabelsAreBounded
  <2> DEFINE N == Named(metrics, conn)
             T == {x[2] : x \in DOMAIN metrics.Requests} \ {"_unauth"}
  <2>1. MetricsOK(metrics) /\ Cardinality(N) <= Found(metrics)
    BY <1>1, Zenon DEF Inv
  <2>2. T \subseteq N
    BY <2>1, Zenon DEF MetricsOK, Named
  <2>3. IsFiniteSet(N) /\ Found(metrics) \in Int
    BY <1>1, <2>1, NamedIsFinite, SumTypes, Zenon
  <2> HIDE DEF N, T
  <2>4. Cardinality(T) <= Cardinality(N) /\ Cardinality(T) \in Nat /\ Cardinality(N) \in Nat
    BY <2>2, <2>3, FS_Subset, FS_CardinalityType, ZenonT(60)
  <2>5. Cardinality(T) <= Found(metrics)
    BY <2>1, <2>3, <2>4
  <2>6. "_unauth" \notin TenantID => Cardinality(Stray(metrics)) <= Cardinality({c \in Conn : conn[c].pc = "closed"})
    BY <1>1, StrayIsBounded, Zenon
  <2> QED
    BY <2>1, <2>5, <2>6, Zenon DEF LabelsAreBounded, MetricsOK, Found, T, Stray
<1>2. CASE "_unauth" \in TenantID
  <2>1. Inv => LabelsAreBounded
    BY <1>1, <1>2, Zenon
  <2> QED
    BY <2>1, MetricsInvariant, PTL
<1>3. CASE "_unauth" \notin TenantID
  <2>1. Inv /\ KeyInv => LabelsAreBounded
    BY <1>1, Zenon
  <2>2. MetricsSpec => []KeyInv
    BY <1>3, KeyInvariant, Zenon
  <2> QED
    BY <2>1, <2>2, MetricsInvariant, PTL
<1> QED
  BY <1>2, <1>3, Zenon
=============================================================================
