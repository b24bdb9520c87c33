------------------------------ MODULE MCParts ------------------------------
(***************************************************************************)
(* The parts that share no state with one another, in one instance: a      *)
(* behaviour is one of the component that it names, and the others stay in *)
(* one of their initial states.                                            *)
(***************************************************************************)
EXTENDS MCDeadlines, MCFraming, MCHeaders, MCSaslParsers, MCStartup, MCMetrics

VARIABLE component

Idle(c) == component # c

IdleRequest ==
    /\ req = ClientRequest("Produce", 0, -1, << >>, 0)
    /\ hdr = [err |-> "none", size |-> 0] /\ stage = "sent"
    /\ respHeader = 0 /\ stripped = 0 /\ found = 0
IdleForm == F("PLAIN", << >>, {"0"}, 0)
IdleFile ==
    [advertised |-> "empty", bootstrap |-> "empty", type |-> "empty", tenants |-> << >>,
     admin |-> FALSE, adminListen |-> "empty", tls |-> FALSE, keyPair |-> "empty",
     mechanism |-> "empty"]

PartsInit ==
    /\ component \in {"Deadlines", "Framing", "Headers", "SaslParsers", "Startup", "Metrics"}
    /\ Init
    /\ (Idle("Deadlines") /\ path = "plain") \/ component = "Deadlines"
    /\ DeadlineInit
    /\ IF Idle("Headers") THEN IdleRequest ELSE HeaderInit
    /\ IF Idle("SaslParsers") THEN form = IdleForm /\ text = << >> ELSE ParserInit
    /\ (Idle("Startup") /\ file = IdleFile) \/ component = "Startup"
    /\ StartupInit
    /\ (Idle("Metrics") /\ known = {}) \/ component = "Metrics"
    /\ MetricsInit

PartsNext ==
    /\ UNCHANGED component
    /\ \/ /\ component = "Deadlines" /\ DeadlineNext
          /\ UNCHANGED <<vars, headerVars, parserVars, startupVars, metricsVars>>
       \/ /\ component = "Framing" /\ Next
          /\ UNCHANGED <<deadlineVars, headerVars, parserVars, startupVars, metricsVars>>
       \/ /\ component = "Headers" /\ HeaderNext
          /\ UNCHANGED <<deadlineVars, vars, parserVars, startupVars, metricsVars>>
       \/ /\ component = "SaslParsers" /\ ParserNext
          /\ UNCHANGED <<deadlineVars, vars, headerVars, startupVars, metricsVars>>
       \/ /\ component = "Startup" /\ StartupNext
          /\ UNCHANGED <<deadlineVars, vars, headerVars, parserVars, metricsVars>>
       \/ /\ component = "Metrics" /\ MetricsNext
          /\ UNCHANGED <<deadlineVars, vars, headerVars, parserVars, startupVars>>

PartsSpec ==
    PartsInit /\ [][PartsNext]_<<component, deadlineVars, vars, headerVars, parserVars,
                                 startupVars, metricsVars>>
=============================================================================
