------------------------------ MODULE Startup ------------------------------
(***************************************************************************)
(* How the process gets its configuration and its first catalogue: run()   *)
(* of cmd/kroxy/main.go up to the start of the servers, with config.Load   *)
(* (config/config.go) and resolver.New (resolver/factory.go, memory.go).   *)
(*                                                                         *)
(* cfg holds the fields of the YAML file that decide anything; "empty" is  *)
(* the empty string.  It changes once, when applyDefaults runs.            *)
(***************************************************************************)
EXTENDS Resolver, Sequences

CONSTANT Config     \* the files that operators write

ASSUME ConfigAssumption ==
    Config \subseteq [advertised : STRING, bootstrap : Addr, type : STRING, tenants : Seq(Tenant),
                      admin : BOOLEAN, adminListen : STRING, tls : BOOLEAN, keyPair : STRING,
                      mechanism : STRING]

VARIABLES
    file,   \* the configuration as it was written
    cfg,    \* the configuration as it is used
    phase,  \* where run() is: load, resolver, tls, running or failed
    cause   \* the step that failed

startupVars == <<catalogueVars, file, cfg, phase, cause>>

StartupInit ==
    /\ file \in Config
    /\ cfg = file
    /\ phase = "load" /\ cause = "none"
    /\ tenants = << >> /\ issued = {}

\* A plausible slip: the shared bootstrap address is not handed down.
noUpstreamDefault(c) == c.tenants

\* The upstream of a tenant is the shared one where it is omitted.
upstreamDefault(c) ==
    [i \in DOMAIN c.tenants |->
        IF c.tenants[i].Upstream = "empty"
        THEN [c.tenants[i] EXCEPT !.Upstream = c.bootstrap] ELSE c.tenants[i]]

applyDefaults(c) ==
    [c EXCEPT !.type = IF @ = "empty" THEN "memory" ELSE @,
              !.adminListen = IF @ = "empty" THEN "127.0.0.1:9095" ELSE @,
              !.tenants = upstreamDefault(c)]

validateMemoryResolver(c) ==
    /\ c.tenants # << >> \/ c.admin
    /\ \A i \in DOMAIN c.tenants : c.tenants[i].ID # "empty" /\ c.tenants[i].TopicPrefix # << >>

validate(c) ==
    /\ c.advertised # "empty"
    /\ c.bootstrap # "empty"
    /\ c.type = "memory" /\ validateMemoryResolver(c)
    /\ c.admin => c.adminListen # "no host:port"
    /\ c.tls => c.keyPair # "empty"
    /\ c.mechanism \in {"empty", "SCRAM-SHA-256", "SCRAM-SHA-512"}

Fail(step) == phase' = "failed" /\ cause' = step

\* The file may be missing or no YAML.
Load ==
    /\ phase = "load"
    /\ \/ Fail("read") /\ UNCHANGED cfg
       \/ /\ cfg' = applyDefaults(cfg)
          /\ IF validate(cfg') THEN phase' = "resolver" /\ UNCHANGED cause ELSE Fail("validate")
    /\ UNCHANGED <<catalogueVars, file>>

\* A plausible slip: a later line replaces an earlier one.
duplicatesReplace(ts) == FALSE

\* newMemoryResolver rejects a list in which an id occurs twice.
duplicates(ts) == \E i, j \in DOMAIN ts : i < j /\ ts[i].ID = ts[j].ID

NewResolver ==
    LET ts == cfg.tenants
        ids == {ts[i].ID : i \in DOMAIN ts}
        last(id) == CHOOSE i \in DOMAIN ts :
                        ts[i].ID = id /\ \A j \in DOMAIN ts : ts[j].ID = id => j <= i
        ok == (\A i \in DOMAIN ts : validateTenant(ts[i])) /\ ~duplicates(ts)
    IN  /\ phase = "resolver"
        /\ \/ /\ ok
              /\ tenants' = [id \in ids |-> ts[last(id)]]
              /\ issued' = {ts[i] : i \in DOMAIN ts}
              /\ phase' = "tls" /\ UNCHANGED cause
           \/ ~ok /\ Fail("resolver") /\ UNCHANGED catalogueVars
        /\ UNCHANGED <<file, cfg>>

\* TLSConfig.Build reads the key pair, if it is wanted; then the servers start.
BuildTLS ==
    /\ phase = "tls"
    /\ \/ phase' = "running" /\ UNCHANGED cause
       \/ cfg.tls /\ Fail("tls")
    /\ UNCHANGED <<catalogueVars, file, cfg>>

Over == phase \in {"running", "failed"} /\ UNCHANGED startupVars

StartupNext == Load \/ NewResolver \/ BuildTLS \/ Over

StartupSpec == StartupInit /\ [][StartupNext]_startupVars

-----------------------------------------------------------------------------
(* Properties.                                                             *)

\* A configuration that Load accepts starts, unless it names a tenant twice or
\* its key pair cannot be read: the checks of the configuration and those of
\* the catalogue agree, once the defaults are filled in.
AcceptedConfigStarts ==
    phase = "failed" /\ cause = "resolver" =>
        \E i, j \in DOMAIN file.tenants : i # j /\ file.tenants[i].ID = file.tenants[j].ID

\* The catalogue that the servers start with is one that CatalogueInit allows,
\* as the models of the connections and of the admin RPC assume, and it holds
\* every tenant as its line in the file says, with the shared upstream where
\* the line has none, one entry for each line and no other.
CatalogueIsAsWritten ==
    phase = "running" =>
        /\ CatalogueTypeOK /\ CatalogueInit
        /\ DOMAIN tenants = {file.tenants[i].ID : i \in DOMAIN file.tenants}
        /\ \A i, j \in DOMAIN file.tenants : file.tenants[i].ID = file.tenants[j].ID => i = j
        /\ \A i \in DOMAIN file.tenants :
               LET t == file.tenants[i]
               IN  tenants[t.ID] = [t EXCEPT !.Upstream = IF @ = "empty" THEN file.bootstrap ELSE @]
=============================================================================
