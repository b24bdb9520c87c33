------------------------------ MODULE Resolver ------------------------------
(***************************************************************************)
(* The tenant catalogue (package resolver, memory.go).                     *)
(*                                                                         *)
(* Every operation of memoryResolver runs under one RWMutex, so each is    *)
(* one atomic step here.  Get is an operator: its callers read the         *)
(* catalogue in the step in which the code holds the read lock.            *)
(* The empty string of Go is written "empty".                              *)
(***************************************************************************)
EXTENDS Names

CONSTANTS
    Char,       \* the characters of names
    UserID,     \* the ids that operators and clients use; "empty" may be one
    Prefix,     \* the topic prefixes operators write; << >> may be one
    Addr        \* the upstream addresses operators write; "empty" may be one

ASSUME PrefixAssumption == Prefix \subseteq Seq(Char)

VARIABLES
    tenants,    \* memoryResolver.tenants: a map from tenant id to Tenant
    issued      \* history: every tenant record the catalogue ever held

catalogueVars == <<tenants, issued>>

Tenant == [ID : UserID, TopicPrefix : Prefix, Upstream : Addr]

\* Go's zero value of Tenant.
ZeroTenant == [ID |-> "empty", TopicPrefix |-> << >>, Upstream |-> "empty"]

\* validateTenant: the three fields are non-empty, nothing else is required.
validateTenant(t) == t.ID # "empty" /\ t.TopicPrefix # << >> /\ t.Upstream # "empty"

ValidTenant == {t \in Tenant : validateTenant(t)}

\* Get: ErrUnauthorized is the zero Tenant, which no valid record equals.
Get(id) == IF id \in DOMAIN tenants THEN tenants[id] ELSE ZeroTenant

\* newMemoryResolver: any table of valid records, filed under their own ids.
newMemoryResolver ==
    \E ids \in SUBSET UserID :
        /\ tenants \in [ids -> ValidTenant]
        /\ \A id \in ids : tenants[id].ID = id

CatalogueInit ==
    /\ newMemoryResolver
    /\ issued = {tenants[id] : id \in DOMAIN tenants}

\* Set: creates, never overwrites (ErrDuplicate).
Set(t) ==
    /\ validateTenant(t)
    /\ t.ID \notin DOMAIN tenants
    /\ tenants' = [id \in DOMAIN tenants \cup {t.ID} |->
                      IF id = t.ID THEN t ELSE tenants[id]]
    /\ issued' = issued \cup {t}

\* Delete: removes a known id (ErrNotFound otherwise).
Delete(id) ==
    /\ id # "empty"
    /\ id \in DOMAIN tenants
    /\ tenants' = [i \in DOMAIN tenants \ {id} |-> tenants[i]]
    /\ UNCHANGED issued

CatalogueTypeOK ==
    /\ \E ids \in SUBSET UserID : tenants \in [ids -> ValidTenant]
    /\ \A id \in DOMAIN tenants : tenants[id].ID = id /\ tenants[id] \in issued
    /\ issued \subseteq ValidTenant
=============================================================================
