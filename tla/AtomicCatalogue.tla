-------------------------- MODULE AtomicCatalogue --------------------------
(***************************************************************************)
(* What the tenant catalogue promises its callers, the operators behind    *)
(* the admin RPC and the connections that look a tenant up: every call     *)
(* takes effect at one moment after it was made, or never if it got lost,  *)
(* and a caller that is answered is told what happened at that moment.  A  *)
(* caller may give up, and its call may take effect after that.            *)
(*                                                                         *)
(* The effects are the atomic steps of Resolver, which Session relies on.  *)
(***************************************************************************)
EXTENDS Resolver

CONSTANTS
    Slot,   \* the calls that can be in progress at once
    Op      \* the operations that are called

VARIABLES
    op,         \* the operation of each slot
    result,     \* what it did, from the moment it took effect
    answer      \* what its caller knows

callVars == <<op, result, answer>>
vars == <<catalogueVars, callVars>>

\* err is the class of the error ("nil": none), out the tenants returned.
Res(err, ts) == [err |-> err, out |-> ts]
NoRes == Res("none", {})
Unknown == Res("unknown", {})
OK == Res("nil", {})

NoOp == [method |-> "none", tenant |-> ZeroTenant]

Init ==
    /\ CatalogueInit
    /\ op = [s \in Slot |-> NoOp]
    /\ result = [s \in Slot |-> NoRes]
    /\ answer = [s \in Slot |-> NoRes]

Call(s, o) ==
    /\ op[s] = NoOp
    /\ op' = [op EXCEPT ![s] = o]
    /\ UNCHANGED <<catalogueVars, result, answer>>

Unchanged(err, ts, res) == res = Res(err, ts) /\ UNCHANGED catalogueVars

\* The operation of s takes effect with result res.
Effect(s, res) ==
    LET t == op[s].tenant
    IN  \/ /\ op[s].method = "Set"
           /\ \/ ~validateTenant(t) /\ Unchanged("ErrInvalidTenant", {}, res)
              \/ /\ validateTenant(t)
                 /\ t.ID \in DOMAIN tenants
                 /\ Unchanged("ErrDuplicate", {}, res)
              \/ Set(t) /\ res = OK
        \/ /\ op[s].method = "Delete"
           /\ \/ t.ID = "empty" /\ Unchanged("ErrInvalidTenant", {}, res)
              \/ /\ t.ID # "empty"
                 /\ t.ID \notin DOMAIN tenants
                 /\ Unchanged("ErrNotFound", {}, res)
              \/ Delete(t.ID) /\ res = OK
        \/ op[s].method = "Malformed" /\ Unchanged("ErrInvalidTenant", {}, res)
        \/ /\ op[s].method = "List"
           /\ Unchanged("nil", {tenants[id] : id \in DOMAIN tenants}, res)
        \/ /\ op[s].method = "Get"
           /\ IF t.ID \in DOMAIN tenants THEN Unchanged("nil", {Get(t.ID)}, res)
                                         ELSE Unchanged("ErrUnauthorized", {}, res)

Apply(s) ==
    /\ result[s] = NoRes
    /\ \E res \in [err : {"nil", "ErrInvalidTenant", "ErrDuplicate", "ErrNotFound",
                          "ErrUnauthorized"},
                   out : SUBSET issued] :
           Effect(s, res) /\ result' = [result EXCEPT ![s] = res]
    /\ UNCHANGED <<op, answer>>

Answer(s) ==
    /\ answer[s] = NoRes
    /\ result[s] # NoRes
    /\ answer' = [answer EXCEPT ![s] = result[s]]
    /\ UNCHANGED <<catalogueVars, op, result>>

GiveUp(s) ==
    /\ op[s] # NoOp
    /\ answer[s] = NoRes
    /\ answer' = [answer EXCEPT ![s] = Unknown]
    /\ UNCHANGED <<catalogueVars, op, result>>

\* A call that is over makes room for another one.
Forget(s) ==
    /\ answer[s] # NoRes
    /\ op' = [op EXCEPT ![s] = NoOp]
    /\ result' = [result EXCEPT ![s] = NoRes]
    /\ answer' = [answer EXCEPT ![s] = NoRes]
    /\ UNCHANGED catalogueVars

Next ==
    \E s \in Slot :
        \/ \E o \in Op : Call(s, o)
        \/ Apply(s) \/ Answer(s) \/ GiveUp(s) \/ Forget(s)

Spec == Init /\ [][Next]_vars
=============================================================================
