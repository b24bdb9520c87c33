------------------------------ MODULE AdminRPC ------------------------------
(***************************************************************************)
(* The catalogue as it runs: the methods of memoryResolver, step by step   *)
(* under its RWMutex, called by the handlers of the admin service for      *)
(* remote operators and by connections that authenticate.                  *)
(*                                                                         *)
(* A slot is one call with the goroutine that executes it.  pc is where    *)
(* the goroutine is; an operator's request or reply can be lost, its       *)
(* client can give up, and the goroutine goes on without it: the methods   *)
(* ignore their context.                                                   *)
(***************************************************************************)
EXTENDS Resolver

CONSTANTS Slot, Op, NoSlot

ASSUME OpAssumption ==
    Op \subseteq [method : {"Set", "Delete", "List", "Get", "Malformed"}, tenant : Tenant]
ASSUME NoSlotAssumption == NoSlot \notin Slot

VARIABLES
    op, result, answer,  \* as in AtomicCatalogue
    pc,
    out,        \* the slice that List builds
    readers,    \* mu: the holders of the read lock,
    writer,     \* the holder of the write lock,
    pending     \* and the goroutine that waits for the readers to leave

muVars == <<readers, writer, pending>>
vars == <<catalogueVars, op, result, answer, pc, out, muVars>>

Res(err, ts) == [err |-> err, out |-> ts]
NoRes == Res("none", {})
Unknown == Res("unknown", {})
OK == Res("nil", {})
NoOp == [method |-> "none", tenant |-> ZeroTenant]

\* Get is called by a connection, in the same process; the others by RPC.
Remote(s) == op[s].method # "Get"

Init ==
    /\ CatalogueInit
    /\ op = [s \in Slot |-> NoOp]
    /\ result = [s \in Slot |-> NoRes]
    /\ answer = [s \in Slot |-> NoRes]
    /\ pc = [s \in Slot |-> "idle"]
    /\ out = [s \in Slot |-> {}]
    /\ readers = {}
    /\ writer = NoSlot
    /\ pending = NoSlot

At(s, p) == pc[s] = p
Goto(s, p) == pc' = [pc EXCEPT ![s] = p]
\* The call takes effect here.
Result(s, err, ts) == result' = [result EXCEPT ![s] = Res(err, ts)]

-----------------------------------------------------------------------------
(* The caller and the network.                                             *)

Call(s, o) ==
    /\ At(s, "idle") /\ op[s] = NoOp
    /\ op' = [op EXCEPT ![s] = o]
    /\ Goto(s, IF o.method = "Get" THEN "rlock" ELSE "sent")
    /\ UNCHANGED <<catalogueVars, result, answer, out, muVars>>

RequestLost(s) ==
    /\ At(s, "sent")
    /\ Goto(s, "over")
    /\ UNCHANGED <<catalogueVars, op, result, answer, out, muVars>>

\* The client's http.Client.Timeout, a broken connection, or a non-200 answer.
ClientTimeout(s) ==
    /\ op[s] # NoOp /\ Remote(s)
    /\ answer[s] = NoRes
    /\ answer' = [answer EXCEPT ![s] = Unknown]
    /\ UNCHANGED <<catalogueVars, op, result, pc, out, muVars>>

\* Both ends have finished with the call.
Forget(s) ==
    /\ At(s, "over") /\ answer[s] # NoRes
    /\ Goto(s, "idle")
    /\ op' = [op EXCEPT ![s] = NoOp]
    /\ result' = [result EXCEPT ![s] = NoRes]
    /\ answer' = [answer EXCEPT ![s] = NoRes]
    /\ out' = [out EXCEPT ![s] = {}]
    /\ UNCHANGED <<catalogueVars, muVars>>

-----------------------------------------------------------------------------
(* Service.Set, Delete and List up to the lock: Bind and the checks of the *)
(* arguments.                                                              *)

Rejected(o) ==
    \/ o.method = "Malformed"
    \/ o.method = "Set" /\ ~validateTenant(o.tenant)
    \/ o.method = "Delete" /\ o.tenant.ID = "empty"

Receive(s) ==
    /\ At(s, "sent")
    /\ \/ /\ Rejected(op[s])
          /\ Result(s, "ErrInvalidTenant", {})
          /\ Goto(s, "reply")
       \/ /\ ~Rejected(op[s])
          /\ Goto(s, IF op[s].method = "List" THEN "rlock" ELSE "lock")
          /\ UNCHANGED result
    /\ UNCHANGED <<catalogueVars, op, answer, out, muVars>>

-----------------------------------------------------------------------------
(* sync.RWMutex: a writer that waits keeps new readers out.                *)

Lock(s) ==
    /\ At(s, "lock")
    /\ writer = NoSlot /\ pending = NoSlot
    /\ pending' = s
    /\ Goto(s, "pending")
    /\ UNCHANGED <<catalogueVars, op, result, answer, out, readers, writer>>

\* A plausible slip: mu.RLock() in the methods that write.
ReadersIgnored == TRUE

\* mu.Lock() returns once no reader is inside.
ReadersHaveLeft == readers = {}

Locked(s) ==
    /\ At(s, "pending")
    /\ ReadersHaveLeft
    /\ pending' = NoSlot
    /\ writer' = s
    /\ Goto(s, "check")
    /\ UNCHANGED <<catalogueVars, op, result, answer, out, readers>>

Unlock(s) ==
    /\ At(s, "unlock")
    /\ writer' = NoSlot
    /\ Goto(s, "reply")
    /\ UNCHANGED <<catalogueVars, op, result, answer, out, readers, pending>>

\* A plausible slip: a lock that lets readers in past a writer that waits.
ReadersPreferred == writer = NoSlot

\* mu.RLock() returns.
RLockFree == writer = NoSlot /\ pending = NoSlot

RLock(s) ==
    /\ At(s, "rlock")
    /\ RLockFree
    /\ readers' = readers \cup {s}
    /\ Goto(s, "read")
    /\ UNCHANGED <<catalogueVars, op, result, answer, out, writer, pending>>

RUnlock(s) ==
    /\ At(s, "runlock")
    /\ readers' = readers \ {s}
    /\ Goto(s, "reply")
    /\ UNCHANGED <<catalogueVars, op, result, answer, out, writer, pending>>

-----------------------------------------------------------------------------
(* The critical sections.                                                  *)

\* Where a method goes when it returns with an error: the deferred Unlock.
ErrorExit == "unlock"

Known(s) == op[s].tenant.ID \in DOMAIN tenants

\* A plausible slip: Set overwrites.
SetUnchecked(s) == IF op[s].method = "Set" THEN "write" ELSE IF Known(s) THEN "write" ELSE "ErrNotFound"

\* What the lookup at the start of Set and Delete decides.
Lookup(s) ==
    IF op[s].method = "Set"
    THEN IF Known(s) THEN "ErrDuplicate" ELSE "write"
    ELSE IF Known(s) THEN "write" ELSE "ErrNotFound"

Check(s) ==
    /\ At(s, "check")
    /\ \/ Lookup(s) = "write" /\ Goto(s, "write") /\ UNCHANGED result
       \/ /\ Lookup(s) # "write"
          /\ Goto(s, ErrorExit)
          /\ Result(s, Lookup(s), {})
    /\ UNCHANGED <<catalogueVars, op, answer, out, muVars>>

\* m.tenants[t.ID] = t, or delete(m.tenants, id).
Write(s) ==
    LET t == op[s].tenant
    IN  /\ At(s, "write")
        /\ \/ /\ op[s].method = "Set"
              /\ tenants' = [id \in DOMAIN tenants \cup {t.ID} |->
                                IF id = t.ID THEN t ELSE tenants[id]]
              /\ issued' = issued \cup {t}
           \/ /\ op[s].method = "Delete"
              /\ tenants' = [id \in DOMAIN tenants \ {t.ID} |-> tenants[id]]
              /\ UNCHANGED issued
        /\ Result(s, "nil", {})
        /\ Goto(s, "unlock")
        /\ UNCHANGED <<op, answer, out, muVars>>

ReadTenant(s) ==
    /\ At(s, "read") /\ op[s].method = "Get"
    /\ IF Known(s) THEN Result(s, "nil", {Get(op[s].tenant.ID)})
                   ELSE Result(s, "ErrUnauthorized", {})
    /\ Goto(s, "runlock")
    /\ UNCHANGED <<catalogueVars, op, answer, out, muVars>>

\* One turn of List's range loop, which visits the ids in any order.
ListNext(s, id) ==
    /\ At(s, "read") /\ op[s].method = "List"
    /\ \A t \in out[s] : t.ID # id
    /\ out' = [out EXCEPT ![s] = out[s] \cup {tenants[id]}]
    /\ UNCHANGED <<catalogueVars, op, result, answer, pc, muVars>>

ListEnd(s) ==
    /\ At(s, "read") /\ op[s].method = "List"
    /\ \A id \in DOMAIN tenants : \E t \in out[s] : t.ID = id
    /\ Result(s, "nil", out[s])
    /\ Goto(s, "runlock")
    /\ UNCHANGED <<catalogueVars, op, answer, out, muVars>>

-----------------------------------------------------------------------------
(* The reply: the error becomes a code, and the code an error again.       *)

\* A plausible slip: a sentinel that is not recognised.
mapErrWithoutNotFound(err) ==
    IF err = "ErrDuplicate" THEN "CodeDuplicate"
    ELSE IF err = "ErrInvalidTenant" THEN "CodeInvalid"
    ELSE IF err = "nil" THEN "none" ELSE "internal"

mapErr(err) ==
    CASE err = "ErrDuplicate" -> "CodeDuplicate"
      [] err = "ErrNotFound" -> "CodeNotFound"
      [] err = "ErrInvalidTenant" -> "CodeInvalid"
      [] err = "nil" -> "none"
      [] OTHER -> "internal"

mapClientErr(code) ==
    CASE code = "CodeDuplicate" -> "ErrDuplicate"
      [] code = "CodeNotFound" -> "ErrNotFound"
      [] code = "CodeInvalid" -> "ErrInvalidTenant"
      [] code = "none" -> "nil"
      [] OTHER -> "rpcError"

Reply(s) ==
    /\ At(s, "reply") /\ answer[s] = NoRes
    /\ answer' = [answer EXCEPT ![s] =
                     IF Remote(s)
                     THEN Res(mapClientErr(mapErr(result[s].err)), result[s].out)
                     ELSE result[s]]
    /\ Goto(s, "over")
    /\ UNCHANGED <<catalogueVars, op, result, out, muVars>>

\* The reply is lost, or nobody waits for it any more.
ReplyLost(s) ==
    /\ At(s, "reply") /\ Remote(s)
    /\ Goto(s, "over")
    /\ UNCHANGED <<catalogueVars, op, result, answer, out, muVars>>

-----------------------------------------------------------------------------
Handler(s) ==
    \/ Receive(s)
    \/ Lock(s) \/ Locked(s) \/ Check(s) \/ Write(s) \/ Unlock(s)
    \/ RLock(s) \/ ReadTenant(s) \/ (\E id \in DOMAIN tenants : ListNext(s, id))
    \/ ListEnd(s) \/ RUnlock(s)
    \/ Reply(s) \/ ReplyLost(s)

Next ==
    \E s \in Slot :
        \/ \E o \in Op : Call(s, o)
        \/ Handler(s)
        \/ RequestLost(s) \/ ClientTimeout(s) \/ Forget(s)

Spec == Init /\ [][Next]_vars

\* The scheduler runs every goroutine that can go on; the RWMutex starves
\* neither readers nor writers; the client's timer fires.  Calls, losses and
\* the network are not fair.
Fairness ==
    \A s \in Slot :
        /\ WF_vars(Handler(s))
        /\ SF_vars(Lock(s)) /\ SF_vars(RLock(s))
        /\ WF_vars(ClientTimeout(s))

FairSpec == Spec /\ Fairness

-----------------------------------------------------------------------------
(* Properties.                                                             *)

PC == {"idle", "sent", "lock", "pending", "check", "write", "unlock", "rlock", "read",
       "runlock", "reply", "over"}
Err == {"nil", "ErrInvalidTenant", "ErrDuplicate", "ErrNotFound", "ErrUnauthorized"}

TypeOK ==
    /\ CatalogueTypeOK
    /\ op \in [Slot -> Op \cup {NoOp}]
    /\ result \in [Slot -> {NoRes} \cup [err : Err, out : SUBSET issued]]
    /\ answer \in [Slot -> {NoRes, Unknown} \cup [err : Err, out : SUBSET issued]]
    /\ pc \in [Slot -> PC]
    /\ out \in [Slot -> SUBSET issued]
    /\ readers \subseteq Slot
    /\ {writer, pending} \subseteq Slot \cup {NoSlot}

Atomic == INSTANCE AtomicCatalogue

\* Every call is atomic for its callers: the steps of the methods under the
\* lock, the codes of the replies and the clients that give up add up to the
\* one-step operations of Resolver, each between its call and its answer, and
\* an operator that is answered is told what the store did.
CallsAreAtomic == Atomic!Spec

\* "Create-only": no interleaving of calls changes a record in place.
RecordsAreImmutable ==
    [][\A id \in DOMAIN tenants \cap DOMAIN tenants' : tenants'[id] = tenants[id]]_vars

\* Every method that was entered returns, on its error paths too, however many
\* other calls arrive: no lock is left behind and none starves.
HandlersReturn == \A s \in Slot : pc[s] \notin {"idle", "sent", "over"} ~> At(s, "over")
=============================================================================
