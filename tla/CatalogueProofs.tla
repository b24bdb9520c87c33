-------------------------- MODULE CatalogueProofs --------------------------
(***************************************************************************)
(* Proofs about the catalogue of tenants.  AdminRPC: for any number of     *)
(* concurrent calls, any ids, prefixes and addresses, the methods of       *)
(* memoryResolver, as they run under the RWMutex, are atomic for their     *)
(* callers.  Startup: for any configuration file, the catalogue that the   *)
(* servers start with is the one the file describes.                       *)
(***************************************************************************)
EXTENDS AdminRPC, Startup, TLAPS

-----------------------------------------------------------------------------
(* AdminRPC.                                                               *)

\* Who holds the lock: a goroutine in a critical section, and a writer only
\* alone.
LockInv ==
    /\ \A s \in Slot : writer = s <=> pc[s] \in {"check", "write", "unlock"}
    /\ \A s \in Slot : pending = s <=> pc[s] = "pending"
    /\ \A s \in Slot : s \in readers <=> pc[s] \in {"read", "runlock"}
    /\ writer # NoSlot => readers = {} /\ pending = NoSlot

\* What a call has done when it is at its pc.
CallOK(s) ==
    /\ pc[s] = "idle" => op[s] = NoOp /\ answer[s] = NoRes
    /\ pc[s] # "idle" => op[s] \in Op
    /\ pc[s] \in {"idle", "sent", "lock", "pending", "check", "write", "rlock", "read"}
          => result[s] = NoRes
    /\ pc[s] = "sent" => op[s].method # "Get"
    /\ pc[s] \in {"lock", "pending", "check", "write"}
          => op[s].method \in {"Set", "Delete"} /\ ~Rejected(op[s])
    /\ pc[s] \in {"rlock", "read"} => op[s].method \in {"List", "Get"}
    /\ pc[s] \in {"unlock", "runlock", "reply"}
          => /\ result[s].err \in Err
             /\ op[s].method # "Get" => result[s].err # "ErrUnauthorized"
    /\ pc[s] = "write" => (op[s].method = "Set" <=> op[s].tenant.ID \notin DOMAIN tenants)

\* What the tenants that List has collected are: entries of the catalogue.
ListInv ==
    \A s \in Slot :
        /\ pc[s] = "read" => \A t \in out[s] : t.ID \in DOMAIN tenants /\ tenants[t.ID] = t
        /\ pc[s] \notin {"read", "runlock", "reply", "over"} => out[s] = {}

IInv == TypeOK /\ LockInv /\ (\A s \in Slot : CallOK(s)) /\ ListInv

-----------------------------------------------------------------------------
\* One step of one call.
Step(s) ==
    \/ \E o \in Op : Call(s, o)
    \/ Handler(s)
    \/ RequestLost(s) \/ ClientTimeout(s) \/ Forget(s)

\* What the lookup under the lock decides.
LEMMA LookupFacts ==
    ASSUME NEW s \in Slot, op[s].method \in {"Set", "Delete"}
    PROVE  /\ Lookup(s) \in {"write", "ErrDuplicate", "ErrNotFound"}
           /\ Lookup(s) = "ErrDuplicate" =>
                  op[s].method = "Set" /\ op[s].tenant.ID \in DOMAIN tenants
           /\ Lookup(s) = "ErrNotFound" =>
                  op[s].method = "Delete" /\ op[s].tenant.ID \notin DOMAIN tenants
           /\ Lookup(s) = "write" =>
                  (op[s].method = "Set" <=> op[s].tenant.ID \notin DOMAIN tenants)
BY DEF Lookup, Known

\* The client recovers the error of the store from the code of the reply.
LEMMA CodesRoundTrip ==
    ASSUME NEW err \in Err \ {"ErrUnauthorized"}
    PROVE  mapClientErr(mapErr(err)) = err
BY DEF Err, mapErr, mapClientErr

\* Every step keeps the lock and the positions of the goroutines in agreement.
LEMMA LockStep ==
    ASSUME IInv, NEW s \in Slot, Step(s)
    PROVE  LockInv'
<1>1. CASE \E o \in Op : Call(s, o)
  BY <1>1, NoSlotAssumption DEF Call, Goto, At, IInv, muVars, catalogueVars, TypeOK,
         LockInv
<1>2. CASE Receive(s)
  BY <1>2, NoSlotAssumption DEF Receive, Result, Goto, At, IInv, muVars, catalogueVars,
         TypeOK, LockInv
<1>3. CASE Lock(s)
  BY <1>3, NoSlotAssumption DEF Lock, Goto, At, IInv, muVars, catalogueVars, TypeOK,
         LockInv
<1>4. CASE Locked(s)
  BY <1>4, NoSlotAssumption DEF Locked, ReadersHaveLeft, Goto, At, IInv, muVars,
         catalogueVars, TypeOK, LockInv
<1>5. CASE Check(s)
  BY <1>5, NoSlotAssumption DEF Check, Result, Goto, ErrorExit, At, IInv, muVars,
         catalogueVars, TypeOK, LockInv
<1>6. CASE Write(s)
  BY <1>6, NoSlotAssumption DEF Write, Result, Goto, At, IInv, muVars, catalogueVars,
         TypeOK, LockInv
<1>7. CASE Unlock(s)
  BY <1>7, NoSlotAssumption DEF Unlock, Goto, At, IInv, muVars, catalogueVars, TypeOK,
         LockInv
<1>8. CASE RLock(s)
  BY <1>8, NoSlotAssumption DEF RLock, RLockFree, Goto, At, IInv, muVars, catalogueVars,
         TypeOK, LockInv
<1>9. CASE ReadTenant(s)
  BY <1>9, NoSlotAssumption DEF ReadTenant, Result, Goto, At, IInv, muVars,
         catalogueVars, TypeOK, LockInv
<1>10. CASE \E id \in DOMAIN tenants : ListNext(s, id)
  BY <1>10, NoSlotAssumption DEF ListNext, At, IInv, muVars, catalogueVars, TypeOK,
         LockInv
<1>11. CASE ListEnd(s)
  BY <1>11, NoSlotAssumption DEF ListEnd, Result, Goto, At, IInv, muVars, catalogueVars,
         TypeOK, LockInv
<1>12. CASE RUnlock(s)
  BY <1>12, NoSlotAssumption DEF RUnlock, Goto, At, IInv, muVars, catalogueVars, TypeOK,
         LockInv
<1>13. CASE Reply(s)
  BY <1>13, NoSlotAssumption DEF Reply, Goto, At, IInv, muVars, catalogueVars, TypeOK,
         LockInv
<1>14. CASE ReplyLost(s)
  BY <1>14, NoSlotAssumption DEF ReplyLost, Goto, At, IInv, muVars, catalogueVars,
         TypeOK, LockInv
<1>15. CASE RequestLost(s)
  BY <1>15, NoSlotAssumption DEF RequestLost, Goto, At, IInv, muVars, catalogueVars,
         TypeOK, LockInv
<1>16. CASE ClientTimeout(s)
  BY <1>16, NoSlotAssumption DEF ClientTimeout, At, IInv, muVars, catalogueVars, TypeOK,
         LockInv
<1>17. CASE Forget(s)
  BY <1>17, NoSlotAssumption DEF Forget, Goto, At, IInv, muVars, catalogueVars, TypeOK,
         LockInv
<1> QED
  BY <1>1, <1>2, <1>3, <1>4, <1>5, <1>6, <1>7, <1>8, <1>9, <1>10, <1>11, <1>12, <1>13,
         <1>14, <1>15, <1>16, <1>17 DEF Step, Handler

\* Every step keeps the calls consistent with their positions.
LEMMA CallStep ==
    ASSUME IInv, NEW s \in Slot, Step(s)
    PROVE  \A q \in Slot : CallOK(q)'
<1>0. /\ \A q \in Slot : CallOK(q)
      /\ pc = [q \in Slot |-> pc[q]] /\ op = [q \in Slot |-> op[q]]
      /\ result = [q \in Slot |-> result[q]] /\ answer = [q \in Slot |-> answer[q]]
  BY DEF IInv, TypeOK
<1>1. CASE \E o \in Op : Call(s, o)
  BY <1>0, <1>1 DEF Call, Goto, At, catalogueVars, CallOK
<1>2. CASE Receive(s)
  <2>1. op[s].method \in {"Set", "Delete", "List", "Malformed"}
    BY <1>2, OpAssumption DEF Receive, At, IInv, CallOK
  <2>2. ~Rejected(op[s]) => op[s].method # "Malformed"
    BY DEF Rejected
  <2>3. UNCHANGED <<tenants, op, answer>>
    BY <1>2 DEF Receive, catalogueVars
  <2>4. \A q \in Slot \ {s} : pc'[q] = pc[q] /\ result'[q] = result[q]
    BY <1>2 DEF Receive, Result, Goto, IInv, TypeOK
  <2>5. \/ pc'[s] = "reply" /\ result'[s].err = "ErrInvalidTenant"
        \/ ~Rejected(op[s]) /\ pc'[s] = "rlock" /\ op[s].method = "List" /\ result'[s] = result[s]
        \/ /\ ~Rejected(op[s]) /\ pc'[s] = "lock" /\ op[s].method \in {"Set", "Delete"}
           /\ result'[s] = result[s]
    BY <1>2, <2>1, <2>2 DEF Receive, Result, Goto, Res, IInv, TypeOK
  <2>6. pc[s] = "sent"
    BY <1>2 DEF Receive, At
  <2>7. CallOK(s)'
    BY <2>3, <2>5, <2>6, SMTT(30) DEF CallOK, IInv, Rejected, Err
  <2>8. \A q \in Slot \ {s} : CallOK(q)'
    BY <2>3, <2>4 DEF CallOK, IInv, Rejected
  <2> QED
    BY <2>7, <2>8
<1>3. CASE Lock(s)
  BY <1>0, <1>3 DEF Lock, Goto, At, catalogueVars, CallOK
<1>4. CASE Locked(s)
  BY <1>0, <1>4 DEF Locked, Goto, At, catalogueVars, CallOK
<1>5. CASE Check(s)
  <2>1. pc[s] = "check" /\ op[s].method \in {"Set", "Delete"} /\ CallOK(s)
    BY <1>5 DEF Check, At, IInv, CallOK
  <2>2. UNCHANGED <<tenants, op, answer>>
    BY <1>5 DEF Check, catalogueVars
  <2>3. \A q \in Slot \ {s} : pc'[q] = pc[q] /\ result'[q] = result[q]
    BY <1>5 DEF Check, Result, Goto, IInv, TypeOK
  <2>4. \/ pc'[s] = "write" /\ Lookup(s) = "write" /\ result'[s] = result[s]
        \/ pc'[s] = "unlock" /\ result'[s].err \in {"ErrDuplicate", "ErrNotFound"}
    BY <1>5, <2>1, LookupFacts DEF Check, ErrorExit, Result, Goto, Res, IInv, TypeOK
  <2>5. CallOK(s)'
    BY <2>1, <2>2, <2>4, LookupFacts DEF CallOK, Rejected, Err
  <2>6. \A q \in Slot \ {s} : CallOK(q)'
    BY <2>2, <2>3, SMTT(30) DEF CallOK, IInv, Rejected
  <2> QED
    BY <2>5, <2>6
<1>6. CASE Write(s)
  <2>1. pc[s] = "write" /\ UNCHANGED <<op, answer>>
    BY <1>6 DEF Write, At
  <2>2. \A q \in Slot \ {s} : pc[q] # "write"
    BY <2>1, NoSlotAssumption DEF IInv, LockInv
  <2>3. pc' = [pc EXCEPT ![s] = "unlock"] /\ result' = [result EXCEPT ![s] = Res("nil", {})]
    BY <1>6 DEF Write, Goto, Result
  <2>4. CallOK(s)'
    BY <1>0, <2>1, <2>3 DEF CallOK, Res, Err
  <2>5. \A q \in Slot \ {s} : CallOK(q)'
    BY <1>0, <2>1, <2>2, <2>3 DEF CallOK
  <2> QED
    BY <2>4, <2>5
<1>7. CASE Unlock(s)
  BY <1>0, <1>7 DEF Unlock, Goto, At, catalogueVars, CallOK
<1>8. CASE RLock(s)
  BY <1>0, <1>8 DEF RLock, Goto, At, catalogueVars, CallOK
<1>9. CASE ReadTenant(s)
  <2>1. pc[s] = "read" /\ op[s].method = "Get" /\ CallOK(s)
    BY <1>9 DEF ReadTenant, At, IInv
  <2>2. UNCHANGED <<tenants, op, answer>>
    BY <1>9 DEF ReadTenant, catalogueVars
  <2>3. \A q \in Slot \ {s} : pc'[q] = pc[q] /\ result'[q] = result[q]
    BY <1>9 DEF ReadTenant, Result, Goto, IInv, TypeOK
  <2>4. pc'[s] = "runlock" /\ result'[s].err \in {"nil", "ErrUnauthorized"}
    BY <1>9 DEF ReadTenant, Result, Goto, Res, IInv, TypeOK
  <2>5. CallOK(s)'
    BY <2>1, <2>2, <2>4, SMTT(30) DEF CallOK, Err
  <2>6. \A q \in Slot \ {s} : CallOK(q)'
    BY <2>2, <2>3, SMTT(30) DEF CallOK, IInv, Rejected
  <2> QED
    BY <2>5, <2>6
<1>10. CASE \E id \in DOMAIN tenants : ListNext(s, id)
  BY <1>0, <1>10 DEF ListNext, At, catalogueVars, CallOK
<1>11. CASE ListEnd(s)
  BY <1>0, <1>11 DEF ListEnd, Goto, Result, Res, Err, At, catalogueVars, CallOK
<1>12. CASE RUnlock(s)
  BY <1>0, <1>12 DEF RUnlock, Goto, At, catalogueVars, CallOK
<1>13. CASE Reply(s)
  BY <1>0, <1>13, ZenonT(60) DEF Reply, Goto, Remote, At, catalogueVars, CallOK
<1>14. CASE ReplyLost(s)
  BY <1>0, <1>14 DEF ReplyLost, Goto, At, catalogueVars, CallOK
<1>15. CASE RequestLost(s)
  BY <1>0, <1>15 DEF RequestLost, Goto, At, catalogueVars, CallOK
<1>16. CASE ClientTimeout(s)
  BY <1>0, <1>16 DEF ClientTimeout, At, catalogueVars, CallOK
<1>17. CASE Forget(s)
  BY <1>0, <1>17, ZenonT(60) DEF Forget, Goto, At, catalogueVars, CallOK
<1> QED
  BY <1>1, <1>2, <1>3, <1>4, <1>5, <1>6, <1>7, <1>8, <1>9, <1>10, <1>11, <1>12, <1>13,
         <1>14, <1>15, <1>16, <1>17 DEF Step, Handler

\* List only collects entries of the catalogue, and no writer gets in its way.
LEMMA ListStep ==
    ASSUME IInv, NEW s \in Slot, Step(s)
    PROVE  ListInv'
<1>0. /\ ListInv /\ CatalogueTypeOK
      /\ pc = [q \in Slot |-> pc[q]] /\ out = [q \in Slot |-> out[q]]
  BY DEF IInv, TypeOK
<1>1. CASE \E o \in Op : Call(s, o)
  BY <1>0, <1>1 DEF Call, Goto, At, catalogueVars, ListInv
<1>2. CASE Receive(s)
  BY <1>0, <1>2 DEF Receive, Goto, At, catalogueVars, ListInv
<1>3. CASE Lock(s)
  BY <1>0, <1>3 DEF Lock, Goto, At, catalogueVars, ListInv
<1>4. CASE Locked(s)
  BY <1>0, <1>4 DEF Locked, Goto, At, catalogueVars, ListInv
<1>5. CASE Check(s)
  BY <1>0, <1>5 DEF Check, Goto, ErrorExit, At, catalogueVars, ListInv
<1>6. CASE Write(s)
  <2>1. writer = s /\ readers = {}
    BY <1>6, NoSlotAssumption DEF Write, At, IInv, LockInv
  <2>2. \A q \in Slot : pc[q] # "read"
    BY <2>1 DEF IInv, LockInv
  <2>3. pc' = [pc EXCEPT ![s] = "unlock"] /\ out' = out /\ pc[s] = "write"
    BY <1>6 DEF Write, Goto, At
  <2> QED
    BY <2>2, <2>3 DEF IInv, ListInv, TypeOK
<1>7. CASE Unlock(s)
  BY <1>0, <1>7 DEF Unlock, Goto, At, catalogueVars, ListInv
<1>8. CASE RLock(s)
  BY <1>0, <1>8 DEF RLock, Goto, At, catalogueVars, ListInv
<1>9. CASE ReadTenant(s)
  BY <1>0, <1>9 DEF ReadTenant, Goto, At, catalogueVars, ListInv
<1>10. CASE \E id \in DOMAIN tenants : ListNext(s, id)
  BY <1>0, <1>10 DEF ListNext, CatalogueTypeOK, At, catalogueVars, ListInv
<1>11. CASE ListEnd(s)
  BY <1>0, <1>11 DEF ListEnd, Goto, At, catalogueVars, ListInv
<1>12. CASE RUnlock(s)
  BY <1>0, <1>12 DEF RUnlock, Goto, At, catalogueVars, ListInv
<1>13. CASE Reply(s)
  BY <1>0, <1>13 DEF Reply, Goto, At, catalogueVars, ListInv
<1>14. CASE ReplyLost(s)
  BY <1>0, <1>14 DEF ReplyLost, Goto, At, catalogueVars, ListInv
<1>15. CASE RequestLost(s)
  BY <1>0, <1>15 DEF RequestLost, Goto, At, catalogueVars, ListInv
<1>16. CASE ClientTimeout(s)
  BY <1>0, <1>16 DEF ClientTimeout, At, catalogueVars, ListInv
<1>17. CASE Forget(s)
  BY <1>0, <1>17, ZenonT(60) DEF Forget, Goto, At, catalogueVars, ListInv
<1> QED
  BY <1>1, <1>2, <1>3, <1>4, <1>5, <1>6, <1>7, <1>8, <1>9, <1>10, <1>11, <1>12, <1>13,
         <1>14, <1>15, <1>16, <1>17 DEF Step, Handler

\* A caller that is answered is told the result of its call.
LEMMA ReplyIsResult ==
    ASSUME IInv, NEW s \in Slot, Reply(s)
    PROVE  /\ answer' = [answer EXCEPT ![s] = result[s]]
           /\ result[s] \in [err : Err, out : SUBSET issued] /\ result[s] # NoRes
<1>0. /\ pc[s] = "reply" /\ CallOK(s)
      /\ result[s] \in {NoRes} \cup [err : Err, out : SUBSET issued]
  BY Zenon DEF Reply, At, IInv, TypeOK
<1>1. /\ result[s] \in [err : Err, out : SUBSET issued]
      /\ Remote(s) => result[s].err # "ErrUnauthorized"
  BY <1>0, SMTT(30) DEF CallOK, NoRes, Res, Err, Remote
<1>2. Remote(s) => mapClientErr(mapErr(result[s].err)) = result[s].err
  BY <1>1, CodesRoundTrip
<1>3. result[s] # NoRes
  BY <1>0, SMTT(30) DEF CallOK, NoRes, Res, Err
<1>4. result[s] = Res(result[s].err, result[s].out)
  BY <1>1, SMTT(30) DEF Res
<1> QED
  BY <1>1, <1>2, <1>3, <1>4, ZenonT(60) DEF Reply

\* The types that a write leaves alone.
LEMMA WriteTypes ==
    ASSUME IInv, NEW s \in Slot, Write(s), issued \subseteq issued', CatalogueTypeOK'
    PROVE  TypeOK'
<1>1. result' \in [Slot -> {NoRes} \cup [err : Err, out : SUBSET issued']]
  BY SMTT(30) DEF Write, Result, Res, Err, IInv, TypeOK
<1>2. answer' \in [Slot -> {NoRes, Unknown} \cup [err : Err, out : SUBSET issued']]
  BY SMTT(30) DEF Write, IInv, TypeOK
<1>3. pc' \in [Slot -> PC] /\ out' \in [Slot -> SUBSET issued']
  BY DEF Write, Goto, PC, IInv, TypeOK
<1> QED
  BY <1>1, <1>2, <1>3, SMTT(30) DEF Write, IInv, TypeOK, muVars

\* Types.
LEMMA TypeStep ==
    ASSUME IInv, NEW s \in Slot, Step(s)
    PROVE  TypeOK'
<1>0. TypeOK /\ (UNCHANGED catalogueVars => CatalogueTypeOK')
  BY DEF IInv, TypeOK, CatalogueTypeOK, catalogueVars
<1>1. CASE \E o \in Op : Call(s, o)
  BY <1>0, <1>1 DEF Call, Goto, PC, TypeOK, catalogueVars, muVars
<1>2. CASE Receive(s)
  <2>1. Res("ErrInvalidTenant", {}) \in [err : Err, out : SUBSET issued]
    BY DEF Res, Err
  <2> QED
    BY <1>0, <1>2, <2>1 DEF Receive, Result, Goto, PC, TypeOK, catalogueVars, muVars
<1>3. CASE Lock(s)
  BY <1>0, <1>3 DEF Lock, Goto, PC, TypeOK, catalogueVars, muVars
<1>4. CASE Locked(s)
  BY <1>0, <1>4 DEF Locked, Goto, PC, TypeOK, catalogueVars, muVars
<1>5. CASE Check(s)
  <2>1. op[s].method \in {"Set", "Delete"}
    BY <1>5 DEF Check, At, IInv, CallOK
  <2>2. Lookup(s) # "write" => Lookup(s) \in Err
    BY <2>1, LookupFacts, SMTT(30) DEF Err
  <2>3. result' \in [Slot -> {NoRes} \cup [err : Err, out : SUBSET issued]]
    BY <1>5, <2>2 DEF Check, Result, Res, IInv, TypeOK
  <2>4. pc' \in [Slot -> PC]
    BY <1>5 DEF Check, Goto, ErrorExit, IInv, TypeOK, PC
  <2> QED
    BY <1>0, <1>5, <2>3, <2>4 DEF Check, TypeOK, muVars, catalogueVars
<1>6. CASE Write(s)
  <2> DEFINE t == op[s].tenant
  <2>1. /\ op[s] \in Op /\ op[s].method \in {"Set", "Delete"} /\ ~Rejected(op[s])
    BY <1>6 DEF Write, At, IInv, CallOK
  <2>2. op[s].method = "Set" => t \in ValidTenant /\ t.ID \in UserID
    BY <2>1, OpAssumption DEF Rejected, ValidTenant, Tenant
  <2>3. issued \subseteq issued' /\ issued' \subseteq ValidTenant
    BY <1>6, <2>2 DEF Write, IInv, TypeOK, CatalogueTypeOK
  <2>4. PICK ids \in SUBSET UserID : tenants \in [ids -> ValidTenant]
    BY DEF IInv, TypeOK, CatalogueTypeOK
  <2>5. ASSUME op[s].method = "Set" PROVE CatalogueTypeOK'
    <3>1. tenants' \in [ids \cup {t.ID} -> ValidTenant] /\ ids \cup {t.ID} \in SUBSET UserID
      BY <1>6, <2>2, <2>4, <2>5 DEF Write
    <3>2. \A id \in DOMAIN tenants' : tenants'[id].ID = id /\ tenants'[id] \in issued'
      BY <1>6, <2>4, <2>5 DEF Write, IInv, TypeOK, CatalogueTypeOK
    <3> QED
      BY <2>3, <3>1, <3>2, SMTT(30) DEF CatalogueTypeOK
  <2>6. ASSUME op[s].method = "Delete" PROVE CatalogueTypeOK'
    <3>1. tenants' \in [ids \ {t.ID} -> ValidTenant] /\ ids \ {t.ID} \in SUBSET UserID
      BY <1>6, <2>4, <2>6 DEF Write
    <3>2. \A id \in DOMAIN tenants' : tenants'[id].ID = id /\ tenants'[id] \in issued'
      BY <1>6, <2>4, <2>6, SMTT(30) DEF Write, IInv, TypeOK, CatalogueTypeOK
    <3> QED
      BY <2>3, <3>1, <3>2, SMTT(30) DEF CatalogueTypeOK
  <2> QED
    BY <1>6, <2>1, <2>3, <2>5, <2>6, WriteTypes, SMTT(30)
<1>7. CASE Unlock(s)
  BY <1>0, <1>7 DEF Unlock, Goto, PC, TypeOK, catalogueVars, muVars
<1>8. CASE RLock(s)
  BY <1>0, <1>8 DEF RLock, Goto, PC, TypeOK, catalogueVars, muVars
<1>9. CASE ReadTenant(s)
  <2>1. op[s].tenant.ID \in DOMAIN tenants => Get(op[s].tenant.ID) \in issued
    BY SMTT(30) DEF Get, IInv, TypeOK, CatalogueTypeOK
  <2>2. result' \in [Slot -> {NoRes} \cup [err : Err, out : SUBSET issued]]
    BY <1>9, <2>1 DEF ReadTenant, Known, Result, Res, Err, IInv, TypeOK
  <2>3. pc' \in [Slot -> PC]
    BY <1>9, SMTT(30) DEF ReadTenant, Goto, IInv, TypeOK, PC
  <2> QED
    BY <1>9, <2>2, <2>3, SMTT(30) DEF ReadTenant, IInv, TypeOK, CatalogueTypeOK, muVars,
           catalogueVars
<1>10. CASE \E id \in DOMAIN tenants : ListNext(s, id)
  <2>1. \A id \in DOMAIN tenants : tenants[id] \in issued
    BY <1>0, SMTT(30) DEF TypeOK, CatalogueTypeOK
  <2> QED
    BY <1>0, <1>10, <2>1 DEF ListNext, TypeOK, catalogueVars, muVars
<1>11. CASE ListEnd(s)
  <2>1. Res("nil", out[s]) \in [err : Err, out : SUBSET issued]
    BY <1>0, SMTT(30) DEF Res, Err, TypeOK
  <2> QED
    BY <1>0, <1>11, <2>1 DEF ListEnd, Result, Goto, PC, TypeOK, catalogueVars, muVars
<1>12. CASE RUnlock(s)
  BY <1>0, <1>12 DEF RUnlock, Goto, PC, TypeOK, catalogueVars, muVars
<1>13. CASE Reply(s)
  <2>1. /\ answer' = [answer EXCEPT ![s] = result[s]]
        /\ result[s] \in [err : Err, out : SUBSET issued]
    BY <1>13, ReplyIsResult, Zenon
  <2>2. pc' \in [Slot -> PC]
    BY <1>13, SMTT(30) DEF Reply, Goto, IInv, TypeOK, PC
  <2> QED
    BY <1>13, <2>1, <2>2, ZenonT(60) DEF Reply, IInv, TypeOK, CatalogueTypeOK, muVars,
           catalogueVars
<1>14. CASE ReplyLost(s)
  BY <1>0, <1>14 DEF ReplyLost, Goto, PC, TypeOK, catalogueVars, muVars
<1>15. CASE RequestLost(s)
  BY <1>0, <1>15 DEF RequestLost, Goto, PC, TypeOK, catalogueVars, muVars
<1>16. CASE ClientTimeout(s)
  BY <1>0, <1>16 DEF ClientTimeout, TypeOK, catalogueVars, muVars
<1>17. CASE Forget(s)
  BY <1>0, <1>17 DEF Forget, Goto, PC, TypeOK, catalogueVars, muVars
<1> QED
  BY <1>1, <1>2, <1>3, <1>4, <1>5, <1>6, <1>7, <1>8, <1>9, <1>10, <1>11, <1>12, <1>13,
         <1>14, <1>15, <1>16, <1>17, SMTT(30) DEF Step, Handler

-----------------------------------------------------------------------------
(* The refinement.                                                         *)

\* A step in which a call gets its result is the effect of that call.
LEMMA Applied ==
    ASSUME NEW s \in Slot, NEW res \in [err : Err, out : SUBSET issued],
           result[s] = NoRes, result' = [result EXCEPT ![s] = res],
           Atomic!Effect(s, res), UNCHANGED <<op, answer>>
    PROVE  Atomic!Next
<1>1. Atomic!Apply(s)
  BY ZenonT(60) DEF Atomic!Apply, Atomic!NoRes, Atomic!Res, NoRes, Res, Err
<1> QED
  BY <1>1 DEF Atomic!Next

\* Every step of a call is a step of the atomic catalogue or changes nothing that
\* its callers can see.
LEMMA RefinementStep ==
    ASSUME IInv, NEW s \in Slot, Step(s)
    PROVE  Atomic!Next \/ UNCHANGED Atomic!vars
<1> USE DEF Atomic!vars, Atomic!callVars, Atomic!catalogueVars, catalogueVars
<1>1. CASE \E o \in Op : Call(s, o)
  <2>1. PICK o \in Op : Call(s, o)
    BY <1>1
  <2>2. Atomic!Call(s, o)
    BY <2>1 DEF Call, Atomic!Call, NoOp, Atomic!NoOp, ZeroTenant, Atomic!ZeroTenant
  <2> QED
    BY <2>2 DEF Atomic!Next
<1>2. CASE Receive(s)
  <2>1. CASE Rejected(op[s])
    <3>1. Atomic!Effect(s, Res("ErrInvalidTenant", {}))
      BY <1>2, <2>1, ZenonT(60) DEF Receive, Rejected, Atomic!Effect, Atomic!Unchanged,
             Atomic!Res, Res,
             validateTenant, Atomic!validateTenant
    <3>2. /\ result[s] = NoRes /\ UNCHANGED <<op, answer>>
          /\ result' = [result EXCEPT ![s] = Res("ErrInvalidTenant", {})]
      BY <1>2, <2>1 DEF Receive, Result, At, IInv, CallOK
    <3> QED
      BY <3>1, <3>2, Applied, ZenonT(60) DEF Res, Err
  <2>2. CASE ~Rejected(op[s])
    BY <1>2, <2>2, ZenonT(60) DEF Receive
  <2> QED
    BY <2>1, <2>2
<1>3. CASE Check(s)
  <2>1. /\ op[s].method \in {"Set", "Delete"} /\ ~Rejected(op[s]) /\ result[s] = NoRes
        /\ UNCHANGED <<catalogueVars, op, answer>>
    BY <1>3, Zenon DEF Check, At, IInv, CallOK
  <2>2. CASE Lookup(s) # "write"
    <3>1. Atomic!Effect(s, Res(Lookup(s), {}))
      BY <2>1, <2>2, LookupFacts, ZenonT(60) DEF Rejected, Atomic!Effect, Atomic!Unchanged,
             Atomic!Res, Res,
             validateTenant, Atomic!validateTenant
    <3>2. result' = [result EXCEPT ![s] = Res(Lookup(s), {})]
      BY <1>3, <2>2, SMTT(30) DEF Check, Result
    <3>3. Res(Lookup(s), {}) \in [err : Err, out : SUBSET issued]
      BY <2>1, <2>2, LookupFacts DEF Res, Err
    <3> QED
      BY <2>1, <3>1, <3>2, <3>3, Applied, ZenonT(60)
  <2>3. CASE Lookup(s) = "write"
    BY <1>3, <2>3 DEF Check
  <2> QED
    BY <2>2, <2>3, Zenon
<1>4. CASE Write(s)
  <2>1. /\ op[s].method \in {"Set", "Delete"} /\ ~Rejected(op[s]) /\ result[s] = NoRes
        /\ op[s].method = "Set" <=> op[s].tenant.ID \notin DOMAIN tenants
        /\ UNCHANGED <<op, answer>>
    BY <1>4, ZenonT(60) DEF Write, At, IInv, CallOK
  <2>2. Atomic!Effect(s, OK)
    BY <1>4, <2>1, ZenonT(60) DEF Write, Rejected, OK, Res, Atomic!Effect, Atomic!OK, Atomic!Res,
           Atomic!Set,
           Atomic!Delete, validateTenant, Atomic!validateTenant
  <2>3. result' = [result EXCEPT ![s] = OK] /\ OK \in [err : Err, out : SUBSET issued]
    BY <1>4, ZenonT(60) DEF Write, Result, OK, Res, Err
  <2> QED
    BY <2>1, <2>2, <2>3, Applied, ZenonT(60)
<1>5. CASE ReadTenant(s)
  <2> DEFINE res == IF Known(s) THEN Res("nil", {Get(op[s].tenant.ID)})
                                ELSE Res("ErrUnauthorized", {})
  <2>1. /\ op[s].method = "Get" /\ result[s] = NoRes /\ UNCHANGED <<catalogueVars, op, answer>>
        /\ result' = [result EXCEPT ![s] = res]
    BY <1>5, ZenonT(60) DEF ReadTenant, Result, At, IInv, CallOK
  <2>2. Atomic!Effect(s, res)
    BY <2>1, ZenonT(60) DEF Known, Get, Res, Atomic!Effect, Atomic!Unchanged, Atomic!Res, Atomic!Get
  <2>3. res \in [err : Err, out : SUBSET issued]
    <3>1. Known(s) => Get(op[s].tenant.ID) \in issued
      BY Zenon DEF Known, Get, IInv, TypeOK, CatalogueTypeOK
    <3> QED
      BY <3>1 DEF Res, Err
  <2> QED
    BY <2>1, <2>2, <2>3, Applied, ZenonT(60)
<1>6. CASE ListEnd(s)
  <2>1. /\ op[s].method = "List" /\ result[s] = NoRes /\ UNCHANGED <<catalogueVars, op, answer>>
        /\ result' = [result EXCEPT ![s] = Res("nil", out[s])]
    BY <1>6, ZenonT(60) DEF ListEnd, Result, At, IInv, CallOK
  <2>2. out[s] = {tenants[id] : id \in DOMAIN tenants}
    <3>1. \A t \in out[s] : t.ID \in DOMAIN tenants /\ tenants[t.ID] = t
      BY <1>6 DEF ListEnd, At, IInv, ListInv
    <3>2. \A id \in DOMAIN tenants : \E t \in out[s] : t.ID = id
      BY <1>6, ZenonT(60) DEF ListEnd
    <3> QED
      BY <3>1, <3>2, SMTT(30)
  <2>3. Atomic!Effect(s, Res("nil", out[s]))
    BY <2>1, <2>2, ZenonT(60) DEF Res, Atomic!Effect, Atomic!Unchanged, Atomic!Res
  <2>4. Res("nil", out[s]) \in [err : Err, out : SUBSET issued]
    BY DEF Res, Err, IInv, TypeOK
  <2> QED
    BY <2>1, <2>3, <2>4, Applied, ZenonT(60)
<1>7. CASE Reply(s)
  <2>1. result[s] # NoRes
    BY <1>7, ReplyIsResult, ZenonT(60)
  <2>2. Atomic!Answer(s)
    BY <1>7, <2>1, ReplyIsResult, ZenonT(60) DEF Reply, Atomic!Answer, Atomic!NoRes, Atomic!Res,
           NoRes, Res
  <2> QED
    BY <2>2, ZenonT(60) DEF Atomic!Next
<1>8. CASE ClientTimeout(s)
  <2>1. Atomic!GiveUp(s)
    BY <1>8, ZenonT(60) DEF ClientTimeout, Atomic!GiveUp, Atomic!NoOp, NoOp, Atomic!NoRes, NoRes,
           Atomic!Unknown,
           Unknown, Atomic!Res, Res, ZeroTenant, Atomic!ZeroTenant
  <2> QED
    BY <2>1, ZenonT(60) DEF Atomic!Next
<1>9. CASE Forget(s)
  <2>1. Atomic!Forget(s)
    BY <1>9, ZenonT(60) DEF Forget, Atomic!Forget, Atomic!NoOp, NoOp, Atomic!NoRes, NoRes,
           Atomic!Res, Res,
           ZeroTenant, Atomic!ZeroTenant
  <2> QED
    BY <2>1, Zenon DEF Atomic!Next
<1>10. CASE Lock(s) \/ Locked(s) \/ Unlock(s) \/ RLock(s) \/ RUnlock(s) \/ RequestLost(s)
            \/ ReplyLost(s) \/ \E id \in DOMAIN tenants : ListNext(s, id)
  BY <1>10, ZenonT(60) DEF Lock, Locked, Unlock, RLock, RUnlock, RequestLost, ReplyLost, ListNext
<1> QED
  BY <1>1, <1>2, <1>3, <1>4, <1>5, <1>6, <1>7, <1>8, <1>9, <1>10 DEF Step, Handler

-----------------------------------------------------------------------------
\* The invariant holds when the catalogue has been loaded from the configuration.
LEMMA InitInv == Init => IInv
<1> SUFFICES ASSUME Init PROVE IInv
  OBVIOUS
<1>1. CatalogueTypeOK
  BY SMTT(30) DEF Init, CatalogueInit, newMemoryResolver, CatalogueTypeOK
<1>2. TypeOK
  BY <1>1, ZenonT(60) DEF Init, TypeOK, PC, NoOp, NoRes, Res
<1>3. LockInv /\ ListInv
  BY NoSlotAssumption, ZenonT(60) DEF Init, LockInv, ListInv
<1>4. \A s \in Slot : CallOK(s)
  BY ZenonT(60) DEF Init, CallOK
<1> QED
  BY <1>2, <1>3, <1>4 DEF IInv

\* Every step of the system, and every stuttering step, keeps the invariant.
LEMMA NextInv == IInv /\ [Next]_vars => IInv'
<1> SUFFICES ASSUME IInv, [Next]_vars PROVE IInv'
  OBVIOUS
<1>1. CASE Next
  <2>1. PICK s \in Slot : Step(s)
    BY <1>1, Zenon DEF Next, Step
  <2> QED
    BY <2>1, TypeStep, LockStep, CallStep, ListStep DEF IInv
<1>2. CASE UNCHANGED vars
  BY <1>2, ZenonT(60) DEF vars, muVars, catalogueVars, IInv, TypeOK, CatalogueTypeOK, LockInv,
         ListInv, CallOK,
         Rejected
<1> QED
  BY <1>1, <1>2

\* The types of the catalogue, the calls and the lock, for any number of calls.
THEOREM TypeCorrect == Spec => []TypeOK
<1>1. IInv => TypeOK
  BY DEF IInv
<1> QED
  BY InitInv, NextInv, <1>1, PTL DEF Spec

\* The methods of memoryResolver behind the admin service implement the atomic catalogue:
\* whatever the interleaving, each call takes effect at one moment, and whoever is
\* answered is told what happened at that moment.
THEOREM CallsRefine == Spec => CallsAreAtomic
<1>1. Init => Atomic!Init
  BY ZenonT(60) DEF Init, Atomic!Init, CatalogueInit, Atomic!CatalogueInit, newMemoryResolver,
         Atomic!newMemoryResolver, ValidTenant, Atomic!ValidTenant, Tenant, Atomic!Tenant,
         validateTenant, Atomic!validateTenant, NoOp, Atomic!NoOp, NoRes, Atomic!NoRes, Res,
         Atomic!Res, ZeroTenant, Atomic!ZeroTenant
<1>2. IInv /\ [Next]_vars => [Atomic!Next]_(Atomic!vars)
  <2> SUFFICES ASSUME IInv, [Next]_vars PROVE [Atomic!Next]_(Atomic!vars)
    OBVIOUS
  <2>1. CASE Next
    <3>1. PICK s \in Slot : Step(s)
      BY <2>1 DEF Next, Step
    <3> QED
      BY <3>1, RefinementStep
  <2>2. CASE UNCHANGED vars
    BY <2>2 DEF vars, catalogueVars, Atomic!vars, Atomic!catalogueVars, Atomic!callVars
  <2> QED
    BY <2>1, <2>2
<1> QED
  BY InitInv, NextInv, <1>1, <1>2, PTL DEF Spec, CallsAreAtomic, Atomic!Spec

\* Set never overwrites: a record in the catalogue stays as it is until it is deleted,
\* whatever calls run beside each other.
THEOREM RecordsNeverChange == Spec => RecordsAreImmutable
<1> DEFINE Kept == \A id \in DOMAIN tenants \cap DOMAIN tenants' : tenants'[id] = tenants[id]
<1>1. IInv /\ [Next]_vars => [Kept]_vars
  <2> SUFFICES ASSUME IInv, Next PROVE Kept
    OBVIOUS
  <2>1. PICK s \in Slot : Step(s)
    BY Zenon DEF Next, Step
  <2>2. CASE Write(s)
    <3>1. op[s].method = "Set" => op[s].tenant.ID \notin DOMAIN tenants
      BY <2>2, ZenonT(60) DEF Write, At, IInv, CallOK
    <3> QED
      BY <2>2, <3>1, ZenonT(60) DEF Write
  <2>3. CASE ~Write(s)
    <3>1. UNCHANGED tenants
      BY <2>1, <2>3, ZenonT(60) DEF Step, Handler, Call, Receive, Lock, Locked, Check, Unlock,
             RLock, ReadTenant,
             ListNext, ListEnd, RUnlock, Reply, ReplyLost, RequestLost, ClientTimeout, Forget,
             catalogueVars
    <3> QED
      BY <3>1, Zenon
  <2> QED
    BY <2>2, <2>3
<1> QED
  BY InitInv, NextInv, <1>1, PTL DEF Spec, RecordsAreImmutable

-----------------------------------------------------------------------------
(* Startup.                                                                *)

\* The table f and the set h hold exactly the tenants of a list in which no id occurs twice.
Filed(ts, f, h) ==
    /\ \A i \in DOMAIN ts : validateTenant(ts[i])
    /\ \A i, j \in DOMAIN ts : ts[i].ID = ts[j].ID => i = j
    /\ f = [id \in DOMAIN f |-> f[id]]
    /\ DOMAIN f = {ts[i].ID : i \in DOMAIN ts}
    /\ \A i \in DOMAIN ts : f[ts[i].ID] = ts[i]
    /\ h = {ts[i] : i \in DOMAIN ts}

\* A line of the file, with the shared upstream where it has none.
WithUpstream(t, b) == [t EXCEPT !.Upstream = IF @ = "empty" THEN b ELSE @]

\* The configuration changes once, is used only if it is valid, and only a tenant named
\* twice stops it there.
StartupInv ==
    /\ file \in Config
    /\ phase # "failed" => cause = "none"
    /\ phase = "load" => cfg = file
    /\ phase \in {"resolver", "tls", "running"} \/ cause = "resolver" =>
          cfg.tenants = upstreamDefault(file) /\ file.bootstrap # "empty"
    /\ phase = "resolver" => validateMemoryResolver(cfg)
    /\ cause = "resolver" => duplicates(cfg.tenants)
    /\ phase \in {"tls", "running"} => Filed(cfg.tenants, tenants, issued)

-----------------------------------------------------------------------------
\* The lines after applyDefaults: where the shared address is there, so is every upstream.
LEMMA DefaultFacts ==
    ASSUME NEW c \in Config
    PROVE  /\ DOMAIN c.tenants = 1 .. Len(c.tenants) /\ Len(c.tenants) \in Nat
           /\ DOMAIN upstreamDefault(c) = DOMAIN c.tenants
           /\ \A i \in DOMAIN c.tenants :
                 /\ upstreamDefault(c)[i] \in Tenant
                 /\ upstreamDefault(c)[i] = WithUpstream(c.tenants[i], c.bootstrap)
                 /\ upstreamDefault(c)[i].ID = c.tenants[i].ID
                 /\ c.bootstrap # "empty" => upstreamDefault(c)[i].Upstream # "empty"
<1>1. c.tenants \in Seq(Tenant) /\ c.bootstrap \in Addr
  BY ConfigAssumption
<1>2. \A t \in Tenant :
         /\ WithUpstream(t, c.bootstrap) =
                IF t.Upstream = "empty" THEN [t EXCEPT !.Upstream = c.bootstrap] ELSE t
         /\ WithUpstream(t, c.bootstrap) \in Tenant
         /\ WithUpstream(t, c.bootstrap).ID = t.ID
         /\ c.bootstrap # "empty" => WithUpstream(t, c.bootstrap).Upstream # "empty"
  BY <1>1 DEF Tenant, WithUpstream
<1>3. /\ DOMAIN upstreamDefault(c) = DOMAIN c.tenants
      /\ \A i \in DOMAIN c.tenants :
            /\ c.tenants[i] \in Tenant
            /\ upstreamDefault(c)[i] =
                 IF c.tenants[i].Upstream = "empty"
                 THEN [c.tenants[i] EXCEPT !.Upstream = c.bootstrap] ELSE c.tenants[i]
  BY <1>1 DEF upstreamDefault
<1>4. \A i \in DOMAIN c.tenants :
         /\ upstreamDefault(c)[i] \in Tenant
         /\ upstreamDefault(c)[i] = WithUpstream(c.tenants[i], c.bootstrap)
         /\ upstreamDefault(c)[i].ID = c.tenants[i].ID
         /\ c.bootstrap # "empty" => upstreamDefault(c)[i].Upstream # "empty"
  <2> SUFFICES ASSUME NEW i \in DOMAIN c.tenants
               PROVE  /\ upstreamDefault(c)[i] \in Tenant
                      /\ upstreamDefault(c)[i] = WithUpstream(c.tenants[i], c.bootstrap)
                      /\ upstreamDefault(c)[i].ID = c.tenants[i].ID
                      /\ c.bootstrap # "empty" => upstreamDefault(c)[i].Upstream # "empty"
    OBVIOUS
  <2>1. c.tenants[i] \in Tenant
    BY <1>3, Zenon
  <2>2. upstreamDefault(c)[i] = WithUpstream(c.tenants[i], c.bootstrap)
    BY <1>2, <1>3, <2>1, Zenon
  <2> QED
    BY <1>2, <2>1, <2>2, ZenonT(60)
<1>5. DOMAIN c.tenants = 1 .. Len(c.tenants) /\ Len(c.tenants) \in Nat
  BY <1>1
<1> QED
  BY <1>3, <1>4, <1>5, Zenon

\* What Load passes on.
LEMMA LoadFacts ==
    ASSUME NEW c \in Config
    PROVE  LET d == applyDefaults(c)
           IN  /\ d.tenants = upstreamDefault(c)
               /\ validate(d) => validateMemoryResolver(d) /\ c.bootstrap # "empty"
<1>1. /\ c = [x \in DOMAIN c |-> c[x]]
      /\ {"tenants", "type", "adminListen", "bootstrap"} \subseteq DOMAIN c
  BY ConfigAssumption
<1>2. applyDefaults(c).tenants = upstreamDefault(c) /\ applyDefaults(c).bootstrap = c.bootstrap
  BY <1>1, Zenon DEF applyDefaults
<1> QED
  BY <1>2, Zenon DEF validate

\* The process starts with the file as it was read.
LEMMA StartupInitInv == StartupInit => StartupInv
  BY Zenon DEF StartupInit, StartupInv

\* Load fills in the defaults before it validates, so that what it accepts has an address
\* for every tenant.
LEMMA LoadInv ==
    ASSUME StartupInv, Load
    PROVE  StartupInv'
<1>1. file \in Config /\ cfg = file /\ cause' # "resolver" /\ phase' \in {"failed", "resolver"}
  BY DEF Load, Fail, StartupInv
<1> QED
  BY <1>1, LoadFacts, Zenon DEF Load, Fail, StartupInv

\* The list has what Filed asks for, once validateTenant and duplicates have passed it.
LEMMA NewResolverInv ==
    ASSUME StartupInv, NewResolver
    PROVE  StartupInv'
<1> DEFINE ts == cfg.tenants
           ids == {ts[i].ID : i \in DOMAIN ts}
           last(id) == CHOOSE i \in DOMAIN ts :
                           ts[i].ID = id /\ \A j \in DOMAIN ts : ts[j].ID = id => j <= i
           ok == (\A i \in DOMAIN ts : validateTenant(ts[i])) /\ ~duplicates(ts)
<1>1. /\ file \in Config /\ file' = file /\ cfg' = cfg /\ phase = "resolver" /\ cause = "none"
      /\ ts = upstreamDefault(file) /\ file.bootstrap # "empty" /\ validateMemoryResolver(cfg)
  BY Zenon DEF NewResolver, StartupInv
<1>2. /\ DOMAIN ts = 1 .. Len(file.tenants) /\ Len(file.tenants) \in Nat
      /\ \A i \in DOMAIN ts : ts[i].Upstream # "empty"
  BY <1>1, DefaultFacts, Zenon
<1>3. \A i \in DOMAIN ts : validateTenant(ts[i])
  BY <1>1, <1>2, Zenon DEF validateMemoryResolver, validateTenant
<1>4. CASE duplicates(ts)
  <2>1. phase' = "failed" /\ cause' = "resolver"
    BY <1>4, Zenon DEF NewResolver, Fail
  <2> QED
    BY <1>1, <1>4, <2>1, Zenon DEF StartupInv
<1>5. CASE ~duplicates(ts)
  <2>1. /\ phase' = "tls" /\ cause' = cause
        /\ tenants' = [id \in ids |-> ts[last(id)]]
        /\ issued' = {ts[i] : i \in DOMAIN ts}
    BY <1>3, <1>5, Zenon DEF NewResolver
  <2>2. \A i, j \in DOMAIN ts : ts[i].ID = ts[j].ID => i = j
    BY <1>2, <1>5 DEF duplicates
  <2>3. \A i \in DOMAIN ts : last(ts[i].ID) = i
    <3>1. SUFFICES ASSUME NEW i \in DOMAIN ts
                   PROVE  last(ts[i].ID) = i
      OBVIOUS
    <3>2. i <= i
      BY <1>2
    <3>3. \A k \in DOMAIN ts :
             (ts[k].ID = ts[i].ID /\ \A j \in DOMAIN ts : ts[j].ID = ts[i].ID => j <= k) <=> k = i
      BY <2>2, <3>2, Zenon
    <3> QED
      BY <3>3, Zenon
  <2>4. Filed(ts, tenants', issued')
    <3>1. /\ DOMAIN tenants' = ids
          /\ tenants' = [id \in DOMAIN tenants' |-> tenants'[id]]
      BY <2>1
    <3>2. \A i \in DOMAIN ts : tenants'[ts[i].ID] = ts[i]
      <4> SUFFICES ASSUME NEW i \in DOMAIN ts
                   PROVE  tenants'[ts[i].ID] = ts[i]
        OBVIOUS
      <4>1. ts[i].ID \in ids
        OBVIOUS
      <4>2. tenants'[ts[i].ID] = ts[last(ts[i].ID)]
        BY <2>1, <4>1, Zenon
      <4> QED
        BY <2>3, <4>2, Zenon
    <3> QED
      BY <1>3, <2>1, <2>2, <3>1, <3>2, ZenonT(60) DEF Filed
  <2> QED
    BY <1>1, <2>1, <2>4, Zenon DEF StartupInv
<1> QED
  BY <1>4, <1>5

\* BuildTLS and the end change no more than the phase.
LEMMA LaterInv ==
    ASSUME StartupInv, BuildTLS \/ UNCHANGED startupVars
    PROVE  StartupInv'
<1>1. UNCHANGED <<tenants, issued, file, cfg>>
  BY Zenon DEF BuildTLS, startupVars, catalogueVars
<1>2. Filed(cfg.tenants, tenants, issued) => Filed(cfg.tenants, tenants, issued)'
  BY <1>1, Zenon
<1>3. CASE UNCHANGED startupVars
  BY <1>1, <1>2, <1>3, Zenon DEF startupVars, StartupInv
<1>4. CASE BuildTLS
  <2>1. /\ phase = "tls"
        /\ \/ phase' = "running" /\ cause' = cause
           \/ phase' = "failed" /\ cause' = "tls"
    BY <1>4 DEF BuildTLS, Fail
  <2> QED
    BY <1>1, <1>2, <2>1, Zenon DEF StartupInv
<1> QED
  BY <1>3, <1>4

\* The inductive invariant of Startup.
THEOREM StartupInvariance == StartupSpec => []StartupInv
<1>1. StartupInv /\ [StartupNext]_startupVars => StartupInv'
  BY LoadInv, NewResolverInv, LaterInv, Zenon DEF StartupNext, Over
<1> QED
  BY <1>1, StartupInitInv, PTL DEF StartupSpec

\* A file that config.Load accepts is refused by newMemoryResolver only for a tenant that it
\* names twice, however many tenants it has.
THEOREM AcceptedStarts == StartupSpec => []AcceptedConfigStarts
<1>1. StartupInv => AcceptedConfigStarts
  <2> SUFFICES ASSUME StartupInv, cause = "resolver"
               PROVE  \E i, j \in DOMAIN file.tenants :
                          i # j /\ file.tenants[i].ID = file.tenants[j].ID
    BY Zenon DEF AcceptedConfigStarts
  <2>1. file \in Config /\ cfg.tenants = upstreamDefault(file) /\ duplicates(cfg.tenants)
    BY Zenon DEF StartupInv
  <2>2. /\ DOMAIN upstreamDefault(file) = DOMAIN file.tenants
        /\ DOMAIN file.tenants = 1 .. Len(file.tenants) /\ Len(file.tenants) \in Nat
        /\ \A i \in DOMAIN file.tenants : upstreamDefault(file)[i].ID = file.tenants[i].ID
    BY <2>1, DefaultFacts, Zenon
  <2> QED
    BY <2>1, <2>2 DEF duplicates
<1> QED
  BY <1>1, StartupInvariance, PTL

\* The servers start with a catalogue that holds each line of the file, defaulted, under its
\* id and nothing else: an initial catalogue of Session and AdminRPC.
THEOREM CatalogueAsWritten == StartupSpec => []CatalogueIsAsWritten
<1>1. StartupInv => CatalogueIsAsWritten
  <2> SUFFICES ASSUME StartupInv, phase = "running"
               PROVE  CatalogueIsAsWritten
    BY Zenon DEF CatalogueIsAsWritten
  <2> DEFINE ts == cfg.tenants
  <2>1. file \in Config /\ ts = upstreamDefault(file) /\ Filed(ts, tenants, issued)
    BY Zenon DEF StartupInv
  <2>2. /\ DOMAIN ts = DOMAIN file.tenants
        /\ DOMAIN file.tenants = 1 .. Len(file.tenants) /\ Len(file.tenants) \in Nat
        /\ \A i \in DOMAIN ts :
              /\ ts[i] \in Tenant
              /\ ts[i].ID = file.tenants[i].ID
              /\ ts[i] = WithUpstream(file.tenants[i], file.bootstrap)
    BY <2>1, DefaultFacts, Zenon
  <2>3. /\ DOMAIN tenants = {file.tenants[i].ID : i \in DOMAIN file.tenants}
        /\ \A i, j \in DOMAIN file.tenants : file.tenants[i].ID = file.tenants[j].ID => i = j
    <3>1. /\ DOMAIN tenants = {ts[i].ID : i \in DOMAIN ts}
          /\ \A i, j \in DOMAIN ts : ts[i].ID = ts[j].ID => i = j
      BY <2>1, Zenon DEF Filed
    <3>2. DOMAIN ts = DOMAIN file.tenants /\ \A i \in DOMAIN ts : ts[i].ID = file.tenants[i].ID
      BY <2>2, Zenon
    <3> HIDE DEF ts
    <3>3. {ts[i].ID : i \in DOMAIN ts} = {file.tenants[i].ID : i \in DOMAIN file.tenants}
      BY <3>2
    <3> QED
      BY <3>1, <3>2, <3>3
  <2>4. \A i \in DOMAIN ts : ts[i] \in ValidTenant /\ ts[i].ID \in UserID
    <3>1. \A t \in Tenant : t.ID \in UserID
      BY DEF Tenant
    <3> QED
      BY <2>1, <2>2, <3>1, Zenon DEF Filed, ValidTenant
  <2>5. /\ DOMAIN tenants \subseteq UserID
        /\ tenants \in [DOMAIN tenants -> ValidTenant]
        /\ \A id \in DOMAIN tenants : tenants[id].ID = id /\ tenants[id] \in issued
        /\ issued \subseteq ValidTenant
        /\ issued = {tenants[id] : id \in DOMAIN tenants}
    BY <2>1, <2>4 DEF Filed
  <2>6. CatalogueTypeOK /\ CatalogueInit
    BY <2>5, Zenon DEF CatalogueTypeOK, CatalogueInit, newMemoryResolver
  <2>7. \A i \in DOMAIN file.tenants :
           tenants[file.tenants[i].ID] = WithUpstream(file.tenants[i], file.bootstrap)
    BY <2>1, <2>2, Zenon DEF Filed
  <2> QED
    BY <2>3, <2>6, <2>7, Zenon DEF CatalogueIsAsWritten, WithUpstream
<1> QED
  BY <1>1, StartupInvariance, PTL
=============================================================================
