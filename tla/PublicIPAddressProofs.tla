-------------------------- MODULE PublicIPAddressProofs --------------------------
(*****************************************************************************)
(* Theorems about PublicIPAddress, for every set of resources and names,     *)
(* every configuration, every bound and every set of faults.                 *)
(*****************************************************************************)
EXTENDS PublicIPAddress, TLAPS

-----------------------------------------------------------------------------
(* Typing of the operators the actions are built from.                       *)

(* A resource that does not exist is a resource.                             *)
LEMMA BlankType ==
    ASSUME NEW u \in 0 .. MaxUid
    PROVE  Blank(u) \in Resource
BY PubipConstants, AttemptsBoundAssumption
   DEF Blank, Resource, Failed, FailedOperationsOf, NoFailedOperations

(* A worker between two reconciliations is a worker.                         *)
LEMMA IdleType == Idle \in Worker
<1>1. 0 \in 0 .. MaxUid
  BY PubipConstants
<1>2. Blank(0) \in Resource
  BY <1>1, BlankType
<1>3. NoFailedOperations(OpTypes) \in Failed
  BY AttemptsBoundAssumption DEF Failed, FailedOperationsOf, NoFailedOperations
<1> QED
  BY <1>2, <1>3 DEF Idle, Worker, PCs, Outcomes

(* Counting a failure and forgetting one keep the counters in their range.   *)
LEMMA FailedType ==
    ASSUME NEW f \in Failed, NEW op \in OpTypes
    PROVE  /\ AddOrUpdateFailedOperation(f, op) \in Failed
           /\ DeleteFailedOperation(f, op) \in Failed
BY AttemptsBoundAssumption
   DEF Failed, FailedOperationsOf, AddOrUpdateFailedOperation, DeleteFailedOperation

(* The steps of the handlers that only compute the next worker.              *)
LEMMA WorkerOperatorsType ==
    ASSUME NEW w \in Worker, NEW o \in Resource, NEW n \in AzNames \cup {NoName}
    PROVE  /\ Dispatch(o) \in Worker
           /\ GetOk(w, n) \in Worker
           /\ GetFailed(w) \in Worker
           /\ CleanOk(w) \in Worker
           /\ CleanFailed(w) \in Worker
           /\ Proceed(w, o) \in Worker
<1>1. Dispatch(o) \in Worker
  <2>1. o.failed \in Failed /\ GetPC(o) \in PCs
    BY DEF Resource, GetPC, PCs
  <2> QED
    BY <2>1, IdleType DEF Dispatch, Worker, PCs
<1>2. /\ AddOrUpdateFailedOperation(w.failed, "Get") \in Failed
      /\ AddOrUpdateFailedOperation(w.failed, "Clean") \in Failed
      /\ DeleteFailedOperation(w.failed, "Get") \in Failed
      /\ DeleteFailedOperation(w.failed, "Clean") \in Failed
  BY FailedType DEF Worker, OpTypes
<1>3. GetOk(w, n) \in Worker /\ GetFailed(w) \in Worker
  BY <1>2 DEF GetOk, GetFailed, Worker, PCs, Outcomes
<1>4. CleanOk(w) \in Worker /\ CleanFailed(w) \in Worker
  BY <1>2 DEF CleanOk, CleanFailed, Worker, PCs, Outcomes
<1>5. Proceed(w, o) \in Worker
  <2>1. /\ [w EXCEPT !.obj = o, !.pc = "removeFinalizers"] \in Worker
        /\ [w EXCEPT !.obj = o, !.pc = "getLoadBalancer"] \in Worker
    BY DEF Worker, PCs
  <2> QED
    BY <2>1, IdleType DEF Proceed
<1> QED
  BY <1>1, <1>3, <1>4, <1>5

(* A step of the worker of p that leaves it with w' and asks or does not ask *)
(* for a requeue.                                                            *)
LEMMA WorkerUpdateType ==
    ASSUME TypeOK, NEW p \in Pubips, NEW w \in Worker,
           worker' = [worker EXCEPT ![p] = w]
    PROVE  worker' \in [Pubips -> Worker]
BY DEF TypeOK

(* A step of the worker of p that ends the reconciliation, with or without a *)
(* requeue.                                                                  *)
LEMMA RequeueType ==
    ASSUME TypeOK, NEW p \in Pubips, Requeue(p) \/ Return(p)
    PROVE  worker' \in [Pubips -> Worker] /\ timer' \subseteq Pubips
BY IdleType DEF TypeOK, Requeue, Return

-----------------------------------------------------------------------------
(* Every step keeps the types: one step of the proof per action.             *)
LEMMA TypeInductive == TypeOK /\ [Next]_vars => TypeOK'
<1> SUFFICES ASSUME TypeOK, [Next]_vars
             PROVE  TypeOK'
  OBVIOUS
<1> USE DEF TypeOK
<1>1. ASSUME NEW p \in Pubips, Reconcile(p) PROVE TypeOK'
  <2>1. Dispatch(cache[p]) \in Worker
    BY WorkerOperatorsType, IdleType
  <2>2. worker' \in [Pubips -> Worker]
    BY <1>1, <2>1 DEF Reconcile
  <2>3. timer' \subseteq Pubips /\ queue' \subseteq Pubips
    BY <1>1 DEF Reconcile
  <2> QED
    BY <1>1, <2>2, <2>3 DEF Reconcile
<1>2. ASSUME NEW p \in Pubips, AddFinalizers(p) PROVE TypeOK'
  <2> DEFINE w == worker[p]
             o == [w.obj EXCEPT !.finalizer = TRUE]
  <2>1. w \in Worker /\ o \in Resource
    BY DEF Worker, Resource
  <2>2. [w EXCEPT !.obj = o, !.pc = GetPC(o)] \in Worker
    BY <2>1 DEF Worker, GetPC, PCs
  <2>3. api' \in [Pubips -> Resource]
    BY <1>2, <2>1 DEF AddFinalizers
  <2>4. worker' \in [Pubips -> Worker] /\ timer' \subseteq Pubips
    <3>1. CASE Requeue(p) \/ Return(p)
      BY <3>1, RequeueType
    <3>2. CASE /\ worker' = [worker EXCEPT ![p] = [w EXCEPT !.obj = o, !.pc = GetPC(o)]]
               /\ UNCHANGED timer
      BY <3>2, <2>2
    <3> QED
      BY <1>2, <3>1, <3>2 DEF AddFinalizers
  <2> QED
    BY <1>2, <2>3, <2>4 DEF AddFinalizers
<1>3. ASSUME NEW p \in Pubips, RemoveFinalizers(p) PROVE TypeOK'
  <2>1. Unfinalized(api[p]) \in Resource
    <3>1. api[p] \in Resource
      OBVIOUS
    <3>2. [api[p] EXCEPT !.finalizer = FALSE] \in Resource /\ api[p].uid \in 0 .. MaxUid
      BY <3>1 DEF Resource
    <3> QED
      BY <3>2, BlankType DEF Unfinalized
  <2>2. Requeue(p) \/ Return(p)
    BY <1>3 DEF RemoveFinalizers
  <2>3. worker' \in [Pubips -> Worker] /\ timer' \subseteq Pubips
    BY <2>2, RequeueType
  <2>4. api' \in [Pubips -> Resource]
    BY <1>3, <2>1 DEF RemoveFinalizers
  <2> QED
    BY <1>3, <2>3, <2>4 DEF RemoveFinalizers
<1>4. ASSUME NEW p \in Pubips, GetByName(p) PROVE TypeOK'
  <2> DEFINE w == worker[p]
  <2>1. w \in Worker /\ GetFailed(w) \in Worker
    BY WorkerOperatorsType, BlankType, IdleType DEF Worker
  <2>2. [w EXCEPT !.pc = "getByIP"] \in Worker
    BY <2>1 DEF Worker, PCs
  <2>3. \A r \in azure : GetOk(w, r.name) \in Worker
    BY <2>1, WorkerOperatorsType DEF AzureIP, Worker
  <2>4. worker' \in [Pubips -> Worker] /\ timer' \subseteq Pubips
    <3>1. CASE Requeue(p)
      BY <3>1, RequeueType
    <3>2. CASE UNCHANGED timer /\ \E v \in Worker : worker' = [worker EXCEPT ![p] = v]
      BY <3>2
    <3> QED
      BY <1>4, <2>1, <2>2, <2>3, <3>1, <3>2 DEF GetByName, Named
  <2> QED
    BY <1>4, <2>4 DEF GetByName
<1>5. ASSUME NEW p \in Pubips, GetByIP(p) PROVE TypeOK'
  <2> DEFINE w == worker[p]
  <2>1. w \in Worker /\ GetFailed(w) \in Worker /\ GetOk(w, NoName) \in Worker
    BY WorkerOperatorsType DEF Worker
  <2>2. \A r \in azure : GetOk(w, r.name) \in Worker
    BY <2>1, WorkerOperatorsType DEF AzureIP, Worker
  <2>3. \E v \in Worker : worker' = [worker EXCEPT ![p] = v]
    BY <1>5, <2>1, <2>2 DEF GetByIP
  <2> QED
    BY <1>5, <2>3 DEF GetByIP
<1>6. ASSUME NEW p \in Pubips, UpdateStatus(p) PROVE TypeOK'
  <2> DEFINE w       == worker[p]
             local   == [cache[p] EXCEPT !.name = w.found, !.failed = w.failed]
             renamed == w.found # cache[p].name
             recount == w.failed # cache[p].failed \/ w.outcome \in {"getFailed", "cleanFailed"}
             merged  == [api[p] EXCEPT !.name   = IF renamed THEN w.found ELSE @,
                                       !.failed = IF recount THEN w.failed ELSE @]
  <2>1. w \in Worker /\ cache[p] \in Resource /\ api[p] \in Resource
    OBVIOUS
  <2>2. local \in Resource /\ merged \in Resource
    BY <2>1 DEF Worker, Resource
  <2>3. \A o \in Resource : Proceed(w, o) \in Worker
    BY <2>1, WorkerOperatorsType
  <2>4. api' \in [Pubips -> Resource]
    BY <1>6, <2>2 DEF UpdateStatus
  <2>5. worker' \in [Pubips -> Worker] /\ timer' \subseteq Pubips
    <3>1. CASE Requeue(p)
      BY <3>1, RequeueType
    <3>2. CASE \E o \in Resource :
                 /\ worker' = [worker EXCEPT ![p] = Proceed(w, o)]
                 /\ timer' = IF Proceed(w, o) = Idle THEN timer \cup {p} ELSE timer
      BY <3>2, <2>3
    <3> QED
      BY <1>6, <2>1, <2>2, <3>1, <3>2 DEF UpdateStatus
  <2> QED
    BY <1>6, <2>4, <2>5 DEF UpdateStatus
<1>7. ASSUME NEW p \in Pubips, GetLoadBalancer(p) \/ PutLoadBalancer(p) \/ DeleteIP(p)
      PROVE  TypeOK'
  <2> DEFINE w == worker[p]
  <2>1. w \in Worker /\ CleanFailed(w) \in Worker /\ CleanOk(w) \in Worker
    BY WorkerOperatorsType DEF Worker
  <2>2. /\ [w EXCEPT !.pc = "putLoadBalancer", !.frontends = lb \ {w.obj.name}] \in Worker
        /\ [w EXCEPT !.pc = "deleteIP"] \in Worker
    BY <2>1 DEF Worker, PCs
  <2>3. w.frontends \subseteq AzNames
    BY <2>1 DEF Worker
  <2>4. CASE GetLoadBalancer(p)
    BY <2>4, <2>1, <2>2 DEF GetLoadBalancer
  <2>5. CASE PutLoadBalancer(p)
    BY <2>5, <2>1, <2>2, <2>3 DEF PutLoadBalancer
  <2>6. CASE DeleteIP(p)
    BY <2>6, <2>1 DEF DeleteIP
  <2> QED
    BY <1>7, <2>4, <2>5, <2>6
<1>8. ASSUME NEW p \in Pubips, CreateResource(p) PROVE TypeOK'
  <2>1. api[p].uid + 1 \in 0 .. MaxUid
    BY <1>8, PubipConstants DEF CreateResource, Resource
  <2>2. [Blank(api[p].uid + 1) EXCEPT !.exists = TRUE] \in Resource
    <3>1. Blank(api[p].uid + 1) \in Resource
      BY <2>1, BlankType
    <3> QED
      BY <3>1 DEF Resource
  <2> QED
    BY <1>8, <2>2 DEF CreateResource
<1>9. ASSUME NEW p \in Pubips, DeleteResource(p) PROVE TypeOK'
  <2>1. api[p] \in Resource /\ api[p].uid \in 0 .. MaxUid
    BY DEF Resource
  <2>2. [api[p] EXCEPT !.deletedAt = now] \in Resource
    BY <2>1, PubipConstants DEF Resource
  <2>3. Blank(api[p].uid) \in Resource
    BY <2>1, BlankType
  <2> QED
    BY <1>9, <2>2, <2>3 DEF DeleteResource
<1>10. ASSUME NEW p \in Pubips, AnnotateDoNotClean(p) \/ RemoveDoNotClean(p) PROVE TypeOK'
  <2>1. api[p] \in Resource
    OBVIOUS
  <2>2. PICK b \in BOOLEAN : api' = [api EXCEPT ![p] = [api[p] EXCEPT !.doNotClean = b]]
    BY <1>10 DEF AnnotateDoNotClean, RemoveDoNotClean
  <2>3. [api[p] EXCEPT !.doNotClean = b] \in Resource
    BY <2>1 DEF Resource
  <2> QED
    BY <1>10, <2>2, <2>3 DEF AnnotateDoNotClean, RemoveDoNotClean
<1>11. ASSUME NEW p \in Pubips, SyncCache(p) PROVE TypeOK'
  BY <1>11 DEF SyncCache
<1>12. CASE Restart
  BY <1>12, IdleType DEF Restart
<1>13. CASE CloudStep
  <2>1. azure' \subseteq AzureIP
    <3>1. ASSUME NEW n \in AzNames, NEW ip \in IPs, NEW svc \in Services \cup {NoService},
                 Allocate(n, ip, svc)
          PROVE  azure' \subseteq AzureIP
      BY <3>1 DEF Allocate, AzureIP
    <3>2. ASSUME NEW r \in azure, NEW svc \in Services, Retag(r, svc)
          PROVE  azure' \subseteq AzureIP
      <4>1. r \in AzureIP /\ [r EXCEPT !.tag = svc] \in AzureIP
        BY DEF AzureIP
      <4> QED
        BY <3>2, <4>1 DEF Retag
    <3>3. ASSUME NEW r \in azure, Unassign(r)
          PROVE  azure' \subseteq AzureIP
      <4>1. r \in AzureIP /\ [r EXCEPT !.ip = NoIP] \in AzureIP
        BY DEF AzureIP
      <4> QED
        BY <3>3, <4>1 DEF Unassign
    <3> QED
      BY <1>13, <3>1, <3>2, <3>3 DEF CloudStep, Release, Attach, Detach
  <2>2. lb' \subseteq AzNames
    BY <1>13 DEF CloudStep, Allocate, Release, Retag, Unassign, Attach, Detach
  <2>3. UNCHANGED <<api, cache, queue, timer, worker, now>>
    BY <1>13 DEF CloudStep, Allocate, Release, Retag, Unassign, Attach, Detach
  <2> QED
    BY <2>1, <2>2, <2>3
<1>14. CASE Tick
  BY <1>14, PubipConstants DEF Tick
<1>15. CASE UNCHANGED vars
  BY <1>15 DEF vars
<1> QED
  BY <1>1, <1>2, <1>3, <1>4, <1>5, <1>6, <1>7, <1>8, <1>9, <1>10, <1>11, <1>12,
     <1>13, <1>14, <1>15 DEF Next, WorkerStep

(* The types are right in every reachable state: the counters stay in their  *)
(* range, the status names known Azure resources, and no reconciliation      *)
(* leaves its control points.                                                *)
THEOREM TypeCorrect == Spec => []TypeOK
<1>1. Init => TypeOK
  <2> SUFFICES ASSUME Init PROVE TypeOK
    OBVIOUS
  <2>1. 0 \in 0 .. MaxUid
    BY PubipConstants
  <2>2. Blank(0) \in Resource
    BY <2>1, BlankType
  <2> QED
    BY <2>2, IdleType, PubipConstants DEF Init, TypeOK
<1> QED
  BY <1>1, TypeInductive, PTL DEF Spec

-----------------------------------------------------------------------------
(* Ownership.  The actuator compares an Azure address with the specification *)
(* when it searches it and acts on the bare name many calls later.  What     *)
(* makes this sound is that every name anywhere in the system that refers to *)
(* an Azure address on behalf of p was compared at some time, and that such  *)
(* a name never comes to denote another address.                             *)

(* The names under which p may come to act on an address.                    *)
Refs(p) == {api[p].name, cache[p].name, worker[p].obj.name, worker[p].found}

(* If n denotes an address, it is that of p.                                 *)
OwnedName(p, n) == \A r \in azure : r.name = n => Owns(p, r)

RefsOwned == \A p \in Pubips : \A n \in Refs(p) : OwnedName(p, n)

UniqueNames == \A r, s \in azure : r.name = s.name => r = s

OwnershipInv == TypeOK /\ UniqueNames /\ RefsOwned

(* Azure neither reuses a name nor changes an address in place.              *)
StableNames == Habits \cap {"reuse", "retag", "unassign"} = {}

(* The names in what the reconciler starts from.                             *)
LEMMA BlankNames ==
    /\ \A u : Blank(u).name = NoName
    /\ Idle.obj.name = NoName /\ Idle.found = NoName
BY DEF Blank, Idle

(* No address is called NoName.                                              *)
LEMMA NoNameOwned == ASSUME TypeOK, NEW p \in Pubips PROVE OwnedName(p, NoName)
BY PubipConstants DEF TypeOK, AzureIP, OwnedName

(* A step that adds no address and refers only to names of which the claim   *)
(* already holds keeps the invariant.                                        *)
LEMMA RefsOwnedStep ==
    ASSUME OwnershipInv, TypeOK', azure' \subseteq azure,
           \A p \in Pubips : \A n \in Refs(p)' :
               n \in Refs(p) \/ n = NoName \/ OwnedName(p, n)
    PROVE  OwnershipInv'
<1>1. \A p \in Pubips : \A n \in Refs(p)' : OwnedName(p, n)
  BY NoNameOwned DEF OwnershipInv, RefsOwned
<1>2. RefsOwned'
  BY <1>1 DEF RefsOwned, OwnedName, Owns
<1>3. UniqueNames'
  BY DEF OwnershipInv, UniqueNames
<1> QED
  BY <1>2, <1>3 DEF OwnershipInv

(* The names that the computations of a handler leave in the worker.         *)
LEMMA HandlerNames ==
    ASSUME NEW w \in Worker, NEW o \in Resource, NEW n \in AzNames \cup {NoName}
    PROVE  /\ Dispatch(o).obj.name \in {o.name, NoName} /\ Dispatch(o).found = NoName
           /\ GetOk(w, n).obj = w.obj /\ GetOk(w, n).found = n
           /\ GetFailed(w).obj = w.obj /\ GetFailed(w).found = NoName
           /\ CleanOk(w).obj = w.obj /\ CleanOk(w).found = NoName
           /\ CleanFailed(w).obj = w.obj /\ CleanFailed(w).found = w.found
           /\ Proceed(w, o).obj.name \in {o.name, NoName}
           /\ Proceed(w, o).found \in {w.found, NoName}
<1>1. Dispatch(o).obj.name \in {o.name, NoName} /\ Dispatch(o).found = NoName
  BY BlankNames, IdleType DEF Dispatch, Worker
<1>2. /\ GetOk(w, n).obj = w.obj /\ GetOk(w, n).found = n
      /\ GetFailed(w).obj = w.obj /\ GetFailed(w).found = NoName
  BY DEF GetOk, GetFailed, Worker
<1>3. /\ CleanOk(w).obj = w.obj /\ CleanOk(w).found = NoName
      /\ CleanFailed(w).obj = w.obj /\ CleanFailed(w).found = w.found
  BY DEF CleanOk, CleanFailed, Worker
<1>4. \A pc : /\ [w EXCEPT !.obj = o, !.pc = pc].obj = o
              /\ [w EXCEPT !.obj = o, !.pc = pc].found = w.found
  BY DEF Worker
<1>5. /\ Proceed(w, o).obj.name \in {o.name, NoName}
      /\ Proceed(w, o).found \in {w.found, NoName}
  BY <1>4, BlankNames DEF Proceed
<1> QED
  BY <1>1, <1>2, <1>3, <1>5

(* A worker of p that ends its reconciliation refers to nothing.             *)
LEMMA ReturnNames ==
    ASSUME TypeOK, NEW p \in Pubips, Requeue(p) \/ Return(p)
    PROVE  /\ \A q \in Pubips \ {p} : worker'[q] = worker[q]
           /\ worker'[p].obj.name = NoName /\ worker'[p].found = NoName
BY BlankNames DEF TypeOK, Requeue, Return

(* Every step keeps the invariant of ownership, one step of the proof per    *)
(* action.  Under StableNames the cloud actions cannot give a name that a    *)
(* handler holds to another address, nor an address to another service.      *)
LEMMA OwnershipInductive ==
    ASSUME StableNames
    PROVE  OwnershipInv /\ [Next]_vars => OwnershipInv'
<1> SUFFICES ASSUME OwnershipInv, [Next]_vars
             PROVE  OwnershipInv'
  OBVIOUS
<1>0. TypeOK /\ TypeOK'
  BY TypeInductive DEF OwnershipInv
<1> USE <1>0
<1> DEFINE Kept(q) == \A n \in Refs(q)' : n \in Refs(q) \/ n = NoName \/ OwnedName(q, n)
<1>1. ASSUME NEW p \in Pubips, Reconcile(p) PROVE OwnershipInv'
  <2>1. /\ worker'[p] = Dispatch(cache[p])
        /\ \A q \in Pubips \ {p} : worker'[q] = worker[q]
    BY <1>1 DEF Reconcile, TypeOK
  <2>2. cache[p] \in Resource /\ worker[p] \in Worker
    BY DEF TypeOK
  <2>3. worker'[p].obj.name \in {cache[p].name, NoName} /\ worker'[p].found = NoName
    BY <2>1, <2>2, HandlerNames
  <2>4. \A q \in Pubips : Kept(q)
    BY <1>1, <2>1, <2>3 DEF Reconcile, Refs
  <2> QED
    BY <1>1, <2>4, RefsOwnedStep DEF Reconcile
<1>2. ASSUME NEW p \in Pubips, AddFinalizers(p) PROVE OwnershipInv'
  <2>1. worker[p] \in Worker /\ api[p] \in Resource /\ worker[p].obj \in Resource
    BY DEF TypeOK, Worker
  <2>2. \A q \in Pubips : api'[q].name = api[q].name
    BY <1>2, <2>1 DEF AddFinalizers, TypeOK, Resource
  <2>3. /\ \A q \in Pubips \ {p} : worker'[q] = worker[q]
        /\ worker'[p].obj.name \in {worker[p].obj.name, NoName}
        /\ worker'[p].found \in {worker[p].found, NoName}
    <3>1. CASE Requeue(p) \/ Return(p)
      BY <3>1, ReturnNames
    <3>2. CASE worker' = [worker EXCEPT ![p] =
                   [worker[p] EXCEPT !.obj = [worker[p].obj EXCEPT !.finalizer = TRUE],
                                     !.pc = GetPC([worker[p].obj EXCEPT !.finalizer = TRUE])]]
      BY <3>2, <2>1 DEF TypeOK, Worker, Resource
    <3> QED
      BY <1>2, <3>1, <3>2 DEF AddFinalizers
  <2>4. \A q \in Pubips : Kept(q)
    BY <1>2, <2>2, <2>3 DEF AddFinalizers, Refs
  <2> QED
    BY <1>2, <2>4, RefsOwnedStep DEF AddFinalizers
<1>3. ASSUME NEW p \in Pubips, RemoveFinalizers(p) PROVE OwnershipInv'
  <2>1. Requeue(p) \/ Return(p)
    BY <1>3 DEF RemoveFinalizers
  <2>2. /\ \A q \in Pubips \ {p} : worker'[q] = worker[q] /\ api'[q] = api[q]
        /\ worker'[p].obj.name = NoName /\ worker'[p].found = NoName
    BY <1>3, <2>1, ReturnNames DEF RemoveFinalizers, TypeOK
  <2>3. Unfinalized(api[p]).name \in {api[p].name, NoName}
    <3>1. api[p] \in Resource
      BY DEF TypeOK
    <3> QED
      BY <3>1, BlankNames DEF Unfinalized, Resource
  <2>4. api'[p].name \in {api[p].name, NoName}
    BY <1>3, <2>3 DEF RemoveFinalizers, TypeOK
  <2>5. \A q \in Pubips : Kept(q)
    BY <1>3, <2>2, <2>4 DEF RemoveFinalizers, Refs
  <2> QED
    BY <1>3, <2>5, RefsOwnedStep DEF RemoveFinalizers
<1>4. ASSUME NEW p \in Pubips, GetByName(p) PROVE OwnershipInv'
  <2>1. worker[p] \in Worker /\ worker[p].obj \in Resource
    BY DEF TypeOK, Worker
  <2>2. /\ \A q \in Pubips \ {p} : worker'[q] = worker[q]
        /\ worker'[p].obj.name \in {worker[p].obj.name, NoName}
        /\ worker'[p].found \in {worker[p].found, worker[p].obj.name, NoName}
    <3>1. CASE Requeue(p)
      BY <3>1, ReturnNames
    <3>2. CASE worker' = [worker EXCEPT ![p] = GetFailed(worker[p])]
      BY <3>2, <2>1, HandlerNames DEF TypeOK
    <3>3. ASSUME NEW r \in azure, r.name = worker[p].obj.name,
                 worker' = [worker EXCEPT ![p] = GetOk(worker[p], r.name)]
          PROVE  /\ \A q \in Pubips \ {p} : worker'[q] = worker[q]
                 /\ worker'[p].obj.name = worker[p].obj.name
                 /\ worker'[p].found = worker[p].obj.name
      BY <3>3, <2>1, HandlerNames DEF TypeOK, Resource
    <3>4. CASE worker' = [worker EXCEPT ![p] = [worker[p] EXCEPT !.pc = "getByIP"]]
      BY <3>4, <2>1 DEF TypeOK, Worker
    <3> QED
      BY <1>4, <3>1, <3>2, <3>3, <3>4 DEF GetByName, Named
  <2>3. \A q \in Pubips : Kept(q)
    BY <1>4, <2>2 DEF GetByName, Refs
  <2> QED
    BY <1>4, <2>3, RefsOwnedStep DEF GetByName
<1>5. ASSUME NEW p \in Pubips, GetByIP(p) PROVE OwnershipInv'
  <2>1. worker[p] \in Worker /\ worker[p].obj \in Resource
    BY DEF TypeOK, Worker
  <2>2. ASSUME NEW r \in azure, r.ip = SpecIP[p], TagMatches(p, r)
        PROVE  OwnedName(p, r.name)
    BY <2>2 DEF OwnershipInv, UniqueNames, OwnedName, Owns, TagMatches
  <2>3. /\ \A q \in Pubips \ {p} : worker'[q] = worker[q]
        /\ worker'[p].obj.name = worker[p].obj.name
        /\ worker'[p].found = NoName \/ OwnedName(p, worker'[p].found)
    <3>1. CASE worker' = [worker EXCEPT ![p] = GetFailed(worker[p])]
      BY <3>1, <2>1, HandlerNames DEF TypeOK
    <3>2. CASE worker' = [worker EXCEPT ![p] = GetOk(worker[p], NoName)]
      BY <3>2, <2>1, HandlerNames DEF TypeOK
    <3>3. ASSUME NEW r \in azure, r.ip = SpecIP[p], TagMatches(p, r),
                 worker' = [worker EXCEPT ![p] = GetOk(worker[p], r.name)]
          PROVE  /\ \A q \in Pubips \ {p} : worker'[q] = worker[q]
                 /\ worker'[p].obj.name = worker[p].obj.name
                 /\ OwnedName(p, worker'[p].found)
      <4>1. r.name \in AzNames
        BY DEF TypeOK, AzureIP
      <4>2. GetOk(worker[p], r.name).obj = worker[p].obj /\ GetOk(worker[p], r.name).found = r.name
        BY <4>1, <2>1, HandlerNames
      <4> QED
        BY <3>3, <4>2, <2>2 DEF TypeOK
    <3> QED
      BY <1>5, <3>1, <3>2, <3>3 DEF GetByIP
  <2>4. \A q \in Pubips : Kept(q)
    BY <1>5, <2>3 DEF GetByIP, Refs
  <2> QED
    BY <1>5, <2>4, RefsOwnedStep DEF GetByIP
<1>6. ASSUME NEW p \in Pubips, UpdateStatus(p) PROVE OwnershipInv'
  <2> DEFINE w       == worker[p]
             renamed == w.found # cache[p].name
             recount == w.failed # cache[p].failed \/ w.outcome \in {"getFailed", "cleanFailed"}
             local   == [cache[p] EXCEPT !.name = w.found, !.failed = w.failed]
             merged  == [api[p] EXCEPT !.name   = IF renamed THEN w.found ELSE @,
                                       !.failed = IF recount THEN w.failed ELSE @]
  <2>1. w \in Worker /\ cache[p] \in Resource /\ api[p] \in Resource
    BY DEF TypeOK
  <2>2. /\ local \in Resource /\ merged \in Resource
        /\ local.name = w.found /\ merged.name \in {api[p].name, w.found}
    BY <2>1 DEF Worker, Resource
  <2>3. /\ \A q \in Pubips \ {p} : api'[q] = api[q]
        /\ api'[p].name \in {api[p].name, w.found}
    BY <1>6, <2>2 DEF UpdateStatus, TypeOK
  <2>4. /\ \A q \in Pubips \ {p} : worker'[q] = worker[q]
        /\ worker'[p].obj.name \in Refs(p) \cup {NoName}
        /\ worker'[p].found \in {w.found, NoName}
    <3>1. CASE Requeue(p)
      BY <3>1, ReturnNames
    <3>2. ASSUME NEW o \in Resource, o.name \in Refs(p),
                 worker' = [worker EXCEPT ![p] = Proceed(w, o)]
          PROVE  /\ \A q \in Pubips \ {p} : worker'[q] = worker[q]
                 /\ worker'[p].obj.name \in Refs(p) \cup {NoName}
                 /\ worker'[p].found \in {w.found, NoName}
      <4>1. Proceed(w, o).obj.name \in {o.name, NoName} /\ Proceed(w, o).found \in {w.found, NoName}
        BY <2>1, HandlerNames
      <4> QED
        BY <3>2, <4>1 DEF TypeOK
    <3>3. cache[p].name \in Refs(p) /\ local.name \in Refs(p) /\ merged.name \in Refs(p)
      BY <2>2 DEF Refs
    <3> QED
      BY <1>6, <2>1, <2>2, <3>1, <3>2, <3>3 DEF UpdateStatus
  <2>5. \A q \in Pubips : Kept(q)
    BY <1>6, <2>3, <2>4 DEF UpdateStatus, Refs
  <2> QED
    BY <1>6, <2>5, RefsOwnedStep DEF UpdateStatus
<1>7. ASSUME NEW p \in Pubips, GetLoadBalancer(p) \/ PutLoadBalancer(p) \/ DeleteIP(p)
      PROVE  OwnershipInv'
  <2>1. worker[p] \in Worker /\ worker[p].obj \in Resource
    BY DEF TypeOK, Worker
  <2>2. /\ \A q \in Pubips \ {p} : worker'[q] = worker[q]
        /\ worker'[p].obj.name = worker[p].obj.name
        /\ worker'[p].found \in {worker[p].found, NoName}
    <3>1. CASE worker' = [worker EXCEPT ![p] = CleanFailed(worker[p])]
      BY <3>1, <2>1, HandlerNames DEF TypeOK
    <3>2. CASE worker' = [worker EXCEPT ![p] = CleanOk(worker[p])]
      BY <3>2, <2>1, HandlerNames DEF TypeOK
    <3>3. CASE worker' = [worker EXCEPT ![p] = [worker[p] EXCEPT !.pc = "deleteIP"]]
      BY <3>3, <2>1 DEF TypeOK, Worker
    <3>4. CASE worker' = [worker EXCEPT ![p] =
                   [worker[p] EXCEPT !.pc = "putLoadBalancer",
                                     !.frontends = lb \ {worker[p].obj.name}]]
      BY <3>4, <2>1 DEF TypeOK, Worker
    <3> QED
      BY <1>7, <3>1, <3>2, <3>3, <3>4 DEF GetLoadBalancer, PutLoadBalancer, DeleteIP
  <2>3. UNCHANGED <<api, cache>> /\ azure' \subseteq azure
    BY <1>7 DEF GetLoadBalancer, PutLoadBalancer, DeleteIP
  <2>4. \A q \in Pubips : Kept(q)
    BY <2>2, <2>3 DEF Refs
  <2> QED
    BY <2>3, <2>4, RefsOwnedStep
<1>8. ASSUME NEW p \in Pubips,
             \/ CreateResource(p) \/ DeleteResource(p)
             \/ AnnotateDoNotClean(p) \/ RemoveDoNotClean(p) \/ SyncCache(p)
      PROVE  OwnershipInv'
  <2>1. api[p] \in Resource
    BY DEF TypeOK
  <2>2. [Blank(api[p].uid + 1) EXCEPT !.exists = TRUE].name = NoName
    BY DEF Blank
  <2>3. /\ \A q \in Pubips \ {p} : api'[q] = api[q]
        /\ api'[p].name \in {api[p].name, NoName}
    <3>1. CASE CreateResource(p)
      BY <3>1, <2>2 DEF CreateResource, TypeOK
    <3>2. CASE DeleteResource(p)
      BY <3>2, <2>1, BlankNames DEF DeleteResource, TypeOK, Resource
    <3>3. CASE AnnotateDoNotClean(p) \/ RemoveDoNotClean(p)
      <4>1. PICK b \in BOOLEAN : api' = [api EXCEPT ![p] = [api[p] EXCEPT !.doNotClean = b]]
        BY <3>3 DEF AnnotateDoNotClean, RemoveDoNotClean
      <4> QED
        BY <4>1, <2>1 DEF TypeOK, Resource
    <3>4. CASE SyncCache(p)
      BY <3>4 DEF SyncCache
    <3> QED
      BY <1>8, <3>1, <3>2, <3>3, <3>4
  <2>4. \A q \in Pubips : cache'[q].name \in {cache[q].name, api[q].name}
    BY <1>8 DEF CreateResource, DeleteResource, AnnotateDoNotClean, RemoveDoNotClean,
          SyncCache, TypeOK
  <2>5. UNCHANGED <<worker, azure>>
    BY <1>8 DEF CreateResource, DeleteResource, AnnotateDoNotClean, RemoveDoNotClean,
          SyncCache
  <2>6. \A q \in Pubips : Kept(q)
    BY <2>3, <2>4, <2>5 DEF Refs
  <2> QED
    BY <2>5, <2>6, RefsOwnedStep
<1>9. CASE Restart
  <2>1. \A q \in Pubips : Kept(q)
    BY <1>9, BlankNames DEF Restart, Refs
  <2> QED
    BY <1>9, <2>1, RefsOwnedStep DEF Restart
<1>10. CASE CloudStep
  <2>1. UNCHANGED <<api, cache, worker>>
    BY <1>10 DEF CloudStep, Allocate, Release, Retag, Unassign, Attach, Detach
  <2>2. \A q \in Pubips : Refs(q)' = Refs(q)
    BY <2>1 DEF Refs
  <2>3. CASE azure' \subseteq azure
    BY <2>2, <2>3, RefsOwnedStep
  <2>4. ASSUME NEW n \in AzNames, NEW ip \in IPs, NEW svc \in Services \cup {NoService},
               Allocate(n, ip, svc)
        PROVE  OwnershipInv'
    <3> DEFINE r == [name |-> n, ip |-> ip, tag |-> svc]
    <3>1. azure' = azure \cup {r} /\ (\A s \in azure : s.name # n) /\ FreshName(n)
      BY <2>4 DEF Allocate, NamesIn, StableNames
    <3>2. UniqueNames'
      BY <3>1 DEF OwnershipInv, UniqueNames
    <3>3. \A q \in Pubips : n \notin Refs(q)
      BY <3>1 DEF FreshName, Refs
    <3>4. RefsOwned'
      BY <2>2, <3>1, <3>3 DEF OwnershipInv, RefsOwned, OwnedName, Owns
    <3> QED
      BY <3>2, <3>4 DEF OwnershipInv
  <2> QED
    BY <1>10, <2>3, <2>4 DEF CloudStep, Release, Retag, Unassign, Attach, Detach, StableNames
<1>11. CASE Tick \/ UNCHANGED vars
  <2>1. UNCHANGED <<api, cache, worker, azure>>
    BY <1>11 DEF Tick, vars
  <2> QED
    BY <2>1, RefsOwnedStep DEF Refs
<1> QED
  BY <1>1, <1>2, <1>3, <1>4, <1>5, <1>6, <1>7, <1>8, <1>9, <1>10, <1>11
     DEF Next, WorkerStep

(* Where Azure names are not reused and addresses are not changed in place,  *)
(* the controller deletes no address but the one its resource specifies,     *)
(* tagged with the service of the resource: whatever fails, however stale    *)
(* the cache is, however often the controller restarts.                      *)
THEOREM Ownership ==
    ASSUME StableNames
    PROVE  Spec => CleansOnlyItsOwn
<1>1. Init => OwnershipInv
  <2> SUFFICES ASSUME Init PROVE OwnershipInv
    OBVIOUS
  <2>1. TypeOK
    <3>1. 0 \in 0 .. MaxUid
      BY PubipConstants
    <3>2. Blank(0) \in Resource
      BY <3>1, BlankType
    <3> QED
      BY <3>2, IdleType, PubipConstants DEF Init, TypeOK
  <2> QED
    BY <2>1 DEF Init, OwnershipInv, UniqueNames, RefsOwned, OwnedName
<1>2. OwnershipInv /\ [Next]_vars =>
        [\A p \in Pubips : \A r \in Cleaned(p) : Owns(p, r)]_vars
  <2> SUFFICES ASSUME OwnershipInv, [Next]_vars, NEW p \in Pubips, NEW r \in Cleaned(p)
               PROVE  Owns(p, r) \/ UNCHANGED vars
    BY DEF vars
  <2>1. worker[p].pc = "deleteIP" /\ worker'[p].pc # "deleteIP" /\ r \in azure \ azure'
    BY DEF Cleaned
  <2>2. CASE DeleteIP(p)
    <3>1. r.name = worker[p].obj.name
      BY <2>1, <2>2 DEF DeleteIP, Named
    <3> QED
      BY <2>1, <3>1 DEF OwnershipInv, RefsOwned, OwnedName, Refs
  <2>3. CASE Restart
    BY <2>1, <2>3 DEF Restart
  <2>4. ASSUME NEW q \in Pubips, WorkerStep(q), ~DeleteIP(q) PROVE FALSE
    BY <2>1, <2>4 DEF WorkerStep, Reconcile, AddFinalizers, GetByName, GetByIP,
         UpdateStatus, GetLoadBalancer, PutLoadBalancer, RemoveFinalizers
  <2>5. ASSUME NEW q \in Pubips \ {p}, DeleteIP(q) PROVE FALSE
    BY <2>1, <2>5 DEF DeleteIP, OwnershipInv, TypeOK
  <2>6. CASE CloudStep
    BY <2>1, <2>6 DEF CloudStep, Allocate, Release, Retag, Unassign, Attach, Detach
  <2>7. CASE Tick
    BY <2>1, <2>7 DEF Tick
  <2>8. ASSUME NEW q \in Pubips,
               \/ CreateResource(q) \/ DeleteResource(q)
               \/ AnnotateDoNotClean(q) \/ RemoveDoNotClean(q) \/ SyncCache(q)
        PROVE  FALSE
    BY <2>1, <2>8 DEF CreateResource, DeleteResource, AnnotateDoNotClean, RemoveDoNotClean,
          SyncCache
  <2> QED
    BY <2>2, <2>3, <2>4, <2>5, <2>6, <2>7, <2>8 DEF Next, WorkerStep
<1> QED
  BY <1>1, <1>2, OwnershipInductive, PTL DEF Spec, CleansOnlyItsOwn

-----------------------------------------------------------------------------
(* What a deletion guarantees to a resource and to its address, a lagging    *)
(* cache included.  First the finalizer and the grace period, where no       *)
(* resource is created again under its name: for one that is, neither holds. *)

(* No name of a resource is used twice.                                      *)
OneIncarnation == MaxUid \in {0, 1}

(* The inductive invariant.  A resource, its copy in the cache and a         *)
(* reconciliation exist only once the resource was created.                  *)
Created(p) ==
    api[p].exists \/ cache[p].exists \/ worker[p].pc # "idle" => api[p].uid # 0

(* The finalizer and the deletion timestamp that a copy shows do not go      *)
(* before the resource does.                                                 *)
Lasting(p) ==
    LET c == cache[p]
    IN  c.exists /\ api[p].exists =>
            /\ c.finalizer => api[p].finalizer
            /\ c.deletedAt # 0 => api[p].deletedAt = c.deletedAt

(* The actuator works on resources with the finalizer only ...               *)
Guarded(p) ==
    worker[p].pc \notin {"idle", "addFinalizers"} /\ api[p].exists => api[p].finalizer

(* ... and Delete only on those that are being deleted, for all to see.      *)
DeletesForGood(p) ==
    worker[p].pc # "idle" /\ worker[p].deletes =>
        /\ api[p].exists => api[p].deletedAt # 0
        /\ cache[p].exists => cache[p].deletedAt # 0

(* Only Delete cleans, and only Delete takes a finalizer off.                *)
CleaningPCs == {"getLoadBalancer", "putLoadBalancer", "deleteIP"}

OnlyDelete(p) ==
    LET w == worker[p]
    IN  /\ w.pc \in CleaningPCs \cup {"removeFinalizers"} => w.deletes
        /\ w.pc = "updateStatus" /\ w.outcome \in {"cleanOk", "cleanFailed"} => w.deletes

(* What CleansOnlyAfterGracePeriod asks of a step holds from the decision to *)
(* clean on.                                                                 *)
CleansDue(p) ==
    worker[p].pc \in CleaningPCs =>
        /\ Due(worker[p].obj) /\ ~worker[p].obj.doNotClean
        /\ api[p].exists => api[p].deletedAt = worker[p].obj.deletedAt

(* A resource that records the name of an address carries the finalizer.     *)
Recorded(p) == api[p].exists /\ api[p].name # NoName => api[p].finalizer

KeyInv(p) ==
    /\ Created(p) /\ Lasting(p) /\ Guarded(p) /\ DeletesForGood(p)
    /\ OnlyDelete(p) /\ CleansDue(p) /\ Recorded(p)

IInv == TypeOK /\ \A p \in Pubips : KeyInv(p)

-----------------------------------------------------------------------------
(* A step that leaves p and its worker alone keeps what is said of p.        *)
LEMMA Frame ==
    ASSUME TypeOK, NEW p \in Pubips, KeyInv(p), now' \in Nat, now <= now',
           api'[p] = api[p], cache'[p] = cache[p], worker'[p] = worker[p]
    PROVE  KeyInv(p)'
<1>1. /\ now \in Nat /\ DeletionGracePeriod \in Nat /\ worker[p].obj.deletedAt \in Nat
  BY PubipConstants DEF TypeOK, Worker, Resource
<1>2. Due(worker[p].obj) => Due(worker[p].obj)'
  BY <1>1 DEF Due
<1> QED
  BY <1>2 DEF KeyInv, Created, Lasting, Guarded, DeletesForGood, OnlyDelete, CleansDue, Recorded

(* So does the end of a reconciliation.                                      *)
LEMMA EndKeeps ==
    ASSUME TypeOK, NEW p \in Pubips, KeyInv(p), Requeue(p) \/ Return(p),
           UNCHANGED <<api, cache, now>>
    PROVE  KeyInv(p)'
<1>1. worker'[p].pc = "idle"
  BY DEF TypeOK, Requeue, Return, Idle
<1> QED
  BY <1>1 DEF KeyInv, Created, Lasting, Guarded, DeletesForGood, OnlyDelete, CleansDue, Recorded,
              CleaningPCs

(* The worker goes on as v before it decides whether to clean, ...           *)
LEMMA SearchKeeps ==
    ASSUME TypeOK, NEW p \in Pubips, KeyInv(p), NEW v, worker' = [worker EXCEPT ![p] = v],
           UNCHANGED <<api, cache, now>>,
           worker[p].pc \notin {"idle", "addFinalizers"},
           v.pc \in {"getByIP", "updateStatus"}, v.deletes = worker[p].deletes,
           v.pc = "updateStatus" /\ v.outcome \in {"cleanOk", "cleanFailed"} => v.deletes
    PROVE  KeyInv(p)'
<1>1. worker'[p] = v
  BY DEF TypeOK
<1> QED
  BY <1>1 DEF KeyInv, Created, Lasting, Guarded, DeletesForGood, OnlyDelete, CleansDue, Recorded,
              CleaningPCs

(* ... and after it has decided to.                                          *)
LEMMA CleanKeeps ==
    ASSUME TypeOK, NEW p \in Pubips, KeyInv(p), NEW v, worker' = [worker EXCEPT ![p] = v],
           UNCHANGED <<api, cache, now>>,
           worker[p].pc \in CleaningPCs, v.pc \in CleaningPCs,
           v.deletes = worker[p].deletes, v.obj = worker[p].obj
    PROVE  KeyInv(p)'
<1>1. worker'[p] = v
  BY DEF TypeOK
<1>2. Due(worker[p].obj) => Due(v.obj)'
  BY DEF Due
<1> QED
  BY <1>1, <1>2 DEF KeyInv, Created, Lasting, Guarded, DeletesForGood, OnlyDelete, CleansDue,
                    Recorded, CleaningPCs

(* What a worker decides after a status update.                              *)
LEMMA ProceedDecides ==
    ASSUME NEW w \in Worker, NEW o \in Resource
    PROVE  \/ Proceed(w, o) = Idle
           \/ /\ Proceed(w, o) = [w EXCEPT !.obj = o, !.pc = "removeFinalizers"]
              /\ w.deletes \/ w.outcome = "cleanOk"
           \/ /\ Proceed(w, o) = [w EXCEPT !.obj = o, !.pc = "getLoadBalancer"]
              /\ w.deletes /\ ~o.doNotClean /\ (o.deletedAt # 0 => GracePeriodElapsed(o))
<1>1. CASE w.outcome = "getFailed"
  BY <1>1 DEF Proceed
<1>2. CASE w.outcome = "cleanFailed"
  BY <1>2 DEF Proceed
<1>3. CASE w.outcome = "cleanOk"
  BY <1>3 DEF Proceed
<1>4. CASE w.outcome \notin {"getFailed", "cleanFailed", "cleanOk"}
  <2>1. Proceed(w, o) =
           IF ~w.deletes THEN Idle
           ELSE IF w.found = NoName \/ o.doNotClean
                THEN [w EXCEPT !.obj = o, !.pc = "removeFinalizers"]
           ELSE IF o.deletedAt # 0 /\ ~GracePeriodElapsed(o) THEN Idle
           ELSE IF o.name = NoName THEN Idle
           ELSE [w EXCEPT !.obj = o, !.pc = "getLoadBalancer"]
    BY <1>4 DEF Proceed
  <2> QED
    BY <2>1
<1> QED
  BY <1>1, <1>2, <1>3, <1>4

-----------------------------------------------------------------------------
(* Every step keeps the invariant: one step of the proof per action.         *)
LEMMA KeyInductive ==
    ASSUME OneIncarnation, IInv, [Next]_vars, NEW p \in Pubips
    PROVE  KeyInv(p)'
<1> USE DEF OneIncarnation
<1>0. /\ TypeOK /\ KeyInv(p) /\ api[p] \in Resource /\ cache[p] \in Resource
      /\ worker[p] \in Worker /\ worker[p].obj \in Resource
      /\ now \in 1 .. MaxTime /\ MaxTime \in Nat /\ MaxUid \in Nat
      /\ api[p].uid \in 0 .. MaxUid /\ DeletionGracePeriod \in Nat
  BY PubipConstants DEF IInv, TypeOK, Worker, Resource
<1> DEFINE w == worker[p]
(* The steps about other resources, and those of the cloud provider.         *)
<1>a. ASSUME api'[p] = api[p], cache'[p] = cache[p], worker'[p] = worker[p],
             now' = now \/ now' = now + 1
      PROVE  KeyInv(p)'
  BY <1>0, <1>a, Frame
<1>1. CASE Reconcile(p)
  <2>1. worker'[p] = Dispatch(cache[p]) /\ UNCHANGED <<api, cache, now>>
    BY <1>0, <1>1 DEF Reconcile, TypeOK
  <2>2. \/ Dispatch(cache[p]).pc = "idle"
        \/ /\ cache[p].exists /\ Dispatch(cache[p]).pc = "addFinalizers"
           /\ Dispatch(cache[p]).deletes = FALSE
        \/ /\ cache[p].exists /\ cache[p].deletedAt # 0 /\ cache[p].finalizer
           /\ Dispatch(cache[p]).pc \in {"getByName", "getByIP"}
    BY DEF Dispatch, Deleting, Idle, GetPC
  <2> QED
    BY <1>0, <2>1, <2>2 DEF KeyInv, Created, Lasting, Guarded, DeletesForGood, OnlyDelete,
                            CleansDue, Recorded, CleaningPCs
<1>2. CASE AddFinalizers(p)
  <2> DEFINE o == [w.obj EXCEPT !.finalizer = TRUE]
             u == [w EXCEPT !.obj = o, !.pc = GetPC(o)]
  <2>1. CASE UNCHANGED api /\ (Requeue(p) \/ Return(p))
    BY <1>0, <1>2, <2>1, EndKeeps DEF AddFinalizers
  <2>2. CASE /\ api[p] = w.obj /\ api' = [api EXCEPT ![p] = o]
             /\ worker' = [worker EXCEPT ![p] = u]
    <3>1. worker'[p] = u /\ api'[p] = o /\ UNCHANGED <<cache, now>> /\ w.pc = "addFinalizers"
      BY <1>0, <1>2, <2>2 DEF AddFinalizers, TypeOK
    <3>2. /\ o.exists = api[p].exists /\ o.uid = api[p].uid /\ o.deletedAt = api[p].deletedAt
          /\ o.finalizer /\ o.name = api[p].name
      BY <1>0, <2>2 DEF Resource
    <3>3. u.pc \in {"getByName", "getByIP"} /\ u.deletes = w.deletes
      BY <1>0 DEF Worker, GetPC
    <3> HIDE DEF o, u
    <3> QED
      BY <1>0, <3>1, <3>2, <3>3 DEF KeyInv, Created, Lasting, Guarded, DeletesForGood, OnlyDelete,
                                    CleansDue, Recorded, CleaningPCs
  <2> QED
    BY <1>2, <2>1, <2>2 DEF AddFinalizers
<1>3. CASE RemoveFinalizers(p)
  <2>1. (Requeue(p) \/ Return(p)) /\ UNCHANGED <<cache, now>> /\ w.pc = "removeFinalizers"
    BY <1>3 DEF RemoveFinalizers
  <2>2. CASE UNCHANGED api
    BY <1>0, <2>1, <2>2, EndKeeps
  <2>3. CASE api[p].exists /\ api' = [api EXCEPT ![p] = Unfinalized(@)]
    <3>1. api[p].deletedAt # 0
      BY <1>0, <2>1, <2>3 DEF KeyInv, OnlyDelete, DeletesForGood
    <3>2. api'[p] = Blank(api[p].uid)
      BY <1>0, <2>3, <3>1 DEF Unfinalized, TypeOK
    <3>3. ~api'[p].exists /\ api'[p].uid = api[p].uid
      BY <3>2 DEF Blank
    <3>4. worker'[p].pc = "idle"
      BY <1>0, <2>1 DEF TypeOK, Requeue, Return, Idle
    <3> QED
      BY <1>0, <2>1, <3>3, <3>4 DEF KeyInv, Created, Lasting, Guarded, DeletesForGood, OnlyDelete,
                                    CleansDue, Recorded, CleaningPCs
  <2> QED
    BY <1>3, <2>2, <2>3 DEF RemoveFinalizers
<1>4. CASE GetByName(p) \/ GetByIP(p)
  <2>1. UNCHANGED <<api, cache, now>> /\ w.pc \in {"getByName", "getByIP"}
    BY <1>4 DEF GetByName, GetByIP
  <2>2. CASE Requeue(p)
    BY <1>0, <2>1, <2>2, EndKeeps
  <2>3. CASE \E v : /\ worker' = [worker EXCEPT ![p] = v] /\ v.deletes = w.deletes
                    /\ \/ v.pc = "getByIP"
                       \/ v.pc = "updateStatus" /\ v.outcome \in {"getOk", "getFailed"}
    <3>1. PICK v : /\ worker' = [worker EXCEPT ![p] = v] /\ v.deletes = w.deletes
                   /\ \/ v.pc = "getByIP"
                      \/ v.pc = "updateStatus" /\ v.outcome \in {"getOk", "getFailed"}
      BY <2>3
    <3> QED
      BY <1>0, <2>1, <3>1, SearchKeeps
  <2>4. ASSUME NEW n
        PROVE  /\ GetOk(w, n).deletes = w.deletes /\ GetOk(w, n).pc = "updateStatus"
               /\ GetOk(w, n).outcome = "getOk"
               /\ GetFailed(w).deletes = w.deletes /\ GetFailed(w).pc = "updateStatus"
               /\ GetFailed(w).outcome = "getFailed"
               /\ [w EXCEPT !.pc = "getByIP"].deletes = w.deletes
               /\ [w EXCEPT !.pc = "getByIP"].pc = "getByIP"
    BY <1>0 DEF Worker, GetOk, GetFailed
  <2>5. \/ Requeue(p)
        \/ worker' = [worker EXCEPT ![p] = GetFailed(w)]
        \/ worker' = [worker EXCEPT ![p] = [w EXCEPT !.pc = "getByIP"]]
        \/ \E n : worker' = [worker EXCEPT ![p] = GetOk(w, n)]
    BY <1>4 DEF GetByName, GetByIP
  <2> QED
    BY <2>2, <2>3, <2>4, <2>5
<1>5. CASE UpdateStatus(p)
  <2> DEFINE cached  == cache[p]
             renamed == w.found # cached.name
             recount == w.failed # cached.failed \/ w.outcome \in {"getFailed", "cleanFailed"}
             local   == [cached EXCEPT !.name = w.found, !.failed = w.failed]
             merged  == [api[p] EXCEPT !.name   = IF renamed THEN w.found ELSE @,
                                       !.failed = IF recount THEN w.failed ELSE @]
  <2>1. UNCHANGED <<cache, now>> /\ w.pc = "updateStatus"
    BY <1>5 DEF UpdateStatus
  <2>2. /\ local \in Resource /\ local.exists = cached.exists /\ local.deletedAt = cached.deletedAt
        /\ merged \in Resource /\ merged.exists = api[p].exists /\ merged.uid = api[p].uid
        /\ merged.deletedAt = api[p].deletedAt /\ merged.finalizer = api[p].finalizer
    BY <1>0 DEF Resource, Worker
  <2>3. \/ Requeue(p) /\ UNCHANGED api
        \/ worker' = [worker EXCEPT ![p] = Proceed(w, cached)] /\ cached.exists /\ UNCHANGED api
        \/ worker' = [worker EXCEPT ![p] = Proceed(w, local)] /\ cached.exists /\ UNCHANGED api
        \/ /\ worker' = [worker EXCEPT ![p] = Proceed(w, merged)]
           /\ api[p].exists /\ api' = [api EXCEPT ![p] = merged]
    BY <1>5 DEF UpdateStatus
  <2> HIDE DEF local, merged
  (* The object that the worker goes on with, and what the API server has.   *)
  <2>4. ASSUME NEW o \in Resource, o.exists, worker' = [worker EXCEPT ![p] = Proceed(w, o)],
               \/ o.deletedAt = cached.deletedAt /\ cached.exists /\ UNCHANGED api
               \/ o.deletedAt = api[p].deletedAt /\ api[p].exists
                  /\ api' = [api EXCEPT ![p] = merged]
        PROVE  KeyInv(p)'
    <3> DEFINE u == Proceed(w, o)
    <3>1. worker'[p] = u
      BY <1>0, <2>4 DEF TypeOK
    <3>2. /\ api'[p].exists = api[p].exists /\ api'[p].uid = api[p].uid
          /\ api'[p].deletedAt = api[p].deletedAt /\ api'[p].finalizer = api[p].finalizer
      BY <1>0, <2>2, <2>4 DEF TypeOK
    <3>3. Recorded(p)'
      BY <1>0, <2>1, <2>4, <3>2 DEF KeyInv, Recorded, Guarded
    <3>4. CASE u = Idle
      BY <1>0, <2>1, <3>1, <3>2, <3>3, <3>4
         DEF Idle, KeyInv, Created, Lasting, Guarded, DeletesForGood, OnlyDelete, CleansDue,
             CleaningPCs
    <3>5. CASE u = [w EXCEPT !.obj = o, !.pc = "removeFinalizers"]
               /\ (w.deletes \/ w.outcome = "cleanOk")
      <4>1. u.pc = "removeFinalizers" /\ u.deletes = w.deletes /\ u.deletes
        BY <1>0, <2>1, <3>5 DEF Worker, KeyInv, OnlyDelete
      <4> QED
        BY <1>0, <2>1, <3>1, <3>2, <3>3, <4>1
           DEF KeyInv, Created, Lasting, Guarded, DeletesForGood, OnlyDelete, CleansDue, CleaningPCs
    <3>6. CASE /\ u = [w EXCEPT !.obj = o, !.pc = "getLoadBalancer"]
               /\ w.deletes /\ ~o.doNotClean /\ (o.deletedAt # 0 => GracePeriodElapsed(o))
      <4>1. u.pc = "getLoadBalancer" /\ u.deletes = w.deletes /\ u.obj = o
        BY <1>0, <3>6 DEF Worker
      <4>2. o.deletedAt # 0 /\ (api[p].exists => api[p].deletedAt = o.deletedAt)
        BY <1>0, <2>1, <2>4, <3>6 DEF KeyInv, DeletesForGood, Lasting
      <4>3. Due(o)'
        BY <2>1, <3>6, <4>2 DEF Due, GracePeriodElapsed
      <4> HIDE DEF u
      <4>4. CleansDue(p)'
        BY <3>1, <3>2, <3>6, <4>1, <4>2, <4>3 DEF CleansDue
      <4> QED
        BY <1>0, <2>1, <3>1, <3>2, <3>3, <3>6, <4>1, <4>4
           DEF KeyInv, Created, Lasting, Guarded, DeletesForGood, OnlyDelete, CleaningPCs
    <3> QED
      BY <1>0, <3>4, <3>5, <3>6, ProceedDecides
  <2>5. CASE Requeue(p) /\ UNCHANGED api
    BY <1>0, <2>1, <2>5, EndKeeps
  <2> QED
    BY <1>0, <2>2, <2>3, <2>4, <2>5
<1>6. CASE GetLoadBalancer(p) \/ PutLoadBalancer(p) \/ DeleteIP(p)
  <2>1. UNCHANGED <<api, cache, now>> /\ w.pc \in CleaningPCs /\ w.deletes
    BY <1>0, <1>6 DEF GetLoadBalancer, PutLoadBalancer, DeleteIP, CleaningPCs, KeyInv, OnlyDelete
  <2>2. ASSUME NEW v \in {CleanFailed(w), CleanOk(w)}, worker' = [worker EXCEPT ![p] = v]
        PROVE  KeyInv(p)'
    <3>1. v.pc = "updateStatus" /\ v.deletes = w.deletes
      BY <1>0, <2>2 DEF Worker, CleanFailed, CleanOk
    <3>2. w.pc \notin {"idle", "addFinalizers"}
      BY <2>1 DEF CleaningPCs
    <3> QED
      BY <1>0, <2>1, <2>2, <3>1, <3>2, SearchKeeps
  <2>3. ASSUME NEW v, worker' = [worker EXCEPT ![p] = v], v.pc \in CleaningPCs,
               v.deletes = w.deletes, v.obj = w.obj
        PROVE  KeyInv(p)'
    BY <1>0, <2>1, <2>3, CleanKeeps
  <2> DEFINE put == [w EXCEPT !.pc = "putLoadBalancer", !.frontends = lb \ {w.obj.name}]
             del == [w EXCEPT !.pc = "deleteIP"]
  <2>4. /\ put.pc \in CleaningPCs /\ put.deletes = w.deletes /\ put.obj = w.obj
        /\ del.pc \in CleaningPCs /\ del.deletes = w.deletes /\ del.obj = w.obj
    BY <1>0 DEF Worker, CleaningPCs
  <2>5. \/ worker' = [worker EXCEPT ![p] = CleanFailed(w)]
        \/ worker' = [worker EXCEPT ![p] = CleanOk(w)]
        \/ worker' = [worker EXCEPT ![p] = put]
        \/ worker' = [worker EXCEPT ![p] = del]
    BY <1>6 DEF GetLoadBalancer, PutLoadBalancer, DeleteIP
  <2> HIDE DEF put, del
  <2> QED
    BY <2>2, <2>3, <2>4, <2>5
<1>7. CASE CreateResource(p)
  <2>1. /\ ~api[p].exists /\ api[p].uid < MaxUid /\ UNCHANGED <<cache, worker, now>>
        /\ api' = [api EXCEPT ![p] = [Blank(@.uid + 1) EXCEPT !.exists = TRUE]]
    BY <1>7 DEF CreateResource
  <2>2. ~cache[p].exists /\ worker[p].pc = "idle" /\ api[p].uid = 0
    BY <1>0, <2>1 DEF KeyInv, Created
  <2>3. api'[p].uid = 1 /\ api'[p].name = NoName
    BY <1>0, <2>1, <2>2 DEF Blank, TypeOK
  <2> QED
    BY <1>0, <2>1, <2>2, <2>3
       DEF KeyInv, Created, Lasting, Guarded, DeletesForGood, OnlyDelete, CleansDue, Recorded,
           CleaningPCs
<1>8. CASE DeleteResource(p)
  <2> DEFINE o == IF api[p].finalizer THEN [api[p] EXCEPT !.deletedAt = now] ELSE Blank(api[p].uid)
  <2>1. /\ api[p].exists /\ api[p].deletedAt = 0 /\ UNCHANGED <<cache, worker, now>>
        /\ api'[p] = o
    BY <1>0, <1>8 DEF DeleteResource, TypeOK
  <2>2. /\ o.uid = api[p].uid
        /\ o.exists => o.finalizer /\ o.deletedAt # 0 /\ o.name = api[p].name
    BY <1>0, <2>1 DEF Blank, Resource
  <2> HIDE DEF o
  <2>3. CleansDue(p)' /\ (Due(worker[p].obj) => worker[p].obj.deletedAt # 0)
    BY <1>0, <2>1 DEF KeyInv, CleansDue, Due
  <2> QED
    BY <1>0, <2>1, <2>2, <2>3
       DEF KeyInv, Created, Lasting, Guarded, DeletesForGood, OnlyDelete, Recorded
<1>9. CASE AnnotateDoNotClean(p) \/ RemoveDoNotClean(p)
  <2>1. UNCHANGED <<cache, worker, now>>
    BY <1>9 DEF AnnotateDoNotClean, RemoveDoNotClean
  <2>2. PICK b \in BOOLEAN : api'[p] = [api[p] EXCEPT !.doNotClean = b]
    BY <1>0, <1>9 DEF AnnotateDoNotClean, RemoveDoNotClean, TypeOK
  <2>3. /\ api'[p].exists = api[p].exists /\ api'[p].uid = api[p].uid
        /\ api'[p].deletedAt = api[p].deletedAt /\ api'[p].finalizer = api[p].finalizer
        /\ api'[p].name = api[p].name
    BY <1>0, <2>2 DEF Resource
  <2>4. Due(worker[p].obj) => Due(worker[p].obj)'
    BY <2>1 DEF Due
  <2> QED
    BY <1>0, <2>1, <2>3, <2>4
       DEF KeyInv, Created, Lasting, Guarded, DeletesForGood, OnlyDelete, CleansDue, Recorded
<1>10. CASE SyncCache(p)
  <2>1. cache'[p] = api[p] /\ UNCHANGED <<api, worker, now>>
    BY <1>0, <1>10 DEF SyncCache, TypeOK
  <2>2. Due(worker[p].obj) => Due(worker[p].obj)'
    BY <2>1 DEF Due
  <2> QED
    BY <1>0, <2>1, <2>2
       DEF KeyInv, Created, Lasting, Guarded, DeletesForGood, OnlyDelete, CleansDue, Recorded
<1>11. CASE Restart
  <2>1. cache'[p] = api[p] /\ worker'[p].pc = "idle" /\ UNCHANGED <<api, now>>
    BY <1>11 DEF Restart, Idle
  <2> QED
    BY <1>0, <2>1
       DEF KeyInv, Created, Lasting, Guarded, DeletesForGood, OnlyDelete, CleansDue, Recorded,
           CleaningPCs
<1>12. ASSUME NEW q \in Pubips \ {p},
              \/ WorkerStep(q) \/ CreateResource(q) \/ DeleteResource(q)
              \/ AnnotateDoNotClean(q) \/ RemoveDoNotClean(q) \/ SyncCache(q)
       PROVE  KeyInv(p)'
  <2>1. /\ api'[p] = api[p] /\ cache'[p] = cache[p] /\ now' = now
    BY <1>0, <1>12
       DEF WorkerStep, Reconcile, AddFinalizers, RemoveFinalizers, GetByName, GetByIP, UpdateStatus,
           GetLoadBalancer, PutLoadBalancer, DeleteIP, CreateResource, DeleteResource,
           AnnotateDoNotClean, RemoveDoNotClean, SyncCache, TypeOK
  <2>2. worker'[p] = worker[p]
    BY <1>0, <1>12
       DEF WorkerStep, Reconcile, AddFinalizers, RemoveFinalizers, GetByName, GetByIP, UpdateStatus,
           GetLoadBalancer, PutLoadBalancer, DeleteIP, CreateResource, DeleteResource,
           AnnotateDoNotClean, RemoveDoNotClean, SyncCache, TypeOK, Requeue, Return
  <2> QED
    BY <1>a, <2>1, <2>2
<1>13. CASE CloudStep \/ Tick \/ UNCHANGED vars
  <2>1. UNCHANGED <<api, cache, worker>> /\ (now' = now \/ now' = now + 1)
    BY <1>13 DEF CloudStep, Allocate, Release, Retag, Unassign, Attach, Detach, Tick, vars
  <2> QED
    BY <1>a, <2>1
<1> QED
  BY <1>1, <1>2, <1>3, <1>4, <1>5, <1>6, <1>7, <1>8, <1>9, <1>10, <1>11, <1>12, <1>13
     DEF Next, WorkerStep

(* The invariant holds at the start and is kept.                             *)
LEMMA Invariant == OneIncarnation => (Spec => []IInv)
<1> SUFFICES ASSUME OneIncarnation PROVE Spec => []IInv
  OBVIOUS
<1>1. Init => IInv
  <2> SUFFICES ASSUME Init PROVE IInv
    OBVIOUS
  <2>1. TypeOK
    BY BlankType, IdleType, PubipConstants DEF Init, TypeOK
  <2>2. ASSUME NEW p \in Pubips PROVE KeyInv(p)
    <3>1. ~api[p].exists /\ ~cache[p].exists /\ worker[p].pc = "idle"
      BY DEF Init, Blank, Idle
    <3> QED
      BY <3>1 DEF KeyInv, Created, Lasting, Guarded, DeletesForGood, OnlyDelete, CleansDue,
                  Recorded, CleaningPCs
  <2> QED
    BY <2>1, <2>2 DEF IInv
<1>2. IInv /\ [Next]_vars => IInv'
  BY KeyInductive, TypeInductive DEF IInv
<1> QED
  BY <1>1, <1>2, PTL DEF Spec

(* A resource that records an Azure address carries the finalizer, whatever  *)
(* fails and however far the cache lags behind: reconciler.go adds it before *)
(* the actuator writes a status.                                             *)
THEOREM FinalizerGoesFirst == OneIncarnation => (Spec => []RecordedIsFinalized)
<1>1. IInv => RecordedIsFinalized
  BY DEF IInv, KeyInv, Recorded, RecordedIsFinalized
<1> QED
  BY <1>1, Invariant, PTL

(* Delete cleans an address only after the grace period of a deletion that   *)
(* the API server knows of, and never one that is annotated in the copy it   *)
(* last read, although it decides many calls before it deletes.              *)
THEOREM CleansOnlyWhenDue == OneIncarnation => (Spec => CleansOnlyAfterGracePeriod)
<1> SUFFICES ASSUME OneIncarnation PROVE Spec => CleansOnlyAfterGracePeriod
  OBVIOUS
<1> DEFINE Cleans == \A p \in Pubips : Cleaned(p) # {} =>
               /\ Due(worker[p].obj) /\ ~worker[p].obj.doNotClean
               /\ api[p].exists => Due(api[p])
<1>1. IInv => [Cleans]_vars
  BY DEF IInv, KeyInv, CleansDue, CleaningPCs, Cleaned, Due
<1> QED
  BY <1>1, Invariant, PTL DEF CleansOnlyAfterGracePeriod

-----------------------------------------------------------------------------
(* Leaks.  Delete lets go of a resource when it found no address, when it    *)
(* has deleted the one it found, or when it gave up.  That nothing is left   *)
(* then rests on the names: the name that is deleted is the one the status   *)
(* records, which need not be the one that the search has just found.        *)

(* Names in use are not allocated again, nor is the address of a resource    *)
(* whose deletion is under way, and addresses keep their tags.  Without any  *)
(* one of the three, there are leaks.                                        *)
NoComeback == Habits \cap {"reuse", "claim", "retag"} = {}

(* The name n denotes the address that p specifies.                          *)
Holds(p, n) == \E r \in azure : r.name = n /\ r.ip = SpecIP[p]

(* The addresses left for p are called n; there are none.                    *)
OnlyNamed(p, n) == \A r \in azure : Owns(p, r) => r.name = n
NoneLeft(p) == \A r \in azure : ~Owns(p, r)

UniqueIPs == \A r, s \in azure : r.ip = s.ip /\ r.ip # NoIP => r = s

(* The name found last, and after it the one in the status, outdates the     *)
(* others: they no longer denote the address, and never will again.          *)
FoundIsLatest(p) ==
    LET n == worker[p].found
    IN  n # NoName =>
            \A m \in {api[p].name, cache[p].name, worker[p].obj.name} \ {n} : ~Holds(p, m)

StatusIsLater(p) ==
    LET n == api[p].name
    IN  n # NoName => \A m \in {cache[p].name, worker[p].obj.name} \ {n} : ~Holds(p, m)

(* The object says why its address may be left behind.                       *)
LetGo(o) ==
    \/ o.doNotClean
    \/ o.failed["Get"] >= MaxGetAttempts
    \/ o.failed["Clean"] >= MaxCleanAttempts

(* What Delete knows of the address at each of its control points.           *)
Accounted(p) ==
    LET w == worker[p]
    IN  /\ w.pc = "updateStatus" /\ w.deletes =>
              /\ w.outcome # "none"
              /\ w.outcome = "getOk" =>
                    IF w.found = NoName THEN NoneLeft(p) ELSE OnlyNamed(p, w.found)
              /\ w.outcome = "cleanOk" => NoneLeft(p)
        /\ w.pc \in CleaningPCs => OnlyNamed(p, w.obj.name)
        /\ w.pc = "removeFinalizers" => LetGo(w.obj) \/ NoneLeft(p)

Latest(p) == FoundIsLatest(p) /\ StatusIsLater(p)

LeakInv(p) == Latest(p) /\ OnlyDelete(p) /\ Accounted(p)

(* What does not exist records no name.                                      *)
GoneIsBlank == \A p \in Pubips : ~api[p].exists => api[p].name = NoName

LInv == TypeOK /\ UniqueIPs /\ GoneIsBlank /\ \A p \in Pubips : LeakInv(p)

(* Where an address is left, it is the only one, and it is held by its name. *)
LEMMA OwnsHolds ==
    ASSUME NEW p \in Pubips, NEW r \in azure, Owns(p, r)
    PROVE  Holds(p, r.name)
BY DEF Owns, Holds

(* Found names and those that become outdated.                               *)
LEMMA HoldsOnce ==
    ASSUME UniqueIPs, NEW p \in Pubips, NEW r \in azure, r.ip = SpecIP[p]
    PROVE  /\ \A m : m # r.name => ~Holds(p, m)
           /\ OnlyNamed(p, r.name)
<1>1. r.ip # NoIP
  BY PubipConstants
<1>2. \A s \in azure : s.ip = SpecIP[p] => s = r
  BY <1>1 DEF UniqueIPs
<1> QED
  BY <1>2 DEF Holds, OnlyNamed, Owns

(* A step of the cloud provider leaves the names in use, and the addresses   *)
(* of the resources whose deletion is under way, as they are or takes them   *)
(* away.                                                                     *)
LEMMA CloudKeeps ==
    ASSUME NoComeback, TypeOK, UniqueIPs, CloudStep
    PROVE  /\ UniqueIPs'
           /\ UNCHANGED <<api, cache, worker>>
           /\ \A p \in Pubips :
                 /\ \A n \in Refs(p) : Holds(p, n)' => Holds(p, n)
                 /\ worker[p].deletes => \A r \in azure' : Owns(p, r) => r \in azure
<1>1. CASE \E r \in azure : Release(r)
  BY <1>1 DEF Release, UniqueIPs, Holds
<1>2. CASE \E n \in AzNames : Attach(n) \/ Detach(n)
  BY <1>2 DEF Attach, Detach, UniqueIPs, Holds
<1>3. ASSUME NEW r \in azure, Unassign(r)
      PROVE  /\ UniqueIPs'
             /\ UNCHANGED <<api, cache, worker>>
             /\ \A p \in Pubips :
                   /\ \A n \in Refs(p) : Holds(p, n)' => Holds(p, n)
                   /\ worker[p].deletes => \A s \in azure' : Owns(p, s) => s \in azure
  <2> DEFINE u == [r EXCEPT !.ip = NoIP]
  <2>1. azure' = (azure \ {r}) \cup {u} /\ UNCHANGED <<api, cache, worker>>
    BY <1>3 DEF Unassign
  <2>2. u.ip = NoIP
    BY DEF TypeOK, AzureIP
  <2>3. \A p \in Pubips : SpecIP[p] # NoIP
    BY PubipConstants
  <2> HIDE DEF u
  <2> QED
    BY <2>1, <2>2, <2>3 DEF UniqueIPs, Holds, Owns
<1>4. ASSUME NEW n \in AzNames, NEW ip \in IPs, NEW svc \in Services \cup {NoService},
             Allocate(n, ip, svc)
      PROVE  /\ UniqueIPs'
             /\ UNCHANGED <<api, cache, worker>>
             /\ \A p \in Pubips :
                   /\ \A m \in Refs(p) : Holds(p, m)' => Holds(p, m)
                   /\ worker[p].deletes => \A s \in azure' : Owns(p, s) => s \in azure
  <2> DEFINE r == [name |-> n, ip |-> ip, tag |-> svc]
  <2>1. /\ azure' = azure \cup {r} /\ UNCHANGED <<api, cache, worker>>
        /\ \A s \in azure : s.ip # ip
        /\ FreshName(n)
        /\ \A p \in Pubips : NameMatches(p, r) /\ TagMatches(p, r) => ~DeletionUnderWay(p)
    BY <1>4 DEF Allocate, NoComeback
  <2>2. r.name = n /\ r.ip = ip
    OBVIOUS
  <2>3. UniqueIPs'
    BY <2>1, <2>2 DEF UniqueIPs
  <2>4. ASSUME NEW p \in Pubips, NEW m \in Refs(p), Holds(p, m)' PROVE Holds(p, m)
    BY <2>1, <2>2, <2>4 DEF Holds, FreshName, Refs
  <2>5. ASSUME NEW p \in Pubips, worker[p].deletes PROVE ~Owns(p, r)
    BY <2>1, <2>5 DEF Owns, NameMatches, TagMatches, DeletionUnderWay
  <2> QED
    BY <2>1, <2>3, <2>4, <2>5
<1> QED
  BY <1>1, <1>2, <1>3, <1>4 DEF CloudStep, Retag, NoComeback

(* A step of p that refers only to names already referred to, and in which   *)
(* the status stays behind no other name, keeps the order of the names.      *)
LEMMA LatestKeeps ==
    ASSUME NEW p \in Pubips, Latest(p),
           \A n \in Refs(p) : Holds(p, n)' => Holds(p, n),
           worker'[p].found \in {worker[p].found, NoName},
           api'[p].name \in {NoName, api[p].name, worker[p].found},
           cache'[p].name \in {cache[p].name, api[p].name},
           worker'[p].obj.name \in {worker[p].obj.name, cache[p].name, api'[p].name, NoName},
           ~Holds(p, NoName)'
    PROVE  Latest(p)'
BY DEF Latest, FoundIsLatest, StatusIsLater, Refs

(* What a step means for p that leaves p and its worker alone.               *)
LEMMA LeakFrame ==
    ASSUME NEW p \in Pubips, LeakInv(p),
           api'[p] = api[p], cache'[p] = cache[p], worker'[p] = worker[p],
           \A n \in Refs(p) : Holds(p, n)' => Holds(p, n),
           worker[p].deletes => \A r \in azure' : Owns(p, r) => r \in azure
    PROVE  LeakInv(p)'
<1>1. Latest(p)'
  BY DEF LeakInv, Latest, FoundIsLatest, StatusIsLater, Refs
<1>2. OnlyDelete(p)'
  BY DEF LeakInv, OnlyDelete
<1>3. /\ ~worker[p].deletes \/ (NoneLeft(p) => NoneLeft(p)')
      /\ ~worker[p].deletes \/ \A n : OnlyNamed(p, n) => OnlyNamed(p, n)'
  BY DEF NoneLeft, OnlyNamed, Owns
<1>4. Accounted(p)'
  BY <1>3 DEF LeakInv, OnlyDelete, Accounted, LetGo, CleaningPCs
<1> QED
  BY <1>1, <1>2, <1>4 DEF LeakInv

(* Nothing is known of the address before the search.                        *)
QuietPCs == {"idle", "addFinalizers", "getByName", "getByIP"}

LEMMA QuietKeeps ==
    ASSUME NEW p \in Pubips, Latest(p)', worker'[p].pc \in QuietPCs
    PROVE  LeakInv(p)'
BY DEF QuietPCs, LeakInv, OnlyDelete, Accounted, CleaningPCs

(* What the status update records, and what the worker goes on with.         *)
LEMMA UpdateStatusCases ==
    ASSUME TypeOK, NEW p \in Pubips, UpdateStatus(p)
    PROVE  LET w == worker[p]
               known(o) ==
                   /\ w.outcome \in {"getFailed", "cleanFailed"} => o.failed = w.failed
                   /\ o.name # w.found => o.name = api[p].name /\ w.found = cache[p].name
           IN  \/ Requeue(p) /\ UNCHANGED api
               \/ \E o \in Resource :
                     /\ known(o)
                     /\ worker' = [worker EXCEPT ![p] = Proceed(w, o)]
                     /\ \/ UNCHANGED api /\ (~api[p].exists \/ o.name = cache[p].name)
                        \/ /\ api' = [api EXCEPT ![p] = o] /\ o.exists = api[p].exists
                           /\ o.name \in {w.found, api[p].name}
<1> DEFINE w       == worker[p]
           cached  == cache[p]
           renamed == w.found # cached.name
           recount == w.failed # cached.failed \/ w.outcome \in {"getFailed", "cleanFailed"}
           local   == [cached EXCEPT !.name = w.found, !.failed = w.failed]
           merged  == [api[p] EXCEPT !.name   = IF renamed THEN w.found ELSE @,
                                     !.failed = IF recount THEN w.failed ELSE @]
<1>1. w \in Worker /\ cached \in Resource /\ api[p] \in Resource
  BY DEF TypeOK
<1>2. /\ local \in Resource /\ local.name = w.found /\ local.failed = w.failed
      /\ merged \in Resource /\ merged.exists = api[p].exists
      /\ merged.name = (IF renamed THEN w.found ELSE api[p].name)
      /\ merged.failed = (IF recount THEN w.failed ELSE api[p].failed)
  BY <1>1 DEF Resource, Worker
<1>3. \/ Requeue(p) /\ UNCHANGED api
      \/ /\ worker' = [worker EXCEPT ![p] = Proceed(w, cached)] /\ UNCHANGED api
         /\ ~renamed /\ ~recount
      \/ /\ worker' = [worker EXCEPT ![p] = Proceed(w, local)] /\ UNCHANGED api
         /\ ~api[p].exists
      \/ /\ worker' = [worker EXCEPT ![p] = Proceed(w, merged)]
         /\ api' = [api EXCEPT ![p] = merged]
  BY DEF UpdateStatus
<1> HIDE DEF local, merged
<1> QED
  BY <1>1, <1>2, <1>3

(* Delete goes on with an object that accounts for the address.              *)
LEMMA ProceedAccounts ==
    ASSUME NEW w \in Worker, NEW o \in Resource, NEW none, NEW only,
           none \in BOOLEAN, only \in BOOLEAN,
           w.outcome # "none", w.outcome \in {"cleanOk", "cleanFailed"} => w.deletes,
           w.outcome \in {"getFailed", "cleanFailed"} => o.failed = w.failed,
           w.deletes /\ w.outcome = "cleanOk" => none,
           w.deletes /\ w.outcome = "getOk" => IF w.found = NoName THEN none ELSE only
    PROVE  \/ Proceed(w, o) = Idle
           \/ /\ Proceed(w, o) = [w EXCEPT !.obj = o, !.pc = "removeFinalizers"]
              /\ w.deletes /\ (LetGo(o) \/ none)
           \/ /\ Proceed(w, o) = [w EXCEPT !.obj = o, !.pc = "getLoadBalancer"]
              /\ w.deletes /\ w.outcome = "getOk" /\ o.name # NoName /\ w.found # NoName /\ only
<1>0. /\ w.failed["Get"] \in Int /\ w.failed["Clean"] \in Int
      /\ MaxGetAttempts \in Int /\ MaxCleanAttempts \in Int
  BY PubipConstants, AttemptsBoundAssumption DEF Worker, Failed, FailedOperationsOf, OpTypes
<1>1. CASE w.outcome = "getFailed"
  BY <1>0, <1>1 DEF Proceed, LetGo
<1>2. CASE w.outcome = "cleanFailed"
  BY <1>0, <1>2 DEF Proceed, LetGo
<1>3. CASE w.outcome = "cleanOk"
  BY <1>3 DEF Proceed
<1>4. CASE w.outcome = "getOk"
  <2>1. Proceed(w, o) =
           IF ~w.deletes THEN Idle
           ELSE IF w.found = NoName \/ o.doNotClean
                THEN [w EXCEPT !.obj = o, !.pc = "removeFinalizers"]
           ELSE IF o.deletedAt # 0 /\ ~GracePeriodElapsed(o) THEN Idle
           ELSE IF o.name = NoName THEN Idle
           ELSE [w EXCEPT !.obj = o, !.pc = "getLoadBalancer"]
    BY <1>4 DEF Proceed
  <2> QED
    BY <1>4, <2>1 DEF LetGo
<1> QED
  BY <1>1, <1>2, <1>3, <1>4 DEF Worker, Outcomes

(* A resource that is gone left its status behind.                           *)
LEMMA GoneInductive ==
    ASSUME TypeOK, GoneIsBlank, [Next]_vars
    PROVE  GoneIsBlank'
<1>1. CASE UNCHANGED api
  BY <1>1 DEF GoneIsBlank
<1>2. ASSUME NEW p \in Pubips, NEW o, api' = [api EXCEPT ![p] = o], ~o.exists => o.name = NoName
      PROVE  GoneIsBlank'
  BY <1>2 DEF TypeOK, GoneIsBlank
<1>3. \A p \in Pubips : api[p] \in Resource /\ (~api[p].exists => api[p].name = NoName)
  BY DEF TypeOK, GoneIsBlank
<1>4. \A u : Blank(u).name = NoName
  BY DEF Blank
<1>5. ASSUME NEW p \in Pubips, AddFinalizers(p) PROVE GoneIsBlank'
  <2> DEFINE o == [worker[p].obj EXCEPT !.finalizer = TRUE]
  <2>1. worker[p].obj = api[p] => (~o.exists => o.name = NoName)
    BY <1>3 DEF Resource
  <2> HIDE DEF o
  <2>2. UNCHANGED api \/ (worker[p].obj = api[p] /\ api' = [api EXCEPT ![p] = o])
    BY <1>5 DEF AddFinalizers, o
  <2> QED
    BY <1>1, <1>2, <2>1, <2>2
<1>6. ASSUME NEW p \in Pubips, RemoveFinalizers(p) PROVE GoneIsBlank'
  <2>1. ~Unfinalized(api[p]).exists => Unfinalized(api[p]).name = NoName
    BY <1>3, <1>4 DEF Unfinalized, Resource
  <2> QED
    BY <1>1, <1>2, <1>6, <2>1 DEF RemoveFinalizers
<1>7. ASSUME NEW p \in Pubips, UpdateStatus(p) PROVE GoneIsBlank'
  <2>1. \A n, f : [api[p] EXCEPT !.name = n, !.failed = f].exists = api[p].exists
    BY <1>3 DEF Resource
  <2>2. \/ UNCHANGED api
        \/ \E n, f : api[p].exists /\ api' = [api EXCEPT ![p] = [api[p] EXCEPT !.name = n,
                                                                             !.failed = f]]
    BY <1>7 DEF UpdateStatus
  <2> QED
    BY <1>1, <1>2, <2>1, <2>2
<1>8. ASSUME NEW p \in Pubips, CreateResource(p) \/ DeleteResource(p) PROVE GoneIsBlank'
  <2>1. [Blank(api[p].uid + 1) EXCEPT !.exists = TRUE].name = NoName
    BY DEF Blank
  <2>2. [api[p] EXCEPT !.deletedAt = now].exists = api[p].exists
    BY <1>3 DEF Resource
  <2> QED
    BY <1>2, <1>4, <1>8, <2>1, <2>2 DEF CreateResource, DeleteResource
<1>9. ASSUME NEW p \in Pubips, AnnotateDoNotClean(p) \/ RemoveDoNotClean(p) PROVE GoneIsBlank'
  <2>1. \A b : [api[p] EXCEPT !.doNotClean = b].exists = api[p].exists
    BY <1>3 DEF Resource
  <2>2. \E b : api' = [api EXCEPT ![p] = [api[p] EXCEPT !.doNotClean = b]]
    BY <1>9 DEF AnnotateDoNotClean, RemoveDoNotClean
  <2> QED
    BY <1>2, <1>9, <2>1, <2>2 DEF AnnotateDoNotClean, RemoveDoNotClean
<1> QED
  BY <1>1, <1>5, <1>6, <1>7, <1>8, <1>9
     DEF Next, vars, WorkerStep, Reconcile, GetByName, GetByIP, GetLoadBalancer, PutLoadBalancer,
         DeleteIP, SyncCache, Restart, Tick, CloudStep, Allocate, Release, Retag, Unassign,
         Attach, Detach

(* Every step keeps the invariant: one step of the proof per action.         *)
LEMMA LeakInductive ==
    ASSUME NoComeback, LInv, [Next]_vars, TypeOK', NEW p \in Pubips
    PROVE  LeakInv(p)'
<1> DEFINE w == worker[p]
<1>0. /\ TypeOK /\ UniqueIPs /\ LeakInv(p) /\ Latest(p) /\ Accounted(p) /\ OnlyDelete(p)
      /\ api[p] \in Resource /\ cache[p] \in Resource /\ w \in Worker /\ w.obj \in Resource
      /\ ~api[p].exists => api[p].name = NoName
  BY DEF LInv, LeakInv, TypeOK, Worker, GoneIsBlank
<1>n. ~Holds(p, NoName)'
  BY PubipConstants DEF Holds, TypeOK, AzureIP
<1>1. CASE Reconcile(p)
  <2>1. w.pc = "idle" /\ worker'[p] = Dispatch(cache[p]) /\ UNCHANGED <<api, cache, azure>>
    BY <1>0, <1>1 DEF Reconcile, TypeOK
  <2>2. Dispatch(cache[p]).pc \in QuietPCs
    BY DEF Dispatch, Idle, GetPC, QuietPCs
  <2>3. /\ Dispatch(cache[p]).obj.name \in {cache[p].name, NoName}
        /\ Dispatch(cache[p]).found = NoName
    BY <1>0, HandlerNames
  <2>4. Latest(p)'
    BY <1>0, <1>n, <2>1, <2>3, LatestKeeps DEF Holds
  <2> QED
    BY <2>1, <2>2, <2>4, QuietKeeps
<1>2. ASSUME \/ UNCHANGED api
             \/ api'[p].name \in {api[p].name, NoName},
             Requeue(p) \/ Return(p), UNCHANGED <<cache, azure>>
      PROVE  LeakInv(p)'
  <2>1. worker'[p] = Idle
    BY <1>0, <1>2 DEF Requeue, Return, TypeOK
  <2>2. Idle.obj.name = NoName /\ Idle.found = NoName /\ Idle.pc \in QuietPCs
    BY BlankNames DEF Idle, QuietPCs
  <2>3. Latest(p)'
    BY <1>0, <1>2, <1>n, <2>1, <2>2, LatestKeeps DEF Holds
  <2> QED
    BY <2>1, <2>2, <2>3, QuietKeeps
<1>3. CASE AddFinalizers(p)
  <2> DEFINE o == [w.obj EXCEPT !.finalizer = TRUE]
             u == [w EXCEPT !.obj = o, !.pc = GetPC(o)]
  <2>1. CASE UNCHANGED api /\ (Requeue(p) \/ Return(p))
    BY <1>2, <1>3, <2>1 DEF AddFinalizers
  <2>2. CASE /\ api[p] = w.obj /\ api' = [api EXCEPT ![p] = o]
             /\ worker' = [worker EXCEPT ![p] = u]
    <3>1. /\ o.name = w.obj.name /\ u.obj.name = w.obj.name /\ u.found = w.found
          /\ u.pc \in QuietPCs
      BY <1>0 DEF Resource, Worker, GetPC, QuietPCs
    <3>2. worker'[p] = u /\ api'[p] = o /\ UNCHANGED <<cache, azure>>
      BY <1>0, <1>3, <2>2 DEF AddFinalizers, TypeOK
    <3> HIDE DEF o, u
    <3>3. Latest(p)'
      BY <1>0, <1>n, <2>2, <3>1, <3>2, LatestKeeps DEF Holds
    <3> QED
      BY <3>1, <3>2, <3>3, QuietKeeps
  <2> QED
    BY <1>3, <2>1, <2>2 DEF AddFinalizers
<1>4. CASE RemoveFinalizers(p)
  <2>1. api'[p] \in {api[p], Unfinalized(api[p])} /\ UNCHANGED <<cache, azure>>
    BY <1>0, <1>4 DEF RemoveFinalizers, TypeOK
  <2>2. Unfinalized(api[p]).name \in {api[p].name, NoName}
    BY <1>0, BlankNames DEF Unfinalized, Resource
  <2>3. Requeue(p) \/ Return(p)
    BY <1>4 DEF RemoveFinalizers
  <2> QED
    BY <1>2, <2>1, <2>2, <2>3
<1>5. ASSUME NEW n \in AzNames \cup {NoName}, UNCHANGED <<api, cache, azure>>,
             worker'[p] = GetOk(w, n), w.pc \in {"getByName", "getByIP"},
             IF n = NoName THEN NoneLeft(p) ELSE \E r \in azure : r.name = n /\ r.ip = SpecIP[p]
      PROVE  LeakInv(p)'
  <2> DEFINE u == GetOk(w, n)
  <2>1. /\ u.obj = w.obj /\ u.found = n /\ u.pc = "updateStatus" /\ u.outcome = "getOk"
        /\ u.deletes = w.deletes /\ worker'[p] = u
    BY <1>0, <1>5 DEF GetOk, Worker
  <2> HIDE DEF u
  <2>2. n # NoName => (\A m : m # n => ~Holds(p, m)) /\ OnlyNamed(p, n)
    BY <1>0, <1>5, HoldsOnce
  <2>3. Latest(p)'
    BY <1>0, <1>5, <2>1, <2>2 DEF Latest, FoundIsLatest, StatusIsLater, Holds
  <2>4. Accounted(p)'
    BY <1>5, <2>1, <2>2 DEF Accounted, CleaningPCs, NoneLeft, OnlyNamed, Owns
  <2>5. OnlyDelete(p)'
    BY <1>5, <2>1 DEF OnlyDelete, CleaningPCs
  <2> QED
    BY <2>3, <2>4, <2>5 DEF LeakInv
<1>6. CASE GetByName(p) \/ GetByIP(p)
  <2> DEFINE onward == [w EXCEPT !.pc = "getByIP"]
  <2>1. UNCHANGED <<api, cache, azure>> /\ w.pc \in {"getByName", "getByIP"}
    BY <1>6 DEF GetByName, GetByIP
  <2>2. \/ Requeue(p)
        \/ worker'[p] = GetFailed(w)
        \/ worker'[p] = onward
        \/ \E n \in AzNames \cup {NoName} :
              /\ worker'[p] = GetOk(w, n)
              /\ IF n = NoName THEN NoneLeft(p)
                 ELSE \E r \in azure : r.name = n /\ r.ip = SpecIP[p]
    <3>1. \A r \in azure : r.name \in AzNames /\ r.name # NoName
      BY <1>0, PubipConstants DEF TypeOK, AzureIP
    <3>2. (\A r \in azure : r.ip = SpecIP[p] => ~TagMatches(p, r)) => NoneLeft(p)
      BY DEF TagMatches, NoneLeft, Owns
    <3>3. CASE GetByName(p)
      BY <1>0, <3>1, <3>3 DEF GetByName, Named, NameMatches, TypeOK
    <3>4. CASE GetByIP(p)
      BY <1>0, <3>1, <3>2, <3>4 DEF GetByIP, TypeOK
    <3> QED
      BY <1>6, <3>3, <3>4
  <2>3. CASE Requeue(p)
    BY <1>2, <2>1, <2>3
  <2>4. CASE worker'[p] = GetFailed(w)
    <3>1. /\ GetFailed(w).obj = w.obj /\ GetFailed(w).found = NoName
          /\ GetFailed(w).pc = "updateStatus" /\ GetFailed(w).outcome = "getFailed"
      BY <1>0 DEF GetFailed, Worker
    <3>2. Latest(p)'
      BY <1>0, <1>n, <2>1, <2>4, <3>1, LatestKeeps DEF Holds
    <3> QED
      BY <2>4, <3>1, <3>2 DEF LeakInv, OnlyDelete, Accounted, CleaningPCs
  <2>5. CASE worker'[p] = onward
    <3>1. onward.obj = w.obj /\ onward.found = w.found /\ onward.pc \in QuietPCs
      BY <1>0 DEF Worker, QuietPCs
    <3> HIDE DEF onward
    <3>2. Latest(p)'
      BY <1>0, <1>n, <2>1, <2>5, <3>1, LatestKeeps DEF Holds
    <3> QED
      BY <2>5, <3>1, <3>2, QuietKeeps
  <2> QED
    BY <1>5, <2>1, <2>2, <2>3, <2>4, <2>5
<1>7. CASE UpdateStatus(p)
  <2>0. w.pc = "updateStatus" /\ UNCHANGED <<cache, azure>>
    BY <1>7 DEF UpdateStatus
  <2>1. CASE Requeue(p) /\ UNCHANGED api
    BY <1>2, <2>0, <2>1
  <2>2. ASSUME NEW o \in Resource,
               w.outcome \in {"getFailed", "cleanFailed"} => o.failed = w.failed,
               o.name # w.found => o.name = api[p].name /\ w.found = cache[p].name,
               worker' = [worker EXCEPT ![p] = Proceed(w, o)],
               \/ UNCHANGED api /\ (~api[p].exists \/ o.name = cache[p].name)
               \/ api' = [api EXCEPT ![p] = o] /\ o.name \in {w.found, api[p].name}
        PROVE  LeakInv(p)'
    <3> DEFINE u == Proceed(w, o)
    <3>1. /\ worker'[p] = u
          /\ \/ /\ api'[p].name = api[p].name
                /\ api[p].name = NoName \/ o.name = cache[p].name
             \/ api'[p].name = o.name /\ o.name \in {w.found, api[p].name}
      BY <1>0, <2>2 DEF TypeOK
    <3>2. u.obj.name \in {o.name, NoName} /\ u.found \in {w.found, NoName}
      BY <1>0, HandlerNames
    <3> HIDE DEF u
    <3>a. (\A m : Holds(p, m)' = Holds(p, m)) /\ cache'[p] = cache[p]
      BY <2>0 DEF Holds
    <3>3. Latest(p)'
      <4>1. o.name \in {w.found, api[p].name, cache[p].name}
        BY <2>2
      <4>2. FoundIsLatest(p)'
        BY <1>0, <1>n, <3>1, <3>2, <3>a, <4>1 DEF Latest, FoundIsLatest
      <4>3. StatusIsLater(p)'
        BY <1>0, <1>n, <3>1, <3>2, <3>a, <4>1 DEF Latest, FoundIsLatest, StatusIsLater
      <4> QED
        BY <4>2, <4>3 DEF Latest
    <3>4. CASE ~w.deletes /\ w.outcome = "none"
      BY <1>0, <2>0, <3>1, <3>3, <3>4, QuietKeeps DEF u, Proceed, Idle, QuietPCs
    <3>5. CASE w.deletes \/ w.outcome # "none"
      <4>1. w.outcome # "none" /\ (w.outcome \in {"cleanOk", "cleanFailed"} => w.deletes)
        BY <1>0, <2>0, <3>5 DEF Accounted, OnlyDelete
      <4>2. /\ w.deletes /\ w.outcome = "cleanOk" => NoneLeft(p)
            /\ w.deletes /\ w.outcome = "getOk" =>
                  IF w.found = NoName THEN NoneLeft(p) ELSE OnlyNamed(p, w.found)
        BY <1>0, <2>0 DEF Accounted
      <4>3. \/ u = Idle
            \/ /\ u = [w EXCEPT !.obj = o, !.pc = "removeFinalizers"]
               /\ w.deletes /\ (LetGo(o) \/ NoneLeft(p))
            \/ /\ u = [w EXCEPT !.obj = o, !.pc = "getLoadBalancer"]
               /\ w.deletes /\ w.outcome = "getOk" /\ o.name # NoName /\ w.found # NoName
               /\ OnlyNamed(p, w.found)
        <5>1. NoneLeft(p) \in BOOLEAN /\ OnlyNamed(p, w.found) \in BOOLEAN
          BY DEF NoneLeft, OnlyNamed
        <5> QED
          BY <1>0, <2>2, <4>1, <4>2, <5>1, ProceedAccounts DEF u
      <4>4. CASE u = Idle
        BY <3>1, <3>3, <4>4, QuietKeeps DEF Idle, QuietPCs
      <4>5. CASE /\ u = [w EXCEPT !.obj = o, !.pc = "removeFinalizers"]
                 /\ w.deletes /\ (LetGo(o) \/ NoneLeft(p))
        <5>1. u.pc = "removeFinalizers" /\ u.obj = o /\ u.deletes
          BY <1>0, <4>5 DEF Worker
        <5> QED
          BY <2>0, <3>1, <3>3, <4>5, <5>1
             DEF LeakInv, OnlyDelete, Accounted, CleaningPCs, LetGo, NoneLeft, Owns
      <4>6. CASE /\ u = [w EXCEPT !.obj = o, !.pc = "getLoadBalancer"]
                 /\ w.deletes /\ w.outcome = "getOk" /\ o.name # NoName /\ w.found # NoName
                 /\ OnlyNamed(p, w.found)
        <5>1. u.pc = "getLoadBalancer" /\ u.obj = o /\ u.deletes
          BY <1>0, <4>6 DEF Worker
        (* The recorded name may be another one than the name found, which   *)
        (* the cache still has; but then neither denotes the address.        *)
        <5>2. OnlyNamed(p, o.name)
          <6>1. CASE o.name = w.found
            BY <4>6, <6>1
          <6>2. CASE o.name # w.found
            <7>1. ~Holds(p, w.found)
              BY <1>0, <2>2, <4>6, <6>2 DEF Latest, StatusIsLater
            <7> QED
              BY <4>6, <7>1, OwnsHolds DEF OnlyNamed
          <6> QED
            BY <6>1, <6>2
        <5> QED
          BY <2>0, <3>1, <3>3, <5>1, <5>2
             DEF LeakInv, OnlyDelete, Accounted, CleaningPCs, OnlyNamed, Owns
      <4> QED
        BY <4>3, <4>4, <4>5, <4>6
    <3> QED
      BY <3>4, <3>5
  <2> QED
    BY <1>0, <1>7, <2>1, <2>2, UpdateStatusCases
<1>8. CASE GetLoadBalancer(p) \/ PutLoadBalancer(p) \/ DeleteIP(p)
  <2> DEFINE put == [w EXCEPT !.pc = "putLoadBalancer", !.frontends = lb \ {w.obj.name}]
             del == [w EXCEPT !.pc = "deleteIP"]
  <2>1. /\ UNCHANGED <<api, cache>> /\ azure' \subseteq azure
        /\ w.pc \in CleaningPCs /\ w.deletes /\ OnlyNamed(p, w.obj.name)
    BY <1>0, <1>8
       DEF GetLoadBalancer, PutLoadBalancer, DeleteIP, CleaningPCs, OnlyDelete, Accounted
  <2>2. \/ worker'[p] = CleanFailed(w)
        \/ worker'[p] = put
        \/ worker'[p] = del
        \/ worker'[p] = CleanOk(w) /\ azure' = azure \ Named(w.obj.name)
    BY <1>0, <1>8 DEF GetLoadBalancer, PutLoadBalancer, DeleteIP, TypeOK
  <2>3. ASSUME worker'[p].found \in {w.found, NoName}, worker'[p].obj = w.obj PROVE Latest(p)'
    BY <1>0, <1>n, <2>1, <2>3, LatestKeeps DEF Holds
  <2>4. CASE worker'[p] = CleanFailed(w)
    <3>1. /\ CleanFailed(w).pc = "updateStatus" /\ CleanFailed(w).outcome = "cleanFailed"
          /\ CleanFailed(w).deletes = w.deletes
          /\ CleanFailed(w).obj = w.obj /\ CleanFailed(w).found = w.found
      BY <1>0 DEF CleanFailed, Worker
    <3> QED
      BY <2>1, <2>3, <2>4, <3>1 DEF LeakInv, OnlyDelete, Accounted, CleaningPCs
  <2>5. CASE worker'[p] \in {put, del}
    <3>1. \A u \in {put, del} : /\ u.pc \in CleaningPCs /\ u.deletes = w.deletes
                                /\ u.obj = w.obj /\ u.found = w.found
      BY <1>0 DEF Worker, CleaningPCs
    <3> HIDE DEF put, del
    <3> QED
      BY <2>1, <2>3, <2>5, <3>1 DEF LeakInv, OnlyDelete, Accounted, CleaningPCs, OnlyNamed, Owns
  <2>6. CASE worker'[p] = CleanOk(w) /\ azure' = azure \ Named(w.obj.name)
    <3>1. /\ CleanOk(w).pc = "updateStatus" /\ CleanOk(w).outcome = "cleanOk"
          /\ CleanOk(w).deletes = w.deletes
          /\ CleanOk(w).obj = w.obj /\ CleanOk(w).found = NoName
      BY <1>0 DEF CleanOk, Worker
    <3>2. NoneLeft(p)'
      BY <2>1, <2>6 DEF OnlyNamed, NoneLeft, Named, Owns
    <3> QED
      BY <2>1, <2>3, <2>6, <3>1, <3>2 DEF LeakInv, OnlyDelete, Accounted, CleaningPCs
  <2> QED
    BY <2>2, <2>4, <2>5, <2>6
<1>9. ASSUME api'[p].name \in {api[p].name, NoName}, cache'[p].name \in {cache[p].name, api[p].name},
             UNCHANGED <<worker, azure>>
      PROVE  LeakInv(p)'
  <2>1. Latest(p)'
    BY <1>0, <1>9, <1>n, LatestKeeps DEF Holds
  <2> QED
    BY <1>0, <1>9, <2>1 DEF LeakInv, OnlyDelete, Accounted, LetGo, NoneLeft, OnlyNamed, Owns
<1>10. CASE CreateResource(p) \/ DeleteResource(p) \/ AnnotateDoNotClean(p) \/ RemoveDoNotClean(p)
  <2>1. \A b \in BOOLEAN : [api[p] EXCEPT !.doNotClean = b].name = api[p].name
    BY <1>0 DEF Resource
  <2>2. [api[p] EXCEPT !.deletedAt = now].name = api[p].name /\ Blank(api[p].uid).name = NoName
    BY <1>0 DEF Resource, Blank
  <2>3. [Blank(api[p].uid + 1) EXCEPT !.exists = TRUE].name = NoName
    BY DEF Blank
  <2>4. /\ api'[p].name \in {api[p].name, NoName}
        /\ UNCHANGED <<cache, worker, azure>>
    <3>1. CASE CreateResource(p)
      BY <1>0, <2>3, <3>1 DEF CreateResource, TypeOK
    <3>2. CASE DeleteResource(p)
      BY <1>0, <2>2, <3>2 DEF DeleteResource, TypeOK
    <3>3. CASE AnnotateDoNotClean(p) \/ RemoveDoNotClean(p)
      BY <1>0, <2>1, <3>3 DEF AnnotateDoNotClean, RemoveDoNotClean, TypeOK
    <3> QED
      BY <1>10, <3>1, <3>2, <3>3
  <2> QED
    BY <1>9, <2>4
<1>11. CASE SyncCache(p)
  <2>1. cache'[p] = api[p] /\ UNCHANGED <<api, worker, azure>>
    BY <1>0, <1>11 DEF SyncCache, TypeOK
  <2> QED
    BY <1>9, <2>1
<1>12. CASE Restart
  <2>1. cache'[p] = api[p] /\ worker'[p] = Idle /\ UNCHANGED <<api, azure>>
    BY <1>12 DEF Restart
  <2>2. Idle.obj.name = NoName /\ Idle.found = NoName /\ Idle.pc \in QuietPCs
    BY BlankNames DEF Idle, QuietPCs
  <2>3. Latest(p)'
    BY <1>0, <1>n, <2>1, <2>2, LatestKeeps DEF Holds
  <2> QED
    BY <2>1, <2>2, <2>3, QuietKeeps
<1>13. ASSUME NEW q \in Pubips \ {p},
              \/ WorkerStep(q) \/ CreateResource(q) \/ DeleteResource(q)
              \/ AnnotateDoNotClean(q) \/ RemoveDoNotClean(q) \/ SyncCache(q)
       PROVE  LeakInv(p)'
  <2>1. api'[p] = api[p] /\ cache'[p] = cache[p] /\ azure' \subseteq azure
    BY <1>0, <1>13
       DEF WorkerStep, Reconcile, AddFinalizers, RemoveFinalizers, GetByName, GetByIP, UpdateStatus,
           GetLoadBalancer, PutLoadBalancer, DeleteIP, CreateResource, DeleteResource,
           AnnotateDoNotClean, RemoveDoNotClean, SyncCache, TypeOK
  <2>2. worker'[p] = worker[p]
    BY <1>0, <1>13
       DEF WorkerStep, Reconcile, AddFinalizers, RemoveFinalizers, GetByName, GetByIP, UpdateStatus,
           GetLoadBalancer, PutLoadBalancer, DeleteIP, CreateResource, DeleteResource,
           AnnotateDoNotClean, RemoveDoNotClean, SyncCache, TypeOK, Requeue, Return
  <2> QED
    BY <1>0, <2>1, <2>2, LeakFrame DEF Holds
<1>14. CASE CloudStep
  BY <1>0, <1>14, CloudKeeps, LeakFrame
<1>15. CASE Tick \/ UNCHANGED vars
  <2>1. UNCHANGED <<api, cache, worker, azure>>
    BY <1>15 DEF Tick, vars
  <2> QED
    BY <1>9, <2>1
<1> QED
  BY <1>1, <1>3, <1>4, <1>6, <1>7, <1>8, <1>10, <1>11, <1>12, <1>13, <1>14, <1>15
     DEF Next, WorkerStep

(* A resource that is being deleted and whose address is still there is let  *)
(* go only when it must not be cleaned or when an operation failed the       *)
(* configured number of times, whatever fails and however far the cache lags *)
(* behind, for a resource that is created anew under its name as well        *)
(* (actuator.go, Delete, and reconciler.go, delete).                         *)
THEOREM LeaksOnlyWhenLetGo == NoComeback => (Spec => LeaksOnlyAfterGivingUp)
<1> SUFFICES ASSUME NoComeback PROVE Spec => LeaksOnlyAfterGivingUp
  OBVIOUS
<1> DEFINE Leaks == \A p \in Pubips :
               Deleting(api[p]) /\ ~api'[p].exists /\ (\E r \in azure : Owns(p, r))
               => \/ api[p].doNotClean
                  \/ api[p].failed["Get"] >= MaxGetAttempts
                  \/ api[p].failed["Clean"] >= MaxCleanAttempts
<1>1. Init => LInv
  <2> SUFFICES ASSUME Init PROVE LInv
    OBVIOUS
  <2>1. TypeOK
    BY BlankType, IdleType, PubipConstants DEF Init, TypeOK
  <2>2. ASSUME NEW p \in Pubips PROVE LeakInv(p)
    BY <2>2 DEF Init, Blank, Idle, LeakInv, Latest, FoundIsLatest, StatusIsLater, OnlyDelete,
                Accounted, CleaningPCs, Holds
  <2> QED
    BY <2>1, <2>2 DEF Init, LInv, UniqueIPs, GoneIsBlank, Blank
<1>2. LInv /\ [Next]_vars => LInv'
  <2> SUFFICES ASSUME LInv, [Next]_vars PROVE LInv'
    OBVIOUS
  <2>1. TypeOK'
    BY TypeInductive DEF LInv
  <2>2. UniqueIPs'
    <3>1. CASE CloudStep
      BY <3>1, CloudKeeps DEF LInv
    <3>2. CASE azure' \subseteq azure
      BY <3>2 DEF LInv, UniqueIPs
    <3>3. CASE ~CloudStep
      BY <3>2, <3>3
         DEF Next, vars, WorkerStep, Reconcile, AddFinalizers, RemoveFinalizers, GetByName, GetByIP,
             UpdateStatus, GetLoadBalancer, PutLoadBalancer, DeleteIP, CreateResource,
             DeleteResource, AnnotateDoNotClean, RemoveDoNotClean, SyncCache, Restart, Tick
    <3> QED
      BY <3>1, <3>3
  <2> QED
    BY <2>1, <2>2, LeakInductive, GoneInductive DEF LInv
<1>3. LInv /\ [Next]_vars => [Leaks]_vars
  <2> SUFFICES ASSUME LInv, [Next]_vars, NEW p \in Pubips,
                      Deleting(api[p]), ~api'[p].exists, NEW r \in azure, Owns(p, r)
               PROVE  LetGo(api[p])
    BY DEF LetGo
  <2>0. TypeOK /\ Accounted(p) /\ api[p] \in Resource /\ worker[p].obj \in Resource
    BY DEF LInv, LeakInv, TypeOK, Worker
  <2>1. api[p].exists /\ api[p].deletedAt # 0
    BY DEF Deleting
  <2>8. ~UNCHANGED api
    BY <2>1
  <2>2. CASE RemoveFinalizers(p)
    <3>1. worker[p].pc = "removeFinalizers" /\ api[p] = worker[p].obj
      BY <2>1, <2>2 DEF RemoveFinalizers
    <3> QED
      BY <2>0, <3>1 DEF Accounted, NoneLeft
  <2>3. ASSUME NEW q \in Pubips, RemoveFinalizers(q), q # p PROVE FALSE
    BY <2>0, <2>1, <2>3 DEF RemoveFinalizers, TypeOK
  <2>4. ASSUME NEW q \in Pubips, AddFinalizers(q) PROVE FALSE
    BY <2>0, <2>1, <2>4 DEF AddFinalizers, TypeOK, Resource
  <2>5. ASSUME NEW q \in Pubips, UpdateStatus(q) PROVE FALSE
    <3>1. PICK o \in Resource : api' = [api EXCEPT ![q] = o] /\ o.exists = api[q].exists
      BY <2>0, <2>5, <2>8, UpdateStatusCases
    <3> QED
      BY <2>0, <2>1, <3>1 DEF TypeOK
  <2>6. ASSUME NEW q \in Pubips, CreateResource(q) \/ DeleteResource(q) PROVE FALSE
    BY <2>0, <2>1, <2>6 DEF CreateResource, DeleteResource, TypeOK, Resource, Blank
  <2>7. ASSUME NEW q \in Pubips, AnnotateDoNotClean(q) \/ RemoveDoNotClean(q) PROVE FALSE
    BY <2>0, <2>1, <2>7 DEF AnnotateDoNotClean, RemoveDoNotClean, TypeOK, Resource
  <2> QED
    BY <2>2, <2>3, <2>4, <2>5, <2>6, <2>7, <2>8
       DEF Next, vars, WorkerStep, Reconcile, GetByName, GetByIP, GetLoadBalancer, PutLoadBalancer,
           DeleteIP, SyncCache, Restart, Tick, CloudStep, Allocate, Release, Retag, Unassign,
           Attach, Detach
<1> QED
  BY <1>1, <1>2, <1>3, PTL DEF Spec, LeaksOnlyAfterGivingUp
==================================================================================
