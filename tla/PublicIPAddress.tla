----------------------------- MODULE PublicIPAddress -----------------------------
(*****************************************************************************)
(* The publicipaddress controller: the generic reconciler                    *)
(* (pkg/controller/reconciler.go) driving the Azure publicipaddress actuator *)
(* (pkg/controller/azure/publicipaddress/actuator.go) for a set of           *)
(* PublicIPAddress resources, together with what it talks to: the API server *)
(* behind a cached client, the work queue, and Azure (public IP addresses    *)
(* and the one load balancer).                                               *)
(*                                                                           *)
(* A reconciliation is a sequence of remote calls.  Every call is one action *)
(* of the worker that runs it, so that the steps of the other workers, of    *)
(* the users and of the cloud provider interleave between any two calls.     *)
(* What a status says of the Azure resource (exists, id, name) is one field  *)
(* "name": the three are set together and an Azure id is the name inside the *)
(* fixed resource group.  Requeue delays are arbitrary.                      *)
(*****************************************************************************)
EXTENDS FailedOperations, FiniteSets

CONSTANTS
    Pubips,             \* names of the PublicIPAddress resources
    AzNames,            \* names of Azure public IP address resources
    IPs,                \* IP addresses
    Services,           \* services, as the cloud provider tags them
    NoName, NoIP, NoService,
    SpecIP,             \* SpecIP[p]: spec.ipAddress of p
    SpecService,        \* SpecService[p]: the service label of p, or NoService
    MaxGetAttempts, MaxCleanAttempts, DeletionGracePeriod,  \* the configuration
    MaxTime,            \* bound on the clock
    MaxUid,             \* bound on the incarnations of one resource name
    Faults,             \* subset of {"azure", "api", "crash", "lag"}
    Habits              \* subset of {"annotate", "unannotate", "reuse", "claim",
                        \*            "retag", "unassign"}

ASSUME PubipConstants ==
    /\ NoName \notin AzNames /\ NoIP \notin IPs /\ NoService \notin Services
    /\ SpecIP \in [Pubips -> IPs]
    /\ SpecService \in [Pubips -> Services \cup {NoService}]
    /\ MaxGetAttempts \in 1 .. AttemptsBound
    /\ MaxCleanAttempts \in 1 .. AttemptsBound
    /\ DeletionGracePeriod \in Nat /\ MaxTime \in Nat \ {0} /\ MaxUid \in Nat

VARIABLES
    api,        \* api[p]: the resource p on the API server
    cache,      \* cache[p]: the resource p in the informer cache
    queue,      \* keys in the work queue
    timer,      \* keys that a requeue will add to the work queue
    worker,     \* worker[p]: the reconciliation of p in progress
    azure,      \* the Azure public IP addresses of the resource group
    lb,         \* names with a frontend configuration on the load balancer
    now         \* the clock

vars == <<api, cache, queue, timer, worker, azure, lb, now>>

-----------------------------------------------------------------------------
OpTypes == {"Get", "Clean"}

Failed == FailedOperationsOf(OpTypes)

(* A PublicIPAddress.  When it does not exist, uid is that of the last       *)
(* incarnation.  deletedAt is the deletion timestamp, 0 when there is none.  *)
Resource == [exists     : BOOLEAN,
             uid        : 0 .. MaxUid,
             deletedAt  : 0 .. MaxTime,
             finalizer  : BOOLEAN,
             doNotClean : BOOLEAN,
             name       : AzNames \cup {NoName},
             failed     : Failed]

Blank(uid) == [exists |-> FALSE, uid |-> uid, deletedAt |-> 0, finalizer |-> FALSE,
               doNotClean |-> FALSE, name |-> NoName,
               failed |-> NoFailedOperations(OpTypes)]

Deleting(o) == o.exists /\ o.deletedAt # 0

AzureIP == [name : AzNames, ip : IPs \cup {NoIP}, tag : Services \cup {NoService}]

Named(n) == {r \in azure : r.name = n}

NamesIn(rs) == {r.name : r \in rs}

PCs == {"idle", "addFinalizers", "getByName", "getByIP", "updateStatus",
        "getLoadBalancer", "putLoadBalancer", "deleteIP", "removeFinalizers"}

Outcomes == {"none", "getOk", "getFailed", "cleanOk", "cleanFailed"}

(* The locals of one reconciliation: obj is the object the handlers pass     *)
(* around, found the Azure resource the search returned, failed the handler's*)
(* copy of the failed operations, outcome what the pending status update     *)
(* records, frontends the load balancer about to be written.                 *)
Worker == [pc : PCs, deletes : BOOLEAN, obj : Resource,
           found : AzNames \cup {NoName}, failed : Failed,
           outcome : Outcomes, frontends : SUBSET AzNames]

Idle == [pc |-> "idle", deletes |-> FALSE, obj |-> Blank(0), found |-> NoName,
         failed |-> NoFailedOperations(OpTypes), outcome |-> "none", frontends |-> {}]

-----------------------------------------------------------------------------
(* The reconciler.                                                           *)

GetPC(o) == IF o.name = NoName THEN "getByIP" ELSE "getByName"

(* Mutant of Dispatch: a new resource is reconciled without the finalizer.   *)
DispatchUnfinalized(o) ==
    LET w == [Idle EXCEPT !.obj = o, !.failed = o.failed]
    IN  CASE ~o.exists                      -> Idle
          [] Deleting(o) /\ ~o.finalizer    -> Idle
          [] OTHER                          -> [w EXCEPT !.pc = GetPC(o), !.deletes = Deleting(o)]

(* Reconcile: what the worker does with the object read from the cache.      *)
Dispatch(o) ==
    LET w == [Idle EXCEPT !.obj = o, !.failed = o.failed]
    IN  CASE ~o.exists                      -> Idle
          [] Deleting(o) /\ ~o.finalizer    -> Idle
          [] Deleting(o) /\ o.finalizer     -> [w EXCEPT !.pc = GetPC(o), !.deletes = TRUE]
          [] OTHER                          -> [w EXCEPT !.pc = "addFinalizers"]

(* A requeue is delayed by a minute and more: the informer has then caught   *)
(* up, unless it is disturbed (fault "lag").  The rate-limited requeue of an *)
(* error comes earlier, but waits for the informer here as well.             *)
Reconcile(p) ==
    /\ worker[p].pc = "idle"
    /\ \/ p \in queue /\ queue' = queue \ {p} /\ UNCHANGED timer
       \/ /\ p \in timer /\ ("lag" \in Faults \/ cache[p] = api[p])
          /\ timer' = timer \ {p} /\ UNCHANGED queue
    /\ worker' = [worker EXCEPT ![p] = Dispatch(cache[p])]
    /\ UNCHANGED <<api, cache, azure, lb, now>>

(* A reconciliation ends without a requeue.                                  *)
Return(p) == worker' = [worker EXCEPT ![p] = Idle] /\ UNCHANGED timer

(* It ends with an error, a RequeueAfterError, a requeueAfter, or a panic    *)
(* that controller-runtime turns into an error.                              *)
Requeue(p) == worker' = [worker EXCEPT ![p] = Idle] /\ timer' = timer \cup {p}

(* The finalizer is put by a patch with an optimistic lock: a resource that  *)
(* is no longer what the cache showed is a conflict.                         *)
AddFinalizers(p) ==
    LET w == worker[p]
        o == [w.obj EXCEPT !.finalizer = TRUE]
    IN  /\ w.pc = "addFinalizers"
        /\ \/ "api" \in Faults /\ Requeue(p) /\ UNCHANGED api
           \/ ~api[p].exists /\ Return(p) /\ UNCHANGED api
           \/ api[p].exists /\ api[p] # w.obj /\ Requeue(p) /\ UNCHANGED api
           \/ /\ api[p] = w.obj
              /\ api' = [api EXCEPT ![p] = o]
              /\ worker' = [worker EXCEPT ![p] = [w EXCEPT !.obj = o, !.pc = GetPC(o)]]
              /\ UNCHANGED timer
        /\ UNCHANGED <<cache, queue, azure, lb, now>>

(* Without its last finalizer a resource that is being deleted is gone.      *)
Unfinalized(o) ==
    IF o.deletedAt # 0 THEN Blank(o.uid) ELSE [o EXCEPT !.finalizer = FALSE]

(* The handler succeeded.  Having given up, Delete also asks to be called    *)
(* again after the sync period.                                              *)
RemoveFinalizers(p) ==
    LET w == worker[p]
        finish == IF w.outcome \in {"getFailed", "cleanFailed"} THEN Requeue(p) ELSE Return(p)
    IN  /\ w.pc = "removeFinalizers"
        /\ \/ "api" \in Faults /\ Requeue(p) /\ UNCHANGED api
           \/ ~api[p].exists /\ finish /\ UNCHANGED api
           \/ api[p].exists /\ api[p] # w.obj /\ Requeue(p) /\ UNCHANGED api
           \/ /\ api[p].exists /\ api[p] = w.obj
              /\ api' = [api EXCEPT ![p] = Unfinalized(@)]
              /\ finish
        /\ UNCHANGED <<cache, queue, azure, lb, now>>

-----------------------------------------------------------------------------
(* The actuator.  CreateOrUpdate and Delete begin alike: search the Azure    *)
(* public IP address, record the result.                                     *)

GetOk(w, n) ==
    [w EXCEPT !.pc = "updateStatus", !.outcome = "getOk", !.found = n,
              !.failed = DeleteFailedOperation(@, "Get")]

(* Mutant of GetFailed: the failed attempt is not counted.                   *)
GetFailedUncounted(w) ==
    [w EXCEPT !.pc = "updateStatus", !.outcome = "getFailed", !.found = NoName]

GetFailed(w) ==
    [w EXCEPT !.pc = "updateStatus", !.outcome = "getFailed", !.found = NoName,
              !.failed = AddOrUpdateFailedOperation(@, "Get")]

(* The name the status remembers still holds the specified address.          *)
NameMatches(p, r) == r.ip = SpecIP[p]

(* An address without a name is dereferenced: the handler panics.            *)
GetByName(p) ==
    LET w  == worker[p]
        rs == Named(w.obj.name)
    IN  /\ w.pc = "getByName"
        /\ \/ /\ "azure" \in Faults
              /\ worker' = [worker EXCEPT ![p] = GetFailed(w)] /\ UNCHANGED timer
           \/ (\E r \in rs : r.ip = NoIP) /\ Requeue(p)
           \/ \E r \in rs : /\ NameMatches(p, r)
                            /\ worker' = [worker EXCEPT ![p] = GetOk(w, r.name)]
                            /\ UNCHANGED timer
           \/ /\ \A r \in rs : r.ip # NoIP /\ ~NameMatches(p, r)
              /\ worker' = [worker EXCEPT ![p] = [w EXCEPT !.pc = "getByIP"]]
              /\ UNCHANGED timer
        /\ UNCHANGED <<api, cache, queue, azure, lb, now>>

(* Mutant of TagMatches: an address without a tag matches as well.           *)
TagMatchesUntagged(p, r) == SpecService[p] = NoService \/ r.tag \in {NoService, SpecService[p]}

(* A PublicIPAddress without a service label matches every tag.              *)
TagMatches(p, r) == SpecService[p] \in {NoService, r.tag}

GetByIP(p) ==
    LET w  == worker[p]
        rs == {r \in azure : r.ip = SpecIP[p]}
        next(v) == worker' = [worker EXCEPT ![p] = v]
    IN  /\ w.pc = "getByIP"
        /\ \/ "azure" \in Faults /\ next(GetFailed(w))
           \/ \E r \in rs : TagMatches(p, r) /\ next(GetOk(w, r.name))
           \/ (\A r \in rs : ~TagMatches(p, r)) /\ next(GetOk(w, NoName))
        /\ UNCHANGED <<api, cache, queue, timer, azure, lb, now>>

(* Mutant of GracePeriodElapsed: off by one.                                 *)
GracePeriodReached(o) == now >= o.deletedAt + DeletionGracePeriod

GracePeriodElapsed(o) == now > o.deletedAt + DeletionGracePeriod

(* Mutant of Proceed: gives up one failure early.                            *)
ProceedImpatiently(w, o) ==
    LET goto(pc) == [w EXCEPT !.obj = o, !.pc = pc]
        giveUp   == IF w.deletes THEN goto("removeFinalizers") ELSE Idle
    IN  CASE w.outcome = "getFailed" ->
               IF w.failed["Get"] + 1 < MaxGetAttempts THEN Idle ELSE giveUp
          [] w.outcome = "cleanFailed" ->
               IF w.failed["Clean"] + 1 < MaxCleanAttempts THEN Idle ELSE giveUp
          [] w.outcome = "cleanOk" -> goto("removeFinalizers")
          [] OTHER ->
               IF ~w.deletes THEN Idle
               ELSE IF w.found = NoName \/ o.doNotClean THEN goto("removeFinalizers")
               ELSE IF o.deletedAt # 0 /\ ~GracePeriodElapsed(o) THEN Idle
               ELSE IF o.name = NoName THEN Idle
               ELSE goto("getLoadBalancer")

(* The worker after its status update, o being the object it then holds.     *)
(* A worker that ends here has always asked for a requeue.                   *)
Proceed(w, o) ==
    LET goto(pc) == [w EXCEPT !.obj = o, !.pc = pc]
        giveUp   == IF w.deletes THEN goto("removeFinalizers") ELSE Idle
    IN  CASE w.outcome = "getFailed" ->
               IF w.failed["Get"] < MaxGetAttempts THEN Idle ELSE giveUp
          [] w.outcome = "cleanFailed" ->
               IF w.failed["Clean"] < MaxCleanAttempts THEN Idle ELSE giveUp
          [] w.outcome = "cleanOk" -> goto("removeFinalizers")
          [] OTHER ->
               IF ~w.deletes THEN Idle
               ELSE IF w.found = NoName \/ o.doNotClean THEN goto("removeFinalizers")
               ELSE IF o.deletedAt # 0 /\ ~GracePeriodElapsed(o) THEN Idle
               ELSE IF o.name = NoName THEN Idle      \* *pubip.Status.ID panics
               ELSE goto("getLoadBalancer")

(* updatePublicIPAddressStatus: CreateOrPatch reads the object again from    *)
(* the cache and patches the fields that differ from it; the reply replaces  *)
(* the handler's object.  A failed operation has a new timestamp, so it is   *)
(* always patched.  An object missing from the cache makes it a create with  *)
(* a resource version, which fails; one missing on the server is ignored.    *)
UpdateStatus(p) ==
    LET w       == worker[p]
        cached  == cache[p]
        renamed == w.found # cached.name
        recount == w.failed # cached.failed \/ w.outcome \in {"getFailed", "cleanFailed"}
        local   == [cached EXCEPT !.name = w.found, !.failed = w.failed]
        merged  == [api[p] EXCEPT !.name   = IF renamed THEN w.found ELSE @,
                                  !.failed = IF recount THEN w.failed ELSE @]
        proceed(o) == /\ worker' = [worker EXCEPT ![p] = Proceed(w, o)]
                      /\ timer' = IF Proceed(w, o) = Idle THEN timer \cup {p} ELSE timer
    IN  /\ w.pc = "updateStatus"
        /\ \/ ~cached.exists /\ Requeue(p) /\ UNCHANGED api
           \/ /\ cached.exists /\ ~renamed /\ ~recount
              /\ proceed(cached) /\ UNCHANGED api
           \/ /\ cached.exists /\ (renamed \/ recount)
              /\ \/ "api" \in Faults /\ Requeue(p) /\ UNCHANGED api
                 \/ ~api[p].exists /\ proceed(local) /\ UNCHANGED api
                 \/ /\ api[p].exists
                    /\ api' = [api EXCEPT ![p] = merged]
                    /\ proceed(merged)
        /\ UNCHANGED <<cache, queue, azure, lb, now>>

-----------------------------------------------------------------------------
(* cleanAzurePublicIPAddress: take the address off the load balancer (read,  *)
(* then write back the whole load balancer), then delete it.                 *)

CleanOk(w) ==
    [w EXCEPT !.pc = "updateStatus", !.outcome = "cleanOk", !.found = NoName,
              !.failed = DeleteFailedOperation(@, "Clean"), !.frontends = {}]

CleanFailed(w) ==
    [w EXCEPT !.pc = "updateStatus", !.outcome = "cleanFailed",
              !.failed = AddOrUpdateFailedOperation(@, "Clean"), !.frontends = {}]

GetLoadBalancer(p) ==
    LET w == worker[p]
    IN  /\ w.pc = "getLoadBalancer"
        /\ \/ "azure" \in Faults /\ worker' = [worker EXCEPT ![p] = CleanFailed(w)]
           \/ worker' = [worker EXCEPT ![p] =
                   [w EXCEPT !.pc = "putLoadBalancer", !.frontends = lb \ {w.obj.name}]]
        /\ UNCHANGED <<api, cache, queue, timer, azure, lb, now>>

(* Azure refuses a frontend whose address does not exist.  A failure may be  *)
(* reported for an update that Azure carried out.                            *)
PutLoadBalancer(p) ==
    LET w     == worker[p]
        valid == w.frontends \subseteq NamesIn(azure)
        next(v) == worker' = [worker EXCEPT ![p] = v]
    IN  /\ w.pc = "putLoadBalancer"
        /\ \/ (~valid \/ "azure" \in Faults) /\ UNCHANGED lb /\ next(CleanFailed(w))
           \/ valid /\ lb' = w.frontends /\ next([w EXCEPT !.pc = "deleteIP"])
           \/ "azure" \in Faults /\ valid /\ lb' = w.frontends /\ next(CleanFailed(w))
        /\ UNCHANGED <<api, cache, queue, timer, azure, now>>

(* Mutant of DeleteIP: Azure's refusal is taken for success.                 *)
DeleteIPSwallowingErrors(p) ==
    LET w == worker[p]
    IN  /\ w.pc = "deleteIP"
        /\ azure' = IF w.obj.name \in lb THEN azure ELSE azure \ Named(w.obj.name)
        /\ worker' = [worker EXCEPT ![p] = CleanOk(w)]
        /\ UNCHANGED <<api, cache, queue, timer, lb, now>>

(* Deleting what does not exist succeeds; Azure refuses to delete an address *)
(* with a frontend.                                                          *)
DeleteIP(p) ==
    LET w     == worker[p]
        inUse == w.obj.name \in lb
        next(v) == worker' = [worker EXCEPT ![p] = v]
    IN  /\ w.pc = "deleteIP"
        /\ \/ (inUse \/ "azure" \in Faults) /\ UNCHANGED azure /\ next(CleanFailed(w))
           \/ ~inUse /\ azure' = azure \ Named(w.obj.name) /\ next(CleanOk(w))
           \/ /\ "azure" \in Faults /\ ~inUse
              /\ azure' = azure \ Named(w.obj.name) /\ next(CleanFailed(w))
        /\ UNCHANGED <<api, cache, queue, timer, lb, now>>

WorkerStep(p) ==
    \/ Reconcile(p) \/ AddFinalizers(p) \/ GetByName(p) \/ GetByIP(p)
    \/ UpdateStatus(p) \/ GetLoadBalancer(p) \/ PutLoadBalancer(p)
    \/ DeleteIP(p) \/ RemoveFinalizers(p)

-----------------------------------------------------------------------------
(* The environment: users and the service controller act on the resources,   *)
(* the informer delivers events, the controller restarts.                    *)

CreateResource(p) ==
    /\ ~api[p].exists /\ api[p].uid < MaxUid
    /\ api' = [api EXCEPT ![p] = [Blank(@.uid + 1) EXCEPT !.exists = TRUE]]
    /\ UNCHANGED <<cache, queue, timer, worker, azure, lb, now>>

(* A deletion request.  The bound leaves time for the grace period to end.   *)
DeleteResource(p) ==
    /\ api[p].exists /\ api[p].deletedAt = 0
    /\ now + DeletionGracePeriod < MaxTime
    /\ api' = [api EXCEPT ![p] =
            IF @.finalizer THEN [@ EXCEPT !.deletedAt = now] ELSE Blank(@.uid)]
    /\ UNCHANGED <<cache, queue, timer, worker, azure, lb, now>>

(* The service controller annotates the resources of a service it ignores,   *)
(* and takes the annotation back when it no longer ignores the service; both *)
(* may happen while a resource is being deleted.                             *)
AnnotateDoNotClean(p) ==
    /\ "annotate" \in Habits /\ api[p].exists /\ ~api[p].doNotClean
    /\ api' = [api EXCEPT ![p].doNotClean = TRUE]
    /\ UNCHANGED <<cache, queue, timer, worker, azure, lb, now>>

RemoveDoNotClean(p) ==
    /\ "unannotate" \in Habits /\ api[p].exists /\ api[p].doNotClean
    /\ api' = [api EXCEPT ![p].doNotClean = FALSE]
    /\ UNCHANGED <<cache, queue, timer, worker, azure, lb, now>>

(* GenerationChangedPredicate: creations, deletions and deletion requests    *)
(* are reconciled, status and annotation changes are not.                    *)
GenerationChanged(old, new) ==
    \/ old.exists # new.exists \/ old.uid # new.uid \/ old.deletedAt # new.deletedAt

SyncCache(p) ==
    /\ cache[p] # api[p]
    /\ cache' = [cache EXCEPT ![p] = api[p]]
    /\ queue' = IF GenerationChanged(cache[p], api[p]) THEN queue \cup {p} ELSE queue
    /\ UNCHANGED <<api, timer, worker, azure, lb, now>>

(* Everything in memory is lost; the new process lists the resources first.  *)
Restart ==
    /\ "crash" \in Faults
    /\ cache' = api
    /\ queue' = {p \in Pubips : api[p].exists}
    /\ timer' = {}
    /\ worker' = [p \in Pubips |-> Idle]
    /\ UNCHANGED <<api, azure, lb, now>>

-----------------------------------------------------------------------------
(* The cloud provider and Azure's users.                                     *)

(* No resource or reconciliation refers to n: n is a new name.               *)
FreshName(n) ==
    /\ \A p \in Pubips : n \notin {api[p].name, cache[p].name,
                                   worker[p].obj.name, worker[p].found}
    /\ n \notin lb /\ \A p \in Pubips : n \notin worker[p].frontends

(* The deletion of p, whose address an allocation would claim, is under way. *)
DeletionUnderWay(p) == Deleting(api[p]) \/ worker[p].deletes

(* An address is allocated for a service under a name not in use.  Habit     *)
(* "reuse": the name was used before.  Habit "claim": the address is that of *)
(* a PublicIPAddress whose deletion is under way.                            *)
Allocate(n, ip, svc) ==
    LET r == [name |-> n, ip |-> ip, tag |-> svc]
    IN  /\ n \notin NamesIn(azure) /\ \A s \in azure : s.ip # ip
        /\ FreshName(n) \/ "reuse" \in Habits
        /\ \/ "claim" \in Habits
           \/ \A p \in Pubips : NameMatches(p, r) /\ TagMatches(p, r) => ~DeletionUnderWay(p)
        /\ azure' = azure \cup {r}
        /\ UNCHANGED <<api, cache, queue, timer, worker, lb, now>>

Release(r) ==
    /\ r \in azure /\ r.name \notin lb
    /\ azure' = azure \ {r}
    /\ UNCHANGED <<api, cache, queue, timer, worker, lb, now>>

(* A static address moves to another service.                                *)
Retag(r, svc) ==
    /\ "retag" \in Habits /\ r \in azure /\ svc # r.tag
    /\ azure' = (azure \ {r}) \cup {[r EXCEPT !.tag = svc]}
    /\ UNCHANGED <<api, cache, queue, timer, worker, lb, now>>

(* A dynamic address is withdrawn when its resource is not in use.           *)
Unassign(r) ==
    /\ "unassign" \in Habits /\ r \in azure /\ r.ip # NoIP /\ r.name \notin lb
    /\ azure' = (azure \ {r}) \cup {[r EXCEPT !.ip = NoIP]}
    /\ UNCHANGED <<api, cache, queue, timer, worker, lb, now>>

Attach(n) ==
    /\ n \in NamesIn(azure) \ lb
    /\ lb' = lb \cup {n}
    /\ UNCHANGED <<api, cache, queue, timer, worker, azure, now>>

Detach(n) ==
    /\ n \in lb
    /\ lb' = lb \ {n}
    /\ UNCHANGED <<api, cache, queue, timer, worker, azure, now>>

Tick ==
    /\ now < MaxTime
    /\ now' = now + 1
    /\ UNCHANGED <<api, cache, queue, timer, worker, azure, lb>>

CloudStep ==
    \/ \E n \in AzNames, ip \in IPs, svc \in Services \cup {NoService} : Allocate(n, ip, svc)
    \/ \E r \in azure : Release(r)
    \/ \E r \in azure, svc \in Services : Retag(r, svc)
    \/ \E r \in azure : Unassign(r)
    \/ \E n \in AzNames : Attach(n) \/ Detach(n)

-----------------------------------------------------------------------------
Init ==
    /\ api = [p \in Pubips |-> Blank(0)]
    /\ cache = api
    /\ queue = {} /\ timer = {}
    /\ worker = [p \in Pubips |-> Idle]
    /\ azure = {} /\ lb = {}
    /\ now = 1

Next ==
    \/ \E p \in Pubips : \/ WorkerStep(p)
                         \/ CreateResource(p) \/ DeleteResource(p)
                         \/ AnnotateDoNotClean(p) \/ RemoveDoNotClean(p)
                         \/ SyncCache(p)
    \/ Restart \/ CloudStep \/ Tick

Spec == Init /\ [][Next]_vars

(* A queued key is eventually reconciled and every call returns, whether it  *)
(* succeeds or not; the watch delivers; time passes.  Nothing is assumed of  *)
(* users, of the cloud provider or of the success of a call.                 *)
Fairness ==
    /\ \A p \in Pubips : WF_vars(WorkerStep(p)) /\ WF_vars(SyncCache(p))
    /\ WF_vars(Tick)

FairSpec == Spec /\ Fairness

-----------------------------------------------------------------------------
(* The state is well typed; in particular the attempts that a status counts  *)
(* stay within their range, whatever fails.                                  *)
TypeOK ==
    /\ api \in [Pubips -> Resource]
    /\ cache \in [Pubips -> Resource]
    /\ queue \subseteq Pubips
    /\ timer \subseteq Pubips
    /\ worker \in [Pubips -> Worker]
    /\ azure \subseteq AzureIP
    /\ lb \subseteq AzNames
    /\ now \in 1 .. MaxTime

(* r is the address p specifies, allocated for p's service.                  *)
Owns(p, r) == r.ip = SpecIP[p] /\ (SpecService[p] # NoService => r.tag = SpecService[p])

(* o is being deleted since longer than the grace period.                    *)
Due(o) == o.deletedAt # 0 /\ now > o.deletedAt + DeletionGracePeriod

(* The addresses that this step of p's worker deletes in Azure.              *)
Cleaned(p) == IF worker[p].pc = "deleteIP" /\ worker'[p].pc # "deleteIP"
              THEN azure \ azure' ELSE {}

(* The worker of p deletes only the address p specifies, and only when it is *)
(* tagged with p's service: getAzurePublicIPAddress compares them many calls *)
(* before cleanAzurePublicIPAddress deletes by name.  Holds as long as Azure *)
(* names are not reused and addresses not tagged anew.                       *)
CleansOnlyItsOwn ==
    [][\A p \in Pubips : \A r \in Cleaned(p) : Owns(p, r)]_vars

(* Delete cleans an address only for a resource that is being deleted, since *)
(* longer than the grace period, and that was not annotated do-not-clean     *)
(* when it last read it.  Not only the copy of the worker says so: the API   *)
(* server agrees on the deletion, unless the resource is gone by then.       *)
CleansOnlyAfterGracePeriod ==
    [][\A p \in Pubips : Cleaned(p) # {} =>
          /\ Due(worker[p].obj) /\ ~worker[p].obj.doNotClean
          /\ api[p].exists => Due(api[p])]_vars

(* A resource whose address still exists loses its finalizer, and with it    *)
(* the last record of the orphan, only if it must not be cleaned or if an    *)
(* operation failed the configured number of times (Delete, reconciler).     *)
(* Holds as long as no address is claimed while its deletion is under way,   *)
(* none is tagged anew, and no name in use is allocated again to one that is *)
(* created again.                                                            *)
LeaksOnlyAfterGivingUp ==
    [][\A p \in Pubips :
          Deleting(api[p]) /\ ~api'[p].exists /\ (\E r \in azure : Owns(p, r))
          => \/ api[p].doNotClean
             \/ api[p].failed["Get"] >= MaxGetAttempts
             \/ api[p].failed["Clean"] >= MaxCleanAttempts]_vars

(* A resource that records an Azure address carries the finalizer, so that   *)
(* its deletion cannot bypass Delete: createOrUpdate adds the finalizer      *)
(* before the actuator writes the status.  Holds within one incarnation.     *)
RecordedIsFinalized ==
    \A p \in Pubips : api[p].exists /\ api[p].name # NoName => api[p].finalizer

(* A deletion ends, even if every call to Azure fails: Delete gives up after *)
(* the configured number of attempts.                                        *)
DeletionTerminates ==
    \A p \in Pubips : Deleting(api[p]) ~> ~Deleting(api[p])
=================================================================================
