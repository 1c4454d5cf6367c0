--------------------------------- MODULE Service ---------------------------------
(*****************************************************************************)
(* The service controller: the generic reconciler                            *)
(* (pkg/controller/reconciler.go) driving the Azure service actuator         *)
(* (pkg/controller/azure/service/actuator.go), which keeps one               *)
(* PublicIPAddress resource in the control cluster for every load balancer   *)
(* IP of a service of the target cluster.  It is driven by two watches, one  *)
(* per cluster, each behind a predicate (service/predicate.go,               *)
(* pkg/controller/predicate.go), and reads both clusters from caches.        *)
(*                                                                           *)
(* Every remote call is one action.  The PublicIPAddress of service s for    *)
(* address ip is pub[s][ip]: its generated name and its service label stand  *)
(* for the pair.  The publicipaddress controller appears as what it does to  *)
(* these resources.                                                          *)
(*****************************************************************************)
EXTENDS Integers, FiniteSets

CONSTANTS
    Services,           \* services, by namespace and name
    IPs,                \* IP addresses
    NoIP,
    Names,              \* service names without the namespace
    NameOf,             \* NameOf[s]: the name of s, its key in the service cache
    MaxEdits,           \* bound on the changes users and the cloud provider make
    Faults              \* subset of {"api", "crash", "lag", "expire"}

ASSUME ServiceConstants ==
    /\ NoIP \notin IPs /\ NameOf \in [Services -> Names] /\ MaxEdits \in Nat

VARIABLES
    svc,            \* svc[s]: the service s in the target cluster
    svcCache,       \* svcCache[s]: the service s in the informer cache
    serviceCache,   \* serviceCache[n]: the set of the projections the predicate keeps
                    \* under the name n: one, or none
    pub,            \* pub[s][ip]: the PublicIPAddress in the control cluster
    pubCache,       \* pubCache[s][ip]: the same in the informer cache
    queue, timer,   \* services in the work queue, services with a delayed requeue
    worker,         \* worker[s]: the reconciliation of s in progress
    edits           \* number of changes made so far

vars == <<svc, svcCache, serviceCache, pub, pubCache, queue, timer, worker, edits>>

-----------------------------------------------------------------------------
(* A service; when it does not exist, uid is that of the last incarnation.   *)
Svc == [exists : BOOLEAN, uid : 0 .. MaxEdits, deleting : BOOLEAN, finalizer : BOOLEAN,
        ignore : BOOLEAN, ips : SUBSET IPs]

NoSvc(uid) == [exists |-> FALSE, uid |-> uid, deleting |-> FALSE, finalizer |-> FALSE,
               ignore |-> FALSE, ips |-> {}]

Pub == [exists : BOOLEAN, deleting : BOOLEAN, finalizer : BOOLEAN, doNotClean : BOOLEAN]

NoPub == [exists |-> FALSE, deleting |-> FALSE, finalizer |-> FALSE, doNotClean |-> FALSE]

Projection == [deleting : BOOLEAN, ignore : BOOLEAN, ips : SUBSET IPs]

(* Mutant of NewProjection: the whole service is kept.                       *)
NewProjectionWhole(o) == o

NewProjection(o) == [deleting |-> o.deleting, ignore |-> o.ignore, ips |-> o.ips]

PCs == {"idle", "addFinalizers", "createOrUpdate", "deleteOwn", "list", "listed",
        "removeFinalizers"}

(* The locals of a reconciliation: mode is the handler that runs, obj the    *)
(* service it was given, todo the addresses its first loop has yet to treat, *)
(* items the listed resources its second loop has yet to treat, annotated    *)
(* the one just annotated.                                                   *)
Worker == [pc : PCs, mode : {"none", "createOrUpdate", "delete", "ensureDeleted"},
           obj : Svc, todo : SUBSET IPs, items : [IPs -> Pub], annotated : IPs \cup {NoIP}]

NoItems == [ip \in IPs |-> NoPub]

Idle == [pc |-> "idle", mode |-> "none", obj |-> NoSvc(0), todo |-> {},
         items |-> NoItems, annotated |-> NoIP]

-----------------------------------------------------------------------------
(* The reconciler.                                                           *)

(* Mutant of ShouldFinalize: off by one.                                     *)
ShouldFinalizeMany(o) == Cardinality(o.ips) > 1 /\ ~o.ignore

ShouldFinalize(o) == o.ips # {} /\ ~o.ignore

(* Mutant of Dispatch: nothing is done about a service that is gone.         *)
DispatchExisting(o) ==
    LET start(mode, pc) == [Idle EXCEPT !.mode = mode, !.pc = pc, !.obj = o, !.todo = o.ips]
    IN  CASE ~o.exists                      -> Idle
          [] o.deleting /\ ~o.finalizer     -> Idle
          [] o.deleting /\ o.finalizer      ->
               start("delete", IF o.ips = {} THEN "list" ELSE "deleteOwn")
          [] ~o.deleting /\ ShouldFinalize(o) -> start("createOrUpdate", "addFinalizers")
          [] OTHER                          ->
               IF o.finalizer THEN start("createOrUpdate", "list") ELSE Idle

(* Mutant of Dispatch: the finalizer is forgotten.                           *)
DispatchUnfinalized(o) ==
    LET start(mode, pc) == [Idle EXCEPT !.mode = mode, !.pc = pc, !.obj = o, !.todo = o.ips]
    IN  CASE ~o.exists                      -> start("ensureDeleted", "list")
          [] o.deleting /\ ~o.finalizer     -> Idle
          [] o.deleting /\ o.finalizer      ->
               start("delete", IF o.ips = {} THEN "list" ELSE "deleteOwn")
          [] ~o.deleting /\ ShouldFinalize(o) -> start("createOrUpdate", "createOrUpdate")
          [] OTHER                          ->
               IF o.finalizer THEN start("createOrUpdate", "list") ELSE Idle

(* Mutant of Dispatch: the deletion of an ignored service is not reconciled. *)
DispatchUnlessIgnored(o) ==
    LET start(mode, pc) == [Idle EXCEPT !.mode = mode, !.pc = pc, !.obj = o, !.todo = o.ips]
    IN  CASE ~o.exists                      -> start("ensureDeleted", "list")
          [] o.deleting                     ->
               IF o.finalizer /\ ShouldFinalize(o) THEN start("delete", "deleteOwn") ELSE Idle
          [] ~o.deleting /\ ShouldFinalize(o) -> start("createOrUpdate", "addFinalizers")
          [] OTHER                          ->
               IF o.finalizer THEN start("createOrUpdate", "list") ELSE Idle

(* Reconcile: what the worker does with the object read from the cache.      *)
Dispatch(o) ==
    LET start(mode, pc) == [Idle EXCEPT !.mode = mode, !.pc = pc, !.obj = o, !.todo = o.ips]
    IN  CASE ~o.exists -> start("ensureDeleted", "list")
          [] o.exists /\ o.deleting /\ ~o.finalizer -> Idle
          [] o.exists /\ o.deleting /\ o.finalizer ->
               start("delete", IF o.ips = {} THEN "list" ELSE "deleteOwn")
          [] o.exists /\ ~o.deleting /\ ShouldFinalize(o) ->
               start("createOrUpdate", "addFinalizers")
          [] OTHER ->
               IF o.finalizer THEN start("createOrUpdate", "list") ELSE Idle

Reconcile(s) ==
    /\ worker[s].pc = "idle"
    /\ \/ s \in queue /\ queue' = queue \ {s} /\ UNCHANGED timer
       \/ s \in timer /\ timer' = timer \ {s} /\ UNCHANGED queue
    /\ worker' = [worker EXCEPT ![s] = Dispatch(svcCache[s])]
    /\ UNCHANGED <<svc, svcCache, serviceCache, pub, pubCache, edits>>

Goto(s, w) == worker' = [worker EXCEPT ![s] = w] /\ UNCHANGED timer

Return(s) == Goto(s, Idle)

Requeue(s) == worker' = [worker EXCEPT ![s] = Idle] /\ timer' = timer \cup {s}

AddFinalizers(s) ==
    LET w == worker[s]
        o == [w.obj EXCEPT !.finalizer = TRUE]
    IN  /\ w.pc = "addFinalizers"
        /\ \/ "api" \in Faults /\ Requeue(s) /\ UNCHANGED svc
           \/ ~svc[s].exists /\ Return(s) /\ UNCHANGED svc
           \/ svc[s].exists /\ svc[s] # w.obj /\ Requeue(s) /\ UNCHANGED svc
           \/ /\ svc[s] = w.obj
              /\ svc' = [svc EXCEPT ![s] = o]
              /\ Goto(s, [w EXCEPT !.obj = o, !.pc = "createOrUpdate"])
        /\ UNCHANGED <<svcCache, serviceCache, pub, pubCache, queue, edits>>

(* The last finalizer goes: a service that is being deleted is gone.         *)
RemoveFinalizers(s) ==
    LET w == worker[s]
    IN  /\ w.pc = "removeFinalizers"
        /\ \/ "api" \in Faults /\ Requeue(s) /\ UNCHANGED svc
           \/ ~svc[s].exists /\ Return(s) /\ UNCHANGED svc
           \/ svc[s].exists /\ svc[s] # w.obj /\ Requeue(s) /\ UNCHANGED svc
           \/ /\ svc[s].exists /\ svc[s] = w.obj
              /\ svc' = [svc EXCEPT ![s] =
                      IF @.deleting THEN NoSvc(@.uid) ELSE [@ EXCEPT !.finalizer = FALSE]]
              /\ Return(s)
        /\ UNCHANGED <<svcCache, serviceCache, pub, pubCache, queue, edits>>

-----------------------------------------------------------------------------
(* The actuator.                                                             *)

(* Mutant of NextOwn: the loop stops after its first address.                *)
NextOwnOnce(w, ip) == [w EXCEPT !.todo = {}, !.pc = "list"]

(* The first loop of a handler is done with ip.                              *)
NextOwn(w, ip) ==
    LET todo == w.todo \ {ip}
    IN  [w EXCEPT !.todo = todo, !.pc = IF todo = {} THEN "list" ELSE @]

(* CreateOrUpdate, first loop: create the resource, or take back its         *)
(* do-not-clean annotation, as the cache suggests.  A conflict is retried    *)
(* against the cache a few times, then it is an error.                       *)
CreateOrUpdate(s) ==
    LET w == worker[s]
        next(ip) == Goto(s, NextOwn(w, ip))
        put(ip, o) == pub' = [pub EXCEPT ![s][ip] = o]
    IN  /\ w.pc = "createOrUpdate"
        /\ \E ip \in w.todo :
             LET cached == pubCache[s][ip]
                 actual == pub[s][ip]
                 update == cached.exists /\ cached.doNotClean
             IN  \/ "api" \in Faults /\ Requeue(s) /\ UNCHANGED pub
                 \/ ~cached.exists /\ actual.exists /\ Requeue(s) /\ UNCHANGED pub
                 \/ ~cached.exists /\ ~actual.exists
                    /\ put(ip, [NoPub EXCEPT !.exists = TRUE]) /\ next(ip)
                 \/ cached.exists /\ ~update /\ next(ip) /\ UNCHANGED pub
                 \/ update /\ actual # cached /\ Requeue(s) /\ UNCHANGED pub
                 \/ update /\ actual = cached
                    /\ put(ip, [actual EXCEPT !.doNotClean = FALSE]) /\ next(ip)
        /\ UNCHANGED <<svc, svcCache, serviceCache, pubCache, queue, edits>>

(* The API server's answer to a deletion request.                            *)
Deleted(o) == IF o.finalizer THEN [o EXCEPT !.deleting = TRUE] ELSE NoPub

(* Delete, first loop.                                                       *)
DeleteOwn(s) ==
    LET w == worker[s]
    IN  /\ w.pc = "deleteOwn"
        /\ \/ "api" \in Faults /\ Requeue(s) /\ UNCHANGED pub
           \/ \E ip \in w.todo : /\ pub' = [pub EXCEPT ![s][ip] = Deleted(@)]
                                 /\ Goto(s, NextOwn(w, ip))
        /\ UNCHANGED <<svc, svcCache, serviceCache, pubCache, queue, edits>>

Items(w) == {ip \in IPs : w.items[ip].exists}

Ignoring(w) == w.mode = "createOrUpdate" /\ w.obj.ignore

(* The second loop goes on, or ends and with it the handler.                 *)
Continue(s, w) ==
    CASE Items(w) # {}                                          -> Goto(s, w)
      [] Items(w) = {} /\ w.mode = "ensureDeleted"              -> Return(s)
      [] Items(w) = {} /\ w.mode = "delete"                     ->
           Goto(s, [w EXCEPT !.pc = "removeFinalizers"])
      [] Items(w) = {} /\ w.mode = "createOrUpdate"             ->
           IF ShouldFinalize(w.obj) THEN Requeue(s)
           ELSE Goto(s, [w EXCEPT !.pc = "removeFinalizers"])

(* The resources of the service for other addresses, or all if it is         *)
(* ignored, as far as the cache knows.                                       *)
List(s) ==
    LET w == worker[s]
        selected == IF Ignoring(w) THEN IPs ELSE IPs \ w.obj.ips
        items == [ip \in IPs |-> IF ip \in selected THEN pubCache[s][ip] ELSE NoPub]
    IN  /\ w.pc = "list"
        /\ "lag" \in Faults \/ pubCache[s] = pub[s]
        /\ Continue(s, [w EXCEPT !.items = items, !.pc = "listed"])
        /\ UNCHANGED <<svc, svcCache, serviceCache, pub, pubCache, queue, edits>>

(* The listed copy itself is updated: if it is stale, retrying is in vain.   *)
AnnotateListed(s) ==
    LET w == worker[s]
    IN  /\ w.pc = "listed" /\ Ignoring(w) /\ w.annotated = NoIP
        /\ \E ip \in Items(w) :
             \/ /\ "api" \in Faults \/ pub[s][ip] # w.items[ip]
                /\ Requeue(s) /\ UNCHANGED pub
             \/ /\ pub[s][ip] = w.items[ip]
                /\ pub' = [pub EXCEPT ![s][ip].doNotClean = TRUE]
                /\ Goto(s, [w EXCEPT !.annotated = ip])
        /\ UNCHANGED <<svc, svcCache, serviceCache, pubCache, queue, edits>>

DeleteListed(s) ==
    LET w == worker[s]
    IN  /\ w.pc = "listed"
        /\ \E ip \in IF Ignoring(w) THEN {w.annotated} \ {NoIP} ELSE Items(w) :
             \/ "api" \in Faults /\ Requeue(s) /\ UNCHANGED pub
             \/ /\ pub' = [pub EXCEPT ![s][ip] = Deleted(@)]
                /\ Continue(s, [w EXCEPT !.items[ip] = NoPub, !.annotated = NoIP])
        /\ UNCHANGED <<svc, svcCache, serviceCache, pubCache, queue, edits>>

WorkerStep(s) ==
    \/ Reconcile(s) \/ AddFinalizers(s) \/ CreateOrUpdate(s) \/ DeleteOwn(s) \/ List(s)
    \/ AnnotateListed(s) \/ DeleteListed(s) \/ RemoveFinalizers(s)

-----------------------------------------------------------------------------
(* The watches and their predicates.                                         *)

(* servicePredicate.Update, known being the projections kept.  Timestamps    *)
(* are compared as pointers: two copies of one timestamp differ.             *)
ServiceChanged(old, new, known) ==
    \/ known = {}
    \/ new.ips # {} /\ (new.deleting \/ old.deleting \/ \E k \in known : k.deleting)
    \/ new.ips # {} /\ (new.ignore # old.ignore \/ \E k \in known : new.ignore # k.ignore)
    \/ new.ips # old.ips \/ \E k \in known : new.ips # k.ips

(* An event of the service watch: servicePredicate Create, Update, Delete.   *)
SyncService(s) ==
    LET old == svcCache[s]
        new == svc[s]
        known == serviceCache[NameOf[s]]
        relevant == old.exists /\ new.exists => ServiceChanged(old, new, known)
        keep(ks) == serviceCache' = [serviceCache EXCEPT ![NameOf[s]] = ks]
    IN  /\ old # new
        /\ svcCache' = [svcCache EXCEPT ![s] = new]
        /\ CASE ~new.exists            -> keep({})
             [] new.exists /\ relevant -> keep({NewProjection(new)})
             [] OTHER                  -> UNCHANGED serviceCache
        /\ queue' = IF relevant THEN queue \cup {s} ELSE queue
        /\ UNCHANGED <<svc, pub, pubCache, timer, worker, edits>>

(* The informer replays what it holds.  Old and new object are the same;     *)
(* only what the predicate keeps can differ, or be missing.  Two copies of   *)
(* one timestamp count as equal here, which gives fewer events than the code *)
(* has, where they differ as pointers.                                       *)
Resync(s) ==
    LET o == svcCache[s]
        known == serviceCache[NameOf[s]]
    IN  /\ o.exists
        /\ \/ known = {}
           \/ \E k \in known : \/ o.ips # k.ips
                               \/ o.ips # {} /\ (o.deleting # k.deleting \/ o.ignore # k.ignore)
        /\ serviceCache' = [serviceCache EXCEPT ![NameOf[s]] = {NewProjection(o)}]
        /\ queue' = queue \cup {s}
        /\ UNCHANGED <<svc, svcCache, pub, pubCache, timer, worker, edits>>

(* An entry of the service cache reaches its time to live.                   *)
Expire(n) ==
    /\ "expire" \in Faults /\ serviceCache[n] # {}
    /\ serviceCache' = [serviceCache EXCEPT ![n] = {}]
    /\ UNCHANGED <<svc, svcCache, pub, pubCache, queue, timer, worker, edits>>

(* Mutant of handleCreateOrUpdateEvent: an owner that is gone is ignored.    *)
handleCreateOrUpdateEventOfOwned(owner, o) ==
    owner.exists /\ owner.finalizer /\ owner.deleting /\ ~o.deleting

(* ownedObjectPredicate: its owner, read from the cache, has to be           *)
(* reconciled because o was created or updated ...                           *)
handleCreateOrUpdateEvent(owner, o) ==
    ~owner.exists \/ (owner.finalizer /\ owner.deleting /\ ~o.deleting)

(* ... or because it was deleted.                                            *)
handleDeleteEvent(owner) == owner.exists /\ owner.finalizer /\ ~owner.deleting

(* The label of an owned resource names its owner: the request is for it.    *)
Requests(s, relevant) == IF relevant THEN {s} ELSE {}

SyncPub(s, ip) ==
    LET o == pub[s][ip]
        relevant == IF o.exists THEN handleCreateOrUpdateEvent(svcCache[s], o)
                                ELSE handleDeleteEvent(svcCache[s])
    IN  /\ pubCache[s][ip] # o
        /\ pubCache' = [pubCache EXCEPT ![s][ip] = o]
        /\ queue' = queue \cup Requests(s, relevant)
        /\ UNCHANGED <<svc, svcCache, serviceCache, pub, timer, worker, edits>>

(* A new process lists both clusters; every object is a creation to it.      *)
Restart ==
    /\ "crash" \in Faults
    /\ svcCache' = svc /\ pubCache' = pub
    /\ serviceCache' = [n \in Names |->
            LET ss == {s \in Services : NameOf[s] = n /\ svc[s].exists}
            IN  IF ss = {} THEN {} ELSE {NewProjection(svc[CHOOSE s \in ss : TRUE])}]
    /\ queue' = {s \in Services :
            \/ svc[s].exists
            \/ \E ip \in IPs : /\ pub[s][ip].exists
                               /\ handleCreateOrUpdateEvent(svc[s], pub[s][ip])}
    /\ timer' = {}
    /\ worker' = [s \in Services |-> Idle]
    /\ UNCHANGED <<svc, pub, edits>>

-----------------------------------------------------------------------------
(* Users and the cloud provider change services; the publicipaddress         *)
(* controller adds its finalizer and ends the deletions.                     *)

Edit(s, o) ==
    /\ edits < MaxEdits /\ edits' = edits + 1
    /\ svc' = [svc EXCEPT ![s] = o]
    /\ UNCHANGED <<svcCache, serviceCache, pub, pubCache, queue, timer, worker>>

CreateService(s) ==
    ~svc[s].exists /\ Edit(s, [NoSvc(svc[s].uid + 1) EXCEPT !.exists = TRUE])

ChangeIPs(s) ==
    svc[s].exists /\ \E ips \in (SUBSET IPs) \ {svc[s].ips} : Edit(s, [svc[s] EXCEPT !.ips = ips])

ChangeIgnore(s) == svc[s].exists /\ Edit(s, [svc[s] EXCEPT !.ignore = ~@])

DeleteService(s) ==
    /\ svc[s].exists /\ ~svc[s].deleting
    /\ Edit(s, IF svc[s].finalizer THEN [svc[s] EXCEPT !.deleting = TRUE]
                                     ELSE NoSvc(svc[s].uid))

FinalizePub(s, ip) ==
    /\ pub[s][ip].exists /\ ~pub[s][ip].deleting /\ ~pub[s][ip].finalizer
    /\ pub' = [pub EXCEPT ![s][ip].finalizer = TRUE]
    /\ UNCHANGED <<svc, svcCache, serviceCache, pubCache, queue, timer, worker, edits>>

FinishPub(s, ip) ==
    /\ pub[s][ip].deleting
    /\ pub' = [pub EXCEPT ![s][ip] = NoPub]
    /\ UNCHANGED <<svc, svcCache, serviceCache, pubCache, queue, timer, worker, edits>>

-----------------------------------------------------------------------------
Init ==
    /\ svc = [s \in Services |-> NoSvc(0)]
    /\ svcCache = svc
    /\ serviceCache = [n \in Names |-> {}]
    /\ pub = [s \in Services |-> NoItems]
    /\ pubCache = pub
    /\ queue = {} /\ timer = {}
    /\ worker = [s \in Services |-> Idle]
    /\ edits = 0

Next ==
    \/ \E s \in Services : \/ WorkerStep(s) \/ SyncService(s) \/ Resync(s)
                           \/ CreateService(s) \/ ChangeIPs(s) \/ ChangeIgnore(s)
                           \/ DeleteService(s)
                           \/ \E ip \in IPs : \/ SyncPub(s, ip) \/ FinalizePub(s, ip)
                                              \/ FinishPub(s, ip)
    \/ \E n \in Names : Expire(n)
    \/ Restart

Spec == Init /\ [][Next]_vars

(* Queued and delayed keys are eventually reconciled, every call returns,    *)
(* both watches deliver, entries of the service cache expire, informers      *)
(* resync, and the publicipaddress controller ends deletions                 *)
(* (PublicIPAddress!DeletionTerminates).  Nothing is assumed of users and of *)
(* the cloud provider.                                                       *)
Fairness ==
    /\ \A n \in Names : WF_vars(Expire(n))
    /\ \A s \in Services :
        /\ WF_vars(WorkerStep(s)) /\ WF_vars(SyncService(s)) /\ WF_vars(Resync(s))
        /\ \A ip \in IPs : WF_vars(SyncPub(s, ip)) /\ WF_vars(FinishPub(s, ip))

FairSpec == Spec /\ Fairness

-----------------------------------------------------------------------------
(* The state is well typed; in particular the service cache holds at most    *)
(* one projection per name.                                                  *)
TypeOK ==
    /\ svc \in [Services -> Svc] /\ svcCache \in [Services -> Svc]
    /\ serviceCache \in [Names -> SUBSET Projection]
    /\ \A n \in Names : Cardinality(serviceCache[n]) <= 1
    /\ pub \in [Services -> [IPs -> Pub]] /\ pubCache \in [Services -> [IPs -> Pub]]
    /\ queue \subseteq Services /\ timer \subseteq Services
    /\ worker \in [Services -> Worker]
    /\ edits \in 0 .. MaxEdits

Live(s, ip) == pub[s][ip].exists /\ ~pub[s][ip].deleting

Wanted(s, ip) == svc[s].exists /\ ~svc[s].deleting /\ ~svc[s].ignore /\ ip \in svc[s].ips

(* Every address of a service gets its PublicIPAddress, also when the one it *)
(* had is still being deleted: the address was taken away and given back, or *)
(* the service was ignored for a while.                                      *)
AddressesAreTracked ==
    \A s \in Services, ip \in IPs : Wanted(s, ip) ~> Live(s, ip) \/ ~Wanted(s, ip)

(* The PublicIPAddresses of a service that is gone are deleted, however the  *)
(* two caches lag behind each other: ensureDeleted and the predicate on      *)
(* owned objects make up for the deletions that the handlers missed.         *)
OrphansAreReleased ==
    \A s \in Services, ip \in IPs :
        ~svc[s].exists /\ Live(s, ip) ~> svc[s].exists \/ ~Live(s, ip)

(* The README: "A finalizer is put on the original resource to make sure it  *)
(* can't be deleted unless the deletion has been properly reconciled": when  *)
(* a service with the finalizer goes, none of the addresses it has then is   *)
(* left with a PublicIPAddress without a deletion timestamp, whatever fails  *)
(* and however the caches lag behind.                                        *)
FinalizerProtects ==
    [][\A s \in Services : svc[s].finalizer /\ ~svc'[s].exists
          => \A ip \in svc[s].ips : ~Live(s, ip)]_vars

(* The resources for addresses that the service had before are deleted as    *)
(* far as a cache that may lag behind lists them.  One that the list missed  *)
(* turns up when its service is gone, and then it is not overlooked: as long *)
(* as it lives, a watch has something to deliver about it or its service, or *)
(* a reconciliation of the service is due or in progress.                    *)
OrphansAreNoticed ==
    \A s \in Services, ip \in IPs :
        ~svc[s].exists /\ Live(s, ip)
        => \/ svcCache[s] # svc[s] \/ pubCache[s][ip] # pub[s][ip]
           \/ s \in queue \cup timer \/ worker[s].pc # "idle"

(* Every deletion of a service ends, also when the service is ignored or     *)
(* loses its addresses meanwhile and the predicate drops the event of the    *)
(* deletion.                                                                 *)
DeletionTerminates == \A s \in Services : svc[s].deleting ~> ~svc[s].deleting

(* The README: an address "that still exists after its corresponding service *)
(* has been deleted is considered to be orphaned and is therefore deleted":  *)
(* the deletion of a resource that may be cleaned ends with the address      *)
(* cleaned, so no service has the address then.                              *)
CleansOnlyOrphans ==
    [][\A s \in Services, ip \in IPs :
          pub[s][ip].deleting /\ ~pub'[s][ip].exists /\ ~pub[s][ip].doNotClean
          => ~Wanted(s, ip)]_vars

(* Finalization, for the services of the target cluster and their            *)
(* PublicIPAddresses.                                                        *)
Lifecycle == INSTANCE Finalization WITH
    Keys     <- Services,
    Resources <- IPs,
    phase    <- [s \in Services |-> IF ~svc[s].exists THEN "absent"
                                   ELSE IF svc[s].deleting THEN "dying"
                                   ELSE IF svc[s].finalizer THEN "guarded" ELSE "live"],
    wanted   <- [s \in Services |-> IF svc[s].ignore THEN {} ELSE svc[s].ips],
    made     <- [s \in Services |-> {ip \in IPs : Live(s, ip)}],
    stripped <- {}

(* The controller keeps what Finalization promises: a PublicIPAddress is     *)
(* created only under the finalizer of its service, the finalizer leaves a   *)
(* living service only when it is ignored or without addresses, and a        *)
(* service that is being deleted only after the resources for its addresses. *)
ImplementsFinalization == Lifecycle!Spec
=================================================================================
