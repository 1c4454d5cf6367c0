------------------------------ MODULE VirtualMachine ------------------------------
(*****************************************************************************)
(* The virtualmachine controller: the generic reconciler                     *)
(* (pkg/controller/reconciler.go) driving the Azure virtualmachine actuator  *)
(* (pkg/controller/azure/virtualmachine/actuator.go), which reapplies Azure  *)
(* virtual machines in provisioning state Failed and publishes their state   *)
(* in a gauge.                                                               *)
(*                                                                           *)
(* Every remote call is one action.  The virtual machine of resource v is    *)
(* called v in Azure (getVirtualMachineName yields the same name from the    *)
(* status, the provider id or the resource).  A requeue is either a "retry"  *)
(* (requeue interval, backoff or error) or a "sync" (sync period).           *)
(*****************************************************************************)
EXTENDS FailedOperations, FiniteSets

CONSTANTS
    VMs,                \* names of the VirtualMachine resources
    MaxGetAttempts, MaxReapplyAttempts,     \* the configuration
    MaxUid,             \* bound on the incarnations of one resource name
    MaxGeneration,      \* bound on the changes to one resource's spec
    MaxLosses,          \* bound on the failing API calls and the crashes
    Faults              \* subset of {"get", "reapply"}: Azure calls that may fail, for ever

ASSUME VMConstants ==
    /\ MaxGetAttempts \in 1 .. AttemptsBound
    /\ MaxReapplyAttempts \in 1 .. AttemptsBound
    /\ MaxUid \in Nat /\ MaxGeneration \in Nat /\ MaxLosses \in Nat

VARIABLES
    api,        \* api[v]: the resource v on the API server
    cache,      \* cache[v]: the resource v in the informer cache
    queue,      \* keys in the work queue
    timer,      \* timer[v]: the pending delayed requeue of v
    worker,     \* worker[v]: the reconciliation of v in progress
    azure,      \* azure[v]: provisioning state of the Azure virtual machine
    gauge,      \* gauge[v]: the azure_virtual_machine_states metric
    losses,     \* number of failing API calls and crashes so far
    burst       \* burst[v]: Reapply calls since v was last reapplied successfully
                \* or reconciled for a reason other than a retry (history variable)

vars == <<api, cache, queue, timer, worker, azure, gauge, losses, burst>>

-----------------------------------------------------------------------------
OpTypes == {"Get", "Reapply"}

States == {"Absent", "Succeeded", "Failed", "Updating"}

Gauges == {"none", "ok", "willReapply", "failed"}

(* A VirtualMachine; when it does not exist, uid is that of the last         *)
(* incarnation.  state is the provisioning state its status records.         *)
Resource == [exists : BOOLEAN, uid : 0 .. MaxUid, generation : 0 .. MaxGeneration,
             deleting : BOOLEAN, finalizer : BOOLEAN,
             notReadyOrUnreachable : BOOLEAN, state : States,
             failed : FailedOperationsOf(OpTypes)]

Blank(uid) ==
         [exists |-> FALSE, uid |-> uid, generation |-> 0,
          deleting |-> FALSE, finalizer |-> FALSE,
          notReadyOrUnreachable |-> FALSE, state |-> "Absent",
          failed |-> NoFailedOperations(OpTypes)]

PCs == {"idle", "addFinalizers", "get", "updateStatus", "reapply", "getReapplied",
        "removeFinalizers"}

Outcomes == {"none", "getOk", "getFailed", "reapplyOk", "reapplyFailed"}

(* seen is the state of the Azure virtual machine that Get returned first,   *)
(* last the state that the pending status update records.                    *)
Worker == [pc : PCs, deletes : BOOLEAN, obj : Resource, seen : States, last : States,
           failed : FailedOperationsOf(OpTypes), outcome : Outcomes]

Idle == [pc |-> "idle", deletes |-> FALSE, obj |-> Blank(0), seen |-> "Absent",
         last |-> "Absent", failed |-> NoFailedOperations(OpTypes), outcome |-> "none"]

-----------------------------------------------------------------------------
(* The reconciler.                                                           *)

Dispatch(o) ==
    LET w == [Idle EXCEPT !.obj = o, !.failed = o.failed]
    IN  CASE ~o.exists                     -> Idle
          [] o.deleting /\ ~o.finalizer    -> Idle
          [] o.deleting /\ o.finalizer     -> [w EXCEPT !.pc = "get", !.deletes = TRUE]
          [] OTHER                         -> [w EXCEPT !.pc = "addFinalizers"]

Lose == losses < MaxLosses /\ losses' = losses + 1

(* A retry may be due at once, whatever the cache shows; the informer has    *)
(* caught up by the time the sync period ends.                               *)
Reconcile(v) ==
    /\ worker[v].pc = "idle"
    /\ \/ /\ v \in queue /\ queue' = queue \ {v} /\ UNCHANGED timer
          /\ burst' = [burst EXCEPT ![v] = 0]
       \/ /\ timer[v] = "retry" \/ (timer[v] = "sync" /\ cache[v] = api[v])
          /\ timer' = [timer EXCEPT ![v] = "none"] /\ UNCHANGED queue
          /\ burst' = [burst EXCEPT ![v] = IF timer[v] = "retry" THEN @ ELSE 0]
    /\ worker' = [worker EXCEPT ![v] = Dispatch(cache[v])]
    /\ UNCHANGED <<api, cache, azure, gauge, losses>>

Return(v) == worker' = [worker EXCEPT ![v] = Idle] /\ UNCHANGED timer

(* Of two delayed requeues of a key the earlier one counts.                  *)
Delayed(v, kind) == [timer EXCEPT ![v] = IF @ = "retry" THEN @ ELSE kind]

Requeue(v, kind) == worker' = [worker EXCEPT ![v] = Idle] /\ timer' = Delayed(v, kind)

AddFinalizers(v) ==
    LET w == worker[v]
        o == [w.obj EXCEPT !.finalizer = TRUE]
    IN  /\ w.pc = "addFinalizers"
        /\ \/ Lose /\ Requeue(v, "retry") /\ UNCHANGED api
           \/ ~api[v].exists /\ Return(v) /\ UNCHANGED <<api, losses>>
           \/ /\ api[v].exists /\ api[v] # w.obj
              /\ Requeue(v, "retry") /\ UNCHANGED <<api, losses>>
           \/ /\ api[v] = w.obj
              /\ api' = [api EXCEPT ![v] = o]
              /\ worker' = [worker EXCEPT ![v] = [w EXCEPT !.obj = o, !.pc = "get"]]
              /\ UNCHANGED <<timer, losses>>
        /\ UNCHANGED <<cache, queue, azure, gauge, burst>>

RemoveFinalizers(v) ==
    LET w == worker[v]
        finish == IF w.outcome = "getFailed" THEN Requeue(v, "sync") ELSE Return(v)
    IN  /\ w.pc = "removeFinalizers"
        /\ \/ Lose /\ Requeue(v, "retry") /\ UNCHANGED api
           \/ ~api[v].exists /\ finish /\ UNCHANGED <<api, losses>>
           \/ /\ api[v].exists /\ api[v] # w.obj
              /\ Requeue(v, "retry") /\ UNCHANGED <<api, losses>>
           \/ /\ api[v].exists /\ api[v] = w.obj
              /\ api' = [api EXCEPT ![v] =
                      IF @.deleting THEN Blank(@.uid) ELSE [@ EXCEPT !.finalizer = FALSE]]
              /\ finish /\ UNCHANGED losses
        /\ UNCHANGED <<cache, queue, azure, gauge, burst>>

-----------------------------------------------------------------------------
(* The actuator.                                                             *)

(* Mutant of GaugeOf: only a failed machine has a value.                     *)
GaugeOfFailures(s) == IF s = "Failed" THEN "failed" ELSE "none"

(* setVMStatesGauge                                                          *)
GaugeOf(s) == CASE s = "Failed" -> "failed" [] s = "Absent" -> "none" [] OTHER -> "ok"

(* Mutant of GetFailed: the failed attempt is not counted.                   *)
GetFailedUncounted(w) == [w EXCEPT !.pc = "updateStatus", !.outcome = "getFailed"]

GetFailed(w) ==
    [w EXCEPT !.pc = "updateStatus", !.outcome = "getFailed",
              !.failed = AddOrUpdateFailedOperation(@, "Get")]

(* Delete sets the gauge before it records what it found, CreateOrUpdate     *)
(* after.                                                                    *)
Get(v) ==
    LET w == worker[v]
    IN  /\ w.pc = "get"
        /\ \/ /\ "get" \in Faults
              /\ worker' = [worker EXCEPT ![v] = GetFailed(w)]
              /\ UNCHANGED gauge
           \/ /\ worker' = [worker EXCEPT ![v] =
                     [w EXCEPT !.pc = "updateStatus", !.outcome = "getOk",
                               !.seen = azure[v], !.last = azure[v],
                               !.failed = DeleteFailedOperation(@, "Get")]]
              /\ gauge' = IF w.deletes THEN [gauge EXCEPT ![v] = GaugeOf(azure[v])] ELSE gauge
        /\ UNCHANGED <<api, cache, queue, timer, azure, burst, losses>>

(* Mutant of ReapplyFailed: the failed attempt is not counted.               *)
ReapplyFailedUncounted(w) == [w EXCEPT !.pc = "updateStatus", !.outcome = "reapplyFailed"]

(* The outcome of reapplyAzureVirtualMachine, which needs both its calls.    *)
ReapplyFailed(w) ==
    [w EXCEPT !.pc = "updateStatus", !.outcome = "reapplyFailed",
              !.failed = AddOrUpdateFailedOperation(@, "Reapply")]

(* Reapplying leaves the virtual machine in some state; it fails if there is *)
(* none.  A failure may be reported for a reapply that was carried out.      *)
Reapply(v) ==
    LET w == worker[v]
    IN  /\ w.pc = "reapply"
        /\ burst' = [burst EXCEPT ![v] = IF @ <= MaxReapplyAttempts + MaxLosses + 1 THEN @ + 1
                                             ELSE @]
        /\ \/ /\ "reapply" \in Faults \/ azure[v] = "Absent"
              /\ UNCHANGED azure
              /\ worker' = [worker EXCEPT ![v] = ReapplyFailed(w)]
           \/ /\ azure[v] # "Absent"
              /\ \E s \in States \ {"Absent"} : azure' = [azure EXCEPT ![v] = s]
              /\ \/ worker' = [worker EXCEPT ![v] = [w EXCEPT !.pc = "getReapplied"]]
                 \/ "reapply" \in Faults /\ worker' = [worker EXCEPT ![v] = ReapplyFailed(w)]
        /\ UNCHANGED <<api, cache, queue, timer, gauge, losses>>

(* The gauge is set before the status is updated.                            *)
GetReapplied(v) ==
    LET w == worker[v]
    IN  /\ w.pc = "getReapplied"
        /\ \/ /\ "get" \in Faults
              /\ worker' = [worker EXCEPT ![v] = ReapplyFailed(w)]
              /\ UNCHANGED <<gauge, burst>>
           \/ /\ worker' = [worker EXCEPT ![v] =
                     [w EXCEPT !.pc = "updateStatus", !.outcome = "reapplyOk",
                               !.last = azure[v],
                               !.failed = DeleteFailedOperation(@, "Reapply")]]
              /\ gauge' = [gauge EXCEPT ![v] = GaugeOf(azure[v])]
              /\ burst' = [burst EXCEPT ![v] = 0]
        /\ UNCHANGED <<api, cache, queue, timer, azure, losses>>

(* Mutant of RequeueKind: a machine in a final state is not polled again.    *)
RequeueKindOnce(s) == IF s \in {"Succeeded", "Failed"} THEN "none" ELSE "retry"

(* The requeue at the end of CreateOrUpdate, decided on what Get returned    *)
(* first.                                                                    *)
RequeueKind(s) == IF s \in {"Succeeded", "Failed"} THEN "sync" ELSE "retry"

(* What follows a successful status update: the worker, the requeue and the  *)
(* gauge.                                                                    *)
After(v, w, o) ==
    LET goto(pc) == [w EXCEPT !.obj = o, !.pc = pc]
        step(u, kind, g) == [worker |-> u, requeue |-> kind, gauge |-> g]
    IN  CASE w.outcome = "getFailed" /\ w.failed["Get"] < MaxGetAttempts ->
               step(Idle, "retry", gauge[v])
          [] w.outcome = "getFailed" /\ w.failed["Get"] >= MaxGetAttempts ->
               IF w.deletes THEN step(goto("removeFinalizers"), "none", gauge[v])
                            ELSE step(Idle, "sync", gauge[v])
          [] w.outcome = "getOk" /\ w.deletes ->
               step(goto("removeFinalizers"), "none", gauge[v])
          [] w.outcome = "getOk" /\ ~w.deletes /\ w.seen = "Failed" ->
               step(goto("reapply"), "none", "willReapply")
          [] w.outcome = "getOk" /\ ~w.deletes /\ w.seen # "Failed" ->
               step(Idle, RequeueKind(w.seen), GaugeOf(w.seen))
          [] w.outcome = "reapplyFailed" /\ w.failed["Reapply"] < MaxReapplyAttempts ->
               step(Idle, "retry", gauge[v])
          [] w.outcome = "reapplyFailed" /\ w.failed["Reapply"] >= MaxReapplyAttempts ->
               step(Idle, "sync", "failed")
          [] w.outcome = "reapplyOk" ->
               step(Idle, RequeueKind(w.seen), gauge[v])

(* updateVirtualMachineStatus: CreateOrPatch against the cached object.  An  *)
(* object missing from the cache or from the server is an error.             *)
UpdateStatus(v) ==
    LET w       == worker[v]
        cached  == cache[v]
        state   == IF w.outcome = "getFailed" THEN "Absent" ELSE w.last
        moved   == state # cached.state
        recount == w.failed # cached.failed \/ w.outcome \in {"getFailed", "reapplyFailed"}
        merged  == [api[v] EXCEPT !.state  = IF moved THEN state ELSE @,
                                  !.failed = IF recount THEN w.failed ELSE @]
        follow(o) == LET a == After(v, w, o)
                     IN  /\ worker' = [worker EXCEPT ![v] = a.worker]
                         /\ timer' = IF a.requeue = "none" THEN timer ELSE Delayed(v, a.requeue)
                         /\ gauge' = [gauge EXCEPT ![v] = a.gauge]
        error   == Requeue(v, "retry") /\ UNCHANGED <<api, gauge>>
    IN  /\ w.pc = "updateStatus"
        /\ \/ ~cached.exists /\ error /\ UNCHANGED losses
           \/ /\ cached.exists /\ ~moved /\ ~recount
              /\ follow(cached) /\ UNCHANGED <<api, losses>>
           \/ /\ cached.exists /\ (moved \/ recount)
              /\ \/ Lose /\ error
                 \/ ~api[v].exists /\ error /\ UNCHANGED losses
                 \/ /\ api[v].exists
                    /\ api' = [api EXCEPT ![v] = merged]
                    /\ follow(merged) /\ UNCHANGED losses
        /\ UNCHANGED <<cache, queue, azure, burst>>

WorkerStep(v) ==
    \/ Reconcile(v) \/ AddFinalizers(v) \/ Get(v) \/ Reapply(v) \/ GetReapplied(v)
    \/ UpdateStatus(v) \/ RemoveFinalizers(v)

-----------------------------------------------------------------------------
(* The environment: the node controller, the informer, restarts, Azure.      *)

CreateResource(v) ==
    /\ ~api[v].exists /\ api[v].uid < MaxUid
    /\ api' = [api EXCEPT ![v] = [Blank(@.uid + 1) EXCEPT !.exists = TRUE]]
    /\ UNCHANGED <<cache, queue, timer, worker, azure, gauge, burst, losses>>

DeleteResource(v) ==
    /\ api[v].exists /\ ~api[v].deleting
    /\ api' = [api EXCEPT ![v] =
            IF @.finalizer THEN [@ EXCEPT !.deleting = TRUE] ELSE Blank(@.uid)]
    /\ UNCHANGED <<cache, queue, timer, worker, azure, gauge, burst, losses>>

(* The node controller records that the node became ready or ceased to be.   *)
ChangeHealth(v) ==
    /\ api[v].exists /\ api[v].generation < MaxGeneration
    /\ api' = [api EXCEPT ![v].notReadyOrUnreachable = ~@, ![v].generation = @ + 1]
    /\ UNCHANGED <<cache, queue, timer, worker, azure, gauge, burst, losses>>

GenerationChanged(old, new) ==
    \/ old.exists # new.exists \/ old.uid # new.uid
    \/ old.deleting # new.deleting \/ old.generation # new.generation

SyncCache(v) ==
    /\ cache[v] # api[v]
    /\ cache' = [cache EXCEPT ![v] = api[v]]
    /\ queue' = IF GenerationChanged(cache[v], api[v]) THEN queue \cup {v} ELSE queue
    /\ UNCHANGED <<api, timer, worker, azure, gauge, burst, losses>>

(* Metrics live in memory too.                                               *)
Restart ==
    /\ Lose
    /\ cache' = api
    /\ queue' = {v \in VMs : api[v].exists}
    /\ timer' = [v \in VMs |-> "none"]
    /\ worker' = [v \in VMs |-> Idle]
    /\ gauge' = [v \in VMs |-> "none"]
    /\ burst' = [v \in VMs |-> 0]
    /\ UNCHANGED <<api, azure>>

(* The provisioning state changes, the machine is created or deleted.        *)
AzureStep(v) ==
    /\ \E s \in States \ {azure[v]} : azure' = [azure EXCEPT ![v] = s]
    /\ UNCHANGED <<api, cache, queue, timer, worker, gauge, burst, losses>>

-----------------------------------------------------------------------------
Init ==
    /\ api = [v \in VMs |-> Blank(0)]
    /\ cache = api
    /\ queue = {}
    /\ timer = [v \in VMs |-> "none"]
    /\ worker = [v \in VMs |-> Idle]
    /\ azure \in [VMs -> States]
    /\ gauge = [v \in VMs |-> "none"]
    /\ losses = 0
    /\ burst = [v \in VMs |-> 0]

Next ==
    \/ \E v \in VMs : \/ WorkerStep(v)
                      \/ CreateResource(v) \/ DeleteResource(v) \/ ChangeHealth(v)
                      \/ SyncCache(v) \/ AzureStep(v)
    \/ Restart

Spec == Init /\ [][Next]_vars

(* Queued and delayed keys are eventually reconciled, every call returns,    *)
(* and the watch delivers.  Nothing is assumed of the node controller, of    *)
(* Azure or of the success of a call.                                        *)
Fairness == \A v \in VMs : WF_vars(WorkerStep(v)) /\ WF_vars(SyncCache(v))

FairSpec == Spec /\ Fairness

-----------------------------------------------------------------------------
(* The state is well typed; in particular the attempts that a status counts  *)
(* stay within their range, whatever fails.                                  *)
TypeOK ==
    /\ api \in [VMs -> Resource]
    /\ cache \in [VMs -> Resource]
    /\ queue \subseteq VMs
    /\ timer \in [VMs -> {"none", "retry", "sync"}]
    /\ worker \in [VMs -> Worker]
    /\ azure \in [VMs -> States]
    /\ gauge \in [VMs -> Gauges]
    /\ losses \in 0 .. MaxLosses
    /\ burst \in [VMs -> 0 .. MaxReapplyAttempts + MaxLosses + 2]

Tracked(v) == api[v].exists /\ ~api[v].deleting

(* Without an event, a sync or a success, a virtual machine is reapplied at  *)
(* most the configured number of times, however failures of the operations   *)
(* alternate and the cache lags behind: the attempts are counted in the      *)
(* status across reconciliations.  If that number is one, a delayed requeue  *)
(* that was pending when an event led to the attempt adds another; and each  *)
(* count that was lost adds one.                                             *)
RetriesBounded ==
    \A v \in VMs : burst[v] <= losses + 2 \/ burst[v] <= losses + MaxReapplyAttempts

(* A tracked resource is never forgotten: it is queued, delayed, reconciled, *)
(* or the informer still has an event for it.                                *)
AlwaysScheduled ==
    \A v \in VMs : Tracked(v) =>
        \/ v \in queue \/ timer[v] # "none" \/ worker[v].pc # "idle"
        \/ GenerationChanged(cache[v], api[v])

(* The status says that asking Azure for the machine has been given up.      *)
GetGivenUp(v) == api[v].failed["Get"] >= MaxGetAttempts

(* A failed virtual machine is repaired or an alert is raised, even if no    *)
(* Reapply ever succeeds (CreateOrUpdate gives up and sets the gauge), or    *)
(* the status says that not even Get does.                                   *)
RepairedOrAlerted ==
    \A v \in VMs : Tracked(v) /\ azure[v] = "Failed"
                  ~> \/ ~Tracked(v) \/ azure[v] # "Failed"
                     \/ gauge[v] = "failed" \/ GetGivenUp(v)

(* An alert does not outlive the failure of a tracked virtual machine that   *)
(* Azure still gives information about.                                      *)
AlertEnds ==
    \A v \in VMs : Tracked(v) /\ azure[v] = "Succeeded"
                  ~> \/ ~Tracked(v) \/ azure[v] # "Succeeded"
                     \/ gauge[v] = "ok" \/ GetGivenUp(v)

(* The deletion of a resource ends, even if every call to Azure fails.       *)
DeletionTerminates == \A v \in VMs : api[v].deleting ~> ~api[v].deleting
=================================================================================
