---------------------------------- MODULE Node ----------------------------------
(*****************************************************************************)
(* The node controller: the generic reconciler (pkg/controller/reconciler.go)*)
(* driving the Azure node actuator (pkg/controller/azure/node/actuator.go),  *)
(* which keeps one VirtualMachine resource in the control cluster for every  *)
(* node of the target cluster and copies into its spec whether the node is   *)
(* not ready or unreachable.  As for services there are two watches, one per *)
(* cluster, each behind a predicate (node/predicate.go,                      *)
(* pkg/controller/predicate.go), and two caches.                             *)
(*                                                                           *)
(* Every remote call is one action.  The VirtualMachine of node n has the    *)
(* name of the node: it is vm[n].  The virtualmachine controller appears as  *)
(* what it does to these resources.                                          *)
(*****************************************************************************)
EXTENDS Integers, FiniteSets

CONSTANTS
    Nodes,              \* names of the nodes
    MaxEdits            \* bound on the changes to nodes, crashes and failing calls

ASSUME NodeConstants == MaxEdits \in Nat

VARIABLES
    node,               \* node[n]: the node n in the target cluster
    nodeInformer,       \* nodeInformer[n]: the node n in the informer cache
    nodeCache,          \* nodeCache[n]: the set of projections of n that the predicate
                        \* keeps: one, or none
    vm,                 \* vm[n]: the VirtualMachine n in the control cluster
    vmInformer,         \* vmInformer[n]: the same in the informer cache
    queue, timer,       \* nodes in the work queue, nodes with a delayed requeue
    worker,             \* worker[n]: the reconciliation of n in progress
    edits,              \* number of changes, crashes and failing calls so far
    stripped            \* history: the nodes whose finalizer somebody has taken off
                        \* since the worker last put it on

vars == <<node, nodeInformer, nodeCache, vm, vmInformer, queue, timer, worker, edits,
          stripped>>

-----------------------------------------------------------------------------
(* The status of the Ready condition, "none" if there is no such condition.  *)
ReadyStatus == {"True", "False", "Unknown", "none"}

NodeObject == [exists : BOOLEAN, uid : 0 .. MaxEdits, deleting : BOOLEAN,
               finalizer : BOOLEAN, ready : ReadyStatus, unreachable : BOOLEAN]

NoNode(uid) == [exists |-> FALSE, uid |-> uid, deleting |-> FALSE, finalizer |-> FALSE,
                ready |-> "none", unreachable |-> FALSE]

isNodeNotReadyOrUnreachable(o) == o.ready # "True" \/ o.unreachable

VM == [exists : BOOLEAN, deleting : BOOLEAN, finalizer : BOOLEAN,
       notReadyOrUnreachable : BOOLEAN]

NoVM == [exists |-> FALSE, deleting |-> FALSE, finalizer |-> FALSE,
         notReadyOrUnreachable |-> FALSE]

Projection == [deleting : BOOLEAN, notReadyOrUnreachable : BOOLEAN]

(* Mutant of NewProjection: the condition is kept, not what follows from it. *)
NewProjectionOfCondition(o) == [deleting |-> o.deleting, ready |-> o.ready]

NewProjection(o) ==
    [deleting |-> o.deleting, notReadyOrUnreachable |-> isNodeNotReadyOrUnreachable(o)]

PCs == {"idle", "addFinalizers", "createOrUpdate", "delete", "removeFinalizers"}

Worker == [pc : PCs, obj : NodeObject]

Idle == [pc |-> "idle", obj |-> NoNode(0)]

-----------------------------------------------------------------------------
(* The reconciler.  ShouldFinalize is always true.                           *)

(* Mutant of Dispatch: nothing is done about a node that is gone.            *)
DispatchExisting(o) ==
    CASE ~o.exists                              -> Idle
      [] o.exists /\ o.deleting /\ ~o.finalizer -> Idle
      [] o.exists /\ o.deleting /\ o.finalizer  -> [pc |-> "delete", obj |-> o]
      [] OTHER                                  -> [pc |-> "addFinalizers", obj |-> o]

(* Mutant of Dispatch: a deletion is not told from an update.                *)
DispatchOblivious(o) ==
    IF o.exists THEN [pc |-> "addFinalizers", obj |-> o] ELSE [pc |-> "delete", obj |-> o]

(* Mutant of Dispatch: the VirtualMachine is created without the finalizer.  *)
DispatchUnfinalized(o) ==
    CASE ~o.exists                              -> [pc |-> "delete", obj |-> o]
      [] o.exists /\ o.deleting /\ ~o.finalizer -> Idle
      [] o.exists /\ o.deleting /\ o.finalizer  -> [pc |-> "delete", obj |-> o]
      [] OTHER                                  -> [pc |-> "createOrUpdate", obj |-> o]

(* Reconcile: what the worker does with the object read from the cache.      *)
Dispatch(o) ==
    CASE ~o.exists                              -> [pc |-> "delete", obj |-> o]
      [] o.exists /\ o.deleting /\ ~o.finalizer -> Idle
      [] o.exists /\ o.deleting /\ o.finalizer  -> [pc |-> "delete", obj |-> o]
      [] OTHER                                  -> [pc |-> "addFinalizers", obj |-> o]

Disturb == edits < MaxEdits /\ edits' = edits + 1

Reconcile(n) ==
    /\ worker[n].pc = "idle"
    /\ \/ n \in queue /\ queue' = queue \ {n} /\ UNCHANGED timer
       \/ n \in timer /\ timer' = timer \ {n} /\ UNCHANGED queue
    /\ worker' = [worker EXCEPT ![n] = Dispatch(nodeInformer[n])]
    /\ UNCHANGED <<node, nodeInformer, nodeCache, vm, vmInformer, edits, stripped>>

Goto(n, w) == worker' = [worker EXCEPT ![n] = w] /\ UNCHANGED timer

Return(n) == Goto(n, Idle)

Requeue(n) == worker' = [worker EXCEPT ![n] = Idle] /\ timer' = timer \cup {n}

AddFinalizers(n) ==
    LET w == worker[n]
        o == [w.obj EXCEPT !.finalizer = TRUE]
    IN  /\ w.pc = "addFinalizers"
        /\ \/ Disturb /\ Requeue(n) /\ UNCHANGED <<node, stripped>>
           \/ ~node[n].exists /\ Return(n) /\ UNCHANGED <<node, edits, stripped>>
           \/ /\ node[n].exists /\ node[n] # w.obj
              /\ Requeue(n) /\ UNCHANGED <<node, edits, stripped>>
           \/ /\ node[n] = w.obj
              /\ node' = [node EXCEPT ![n] = o] /\ stripped' = stripped \ {n}
              /\ Goto(n, [pc |-> "createOrUpdate", obj |-> o]) /\ UNCHANGED edits
        /\ UNCHANGED <<nodeInformer, nodeCache, vm, vmInformer, queue>>

RemoveFinalizers(n) ==
    LET w == worker[n]
    IN  /\ w.pc = "removeFinalizers"
        /\ \/ Disturb /\ Requeue(n) /\ UNCHANGED node
           \/ ~node[n].exists /\ Return(n) /\ UNCHANGED <<node, edits>>
           \/ /\ node[n].exists /\ node[n] # w.obj
              /\ Requeue(n) /\ UNCHANGED <<node, edits>>
           \/ /\ node[n].exists /\ node[n] = w.obj
              /\ node' = [node EXCEPT ![n] = NoNode(@.uid)]
              /\ Return(n) /\ UNCHANGED edits
        /\ UNCHANGED <<nodeInformer, nodeCache, vm, vmInformer, queue, stripped>>

-----------------------------------------------------------------------------
(* The actuator.                                                             *)

(* Mutant of Desired: an existing resource keeps its spec.                   *)
DesiredOnce(old, o) ==
    IF old.exists THEN old
    ELSE [NoVM EXCEPT !.exists = TRUE, !.notReadyOrUnreachable = isNodeNotReadyOrUnreachable(o)]

(* The resource that CreateOrUpdate wants for the node o, given the old one. *)
Desired(old, o) ==
    [old EXCEPT !.exists = TRUE, !.notReadyOrUnreachable = isNodeNotReadyOrUnreachable(o)]

(* Create or update the resource, as the cache suggests.  A conflict is      *)
(* retried against the cache a few times, then it is an error.               *)
CreateOrUpdate(n) ==
    LET w      == worker[n]
        cached == vmInformer[n]
        new    == Desired(cached, w.obj)
    IN  /\ w.pc = "createOrUpdate"
        /\ Requeue(n)
        /\ \/ new # cached /\ Disturb /\ UNCHANGED vm
           \/ new # cached /\ vm[n] # cached /\ UNCHANGED <<vm, edits>>
           \/ new = cached /\ UNCHANGED <<vm, edits>>
           \/ /\ new # cached /\ vm[n] = cached
              /\ vm' = [vm EXCEPT ![n] = new] /\ UNCHANGED edits
        /\ UNCHANGED <<node, nodeInformer, nodeCache, vmInformer, queue, stripped>>

(* Mutant of Delete: only a resource that the cache knows is deleted.        *)
DeleteCached(n) ==
    LET w == worker[n]
    IN  /\ w.pc = "delete"
        /\ vm' = [vm EXCEPT ![n] = IF ~vmInformer[n].exists THEN @
                                   ELSE IF @.finalizer THEN [@ EXCEPT !.deleting = TRUE]
                                   ELSE NoVM]
        /\ IF w.obj.exists THEN Goto(n, [w EXCEPT !.pc = "removeFinalizers"]) ELSE Return(n)
        /\ UNCHANGED <<node, nodeInformer, nodeCache, vmInformer, queue, edits, stripped>>

(* Delete, called by delete or by ensureDeleted: the resource is deleted by  *)
(* name, whatever the cache knows of it.                                     *)
Delete(n) ==
    LET w == worker[n]
    IN  /\ w.pc = "delete"
        /\ \/ Disturb /\ Requeue(n) /\ UNCHANGED vm
           \/ /\ vm' = [vm EXCEPT ![n] = IF @.finalizer THEN [@ EXCEPT !.deleting = TRUE]
                                                       ELSE NoVM]
              /\ IF w.obj.exists THEN Goto(n, [w EXCEPT !.pc = "removeFinalizers"]) ELSE Return(n)
              /\ UNCHANGED edits
        /\ UNCHANGED <<node, nodeInformer, nodeCache, vmInformer, queue, stripped>>

WorkerStep(n) ==
    Reconcile(n) \/ AddFinalizers(n) \/ CreateOrUpdate(n) \/ Delete(n) \/ RemoveFinalizers(n)

-----------------------------------------------------------------------------
(* The watches and their predicates.                                         *)

(* nodePredicate.Update, known being the projections kept.  Timestamps are   *)
(* compared as pointers: two copies of one timestamp differ.                 *)
NodeChanged(old, new, known) ==
    LET health(o) == isNodeNotReadyOrUnreachable(o)
    IN  \/ known = {}
        \/ new.deleting \/ old.deleting \/ \E k \in known : k.deleting
        \/ health(new) # health(old) \/ \E k \in known : health(new) # k.notReadyOrUnreachable

(* An event of the node watch: nodePredicate Create, Update, Delete.         *)
SyncNode(n) ==
    LET old == nodeInformer[n]
        new == node[n]
        relevant == old.exists /\ new.exists => NodeChanged(old, new, nodeCache[n])
    IN  /\ old # new
        /\ nodeInformer' = [nodeInformer EXCEPT ![n] = new]
        /\ nodeCache' = [nodeCache EXCEPT ![n] =
                CASE ~new.exists            -> {}
                  [] new.exists /\ relevant -> {NewProjection(new)}
                  [] OTHER                  -> @]
        /\ queue' = IF relevant THEN queue \cup {n} ELSE queue
        /\ UNCHANGED <<node, vm, vmInformer, timer, worker, edits, stripped>>

(* An entry of the node cache expires, and the informer replays the node.    *)
ExpireAndResync(n) ==
    /\ nodeInformer[n].exists
    /\ nodeCache' = [nodeCache EXCEPT ![n] = {NewProjection(nodeInformer[n])}]
    /\ queue' = queue \cup {n}
    /\ UNCHANGED <<node, nodeInformer, vm, vmInformer, timer, worker, edits, stripped>>

(* Mutant of handleCreateOrUpdateEvent: only an owner that is there counts.  *)
handleCreateOrUpdateEventOfOwned(owner, o) ==
    owner.exists /\ owner.finalizer /\ owner.deleting /\ ~o.deleting

(* ownedObjectPredicate, the owner being read from the cache.                *)
handleCreateOrUpdateEvent(owner, o) ==
    ~owner.exists \/ (owner.finalizer /\ owner.deleting /\ ~o.deleting)

handleDeleteEvent(owner) == owner.exists /\ owner.finalizer /\ ~owner.deleting

SyncVM(n) ==
    LET relevant == IF vm[n].exists THEN handleCreateOrUpdateEvent(nodeInformer[n], vm[n])
                                    ELSE handleDeleteEvent(nodeInformer[n])
    IN  /\ vmInformer[n] # vm[n]
        /\ vmInformer' = [vmInformer EXCEPT ![n] = vm[n]]
        /\ queue' = IF relevant THEN queue \cup {n} ELSE queue
        /\ UNCHANGED <<node, nodeInformer, nodeCache, vm, timer, worker, edits, stripped>>

(* A new process lists both clusters; every object is a creation to it.      *)
Restart ==
    /\ Disturb
    /\ nodeInformer' = node /\ vmInformer' = vm
    /\ nodeCache' = [n \in Nodes |-> IF node[n].exists THEN {NewProjection(node[n])} ELSE {}]
    /\ queue' = {n \in Nodes : \/ node[n].exists
                               \/ vm[n].exists /\ handleCreateOrUpdateEvent(node[n], vm[n])}
    /\ timer' = {}
    /\ worker' = [n \in Nodes |-> Idle]
    /\ UNCHANGED <<node, vm, stripped>>

-----------------------------------------------------------------------------
(* Nodes come, change and go; the virtualmachine controller adds its         *)
(* finalizer and ends the deletions.                                         *)

Edit(n, o) ==
    /\ Disturb
    /\ node' = [node EXCEPT ![n] = o]
    /\ UNCHANGED <<nodeInformer, nodeCache, vm, vmInformer, queue, timer, worker>>

CreateNode(n) ==
    /\ ~node[n].exists /\ Edit(n, [NoNode(node[n].uid + 1) EXCEPT !.exists = TRUE])
    /\ UNCHANGED stripped

ChangeHealth(n) ==
    /\ node[n].exists
    /\ \E ready \in ReadyStatus, unreachable \in BOOLEAN :
          LET o == [node[n] EXCEPT !.ready = ready, !.unreachable = unreachable]
          IN  o # node[n] /\ Edit(n, o)
    /\ UNCHANGED stripped

DeleteNode(n) ==
    /\ node[n].exists /\ ~node[n].deleting
    /\ Edit(n, IF node[n].finalizer THEN [node[n] EXCEPT !.deleting = TRUE]
                                    ELSE NoNode(node[n].uid))
    /\ UNCHANGED stripped

(* Somebody takes the finalizer off: a node that is being deleted is gone.   *)
StripFinalizer(n) ==
    /\ node[n].finalizer
    /\ Edit(n, IF node[n].deleting THEN NoNode(node[n].uid)
                                   ELSE [node[n] EXCEPT !.finalizer = FALSE])
    /\ stripped' = stripped \cup {n}

FinalizeVM(n) ==
    /\ vm[n].exists /\ ~vm[n].deleting /\ ~vm[n].finalizer
    /\ vm' = [vm EXCEPT ![n].finalizer = TRUE]
    /\ UNCHANGED <<node, nodeInformer, nodeCache, vmInformer, queue, timer, worker, edits, stripped>>

FinishVM(n) ==
    /\ vm[n].deleting
    /\ vm' = [vm EXCEPT ![n] = NoVM]
    /\ UNCHANGED <<node, nodeInformer, nodeCache, vmInformer, queue, timer, worker, edits, stripped>>

-----------------------------------------------------------------------------
Init ==
    /\ node = [n \in Nodes |-> NoNode(0)]
    /\ nodeInformer = node
    /\ nodeCache = [n \in Nodes |-> {}]
    /\ vm = [n \in Nodes |-> NoVM]
    /\ vmInformer = vm
    /\ queue = {} /\ timer = {}
    /\ worker = [n \in Nodes |-> Idle]
    /\ edits = 0
    /\ stripped = {}

Next ==
    \/ \E n \in Nodes : \/ WorkerStep(n) \/ SyncNode(n) \/ ExpireAndResync(n) \/ SyncVM(n)
                        \/ CreateNode(n) \/ ChangeHealth(n) \/ DeleteNode(n)
                        \/ StripFinalizer(n)
                        \/ FinalizeVM(n) \/ FinishVM(n)
    \/ Restart

Spec == Init /\ [][Next]_vars

(* Queued and delayed keys are eventually reconciled, every call returns,    *)
(* both watches deliver and resync, and the virtualmachine controller ends   *)
(* deletions (VirtualMachine!DeletionTerminates).                            *)
Fairness ==
    \A n \in Nodes : /\ WF_vars(WorkerStep(n))
                     /\ WF_vars(SyncNode(n)) /\ WF_vars(ExpireAndResync(n))
                     /\ WF_vars(SyncVM(n)) /\ WF_vars(FinishVM(n))

FairSpec == Spec /\ Fairness

-----------------------------------------------------------------------------
(* The state is well typed; in particular the node cache holds projections.  *)
TypeOK ==
    /\ node \in [Nodes -> NodeObject] /\ nodeInformer \in [Nodes -> NodeObject]
    /\ nodeCache \in [Nodes -> SUBSET Projection]
    /\ vm \in [Nodes -> VM] /\ vmInformer \in [Nodes -> VM]
    /\ queue \subseteq Nodes /\ timer \subseteq Nodes
    /\ worker \in [Nodes -> Worker]
    /\ edits \in 0 .. MaxEdits
    /\ stripped \subseteq Nodes

Live(n) == vm[n].exists /\ ~vm[n].deleting

Wanted(n) == node[n].exists /\ ~node[n].deleting

Agrees(n) == vm[n].notReadyOrUnreachable = isNodeNotReadyOrUnreachable(node[n])

(* The VirtualMachine of a node that no longer changes ends up in existence  *)
(* and saying whether the node is not ready or unreachable, also when the    *)
(* node came back while the resource of its predecessor was being deleted.   *)
HealthIsTracked == \A n \in Nodes : []<>(Wanted(n) => Live(n) /\ Agrees(n))

(* The VirtualMachine of a node that is gone is deleted, however the two     *)
(* caches lag behind each other: ensureDeleted and the predicate on owned    *)
(* objects make up for a node that went without the finalizer.               *)
OrphansAreReleased ==
    \A n \in Nodes : ~node[n].exists /\ Live(n) ~> node[n].exists \/ ~Live(n)

(* The README: "A finalizer is put on the original resource to make sure it  *)
(* can't be deleted unless the deletion has been properly reconciled": when  *)
(* the worker takes the finalizer off a node and thereby lets it go, the     *)
(* VirtualMachine of the node is not left without a deletion timestamp.      *)
FinalizerProtects ==
    [][\A n \in Nodes :
          worker[n].pc = "removeFinalizers" /\ worker'[n] # worker[n]
             /\ node[n].exists /\ ~node'[n].exists
          => ~Live(n)]_vars

(* A VirtualMachine that outlives its node is not overlooked: as long as it  *)
(* lives, the watch has the deletion of the node to deliver, or a            *)
(* reconciliation of the node is due or in progress.  A worker that saw the  *)
(* node and creates the resource after the node went, and a process that     *)
(* starts after the node went, must see to that.                             *)
OrphansAreNoticed ==
    \A n \in Nodes :
        ~node[n].exists /\ Live(n)
        => nodeInformer[n] # node[n] \/ n \in queue \cup timer \/ worker[n].pc # "idle"

(* Every deletion of a node ends, whatever changes meanwhile: failing calls, *)
(* conflicts and crashes put it off only.                                    *)
DeletionTerminates == \A n \in Nodes : node[n].deleting ~> ~node[n].deleting

(* Finalization, for the nodes of the target cluster and their               *)
(* VirtualMachines.                                                          *)
Lifecycle == INSTANCE Finalization WITH
    Keys      <- Nodes,
    Resources <- {"vm"},
    phase     <- [n \in Nodes |-> IF ~node[n].exists THEN "absent"
                                 ELSE IF node[n].deleting THEN "dying"
                                 ELSE IF node[n].finalizer THEN "guarded" ELSE "live"],
    wanted    <- [n \in Nodes |-> IF node[n].exists THEN {"vm"} ELSE {}],
    made      <- [n \in Nodes |-> IF Live(n) THEN {"vm"} ELSE {}]

(* The controller keeps what Finalization promises: unless somebody takes    *)
(* the finalizer off, a VirtualMachine is created only under the finalizer   *)
(* of its node, and the finalizer leaves a node only when its deletion was   *)
(* requested and after that of the VirtualMachine.                           *)
ImplementsFinalization == Lifecycle!Spec
=================================================================================
