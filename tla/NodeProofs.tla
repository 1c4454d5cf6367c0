-------------------------------- MODULE NodeProofs --------------------------------
(*****************************************************************************)
(* Theorems about Node, for every set of nodes and every bound on what users,*)
(* failing calls and crashes do.                                             *)
(*****************************************************************************)
EXTENDS Node, TLAPS

-----------------------------------------------------------------------------
(* The inductive invariant.                                                  *)

(* Every incarnation of a node was an edit.                                  *)
Incarnations(n) == node[n].uid <= edits

(* The object of a worker that finalizes it is not being deleted; the one of *)
(* a worker that has deleted or is about to delete its VirtualMachine is, or *)
(* it is gone.                                                               *)
KnowsDeletion(n) ==
    LET w == worker[n]
    IN  /\ w.pc = "addFinalizers" => w.obj.exists /\ ~w.obj.deleting
        /\ w.pc = "delete" /\ w.obj.exists => w.obj.deleting
        /\ w.pc = "removeFinalizers" => w.obj.exists /\ w.obj.deleting

(* From the deletion of the VirtualMachine to the removal of the finalizer,  *)
(* nobody creates it again: only the worker itself does.                     *)
DeletedFirst(n) == worker[n].pc = "removeFinalizers" => ~Live(n)

KeyInv(n) == Incarnations(n) /\ KnowsDeletion(n) /\ DeletedFirst(n)

IInv == TypeOK /\ \A n \in Nodes : KeyInv(n)

-----------------------------------------------------------------------------
(* Typing of the operators the actions are built from.                       *)

LEMMA BlankType ==
    /\ \A u \in 0 .. MaxEdits : NoNode(u) \in NodeObject
    /\ NoVM \in VM /\ Idle \in Worker
<1>1. \A u \in 0 .. MaxEdits : NoNode(u) \in NodeObject
  BY NodeConstants DEF NoNode, NodeObject, ReadyStatus
<1>2. NoVM \in VM
  BY DEF NoVM, VM
<1>3. 0 \in 0 .. MaxEdits
  BY NodeConstants
<1> QED
  BY <1>1, <1>2, <1>3 DEF Idle, Worker, PCs

LEMMA OperatorsType ==
    ASSUME NEW o \in NodeObject, NEW c \in VM
    PROVE  /\ NewProjection(o) \in Projection /\ Dispatch(o) \in Worker
           /\ Desired(c, o) \in VM
<1>1. isNodeNotReadyOrUnreachable(o) \in BOOLEAN
  BY DEF isNodeNotReadyOrUnreachable
<1>2. NewProjection(o) \in Projection
  BY <1>1 DEF NewProjection, Projection, NodeObject
<1>3. Desired(c, o) \in VM
  BY <1>1 DEF Desired, VM
<1>4. Dispatch(o) \in Worker
  BY BlankType DEF Dispatch, Worker, PCs
<1> QED
  BY <1>2, <1>3, <1>4

(* Every step keeps the types: one step of the proof per action.             *)
LEMMA TypeInductive == TypeOK /\ (\A n \in Nodes : Incarnations(n)) /\ [Next]_vars => TypeOK'
<1> SUFFICES ASSUME TypeOK, \A n \in Nodes : Incarnations(n), [Next]_vars
             PROVE  TypeOK'
  OBVIOUS
<1> USE NodeConstants
<1>0. ASSUME NEW n \in Nodes
      PROVE  /\ node[n] \in NodeObject /\ nodeInformer[n] \in NodeObject
             /\ vm[n] \in VM /\ vmInformer[n] \in VM
             /\ worker[n] \in Worker /\ worker[n].obj \in NodeObject
             /\ NoNode(node[n].uid) \in NodeObject
  BY BlankType DEF TypeOK, Worker, NodeObject
<1>1. ASSUME NEW n \in Nodes, Reconcile(n) PROVE TypeOK'
  <2>1. Dispatch(nodeInformer[n]) \in Worker
    BY <1>0, BlankType, OperatorsType
  <2> QED
    BY <1>1, <2>1 DEF Reconcile, TypeOK
<1>2. ASSUME NEW n \in Nodes, AddFinalizers(n) PROVE TypeOK'
  <2> DEFINE o == [worker[n].obj EXCEPT !.finalizer = TRUE]
  <2>1. o \in NodeObject
    BY <1>0 DEF NodeObject
  <2>2. [pc |-> "createOrUpdate", obj |-> o] \in Worker /\ Idle \in Worker
    BY <2>1, BlankType DEF Worker, PCs
  <2>3. CASE /\ node' = [node EXCEPT ![n] = o]
             /\ worker' = [worker EXCEPT ![n] = [pc |-> "createOrUpdate", obj |-> o]]
             /\ UNCHANGED <<timer, edits>>
    <3>1. node' \in [Nodes -> NodeObject] /\ worker' \in [Nodes -> Worker]
      BY <2>1, <2>2, <2>3 DEF TypeOK
    <3> QED
      BY <1>2, <2>3, <3>1 DEF AddFinalizers, TypeOK
  <2>4. CASE UNCHANGED node /\ (Requeue(n) \/ Return(n)) /\ (Disturb \/ UNCHANGED edits)
    <3>1. /\ worker' \in [Nodes -> Worker] /\ timer' \subseteq Nodes /\ edits' \in 0 .. MaxEdits
      BY <2>2, <2>4 DEF TypeOK, Disturb, Requeue, Return, Goto
    <3> QED
      BY <1>2, <2>4, <3>1 DEF AddFinalizers, TypeOK
  <2> QED
    BY <1>2, <2>3, <2>4 DEF AddFinalizers, Goto
<1>3. ASSUME NEW n \in Nodes, RemoveFinalizers(n) PROVE TypeOK'
  <2>1. /\ node' \in [Nodes -> NodeObject] /\ worker' \in [Nodes -> Worker]
        /\ timer' \subseteq Nodes /\ edits' \in 0 .. MaxEdits
    BY <1>0, <1>3, BlankType DEF RemoveFinalizers, TypeOK, Disturb, Requeue, Return, Goto
  <2> QED
    BY <1>3, <2>1 DEF RemoveFinalizers, TypeOK
<1>4. ASSUME NEW n \in Nodes, CreateOrUpdate(n) PROVE TypeOK'
  <2>1. Desired(vmInformer[n], worker[n].obj) \in VM
    BY <1>0, OperatorsType
  <2>2. /\ vm' \in [Nodes -> VM] /\ worker' \in [Nodes -> Worker]
        /\ timer' \subseteq Nodes /\ edits' \in 0 .. MaxEdits
    BY <1>4, <2>1, BlankType DEF CreateOrUpdate, TypeOK, Disturb, Requeue
  <2> QED
    BY <1>4, <2>2 DEF CreateOrUpdate, TypeOK
<1>5. ASSUME NEW n \in Nodes, Delete(n) PROVE TypeOK'
  <2>1. [vm[n] EXCEPT !.deleting = TRUE] \in VM /\ NoVM \in VM
    BY <1>0, BlankType DEF VM
  <2>2. [worker[n] EXCEPT !.pc = "removeFinalizers"] \in Worker /\ Idle \in Worker
    BY <1>0, BlankType DEF Worker, PCs
  <2>3. vm' \in [Nodes -> VM]
    BY <1>5, <2>1 DEF Delete, TypeOK
  <2>4. /\ worker' \in [Nodes -> Worker] /\ timer' \subseteq Nodes /\ edits' \in 0 .. MaxEdits
    <3>1. CASE Disturb /\ Requeue(n)
      BY <2>2, <3>1 DEF TypeOK, Disturb, Requeue
    <3>2. CASE Goto(n, [worker[n] EXCEPT !.pc = "removeFinalizers"]) /\ UNCHANGED edits
      BY <2>2, <3>2 DEF TypeOK, Goto
    <3>3. CASE Return(n) /\ UNCHANGED edits
      BY <2>2, <3>3 DEF TypeOK, Return, Goto
    <3> QED
      BY <1>5, <3>1, <3>2, <3>3 DEF Delete
  <2> QED
    BY <1>5, <2>3, <2>4 DEF Delete, TypeOK
<1>6. ASSUME NEW n \in Nodes, SyncNode(n) \/ ExpireAndResync(n) PROVE TypeOK'
  <2>1. NewProjection(node[n]) \in Projection /\ NewProjection(nodeInformer[n]) \in Projection
    BY <1>0, OperatorsType
  <2>2. /\ nodeInformer' \in [Nodes -> NodeObject]
        /\ nodeCache' \in [Nodes -> SUBSET Projection] /\ queue' \subseteq Nodes
    BY <1>0, <1>6, <2>1 DEF SyncNode, ExpireAndResync, TypeOK
  <2> QED
    BY <1>6, <2>2 DEF SyncNode, ExpireAndResync, TypeOK
<1>7. ASSUME NEW n \in Nodes, SyncVM(n) \/ FinalizeVM(n) \/ FinishVM(n) PROVE TypeOK'
  <2>1. [vm[n] EXCEPT !.finalizer = TRUE] \in VM /\ NoVM \in VM
    BY <1>0, BlankType DEF VM
  <2>2. /\ vm' \in [Nodes -> VM] /\ vmInformer' \in [Nodes -> VM] /\ queue' \subseteq Nodes
    BY <1>0, <1>7, <2>1 DEF SyncVM, FinalizeVM, FinishVM, TypeOK
  <2> QED
    BY <1>7, <2>2 DEF SyncVM, FinalizeVM, FinishVM, TypeOK
<1>8. ASSUME NEW n \in Nodes, NEW o \in NodeObject, Edit(n, o), stripped' \subseteq Nodes
      PROVE  TypeOK'
  BY <1>8 DEF Edit, Disturb, TypeOK
<1>9. ASSUME NEW n \in Nodes, CreateNode(n) PROVE TypeOK'
  <2>1. node[n].uid + 1 \in 0 .. MaxEdits
    BY <1>0, <1>9 DEF CreateNode, Edit, Disturb, Incarnations, NodeObject, TypeOK
  <2>2. [NoNode(node[n].uid + 1) EXCEPT !.exists = TRUE] \in NodeObject
    BY <2>1 DEF NodeObject, NoNode, ReadyStatus
  <2> QED
    BY <1>8, <1>9, <2>2 DEF CreateNode, TypeOK
<1>10. ASSUME NEW n \in Nodes, ChangeHealth(n) PROVE TypeOK'
  <2>1. \A ready \in ReadyStatus, unreachable \in BOOLEAN :
           [node[n] EXCEPT !.ready = ready, !.unreachable = unreachable] \in NodeObject
    BY <1>0 DEF NodeObject
  <2> QED
    BY <1>8, <1>10, <2>1 DEF ChangeHealth, TypeOK
<1>11. ASSUME NEW n \in Nodes, DeleteNode(n) \/ StripFinalizer(n) PROVE TypeOK'
  <2>1. /\ [node[n] EXCEPT !.deleting = TRUE] \in NodeObject
        /\ [node[n] EXCEPT !.finalizer = FALSE] \in NodeObject
    BY <1>0 DEF NodeObject
  <2> QED
    BY <1>0, <1>8, <1>11, <2>1 DEF DeleteNode, StripFinalizer, TypeOK
<1>12. CASE Restart
  <2>1. \A n \in Nodes : NewProjection(node[n]) \in Projection
    BY <1>0, OperatorsType
  <2>2. /\ nodeCache' \in [Nodes -> SUBSET Projection] /\ worker' \in [Nodes -> Worker]
        /\ queue' \subseteq Nodes /\ timer' \subseteq Nodes /\ edits' \in 0 .. MaxEdits
    BY <1>12, <2>1, BlankType DEF Restart, Disturb, TypeOK
  <2> QED
    BY <1>12, <2>2 DEF Restart, TypeOK
<1>13. CASE UNCHANGED vars
  BY <1>13 DEF vars, TypeOK
<1> QED
  BY <1>1, <1>2, <1>3, <1>4, <1>5, <1>6, <1>7, <1>9, <1>10, <1>11, <1>12, <1>13
     DEF Next, WorkerStep

-----------------------------------------------------------------------------
(* Every step keeps the parts of the invariant about one node.               *)
LEMMA KeyInductive ==
    TypeOK /\ (\A n \in Nodes : KeyInv(n)) /\ [Next]_vars => \A n \in Nodes : KeyInv(n)'
<1> SUFFICES ASSUME TypeOK, \A k \in Nodes : KeyInv(k), [Next]_vars, NEW n \in Nodes
             PROVE  KeyInv(n)'
  OBVIOUS
<1>a. /\ KeyInv(n) /\ edits \in Int /\ node[n].uid \in Int
      /\ node[n] \in NodeObject /\ worker[n] \in Worker /\ vm[n] \in VM
  BY NodeConstants DEF TypeOK, NodeObject
(* The steps of other nodes, and those that leave all this alone.            *)
<1>b. ASSUME /\ node'[n].uid = node[n].uid /\ worker'[n] = worker[n]
             /\ Live(n)' => Live(n)
             /\ edits' = edits \/ edits' = edits + 1
      PROVE  KeyInv(n)'
  BY <1>a, <1>b DEF KeyInv, Incarnations, KnowsDeletion, DeletedFirst
(* The steps that end a reconciliation.                                      *)
<1>c. ASSUME /\ node'[n].uid = node[n].uid
             /\ worker'[n].pc \in {"idle", "createOrUpdate"}
             /\ edits' = edits \/ edits' = edits + 1
      PROVE  KeyInv(n)'
  BY <1>a, <1>c DEF KeyInv, Incarnations, KnowsDeletion, DeletedFirst
<1>1. ASSUME NEW k \in Nodes, Reconcile(k) PROVE KeyInv(n)'
  <2>1. /\ UNCHANGED <<node, vm, edits>>
        /\ worker' = [worker EXCEPT ![k] = Dispatch(nodeInformer[k])]
    BY <1>1 DEF Reconcile
  <2>2. CASE k = n
    <3>1. worker'[n] = Dispatch(nodeInformer[n])
      BY <2>1, <2>2 DEF TypeOK
    <3>2. /\ worker'[n].pc \in {"idle", "delete", "addFinalizers"}
          /\ worker'[n].pc = "addFinalizers" => worker'[n].obj.exists /\ ~worker'[n].obj.deleting
          /\ worker'[n].pc = "delete" /\ worker'[n].obj.exists => worker'[n].obj.deleting
      BY <3>1 DEF Dispatch, Idle
    <3> QED
      BY <1>a, <2>1, <3>2 DEF KeyInv, Incarnations, KnowsDeletion, DeletedFirst
  <2> QED
    BY <1>b, <2>1, <2>2 DEF TypeOK, Live
<1>2. ASSUME NEW k \in Nodes, AddFinalizers(k) PROVE KeyInv(n)'
  <2>1. /\ node'[n].uid = node[n].uid /\ UNCHANGED vm
        /\ edits' = edits \/ edits' = edits + 1
    BY <1>2, <1>a DEF AddFinalizers, Disturb, TypeOK, NodeObject
  <2>2. IF k = n THEN worker'[n].pc \in {"idle", "createOrUpdate"} ELSE worker'[n] = worker[n]
    BY <1>2 DEF AddFinalizers, Requeue, Return, Goto, Idle, TypeOK
  <2> QED
    BY <1>b, <1>c, <2>1, <2>2 DEF Live
<1>3. ASSUME NEW k \in Nodes, RemoveFinalizers(k) PROVE KeyInv(n)'
  <2>1. /\ node'[n].uid = node[n].uid /\ UNCHANGED vm
        /\ edits' = edits \/ edits' = edits + 1
    BY <1>3 DEF RemoveFinalizers, Disturb, TypeOK, NoNode
  <2>2. IF k = n THEN worker'[n].pc = "idle" ELSE worker'[n] = worker[n]
    BY <1>3 DEF RemoveFinalizers, Requeue, Return, Goto, Idle, TypeOK
  <2> QED
    BY <1>b, <1>c, <2>1, <2>2 DEF Live
<1>4. ASSUME NEW k \in Nodes, CreateOrUpdate(k) PROVE KeyInv(n)'
  <2>1. UNCHANGED node /\ (edits' = edits \/ edits' = edits + 1)
    BY <1>4 DEF CreateOrUpdate, Disturb
  <2>2. IF k = n THEN worker'[n].pc = "idle" ELSE worker'[n] = worker[n] /\ vm'[n] = vm[n]
    BY <1>4 DEF CreateOrUpdate, Requeue, Idle, TypeOK
  <2> QED
    BY <1>b, <1>c, <2>1, <2>2 DEF Live
<1>5. ASSUME NEW k \in Nodes, Delete(k) PROVE KeyInv(n)'
  <2>1. UNCHANGED node /\ (edits' = edits \/ edits' = edits + 1)
    BY <1>5 DEF Delete, Disturb
  <2>2. CASE k # n
    <3>1. worker'[n] = worker[n] /\ vm'[n] = vm[n]
      BY <1>5, <2>2 DEF Delete, Requeue, Return, Goto, TypeOK
    <3> QED
      BY <1>b, <2>1, <3>1 DEF Live
  <2>3. CASE k = n /\ worker'[n].pc = "idle"
    BY <1>c, <2>1, <2>3
  <2>4. CASE k = n /\ worker'[n].pc # "idle"
    <3>1. /\ worker' = [worker EXCEPT ![n] = [worker[n] EXCEPT !.pc = "removeFinalizers"]]
          /\ vm'[n].deleting \/ ~vm'[n].exists
          /\ worker[n].obj.exists /\ worker[n].pc = "delete"
      BY <1>5, <1>a, <2>4 DEF Delete, Requeue, Return, Goto, Idle, NoVM, VM, TypeOK
    <3>2. /\ worker'[n].pc = "removeFinalizers" /\ worker'[n].obj = worker[n].obj /\ ~Live(n)'
      BY <1>a, <3>1 DEF TypeOK, Worker, Live
    <3> QED
      BY <1>a, <2>1, <3>1, <3>2 DEF KeyInv, Incarnations, KnowsDeletion, DeletedFirst
  <2> QED
    BY <2>2, <2>3, <2>4
<1>6. ASSUME NEW k \in Nodes, FinalizeVM(k) \/ FinishVM(k) PROVE KeyInv(n)'
  <2>1. UNCHANGED <<node, worker, edits>>
    BY <1>6 DEF FinalizeVM, FinishVM
  <2>2. Live(n)' => Live(n)
    BY <1>6, <1>a DEF FinalizeVM, FinishVM, Live, NoVM, VM, TypeOK
  <2> QED
    BY <1>b, <2>1, <2>2
<1>7. ASSUME NEW k \in Nodes, SyncNode(k) \/ ExpireAndResync(k) \/ SyncVM(k) PROVE KeyInv(n)'
  <2>1. UNCHANGED <<node, vm, worker, edits>>
    BY <1>7 DEF SyncNode, ExpireAndResync, SyncVM
  <2> QED
    BY <1>b, <2>1 DEF Live
<1>8. ASSUME NEW k \in Nodes, ChangeHealth(k) \/ DeleteNode(k) \/ StripFinalizer(k)
      PROVE  KeyInv(n)'
  <2>1. PICK o : Edit(k, o) /\ o.uid = node[k].uid
    <3>1. CASE ChangeHealth(k)
      <4>1. PICK ready \in ReadyStatus, unreachable \in BOOLEAN :
               Edit(k, [node[k] EXCEPT !.ready = ready, !.unreachable = unreachable])
        BY <3>1 DEF ChangeHealth
      <4>2. [node[k] EXCEPT !.ready = ready, !.unreachable = unreachable].uid = node[k].uid
        BY DEF TypeOK, NodeObject
      <4> QED
        BY <4>1, <4>2
    <3>2. CASE DeleteNode(k) \/ StripFinalizer(k)
      <4>1. /\ [node[k] EXCEPT !.deleting = TRUE].uid = node[k].uid
            /\ [node[k] EXCEPT !.finalizer = FALSE].uid = node[k].uid
            /\ NoNode(node[k].uid).uid = node[k].uid
        BY DEF TypeOK, NodeObject, NoNode
      <4> QED
        BY <3>2, <4>1 DEF DeleteNode, StripFinalizer
    <3> QED
      BY <1>8, <3>1, <3>2
  <2>2. UNCHANGED <<vm, worker>> /\ edits' = edits + 1 /\ node'[n].uid = node[n].uid
    BY <2>1 DEF Edit, Disturb, TypeOK
  <2> QED
    BY <1>b, <2>2 DEF Live
<1>9. ASSUME NEW k \in Nodes, CreateNode(k) PROVE KeyInv(n)'
  <2>1. UNCHANGED <<vm, worker>> /\ edits' = edits + 1
    BY <1>9 DEF CreateNode, Edit, Disturb
  <2>2. node'[n].uid = node[n].uid \/ node'[n].uid = node[n].uid + 1
    BY <1>9, <1>a DEF CreateNode, Edit, NoNode, TypeOK
  <2>3. Incarnations(n)'
    BY <1>a, <2>1, <2>2 DEF KeyInv, Incarnations
  <2> QED
    BY <1>a, <2>1, <2>3 DEF KeyInv, KnowsDeletion, DeletedFirst, Live
<1>10. CASE Restart
  <2>1. UNCHANGED <<node, vm>> /\ edits' = edits + 1 /\ worker'[n].pc = "idle"
    BY <1>10 DEF Restart, Disturb, Idle
  <2> QED
    BY <1>c, <2>1
<1>11. CASE UNCHANGED vars
  BY <1>11, <1>b DEF vars, Live
<1> QED
  BY <1>1, <1>2, <1>3, <1>4, <1>5, <1>6, <1>7, <1>8, <1>9, <1>10, <1>11 DEF Next, WorkerStep

(* The initial states satisfy the invariant.                                 *)
LEMMA Initial == Init => IInv
<1> SUFFICES ASSUME Init PROVE IInv
  OBVIOUS
<1>1. NoNode(0) \in NodeObject /\ NoVM \in VM /\ Idle \in Worker /\ 0 \in 0 .. MaxEdits
  BY BlankType, NodeConstants
<1>2. TypeOK
  BY <1>1 DEF Init, TypeOK
<1>3. ASSUME NEW n \in Nodes PROVE KeyInv(n)
  <2>1. node[n].uid = 0 /\ edits = 0 /\ worker[n].pc = "idle"
    BY DEF Init, NoNode, Idle
  <2> QED
    BY <2>1 DEF KeyInv, Incarnations, KnowsDeletion, DeletedFirst
<1> QED
  BY <1>2, <1>3 DEF IInv

(* The invariant is inductive.                                               *)
LEMMA Inductive == IInv /\ [Next]_vars => IInv'
<1>1. IInv => \A n \in Nodes : Incarnations(n)
  BY DEF IInv, KeyInv
<1> QED
  BY <1>1, TypeInductive, KeyInductive DEF IInv

-----------------------------------------------------------------------------
(* Every reachable state is well typed; in particular the node cache holds   *)
(* projections, for any number of nodes and any number of edits.             *)
THEOREM TypeCorrect == Spec => []TypeOK
<1>1. IInv => TypeOK
  BY DEF IInv
<1> QED
  BY <1>1, Initial, Inductive, PTL DEF Spec

(* When the worker lets a node go, the VirtualMachine of the node has been   *)
(* deleted, whatever the two caches show and whatever fails.                 *)
THEOREM FinalizerGoesLast == Spec => FinalizerProtects
<1> DEFINE Protects ==
      \A n \in Nodes :
          worker[n].pc = "removeFinalizers" /\ worker'[n] # worker[n]
             /\ node[n].exists /\ ~node'[n].exists
          => ~Live(n)
<1>1. IInv /\ [Next]_vars => [Protects]_vars
  BY DEF IInv, KeyInv, DeletedFirst
<1> QED
  BY <1>1, Initial, Inductive, PTL DEF Spec, FinalizerProtects

-----------------------------------------------------------------------------
(* The parts of the invariant about the watches and the finalizer.           *)

(* A node carries the finalizer as the worker put it on.                     *)
Blank(n) == node[n].finalizer => node[n].exists /\ n \notin stripped

(* Nothing takes the finalizer off, but a user, before the VirtualMachine is *)
(* created.                                                                  *)
Guarded(n) ==
    worker[n].pc = "createOrUpdate"
    => n \in stripped \/ (node[n].exists /\ node[n].finalizer)

(* The cache does not know a node that it takes to be gone.                  *)
Behind(n) ==
    /\ nodeInformer[n].uid <= node[n].uid
    /\ node[n].exists /\ nodeInformer[n].uid = node[n].uid => nodeInformer[n].exists

(* A deletion that is delivered during a reconciliation queues the node.     *)
Learns(n) ==
    worker[n].pc # "idle" /\ worker[n].obj.exists /\ ~nodeInformer[n].exists => n \in queue

(* OrphansAreNoticed, for one node.                                          *)
Noticed(n) ==
    worker[n].pc = "idle" /\ ~node[n].exists /\ nodeInformer[n] = node[n] /\ Live(n)
    => n \in queue \cup timer

WatchInv(n) == Blank(n) /\ Guarded(n) /\ Behind(n) /\ Learns(n) /\ Noticed(n)

KInv == IInv /\ \A n \in Nodes : WatchInv(n)

(* The steps of the node k.                                                  *)
StepOf(k) ==
    \/ WorkerStep(k) \/ SyncNode(k) \/ ExpireAndResync(k) \/ SyncVM(k)
    \/ CreateNode(k) \/ ChangeHealth(k) \/ DeleteNode(k) \/ StripFinalizer(k)
    \/ FinalizeVM(k) \/ FinishVM(k)

(* A step of another node leaves everything of n alone.                      *)
LEMMA ElsewhereWatch ==
    ASSUME TypeOK, NEW k \in Nodes, NEW n \in Nodes, k # n, StepOf(k), WatchInv(n)
    PROVE  WatchInv(n)'
<1> DEFINE Same == /\ node'[n] = node[n] /\ nodeInformer'[n] = nodeInformer[n]
                   /\ vm'[n] = vm[n] /\ worker'[n] = worker[n]
                   /\ n \in queue' <=> n \in queue
                   /\ n \in timer' <=> n \in timer
                   /\ n \in stripped' <=> n \in stripped
<1>1. Reconcile(k) => Same
  BY DEF Reconcile, TypeOK
<1>2. AddFinalizers(k) => Same
  BY DEF AddFinalizers, Requeue, Return, Goto, TypeOK
<1>3. CreateOrUpdate(k) => Same
  BY DEF CreateOrUpdate, Requeue, TypeOK
<1>4. Delete(k) => Same
  BY DEF Delete, Requeue, Return, Goto, TypeOK
<1>5. RemoveFinalizers(k) => Same
  BY DEF RemoveFinalizers, Requeue, Return, Goto, TypeOK
<1>6. SyncNode(k) \/ ExpireAndResync(k) \/ SyncVM(k) => Same
  BY DEF SyncNode, ExpireAndResync, SyncVM, TypeOK
<1>7. CreateNode(k) \/ ChangeHealth(k) \/ DeleteNode(k) \/ StripFinalizer(k) => Same
  BY DEF CreateNode, ChangeHealth, DeleteNode, StripFinalizer, Edit, TypeOK
<1>8. FinalizeVM(k) \/ FinishVM(k) => Same
  BY DEF FinalizeVM, FinishVM, TypeOK
<1>9. Same
  BY <1>1, <1>2, <1>3, <1>4, <1>5, <1>6, <1>7, <1>8 DEF StepOf, WorkerStep
<1> QED
  BY <1>9 DEF WatchInv, Blank, Guarded, Behind, Learns, Noticed, Live

(* The worker's steps.                                                       *)
LEMMA WorkerWatch ==
    ASSUME IInv, NEW n \in Nodes, WorkerStep(n), WatchInv(n)
    PROVE  WatchInv(n)'
<1> USE DEF WatchInv, Blank, Guarded, Behind, Learns, Noticed, Live
<1>0. /\ TypeOK /\ KeyInv(n) /\ node[n] \in NodeObject /\ worker[n] \in Worker
      /\ worker[n].obj \in NodeObject /\ nodeInformer[n] \in NodeObject
  BY DEF IInv, TypeOK, Worker
<1>1. CASE Reconcile(n)
  <2>1. /\ worker'[n] = Dispatch(nodeInformer[n])
        /\ UNCHANGED <<node, nodeInformer, vm, stripped>>
    BY <1>0, <1>1 DEF Reconcile, TypeOK
  <2>2. /\ worker'[n].pc \in {"idle", "delete", "addFinalizers"}
        /\ worker'[n].pc = "idle" => nodeInformer[n].exists
        /\ worker'[n].pc # "idle" => worker'[n].obj = nodeInformer[n]
    <3> DEFINE i == nodeInformer[n]
    <3>1. /\ i.exists \/ Dispatch(i).pc = "delete"
          /\ \/ Dispatch(i) = Idle \/ Dispatch(i) = [pc |-> "delete", obj |-> i]
             \/ Dispatch(i) = [pc |-> "addFinalizers", obj |-> i]
      BY DEF Dispatch
    <3>2. Dispatch(nodeInformer[n]).pc \in {"idle", "delete", "addFinalizers"}
      BY DEF Dispatch, Idle
    <3> HIDE DEF i
    <3>3. Idle.pc = "idle"
      BY DEF Idle
    <3> QED
      BY <2>1, <3>1, <3>2, <3>3 DEF i
  <2> QED
    BY <2>1, <2>2
<1>2. CASE AddFinalizers(n)
  <2> DEFINE o == [worker[n].obj EXCEPT !.finalizer = TRUE]
  <2>1. worker[n].obj.exists /\ UNCHANGED <<nodeInformer, vm, queue>>
    BY <1>0, <1>2 DEF AddFinalizers, KeyInv, KnowsDeletion
  <2>2. CASE Requeue(n) /\ UNCHANGED <<node, stripped>>
    <3>1. worker'[n].pc = "idle" /\ n \in timer'
      BY <1>0, <2>2 DEF Requeue, Idle, TypeOK
    <3> QED
      BY <2>1, <2>2, <3>1
  <2>3. CASE ~node[n].exists /\ Return(n) /\ UNCHANGED <<node, stripped>>
    <3>1. worker'[n].pc = "idle" /\ worker[n].pc # "idle"
      BY <1>0, <1>2, <2>3 DEF AddFinalizers, Return, Goto, Idle, TypeOK
    <3> QED
      BY <2>1, <2>3, <3>1
  <2>4. CASE /\ node[n] = worker[n].obj /\ node' = [node EXCEPT ![n] = o]
             /\ stripped' = stripped \ {n}
             /\ Goto(n, [pc |-> "createOrUpdate", obj |-> o])
    <3>1. /\ worker'[n] = [pc |-> "createOrUpdate", obj |-> o] /\ node'[n] = o
          /\ n \notin stripped'
      BY <1>0, <2>4 DEF Goto, TypeOK
    <3>2. /\ o.exists /\ o.finalizer /\ o.uid = node[n].uid
          /\ node[n].exists
      BY <1>0, <2>1, <2>4 DEF NodeObject
    <3>3. worker[n].pc # "idle"
      BY <1>2 DEF AddFinalizers
    <3> HIDE DEF o
    <3> QED
      BY <2>1, <2>4, <3>1, <3>2, <3>3
  <2> QED
    BY <1>2, <2>2, <2>3, <2>4 DEF AddFinalizers
<1>3. CASE CreateOrUpdate(n)
  <2>1. /\ worker'[n].pc = "idle" /\ n \in timer'
        /\ UNCHANGED <<node, nodeInformer, queue, stripped>>
    BY <1>0, <1>3 DEF CreateOrUpdate, Requeue, Idle, TypeOK
  <2> QED
    BY <2>1
<1>4. CASE Delete(n)
  <2>1. UNCHANGED <<node, nodeInformer, queue, stripped>> /\ worker[n].pc = "delete"
    BY <1>4 DEF Delete
  <2>2. CASE Requeue(n)
    <3>1. worker'[n].pc = "idle" /\ n \in timer'
      BY <1>0, <2>2 DEF Requeue, Idle, TypeOK
    <3> QED
      BY <2>1, <3>1
  <2>3. CASE /\ vm' = [vm EXCEPT ![n] = IF @.finalizer THEN [@ EXCEPT !.deleting = TRUE]
                                                       ELSE NoVM]
             /\ IF worker[n].obj.exists
                THEN Goto(n, [worker[n] EXCEPT !.pc = "removeFinalizers"]) ELSE Return(n)
    <3>1. ~Live(n)'
      BY <1>0, <2>3 DEF TypeOK, VM, NoVM
    <3>2. \/ worker'[n].pc = "removeFinalizers" /\ worker'[n].obj = worker[n].obj
          \/ worker'[n].pc = "idle"
      BY <1>0, <2>3 DEF Return, Goto, Idle, Worker, TypeOK
    <3> QED
      BY <2>1, <3>1, <3>2
  <2> QED
    BY <1>4, <2>2, <2>3 DEF Delete
<1>5. CASE RemoveFinalizers(n)
  <2>1. UNCHANGED <<nodeInformer, vm, queue, stripped>> /\ worker'[n].pc = "idle" /\ ~Live(n)
    BY <1>0, <1>5
       DEF RemoveFinalizers, Requeue, Return, Goto, Idle, TypeOK, KeyInv, DeletedFirst
  <2>2. node'[n] = node[n] \/ node'[n] = NoNode(node[n].uid)
    BY <1>0, <1>5 DEF RemoveFinalizers, TypeOK
  <2> QED
    BY <2>1, <2>2 DEF NoNode
<1> QED
  BY <1>1, <1>2, <1>3, <1>4, <1>5 DEF WorkerStep

(* The steps of the watches, the users and the virtualmachine controller.    *)
LEMMA OthersWatch ==
    ASSUME IInv, NEW n \in Nodes, StepOf(n), ~WorkerStep(n), WatchInv(n)
    PROVE  WatchInv(n)'
<1> USE DEF WatchInv, Blank, Guarded, Behind, Learns, Noticed, Live
<1>0. /\ TypeOK /\ node[n] \in NodeObject /\ nodeInformer[n] \in NodeObject /\ vm[n] \in VM
      /\ node[n].uid \in Int /\ nodeInformer[n].uid \in Int
  BY NodeConstants DEF IInv, TypeOK, NodeObject
<1>1. CASE SyncNode(n)
  <2>1. /\ nodeInformer'[n] = node[n] /\ UNCHANGED <<node, vm, timer, worker, stripped>>
        /\ queue \subseteq queue'
        /\ ~node[n].exists => n \in queue'
    BY <1>0, <1>1 DEF SyncNode, TypeOK
  <2> QED
    BY <1>0, <2>1
<1>2. CASE ExpireAndResync(n) \/ SyncVM(n)
  <2>1. UNCHANGED <<node, nodeInformer, vm, timer, worker, stripped>> /\ queue \subseteq queue'
    BY <1>2 DEF ExpireAndResync, SyncVM
  <2> QED
    BY <2>1
<1>3. CASE FinalizeVM(n) \/ FinishVM(n)
  <2>1. UNCHANGED <<node, nodeInformer, queue, timer, worker, stripped>>
    BY <1>3 DEF FinalizeVM, FinishVM
  <2>2. Live(n)' => Live(n)
    BY <1>0, <1>3 DEF FinalizeVM, FinishVM, NoVM, VM, TypeOK
  <2> QED
    BY <2>1, <2>2
<1>4. CASE CreateNode(n)
  <2>1. /\ UNCHANGED <<nodeInformer, vm, queue, timer, worker, stripped>> /\ ~node[n].exists
        /\ node'[n] = [NoNode(node[n].uid + 1) EXCEPT !.exists = TRUE]
    BY <1>0, <1>4 DEF CreateNode, Edit, TypeOK
  <2>2. node'[n].exists /\ ~node'[n].finalizer /\ node'[n].uid = node[n].uid + 1
    BY <2>1 DEF NoNode
  <2> QED
    BY <1>0, <2>1, <2>2
<1>5. CASE ChangeHealth(n)
  <2>1. PICK ready \in ReadyStatus, unreachable \in BOOLEAN :
           Edit(n, [node[n] EXCEPT !.ready = ready, !.unreachable = unreachable])
    BY <1>5 DEF ChangeHealth
  <2>2. /\ UNCHANGED <<nodeInformer, vm, queue, timer, worker, stripped>> /\ node[n].exists
        /\ node'[n] = [node[n] EXCEPT !.ready = ready, !.unreachable = unreachable]
    BY <1>0, <1>5, <2>1 DEF ChangeHealth, Edit, TypeOK
  <2>3. /\ node'[n].exists /\ node'[n].finalizer = node[n].finalizer
        /\ node'[n].uid = node[n].uid
    BY <1>0, <2>2 DEF NodeObject
  <2> QED
    BY <2>2, <2>3
<1>6. CASE DeleteNode(n)
  <2>1. /\ UNCHANGED <<nodeInformer, vm, queue, timer, worker, stripped>> /\ node[n].exists
        /\ node'[n] = IF node[n].finalizer THEN [node[n] EXCEPT !.deleting = TRUE]
                                           ELSE NoNode(node[n].uid)
    BY <1>0, <1>6 DEF DeleteNode, Edit, TypeOK
  <2>2. CASE node[n].finalizer
    <3>1. node'[n].exists /\ node'[n].finalizer /\ node'[n].uid = node[n].uid
      BY <1>0, <2>1, <2>2 DEF NodeObject
    <3> QED
      BY <2>1, <2>2, <3>1
  <2>3. CASE ~node[n].finalizer
    <3>1. ~node'[n].exists /\ ~node'[n].finalizer /\ node'[n].uid = node[n].uid
      BY <2>1, <2>3 DEF NoNode
    <3> QED
      BY <2>1, <2>3, <3>1
  <2> QED
    BY <2>2, <2>3
<1>7. CASE StripFinalizer(n)
  <2>1. /\ UNCHANGED <<nodeInformer, vm, queue, timer, worker>> /\ node[n].exists
        /\ n \in stripped'
        /\ node'[n] = IF node[n].deleting THEN NoNode(node[n].uid)
                                          ELSE [node[n] EXCEPT !.finalizer = FALSE]
    BY <1>0, <1>7 DEF StripFinalizer, Edit, TypeOK
  <2>2. /\ ~node'[n].finalizer /\ node'[n].uid = node[n].uid
        /\ node[n].deleting => ~node'[n].exists
        /\ ~node[n].deleting => node'[n].exists
    BY <1>0, <2>1 DEF NoNode, NodeObject
  <2>3. Noticed(n)'
    BY <2>1, <2>2
  <2> QED
    BY <1>0, <2>1, <2>2, <2>3
<1> QED
  BY <1>1, <1>2, <1>3, <1>4, <1>5, <1>6, <1>7 DEF StepOf

(* A new process sees every node, and every VirtualMachine without one.      *)
LEMMA RestartWatch ==
    ASSUME IInv, NEW n \in Nodes, Restart, WatchInv(n)
    PROVE  WatchInv(n)'
<1>1. /\ UNCHANGED <<node, vm, stripped>> /\ nodeInformer' = node /\ worker'[n].pc = "idle"
      /\ n \in queue' <=> \/ node[n].exists
                          \/ vm[n].exists /\ handleCreateOrUpdateEvent(node[n], vm[n])
  BY DEF Restart, Idle
<1>2. ~node[n].exists /\ Live(n) => n \in queue'
  BY <1>1 DEF handleCreateOrUpdateEvent, Live
<1>3. node[n].uid \in Int
  BY NodeConstants DEF IInv, TypeOK, NodeObject
<1> QED
  BY <1>1, <1>2, <1>3 DEF WatchInv, Blank, Guarded, Behind, Learns, Noticed, Live

LEMMA WatchInitial == Init => KInv
<1> SUFFICES ASSUME Init, NEW n \in Nodes PROVE WatchInv(n)
  BY Initial DEF KInv
<1>1. /\ node[n] = NoNode(0) /\ nodeInformer[n] = NoNode(0) /\ worker[n] = Idle /\ vm[n] = NoVM
  BY DEF Init
<1> QED
  BY <1>1 DEF WatchInv, Blank, Guarded, Behind, Learns, Noticed, Live, NoNode, NoVM, Idle

LEMMA WatchInductive == KInv /\ [Next]_vars => KInv'
<1> SUFFICES ASSUME KInv, [Next]_vars, NEW n \in Nodes PROVE WatchInv(n)'
  BY Inductive DEF KInv
<1>0. IInv /\ TypeOK /\ WatchInv(n)
  BY DEF KInv, IInv
<1>1. ASSUME NEW k \in Nodes, StepOf(k) PROVE WatchInv(n)'
  BY <1>0, <1>1, ElsewhereWatch, WorkerWatch, OthersWatch
<1>2. CASE Restart
  BY <1>0, <1>2, RestartWatch
<1>3. CASE UNCHANGED vars
  BY <1>0, <1>3 DEF vars, WatchInv, Blank, Guarded, Behind, Learns, Noticed, Live
<1> QED
  BY <1>1, <1>2, <1>3 DEF Next, StepOf

LEMMA WatchInvariant == Spec => []KInv
BY WatchInitial, WatchInductive, PTL DEF Spec

-----------------------------------------------------------------------------
(* A VirtualMachine that outlives its node is not overlooked, however the    *)
(* caches lag, whatever fails and whoever strips finalizers: whenever the    *)
(* controller rests and knows the nodes, there is none.                      *)
THEOREM OrphansNoticed == Spec => []OrphansAreNoticed
<1>1. KInv => OrphansAreNoticed
  BY DEF KInv, WatchInv, Noticed, OrphansAreNoticed
<1> QED
  BY <1>1, WatchInvariant, PTL

-----------------------------------------------------------------------------
(* The refinement mapping, node by node.                                     *)
PhaseOf(o) ==
    IF ~o.exists THEN "absent"
    ELSE IF o.deleting THEN "dying"
    ELSE IF o.finalizer THEN "guarded" ELSE "live"

NeedsOf(o) == IF o.exists THEN {"vm"} ELSE {}

Phase == [n \in Nodes |-> PhaseOf(node[n])]

Needs == [n \in Nodes |-> NeedsOf(node[n])]

Made == [n \in Nodes |-> IF Live(n) THEN {"vm"} ELSE {}]

(* The phase of n turns.                                                     *)
Turns(n, from, to) == Phase[n] = from /\ Phase' = [Phase EXCEPT ![n] = to]

NeedsOnly(n, resources) == Needs' = [Needs EXCEPT ![n] = resources]

(* The actions of Finalization under the mapping: those of the objects ...   *)
LEMMA MappedObject ==
    ASSUME Made' = Made, NEW n \in Nodes
    PROVE  /\ Turns(n, "absent", "live") /\ NeedsOnly(n, {"vm"}) /\ stripped' = stripped
                => Lifecycle!Next
           /\ Turns(n, "live", "absent") /\ NeedsOnly(n, {}) /\ stripped' = stripped
                => Lifecycle!Next
           /\ Turns(n, "guarded", "dying") /\ Needs' = Needs /\ stripped' = stripped
                => Lifecycle!Next
           /\ Turns(n, "guarded", "live") /\ Needs' = Needs /\ stripped' = stripped \cup {n}
                => Lifecycle!Next
           /\ Turns(n, "dying", "absent") /\ NeedsOnly(n, {}) /\ stripped' = stripped \cup {n}
                => Lifecycle!Next
           /\ Turns(n, "live", "guarded") /\ Needs' = Needs /\ stripped' = stripped \ {n}
                => Lifecycle!Next
           /\ Turns(n, "dying", "absent") /\ NeedsOnly(n, {}) /\ stripped' = stripped
              /\ Needs[n] \cap Made[n] = {} => Lifecycle!Next
<1> USE DEF Turns, NeedsOnly, Phase, PhaseOf, Needs, NeedsOf, Made,
            Lifecycle!Move, Lifecycle!Wants
<1>1. Turns(n, "absent", "live") /\ NeedsOnly(n, {"vm"}) /\ stripped' = stripped
      => Lifecycle!Create(n)
  BY DEF Lifecycle!Create
<1>2. /\ Turns(n, "live", "absent") /\ NeedsOnly(n, {}) /\ stripped' = stripped
           => Lifecycle!Delete(n)
      /\ Turns(n, "guarded", "dying") /\ Needs' = Needs /\ stripped' = stripped
           => Lifecycle!Delete(n)
  BY DEF Lifecycle!Delete
<1>3. /\ Turns(n, "guarded", "live") /\ Needs' = Needs /\ stripped' = stripped \cup {n}
           => Lifecycle!Strip(n)
      /\ Turns(n, "dying", "absent") /\ NeedsOnly(n, {}) /\ stripped' = stripped \cup {n}
           => Lifecycle!Strip(n)
  BY DEF Lifecycle!Strip
<1>4. Turns(n, "live", "guarded") /\ Needs' = Needs /\ stripped' = stripped \ {n}
      => Lifecycle!Finalize(n)
  BY DEF Lifecycle!Finalize
<1>5. Turns(n, "dying", "absent") /\ NeedsOnly(n, {}) /\ stripped' = stripped
      /\ Needs[n] \cap Made[n] = {} => Lifecycle!Finish(n)
  BY DEF Lifecycle!Finish
<1> HIDE DEF Turns, NeedsOnly, Phase, Needs, Made
<1> QED
  BY <1>1, <1>2, <1>3, <1>4, <1>5 DEF Lifecycle!Next

(* ... those of the resources, and none.                                     *)
LEMMA MappedResource ==
    ASSUME Phase' = Phase, Needs' = Needs, stripped' = stripped
    PROVE  /\ Made' = Made => UNCHANGED Lifecycle!vars
           /\ \A n \in Nodes :
                /\ Made' = [Made EXCEPT ![n] = @ \ {"vm"}] => Lifecycle!Next
                /\ Made' = [Made EXCEPT ![n] = @ \cup {"vm"}]
                   /\ (Phase[n] \in {"guarded", "dying"} \/ n \in stripped) => Lifecycle!Next
<1> USE DEF Phase, PhaseOf, Needs, NeedsOf, Made
<1>1. Made' = Made => UNCHANGED Lifecycle!vars
  BY DEF Lifecycle!vars
<1>2. ASSUME NEW n \in Nodes
      PROVE  /\ Made' = [Made EXCEPT ![n] = @ \ {"vm"}] => Lifecycle!Discard(n, "vm")
             /\ Made' = [Made EXCEPT ![n] = @ \cup {"vm"}]
                /\ (Phase[n] \in {"guarded", "dying"} \/ n \in stripped) => Lifecycle!Make(n, "vm")
  BY DEF Lifecycle!Discard, Lifecycle!Make
<1> HIDE DEF Phase, Needs, Made
<1> QED
  BY <1>1, <1>2 DEF Lifecycle!Next

(* Every step is a step of Finalization, or a stutter.                       *)
LEMMA StepRefines == KInv /\ [Next]_vars => [Lifecycle!Next]_(Lifecycle!vars)
<1> SUFFICES ASSUME KInv, [Next]_vars PROVE [Lifecycle!Next]_(Lifecycle!vars)
  OBVIOUS
<1>0. /\ TypeOK /\ \A n \in Nodes : KeyInv(n) /\ WatchInv(n)
      /\ \A n \in Nodes : node[n] \in NodeObject /\ vm[n] \in VM
  BY DEF KInv, IInv, TypeOK
<1>1. UNCHANGED node => Phase' = Phase /\ Needs' = Needs
  BY DEF Phase, Needs
<1>2. UNCHANGED vm => Made' = Made
  BY DEF Made, Live
<1>3. CASE UNCHANGED <<node, vm, stripped>>
  BY <1>1, <1>2, <1>3, MappedResource
(* A node is written ...                                                     *)
<1>4. ASSUME NEW n \in Nodes, NEW o, node' = [node EXCEPT ![n] = o]
      PROVE  /\ Turns(n, PhaseOf(node[n]), PhaseOf(o)) /\ NeedsOnly(n, NeedsOf(o))
             /\ PhaseOf(o) = PhaseOf(node[n]) => Phase' = Phase
             /\ NeedsOf(o) = NeedsOf(node[n]) => Needs' = Needs
  BY <1>0, <1>4 DEF TypeOK, Phase, Needs, Turns, NeedsOnly
(* ... or a VirtualMachine.                                                  *)
<1>5. ASSUME UNCHANGED <<node, stripped>>, NEW n \in Nodes, NEW o,
             vm' = [vm EXCEPT ![n] = o],
             o.exists /\ ~o.deleting
               => Live(n) \/ n \in stripped \/ (node[n].exists /\ node[n].finalizer)
      PROVE  [Lifecycle!Next]_(Lifecycle!vars)
  <2>1. \A k \in Nodes : Live(k)' <=> IF k = n THEN o.exists /\ ~o.deleting ELSE Live(k)
    BY <1>0, <1>5 DEF Live, TypeOK
  <2>2. CASE ~(o.exists /\ ~o.deleting)
    <3>1. Made' = [Made EXCEPT ![n] = @ \ {"vm"}]
      BY <2>1, <2>2 DEF Made
    <3> QED
      BY <1>1, <1>5, <3>1, MappedResource
  <2>3. CASE o.exists /\ ~o.deleting /\ Live(n)
    <3>1. Made' = Made
      BY <2>1, <2>3 DEF Made
    <3> QED
      BY <1>1, <1>5, <3>1, MappedResource
  <2>4. CASE /\ o.exists /\ ~o.deleting
             /\ n \in stripped \/ (node[n].exists /\ node[n].finalizer)
    <3>1. Made' = [Made EXCEPT ![n] = @ \cup {"vm"}]
      BY <2>1, <2>4 DEF Made
    <3>2. Phase[n] \in {"guarded", "dying"} \/ n \in stripped
      BY <2>4 DEF Phase, PhaseOf
    <3> QED
      BY <1>1, <1>5, <3>1, <3>2, MappedResource
  <2> QED
    BY <1>5, <2>2, <2>3, <2>4
<1>6. ASSUME NEW n \in Nodes, AddFinalizers(n) PROVE [Lifecycle!Next]_(Lifecycle!vars)
  <2> DEFINE o == [worker[n].obj EXCEPT !.finalizer = TRUE]
  <2>1. UNCHANGED vm /\ worker[n].obj.exists /\ ~worker[n].obj.deleting
    BY <1>0, <1>6 DEF AddFinalizers, KeyInv, KnowsDeletion
  <2>2. CASE /\ node[n] = worker[n].obj /\ node' = [node EXCEPT ![n] = o]
             /\ stripped' = stripped \ {n}
    <3>1. /\ PhaseOf(node[n]) = IF node[n].finalizer THEN "guarded" ELSE "live"
          /\ PhaseOf(o) = "guarded" /\ NeedsOf(o) = NeedsOf(node[n])
      BY <1>0, <2>1, <2>2 DEF PhaseOf, NeedsOf, NodeObject
    <3> HIDE DEF o
    <3>2. CASE node[n].finalizer
      <4>1. stripped' = stripped
        BY <1>0, <2>2, <3>2 DEF WatchInv, Blank
      <4>2. Phase' = Phase /\ Needs' = Needs
        BY <1>4, <2>2, <3>1, <3>2
      <4> QED
        BY <1>2, <2>1, <4>1, <4>2, MappedResource
    <3>3. CASE ~node[n].finalizer
      <4>1. Turns(n, "live", "guarded") /\ Needs' = Needs
        BY <1>4, <2>2, <3>1, <3>3
      <4> QED
        BY <1>2, <2>1, <2>2, <4>1, MappedObject
    <3> QED
      BY <3>2, <3>3
  <2>3. CASE UNCHANGED <<node, stripped>>
    BY <1>3, <2>1, <2>3
  <2> QED
    BY <1>6, <2>2, <2>3 DEF AddFinalizers
<1>7. ASSUME NEW n \in Nodes, RemoveFinalizers(n) PROVE [Lifecycle!Next]_(Lifecycle!vars)
  <2>1. UNCHANGED <<vm, stripped>> /\ worker[n].obj.deleting /\ ~Live(n)
    BY <1>0, <1>7 DEF RemoveFinalizers, KeyInv, KnowsDeletion, DeletedFirst
  <2>2. CASE /\ node[n].exists /\ node[n] = worker[n].obj
             /\ node' = [node EXCEPT ![n] = NoNode(node[n].uid)]
    <3>1. /\ PhaseOf(node[n]) = "dying" /\ PhaseOf(NoNode(node[n].uid)) = "absent"
          /\ NeedsOf(NoNode(node[n].uid)) = {}
      BY <2>1, <2>2 DEF PhaseOf, NeedsOf, NoNode
    <3>2. Turns(n, "dying", "absent") /\ NeedsOnly(n, {})
      BY <1>4, <2>2, <3>1
    <3>3. Needs[n] \cap Made[n] = {}
      BY <2>1 DEF Made
    <3> QED
      BY <1>2, <2>1, <3>2, <3>3, MappedObject
  <2>3. CASE UNCHANGED node
    BY <1>3, <2>1, <2>3
  <2> QED
    BY <1>7, <2>2, <2>3 DEF RemoveFinalizers
<1>8. ASSUME NEW n \in Nodes, CreateNode(n) PROVE [Lifecycle!Next]_(Lifecycle!vars)
  <2> DEFINE o == [NoNode(node[n].uid + 1) EXCEPT !.exists = TRUE]
  <2>1. /\ node' = [node EXCEPT ![n] = o] /\ UNCHANGED <<vm, stripped>>
        /\ PhaseOf(node[n]) = "absent" /\ PhaseOf(o) = "live" /\ NeedsOf(o) = {"vm"}
    BY <1>8 DEF CreateNode, Edit, PhaseOf, NeedsOf, NoNode
  <2> HIDE DEF o
  <2>2. Turns(n, "absent", "live") /\ NeedsOnly(n, {"vm"})
    BY <1>4, <2>1
  <2> QED
    BY <1>2, <2>1, <2>2, MappedObject
<1>9. ASSUME NEW n \in Nodes, ChangeHealth(n) PROVE [Lifecycle!Next]_(Lifecycle!vars)
  <2>1. PICK ready \in ReadyStatus, unreachable \in BOOLEAN :
           Edit(n, [node[n] EXCEPT !.ready = ready, !.unreachable = unreachable])
    BY <1>9 DEF ChangeHealth
  <2> DEFINE o == [node[n] EXCEPT !.ready = ready, !.unreachable = unreachable]
  <2>2. /\ node' = [node EXCEPT ![n] = o] /\ UNCHANGED <<vm, stripped>>
        /\ PhaseOf(o) = PhaseOf(node[n]) /\ NeedsOf(o) = NeedsOf(node[n])
    BY <1>0, <1>9, <2>1 DEF ChangeHealth, Edit, PhaseOf, NeedsOf, NodeObject
  <2> HIDE DEF o
  <2>3. Phase' = Phase /\ Needs' = Needs
    BY <1>4, <2>2
  <2> QED
    BY <1>2, <2>2, <2>3, MappedResource
<1>10. ASSUME NEW n \in Nodes, DeleteNode(n) PROVE [Lifecycle!Next]_(Lifecycle!vars)
  <2>1. node[n].exists /\ ~node[n].deleting /\ UNCHANGED <<vm, stripped>>
    BY <1>10 DEF DeleteNode, Edit
  <2>2. CASE node[n].finalizer
    <3> DEFINE o == [node[n] EXCEPT !.deleting = TRUE]
    <3>1. /\ node' = [node EXCEPT ![n] = o]
          /\ PhaseOf(node[n]) = "guarded" /\ PhaseOf(o) = "dying" /\ NeedsOf(o) = NeedsOf(node[n])
      BY <1>0, <1>10, <2>1, <2>2 DEF DeleteNode, Edit, PhaseOf, NeedsOf, NodeObject
    <3> HIDE DEF o
    <3>2. Turns(n, "guarded", "dying") /\ Needs' = Needs
      BY <1>4, <3>1
    <3> QED
      BY <1>2, <2>1, <3>2, MappedObject
  <2>3. CASE ~node[n].finalizer
    <3>1. /\ node' = [node EXCEPT ![n] = NoNode(node[n].uid)]
          /\ PhaseOf(node[n]) = "live" /\ PhaseOf(NoNode(node[n].uid)) = "absent"
          /\ NeedsOf(NoNode(node[n].uid)) = {}
      BY <1>10, <2>1, <2>3 DEF DeleteNode, Edit, PhaseOf, NeedsOf, NoNode
    <3>2. Turns(n, "live", "absent") /\ NeedsOnly(n, {})
      BY <1>4, <3>1
    <3> QED
      BY <1>2, <2>1, <3>2, MappedObject
  <2> QED
    BY <2>2, <2>3
<1>11. ASSUME NEW n \in Nodes, StripFinalizer(n) PROVE [Lifecycle!Next]_(Lifecycle!vars)
  <2>1. /\ node[n].exists /\ node[n].finalizer /\ UNCHANGED vm
        /\ stripped' = stripped \cup {n}
    BY <1>0, <1>11 DEF StripFinalizer, Edit, WatchInv, Blank
  <2>2. CASE node[n].deleting
    <3>1. /\ node' = [node EXCEPT ![n] = NoNode(node[n].uid)]
          /\ PhaseOf(node[n]) = "dying" /\ PhaseOf(NoNode(node[n].uid)) = "absent"
          /\ NeedsOf(NoNode(node[n].uid)) = {}
      BY <1>11, <2>1, <2>2 DEF StripFinalizer, Edit, PhaseOf, NeedsOf, NoNode
    <3>2. Turns(n, "dying", "absent") /\ NeedsOnly(n, {})
      BY <1>4, <3>1
    <3> QED
      BY <1>2, <2>1, <3>2, MappedObject
  <2>3. CASE ~node[n].deleting
    <3> DEFINE o == [node[n] EXCEPT !.finalizer = FALSE]
    <3>1. /\ node' = [node EXCEPT ![n] = o]
          /\ PhaseOf(node[n]) = "guarded" /\ PhaseOf(o) = "live" /\ NeedsOf(o) = NeedsOf(node[n])
      BY <1>0, <1>11, <2>1, <2>3 DEF StripFinalizer, Edit, PhaseOf, NeedsOf, NodeObject
    <3> HIDE DEF o
    <3>2. Turns(n, "guarded", "live") /\ Needs' = Needs
      BY <1>4, <3>1
    <3> QED
      BY <1>2, <2>1, <3>2, MappedObject
  <2> QED
    BY <2>2, <2>3
<1>12. ASSUME NEW n \in Nodes, CreateOrUpdate(n) PROVE [Lifecycle!Next]_(Lifecycle!vars)
  <2>1. /\ UNCHANGED <<node, stripped>> /\ worker[n].pc = "createOrUpdate"
    BY <1>12 DEF CreateOrUpdate
  <2>2. n \in stripped \/ (node[n].exists /\ node[n].finalizer)
    BY <1>0, <2>1 DEF WatchInv, Guarded
  <2>3. UNCHANGED vm \/ vm' = [vm EXCEPT ![n] = Desired(vmInformer[n], worker[n].obj)]
    BY <1>12 DEF CreateOrUpdate
  <2> QED
    BY <1>3, <1>5, <2>1, <2>2, <2>3
<1>13. ASSUME NEW n \in Nodes, Delete(n) PROVE [Lifecycle!Next]_(Lifecycle!vars)
  <2> DEFINE o == IF vm[n].finalizer THEN [vm[n] EXCEPT !.deleting = TRUE] ELSE NoVM
  <2>1. UNCHANGED <<node, stripped>> /\ (UNCHANGED vm \/ vm' = [vm EXCEPT ![n] = o])
    BY <1>0, <1>13 DEF Delete, TypeOK
  <2>2. ~(o.exists /\ ~o.deleting)
    BY <1>0 DEF NoVM, VM
  <2> HIDE DEF o
  <2> QED
    BY <1>3, <1>5, <2>1, <2>2
<1>14. ASSUME NEW n \in Nodes, FinalizeVM(n) PROVE [Lifecycle!Next]_(Lifecycle!vars)
  <2> DEFINE o == [vm[n] EXCEPT !.finalizer = TRUE]
  <2>1. UNCHANGED <<node, stripped>> /\ vm' = [vm EXCEPT ![n] = o] /\ Live(n)
    BY <1>0, <1>14 DEF FinalizeVM, TypeOK, Live
  <2> HIDE DEF o
  <2> QED
    BY <1>5, <2>1
<1>15. ASSUME NEW n \in Nodes, FinishVM(n) PROVE [Lifecycle!Next]_(Lifecycle!vars)
  <2>1. UNCHANGED <<node, stripped>> /\ vm' = [vm EXCEPT ![n] = NoVM] /\ ~NoVM.exists
    BY <1>15 DEF FinishVM, NoVM
  <2> QED
    BY <1>5, <2>1
<1>16. ASSUME NEW n \in Nodes, Reconcile(n) \/ SyncNode(n) \/ ExpireAndResync(n) \/ SyncVM(n)
       PROVE  UNCHANGED <<node, vm, stripped>>
  BY <1>16 DEF Reconcile, SyncNode, ExpireAndResync, SyncVM
<1>17. ASSUME Restart \/ UNCHANGED vars PROVE UNCHANGED <<node, vm, stripped>>
  BY <1>17 DEF Restart, vars
<1> QED
  BY <1>3, <1>6, <1>7, <1>8, <1>9, <1>10, <1>11, <1>12, <1>13, <1>14, <1>15, <1>16, <1>17
     DEF Next, WorkerStep

(* The node controller implements Finalization, for any number of nodes:     *)
(* unless a user strips the finalizer, a VirtualMachine is created only      *)
(* under the finalizer of its node, and the worker takes that off only when  *)
(* the deletion of the node was requested and its VirtualMachine deleted.    *)
THEOREM Refinement == Spec => ImplementsFinalization
<1>1. Init => Lifecycle!Init
  BY DEF Init, Lifecycle!Init, NoNode, NoVM, Live
<1> QED
  BY <1>1, WatchInvariant, StepRefines, PTL DEF Spec, ImplementsFinalization, Lifecycle!Spec
===================================================================================
