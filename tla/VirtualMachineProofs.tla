--------------------------- MODULE VirtualMachineProofs ---------------------------
(*****************************************************************************)
(* Theorems about VirtualMachine, for every set of resources, every          *)
(* configuration, every bound and every set of faults.                       *)
(*****************************************************************************)
EXTENDS VirtualMachine, TLAPS

-----------------------------------------------------------------------------
(* Typing of the operators the actions are built from.                       *)

Failed == FailedOperationsOf(OpTypes)

(* A resource that does not exist is a resource.                             *)
LEMMA BlankType ==
    ASSUME NEW u \in 0 .. MaxUid
    PROVE  Blank(u) \in Resource
BY VMConstants, AttemptsBoundAssumption
   DEF Blank, Resource, FailedOperationsOf, NoFailedOperations, States

(* A worker between two reconciliations is a worker.                         *)
LEMMA IdleType == Idle \in Worker
<1>1. Blank(0) \in Resource
  BY VMConstants, BlankType
<1>2. NoFailedOperations(OpTypes) \in Failed
  BY AttemptsBoundAssumption DEF Failed, FailedOperationsOf, NoFailedOperations
<1> QED
  BY <1>1, <1>2 DEF Failed, Idle, Worker, PCs, Outcomes, States

(* Counting a failure and forgetting one keep the counters in their range.   *)
LEMMA FailedType ==
    ASSUME NEW f \in Failed, NEW op \in OpTypes
    PROVE  /\ AddOrUpdateFailedOperation(f, op) \in Failed
           /\ DeleteFailedOperation(f, op) \in Failed
BY AttemptsBoundAssumption
   DEF Failed, FailedOperationsOf, AddOrUpdateFailedOperation, DeleteFailedOperation

(* The steps of the handlers that only compute the next worker.              *)
LEMMA WorkerOperatorsType ==
    ASSUME NEW w \in Worker, NEW o \in Resource
    PROVE  /\ Dispatch(o) \in Worker
           /\ GetFailed(w) \in Worker
           /\ ReapplyFailed(w) \in Worker
<1>1. Dispatch(o) \in Worker
  <2>1. o.failed \in FailedOperationsOf(OpTypes)
    BY DEF Resource
  <2> QED
    BY <2>1, IdleType DEF Dispatch, Worker, PCs
<1>2. /\ AddOrUpdateFailedOperation(w.failed, "Get") \in FailedOperationsOf(OpTypes)
      /\ AddOrUpdateFailedOperation(w.failed, "Reapply") \in FailedOperationsOf(OpTypes)
  BY FailedType DEF Worker, OpTypes, Failed
<1> QED
  BY <1>1, <1>2 DEF GetFailed, ReapplyFailed, Worker, PCs, Outcomes

(* What CreateOrUpdate and Delete do after a status update: they end the     *)
(* reconciliation and ask for a requeue, or they go on.                      *)
Follows(w, o, a) ==
    \/ a.worker = Idle /\ a.requeue \in {"retry", "sync"}
    \/ /\ w.deletes /\ a.requeue = "none"
       /\ a.worker = [w EXCEPT !.obj = o, !.pc = "removeFinalizers"]
    \/ /\ ~w.deletes /\ a.requeue = "none"
       /\ a.worker = [w EXCEPT !.obj = o, !.pc = "reapply"]

(* These are all the ways a status update may be followed up.                *)
LEMMA AfterFollows ==
    ASSUME NEW v, NEW w \in Worker, NEW o \in Resource, w.outcome # "none", gauge[v] \in Gauges
    PROVE  /\ Follows(w, o, After(v, w, o))
           /\ After(v, w, o).gauge \in Gauges
<1> DEFINE step(u, kind, g) == [worker |-> u, requeue |-> kind, gauge |-> g]
           goto(pc) == [w EXCEPT !.obj = o, !.pc = pc]
<1>1. \A s \in States : RequeueKind(s) \in {"retry", "sync"} /\ GaugeOf(s) \in Gauges
  BY DEF RequeueKind, GaugeOf, Gauges, States
<1>2. /\ w.outcome \in {"getOk", "getFailed", "reapplyOk", "reapplyFailed"}
      /\ w.deletes \in BOOLEAN /\ w.seen \in States
  BY DEF Worker, Outcomes
<1>3. /\ w.failed["Get"] \in Int /\ w.failed["Reapply"] \in Int
      /\ MaxGetAttempts \in Int /\ MaxReapplyAttempts \in Int
  BY VMConstants, AttemptsBoundAssumption DEF Worker, FailedOperationsOf, OpTypes
<1>4. CASE w.outcome = "getFailed"
  <2>1. CASE w.failed["Get"] < MaxGetAttempts
    <3>1. ~(w.failed["Get"] >= MaxGetAttempts)
      BY <1>3, <2>1
    <3>2. After(v, w, o) = step(Idle, "retry", gauge[v])
      BY <1>4, <2>1, <3>1 DEF After
    <3> QED
      BY <3>2 DEF Follows
  <2>2. CASE w.failed["Get"] >= MaxGetAttempts
    <3>1. ~(w.failed["Get"] < MaxGetAttempts)
      BY <1>3, <2>2
    <3>2. After(v, w, o) = IF w.deletes THEN step(goto("removeFinalizers"), "none", gauge[v])
                                        ELSE step(Idle, "sync", gauge[v])
      BY <1>4, <2>2, <3>1 DEF After
    <3> QED
      BY <1>2, <3>2 DEF Follows
  <2> QED
    BY <1>3, <2>1, <2>2
<1>5. CASE w.outcome = "getOk"
  <2>1. CASE w.deletes
    <3>1. After(v, w, o) = step(goto("removeFinalizers"), "none", gauge[v])
      BY <1>5, <2>1 DEF After
    <3> QED
      BY <2>1, <3>1 DEF Follows
  <2>2. CASE ~w.deletes /\ w.seen = "Failed"
    <3>1. After(v, w, o) = step(goto("reapply"), "none", "willReapply")
      BY <1>5, <2>2 DEF After
    <3> QED
      BY <2>2, <3>1 DEF Follows, Gauges
  <2>3. CASE ~w.deletes /\ w.seen # "Failed"
    <3>1. After(v, w, o) = step(Idle, RequeueKind(w.seen), GaugeOf(w.seen))
      BY <1>5, <2>3 DEF After
    <3> QED
      BY <1>1, <1>2, <3>1 DEF Follows
  <2> QED
    BY <2>1, <2>2, <2>3
<1>6. CASE w.outcome = "reapplyFailed"
  <2>1. CASE w.failed["Reapply"] < MaxReapplyAttempts
    <3>1. ~(w.failed["Reapply"] >= MaxReapplyAttempts)
      BY <1>3, <2>1
    <3>2. After(v, w, o) = step(Idle, "retry", gauge[v])
      BY <1>6, <2>1, <3>1 DEF After
    <3> QED
      BY <3>2 DEF Follows
  <2>2. CASE w.failed["Reapply"] >= MaxReapplyAttempts
    <3>1. ~(w.failed["Reapply"] < MaxReapplyAttempts)
      BY <1>3, <2>2
    <3>2. After(v, w, o) = step(Idle, "sync", "failed")
      BY <1>6, <2>2, <3>1 DEF After
    <3> QED
      BY <3>2 DEF Follows, Gauges
  <2> QED
    BY <1>3, <2>1, <2>2
<1>7. CASE w.outcome = "reapplyOk"
  <2>1. After(v, w, o) = step(Idle, RequeueKind(w.seen), gauge[v])
    BY <1>7 DEF After
  <2> QED
    BY <1>1, <1>2, <2>1 DEF Follows
<1> QED
  BY <1>2, <1>4, <1>5, <1>6, <1>7

(* So the next worker is a worker, and the requeue, if any, is a timer.      *)
LEMMA FollowsType ==
    ASSUME NEW w \in Worker, NEW o \in Resource, NEW a, Follows(w, o, a)
    PROVE  a.worker \in Worker /\ a.requeue \in {"none", "retry", "sync"}
<1>1. /\ [w EXCEPT !.obj = o, !.pc = "removeFinalizers"] \in Worker
      /\ [w EXCEPT !.obj = o, !.pc = "reapply"] \in Worker
  BY DEF Worker, PCs
<1> QED
  BY <1>1, IdleType DEF Follows

(* A step that ends the reconciliation, with or without a requeue.           *)
LEMMA RequeueType ==
    ASSUME TypeOK, NEW v \in VMs,
           Return(v) \/ \E kind \in {"retry", "sync"} : Requeue(v, kind)
    PROVE  /\ worker' \in [VMs -> Worker]
           /\ timer' \in [VMs -> {"none", "retry", "sync"}]
BY IdleType DEF TypeOK, Requeue, Return, Delayed

-----------------------------------------------------------------------------
(* The inductive invariant, resource by resource.                            *)

(* A status is updated only with an outcome, and a finalizer is removed only *)
(* by a deletion.                                                            *)
InStep(v) ==
    /\ worker[v].pc = "updateStatus" => worker[v].outcome # "none"
    /\ worker[v].pc = "removeFinalizers" => worker[v].deletes

(* The cache never runs ahead of the API server.                             *)
Behind(v) ==
    /\ cache[v].uid <= api[v].uid
    /\ cache[v].uid = api[v].uid /\ api[v].exists => cache[v].generation <= api[v].generation

(* When a resource was re-created while its predecessor's deletion is still  *)
(* being reconciled, the re-creation has been queued or will be noticed.     *)
LateDeletion(v) ==
    worker[v].deletes /\ worker[v].pc # "idle" /\ Tracked(v)
        => v \in queue \/ GenerationChanged(cache[v], api[v])

(* AlwaysScheduled, for v.                                                   *)
Scheduled(v) ==
    Tracked(v) => \/ v \in queue \/ timer[v] # "none" \/ worker[v].pc # "idle"
                  \/ GenerationChanged(cache[v], api[v])

KeyInv(v) == InStep(v) /\ Behind(v) /\ LateDeletion(v) /\ Scheduled(v)

IInv == TypeOK /\ \A v \in VMs : KeyInv(v)

(* A step that leaves v alone keeps what is known of v.                      *)
LEMMA Frame ==
    ASSUME NEW v \in VMs, KeyInv(v), api'[v] = api[v], cache'[v] = cache[v],
           worker'[v] = worker[v], timer'[v] = timer[v], v \in queue' <=> v \in queue
    PROVE  KeyInv(v)'
BY DEF KeyInv, InStep, Behind, LateDeletion, Scheduled, Tracked, GenerationChanged

-----------------------------------------------------------------------------
(* Every step keeps the types: one step of the proof per action.             *)
LEMMA TypeInductive == IInv /\ [Next]_vars => TypeOK'
<1> SUFFICES ASSUME IInv, [Next]_vars
             PROVE  TypeOK'
  OBVIOUS
<1>0. TypeOK
  BY DEF IInv
<1> USE <1>0 DEF TypeOK
<1>1. ASSUME NEW v \in VMs, Reconcile(v) PROVE TypeOK'
  <2>1. Dispatch(cache[v]) \in Worker
    BY WorkerOperatorsType, IdleType
  <2>2. worker' \in [VMs -> Worker] /\ queue' \subseteq VMs
    BY <1>1, <2>1 DEF Reconcile
  <2>3. timer' \in [VMs -> {"none", "retry", "sync"}]
    BY <1>1 DEF Reconcile
  <2>4. burst' \in [VMs -> 0 .. MaxReapplyAttempts + MaxLosses + 2]
    BY <1>1, VMConstants, AttemptsBoundAssumption DEF Reconcile
  <2> QED
    BY <1>1, <2>2, <2>3, <2>4 DEF Reconcile
<1>2. ASSUME NEW v \in VMs, AddFinalizers(v) PROVE TypeOK'
  <2> DEFINE w == worker[v]
             o == [w.obj EXCEPT !.finalizer = TRUE]
             u == [w EXCEPT !.obj = o, !.pc = "get"]
  <2>1. o \in Resource
    BY DEF Worker, Resource
  <2>2. u \in Worker
    BY <2>1 DEF Worker, PCs
  <2>3. api' \in [VMs -> Resource]
    BY <1>2, <2>1 DEF AddFinalizers
  <2>4. losses' \in 0 .. MaxLosses
    BY <1>2, VMConstants DEF AddFinalizers, Lose
  <2>5. /\ worker' \in [VMs -> Worker]
        /\ timer' \in [VMs -> {"none", "retry", "sync"}]
    <3>1. \/ Requeue(v, "retry") \/ Return(v)
          \/ worker' = [worker EXCEPT ![v] = u] /\ UNCHANGED timer
      BY <1>2 DEF AddFinalizers
    <3> QED
      BY <2>2, <3>1, RequeueType
  <2> QED
    BY <1>2, <2>3, <2>4, <2>5 DEF AddFinalizers
<1>3. ASSUME NEW v \in VMs, RemoveFinalizers(v) PROVE TypeOK'
  <2> DEFINE o == IF api[v].deleting THEN Blank(api[v].uid) ELSE [api[v] EXCEPT !.finalizer = FALSE]
  <2>1. o \in Resource
    <3>1. api[v] \in Resource
      OBVIOUS
    <3>2. [api[v] EXCEPT !.finalizer = FALSE] \in Resource /\ api[v].uid \in 0 .. MaxUid
      BY <3>1 DEF Resource
    <3> QED
      BY <3>2, BlankType
  <2>2. api' \in [VMs -> Resource]
    BY <1>3, <2>1 DEF RemoveFinalizers
  <2>3. losses' \in 0 .. MaxLosses
    BY <1>3, VMConstants DEF RemoveFinalizers, Lose
  <2>4. /\ worker' \in [VMs -> Worker]
        /\ timer' \in [VMs -> {"none", "retry", "sync"}]
    <3>1. Requeue(v, "retry") \/ Requeue(v, "sync") \/ Return(v)
      BY <1>3 DEF RemoveFinalizers
    <3> QED
      BY <3>1, RequeueType
  <2> QED
    BY <1>3, <2>2, <2>3, <2>4 DEF RemoveFinalizers
<1>4. ASSUME NEW v \in VMs, Get(v) PROVE TypeOK'
  <2> DEFINE w == worker[v]
             u == [w EXCEPT !.pc = "updateStatus", !.outcome = "getOk",
                            !.seen = azure[v], !.last = azure[v],
                            !.failed = DeleteFailedOperation(@, "Get")]
  <2>1. w \in Worker /\ GetFailed(w) \in Worker
    BY WorkerOperatorsType, IdleType DEF Worker
  <2>2. DeleteFailedOperation(w.failed, "Get") \in FailedOperationsOf(OpTypes)
    BY <2>1, FailedType DEF Worker, OpTypes, Failed
  <2>3. u \in Worker
    BY <2>1, <2>2 DEF Worker, PCs, Outcomes
  <2>4. worker' \in [VMs -> Worker]
    BY <1>4, <2>1, <2>3 DEF Get
  <2>5. gauge' \in [VMs -> Gauges]
    <3>1. GaugeOf(azure[v]) \in Gauges
      BY DEF GaugeOf, Gauges
    <3> QED
      BY <1>4, <3>1 DEF Get
  <2> QED
    BY <1>4, <2>4, <2>5 DEF Get
<1>5. ASSUME NEW v \in VMs, Reapply(v) PROVE TypeOK'
  <2> DEFINE w == worker[v]
  <2>1. w \in Worker /\ ReapplyFailed(w) \in Worker
    BY WorkerOperatorsType, IdleType DEF Worker
  <2>2. [w EXCEPT !.pc = "getReapplied"] \in Worker
    BY <2>1 DEF Worker, PCs
  <2>3. worker' \in [VMs -> Worker]
    BY <1>5, <2>1, <2>2 DEF Reapply
  <2>4. azure' \in [VMs -> States]
    BY <1>5 DEF Reapply
  <2>5. burst' \in [VMs -> 0 .. MaxReapplyAttempts + MaxLosses + 2]
    <3>1. MaxReapplyAttempts \in Int /\ MaxLosses \in Int
      BY VMConstants, AttemptsBoundAssumption
    <3>2. burst[v] \in 0 .. MaxReapplyAttempts + MaxLosses + 2
      OBVIOUS
    <3>3. (IF burst[v] <= MaxReapplyAttempts + MaxLosses + 1 THEN burst[v] + 1 ELSE burst[v])
             \in 0 .. MaxReapplyAttempts + MaxLosses + 2
      BY <3>1, <3>2
    <3> QED
      BY <1>5, <3>3 DEF Reapply
  <2> QED
    BY <1>5, <2>3, <2>4, <2>5 DEF Reapply
<1>6. ASSUME NEW v \in VMs, GetReapplied(v) PROVE TypeOK'
  <2> DEFINE w == worker[v]
             u == [w EXCEPT !.pc = "updateStatus", !.outcome = "reapplyOk",
                            !.last = azure[v],
                            !.failed = DeleteFailedOperation(@, "Reapply")]
  <2>1. w \in Worker /\ ReapplyFailed(w) \in Worker
    BY WorkerOperatorsType, IdleType DEF Worker
  <2>2. DeleteFailedOperation(w.failed, "Reapply") \in FailedOperationsOf(OpTypes)
    BY <2>1, FailedType DEF Worker, OpTypes, Failed
  <2>3. u \in Worker
    BY <2>1, <2>2 DEF Worker, PCs, Outcomes
  <2>4. worker' \in [VMs -> Worker]
    BY <1>6, <2>1, <2>3 DEF GetReapplied
  <2>5. gauge' \in [VMs -> Gauges]
    <3>1. GaugeOf(azure[v]) \in Gauges
      BY DEF GaugeOf, Gauges
    <3> QED
      BY <1>6, <3>1 DEF GetReapplied
  <2>6. burst' \in [VMs -> 0 .. MaxReapplyAttempts + MaxLosses + 2]
    BY <1>6, VMConstants, AttemptsBoundAssumption DEF GetReapplied
  <2> QED
    BY <1>6, <2>4, <2>5, <2>6 DEF GetReapplied
<1>7. ASSUME NEW v \in VMs, UpdateStatus(v) PROVE TypeOK'
  <2> DEFINE w       == worker[v]
             state   == IF w.outcome = "getFailed" THEN "Absent" ELSE w.last
             moved   == state # cache[v].state
             recount == \/ w.failed # cache[v].failed
                        \/ w.outcome \in {"getFailed", "reapplyFailed"}
             merged  == [api[v] EXCEPT !.state  = IF moved THEN state ELSE @,
                                       !.failed = IF recount THEN w.failed ELSE @]
             after(o) == After(v, w, o)
             follow(o) == /\ worker' = [worker EXCEPT ![v] = after(o).worker]
                          /\ timer' = IF after(o).requeue = "none" THEN timer
                                      ELSE Delayed(v, after(o).requeue)
                          /\ gauge' = [gauge EXCEPT ![v] = after(o).gauge]
  <2>1. /\ w \in Worker /\ cache[v] \in Resource /\ api[v] \in Resource
        /\ w.outcome # "none" /\ gauge[v] \in Gauges
    BY <1>7 DEF UpdateStatus, IInv, KeyInv, InStep
  <2>2. merged \in Resource
    <3>1. state \in States
      BY <2>1 DEF Worker, States
    <3> QED
      BY <2>1, <3>1 DEF Worker, Resource
  <2>3. ASSUME NEW o \in Resource
        PROVE  /\ after(o).worker \in Worker /\ after(o).gauge \in Gauges
               /\ after(o).requeue \in {"none", "retry", "sync"}
    BY <2>1, AfterFollows, FollowsType
  <2>4. \/ /\ Requeue(v, "retry") /\ UNCHANGED <<api, gauge>>
           /\ Lose \/ UNCHANGED losses
        \/ follow(cache[v]) /\ UNCHANGED <<api, losses>>
        \/ api' = [api EXCEPT ![v] = merged] /\ follow(merged) /\ UNCHANGED losses
    BY <1>7 DEF UpdateStatus
  <2>5. ASSUME NEW o \in Resource, follow(o)
        PROVE  /\ worker' \in [VMs -> Worker] /\ gauge' \in [VMs -> Gauges]
               /\ timer' \in [VMs -> {"none", "retry", "sync"}]
    BY <2>3, <2>5 DEF Delayed
  <2>6. losses' \in 0 .. MaxLosses
    BY <2>4, VMConstants DEF Lose
  <2>7. api' \in [VMs -> Resource]
    BY <2>2, <2>4
  <2>8. /\ worker' \in [VMs -> Worker] /\ gauge' \in [VMs -> Gauges]
        /\ timer' \in [VMs -> {"none", "retry", "sync"}]
    <3>1. CASE Requeue(v, "retry") /\ UNCHANGED gauge
      BY <3>1, RequeueType
    <3>2. CASE \E o \in Resource : follow(o)
      BY <3>2, <2>5
    <3> QED
      BY <2>1, <2>2, <2>4, <3>1, <3>2
  <2> QED
    BY <1>7, <2>6, <2>7, <2>8 DEF UpdateStatus
<1>8. ASSUME NEW v \in VMs, CreateResource(v) PROVE TypeOK'
  <2>1. api[v].uid + 1 \in 0 .. MaxUid
    BY <1>8, VMConstants DEF CreateResource, Resource
  <2>2. [Blank(api[v].uid + 1) EXCEPT !.exists = TRUE] \in Resource
    <3>1. Blank(api[v].uid + 1) \in Resource
      BY <2>1, BlankType
    <3> QED
      BY <3>1 DEF Resource
  <2> QED
    BY <1>8, <2>2 DEF CreateResource
<1>9. ASSUME NEW v \in VMs, DeleteResource(v) PROVE TypeOK'
  <2>1. api[v] \in Resource /\ api[v].uid \in 0 .. MaxUid
    BY DEF Resource
  <2>2. [api[v] EXCEPT !.deleting = TRUE] \in Resource
    BY <2>1 DEF Resource
  <2>3. Blank(api[v].uid) \in Resource
    BY <2>1, BlankType
  <2> QED
    BY <1>9, <2>2, <2>3 DEF DeleteResource
<1>10. ASSUME NEW v \in VMs, ChangeHealth(v) PROVE TypeOK'
  <2> DEFINE o == [api[v] EXCEPT !.notReadyOrUnreachable = ~@, !.generation = @ + 1]
  <2>1. api[v] \in Resource
    OBVIOUS
  <2>2. o \in Resource
    BY <1>10, <2>1, VMConstants DEF ChangeHealth, Resource
  <2>3. api' = [api EXCEPT ![v] = o]
    BY <1>10, <2>1 DEF ChangeHealth, Resource
  <2> QED
    BY <1>10, <2>2, <2>3 DEF ChangeHealth
<1>11. ASSUME NEW v \in VMs, SyncCache(v) \/ AzureStep(v) PROVE TypeOK'
  BY <1>11 DEF SyncCache, AzureStep
<1>12. CASE Restart
  <2>1. losses' \in 0 .. MaxLosses
    BY <1>12, VMConstants DEF Restart, Lose
  <2>2. 0 \in 0 .. MaxReapplyAttempts + MaxLosses + 2 /\ "none" \in Gauges
    BY VMConstants, AttemptsBoundAssumption DEF Gauges
  <2> QED
    BY <1>12, <2>1, <2>2, IdleType DEF Restart
<1>13. CASE UNCHANGED vars
  BY <1>13 DEF vars
<1> QED
  BY <1>1, <1>2, <1>3, <1>4, <1>5, <1>6, <1>7, <1>8, <1>9, <1>10, <1>11, <1>12, <1>13
     DEF Next, WorkerStep

(* A reconciliation of v ends with a requeue: v stays scheduled.             *)
LEMMA RequeueKeeps ==
    ASSUME IInv, TypeOK', NEW v \in VMs, NEW kind \in {"retry", "sync"},
           worker' = [worker EXCEPT ![v] = Idle], timer' = Delayed(v, kind), Behind(v)'
    PROVE  KeyInv(v)'
<1>1. worker'[v].pc = "idle"
  BY DEF IInv, TypeOK, Idle
<1>2. timer'[v] # "none"
  BY DEF IInv, TypeOK, Delayed
<1> QED
  BY <1>1, <1>2 DEF KeyInv, InStep, LateDeletion, Scheduled

(* The worker of v goes on: what was known of a late deletion suffices.      *)
LEMMA BusyKeeps ==
    ASSUME IInv, NEW v \in VMs, NEW w, worker' = [worker EXCEPT ![v] = w],
           worker[v].pc # "idle", w.pc # "idle", w.deletes = worker[v].deletes,
           w.pc = "updateStatus" => w.outcome # "none",
           w.pc = "removeFinalizers" => w.deletes,
           UNCHANGED <<cache, queue>>, Behind(v)',
           Tracked(v)' => Tracked(v),
           GenerationChanged(cache[v], api[v]) /\ Tracked(v)'
              => GenerationChanged(cache[v], api[v])'
    PROVE  KeyInv(v)'
<1>1. worker'[v] = w
  BY DEF IInv, TypeOK
<1>2. LateDeletion(v)'
  BY <1>1 DEF IInv, KeyInv, LateDeletion
<1> QED
  BY <1>1, <1>2 DEF KeyInv, InStep, Scheduled

(* A write that changes neither the incarnation nor the specification.       *)
SameSpec(o, r) ==
    /\ o.exists = r.exists /\ o.uid = r.uid /\ o.deleting = r.deleting
    /\ o.generation = r.generation

(* It leaves the cache behind and the events to come as they are.            *)
LEMMA SameSpecKeeps ==
    ASSUME NEW v \in VMs, SameSpec(api'[v], api[v]), UNCHANGED cache, Behind(v)
    PROVE  /\ Behind(v)' /\ Tracked(v)' = Tracked(v)
           /\ GenerationChanged(cache[v], api[v])' = GenerationChanged(cache[v], api[v])
BY DEF SameSpec, Behind, Tracked, GenerationChanged

(* Every step keeps what the invariant says of every resource.               *)
LEMMA KeyInductive ==
    ASSUME IInv, [Next]_vars, NEW v \in VMs
    PROVE  KeyInv(v)'
<1>0. TypeOK /\ TypeOK' /\ KeyInv(v)
  BY TypeInductive DEF IInv
<1>a. /\ worker[v] \in Worker /\ cache[v] \in Resource /\ api[v] \in Resource
      /\ InStep(v) /\ Behind(v) /\ LateDeletion(v) /\ Scheduled(v)
  BY <1>0 DEF TypeOK, KeyInv
<1>b. ASSUME UNCHANGED api, UNCHANGED cache
      PROVE  /\ Behind(v)' /\ Tracked(v)' = Tracked(v)
             /\ GenerationChanged(cache[v], api[v])' = GenerationChanged(cache[v], api[v])
  BY <1>a, <1>b DEF Behind, Tracked, GenerationChanged
<1>1. ASSUME NEW u \in VMs \ {v},
             \/ WorkerStep(u) \/ CreateResource(u) \/ DeleteResource(u) \/ ChangeHealth(u)
             \/ SyncCache(u) \/ AzureStep(u)
      PROVE  KeyInv(v)'
  <2>1. /\ api'[v] = api[v] /\ cache'[v] = cache[v] /\ worker'[v] = worker[v]
        /\ timer'[v] = timer[v] /\ (v \in queue' <=> v \in queue)
    <3>1. CASE WorkerStep(u)
      BY <1>0, <1>1, <3>1
         DEF TypeOK, WorkerStep, Reconcile, AddFinalizers, RemoveFinalizers, Get, Reapply,
             GetReapplied, UpdateStatus, Requeue, Return, Delayed
    <3>2. CASE \/ CreateResource(u) \/ DeleteResource(u) \/ ChangeHealth(u)
               \/ SyncCache(u) \/ AzureStep(u)
      BY <1>0, <1>1, <3>2
         DEF TypeOK, CreateResource, DeleteResource, ChangeHealth, SyncCache, AzureStep
    <3> QED
      BY <1>1, <3>1, <3>2
  <2> QED
    BY <1>0, <2>1, Frame
<1>2. CASE Reconcile(v)
  <2>1. worker'[v] = Dispatch(cache[v]) /\ UNCHANGED api /\ UNCHANGED cache
    BY <1>0, <1>2 DEF Reconcile, TypeOK
  <2>2. CASE cache[v].exists /\ ~cache[v].deleting
    <3>1. worker'[v].pc = "addFinalizers" /\ ~worker'[v].deletes
      BY <2>1, <2>2 DEF Dispatch, Idle
    <3> QED
      BY <1>b, <2>1, <3>1 DEF KeyInv, InStep, LateDeletion, Scheduled
  <2>3. CASE ~(cache[v].exists /\ ~cache[v].deleting)
    <3>1. worker'[v].pc \in {"idle", "get"}
      BY <2>1, <2>3, <1>a DEF Dispatch, Idle, Resource
    <3>2. Tracked(v) => GenerationChanged(cache[v], api[v])
      BY <2>3, <1>a DEF Tracked, GenerationChanged, Resource
    <3> QED
      BY <1>b, <2>1, <3>1, <3>2 DEF KeyInv, InStep, LateDeletion, Scheduled
  <2> QED
    BY <2>2, <2>3
<1>3. CASE AddFinalizers(v)
  <2> DEFINE o == [worker[v].obj EXCEPT !.finalizer = TRUE]
             w == [worker[v] EXCEPT !.obj = o, !.pc = "get"]
  <2>1. CASE Requeue(v, "retry") /\ UNCHANGED api
    BY <1>0, <1>3, <1>b, <2>1, RequeueKeeps DEF AddFinalizers, Requeue
  <2>2. CASE ~api[v].exists /\ Return(v) /\ UNCHANGED api
    <3>1. worker'[v].pc = "idle" /\ ~Tracked(v)
      BY <1>0, <2>2 DEF Return, TypeOK, Idle, Tracked
    <3> QED
      BY <1>3, <1>b, <2>2, <3>1 DEF AddFinalizers, KeyInv, InStep, LateDeletion, Scheduled
  <2>3. CASE /\ api[v] = worker[v].obj /\ api' = [api EXCEPT ![v] = o]
             /\ worker' = [worker EXCEPT ![v] = w]
    <3>1. SameSpec(api'[v], api[v])
      BY <1>0, <1>a, <2>3 DEF SameSpec, TypeOK, Resource
    <3>2. w.pc = "get" /\ w.deletes = worker[v].deletes /\ worker[v].pc # "idle"
      BY <1>3, <1>a DEF AddFinalizers, Worker
    <3>3. UNCHANGED <<cache, queue>>
      BY <1>3 DEF AddFinalizers
    <3> QED
      BY <1>a, <2>3, <3>1, <3>2, <3>3, SameSpecKeeps, BusyKeeps
  <2> QED
    BY <1>3, <2>1, <2>2, <2>3 DEF AddFinalizers
<1>4. CASE RemoveFinalizers(v)
  <2> DEFINE o == IF api[v].deleting THEN Blank(api[v].uid)
                                     ELSE [api[v] EXCEPT !.finalizer = FALSE]
  <2>1. \/ UNCHANGED api
        \/ api[v].exists /\ api' = [api EXCEPT ![v] = o]
    BY <1>4 DEF RemoveFinalizers
  <2>2. UNCHANGED <<cache, queue>>
    BY <1>4 DEF RemoveFinalizers
  <2>3. /\ Behind(v)' /\ (Tracked(v)' => Tracked(v))
        /\ Tracked(v)' => GenerationChanged(cache[v], api[v])' = GenerationChanged(cache[v], api[v])
    <3>1. CASE UNCHANGED api
      BY <1>b, <2>2, <3>1
    <3>2. CASE api[v].deleting /\ api' = [api EXCEPT ![v] = o]
      <4>1. api'[v] = Blank(api[v].uid)
        BY <1>0, <3>2 DEF TypeOK
      <4> QED
        BY <1>a, <2>2, <4>1 DEF Blank, Behind, Tracked
    <3>3. CASE ~api[v].deleting /\ api' = [api EXCEPT ![v] = o]
      <4>1. SameSpec(api'[v], api[v])
        BY <1>0, <1>a, <3>3 DEF SameSpec, TypeOK, Resource
      <4> QED
        BY <1>a, <2>2, <4>1, SameSpecKeeps
    <3> QED
      BY <2>1, <3>1, <3>2, <3>3
  <2>4. CASE \E kind \in {"retry", "sync"} : Requeue(v, kind)
    BY <1>0, <2>3, <2>4, RequeueKeeps DEF Requeue
  <2>5. CASE Return(v)
    <3>1. worker'[v].pc = "idle" /\ UNCHANGED timer
      BY <1>0, <2>5 DEF Return, TypeOK, Idle
    <3>2. worker[v].pc = "removeFinalizers" /\ worker[v].deletes
      BY <1>4, <1>a DEF RemoveFinalizers, InStep
    <3>3. Tracked(v)' => v \in queue' \/ GenerationChanged(cache[v], api[v])'
      BY <1>a, <2>2, <2>3, <3>2 DEF LateDeletion
    <3> QED
      BY <2>3, <3>1, <3>3 DEF KeyInv, InStep, LateDeletion, Scheduled
  <2>6. Return(v) \/ \E kind \in {"retry", "sync"} : Requeue(v, kind)
    BY <1>4 DEF RemoveFinalizers
  <2> QED
    BY <2>4, <2>5, <2>6
<1>5. CASE Get(v) \/ Reapply(v) \/ GetReapplied(v)
  <2>1. /\ UNCHANGED api /\ UNCHANGED cache /\ UNCHANGED queue
        /\ worker[v].pc \in {"get", "reapply", "getReapplied"}
    BY <1>5 DEF Get, Reapply, GetReapplied
  <2>2. \E w : /\ worker' = [worker EXCEPT ![v] = w] /\ w.deletes = worker[v].deletes
               /\ w.pc \in {"updateStatus", "getReapplied"}
               /\ w.pc = "updateStatus" => w.outcome # "none"
    <3> DEFINE w == worker[v]
               got == [w EXCEPT !.pc = "updateStatus", !.outcome = "getOk",
                                !.seen = azure[v], !.last = azure[v],
                                !.failed = DeleteFailedOperation(@, "Get")]
               reapplied == [w EXCEPT !.pc = "updateStatus", !.outcome = "reapplyOk",
                                      !.last = azure[v],
                                      !.failed = DeleteFailedOperation(@, "Reapply")]
               reapplying == [w EXCEPT !.pc = "getReapplied"]
               next == {GetFailed(w), got, ReapplyFailed(w), reapplied, reapplying}
    <3>1. \E u \in next : worker' = [worker EXCEPT ![v] = u]
      BY <1>5 DEF Get, Reapply, GetReapplied
    <3>2. \A u \in next : /\ u.deletes = w.deletes /\ u.pc \in {"updateStatus", "getReapplied"}
                          /\ u.pc = "updateStatus" => u.outcome # "none"
      BY <1>a DEF Worker, GetFailed, ReapplyFailed
    <3> QED
      BY <3>1, <3>2
  <2> QED
    BY <1>b, <2>1, <2>2, BusyKeeps
<1>6. CASE UpdateStatus(v)
  <2> DEFINE w == worker[v]
             after(o) == After(v, w, o)
             follow(o) == /\ worker' = [worker EXCEPT ![v] = after(o).worker]
                          /\ timer' = IF after(o).requeue = "none" THEN timer
                                      ELSE Delayed(v, after(o).requeue)
             state   == IF w.outcome = "getFailed" THEN "Absent" ELSE w.last
             moved   == state # cache[v].state
             recount == \/ w.failed # cache[v].failed
                        \/ w.outcome \in {"getFailed", "reapplyFailed"}
             merged  == [api[v] EXCEPT !.state  = IF moved THEN state ELSE @,
                                       !.failed = IF recount THEN w.failed ELSE @]
  <2>1. /\ w.pc = "updateStatus" /\ w.outcome # "none" /\ gauge[v] \in Gauges
        /\ UNCHANGED <<cache, queue>>
    BY <1>0, <1>6, <1>a DEF UpdateStatus, InStep, TypeOK
  <2>2. \/ Requeue(v, "retry") /\ UNCHANGED api
        \/ follow(cache[v]) /\ UNCHANGED api
        \/ api' = [api EXCEPT ![v] = merged] /\ follow(merged)
    BY <1>6 DEF UpdateStatus
  <2>3. merged \in Resource /\ SameSpec(merged, api[v])
    BY <1>a DEF Worker, Resource, States, SameSpec
  <2>4. /\ Behind(v)' /\ Tracked(v)' = Tracked(v)
        /\ GenerationChanged(cache[v], api[v])' = GenerationChanged(cache[v], api[v])
    <3>1. UNCHANGED api \/ api'[v] = merged
      BY <1>0, <2>2 DEF TypeOK
    <3> QED
      BY <1>a, <1>b, <2>1, <2>3, <3>1, SameSpecKeeps
  <2>5. ASSUME NEW o \in Resource, follow(o) PROVE KeyInv(v)'
    <3>1. Follows(w, o, after(o))
      BY <1>a, <2>1, AfterFollows
    <3>2. CASE after(o).worker = Idle /\ after(o).requeue \in {"retry", "sync"}
      BY <1>0, <2>4, <2>5, <3>2, RequeueKeeps
    <3>3. CASE /\ after(o).worker = [w EXCEPT !.obj = o, !.pc = "removeFinalizers"]
               /\ w.deletes
      <4>1. /\ after(o).worker.pc = "removeFinalizers"
            /\ after(o).worker.deletes = w.deletes
        BY <1>a, <3>3 DEF Worker
      <4> QED
        BY <2>1, <2>4, <2>5, <3>3, <4>1, BusyKeeps
    <3>4. CASE after(o).worker = [w EXCEPT !.obj = o, !.pc = "reapply"]
      <4>1. after(o).worker.pc = "reapply" /\ after(o).worker.deletes = w.deletes
        BY <1>a, <3>4 DEF Worker
      <4> QED
        BY <2>1, <2>4, <2>5, <4>1, BusyKeeps
    <3> QED
      BY <3>1, <3>2, <3>3, <3>4 DEF Follows
  <2>6. CASE Requeue(v, "retry")
    BY <1>0, <2>4, <2>6, RequeueKeeps DEF Requeue
  <2> QED
    BY <1>a, <2>2, <2>3, <2>5, <2>6
<1>7. CASE CreateResource(v)
  <2>1. /\ api'[v].exists /\ api'[v].uid = api[v].uid + 1
        /\ UNCHANGED <<cache, queue, timer, worker>>
    BY <1>0, <1>7 DEF CreateResource, TypeOK, Blank
  <2>2. cache'[v].uid <= api'[v].uid /\ cache'[v].uid # api'[v].uid
    BY <1>a, <2>1, VMConstants DEF Behind, Resource
  <2>3. Behind(v)' /\ GenerationChanged(cache[v], api[v])'
    BY <2>2 DEF Behind, GenerationChanged
  <2> QED
    BY <1>a, <2>1, <2>3 DEF KeyInv, InStep, LateDeletion, Scheduled
<1>8. CASE DeleteResource(v)
  <2>1. api'[v] = [api[v] EXCEPT !.deleting = TRUE] \/ api'[v] = Blank(api[v].uid)
    BY <1>0, <1>8 DEF DeleteResource, TypeOK
  <2>2. Behind(v)' /\ ~Tracked(v)'
    BY <1>8, <1>a, <2>1 DEF DeleteResource, Behind, Tracked, Blank, Resource
  <2>3. UNCHANGED <<cache, queue, timer, worker>>
    BY <1>8 DEF DeleteResource
  <2> QED
    BY <1>a, <2>2, <2>3 DEF KeyInv, InStep, LateDeletion, Scheduled
<1>9. CASE ChangeHealth(v)
  <2>1. /\ api'[v].exists = api[v].exists /\ api'[v].uid = api[v].uid
        /\ api'[v].deleting = api[v].deleting
        /\ api'[v].generation = api[v].generation + 1
    BY <1>0, <1>9, <1>a DEF ChangeHealth, TypeOK, Resource
  <2>2. api[v].exists /\ UNCHANGED <<cache, queue, timer, worker>>
    BY <1>9 DEF ChangeHealth
  <2>3. cache[v].uid = api[v].uid => cache[v].generation < api'[v].generation
    BY <1>a, <2>1, <2>2, VMConstants DEF Behind, Resource
  <2>4. Behind(v)' /\ GenerationChanged(cache[v], api[v])'
    <3>1. cache'[v] = cache[v] /\ cache[v].generation \in Int /\ api'[v].generation \in Int
      BY <1>a, <2>1, <2>2, VMConstants DEF Resource
    <3>2. cache[v].uid = api[v].uid
             => /\ cache[v].generation <= api'[v].generation
                /\ cache[v].generation # api'[v].generation
      BY <2>3, <3>1
    <3> QED
      BY <1>a, <2>1, <3>1, <3>2 DEF Behind, GenerationChanged
  <2> QED
    BY <1>a, <2>2, <2>4 DEF KeyInv, InStep, LateDeletion, Scheduled
<1>10. CASE SyncCache(v)
  <2>1. cache'[v] = api[v] /\ UNCHANGED <<api, timer, worker>>
    BY <1>0, <1>10 DEF SyncCache, TypeOK
  <2>2. GenerationChanged(cache[v], api[v]) \/ v \in queue => v \in queue'
    BY <1>10 DEF SyncCache
  <2>3. Behind(v)' /\ Tracked(v)' = Tracked(v)
    BY <1>a, <2>1 DEF Behind, Tracked, Resource
  <2> QED
    BY <1>a, <2>1, <2>2, <2>3 DEF KeyInv, InStep, LateDeletion, Scheduled
<1>11. CASE AzureStep(v)
  BY <1>0, <1>11, Frame DEF AzureStep
<1>12. CASE Restart
  <2>1. /\ worker'[v].pc = "idle" /\ cache'[v] = api[v] /\ UNCHANGED api
        /\ api[v].exists => v \in queue'
    BY <1>12 DEF Restart, Idle
  <2>2. Behind(v)'
    BY <1>a, <2>1 DEF Behind, Resource
  <2> QED
    BY <2>1, <2>2 DEF KeyInv, InStep, LateDeletion, Scheduled, Tracked
<1>13. CASE UNCHANGED vars
  BY <1>0, <1>13, Frame DEF vars
<1> QED
  BY <1>1, <1>2, <1>3, <1>4, <1>5, <1>6, <1>7, <1>8, <1>9, <1>10, <1>11, <1>12, <1>13
     DEF Next, WorkerStep

(* The initial states satisfy the invariant.                                 *)
LEMMA Initial == Init => IInv
<1> SUFFICES ASSUME Init PROVE IInv
  OBVIOUS
<1>1. Blank(0) \in Resource /\ Idle \in Worker
  BY BlankType, IdleType, VMConstants
<1>2. TypeOK
  BY <1>1, VMConstants, AttemptsBoundAssumption DEF Init, TypeOK, Gauges
<1>3. ASSUME NEW v \in VMs PROVE KeyInv(v)
  <2>1. /\ api[v] = Blank(0) /\ cache[v] = Blank(0) /\ worker[v].pc = "idle"
    BY DEF Init, Idle
  <2> QED
    BY <2>1 DEF Blank, KeyInv, InStep, Behind, LateDeletion, Scheduled, Tracked
<1> QED
  BY <1>2, <1>3 DEF IInv

(* The invariant is inductive.                                               *)
LEMMA Inductive == IInv /\ [Next]_vars => IInv'
BY TypeInductive, KeyInductive DEF IInv

-----------------------------------------------------------------------------
(* Every reachable state is well typed; in particular the attempts that a    *)
(* status counts stay within their range, whatever fails.                    *)
THEOREM TypeCorrect == Spec => []TypeOK
<1>1. IInv => TypeOK
  BY DEF IInv
<1> QED
  BY <1>1, Initial, Inductive, PTL DEF Spec

(* No tracked virtual machine is ever forgotten, however the reconciliation  *)
(* of one incarnation, the re-creation of the resource, failing calls,       *)
(* crashes and a lagging cache interleave.                                   *)
THEOREM NeverForgotten == Spec => []AlwaysScheduled
<1>1. IInv => AlwaysScheduled
  BY DEF IInv, KeyInv, Scheduled, AlwaysScheduled
<1> QED
  BY <1>1, Initial, Inductive, PTL DEF Spec

-----------------------------------------------------------------------------
(* How often a virtual machine is reapplied.  The invariant relates burst to *)
(* the attempts that the status and the worker count; v is the resource.     *)

(* Another attempt is allowed.                                               *)
Spare(v) ==
    \/ burst[v] <= losses + 1
    \/ burst[v] <= losses + MaxReapplyAttempts - 1

(* The outcome of an attempt is still to be recorded.                        *)
Reapplied(w) ==
    \/ w.pc = "getReapplied"
    \/ w.pc = "updateStatus" /\ w.outcome = "reapplyFailed"

Held(v) == api[v].exists /\ api[v].finalizer

(* From AddFinalizers on CreateOrUpdate works on a resource that stays, and  *)
(* that the cache has: the status update finds what it is to count on.       *)
Kept(v) ==
    LET w == worker[v]
    IN  /\ cache[v].uid = api[v].uid /\ api[v].exists => cache[v].exists
        /\ w.pc = "addFinalizers" => w.obj.exists /\ w.obj.uid <= cache[v].uid
        /\ w.pc \notin {"idle", "addFinalizers"} => w.deletes \/ (Held(v) /\ cache[v].exists)
        /\ w.pc = "reapply" \/ Reapplied(w) => ~w.deletes

(* The cache knows the incarnation that carries the finalizer, and shows no  *)
(* deletion that was not requested.  What AddFinalizers has in hand, however *)
(* old, is what the worker counts on.                                        *)
Known(v) ==
    LET w == worker[v]
    IN  /\ Held(v) => cache[v].uid = api[v].uid
        /\ cache[v].uid = api[v].uid /\ api[v].exists /\ cache[v].deleting => api[v].deleting
        /\ w.pc = "addFinalizers" => w.failed = w.obj.failed /\ ~w.obj.deleting /\ ~w.deletes

(* Between two attempts the status counts those that were not lost, unless   *)
(* the resource is being deleted and there is no other attempt ...           *)
Pending(v) ==
    burst[v] > 0 /\ timer[v] = "retry" /\ worker[v].pc = "idle" =>
        /\ Held(v) /\ Spare(v)
        /\ burst[v] <= losses + api[v].failed["Reapply"] \/ api[v].deleting

(* ... and so does the worker before the next one, once AddFinalizers has    *)
(* found that it does not work on an old copy ...                            *)
Trying(v) ==
    LET w == worker[v]
    IN  burst[v] > 0 /\ w.pc # "idle" /\ ~Reapplied(w) =>
        /\ Held(v) /\ Spare(v) /\ timer[v] # "retry"
        /\ burst[v] <= losses + api[v].failed["Reapply"] \/ api[v].deleting
        /\ w.deletes => api[v].deleting
        /\ w.pc # "addFinalizers" /\ ~w.deletes =>
              /\ burst[v] <= losses + api[v].failed["Reapply"]
              /\ burst[v] <= losses + w.failed["Reapply"]

(* ... after which the status is one behind.  A retry that is still pending  *)
(* then is one that an event overtook.                                       *)
Tried(v) ==
    LET w == worker[v]
    IN  Reapplied(w) =>
            /\ timer[v] = "retry" => burst[v] <= 1
            /\ burst[v] <= losses + api[v].failed["Reapply"] + 1
            /\ w.pc = "getReapplied" => burst[v] <= losses + w.failed["Reapply"] + 1
            /\ w.pc = "updateStatus" /\ w.failed["Reapply"] < MaxReapplyAttempts
                  => burst[v] <= losses + w.failed["Reapply"]

(* RetriesBounded, for v.                                                    *)
Bounded(v) == burst[v] <= losses + 2 \/ burst[v] <= losses + MaxReapplyAttempts

RetryInv(v) == Kept(v) /\ Known(v) /\ Pending(v) /\ Trying(v) /\ Tried(v) /\ Bounded(v)

(* What is an integer here.                                                  *)
LEMMA Counters ==
    ASSUME TypeOK, NEW v \in VMs
    PROVE  /\ burst[v] \in Nat /\ losses \in Nat
           /\ MaxReapplyAttempts \in 1 .. AttemptsBound /\ AttemptsBound \in Nat
           /\ api[v].failed["Reapply"] \in 0 .. AttemptsBound
           /\ cache[v].failed["Reapply"] \in 0 .. AttemptsBound
           /\ worker[v].failed["Reapply"] \in 0 .. AttemptsBound
           /\ worker[v].obj.failed["Reapply"] \in 0 .. AttemptsBound
           /\ api[v].uid \in Nat /\ cache[v].uid \in Nat /\ worker[v].obj.uid \in Nat
<1>1. /\ api[v] \in Resource /\ cache[v] \in Resource /\ worker[v] \in Worker
      /\ worker[v].obj \in Resource /\ "Reapply" \in OpTypes
  BY DEF TypeOK, Worker, OpTypes
<1>2. /\ MaxReapplyAttempts \in 1 .. AttemptsBound /\ AttemptsBound \in Nat
      /\ MaxLosses \in Nat /\ MaxUid \in Nat
  BY VMConstants, AttemptsBoundAssumption
<1>3. burst[v] \in Nat /\ losses \in Nat
  BY <1>2 DEF TypeOK
<1>4. /\ api[v].failed \in [OpTypes -> 0 .. AttemptsBound]
      /\ cache[v].failed \in [OpTypes -> 0 .. AttemptsBound]
      /\ worker[v].failed \in [OpTypes -> 0 .. AttemptsBound]
      /\ worker[v].obj.failed \in [OpTypes -> 0 .. AttemptsBound]
  BY <1>1 DEF Resource, Worker, FailedOperationsOf
<1> QED
  BY <1>1, <1>2, <1>3, <1>4 DEF Resource

(* A step that leaves v alone keeps what is known of v; a loss elsewhere     *)
(* only loosens it.                                                          *)
LEMMA RetryFrame ==
    ASSUME TypeOK, NEW v \in VMs, RetryInv(v), losses' \in Nat, losses <= losses',
           api'[v] = api[v], cache'[v] = cache[v], worker'[v] = worker[v],
           timer'[v] = timer[v], burst'[v] = burst[v]
    PROVE  RetryInv(v)'
<1> USE Counters
<1>1. Kept(v)' /\ Known(v)'
  BY DEF RetryInv, Kept, Known, Held, Reapplied
<1>2. Pending(v)' /\ Trying(v)'
  BY DEF RetryInv, Pending, Trying, Held, Spare, Reapplied
<1>3. Tried(v)' /\ Bounded(v)'
  BY DEF RetryInv, Tried, Bounded, Reapplied
<1> QED
  BY <1>1, <1>2, <1>3 DEF RetryInv

(* A reconciliation that the failed attempts of no other one preceded.       *)
LEMMA Afresh ==
    ASSUME NEW v \in VMs, burst'[v] = 0, losses' \in Nat, Kept(v)', Known(v)',
           ~Reapplied(worker'[v])
    PROVE  RetryInv(v)'
BY DEF RetryInv, Pending, Trying, Tried, Bounded

(* A step of another resource leaves v alone, but for what it may lose.      *)
LEMMA Elsewhere ==
    ASSUME TypeOK, NEW v \in VMs, NEW u \in VMs \ {v},
           \/ WorkerStep(u) \/ CreateResource(u) \/ DeleteResource(u) \/ ChangeHealth(u)
           \/ SyncCache(u) \/ AzureStep(u)
    PROVE  /\ api'[v] = api[v] /\ cache'[v] = cache[v] /\ worker'[v] = worker[v]
           /\ timer'[v] = timer[v] /\ burst'[v] = burst[v]
           /\ losses' \in Nat /\ losses <= losses'
<1>0. losses \in Nat
  BY Counters
<1>1. losses' = losses + 1 \/ losses' = losses
  BY DEF WorkerStep, Reconcile, AddFinalizers, RemoveFinalizers, Get, Reapply, GetReapplied,
         UpdateStatus, Requeue, Return, Lose, CreateResource, DeleteResource, ChangeHealth,
         SyncCache, AzureStep
<1>2. CASE WorkerStep(u)
  BY <1>0, <1>1, <1>2
     DEF TypeOK, WorkerStep, Reconcile, AddFinalizers, RemoveFinalizers, Get, Reapply,
         GetReapplied, UpdateStatus, Requeue, Return, Delayed
<1>3. CASE \/ CreateResource(u) \/ DeleteResource(u) \/ ChangeHealth(u)
           \/ SyncCache(u) \/ AzureStep(u)
  BY <1>0, <1>1, <1>3
     DEF TypeOK, CreateResource, DeleteResource, ChangeHealth, SyncCache, AzureStep
<1> QED
  BY <1>2, <1>3

(* A status update fails, for want of the object if the call did not fail;   *)
(* or it succeeds and counts what the worker has counted, if it must.        *)
Refused(v) ==
    /\ Requeue(v, "retry") /\ UNCHANGED api
    /\ \/ losses' = losses + 1
       \/ losses' = losses /\ (~api[v].exists \/ ~cache[v].exists)

Recorded(v, a) ==
    /\ worker'[v] = a.worker /\ losses' = losses
    /\ timer' = IF a.requeue = "none" THEN timer ELSE Delayed(v, a.requeue)
    /\ SameSpec(api'[v], api[v]) /\ api'[v].finalizer = api[v].finalizer
    /\ \/ api'[v].failed = worker[v].failed
       \/ api'[v].failed = api[v].failed /\ worker[v].outcome # "reapplyFailed"

LEMMA StatusUpdate ==
    ASSUME TypeOK, NEW v \in VMs, UpdateStatus(v)
    PROVE  \/ Refused(v)
           \/ \E o \in Resource : Recorded(v, After(v, worker[v], o))
<1> DEFINE w       == worker[v]
           state   == IF w.outcome = "getFailed" THEN "Absent" ELSE w.last
           moved   == state # cache[v].state
           recount == \/ w.failed # cache[v].failed
                      \/ w.outcome \in {"getFailed", "reapplyFailed"}
           merged  == [api[v] EXCEPT !.state  = IF moved THEN state ELSE @,
                                     !.failed = IF recount THEN w.failed ELSE @]
           follow(a) == /\ worker' = [worker EXCEPT ![v] = a.worker]
                        /\ timer' = IF a.requeue = "none" THEN timer ELSE Delayed(v, a.requeue)
<1>0. /\ w \in Worker /\ cache[v] \in Resource /\ api[v] \in Resource
      /\ worker \in [VMs -> Worker] /\ api \in [VMs -> Resource]
  BY DEF TypeOK
<1>1. \/ Refused(v)
      \/ ~recount /\ follow(After(v, w, cache[v])) /\ UNCHANGED <<api, losses>>
      \/ follow(After(v, w, merged)) /\ api' = [api EXCEPT ![v] = merged] /\ UNCHANGED losses
  BY DEF UpdateStatus, Refused, Lose
<1>2. /\ merged \in Resource /\ SameSpec(merged, api[v]) /\ SameSpec(api[v], api[v])
      /\ merged.finalizer = api[v].finalizer
      /\ merged.failed = IF recount THEN w.failed ELSE api[v].failed
  BY <1>0 DEF Worker, Resource, States, SameSpec
<1>3. CASE ~recount /\ follow(After(v, w, cache[v])) /\ UNCHANGED <<api, losses>>
  BY <1>0, <1>2, <1>3 DEF Recorded
<1>4. CASE follow(After(v, w, merged)) /\ api' = [api EXCEPT ![v] = merged] /\ UNCHANGED losses
  <2>1. api'[v] = merged /\ worker'[v] = After(v, w, merged).worker
    BY <1>0, <1>4
  <2>2. Recorded(v, After(v, w, merged))
    BY <1>2, <1>4, <2>1 DEF Recorded
  <2> QED
    BY <1>2, <2>2
<1> QED
  BY <1>1, <1>3, <1>4

(* Every step keeps Kept: only RemoveFinalizers takes the finalizer off, and *)
(* an object that AddFinalizers did not find changed is one the cache has.   *)
LEMMA KeptInductive ==
    ASSUME IInv, [Next]_vars, NEW v \in VMs, Kept(v)
    PROVE  Kept(v)'
<1>0. /\ TypeOK /\ InStep(v) /\ Behind(v)
      /\ api[v] \in Resource /\ cache[v] \in Resource /\ worker[v] \in Worker
      /\ api[v].uid \in Nat /\ cache[v].uid \in Nat /\ worker[v].obj.uid \in Nat
  BY Counters DEF IInv, KeyInv, TypeOK
(* The worker goes on, to no attempt that it must not make, or stops.        *)
<1>a. ASSUME NEW w, worker'[v] = w, UNCHANGED cache,
             api'[v].uid = api[v].uid, api'[v].exists => api[v].exists,
             \/ w.pc = "idle"
             \/ /\ w.pc \notin {"idle", "addFinalizers"} /\ worker[v].pc # "idle"
                /\ w.deletes \/ (Held(v)' /\ cache[v].exists)
                /\ w.pc = "reapply" \/ Reapplied(w) => ~w.deletes
      PROVE  Kept(v)'
  BY <1>0, <1>a DEF Kept, Reapplied
<1>1. ASSUME NEW u \in VMs \ {v},
             \/ WorkerStep(u) \/ CreateResource(u) \/ DeleteResource(u) \/ ChangeHealth(u)
             \/ SyncCache(u) \/ AzureStep(u)
      PROVE  Kept(v)'
  BY <1>0, <1>1, Elsewhere DEF Kept, Held, Reapplied
<1>2. CASE Reconcile(v)
  <2>1. worker'[v] = Dispatch(cache[v]) /\ UNCHANGED <<api, cache>>
    BY <1>0, <1>2 DEF Reconcile, TypeOK
  <2>2. \/ Dispatch(cache[v]).pc = "idle"
        \/ Dispatch(cache[v]).pc = "get" /\ Dispatch(cache[v]).deletes
        \/ /\ Dispatch(cache[v]).pc = "addFinalizers"
           /\ Dispatch(cache[v]).obj = cache[v] /\ cache[v].exists
    BY <1>0 DEF Dispatch, Idle, Resource
  <2> QED
    BY <1>0, <2>1, <2>2 DEF Kept, Reapplied
<1>3. CASE AddFinalizers(v)
  <2> DEFINE o == [worker[v].obj EXCEPT !.finalizer = TRUE]
             w == [worker[v] EXCEPT !.obj = o, !.pc = "get"]
  <2>0. worker[v].pc = "addFinalizers" /\ UNCHANGED cache /\ worker[v].obj \in Resource
    BY <1>0, <1>3 DEF AddFinalizers, Worker
  <2>1. CASE worker'[v] = Idle /\ UNCHANGED api
    BY <1>a, <2>0, <2>1 DEF Idle
  <2>2. CASE api[v] = worker[v].obj /\ api'[v] = o /\ worker'[v] = w
    <3>1. /\ o.exists = api[v].exists /\ o.uid = api[v].uid /\ o.finalizer
          /\ w.pc = "get"
      BY <1>0, <2>0, <2>2 DEF Resource, Worker
    <3>2. api[v].exists /\ cache[v].uid = api[v].uid
      BY <1>0, <2>0, <2>2 DEF Kept, Behind
    <3>3. cache[v].exists /\ Held(v)'
      BY <2>2, <3>1, <3>2 DEF Kept, Held
    <3> QED
      BY <1>a, <2>0, <2>2, <3>1, <3>2, <3>3 DEF Reapplied
  <2> QED
    BY <1>0, <1>3, <2>1, <2>2 DEF AddFinalizers, Requeue, Return, TypeOK
<1>4. CASE RemoveFinalizers(v)
  <2>1. worker'[v].pc = "idle" /\ UNCHANGED cache
    BY <1>0, <1>4 DEF RemoveFinalizers, Requeue, Return, TypeOK, Idle
  <2>2. api'[v].uid = api[v].uid /\ (api'[v].exists => api[v].exists)
    BY <1>0, <1>4 DEF RemoveFinalizers, TypeOK, Blank, Resource
  <2> QED
    BY <1>a, <2>1, <2>2
<1>5. CASE Get(v) \/ Reapply(v) \/ GetReapplied(v)
  <2> DEFINE w == worker'[v]
  <2>1. /\ UNCHANGED <<api, cache>> /\ worker[v].pc \in {"get", "reapply", "getReapplied"}
        /\ w.deletes = worker[v].deletes /\ w.pc \in {"updateStatus", "getReapplied"}
        /\ Reapplied(w) => worker[v].pc \in {"reapply", "getReapplied"}
    <3> DEFINE u == worker[v]
               got == [u EXCEPT !.pc = "updateStatus", !.outcome = "getOk",
                                !.seen = azure[v], !.last = azure[v],
                                !.failed = DeleteFailedOperation(@, "Get")]
               reapplied == [u EXCEPT !.pc = "updateStatus", !.outcome = "reapplyOk",
                                      !.last = azure[v],
                                      !.failed = DeleteFailedOperation(@, "Reapply")]
               reapplying == [u EXCEPT !.pc = "getReapplied"]
    <3>1. /\ UNCHANGED <<api, cache>> /\ u.pc \in {"get", "reapply", "getReapplied"}
          /\ \/ w \in {GetFailed(u), got, reapplied}
             \/ w \in {ReapplyFailed(u), reapplying} /\ u.pc \in {"reapply", "getReapplied"}
      BY <1>0, <1>5 DEF Get, Reapply, GetReapplied, TypeOK
    <3>2. /\ \A x \in {GetFailed(u), got, reapplied} :
                /\ x.deletes = u.deletes /\ x.pc = "updateStatus"
                /\ x.outcome \in {"getFailed", "getOk", "reapplyOk"}
          /\ \A x \in {ReapplyFailed(u), reapplying} :
                x.deletes = u.deletes /\ x.pc \in {"updateStatus", "getReapplied"}
      BY <1>0 DEF Worker, GetFailed, ReapplyFailed
    <3> HIDE DEF got, reapplied, reapplying
    <3> QED
      BY <3>1, <3>2 DEF Reapplied
  <2> QED
    BY <1>a, <2>1 DEF Kept, Held, Reapplied
<1>6. CASE UpdateStatus(v)
  <2>0. worker[v].pc = "updateStatus" /\ UNCHANGED cache
    BY <1>6 DEF UpdateStatus
  <2>1. CASE Refused(v)
    <3>1. worker'[v].pc = "idle" /\ UNCHANGED api
      BY <1>0, <2>1 DEF Refused, Requeue, Idle, TypeOK
    <3> QED
      BY <1>a, <2>0, <3>1
  <2>2. ASSUME NEW o \in Resource, Recorded(v, After(v, worker[v], o)) PROVE Kept(v)'
    <3> DEFINE a == After(v, worker[v], o)
    <3>1. Follows(worker[v], o, a)
      BY <1>0, <2>0, AfterFollows DEF InStep, TypeOK
    <3>2. /\ worker'[v] = a.worker /\ api'[v].uid = api[v].uid
          /\ api'[v].exists = api[v].exists /\ api'[v].finalizer = api[v].finalizer
      BY <2>2 DEF Recorded, SameSpec
    <3> HIDE DEF a
    <3>3. \/ a.worker.pc = "idle"
          \/ a.worker.pc = "removeFinalizers" /\ a.worker.deletes
          \/ a.worker.pc = "reapply" /\ ~a.worker.deletes /\ ~worker[v].deletes
      <4> DEFINE on(pc) == [worker[v] EXCEPT !.obj = o, !.pc = pc]
      <4>1. \A pc \in {"removeFinalizers", "reapply"} :
               on(pc).pc = pc /\ on(pc).deletes = worker[v].deletes
        BY <1>0 DEF Worker
      <4>2. \/ a.worker = Idle
            \/ a.worker = on("removeFinalizers") /\ worker[v].deletes
            \/ a.worker = on("reapply") /\ ~worker[v].deletes
        BY <3>1 DEF Follows
      <4> HIDE DEF on
      <4> QED
        BY <4>1, <4>2 DEF Idle
    <3> QED
      BY <1>a, <2>0, <3>2, <3>3 DEF Kept, Held, Reapplied
  <2> QED
    BY <1>0, <1>6, <2>1, <2>2, StatusUpdate
<1>7. CASE CreateResource(v)
  <2>1. /\ api'[v].uid = api[v].uid + 1 /\ ~api[v].exists /\ UNCHANGED <<cache, worker>>
    BY <1>0, <1>7 DEF CreateResource, TypeOK, Blank
  <2>2. cache'[v].uid # api'[v].uid
    BY <1>0, <2>1 DEF Behind
  <2> QED
    BY <2>1, <2>2 DEF Kept, Held, Reapplied
<1>8. CASE DeleteResource(v) \/ ChangeHealth(v)
  <2> DEFINE deleted == [api[v] EXCEPT !.deleting = TRUE]
             changed == [api[v] EXCEPT !.notReadyOrUnreachable = ~@, !.generation = @ + 1]
  <2>1. /\ api'[v].uid = api[v].uid /\ (api'[v].exists => api[v].exists)
        /\ Held(v) => Held(v)'
        /\ UNCHANGED <<cache, worker>>
    <3>1. /\ UNCHANGED <<cache, worker>>
          /\ \/ api'[v] \in {deleted, changed}
             \/ ~api[v].finalizer /\ api'[v] = Blank(api[v].uid)
      BY <1>0, <1>8 DEF DeleteResource, ChangeHealth, TypeOK, Resource
    <3>2. \A o \in {deleted, changed} : /\ o.uid = api[v].uid /\ o.exists = api[v].exists
                                        /\ o.finalizer = api[v].finalizer
      BY <1>0 DEF Resource
    <3> HIDE DEF deleted, changed
    <3> QED
      BY <3>1, <3>2 DEF Held, Blank
  <2> QED
    BY <2>1 DEF Kept, Reapplied
<1>9. CASE SyncCache(v)
  <2>1. cache'[v] = api[v] /\ UNCHANGED <<api, worker>>
    BY <1>0, <1>9 DEF SyncCache, TypeOK
  <2> QED
    BY <1>0, <2>1 DEF Kept, Behind, Held, Reapplied
<1>10. CASE AzureStep(v) \/ UNCHANGED vars
  BY <1>10 DEF AzureStep, vars, Kept, Held, Reapplied
<1>11. CASE Restart
  <2>1. worker'[v].pc = "idle" /\ cache'[v] = api'[v]
    BY <1>11 DEF Restart, Idle
  <2> QED
    BY <2>1 DEF Kept, Reapplied
<1> QED
  BY <1>1, <1>2, <1>3, <1>4, <1>5, <1>6, <1>7, <1>8, <1>9, <1>10, <1>11 DEF Next, WorkerStep

(* Every step keeps Known.                                                   *)
LEMMA KnownInductive ==
    ASSUME IInv, [Next]_vars, NEW v \in VMs, Kept(v), Known(v)
    PROVE  Known(v)'
<1>0. /\ TypeOK /\ InStep(v) /\ Behind(v)
      /\ api[v] \in Resource /\ cache[v] \in Resource /\ worker[v] \in Worker
      /\ api[v].uid \in Nat /\ cache[v].uid \in Nat /\ worker[v].obj.uid \in Nat
  BY Counters DEF IInv, KeyInv, TypeOK
(* The worker goes on, while the resource stays what it is.                  *)
<1>a. ASSUME worker'[v].pc # "addFinalizers", UNCHANGED cache, api'[v].uid = api[v].uid,
             api'[v].exists => api[v].exists /\ api'[v].deleting = api[v].deleting,
             Held(v)' => Held(v)
      PROVE  Known(v)'
  BY <1>a DEF Known
<1>1. ASSUME NEW u \in VMs \ {v},
             \/ WorkerStep(u) \/ CreateResource(u) \/ DeleteResource(u) \/ ChangeHealth(u)
             \/ SyncCache(u) \/ AzureStep(u)
      PROVE  Known(v)'
  BY <1>0, <1>1, Elsewhere DEF Known, Held
<1>2. CASE Reconcile(v)
  <2>1. worker'[v] = Dispatch(cache[v]) /\ UNCHANGED <<api, cache>>
    BY <1>0, <1>2 DEF Reconcile, TypeOK
  <2>2. \/ Dispatch(cache[v]).pc # "addFinalizers"
        \/ /\ Dispatch(cache[v]).obj = cache[v] /\ ~cache[v].deleting
           /\ Dispatch(cache[v]).failed = cache[v].failed /\ ~Dispatch(cache[v]).deletes
    BY <1>0 DEF Dispatch, Idle, Resource
  <2> QED
    BY <2>1, <2>2 DEF Known, Held
<1>3. CASE AddFinalizers(v)
  <2> DEFINE o == [worker[v].obj EXCEPT !.finalizer = TRUE]
             w == [worker[v] EXCEPT !.obj = o, !.pc = "get"]
  <2>0. worker[v].pc = "addFinalizers" /\ UNCHANGED cache /\ worker[v].obj \in Resource
    BY <1>0, <1>3 DEF AddFinalizers, Worker
  <2>1. CASE worker'[v] = Idle /\ UNCHANGED api
    BY <1>a, <2>0, <2>1 DEF Idle, Held
  <2>2. CASE api[v] = worker[v].obj /\ api'[v] = o /\ worker'[v] = w
    <3>1. /\ o.exists = api[v].exists /\ o.uid = api[v].uid /\ o.deleting = api[v].deleting
          /\ w.pc = "get"
      BY <1>0, <2>0, <2>2 DEF Resource, Worker
    <3>2. cache[v].uid = api[v].uid
      BY <1>0, <2>0, <2>2 DEF Kept, Behind
    <3> HIDE DEF o, w
    <3> QED
      BY <2>0, <2>2, <3>1, <3>2 DEF Known
  <2> QED
    BY <1>0, <1>3, <2>1, <2>2 DEF AddFinalizers, Requeue, Return, TypeOK
<1>4. CASE RemoveFinalizers(v)
  <2>1. worker'[v].pc = "idle" /\ UNCHANGED cache
    BY <1>0, <1>4 DEF RemoveFinalizers, Requeue, Return, TypeOK, Idle
  <2> DEFINE stripped == [api[v] EXCEPT !.finalizer = FALSE]
  <2>2. api'[v] \in {api[v], stripped, Blank(api[v].uid)}
    BY <1>0, <1>4 DEF RemoveFinalizers, TypeOK
  <2>3. /\ stripped.uid = api[v].uid /\ stripped.exists = api[v].exists
        /\ stripped.deleting = api[v].deleting /\ ~stripped.finalizer
        /\ Blank(api[v].uid).uid = api[v].uid /\ ~Blank(api[v].uid).exists
    BY <1>0 DEF Resource, Blank
  <2> HIDE DEF stripped
  <2> QED
    BY <1>a, <2>1, <2>2, <2>3 DEF Held
<1>5. CASE Get(v) \/ Reapply(v) \/ GetReapplied(v)
  <2> DEFINE u == worker[v]
             got == [u EXCEPT !.pc = "updateStatus", !.outcome = "getOk",
                              !.seen = azure[v], !.last = azure[v],
                              !.failed = DeleteFailedOperation(@, "Get")]
             reapplied == [u EXCEPT !.pc = "updateStatus", !.outcome = "reapplyOk",
                                    !.last = azure[v],
                                    !.failed = DeleteFailedOperation(@, "Reapply")]
             reapplying == [u EXCEPT !.pc = "getReapplied"]
  <2>1. /\ UNCHANGED <<api, cache>>
        /\ worker'[v] \in {GetFailed(u), got, reapplied, ReapplyFailed(u), reapplying}
    BY <1>0, <1>5 DEF Get, Reapply, GetReapplied, TypeOK
  <2>2. \A x \in {GetFailed(u), got, reapplied, ReapplyFailed(u), reapplying} :
           x.pc \in {"updateStatus", "getReapplied"}
    BY <1>0 DEF Worker, GetFailed, ReapplyFailed
  <2> HIDE DEF got, reapplied, reapplying
  <2> QED
    BY <1>a, <2>1, <2>2 DEF Held
<1>6. CASE UpdateStatus(v)
  <2>0. worker[v].pc = "updateStatus" /\ UNCHANGED cache
    BY <1>6 DEF UpdateStatus
  <2>1. CASE Refused(v)
    <3>1. worker'[v].pc = "idle" /\ UNCHANGED api
      BY <1>0, <2>1 DEF Refused, Requeue, Idle, TypeOK
    <3> QED
      BY <1>a, <2>0, <3>1 DEF Held
  <2>2. ASSUME NEW o \in Resource, Recorded(v, After(v, worker[v], o)) PROVE Known(v)'
    <3> DEFINE a == After(v, worker[v], o)
    <3>1. Follows(worker[v], o, a)
      BY <1>0, <2>0, AfterFollows DEF InStep, TypeOK
    <3>2. /\ worker'[v] = a.worker /\ api'[v].uid = api[v].uid
          /\ api'[v].exists = api[v].exists /\ api'[v].finalizer = api[v].finalizer
          /\ api'[v].deleting = api[v].deleting
      BY <2>2 DEF Recorded, SameSpec
    <3> HIDE DEF a
    <3>3. a.worker.pc # "addFinalizers"
      <4> DEFINE on(pc) == [worker[v] EXCEPT !.obj = o, !.pc = pc]
      <4>1. on("removeFinalizers").pc = "removeFinalizers" /\ on("reapply").pc = "reapply"
        BY <1>0 DEF Worker
      <4>2. a.worker \in {Idle, on("removeFinalizers"), on("reapply")}
        BY <3>1 DEF Follows
      <4> HIDE DEF on
      <4> QED
        BY <4>1, <4>2 DEF Idle
    <3> QED
      BY <1>a, <2>0, <3>2, <3>3 DEF Held
  <2> QED
    BY <1>0, <1>6, <2>1, <2>2, StatusUpdate
<1>7. CASE CreateResource(v)
  <2> DEFINE o == [Blank(api[v].uid + 1) EXCEPT !.exists = TRUE]
  <2>1. /\ api'[v] = o /\ UNCHANGED <<cache, worker>>
        /\ o.uid = api[v].uid + 1 /\ ~o.finalizer
    BY <1>0, <1>7 DEF CreateResource, TypeOK, Blank
  <2>2. cache[v].uid # api[v].uid + 1
    BY <1>0 DEF Behind
  <2> HIDE DEF o
  <2> QED
    BY <2>1, <2>2 DEF Known, Held
<1>8. CASE DeleteResource(v) \/ ChangeHealth(v)
  <2> DEFINE deleted == [api[v] EXCEPT !.deleting = TRUE]
             changed == [api[v] EXCEPT !.notReadyOrUnreachable = ~@, !.generation = @ + 1]
  <2>1. /\ UNCHANGED <<cache, worker>>
        /\ api'[v] \in {deleted, changed, Blank(api[v].uid)}
    BY <1>0, <1>8 DEF DeleteResource, ChangeHealth, TypeOK
  <2>2. /\ \A o \in {deleted, changed} : /\ o.uid = api[v].uid /\ o.exists = api[v].exists
                                          /\ o.finalizer = api[v].finalizer
        /\ deleted.deleting /\ changed.deleting = api[v].deleting
        /\ Blank(api[v].uid).uid = api[v].uid /\ ~Blank(api[v].uid).exists
    BY <1>0 DEF Resource, Blank
  <2> HIDE DEF deleted, changed
  <2> QED
    BY <2>1, <2>2 DEF Known, Held
<1>9. CASE SyncCache(v)
  <2>1. cache'[v] = api[v] /\ UNCHANGED <<api, worker>>
    BY <1>0, <1>9 DEF SyncCache, TypeOK
  <2> QED
    BY <2>1 DEF Known, Held
<1>10. CASE AzureStep(v) \/ UNCHANGED vars
  BY <1>10 DEF AzureStep, vars, Known, Held
<1>11. CASE Restart
  <2>1. worker'[v].pc = "idle" /\ cache'[v] = api'[v]
    BY <1>11 DEF Restart, Idle
  <2> QED
    BY <2>1 DEF Known
<1> QED
  BY <1>1, <1>2, <1>3, <1>4, <1>5, <1>6, <1>7, <1>8, <1>9, <1>10, <1>11 DEF Next, WorkerStep

(* What follows a failed attempt, once it is recorded: a retry only if the   *)
(* maximum is not reached.                                                   *)
LEMMA AfterReapplied ==
    ASSUME NEW v, NEW w \in Worker, NEW o, w.outcome = "reapplyFailed"
    PROVE  LET a == After(v, w, o)
           IN  /\ a.worker = Idle
               /\ \/ a.requeue = "retry" /\ w.failed["Reapply"] < MaxReapplyAttempts
                  \/ a.requeue = "sync" /\ w.failed["Reapply"] >= MaxReapplyAttempts
<1> DEFINE step(u, kind, g) == [worker |-> u, requeue |-> kind, gauge |-> g]
<1>1. w.failed["Reapply"] \in Int /\ MaxReapplyAttempts \in Int
  BY VMConstants, AttemptsBoundAssumption DEF Worker, FailedOperationsOf, OpTypes
<1>2. CASE w.failed["Reapply"] < MaxReapplyAttempts
  <2>1. ~(w.failed["Reapply"] >= MaxReapplyAttempts)
    BY <1>1, <1>2
  <2>2. After(v, w, o) = step(Idle, "retry", gauge[v])
    BY <1>2, <2>1 DEF After
  <2> QED
    BY <1>2, <2>2
<1>3. CASE w.failed["Reapply"] >= MaxReapplyAttempts
  <2>1. ~(w.failed["Reapply"] < MaxReapplyAttempts)
    BY <1>1, <1>3
  <2>2. After(v, w, o) = step(Idle, "sync", "failed")
    BY <1>3, <2>1 DEF After
  <2> QED
    BY <1>3, <2>2
<1> QED
  BY <1>1, <1>2, <1>3

(* A reconciliation that has not tried ends: what it knew of the attempts is *)
(* what the status knows.                                                    *)
LEMMA EndsUntried ==
    ASSUME TypeOK, NEW v \in VMs, RetryInv(v), Kept(v)', Known(v)', worker[v].pc # "idle",
           ~Reapplied(worker[v]), worker'[v] = Idle, burst' = burst,
           losses' \in Nat, losses <= losses',
           timer' = timer \/ (\E kind \in {"retry", "sync"} : timer' = Delayed(v, kind)),
           timer'[v] = "retry" /\ burst[v] > 0 =>
              /\ Held(v)' /\ api'[v].deleting = api[v].deleting
              /\ \/ api'[v].failed = api[v].failed
                 \/ api'[v].failed = worker[v].failed /\ worker[v].pc # "addFinalizers"
    PROVE  RetryInv(v)'
<1> USE Counters
<1>1. worker'[v].pc = "idle" /\ ~Reapplied(worker'[v])
  BY DEF Idle, Reapplied
<1>2. Bounded(v)'
  BY DEF RetryInv, Bounded
<1>3. Pending(v)'
  BY DEF RetryInv, Pending, Trying, Spare
<1> QED
  BY <1>1, <1>2, <1>3 DEF RetryInv, Trying, Tried

(* It goes on, with the same count.                                          *)
LEMMA GoesOnUntried ==
    ASSUME TypeOK, NEW v \in VMs, RetryInv(v), Kept(v)', Known(v)', worker[v].pc # "idle",
           ~Reapplied(worker[v]), worker'[v].pc # "idle", ~Reapplied(worker'[v]),
           worker'[v].failed["Reapply"] = worker[v].failed["Reapply"],
           worker'[v].deletes = worker[v].deletes, worker'[v].pc # "addFinalizers",
           UNCHANGED <<burst, timer, losses>>,
           Held(v) => Held(v)', api'[v].deleting = api[v].deleting,
           \/ api'[v].failed = api[v].failed
           \/ api'[v].failed = worker[v].failed /\ worker[v].pc # "addFinalizers",
           worker[v].pc = "addFinalizers" =>
              /\ ~api[v].deleting /\ worker[v].failed["Reapply"] = api[v].failed["Reapply"]
    PROVE  RetryInv(v)'
<1> USE Counters
<1>1. Bounded(v)'
  BY DEF RetryInv, Bounded
<1>2. Trying(v)'
  BY DEF RetryInv, Trying, Spare
<1> QED
  BY <1>1, <1>2 DEF RetryInv, Pending, Tried

(* An attempt that fails is counted, up to the bound of the model.           *)
LEMMA AttemptCounted ==
    ASSUME NEW w \in Worker
    PROVE  /\ ReapplyFailed(w).pc = "updateStatus"
           /\ ReapplyFailed(w).outcome = "reapplyFailed"
           /\ ReapplyFailed(w).failed["Reapply"] =
                 IF w.failed["Reapply"] < AttemptsBound
                 THEN w.failed["Reapply"] + 1 ELSE w.failed["Reapply"]
BY DEF ReapplyFailed, AddOrUpdateFailedOperation, Worker, FailedOperationsOf, OpTypes

(* Every step keeps the bound: one step of the proof per action.             *)
LEMMA RetryInductive ==
    ASSUME IInv, [Next]_vars, NEW v \in VMs, RetryInv(v)
    PROVE  RetryInv(v)'
<1>0. /\ TypeOK /\ InStep(v) /\ Kept(v)' /\ Known(v)' /\ TypeOK'
      /\ api[v] \in Resource /\ cache[v] \in Resource /\ worker[v] \in Worker
  BY KeptInductive, KnownInductive, TypeInductive DEF IInv, KeyInv, TypeOK, RetryInv
<1>n. /\ burst[v] \in Nat /\ losses \in Nat /\ losses' \in Nat
      /\ MaxReapplyAttempts \in 1 .. AttemptsBound /\ AttemptsBound \in Nat
      /\ api[v].failed["Reapply"] \in 0 .. AttemptsBound
      /\ worker[v].failed["Reapply"] \in 0 .. AttemptsBound
  BY <1>0, Counters DEF TypeOK
<1>1. ASSUME NEW u \in VMs \ {v},
             \/ WorkerStep(u) \/ CreateResource(u) \/ DeleteResource(u) \/ ChangeHealth(u)
             \/ SyncCache(u) \/ AzureStep(u)
      PROVE  RetryInv(v)'
  BY <1>0, <1>1, Elsewhere, RetryFrame
<1>2. CASE Reconcile(v)
  <2>1. /\ worker'[v] = Dispatch(cache[v]) /\ UNCHANGED <<api, cache, losses>>
        /\ worker[v].pc = "idle"
    BY <1>0, <1>2 DEF Reconcile, TypeOK
  <2>2. /\ ~Reapplied(Dispatch(cache[v]))
        /\ Dispatch(cache[v]).pc # "idle" => Dispatch(cache[v]).failed = cache[v].failed
    BY <1>0 DEF Dispatch, Idle, Resource, Reapplied
  <2>3. \/ burst'[v] = 0
        \/ /\ timer[v] = "retry" /\ timer'[v] # "retry"
           /\ burst'[v] = burst[v]
    BY <1>0, <1>2 DEF Reconcile, TypeOK
  <2>4. CASE burst'[v] = 0
    BY <1>0, <1>n, <2>1, <2>2, <2>4, Afresh
  <2>5. CASE timer[v] = "retry" /\ timer'[v] # "retry" /\ burst'[v] = burst[v]
    <3>0. \/ Dispatch(cache[v]).pc = "idle"
          \/ Dispatch(cache[v]).deletes /\ cache[v].deleting
          \/ Dispatch(cache[v]).pc = "addFinalizers" /\ ~Dispatch(cache[v]).deletes
      BY <1>0 DEF Dispatch, Idle, Resource
    <3>1. Trying(v)'
      BY <2>1, <2>2, <2>5, <3>0 DEF RetryInv, Known, Pending, Trying, Held, Spare
    <3>2. Pending(v)' /\ Tried(v)' /\ Bounded(v)'
      BY <2>1, <2>2, <2>5 DEF RetryInv, Pending, Tried, Bounded
    <3> QED
      BY <1>0, <3>1, <3>2 DEF RetryInv
  <2> QED
    BY <2>3, <2>4, <2>5
<1>3. CASE AddFinalizers(v)
  <2> DEFINE o == [worker[v].obj EXCEPT !.finalizer = TRUE]
             w == [worker[v] EXCEPT !.obj = o, !.pc = "get"]
  <2>0. /\ worker[v].pc = "addFinalizers" /\ ~Reapplied(worker[v])
        /\ UNCHANGED <<cache, burst>>
    BY <1>3 DEF AddFinalizers, Reapplied
  <2>1. CASE /\ worker' = [worker EXCEPT ![v] = Idle] /\ UNCHANGED api
             /\ timer' = timer \/ timer' = Delayed(v, "retry")
             /\ losses' = losses \/ losses' = losses + 1
    <3>1. worker'[v] = Idle
      BY <1>0, <2>1 DEF TypeOK
    <3>2. timer'[v] = "retry" /\ burst[v] > 0
             => Held(v)' /\ api'[v].failed = api[v].failed /\ api'[v].deleting = api[v].deleting
      BY <2>0, <2>1 DEF RetryInv, Trying, Held
    <3> QED
      BY <1>0, <1>n, <2>0, <2>1, <3>1, <3>2, EndsUntried
  <2>2. CASE /\ api[v] = worker[v].obj /\ api' = [api EXCEPT ![v] = o]
             /\ worker' = [worker EXCEPT ![v] = w] /\ UNCHANGED <<timer, losses>>
    <3>1. /\ w.pc = "get" /\ w.failed = worker[v].failed
          /\ w.deletes = worker[v].deletes /\ o.deleting = api[v].deleting
          /\ o.failed = api[v].failed /\ o.exists = api[v].exists /\ o.finalizer
      BY <1>0, <2>2 DEF Worker, Resource
    <3>2. api'[v] = o /\ worker'[v] = w
      BY <1>0, <2>2 DEF TypeOK
    <3>3. Held(v) => Held(v)'
      BY <3>1, <3>2 DEF Held
    <3>4. ~api[v].deleting /\ worker[v].failed["Reapply"] = api[v].failed["Reapply"]
      BY <2>0, <2>2 DEF RetryInv, Known
    <3> HIDE DEF o, w
    <3> QED
      BY <1>0, <2>0, <2>2, <3>1, <3>2, <3>3, <3>4, GoesOnUntried DEF Reapplied
  <2> QED
    BY <1>3, <2>1, <2>2 DEF AddFinalizers, Requeue, Return, Lose
<1>4. CASE RemoveFinalizers(v)
  <2>0. /\ worker[v].pc = "removeFinalizers" /\ ~Reapplied(worker[v])
        /\ UNCHANGED <<cache, burst>>
    BY <1>4 DEF RemoveFinalizers, Reapplied
  <2>1. /\ worker'[v] = Idle
        /\ timer' = timer \/ \E kind \in {"retry", "sync"} : timer' = Delayed(v, kind)
        /\ losses' = losses \/ losses' = losses + 1
    BY <1>0, <1>4 DEF RemoveFinalizers, Requeue, Return, Lose, TypeOK
  <2>2. \/ UNCHANGED api
        \/ timer' = timer \/ timer' = Delayed(v, "sync")
    BY <1>4 DEF RemoveFinalizers, Requeue, Return
  <2>3. timer'[v] = "retry" /\ burst[v] > 0
           => Held(v)' /\ api'[v].failed = api[v].failed /\ api'[v].deleting = api[v].deleting
    BY <1>0, <2>0, <2>2 DEF RetryInv, Trying, Held, Delayed, TypeOK
  <2> QED
    BY <1>0, <1>n, <2>0, <2>1, <2>3, EndsUntried
<1>5. CASE Get(v)
  <2>1. /\ worker[v].pc = "get" /\ ~Reapplied(worker[v])
        /\ UNCHANGED <<api, burst, timer, losses>>
    BY <1>5 DEF Get, Reapplied
  <2>2. /\ worker'[v].pc = "updateStatus" /\ worker'[v].outcome \in {"getOk", "getFailed"}
        /\ worker'[v].failed["Reapply"] = worker[v].failed["Reapply"]
        /\ worker'[v].deletes = worker[v].deletes
    <3> DEFINE u == worker[v]
               got == [u EXCEPT !.pc = "updateStatus", !.outcome = "getOk",
                                !.seen = azure[v], !.last = azure[v],
                                !.failed = DeleteFailedOperation(@, "Get")]
    <3>1. worker'[v] \in {GetFailed(u), got}
      BY <1>0, <1>5 DEF Get, TypeOK
    <3>2. u.failed \in [OpTypes -> 0 .. AttemptsBound] /\ "Reapply" \in OpTypes
      BY <1>0 DEF Worker, FailedOperationsOf, OpTypes
    <3>3. /\ AddOrUpdateFailedOperation(u.failed, "Get")["Reapply"] = u.failed["Reapply"]
          /\ DeleteFailedOperation(u.failed, "Get")["Reapply"] = u.failed["Reapply"]
      BY <3>2 DEF AddOrUpdateFailedOperation, DeleteFailedOperation
    <3>4. /\ GetFailed(u).deletes = u.deletes /\ got.deletes = u.deletes
          /\ GetFailed(u).pc = "updateStatus" /\ GetFailed(u).outcome = "getFailed"
          /\ GetFailed(u).failed = AddOrUpdateFailedOperation(u.failed, "Get")
          /\ got.pc = "updateStatus" /\ got.outcome = "getOk"
          /\ got.failed = DeleteFailedOperation(u.failed, "Get")
      BY <1>0 DEF GetFailed, Worker
    <3> HIDE DEF got
    <3> QED
      BY <3>1, <3>3, <3>4
  <2> QED
    BY <1>0, <2>1, <2>2, GoesOnUntried DEF Reapplied, Held
<1>6. CASE Reapply(v)
  <2>1. /\ worker[v].pc = "reapply" /\ ~Reapplied(worker[v]) /\ ~worker[v].deletes
        /\ UNCHANGED <<api, cache, timer, losses>>
    BY <1>6 DEF Reapply, Reapplied, RetryInv, Kept
  <2>2. burst'[v] = burst[v] + 1 \/ burst'[v] = burst[v]
    BY <1>0, <1>6 DEF Reapply, TypeOK
  <2>3. \/ worker'[v] = [worker[v] EXCEPT !.pc = "getReapplied"]
        \/ worker'[v] = ReapplyFailed(worker[v])
    BY <1>0, <1>6 DEF Reapply, TypeOK
  <2>4. \/ /\ worker'[v].pc = "getReapplied"
           /\ worker'[v].failed["Reapply"] = worker[v].failed["Reapply"]
        \/ /\ worker'[v].pc = "updateStatus" /\ worker'[v].outcome = "reapplyFailed"
           /\ worker'[v].failed["Reapply"] =
                 IF worker[v].failed["Reapply"] < AttemptsBound
                 THEN worker[v].failed["Reapply"] + 1 ELSE worker[v].failed["Reapply"]
    <3> DEFINE reapplied == [worker[v] EXCEPT !.pc = "getReapplied"]
    <3>1. reapplied.pc = "getReapplied" /\ reapplied.failed = worker[v].failed
      BY <1>0 DEF Worker
    <3>2. worker'[v] = reapplied \/ worker'[v] = ReapplyFailed(worker[v])
      BY <2>3
    <3> HIDE DEF reapplied
    <3> QED
      BY <1>0, <3>1, <3>2, AttemptCounted
  <2>5. burst[v] > 0 =>
           /\ Spare(v) /\ timer[v] # "retry"
           /\ burst[v] <= losses + api[v].failed["Reapply"]
           /\ burst[v] <= losses + worker[v].failed["Reapply"]
    BY <2>1 DEF RetryInv, Trying
  <2>6. Tried(v)'
    BY <1>n, <2>1, <2>2, <2>4, <2>5 DEF Tried
  <2>7. Bounded(v)'
    BY <1>n, <2>1, <2>2, <2>5 DEF Bounded, Spare
  <2>8. Pending(v)' /\ Trying(v)'
    BY <2>4 DEF Pending, Trying, Reapplied
  <2> QED
    BY <1>0, <2>6, <2>7, <2>8 DEF RetryInv
<1>7. CASE GetReapplied(v)
  <2> DEFINE reapplied == [worker[v] EXCEPT !.pc = "updateStatus", !.outcome = "reapplyOk",
                                            !.last = azure[v],
                                            !.failed = DeleteFailedOperation(@, "Reapply")]
  <2>1. worker[v].pc = "getReapplied" /\ UNCHANGED <<api, cache, timer, losses>>
    BY <1>7 DEF GetReapplied
  <2>2. \/ worker'[v] = reapplied /\ burst'[v] = 0
        \/ worker'[v] = ReapplyFailed(worker[v]) /\ burst'[v] = burst[v]
    BY <1>0, <1>7 DEF GetReapplied, TypeOK
  <2>3. CASE worker'[v] = reapplied /\ burst'[v] = 0
    <3>1. reapplied.pc = "updateStatus" /\ reapplied.outcome = "reapplyOk"
      BY <1>0 DEF Worker
    <3> QED
      BY <1>0, <1>n, <2>3, <3>1, Afresh DEF Reapplied
  <2>4. CASE worker'[v] = ReapplyFailed(worker[v]) /\ burst'[v] = burst[v]
    <3>1. /\ worker'[v].pc = "updateStatus" /\ worker'[v].outcome = "reapplyFailed"
          /\ worker'[v].failed["Reapply"] =
                IF worker[v].failed["Reapply"] < AttemptsBound
                THEN worker[v].failed["Reapply"] + 1 ELSE worker[v].failed["Reapply"]
      BY <1>0, <2>4, AttemptCounted
    <3>2. Tried(v)'
      BY <1>n, <2>1, <2>4, <3>1 DEF RetryInv, Tried, Reapplied
    <3> QED
      BY <1>0, <2>1, <2>4, <3>1, <3>2 DEF RetryInv, Pending, Trying, Bounded, Reapplied
  <2> QED
    BY <2>2, <2>3, <2>4
<1>8. CASE UpdateStatus(v)
  <2>0. /\ worker[v].pc = "updateStatus" /\ worker[v].outcome # "none"
        /\ UNCHANGED <<cache, burst>> /\ gauge[v] \in Gauges
    BY <1>0, <1>8 DEF UpdateStatus, InStep, TypeOK
  <2>1. CASE Refused(v)
    <3>1. /\ worker'[v] = Idle /\ timer'[v] = "retry" /\ UNCHANGED api
          /\ timer' = Delayed(v, "retry")
          /\ losses' = losses \/ losses' = losses + 1
      BY <1>0, <2>1 DEF Refused, Requeue, Delayed, TypeOK
    <3>2. CASE ~Reapplied(worker[v])
      <4>1. burst[v] > 0 => Held(v)' /\ api'[v].failed = api[v].failed
        BY <2>0, <3>1, <3>2 DEF RetryInv, Trying, Held
      <4> QED
        BY <1>0, <1>n, <2>0, <3>1, <3>2, <4>1, EndsUntried
    <3>3. CASE Reapplied(worker[v])
      <4>1. Held(v) /\ cache[v].exists
        BY <2>0, <3>3 DEF RetryInv, Kept
      <4>2. losses' = losses + 1
        BY <2>1, <4>1 DEF Refused, Held
      <4>3. Pending(v)' /\ Bounded(v)'
        BY <1>n, <2>0, <3>1, <3>3, <4>1, <4>2
           DEF RetryInv, Tried, Bounded, Pending, Spare, Held
      <4>4. Trying(v)' /\ Tried(v)'
        BY <3>1 DEF Trying, Tried, Reapplied, Idle
      <4> QED
        BY <1>0, <4>3, <4>4 DEF RetryInv
    <3> QED
      BY <3>2, <3>3
  <2>2. ASSUME NEW o \in Resource, Recorded(v, After(v, worker[v], o)) PROVE RetryInv(v)'
    <3> DEFINE a == After(v, worker[v], o)
    <3>1. Follows(worker[v], o, a)
      BY <1>0, <2>0, AfterFollows
    <3>2. /\ worker'[v] = a.worker /\ losses' = losses /\ Held(v)' = Held(v)
          /\ api'[v].deleting = api[v].deleting
          /\ timer' = IF a.requeue = "none" THEN timer ELSE Delayed(v, a.requeue)
          /\ \/ api'[v].failed = worker[v].failed
             \/ api'[v].failed = api[v].failed /\ worker[v].outcome # "reapplyFailed"
      BY <2>2 DEF Recorded, SameSpec, Held
    <3>3. worker[v].outcome = "reapplyFailed" =>
             /\ a.worker = Idle
             /\ \/ a.requeue = "retry" /\ worker[v].failed["Reapply"] < MaxReapplyAttempts
                \/ a.requeue = "sync" /\ worker[v].failed["Reapply"] >= MaxReapplyAttempts
      BY <1>0, AfterReapplied
    <3> HIDE DEF a
    <3>4. CASE worker[v].outcome = "reapplyFailed"
      <4>1. Reapplied(worker[v]) /\ worker'[v].pc = "idle"
        BY <2>0, <3>2, <3>3, <3>4 DEF Reapplied, Idle
      <4>2. Held(v)' /\ api'[v].failed = worker[v].failed
        BY <2>0, <3>2, <3>4, <4>1 DEF RetryInv, Kept
      <4>3. \/ worker[v].failed["Reapply"] < MaxReapplyAttempts
            \/ /\ worker[v].failed["Reapply"] >= MaxReapplyAttempts
               /\ timer'[v] = "retry" => timer[v] = "retry"
        BY <1>0, <3>2, <3>3, <3>4 DEF Delayed, TypeOK
      <4>4. Pending(v)' /\ Bounded(v)'
        BY <1>n, <2>0, <3>2, <4>1, <4>2, <4>3
           DEF RetryInv, Tried, Bounded, Pending, Spare
      <4>5. Trying(v)' /\ Tried(v)'
        BY <4>1 DEF Trying, Tried, Reapplied
      <4> QED
        BY <1>0, <4>4, <4>5 DEF RetryInv
    <3>5. CASE worker[v].outcome # "reapplyFailed"
      <4>0. ~Reapplied(worker[v])
        BY <2>0, <3>5 DEF Reapplied
      <4>1. CASE a.worker = Idle /\ a.requeue \in {"retry", "sync"}
        <5>1. timer'[v] = "retry" /\ burst[v] > 0 => Held(v)'
          BY <2>0, <3>2, <4>0 DEF RetryInv, Trying
        <5> QED
          BY <1>0, <1>n, <2>0, <3>2, <4>0, <4>1, <5>1, EndsUntried
      <4>2. CASE \E pc \in {"removeFinalizers", "reapply"} :
                    a.worker = [worker[v] EXCEPT !.obj = o, !.pc = pc] /\ a.requeue = "none"
        <5>1. /\ a.worker.pc \in {"removeFinalizers", "reapply"}
              /\ a.worker.failed = worker[v].failed /\ a.worker.deletes = worker[v].deletes
          BY <1>0, <4>2 DEF Worker
        <5> QED
          BY <1>0, <2>0, <3>2, <4>0, <4>2, <5>1, GoesOnUntried DEF Reapplied
      <4> QED
        BY <3>1, <4>1, <4>2 DEF Follows
    <3> QED
      BY <3>4, <3>5
  <2> QED
    BY <1>0, <1>8, <2>1, <2>2, StatusUpdate
<1>9. CASE CreateResource(v)
  <2>1. ~api[v].exists /\ UNCHANGED <<cache, worker, timer, burst, losses>>
    BY <1>9 DEF CreateResource
  <2>2. Pending(v)' /\ Trying(v)'
    BY <2>1 DEF RetryInv, Pending, Trying, Held, Reapplied
  <2>3. ~Reapplied(worker[v])
    BY <2>1 DEF RetryInv, Kept, Held, Reapplied
  <2> QED
    BY <1>0, <2>1, <2>2, <2>3 DEF RetryInv, Tried, Bounded, Reapplied
<1>10. CASE DeleteResource(v) \/ ChangeHealth(v)
  <2> DEFINE deleted == [api[v] EXCEPT !.deleting = TRUE]
             changed == [api[v] EXCEPT !.notReadyOrUnreachable = ~@, !.generation = @ + 1]
  <2>1. /\ UNCHANGED <<cache, worker, timer, burst, losses>>
        /\ api'[v] \in {deleted, changed} \/ (~api[v].finalizer /\ api'[v] = Blank(api[v].uid))
    BY <1>0, <1>10 DEF DeleteResource, ChangeHealth, TypeOK, Resource
  <2>2. \A o \in {deleted, changed} : /\ o.failed = api[v].failed /\ o.exists = api[v].exists
                                      /\ o.finalizer = api[v].finalizer
                                      /\ api[v].deleting => o.deleting
    BY <1>0 DEF Resource
  <2> HIDE DEF deleted, changed
  <2>3. CASE api'[v] \in {deleted, changed}
    <3>1. /\ Held(v)' = Held(v) /\ api'[v].failed = api[v].failed
          /\ api[v].deleting => api'[v].deleting
      BY <2>2, <2>3 DEF Held
    <3> QED
      BY <1>0, <2>1, <3>1 DEF RetryInv, Pending, Trying, Tried, Bounded, Spare, Reapplied
  <2>4. CASE ~api[v].finalizer
    <3>1. ~Held(v) /\ ~Reapplied(worker[v])
      BY <2>4 DEF RetryInv, Kept, Held, Reapplied
    <3> QED
      BY <1>0, <2>1, <3>1 DEF RetryInv, Pending, Trying, Tried, Bounded, Reapplied
  <2> QED
    BY <2>1, <2>3, <2>4
<1>11. CASE SyncCache(v) \/ AzureStep(v) \/ UNCHANGED vars
  <2>1. UNCHANGED <<api, worker, timer, burst, losses>>
    BY <1>11 DEF SyncCache, AzureStep, vars
  <2> QED
    BY <1>0, <2>1 DEF RetryInv, Pending, Trying, Tried, Bounded, Spare, Held, Reapplied
<1>12. CASE Restart
  <2>1. burst'[v] = 0 /\ ~Reapplied(worker'[v])
    BY <1>12 DEF Restart, Idle, Reapplied
  <2> QED
    BY <1>0, <1>n, <2>1, Afresh
<1> QED
  BY <1>1, <1>2, <1>3, <1>4, <1>5, <1>6, <1>7, <1>8, <1>9, <1>10, <1>11, <1>12
     DEF Next, WorkerStep

(* Whatever fails, however the operations that fail alternate, whichever     *)
(* counts are lost and however far the cache lags behind: a virtual machine  *)
(* is reapplied as often as configured, before the controller gives up.      *)
THEOREM RetriesEnd == Spec => []RetriesBounded
<1> DEFINE Inv == IInv /\ \A v \in VMs : RetryInv(v)
<1>1. Init => Inv
  <2> SUFFICES ASSUME Init, NEW v \in VMs PROVE RetryInv(v)
    BY Initial
  <2>1. /\ worker[v].pc = "idle" /\ burst[v] = 0 /\ losses = 0 /\ timer[v] = "none"
        /\ ~api[v].exists
    BY DEF Init, Idle, Blank
  <2> QED
    BY <2>1 DEF RetryInv, Kept, Known, Pending, Trying, Tried, Bounded, Held, Reapplied
<1>2. Inv /\ [Next]_vars => Inv'
  BY Inductive, RetryInductive
<1>3. Inv => RetriesBounded
  BY DEF RetryInv, Bounded, RetriesBounded
<1> QED
  BY <1>1, <1>2, <1>3, PTL DEF Spec
===================================================================================
