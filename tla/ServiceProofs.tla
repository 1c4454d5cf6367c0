------------------------------- MODULE ServiceProofs -------------------------------
(*****************************************************************************)
(* Theorems about Service, for every set of services and addresses, every    *)
(* way in which services share keys of the predicate's cache, every bound    *)
(* and every set of faults.                                                  *)
(*****************************************************************************)
EXTENDS Service, FiniteSetTheorems, TLAPS

-----------------------------------------------------------------------------
(* The inductive invariant.                                                  *)

(* A worker knows which handler it runs, and the handler fits the object.    *)
Coherent(w) ==
    /\ w.pc # "idle" => w.mode # "none"
    /\ w.pc \in {"addFinalizers", "createOrUpdate"} => w.mode = "createOrUpdate"
    /\ w.pc = "deleteOwn" => w.mode = "delete"
    /\ w.pc = "removeFinalizers" => w.mode \in {"createOrUpdate", "delete"}
    /\ w.mode = "createOrUpdate" => w.obj.exists /\ ~w.obj.deleting
    /\ w.mode = "delete" => w.obj.exists /\ w.obj.deleting

CoherentWorker == {w \in Worker : Coherent(w)}

(* Every incarnation of a service was an edit.                               *)
Incarnations(s) == svc[s].uid <= edits

IInv == TypeOK /\ worker \in [Services -> CoherentWorker] /\ \A s \in Services : Incarnations(s)

-----------------------------------------------------------------------------
(* Typing of the operators the actions are built from.                       *)

LEMMA BlankType ==
    /\ \A u \in 0 .. MaxEdits : NoSvc(u) \in Svc
    /\ NoPub \in Pub /\ NoItems \in [IPs -> Pub] /\ Idle \in CoherentWorker
<1>1. \A u \in 0 .. MaxEdits : NoSvc(u) \in Svc
  BY DEF NoSvc, Svc
<1>2. NoPub \in Pub /\ NoItems \in [IPs -> Pub]
  BY DEF NoPub, Pub, NoItems
<1>3. 0 \in 0 .. MaxEdits
  BY ServiceConstants
<1>4. Idle \in Worker /\ Coherent(Idle)
  BY <1>1, <1>2, <1>3 DEF Idle, Worker, PCs, Coherent
<1> QED
  BY <1>1, <1>2, <1>4 DEF CoherentWorker

(* What may become of a service in one write keeps its incarnation.          *)
LEMMA ChangeType ==
    ASSUME NEW o \in Svc
    PROVE  /\ NoSvc(o.uid) \in Svc /\ NoSvc(o.uid).uid = o.uid
           /\ [o EXCEPT !.finalizer = FALSE] \in Svc /\ [o EXCEPT !.finalizer = FALSE].uid = o.uid
           /\ [o EXCEPT !.deleting = TRUE] \in Svc /\ [o EXCEPT !.deleting = TRUE].uid = o.uid
           /\ [o EXCEPT !.ignore = ~@] \in Svc /\ [o EXCEPT !.ignore = ~@].uid = o.uid
           /\ \A ips \in SUBSET IPs : /\ [o EXCEPT !.ips = ips] \in Svc
                                     /\ [o EXCEPT !.ips = ips].uid = o.uid
<1>1. o.uid \in 0 .. MaxEdits
  BY DEF Svc
<1>2. NoSvc(o.uid) \in Svc /\ NoSvc(o.uid).uid = o.uid
  BY <1>1, BlankType DEF NoSvc
<1>3. /\ [o EXCEPT !.finalizer = FALSE] \in Svc /\ [o EXCEPT !.finalizer = FALSE].uid = o.uid
      /\ [o EXCEPT !.deleting = TRUE] \in Svc /\ [o EXCEPT !.deleting = TRUE].uid = o.uid
  BY DEF Svc
<1>4. [o EXCEPT !.ignore = ~@] \in Svc /\ [o EXCEPT !.ignore = ~@].uid = o.uid
  BY DEF Svc
<1>5. ASSUME NEW ips \in SUBSET IPs
      PROVE  [o EXCEPT !.ips = ips] \in Svc /\ [o EXCEPT !.ips = ips].uid = o.uid
  BY DEF Svc
<1> QED
  BY <1>2, <1>3, <1>4, <1>5

(* What the API server makes of a deletion request is no longer alive.       *)
LEMMA DeletedType ==
    ASSUME NEW o \in Pub
    PROVE  Deleted(o) \in Pub /\ (Deleted(o).exists => Deleted(o).deleting)
BY DEF Deleted, NoPub, Pub

LEMMA NewProjectionType ==
    ASSUME NEW o \in Svc
    PROVE  NewProjection(o) \in Projection
BY DEF NewProjection, Projection, Svc

(* A reconciliation begins coherently ...                                    *)
LEMMA DispatchType ==
    ASSUME NEW o \in Svc
    PROVE  Dispatch(o) \in CoherentWorker
<1> DEFINE start(mode, pc) == [Idle EXCEPT !.mode = mode, !.pc = pc, !.obj = o, !.todo = o.ips]
<1>0. Idle \in Worker /\ o.ips \subseteq IPs /\ o.exists \in BOOLEAN /\ o.deleting \in BOOLEAN
  BY BlankType DEF CoherentWorker, Svc
<1>1. \A mode \in {"createOrUpdate", "delete", "ensureDeleted"}, pc \in PCs :
        /\ start(mode, pc) \in Worker
        /\ start(mode, pc).mode = mode /\ start(mode, pc).pc = pc /\ start(mode, pc).obj = o
  BY <1>0 DEF Worker
<1>2. /\ start("ensureDeleted", "list") \in CoherentWorker
      /\ o.exists /\ o.deleting =>
            /\ start("delete", "list") \in CoherentWorker
            /\ start("delete", "deleteOwn") \in CoherentWorker
      /\ o.exists /\ ~o.deleting =>
            /\ start("createOrUpdate", "addFinalizers") \in CoherentWorker
            /\ start("createOrUpdate", "list") \in CoherentWorker
  <2> HIDE DEF start
  <2> QED
    BY <1>1 DEF CoherentWorker, Coherent, PCs
<1>3. \/ Dispatch(o) = Idle
      \/ Dispatch(o) = start("ensureDeleted", "list")
      \/ /\ o.exists /\ o.deleting
         /\ \/ Dispatch(o) = start("delete", "list")
            \/ Dispatch(o) = start("delete", "deleteOwn")
      \/ /\ o.exists /\ ~o.deleting
         /\ \/ Dispatch(o) = start("createOrUpdate", "addFinalizers")
            \/ Dispatch(o) = start("createOrUpdate", "list")
  <2>1. CASE ~o.exists
    <3>1. Dispatch(o) = start("ensureDeleted", "list")
      BY <2>1 DEF Dispatch
    <3> QED
      BY <3>1
  <2>2. CASE o.exists /\ o.deleting /\ ~o.finalizer
    BY <2>2 DEF Dispatch
  <2>3. CASE o.exists /\ o.deleting /\ o.finalizer
    <3>1. Dispatch(o) = start("delete", IF o.ips = {} THEN "list" ELSE "deleteOwn")
      BY <2>3 DEF Dispatch
    <3>2. CASE o.ips = {}
      BY <2>3, <3>1, <3>2
    <3>3. CASE o.ips # {}
      BY <2>3, <3>1, <3>3
    <3> QED
      BY <3>2, <3>3
  <2>4. CASE o.exists /\ ~o.deleting /\ ShouldFinalize(o)
    <3>1. Dispatch(o) = start("createOrUpdate", "addFinalizers")
      BY <2>4 DEF Dispatch
    <3> QED
      BY <2>4, <3>1
  <2>5. CASE o.exists /\ ~o.deleting /\ ~ShouldFinalize(o)
    <3>1. Dispatch(o) = IF o.finalizer THEN start("createOrUpdate", "list") ELSE Idle
      BY <2>5 DEF Dispatch
    <3> QED
      BY <2>5, <3>1
  <2> HIDE DEF start
  <2> QED
    BY <1>0, <2>1, <2>2, <2>3, <2>4, <2>5
<1> HIDE DEF start
<1> QED
  BY <1>2, <1>3, BlankType

(* ... its first loop goes on coherently ...                                 *)
LEMMA NextOwnType ==
    ASSUME NEW w \in CoherentWorker, NEW ip \in IPs, w.pc \in {"createOrUpdate", "deleteOwn"}
    PROVE  /\ NextOwn(w, ip) \in CoherentWorker
           /\ NextOwn(w, ip).mode = w.mode /\ NextOwn(w, ip).obj = w.obj
           /\ NextOwn(w, ip).todo = w.todo \ {ip}
           /\ NextOwn(w, ip).pc = IF w.todo \ {ip} = {} THEN "list" ELSE w.pc
BY DEF NextOwn, CoherentWorker, Coherent, Worker, PCs

(* The worker of s goes on as u, with or without a delayed requeue.          *)
Becomes(s, u) ==
    worker' = [worker EXCEPT ![s] = u] /\ (timer' = timer \/ timer' = timer \cup {s})

(* ... and so does its second.                                               *)
LEMMA ContinueType ==
    ASSUME NEW s \in Services, NEW w \in CoherentWorker, w.pc = "listed", Continue(s, w)
    PROVE  \E u \in CoherentWorker :
              /\ Becomes(s, u)
              /\ \/ u = w
                 \/ u = Idle /\ Items(w) = {} /\ (w.mode = "ensureDeleted" \/ s \in timer')
                 \/ /\ u = [w EXCEPT !.pc = "removeFinalizers"] /\ Items(w) = {}
                    /\ w.mode = "createOrUpdate" => ~ShouldFinalize(w.obj)
<1>1. w.mode \in {"createOrUpdate", "delete", "ensureDeleted"}
  BY DEF CoherentWorker, Coherent, Worker
<1>2. CASE Items(w) # {}
  BY <1>2 DEF Continue, Goto, Becomes
<1>3. CASE Items(w) = {} /\ w.mode = "ensureDeleted"
  BY <1>3, BlankType DEF Continue, Return, Goto, Becomes
<1> DEFINE u == [w EXCEPT !.pc = "removeFinalizers"]
<1>4. w.mode \in {"createOrUpdate", "delete"} => u \in CoherentWorker
  BY DEF CoherentWorker, Coherent, Worker, PCs
<1>5. CASE Items(w) = {} /\ w.mode = "delete"
  BY <1>4, <1>5 DEF Continue, Goto, Becomes
<1>6. CASE Items(w) = {} /\ w.mode = "createOrUpdate"
  BY <1>4, <1>6, BlankType DEF Continue, Requeue, Goto, Becomes
<1> QED
  BY <1>1, <1>2, <1>3, <1>5, <1>6

-----------------------------------------------------------------------------
(* Every step keeps the invariant.                                           *)

(* What becomes of the workers when one of them goes on ...                  *)
LEMMA WorkerTyped ==
    ASSUME IInv, NEW s \in Services, NEW u \in CoherentWorker, Becomes(s, u)
    PROVE  /\ worker' \in [Services -> CoherentWorker] /\ worker' \in [Services -> Worker]
           /\ timer' \subseteq Services
           /\ worker'[s] = u /\ \A k \in Services \ {s} : worker'[k] = worker[k]
BY DEF IInv, TypeOK, Becomes, CoherentWorker

(* ... and of the services when one of them is written.                      *)
LEMMA ServiceTyped ==
    ASSUME IInv, NEW s \in Services, NEW o \in Svc, svc' = [svc EXCEPT ![s] = o],
           o.uid <= edits', edits' \in 0 .. MaxEdits, edits <= edits'
    PROVE  svc' \in [Services -> Svc] /\ \A k \in Services : Incarnations(k)'
<1>1. \A k \in Services : svc[k].uid \in Nat /\ svc[k].uid <= edits
  BY DEF IInv, TypeOK, Svc, Incarnations
<1>2. edits \in Nat /\ edits' \in Nat
  BY ServiceConstants DEF IInv, TypeOK
<1>3. svc' \in [Services -> Svc]
  BY DEF IInv, TypeOK
<1>4. ASSUME NEW k \in Services PROVE Incarnations(k)'
  <2>1. CASE k = s
    BY <2>1 DEF IInv, TypeOK, Incarnations
  <2>2. CASE k # s
    <3>1. svc'[k] = svc[k]
      BY <2>2 DEF IInv, TypeOK
    <3> QED
      BY <1>1, <1>2, <3>1 DEF Incarnations
  <2> QED
    BY <2>1, <2>2
<1> QED
  BY <1>3, <1>4

(* The steps of workers that do not begin a reconciliation: how the worker   *)
(* goes on, and what becomes of the service or of a resource.                *)
LEMMA AddFinalizersStep ==
    ASSUME IInv, NEW s \in Services, AddFinalizers(s)
    PROVE  \E u \in CoherentWorker :
              /\ Becomes(s, u)
              /\ \/ u = Idle /\ UNCHANGED svc
                 \/ /\ svc[s] = worker[s].obj /\ svc[s].exists /\ ~svc[s].deleting
                    /\ u.obj = [worker[s].obj EXCEPT !.finalizer = TRUE]
                    /\ u.mode = "createOrUpdate" /\ u.pc = "createOrUpdate"
                    /\ svc' = [svc EXCEPT ![s] = u.obj]
<1> DEFINE w == worker[s]
           o == [w.obj EXCEPT !.finalizer = TRUE]
           u == [w EXCEPT !.obj = o, !.pc = "createOrUpdate"]
<1>1. w \in CoherentWorker /\ w.pc = "addFinalizers"
  BY DEF AddFinalizers, IInv
<1>2. CASE (Requeue(s) \/ Return(s)) /\ UNCHANGED svc
  BY <1>2, BlankType DEF Requeue, Return, Goto, Becomes
<1>3. CASE svc[s] = w.obj /\ svc' = [svc EXCEPT ![s] = o] /\ Goto(s, u)
  <2>1. w.mode = "createOrUpdate" /\ w.obj \in Svc /\ w.obj.exists /\ ~w.obj.deleting /\ w \in Worker
    BY <1>1 DEF CoherentWorker, Coherent, Worker
  <2>2. o \in Svc /\ o.exists /\ ~o.deleting
    BY <2>1 DEF Svc
  <2>3. u \in Worker /\ u.obj = o /\ u.mode = "createOrUpdate" /\ u.pc = "createOrUpdate"
    BY <2>1, <2>2 DEF Worker, PCs
  <2>4. u \in CoherentWorker
    BY <2>2, <2>3 DEF CoherentWorker, Coherent
  <2> QED
    BY <1>3, <2>1, <2>3, <2>4 DEF Goto, Becomes
<1> QED
  BY <1>2, <1>3 DEF AddFinalizers

LEMMA RemoveFinalizersStep ==
    ASSUME IInv, NEW s \in Services, RemoveFinalizers(s)
    PROVE  /\ Becomes(s, Idle)
           /\ \/ UNCHANGED svc
              \/ /\ svc[s].exists /\ svc[s] = worker[s].obj
                 /\ svc' = [svc EXCEPT ![s] = IF @.deleting THEN NoSvc(@.uid)
                                              ELSE [@ EXCEPT !.finalizer = FALSE]]
BY DEF RemoveFinalizers, Requeue, Return, Goto, Becomes

LEMMA CreateOrUpdateStep ==
    ASSUME IInv, NEW s \in Services, CreateOrUpdate(s)
    PROVE  /\ worker[s].mode = "createOrUpdate"
           /\ \E u \in CoherentWorker :
                 /\ Becomes(s, u)
                 /\ \/ u = Idle
                    \/ /\ u.mode = "createOrUpdate" /\ u.obj = worker[s].obj
                       /\ u.pc \in {"createOrUpdate", "list"}
           /\ \/ UNCHANGED pub
              \/ \E ip \in IPs, o \in Pub : pub' = [pub EXCEPT ![s][ip] = o]
<1> DEFINE w == worker[s]
<1>1. w \in CoherentWorker /\ w.pc = "createOrUpdate" /\ w.todo \subseteq IPs
      /\ w.mode = "createOrUpdate"
  BY DEF CreateOrUpdate, IInv, CoherentWorker, Coherent, Worker
<1>2. PICK ip \in w.todo :
         \/ Requeue(s) /\ UNCHANGED pub
         \/ Goto(s, NextOwn(w, ip)) /\ UNCHANGED pub
         \/ pub' = [pub EXCEPT ![s][ip] = [NoPub EXCEPT !.exists = TRUE]] /\ Goto(s, NextOwn(w, ip))
         \/ pub' = [pub EXCEPT ![s][ip] = [pub[s][ip] EXCEPT !.doNotClean = FALSE]]
            /\ Goto(s, NextOwn(w, ip))
  BY DEF CreateOrUpdate
<1>3. ip \in IPs /\ pub[s][ip] \in Pub
  BY <1>1 DEF IInv, TypeOK
<1>4. [NoPub EXCEPT !.exists = TRUE] \in Pub /\ [pub[s][ip] EXCEPT !.doNotClean = FALSE] \in Pub
  BY <1>3 DEF NoPub, Pub
<1>5. /\ NextOwn(w, ip) \in CoherentWorker /\ NextOwn(w, ip).mode = "createOrUpdate"
      /\ NextOwn(w, ip).obj = w.obj /\ NextOwn(w, ip).pc \in {"createOrUpdate", "list"}
  BY <1>1, <1>3, NextOwnType
<1> QED
  BY <1>1, <1>2, <1>3, <1>4, <1>5, BlankType DEF Requeue, Goto, Becomes

LEMMA DeleteOwnStep ==
    ASSUME IInv, NEW s \in Services, DeleteOwn(s)
    PROVE  \/ Becomes(s, Idle) /\ UNCHANGED pub
           \/ \E ip \in IPs :
                 /\ NextOwn(worker[s], ip) \in CoherentWorker /\ Becomes(s, NextOwn(worker[s], ip))
                 /\ pub' = [pub EXCEPT ![s][ip] = Deleted(@)]
<1>1. worker[s] \in CoherentWorker /\ worker[s].pc = "deleteOwn" /\ worker[s].todo \subseteq IPs
  BY DEF DeleteOwn, IInv, CoherentWorker, Worker
<1> QED
  BY <1>1, NextOwnType DEF DeleteOwn, Requeue, Goto, Becomes

(* What the second loop has listed, as far as it matters here.               *)
LEMMA ListStep ==
    ASSUME IInv, NEW s \in Services, List(s)
    PROVE  \E w \in CoherentWorker :
              /\ w.pc = "listed" /\ Continue(s, w)
              /\ w.mode = worker[s].mode /\ w.obj = worker[s].obj
              /\ \A ip \in IPs : ip \notin w.obj.ips => w.items[ip] = pubCache[s][ip]
<1> DEFINE v        == worker[s]
           selected == IF Ignoring(v) THEN IPs ELSE IPs \ v.obj.ips
           items    == [ip \in IPs |-> IF ip \in selected THEN pubCache[s][ip] ELSE NoPub]
           w        == [v EXCEPT !.items = items, !.pc = "listed"]
<1>1. v \in CoherentWorker /\ v.pc = "list"
  BY DEF List, IInv
<1>2. items \in [IPs -> Pub]
  BY BlankType DEF IInv, TypeOK
<1> HIDE DEF items
<1>3. w \in CoherentWorker /\ w.pc = "listed" /\ w.mode = v.mode /\ w.obj = v.obj /\ w.items = items
  BY <1>1, <1>2 DEF CoherentWorker, Coherent, Worker, PCs
<1>4. Continue(s, w)
  BY DEF List, items
<1>5. \A ip \in IPs : ip \notin v.obj.ips => items[ip] = pubCache[s][ip]
  BY DEF items
<1> QED
  BY <1>3, <1>4, <1>5

LEMMA AnnotateListedStep ==
    ASSUME IInv, NEW s \in Services, AnnotateListed(s)
    PROVE  /\ worker[s].mode = "createOrUpdate"
           /\ \E u \in CoherentWorker :
                 /\ Becomes(s, u)
                 /\ \/ u = Idle
                    \/ u.mode = "createOrUpdate" /\ u.obj = worker[s].obj /\ u.pc = "listed"
           /\ \/ UNCHANGED pub
              \/ \E ip \in IPs, o \in Pub : /\ pub' = [pub EXCEPT ![s][ip] = o]
                                           /\ o.exists = pub[s][ip].exists
                                           /\ o.deleting = pub[s][ip].deleting
<1> DEFINE w == worker[s]
<1>1. w \in CoherentWorker /\ w.pc = "listed" /\ w.mode = "createOrUpdate"
  BY DEF AnnotateListed, Ignoring, IInv
<1>2. PICK ip \in Items(w) :
         \/ Requeue(s) /\ UNCHANGED pub
         \/ /\ pub' = [pub EXCEPT ![s][ip].doNotClean = TRUE]
            /\ Goto(s, [w EXCEPT !.annotated = ip])
  BY DEF AnnotateListed
<1>3. ip \in IPs /\ pub[s][ip] \in Pub
  BY DEF Items, IInv, TypeOK
<1>4. [w EXCEPT !.annotated = ip] \in CoherentWorker
      /\ [w EXCEPT !.annotated = ip].mode = "createOrUpdate"
      /\ [w EXCEPT !.annotated = ip].obj = w.obj /\ [w EXCEPT !.annotated = ip].pc = "listed"
  BY <1>1, <1>3 DEF CoherentWorker, Coherent, Worker
<1>5. [pub EXCEPT ![s][ip].doNotClean = TRUE]
         = [pub EXCEPT ![s][ip] = [pub[s][ip] EXCEPT !.doNotClean = TRUE]]
  BY <1>3 DEF IInv, TypeOK
<1>6. /\ [pub[s][ip] EXCEPT !.doNotClean = TRUE] \in Pub
      /\ [pub[s][ip] EXCEPT !.doNotClean = TRUE].exists = pub[s][ip].exists
      /\ [pub[s][ip] EXCEPT !.doNotClean = TRUE].deleting = pub[s][ip].deleting
  BY <1>3 DEF Pub
<1> QED
  BY <1>1, <1>2, <1>3, <1>4, <1>5, <1>6, BlankType DEF Requeue, Goto, Becomes

LEMMA DeleteListedStep ==
    ASSUME IInv, NEW s \in Services, DeleteListed(s)
    PROVE  \/ Becomes(s, Idle) /\ UNCHANGED pub /\ s \in timer'
           \/ \E ip \in IPs :
                 LET w == [worker[s] EXCEPT !.items[ip] = NoPub, !.annotated = NoIP]
                 IN  /\ w \in CoherentWorker /\ w.pc = "listed" /\ Continue(s, w)
                     /\ pub' = [pub EXCEPT ![s][ip] = Deleted(@)]
<1>1. worker[s] \in CoherentWorker /\ worker[s].pc = "listed"
  BY DEF DeleteListed, IInv
<1>2. PICK ip \in IF Ignoring(worker[s]) THEN {worker[s].annotated} \ {NoIP} ELSE Items(worker[s]) :
         \/ Requeue(s) /\ UNCHANGED pub
         \/ /\ pub' = [pub EXCEPT ![s][ip] = Deleted(@)]
            /\ Continue(s, [worker[s] EXCEPT !.items[ip] = NoPub, !.annotated = NoIP])
  BY DEF DeleteListed
<1>3. ip \in IPs
  BY <1>1 DEF Items, CoherentWorker, Worker
<1>4. [worker[s] EXCEPT !.items[ip] = NoPub, !.annotated = NoIP] \in CoherentWorker
      /\ [worker[s] EXCEPT !.items[ip] = NoPub, !.annotated = NoIP].pc = "listed"
  BY <1>1, <1>3, BlankType DEF CoherentWorker, Coherent, Worker
<1> QED
  BY <1>2, <1>3, <1>4 DEF Requeue, Becomes

(* Every step of a worker keeps the invariant.                               *)
LEMMA WorkerInductive ==
    ASSUME IInv, NEW s \in Services, WorkerStep(s)
    PROVE  IInv'
<1> USE ServiceConstants
<1>0. TypeOK /\ \A k \in Services : svc[k] \in Svc /\ Incarnations(k)
  BY DEF IInv, TypeOK
(* The worker goes on and the services are left alone, ...                   *)
<1>a. ASSUME NEW u \in CoherentWorker, Becomes(s, u), pub' \in [Services -> [IPs -> Pub]],
             UNCHANGED <<svc, svcCache, serviceCache, pubCache, queue, edits>>
      PROVE  IInv'
  BY <1>0, <1>a, WorkerTyped DEF IInv, TypeOK, Incarnations
(* ... or one of them is written.                                            *)
<1>b. ASSUME NEW u \in CoherentWorker, Becomes(s, u), NEW o \in Svc, o.uid = svc[s].uid,
             svc' = [svc EXCEPT ![s] = o],
             UNCHANGED <<svcCache, serviceCache, pub, pubCache, queue, edits>>
      PROVE  IInv'
  <2>1. o.uid <= edits' /\ edits' \in 0 .. MaxEdits /\ edits <= edits'
    BY <1>0, <1>b DEF TypeOK, Incarnations
  <2>2. svc' \in [Services -> Svc] /\ \A k \in Services : Incarnations(k)'
    BY <1>b, <2>1, ServiceTyped
  <2> QED
    BY <1>0, <1>b, <2>2, WorkerTyped DEF IInv, TypeOK
<1>c. ASSUME NEW ip \in IPs, NEW o \in Pub, pub' = [pub EXCEPT ![s][ip] = o]
      PROVE  pub' \in [Services -> [IPs -> Pub]]
  BY <1>0, <1>c DEF TypeOK
<1>d. ASSUME NEW ip \in IPs, pub' = [pub EXCEPT ![s][ip] = Deleted(@)]
      PROVE  pub' \in [Services -> [IPs -> Pub]]
  <2>1. pub[s][ip] \in Pub
    BY <1>0 DEF TypeOK
  <2> QED
    BY <1>0, <1>d, <2>1, DeletedType DEF TypeOK
<1>1. CASE Reconcile(s)
  <2>1. Dispatch(svcCache[s]) \in CoherentWorker
    BY <1>0, DispatchType DEF TypeOK
  <2>2. worker' \in [Services -> CoherentWorker] /\ worker' \in [Services -> Worker]
    BY <1>1, <2>1 DEF Reconcile, IInv, TypeOK, CoherentWorker
  <2> QED
    BY <1>0, <1>1, <2>2 DEF Reconcile, IInv, TypeOK, Incarnations
<1>2. CASE AddFinalizers(s)
  <2>1. UNCHANGED <<svcCache, serviceCache, pub, pubCache, queue, edits>>
    BY <1>2 DEF AddFinalizers
  <2>2. PICK u \in CoherentWorker :
           /\ Becomes(s, u)
           /\ \/ u = Idle /\ UNCHANGED svc
              \/ /\ svc[s] = worker[s].obj
                 /\ u.obj = [worker[s].obj EXCEPT !.finalizer = TRUE]
                 /\ svc' = [svc EXCEPT ![s] = u.obj]
    BY <1>2, AddFinalizersStep
  <2>3. CASE UNCHANGED svc
    BY <1>0, <1>a, <2>1, <2>2, <2>3 DEF TypeOK
  <2>4. CASE svc[s] = worker[s].obj /\ u.obj = [worker[s].obj EXCEPT !.finalizer = TRUE]
             /\ svc' = [svc EXCEPT ![s] = u.obj]
    <3>1. u.obj \in Svc /\ u.obj.uid = svc[s].uid
      BY <1>0, <2>4 DEF Svc
    <3> QED
      BY <1>b, <2>1, <2>2, <2>4, <3>1
  <2> QED
    BY <2>2, <2>3, <2>4
<1>3. CASE RemoveFinalizers(s)
  <2> DEFINE o == IF svc[s].deleting THEN NoSvc(svc[s].uid)
                                     ELSE [svc[s] EXCEPT !.finalizer = FALSE]
  <2>1. UNCHANGED <<svcCache, serviceCache, pub, pubCache, queue, edits>>
    BY <1>3 DEF RemoveFinalizers
  <2>2. Becomes(s, Idle) /\ (UNCHANGED svc \/ svc' = [svc EXCEPT ![s] = o])
    BY <1>3, RemoveFinalizersStep
  <2>3. o \in Svc /\ o.uid = svc[s].uid
    BY <1>0, ChangeType
  <2>4. CASE UNCHANGED svc
    BY <1>0, <1>a, <2>1, <2>2, <2>4, BlankType DEF TypeOK
  <2>5. CASE svc' = [svc EXCEPT ![s] = o]
    <3> HIDE DEF o
    <3> QED
      BY <1>b, <2>1, <2>2, <2>3, <2>5, BlankType
  <2> QED
    BY <2>2, <2>4, <2>5
<1>4. CASE CreateOrUpdate(s)
  <2>1. UNCHANGED <<svc, svcCache, serviceCache, pubCache, queue, edits>>
    BY <1>4 DEF CreateOrUpdate
  <2>2. pub' \in [Services -> [IPs -> Pub]]
    BY <1>0, <1>4, <1>c, CreateOrUpdateStep DEF TypeOK
  <2> QED
    BY <1>4, <1>a, <2>1, <2>2, CreateOrUpdateStep
<1>5. CASE DeleteOwn(s)
  <2>1. UNCHANGED <<svc, svcCache, serviceCache, pubCache, queue, edits>>
    BY <1>5 DEF DeleteOwn
  <2>2. pub' \in [Services -> [IPs -> Pub]]
    BY <1>0, <1>5, <1>d, DeleteOwnStep DEF TypeOK
  <2> QED
    BY <1>5, <1>a, <2>1, <2>2, DeleteOwnStep, BlankType
<1>6. CASE List(s)
  <2>1. UNCHANGED <<svc, svcCache, serviceCache, pub, pubCache, queue, edits>>
    BY <1>6 DEF List
  <2>2. \E u \in CoherentWorker : Becomes(s, u)
    BY <1>6, ListStep, ContinueType
  <2> QED
    BY <1>0, <1>a, <2>1, <2>2 DEF TypeOK
<1>7. CASE AnnotateListed(s)
  <2>1. UNCHANGED <<svc, svcCache, serviceCache, pubCache, queue, edits>>
    BY <1>7 DEF AnnotateListed
  <2>2. pub' \in [Services -> [IPs -> Pub]]
    <3>1. UNCHANGED pub \/ \E ip \in IPs, o \in Pub : pub' = [pub EXCEPT ![s][ip] = o]
      BY <1>7, AnnotateListedStep
    <3> QED
      BY <1>0, <1>c, <3>1 DEF TypeOK
  <2> QED
    BY <1>7, <1>a, <2>1, <2>2, AnnotateListedStep
<1>8. CASE DeleteListed(s)
  <2>1. UNCHANGED <<svc, svcCache, serviceCache, pubCache, queue, edits>>
    BY <1>8 DEF DeleteListed
  <2>2. pub' \in [Services -> [IPs -> Pub]]
    BY <1>0, <1>8, <1>d, DeleteListedStep DEF TypeOK
  <2>3. \E u \in CoherentWorker : Becomes(s, u)
    BY <1>8, DeleteListedStep, ContinueType, BlankType
  <2> QED
    BY <1>a, <2>1, <2>2, <2>3
<1> QED
  BY <1>1, <1>2, <1>3, <1>4, <1>5, <1>6, <1>7, <1>8 DEF WorkerStep

(* ... and so does every other step.                                         *)
LEMMA OthersInductive ==
    IInv /\ [Next]_vars => (\E s \in Services : WorkerStep(s)) \/ IInv'
<1> SUFFICES ASSUME IInv, [Next]_vars
             PROVE  (\E s \in Services : WorkerStep(s)) \/ IInv'
  OBVIOUS
<1> USE ServiceConstants
<1>0. TypeOK /\ \A k \in Services : svc[k] \in Svc /\ svcCache[k] \in Svc /\ Incarnations(k)
  BY DEF IInv, TypeOK
(* The predicate keeps one projection, or none.                              *)
<1>a. ASSUME NEW S, S = {} \/ \E o \in Svc : S = {NewProjection(o)}
      PROVE  S \in SUBSET Projection /\ Cardinality(S) <= 1
  <2>1. CASE S = {}
    BY <2>1, FS_EmptySet
  <2>2. CASE \E o \in Svc : S = {NewProjection(o)}
    BY <2>2, NewProjectionType, FS_Singleton
  <2> QED
    BY <1>a, <2>1, <2>2
<1>b. ASSUME NEW n \in Names, NEW S, S = {} \/ \E o \in Svc : S = {NewProjection(o)},
             serviceCache' = [serviceCache EXCEPT ![n] = S]
      PROVE  /\ serviceCache' \in [Names -> SUBSET Projection]
             /\ \A k \in Names : Cardinality(serviceCache'[k]) <= 1
  BY <1>0, <1>a, <1>b DEF TypeOK
<1>c. \A s \in Services : svc[s].uid <= edits + 1
  BY <1>0 DEF Svc, Incarnations, TypeOK
<1>1. ASSUME NEW s \in Services, SyncService(s) PROVE IInv'
  <2>1. /\ svcCache' = [svcCache EXCEPT ![s] = svc[s]]
        /\ queue' = queue \cup {s} \/ queue' = queue
        /\ UNCHANGED <<svc, pub, pubCache, timer, worker, edits>>
    BY <1>1 DEF SyncService
  <2>2. \/ UNCHANGED serviceCache
        \/ \E S : /\ S = {} \/ S = {NewProjection(svc[s])}
                  /\ serviceCache' = [serviceCache EXCEPT ![NameOf[s]] = S]
    BY <1>1 DEF SyncService
  <2>3. /\ serviceCache' \in [Names -> SUBSET Projection]
        /\ \A k \in Names : Cardinality(serviceCache'[k]) <= 1
    BY <1>0, <1>b, <2>2 DEF TypeOK
  <2> QED
    BY <1>0, <2>1, <2>3 DEF IInv, TypeOK, Incarnations
<1>2. ASSUME NEW s \in Services, Resync(s) PROVE IInv'
  <2>1. /\ serviceCache' \in [Names -> SUBSET Projection]
        /\ \A k \in Names : Cardinality(serviceCache'[k]) <= 1
    BY <1>0, <1>2, <1>b DEF Resync
  <2> QED
    BY <1>0, <1>2, <2>1 DEF Resync, IInv, TypeOK, Incarnations
<1>3. ASSUME NEW n \in Names, Expire(n) PROVE IInv'
  <2>1. /\ serviceCache' \in [Names -> SUBSET Projection]
        /\ \A k \in Names : Cardinality(serviceCache'[k]) <= 1
    BY <1>3, <1>b DEF Expire
  <2> QED
    BY <1>0, <1>3, <2>1 DEF Expire, IInv, TypeOK, Incarnations
<1>4. ASSUME NEW s \in Services, NEW ip \in IPs,
             SyncPub(s, ip) \/ FinalizePub(s, ip) \/ FinishPub(s, ip)
      PROVE  IInv'
  <2>0. pub[s][ip] \in Pub
    BY <1>0 DEF TypeOK
  <2>1. pub[s][ip] \in Pub /\ [pub[s][ip] EXCEPT !.finalizer = TRUE] \in Pub /\ NoPub \in Pub
    BY <2>0, BlankType DEF Pub
  <2>2. /\ pub' \in [Services -> [IPs -> Pub]] /\ pubCache' \in [Services -> [IPs -> Pub]]
        /\ queue' \subseteq Services
    <3>1. CASE SyncPub(s, ip)
      BY <1>0, <2>1, <3>1 DEF SyncPub, Requests, TypeOK
    <3>2. CASE FinalizePub(s, ip)
      <4>1. pub' = [pub EXCEPT ![s][ip] = [pub[s][ip] EXCEPT !.finalizer = TRUE]]
        BY <1>0, <3>2 DEF FinalizePub, TypeOK
      <4> QED
        BY <1>0, <2>1, <3>2, <4>1 DEF FinalizePub, TypeOK
    <3>3. CASE FinishPub(s, ip)
      BY <1>0, <2>1, <3>3 DEF FinishPub, TypeOK
    <3> QED
      BY <1>4, <3>1, <3>2, <3>3
  <2>3. UNCHANGED <<svc, svcCache, serviceCache, timer, worker, edits>>
    BY <1>4 DEF SyncPub, FinalizePub, FinishPub
  <2> QED
    BY <1>0, <2>2, <2>3 DEF IInv, TypeOK, Incarnations
<1>5. ASSUME NEW s \in Services, NEW o \in Svc, Edit(s, o), o.uid <= edits + 1
      PROVE  IInv'
  <2>1. /\ svc' = [svc EXCEPT ![s] = o]
        /\ UNCHANGED <<svcCache, serviceCache, pub, pubCache, queue, timer, worker>>
    BY <1>5 DEF Edit
  <2>2. o.uid <= edits' /\ edits' \in 0 .. MaxEdits /\ edits <= edits'
    BY <1>0, <1>5 DEF Edit, TypeOK
  <2>3. svc' \in [Services -> Svc] /\ \A k \in Services : Incarnations(k)'
    BY <2>1, <2>2, ServiceTyped
  <2> QED
    BY <1>0, <2>1, <2>2, <2>3 DEF IInv, TypeOK
<1>6. ASSUME NEW s \in Services, CreateService(s) PROVE IInv'
  <2> DEFINE o == [NoSvc(svc[s].uid + 1) EXCEPT !.exists = TRUE]
  <2>1. svc[s].uid + 1 \in 0 .. MaxEdits /\ svc[s].uid + 1 <= edits + 1
    BY <1>0, <1>6 DEF CreateService, Edit, Incarnations, Svc, TypeOK
  <2>2. o \in Svc /\ o.uid = svc[s].uid + 1
    BY <2>1 DEF NoSvc, Svc
  <2> QED
    BY <1>5, <1>6, <2>1, <2>2 DEF CreateService
<1>7. ASSUME NEW s \in Services, ChangeIPs(s) PROVE IInv'
  <2>1. PICK ips \in SUBSET IPs : Edit(s, [svc[s] EXCEPT !.ips = ips])
    BY <1>7 DEF ChangeIPs
  <2>2. [svc[s] EXCEPT !.ips = ips] \in Svc /\ [svc[s] EXCEPT !.ips = ips].uid = svc[s].uid
    BY <1>0 DEF Svc
  <2>3. [svc[s] EXCEPT !.ips = ips].uid <= edits + 1
    BY <1>c, <2>2
  <2> QED
    BY <1>5, <2>1, <2>2, <2>3
<1>8. ASSUME NEW s \in Services, ChangeIgnore(s) PROVE IInv'
  <2> DEFINE o == [svc[s] EXCEPT !.ignore = ~svc[s].ignore]
  <2>1. Edit(s, o)
    BY <1>8 DEF ChangeIgnore
  <2>2. svc[s] \in Svc /\ svc[s].ignore \in BOOLEAN
    BY <1>0 DEF Svc
  <2>3. o \in Svc /\ o.uid = svc[s].uid
    BY <2>2 DEF Svc
  <2> HIDE DEF o
  <2> QED
    BY <1>5, <1>c, <2>1, <2>3
<1>9. ASSUME NEW s \in Services, DeleteService(s) PROVE IInv'
  <2> DEFINE o == IF svc[s].finalizer THEN [svc[s] EXCEPT !.deleting = TRUE]
                                      ELSE NoSvc(svc[s].uid)
  <2>1. Edit(s, o) /\ o \in Svc /\ o.uid = svc[s].uid
    BY <1>0, <1>9, ChangeType DEF DeleteService
  <2> HIDE DEF o
  <2> QED
    BY <1>5, <1>c, <2>1
<1>10. CASE Restart
  <2>1. \A n \in Names : /\ serviceCache'[n] \in SUBSET Projection
                         /\ Cardinality(serviceCache'[n]) <= 1
    <3> SUFFICES ASSUME NEW n \in Names
                 PROVE  /\ serviceCache'[n] \in SUBSET Projection
                        /\ Cardinality(serviceCache'[n]) <= 1
      OBVIOUS
    <3> DEFINE ss == {s \in Services : NameOf[s] = n /\ svc[s].exists}
    <3>1. serviceCache'[n] = IF ss = {} THEN {} ELSE {NewProjection(svc[CHOOSE s \in ss : TRUE])}
      BY <1>10 DEF Restart
    <3>2. ss # {} => (CHOOSE s \in ss : TRUE) \in Services
      OBVIOUS
    <3> HIDE DEF ss
    <3> QED
      BY <1>0, <1>a, <3>1, <3>2
  <2>2. serviceCache' \in [Names -> SUBSET Projection]
    BY <1>10, <2>1 DEF Restart
  <2>3. worker' \in [Services -> CoherentWorker] /\ worker' \in [Services -> Worker]
    BY <1>10, BlankType DEF Restart, CoherentWorker
  <2> QED
    BY <1>0, <1>10, <2>1, <2>2, <2>3 DEF Restart, IInv, TypeOK, Incarnations
<1>11. CASE UNCHANGED vars
  BY <1>0, <1>11 DEF vars, IInv, TypeOK, Incarnations
<1> QED
  BY <1>1, <1>2, <1>3, <1>4, <1>6, <1>7, <1>8, <1>9, <1>10, <1>11 DEF Next

LEMMA Inductive == IInv /\ [Next]_vars => IInv'
BY WorkerInductive, OthersInductive

(* The initial states satisfy the invariant.                                 *)
LEMMA Initial == Init => IInv
<1> SUFFICES ASSUME Init PROVE IInv
  OBVIOUS
<1> USE ServiceConstants
<1>1. /\ NoSvc(0) \in Svc /\ NoItems \in [IPs -> Pub] /\ Idle \in CoherentWorker
      /\ Idle \in Worker /\ 0 \in 0 .. MaxEdits /\ NoSvc(0).uid = 0
  BY BlankType DEF CoherentWorker, NoSvc
<1>2. TypeOK
  BY <1>1, FS_EmptySet DEF Init, TypeOK
<1> QED
  BY <1>1, <1>2 DEF Init, IInv, Incarnations

-----------------------------------------------------------------------------
(* Every reachable state is well typed: the service cache never holds more   *)
(* than one projection under a name, and no handler meets a mode or an       *)
(* object it does not expect.                                                *)
THEOREM TypeCorrect == Spec => []TypeOK
<1>1. IInv => TypeOK
  BY DEF IInv
<1> QED
  BY <1>1, Initial, Inductive, PTL DEF Spec

-----------------------------------------------------------------------------
(* What the worker, the service and the two caches know of each other.       *)

(* A service that is gone has no addresses, to whoever sees it so.           *)
Hollow(s) ==
    /\ ~svc[s].exists => svc[s].ips = {}
    /\ ~svcCache[s].exists => svcCache[s].ips = {}
    /\ worker[s].mode = "ensureDeleted" => worker[s].obj.ips = {}

(* A service that is gone carries no finalizer.                              *)
Blank(s) == svc[s].finalizer => svc[s].exists

(* Resources are created under the finalizer, which leaves a living service  *)
(* only when it needs none.                                                  *)
Guarded(s) ==
    /\ worker[s].pc = "createOrUpdate" => svc[s].exists /\ svc[s].finalizer
    /\ worker[s].pc = "removeFinalizers" /\ worker[s].mode = "createOrUpdate"
         => ~ShouldFinalize(worker[s].obj)

(* A worker that deletes leaves no resource behind for the addresses it was  *)
(* given.                                                                    *)
Released(s) ==
    LET w == worker[s]
    IN  w.mode = "delete" =>
            \A ip \in w.obj.ips : Live(s, ip) => w.pc = "deleteOwn" /\ ip \in w.todo

(* The cache does not run ahead: it does not call a living incarnation gone. *)
Behind(s) ==
    /\ svcCache[s].uid <= svc[s].uid
    /\ svc[s].exists /\ ~svcCache[s].exists => svcCache[s].uid # svc[s].uid

(* A worker that learns that its service is gone reconciles once more ...    *)
Learns(s) ==
    worker[s].pc # "idle" /\ worker[s].mode # "ensureDeleted" /\ ~svcCache[s].exists
    => s \in queue

(* ... and then treats all that the cache has, or does so once more ...      *)
Covers(s) ==
    worker[s].pc = "listed" /\ worker[s].mode = "ensureDeleted" /\ ~svcCache[s].exists
    => \A ip \in IPs : Live(s, ip) /\ pubCache[s][ip].exists
                         => ip \in Items(worker[s]) \/ s \in queue

(* ... so that it does not rest while the cache has something to delete.     *)
Noticed(s) ==
    worker[s].pc = "idle" /\ ~svc[s].exists /\ svcCache[s] = svc[s]
    => \A ip \in IPs : Live(s, ip) /\ pubCache[s][ip].exists => s \in queue \cup timer

KeyInv(s) ==
    /\ Hollow(s) /\ Blank(s) /\ Guarded(s) /\ Released(s)
    /\ Behind(s) /\ Learns(s) /\ Covers(s) /\ Noticed(s)

-----------------------------------------------------------------------------
(* What one step does to one service.                                        *)

(* A user makes o of the service s.                                          *)
UserWrites(s, o) ==
    \/ ~svc[s].exists /\ o.exists /\ ~o.finalizer /\ ~o.deleting /\ o.uid = svc[s].uid + 1
    \/ /\ svc[s].exists /\ o.exists /\ o.uid = svc[s].uid
       /\ o.finalizer = svc[s].finalizer /\ o.deleting = svc[s].deleting
    \/ /\ svc[s].exists /\ ~svc[s].deleting
       /\ IF svc[s].finalizer THEN o = [svc[s] EXCEPT !.deleting = TRUE]
                              ELSE o = NoSvc(svc[s].uid)

LEMMA UserStep ==
    ASSUME IInv, NEW s \in Services,
           CreateService(s) \/ ChangeIPs(s) \/ ChangeIgnore(s) \/ DeleteService(s)
    PROVE  /\ \E o \in Svc : UserWrites(s, o) /\ svc' = [svc EXCEPT ![s] = o]
           /\ UNCHANGED <<svcCache, serviceCache, pub, pubCache, queue, timer, worker>>
<1>1. svc[s] \in Svc /\ svc[s].uid \in 0 .. MaxEdits /\ svc[s].ignore \in BOOLEAN
  BY DEF IInv, TypeOK, Svc
<1>2. UNCHANGED <<svcCache, serviceCache, pub, pubCache, queue, timer, worker>>
  BY DEF CreateService, ChangeIPs, ChangeIgnore, DeleteService, Edit
<1>3. CASE CreateService(s)
  <2> DEFINE o == [NoSvc(svc[s].uid + 1) EXCEPT !.exists = TRUE]
  <2>1. svc[s].uid + 1 \in 0 .. MaxEdits
    BY <1>1, <1>3, ServiceConstants DEF CreateService, Edit, IInv, Incarnations, TypeOK
  <2>2. o \in Svc /\ o.exists /\ ~o.finalizer /\ ~o.deleting /\ o.uid = svc[s].uid + 1
    BY <2>1 DEF NoSvc, Svc
  <2>3. ~svc[s].exists /\ svc' = [svc EXCEPT ![s] = o]
    BY <1>3 DEF CreateService, Edit
  <2> HIDE DEF o
  <2> QED
    BY <1>2, <2>2, <2>3 DEF UserWrites
<1>4. CASE ChangeIPs(s)
  <2>1. PICK ips \in SUBSET IPs : Edit(s, [svc[s] EXCEPT !.ips = ips]) /\ svc[s].exists
    BY <1>4 DEF ChangeIPs
  <2> DEFINE o == [svc[s] EXCEPT !.ips = ips]
  <2>2. /\ o \in Svc /\ o.exists = svc[s].exists /\ o.uid = svc[s].uid
        /\ o.finalizer = svc[s].finalizer /\ o.deleting = svc[s].deleting
    BY <1>1 DEF Svc
  <2>3. svc' = [svc EXCEPT ![s] = o]
    BY <2>1 DEF Edit
  <2> HIDE DEF o
  <2> QED
    BY <1>2, <2>1, <2>2, <2>3 DEF UserWrites
<1>5. CASE ChangeIgnore(s)
  <2> DEFINE o == [svc[s] EXCEPT !.ignore = ~svc[s].ignore]
  <2>1. svc' = [svc EXCEPT ![s] = o] /\ svc[s].exists
    BY <1>5 DEF ChangeIgnore, Edit
  <2>2. /\ o \in Svc /\ o.exists = svc[s].exists /\ o.uid = svc[s].uid
        /\ o.finalizer = svc[s].finalizer /\ o.deleting = svc[s].deleting
    BY <1>1 DEF Svc
  <2> HIDE DEF o
  <2> QED
    BY <1>2, <2>1, <2>2 DEF UserWrites
<1>6. CASE DeleteService(s)
  <2> DEFINE o == IF svc[s].finalizer THEN [svc[s] EXCEPT !.deleting = TRUE]
                                      ELSE NoSvc(svc[s].uid)
  <2>1. svc[s].exists /\ ~svc[s].deleting /\ svc' = [svc EXCEPT ![s] = o]
    BY <1>6 DEF DeleteService, Edit
  <2>2. o \in Svc
    BY <1>1, ChangeType
  <2>3. UserWrites(s, o)
    BY <2>1 DEF UserWrites
  <2> HIDE DEF o
  <2> QED
    BY <1>2, <2>1, <2>2, <2>3
<1> QED
  BY <1>3, <1>4, <1>5, <1>6

(* The steps of the worker of s leave the caches alone, and only Reconcile   *)
(* takes from the queue.                                                     *)
LEMMA WorkerFrame ==
    ASSUME NEW s \in Services, WorkerStep(s)
    PROVE  /\ UNCHANGED <<svcCache, serviceCache, pubCache>>
           /\ Reconcile(s) \/ UNCHANGED queue
           /\ AddFinalizers(s) \/ RemoveFinalizers(s) \/ UNCHANGED svc
           /\ \/ UNCHANGED pub
              \/ CreateOrUpdate(s) \/ AnnotateListed(s) \/ DeleteOwn(s) \/ DeleteListed(s)
BY DEF WorkerStep, Reconcile, AddFinalizers, CreateOrUpdate, DeleteOwn, List, AnnotateListed,
       DeleteListed, RemoveFinalizers

(* What a deletion request leaves is not alive.                              *)
LEMMA DeletionRequested ==
    ASSUME IInv, NEW s \in Services, NEW ip \in IPs, pub' = [pub EXCEPT ![s][ip] = Deleted(@)]
    PROVE  \A k \in IPs : Live(s, k)' => k # ip /\ Live(s, k)
<1>0. pub \in [Services -> [IPs -> Pub]]
  BY DEF IInv, TypeOK
<1>1. pub[s][ip] \in Pub /\ pub'[s][ip] = Deleted(pub[s][ip])
  BY <1>0
<1>2. ~Live(s, ip)'
  BY <1>1, DeletedType DEF Live
<1>3. \A k \in IPs : k # ip => pub'[s][k] = pub[s][k]
  BY <1>0
<1> QED
  BY <1>2, <1>3 DEF Live

(* The steps of another worker do not touch what belongs to s.               *)
LEMMA OtherWorker ==
    ASSUME IInv, NEW s \in Services, NEW k \in Services \ {s}, WorkerStep(k)
    PROVE  /\ pub'[s] = pub[s] /\ worker'[s] = worker[s] /\ svc'[s] = svc[s]
           /\ (s \in queue => s \in queue') /\ (s \in timer => s \in timer')
<1>0. /\ worker \in [Services -> CoherentWorker] /\ pub \in [Services -> [IPs -> Pub]]
      /\ svc \in [Services -> Svc]
  BY DEF IInv, TypeOK
<1>1. pub'[s] = pub[s]
  <2>1. CASE CreateOrUpdate(k)
    <3>1. UNCHANGED pub \/ \E ip \in IPs, o \in Pub : pub' = [pub EXCEPT ![k][ip] = o]
      BY <2>1, CreateOrUpdateStep
    <3> QED
      BY <1>0, <3>1
  <2>2. CASE AnnotateListed(k)
    <3>1. UNCHANGED pub \/ \E ip \in IPs, o \in Pub : pub' = [pub EXCEPT ![k][ip] = o]
      BY <2>2, AnnotateListedStep
    <3> QED
      BY <1>0, <3>1
  <2>3. CASE DeleteOwn(k) \/ DeleteListed(k)
    <3>1. UNCHANGED pub \/ \E ip \in IPs : pub' = [pub EXCEPT ![k][ip] = Deleted(@)]
      BY <2>3, DeleteOwnStep, DeleteListedStep
    <3> QED
      BY <1>0, <3>1
  <2> QED
    BY <2>1, <2>2, <2>3, WorkerFrame
<1>2. ASSUME NEW u, Becomes(k, u)
      PROVE  worker'[s] = worker[s] /\ (s \in timer => s \in timer')
  BY <1>0, <1>2 DEF Becomes
<1>3. worker'[s] = worker[s] /\ (s \in timer => s \in timer')
  <2>1. CASE Reconcile(k)
    BY <1>0, <2>1 DEF Reconcile
  <2>2. CASE ~Reconcile(k)
    <3>1. \E u : Becomes(k, u)
      BY <2>2, AddFinalizersStep, RemoveFinalizersStep, CreateOrUpdateStep, AnnotateListedStep,
         DeleteOwnStep, ListStep, DeleteListedStep, ContinueType DEF WorkerStep
    <3> QED
      BY <1>2, <3>1
  <2> QED
    BY <2>1, <2>2
<1>4. s \in queue => s \in queue'
  BY WorkerFrame DEF Reconcile
<1>5. svc'[s] = svc[s]
  <2>1. CASE AddFinalizers(k)
    BY <1>0, <2>1, AddFinalizersStep
  <2>2. CASE RemoveFinalizers(k)
    BY <1>0, <2>2, RemoveFinalizersStep
  <2> QED
    BY <2>1, <2>2, WorkerFrame
<1> QED
  BY <1>1, <1>3, <1>4, <1>5

-----------------------------------------------------------------------------
(* Every step keeps what worker, service and caches know.                    *)

(* The steps of everybody else, restarts excepted.                           *)
LEMMA ElsewhereKey ==
    ASSUME IInv, [Next]_vars, NEW s \in Services, KeyInv(s), ~WorkerStep(s), ~Restart
    PROVE  KeyInv(s)'
<1>0. /\ worker \in [Services -> CoherentWorker] /\ pub \in [Services -> [IPs -> Pub]]
      /\ svc \in [Services -> Svc] /\ svcCache \in [Services -> Svc]
      /\ pubCache \in [Services -> [IPs -> Pub]] /\ svc[s] \in Svc
  BY DEF IInv, TypeOK
<1>a. ASSUME /\ worker'[s] = worker[s] /\ svc'[s] = svc[s]
             /\ svcCache'[s] = svcCache[s] /\ pubCache'[s] = pubCache[s]
             /\ \A ip \in IPs : Live(s, ip)' => Live(s, ip)
             /\ (s \in queue => s \in queue') /\ (s \in timer => s \in timer')
      PROVE  KeyInv(s)'
  <2>1. Hollow(s)' /\ Blank(s)' /\ Guarded(s)' /\ Behind(s)' /\ Learns(s)'
    BY <1>a DEF KeyInv, Hollow, Blank, Guarded, Behind, Learns
  <2>2. s \in Services /\ worker[s] \in Worker
    BY <1>0 DEF CoherentWorker
  <2>3. worker[s].obj.ips \subseteq IPs
    BY <2>2 DEF Worker, Svc
  <2>4. Released(s)'
    BY <1>a, <2>3 DEF KeyInv, Released
  <2>5. Covers(s)' /\ Noticed(s)'
    BY <1>a DEF KeyInv, Covers, Noticed
  <2> QED
    BY <2>1, <2>4, <2>5 DEF KeyInv
<1>1. ASSUME NEW k \in Services, WorkerStep(k) PROVE KeyInv(s)'
  BY <1>1, <1>a, OtherWorker, WorkerFrame DEF Live
<1>2. ASSUME NEW k \in Services, SyncService(k) PROVE KeyInv(s)'
  <2>1. /\ svcCache' = [svcCache EXCEPT ![k] = svc[k]]
        /\ UNCHANGED <<svc, pub, pubCache, timer, worker>>
        /\ queue \subseteq queue' /\ (~svc[k].exists => k \in queue')
    <3> DEFINE relevant == svcCache[k].exists /\ svc[k].exists
                             => ServiceChanged(svcCache[k], svc[k], serviceCache[NameOf[k]])
    <3>1. queue' = IF relevant THEN queue \cup {k} ELSE queue
      BY <1>2 DEF SyncService
    <3>2. ~svc[k].exists => relevant
      OBVIOUS
    <3> HIDE DEF relevant
    <3>3. queue \subseteq queue' /\ (~svc[k].exists => k \in queue')
      BY <3>1, <3>2
    <3> QED
      BY <1>2, <3>3 DEF SyncService
  <2>2. CASE k # s
    BY <1>0, <1>a, <2>1, <2>2 DEF Live
  <2>3. CASE k = s
    <3>1. svcCache'[s] = svc[s] /\ (~svc[s].exists => s \in queue') /\ (s \in queue => s \in queue')
      BY <1>0, <2>1, <2>3
    <3>2. Hollow(s)' /\ Blank(s)' /\ Guarded(s)' /\ Released(s)' /\ Behind(s)'
      BY <1>0, <2>1, <3>1 DEF KeyInv, Hollow, Blank, Guarded, Released, Behind, Live, Svc
    <3>3. Learns(s)' /\ Covers(s)' /\ Noticed(s)'
      BY <2>1, <3>1 DEF Learns, Covers, Noticed
    <3> QED
      BY <3>2, <3>3 DEF KeyInv
  <2> QED
    BY <2>2, <2>3
<1>3. ASSUME NEW k \in Services, Resync(k) PROVE KeyInv(s)'
  BY <1>3, <1>a DEF Resync, Live
<1>4. ASSUME NEW n \in Names, Expire(n) PROVE KeyInv(s)'
  BY <1>4, <1>a DEF Expire, Live
<1>5. ASSUME NEW k \in Services, NEW ip \in IPs, SyncPub(k, ip) PROVE KeyInv(s)'
  <2>1. /\ pubCache' = [pubCache EXCEPT ![k][ip] = pub[k][ip]]
        /\ UNCHANGED <<svc, svcCache, pub, timer, worker>> /\ queue \subseteq queue'
        /\ pub[k][ip].exists /\ ~svcCache[k].exists => k \in queue'
    BY <1>5 DEF SyncPub, Requests, handleCreateOrUpdateEvent
  <2>2. CASE k # s
    BY <1>0, <1>a, <2>1, <2>2 DEF Live
  <2>3. CASE k = s
    <3>1. \A j \in IPs : \/ pubCache'[s][j] = pubCache[s][j]
                         \/ j = ip /\ pubCache'[s][j] = pub[s][j]
      BY <1>0, <2>1, <2>3
    <3>2. \A j \in IPs : pubCache'[s][j].exists /\ ~svcCache[s].exists
                           => pubCache[s][j].exists \/ s \in queue'
      BY <2>1, <2>3, <3>1
    <3>3. Hollow(s)' /\ Blank(s)' /\ Guarded(s)' /\ Released(s)' /\ Behind(s)' /\ Learns(s)'
      BY <2>1 DEF KeyInv, Hollow, Blank, Guarded, Released, Behind, Learns, Live
    <3>4. Covers(s)' /\ Noticed(s)'
      BY <2>1, <3>2 DEF KeyInv, Covers, Noticed, Live
    <3> QED
      BY <3>3, <3>4 DEF KeyInv
  <2> QED
    BY <2>2, <2>3
<1>6. ASSUME NEW k \in Services,
             CreateService(k) \/ ChangeIPs(k) \/ ChangeIgnore(k) \/ DeleteService(k)
      PROVE  KeyInv(s)'
  <2>1. PICK o \in Svc : UserWrites(k, o) /\ svc' = [svc EXCEPT ![k] = o]
    BY <1>6, UserStep
  <2>2. UNCHANGED <<svcCache, serviceCache, pub, pubCache, queue, timer, worker>>
    BY <1>6, UserStep
  <2>3. CASE k # s
    BY <1>0, <1>a, <2>1, <2>2, <2>3 DEF Live
  <2>4. CASE k = s
    <3>1. svc'[s] = o /\ UserWrites(s, o)
      BY <1>0, <2>1, <2>4
    <3>2. /\ o.finalizer => o.exists
          /\ svc[s].exists /\ svc[s].finalizer => o.exists /\ o.finalizer
          /\ ~o.exists => o.ips = {}
          /\ o.exists /\ ~svc[s].exists => o.uid = svc[s].uid + 1
          /\ svc[s].exists => o.uid = svc[s].uid
          /\ svc[s].exists \/ o.exists
      BY <1>0, <3>1 DEF UserWrites, NoSvc, Svc, KeyInv, Blank
    <3>3. Hollow(s)' /\ Blank(s)' /\ Guarded(s)'
      BY <2>2, <3>1, <3>2 DEF KeyInv, Hollow, Blank, Guarded
    <3>4. Released(s)' /\ Learns(s)' /\ Covers(s)'
      BY <2>2 DEF KeyInv, Released, Learns, Covers, Live
    <3>5. Behind(s)'
      <4>1. svc[s].uid \in Int /\ svcCache[s].uid \in Int /\ svc[s].exists \in BOOLEAN
        BY <1>0 DEF Svc
      <4> QED
        BY <2>2, <3>1, <3>2, <4>1 DEF KeyInv, Behind
    <3>6. Noticed(s)'
      BY <2>2, <3>1, <3>2 DEF KeyInv, Behind, Noticed
    <3> QED
      BY <3>3, <3>4, <3>5, <3>6 DEF KeyInv
  <2> QED
    BY <2>3, <2>4
<1>7. ASSUME NEW k \in Services, NEW ip \in IPs, FinalizePub(k, ip) \/ FinishPub(k, ip)
      PROVE  KeyInv(s)'
  <2>1. \A j \in IPs : Live(s, j)' => Live(s, j)
    <3> SUFFICES ASSUME NEW j \in IPs PROVE Live(s, j)' => Live(s, j)
      OBVIOUS
    <3>1. CASE s = k /\ j = ip
      BY <1>0, <1>7, <3>1 DEF FinalizePub, FinishPub, NoPub, Pub, Live
    <3>2. CASE ~(s = k /\ j = ip)
      <4>1. pub'[s][j] = pub[s][j]
        BY <1>0, <1>7, <3>2 DEF FinalizePub, FinishPub
      <4> QED
        BY <4>1 DEF Live
    <3> QED
      BY <3>1, <3>2
  <2> QED
    BY <1>7, <1>a, <2>1 DEF FinalizePub, FinishPub
<1>8. CASE UNCHANGED vars
  BY <1>8, <1>a DEF vars, Live
<1> QED
  BY <1>1, <1>2, <1>3, <1>4, <1>5, <1>6, <1>7, <1>8 DEF Next

(* A step of the worker that leaves the service and the queue alone: u is    *)
(* the worker after it.                                                      *)
LEMMA GoesOn ==
    ASSUME IInv, NEW s \in Services, KeyInv(s), worker[s].pc # "idle",
           UNCHANGED <<svc, svcCache, pubCache, queue>>,
           NEW u \in CoherentWorker, Becomes(s, u),
           u.pc # "idle" => u.mode = worker[s].mode /\ u.obj.ips = worker[s].obj.ips,
           u.pc = "idle" => u.mode = "none",
           u.pc = "createOrUpdate" => svc[s].exists /\ svc[s].finalizer,
           u.pc = "removeFinalizers" /\ u.mode = "createOrUpdate" => ~ShouldFinalize(u.obj),
           u.mode = "delete" =>
              \A ip \in u.obj.ips : Live(s, ip)' => u.pc = "deleteOwn" /\ ip \in u.todo,
           u.pc = "listed" /\ u.mode = "ensureDeleted" /\ ~svcCache[s].exists =>
              \A ip \in IPs : Live(s, ip)' /\ pubCache[s][ip].exists
                                => ip \in Items(u) \/ s \in queue,
           u.pc = "idle" /\ worker[s].mode = "ensureDeleted" /\ ~svcCache[s].exists =>
              \A ip \in IPs : Live(s, ip)' /\ pubCache[s][ip].exists
                                => s \in timer' \/ s \in queue
    PROVE  KeyInv(s)'
<1>1. worker'[s] = u
  BY WorkerTyped
<1>2. u.mode = "ensureDeleted" => u.pc # "idle"
  OBVIOUS
<1>3. Hollow(s)'
  BY <1>1, <1>2 DEF KeyInv, Hollow
<1>4. Blank(s)' /\ Behind(s)'
  BY DEF KeyInv, Blank, Behind
<1>5. Guarded(s)'
  BY <1>1 DEF Guarded
<1>6. Released(s)'
  BY <1>1 DEF Released
<1>7. Learns(s)'
  BY <1>1 DEF KeyInv, Learns
<1>8. Covers(s)'
  BY <1>1 DEF Covers
<1>9. Noticed(s)'
  BY <1>1 DEF KeyInv, Learns, Noticed
<1> QED
  BY <1>3, <1>4, <1>5, <1>6, <1>7, <1>8, <1>9 DEF KeyInv

(* It gives up with an error, which is retried, or is not needed any more.   *)
LEMMA GivesUp ==
    ASSUME IInv, NEW s \in Services, KeyInv(s), worker[s].pc # "idle",
           UNCHANGED <<svc, svcCache, pubCache, queue>>, Becomes(s, Idle),
           worker[s].mode = "ensureDeleted" => s \in timer'
    PROVE  KeyInv(s)'
<1>1. Idle \in CoherentWorker /\ Idle.pc = "idle" /\ Idle.mode = "none"
  BY BlankType DEF Idle
<1> QED
  BY <1>1, GoesOn

(* The second loop goes on, w being the worker when it asks for more.        *)
LEMMA LoopGoesOn ==
    ASSUME IInv, NEW s \in Services, KeyInv(s), worker[s].pc # "idle",
           UNCHANGED <<svc, svcCache, pubCache, queue>>,
           NEW w \in CoherentWorker, w.pc = "listed", Continue(s, w),
           w.mode = worker[s].mode, w.obj = worker[s].obj,
           w.mode = "delete" => \A ip \in w.obj.ips : ~Live(s, ip)',
           w.mode = "ensureDeleted" /\ ~svcCache[s].exists =>
              \A ip \in IPs : Live(s, ip)' /\ pubCache[s][ip].exists
                                => ip \in Items(w) \/ s \in queue
    PROVE  KeyInv(s)'
<1>1. PICK u \in CoherentWorker :
         /\ Becomes(s, u)
         /\ \/ u = w
            \/ u = Idle /\ Items(w) = {} /\ (w.mode = "ensureDeleted" \/ s \in timer')
            \/ /\ u = [w EXCEPT !.pc = "removeFinalizers"] /\ Items(w) = {}
               /\ w.mode = "createOrUpdate" => ~ShouldFinalize(w.obj)
  BY ContinueType
<1>2. CASE u = w
  BY <1>1, <1>2, GoesOn
<1>3. CASE u = Idle /\ Items(w) = {}
  <2>1. u.pc = "idle" /\ u.mode = "none"
    BY <1>3 DEF Idle
  <2> QED
    BY <1>1, <1>3, <2>1, GoesOn
<1>4. CASE u = [w EXCEPT !.pc = "removeFinalizers"]
           /\ (w.mode = "createOrUpdate" => ~ShouldFinalize(w.obj))
  <2>1. u.pc = "removeFinalizers" /\ u.mode = w.mode /\ u.obj = w.obj
    BY <1>4 DEF CoherentWorker, Worker
  <2> QED
    BY <1>1, <1>4, <2>1, GoesOn
<1> QED
  BY <1>1, <1>2, <1>3, <1>4

(* How a reconciliation begins.                                              *)
LEMMA DispatchStarts ==
    ASSUME NEW o \in Svc
    PROVE  LET u == Dispatch(o)
           IN  /\ u.pc \in {"idle", "addFinalizers", "deleteOwn", "list"}
               /\ u.mode = "ensureDeleted" => ~o.exists /\ u.obj = o
               /\ u.pc # "idle" /\ u.mode # "ensureDeleted" => o.exists
               /\ ~o.exists => u.pc # "idle"
               /\ u.mode = "delete" /\ u.obj.ips # {} => u.pc = "deleteOwn" /\ u.todo = u.obj.ips
<1> DEFINE start(mode, pc) == [Idle EXCEPT !.mode = mode, !.pc = pc, !.obj = o, !.todo = o.ips]
<1>0. \A mode, pc : /\ start(mode, pc).mode = mode /\ start(mode, pc).pc = pc
                    /\ start(mode, pc).obj = o /\ start(mode, pc).todo = o.ips
  BY DEF Idle
<1>1. CASE ~o.exists
  <2>1. Dispatch(o) = start("ensureDeleted", "list")
    BY <1>1 DEF Dispatch
  <2> HIDE DEF start
  <2> QED
    BY <1>0, <1>1, <2>1
<1>2. CASE o.exists /\ o.deleting /\ ~o.finalizer
  <2>1. Dispatch(o) = Idle
    BY <1>2 DEF Dispatch
  <2> QED
    BY <1>2, <2>1 DEF Idle
<1>3. CASE o.exists /\ o.deleting /\ o.finalizer
  <2>1. Dispatch(o) = start("delete", IF o.ips = {} THEN "list" ELSE "deleteOwn")
    BY <1>3 DEF Dispatch
  <2> HIDE DEF start
  <2> QED
    BY <1>0, <1>3, <2>1
<1>4. CASE o.exists /\ ~o.deleting /\ ShouldFinalize(o)
  <2>1. Dispatch(o) = start("createOrUpdate", "addFinalizers")
    BY <1>4 DEF Dispatch
  <2> HIDE DEF start
  <2> QED
    BY <1>0, <1>4, <2>1
<1>5. CASE o.exists /\ ~o.deleting /\ ~ShouldFinalize(o)
  <2>1. Dispatch(o) = IF o.finalizer THEN start("createOrUpdate", "list") ELSE Idle
    BY <1>5 DEF Dispatch
  <2>2. CASE o.finalizer
    <3> HIDE DEF start
    <3> QED
      BY <1>0, <1>5, <2>1, <2>2
  <2>3. CASE ~o.finalizer
    BY <1>5, <2>1, <2>3 DEF Idle
  <2> QED
    BY <2>2, <2>3
<1>6. o.exists \in BOOLEAN /\ o.deleting \in BOOLEAN /\ o.finalizer \in BOOLEAN
  BY DEF Svc
<1> QED
  BY <1>1, <1>2, <1>3, <1>4, <1>5, <1>6

(* The steps of the worker of s.                                             *)
LEMMA WorkerKey ==
    ASSUME IInv, NEW s \in Services, KeyInv(s), WorkerStep(s)
    PROVE  KeyInv(s)'
<1> DEFINE w == worker[s]
<1>0. /\ worker \in [Services -> CoherentWorker] /\ pub \in [Services -> [IPs -> Pub]]
      /\ svc \in [Services -> Svc] /\ svcCache \in [Services -> Svc]
      /\ pubCache \in [Services -> [IPs -> Pub]]
      /\ w \in CoherentWorker /\ Coherent(w) /\ w.obj \in Svc /\ w.obj.ips \subseteq IPs
      /\ svc[s] \in Svc /\ svcCache[s] \in Svc
  BY DEF IInv, TypeOK, CoherentWorker, Worker, Svc
<1>1. CASE Reconcile(s)
  <2> DEFINE u == Dispatch(svcCache[s])
  <2>1. worker'[s] = u /\ UNCHANGED <<svc, svcCache, pub, pubCache>>
    BY <1>0, <1>1 DEF Reconcile
  <2>2. /\ u.pc \in {"idle", "addFinalizers", "deleteOwn", "list"}
        /\ u.mode = "ensureDeleted" => ~svcCache[s].exists /\ u.obj = svcCache[s]
        /\ u.pc # "idle" /\ u.mode # "ensureDeleted" => svcCache[s].exists
        /\ ~svcCache[s].exists => u.pc # "idle"
        /\ u.mode = "delete" /\ u.obj.ips # {} => u.pc = "deleteOwn" /\ u.todo = u.obj.ips
    BY <1>0, DispatchStarts
  <2> HIDE DEF u
  <2>3. Hollow(s)' /\ Blank(s)' /\ Guarded(s)' /\ Behind(s)'
    BY <2>1, <2>2 DEF KeyInv, Hollow, Blank, Guarded, Behind
  <2>4. Released(s)'
    BY <2>1, <2>2 DEF Released
  <2>5. Learns(s)' /\ Covers(s)' /\ Noticed(s)'
    BY <2>1, <2>2 DEF Learns, Covers, Noticed
  <2> QED
    BY <2>3, <2>4, <2>5 DEF KeyInv
<1>2. CASE AddFinalizers(s)
  <2>1. UNCHANGED <<svcCache, pub, pubCache, queue>> /\ w.pc = "addFinalizers"
    BY <1>2 DEF AddFinalizers
  <2>2. w.mode = "createOrUpdate"
    BY <1>0, <2>1 DEF Coherent
  <2>3. PICK u \in CoherentWorker :
           /\ Becomes(s, u)
           /\ \/ u = Idle /\ UNCHANGED svc
              \/ /\ svc[s] = w.obj /\ svc[s].exists /\ ~svc[s].deleting
                 /\ u.obj = [w.obj EXCEPT !.finalizer = TRUE]
                 /\ u.mode = "createOrUpdate" /\ u.pc = "createOrUpdate"
                 /\ svc' = [svc EXCEPT ![s] = u.obj]
    BY <1>2, AddFinalizersStep
  <2>4. CASE u = Idle /\ UNCHANGED svc
    BY <2>1, <2>2, <2>3, <2>4, GivesUp
  <2>5. CASE /\ svc[s] = w.obj /\ svc[s].exists
             /\ u.obj = [w.obj EXCEPT !.finalizer = TRUE]
             /\ u.mode = "createOrUpdate" /\ u.pc = "createOrUpdate"
             /\ svc' = [svc EXCEPT ![s] = u.obj]
    <3>1. worker'[s] = u /\ svc'[s] = u.obj
      BY <1>0, <2>3, <2>5, WorkerTyped
    <3>2. u.obj.exists /\ u.obj.finalizer /\ u.obj.uid = svc[s].uid
      BY <1>0, <2>5 DEF Svc
    <3>3. Hollow(s)' /\ Blank(s)' /\ Guarded(s)' /\ Behind(s)'
      BY <2>1, <2>5, <3>1, <3>2 DEF KeyInv, Hollow, Blank, Guarded, Behind
    <3>4. Released(s)' /\ Covers(s)' /\ Noticed(s)'
      BY <2>5, <3>1 DEF Released, Covers, Noticed
    <3>5. Learns(s)'
      BY <2>1, <2>2, <3>1 DEF KeyInv, Learns
    <3> QED
      BY <3>3, <3>4, <3>5 DEF KeyInv
  <2> QED
    BY <2>3, <2>4, <2>5
<1>3. CASE RemoveFinalizers(s)
  <2>1. UNCHANGED <<svcCache, pub, pubCache, queue>> /\ w.pc = "removeFinalizers"
    BY <1>3 DEF RemoveFinalizers
  <2>2. w.mode # "ensureDeleted"
    BY <1>0, <2>1 DEF Coherent
  <2>3. CASE UNCHANGED svc
    BY <1>3, <2>1, <2>2, <2>3, GivesUp, RemoveFinalizersStep
  <2> DEFINE o == IF svc[s].deleting THEN NoSvc(svc[s].uid)
                                     ELSE [svc[s] EXCEPT !.finalizer = FALSE]
  <2>4. CASE svc[s].exists /\ svc' = [svc EXCEPT ![s] = o]
    <3>1. worker'[s] = Idle
      BY <1>3, RemoveFinalizersStep, WorkerTyped, BlankType
    <3>2. /\ ~o.finalizer /\ o.uid = svc[s].uid
          /\ (o.exists /\ svc[s].exists) \/ (~o.exists /\ o.ips = {})
      <4>1. CASE svc[s].deleting
        BY <4>1 DEF NoSvc
      <4>2. CASE ~svc[s].deleting
        <5>1. /\ ~[svc[s] EXCEPT !.finalizer = FALSE].finalizer
              /\ [svc[s] EXCEPT !.finalizer = FALSE].uid = svc[s].uid
              /\ [svc[s] EXCEPT !.finalizer = FALSE].exists
          BY <1>0, <2>4 DEF Svc
        <5>2. svc[s].exists /\ o = [svc[s] EXCEPT !.finalizer = FALSE]
          BY <2>4, <4>2
        <5> HIDE DEF o
        <5> QED
          BY <5>1, <5>2
      <4> QED
        BY <4>1, <4>2
    <3> HIDE DEF o
    <3>3. svc'[s] = o
      BY <1>0, <2>4
    <3>4. Idle.pc = "idle" /\ Idle.mode = "none"
      BY DEF Idle
    <3>5. Hollow(s)' /\ Blank(s)' /\ Guarded(s)' /\ Behind(s)'
      BY <2>1, <2>4, <3>1, <3>2, <3>3, <3>4 DEF KeyInv, Hollow, Blank, Guarded, Behind
    <3>6. Released(s)' /\ Learns(s)' /\ Covers(s)'
      BY <3>1, <3>4 DEF Released, Learns, Covers
    <3>7. Noticed(s)'
      BY <2>1, <2>2 DEF KeyInv, Learns, Noticed
    <3> QED
      BY <3>5, <3>6, <3>7 DEF KeyInv
  <2> QED
    BY <1>3, <2>3, <2>4, RemoveFinalizersStep
<1>4. CASE CreateOrUpdate(s)
  <2>1. UNCHANGED <<svc, svcCache, pubCache, queue>> /\ w.pc = "createOrUpdate"
    BY <1>4 DEF CreateOrUpdate
  <2>2. PICK u \in CoherentWorker :
           /\ Becomes(s, u)
           /\ \/ u = Idle
              \/ /\ u.mode = "createOrUpdate" /\ u.obj = w.obj
                 /\ u.pc \in {"createOrUpdate", "list"}
    BY <1>4, CreateOrUpdateStep
  <2>3. w.mode = "createOrUpdate"
    BY <1>4, CreateOrUpdateStep
  <2>4. svc[s].exists /\ svc[s].finalizer
    BY <2>1 DEF KeyInv, Guarded
  <2>5. CASE u = Idle
    BY <2>1, <2>2, <2>3, <2>5, GivesUp
  <2>6. CASE /\ u.mode = "createOrUpdate" /\ u.obj = w.obj
             /\ u.pc \in {"createOrUpdate", "list"}
    BY <2>1, <2>2, <2>3, <2>4, <2>6, GoesOn
  <2> QED
    BY <2>2, <2>5, <2>6
<1>5. CASE DeleteOwn(s)
  <2>1. UNCHANGED <<svc, svcCache, pubCache, queue>> /\ w.pc = "deleteOwn"
    BY <1>5 DEF DeleteOwn
  <2>2. w.mode = "delete"
    BY <1>0, <2>1 DEF Coherent
  <2>3. CASE Becomes(s, Idle)
    BY <2>1, <2>2, <2>3, GivesUp
  <2>4. ASSUME NEW ip \in IPs, NextOwn(w, ip) \in CoherentWorker, Becomes(s, NextOwn(w, ip)),
               pub' = [pub EXCEPT ![s][ip] = Deleted(@)]
        PROVE  KeyInv(s)'
    <3> DEFINE u == NextOwn(w, ip)
    <3>1. /\ u.mode = "delete" /\ u.obj = w.obj /\ u.todo = w.todo \ {ip}
          /\ u.pc = IF w.todo \ {ip} = {} THEN "list" ELSE "deleteOwn"
      BY <1>0, <2>1, <2>2, NextOwnType
    <3> HIDE DEF u
    <3>2. \A k \in u.obj.ips : Live(s, k)' => u.pc = "deleteOwn" /\ k \in u.todo
      <4> SUFFICES ASSUME NEW k \in u.obj.ips, Live(s, k)'
                   PROVE  u.pc = "deleteOwn" /\ k \in u.todo
        OBVIOUS
      <4>1. k # ip /\ Live(s, k)
        BY <1>0, <2>4, <3>1, DeletionRequested
      <4>2. k \in w.todo
        BY <2>2, <3>1, <4>1 DEF KeyInv, Released
      <4> QED
        BY <3>1, <4>1, <4>2
    <3> QED
      BY <2>1, <2>2, <2>4, <3>1, <3>2, GoesOn DEF u
  <2> QED
    BY <1>5, <2>3, <2>4, DeleteOwnStep
<1>6. CASE List(s)
  <2>1. UNCHANGED <<svc, svcCache, pub, pubCache, queue>> /\ w.pc = "list"
    BY <1>6 DEF List
  <2>2. PICK u \in CoherentWorker :
           /\ u.pc = "listed" /\ Continue(s, u)
           /\ u.mode = w.mode /\ u.obj = w.obj
           /\ \A ip \in IPs : ip \notin u.obj.ips => u.items[ip] = pubCache[s][ip]
    BY <1>6, ListStep
  <2>3. u.mode = "delete" => \A ip \in u.obj.ips : ~Live(s, ip)'
    BY <2>1, <2>2 DEF KeyInv, Released, Live
  <2>4. u.mode = "ensureDeleted" =>
           \A ip \in IPs : pubCache[s][ip].exists => ip \in Items(u)
    BY <2>2 DEF KeyInv, Hollow, Items
  <2> QED
    BY <2>1, <2>2, <2>3, <2>4, LoopGoesOn
<1>7. CASE AnnotateListed(s)
  <2>1. UNCHANGED <<svc, svcCache, pubCache, queue>> /\ w.pc = "listed"
    BY <1>7 DEF AnnotateListed
  <2>2. PICK u \in CoherentWorker :
           /\ Becomes(s, u)
           /\ \/ u = Idle
              \/ u.mode = "createOrUpdate" /\ u.obj = w.obj /\ u.pc = "listed"
    BY <1>7, AnnotateListedStep
  <2>3. w.mode = "createOrUpdate"
    BY <1>7, AnnotateListedStep
  <2>4. CASE u = Idle
    BY <2>1, <2>2, <2>3, <2>4, GivesUp
  <2>5. CASE u.mode = "createOrUpdate" /\ u.obj = w.obj /\ u.pc = "listed"
    BY <2>1, <2>2, <2>3, <2>5, GoesOn
  <2> QED
    BY <2>2, <2>4, <2>5
<1>8. CASE DeleteListed(s)
  <2>1. UNCHANGED <<svc, svcCache, pubCache, queue>> /\ w.pc = "listed"
    BY <1>8 DEF DeleteListed
  <2>2. CASE Becomes(s, Idle) /\ s \in timer'
    BY <2>1, <2>2, GivesUp
  <2>3. ASSUME NEW ip \in IPs, NEW u \in CoherentWorker,
               u = [w EXCEPT !.items[ip] = NoPub, !.annotated = NoIP],
               u.pc = "listed", Continue(s, u), pub' = [pub EXCEPT ![s][ip] = Deleted(@)]
        PROVE  KeyInv(s)'
    <3>1. /\ u.mode = w.mode /\ u.obj = w.obj
          /\ \A k \in IPs \ {ip} : u.items[k] = w.items[k]
      BY <1>0, <2>3 DEF CoherentWorker, Worker
    <3>2. \A k \in IPs : Live(s, k)' => k # ip /\ Live(s, k)
      BY <2>3, DeletionRequested
    <3>3. u.mode = "delete" => \A k \in u.obj.ips : ~Live(s, k)'
      BY <1>0, <2>1, <3>1, <3>2 DEF KeyInv, Released
    <3>4. u.mode = "ensureDeleted" /\ ~svcCache[s].exists =>
             \A k \in IPs : Live(s, k)' /\ pubCache[s][k].exists
                              => k \in Items(u) \/ s \in queue
      BY <2>1, <3>1, <3>2 DEF KeyInv, Covers, Items
    <3> QED
      BY <2>1, <2>3, <3>1, <3>3, <3>4, LoopGoesOn
  <2> QED
    BY <1>8, <2>2, <2>3, DeleteListedStep
<1> QED
  BY <1>1, <1>2, <1>3, <1>4, <1>5, <1>6, <1>7, <1>8 DEF WorkerStep

(* A new process knows what the API server knows, and reconciles the owner   *)
(* of every resource whose owner is gone.                                    *)
LEMMA RestartKey ==
    ASSUME IInv, NEW s \in Services, KeyInv(s), Restart
    PROVE  KeyInv(s)'
<1>0. worker'[s] = Idle /\ Idle.pc = "idle" /\ Idle.mode = "none"
  BY DEF Restart, Idle
<1>1. svcCache' = svc /\ pubCache' = pub /\ UNCHANGED <<svc, pub>> /\ svc[s] \in Svc
  BY DEF Restart, IInv, TypeOK
<1>2. Hollow(s)' /\ Blank(s)' /\ Guarded(s)' /\ Released(s)' /\ Learns(s)' /\ Covers(s)'
  BY <1>0, <1>1 DEF KeyInv, Hollow, Blank, Guarded, Released, Learns, Covers
<1>3. Behind(s)'
  BY <1>1 DEF Behind, Svc
<1>4. Noticed(s)'
  <2> SUFFICES ASSUME ~svc[s].exists, NEW ip \in IPs, pub[s][ip].exists
               PROVE  s \in queue'
    BY <1>1 DEF Noticed
  <2>1. handleCreateOrUpdateEvent(svc[s], pub[s][ip])
    BY DEF handleCreateOrUpdateEvent
  <2> QED
    BY <2>1 DEF Restart
<1> QED
  BY <1>2, <1>3, <1>4 DEF KeyInv

(* Together with the types, an inductive invariant.                          *)
KInv == IInv /\ \A s \in Services : KeyInv(s)

LEMMA KeyInitial == Init => KInv
<1> SUFFICES ASSUME Init PROVE KInv
  OBVIOUS
<1>1. \A s \in Services : /\ svc[s] = NoSvc(0) /\ svcCache[s] = NoSvc(0) /\ worker[s] = Idle
                          /\ \A ip \in IPs : pub[s][ip] = NoPub
  BY DEF Init, NoItems
<1>2. /\ ~NoSvc(0).exists /\ NoSvc(0).ips = {} /\ ~NoSvc(0).finalizer /\ NoSvc(0).uid = 0
      /\ Idle.pc = "idle" /\ Idle.mode = "none" /\ ~NoPub.exists
  BY DEF NoSvc, Idle, NoPub
<1>3. \A s \in Services : KeyInv(s)
  BY <1>1, <1>2 DEF KeyInv, Hollow, Blank, Guarded, Released, Behind, Learns, Covers, Noticed, Live
<1> QED
  BY <1>3, Initial DEF KInv

LEMMA KeyInductive == KInv /\ [Next]_vars => KInv'
<1> SUFFICES ASSUME KInv, [Next]_vars PROVE KInv'
  OBVIOUS
<1>1. IInv'
  BY Inductive DEF KInv
<1>2. \A s \in Services : KeyInv(s)'
  BY ElsewhereKey, WorkerKey, RestartKey DEF KInv
<1> QED
  BY <1>1, <1>2 DEF KInv

LEMMA KeyInvariant == Spec => []KInv
BY KeyInitial, KeyInductive, PTL DEF Spec

-----------------------------------------------------------------------------
(* A resource that outlives its service is not overlooked, whatever fails    *)
(* and however the caches lag behind: whenever the controller rests and both *)
(* caches are current, there is none.                                        *)
THEOREM OrphansNoticed == Spec => []OrphansAreNoticed
<1>1. KInv => OrphansAreNoticed
  <2> SUFFICES ASSUME KInv, NEW s \in Services, NEW ip \in IPs, ~svc[s].exists, Live(s, ip),
                      svcCache[s] = svc[s], pubCache[s][ip] = pub[s][ip],
                      worker[s].pc = "idle"
               PROVE  s \in queue \cup timer
    BY DEF OrphansAreNoticed
  <2> QED
    BY DEF KInv, KeyInv, Noticed, Live
<1> QED
  BY <1>1, KeyInvariant, PTL

-----------------------------------------------------------------------------
(* How a service is written: o takes its place.                              *)
Writes(s, o) ==
    \/ UserWrites(s, o)
    \/ svc[s].exists /\ ~svc[s].deleting /\ o = [svc[s] EXCEPT !.finalizer = TRUE]
    \/ /\ svc[s].exists /\ ~svc[s].deleting /\ o = [svc[s] EXCEPT !.finalizer = FALSE]
       /\ ~ShouldFinalize(svc[s])
    \/ /\ svc[s].exists /\ svc[s].deleting /\ o = NoSvc(svc[s].uid)
       /\ \A ip \in svc[s].ips : ~Live(s, ip)

(* Every step writes one service, or none.                                   *)
LEMMA ServiceWrites ==
    ASSUME KInv, [Next]_vars
    PROVE  \/ UNCHANGED svc
           \/ UNCHANGED pub /\ \E s \in Services : \E o \in Svc :
                 Writes(s, o) /\ svc' = [svc EXCEPT ![s] = o]
<1>0. \A s \in Services : svc[s] \in Svc /\ worker[s] \in CoherentWorker
  BY DEF KInv, IInv, TypeOK
<1>1. ASSUME NEW s \in Services, AddFinalizers(s), ~UNCHANGED svc
      PROVE  UNCHANGED pub /\ \E o \in Svc : Writes(s, o) /\ svc' = [svc EXCEPT ![s] = o]
  <2>1. PICK u \in CoherentWorker :
           /\ svc[s] = worker[s].obj /\ svc[s].exists /\ ~svc[s].deleting
           /\ u.obj = [worker[s].obj EXCEPT !.finalizer = TRUE]
           /\ svc' = [svc EXCEPT ![s] = u.obj]
    BY <1>1, AddFinalizersStep DEF KInv
  <2>2. u.obj \in Svc /\ Writes(s, u.obj)
    BY <2>1 DEF Writes, CoherentWorker, Worker
  <2> QED
    BY <1>1, <2>1, <2>2 DEF AddFinalizers
<1>2. ASSUME NEW s \in Services, RemoveFinalizers(s), ~UNCHANGED svc
      PROVE  UNCHANGED pub /\ \E o \in Svc : Writes(s, o) /\ svc' = [svc EXCEPT ![s] = o]
  <2> DEFINE o == IF svc[s].deleting THEN NoSvc(svc[s].uid)
                                     ELSE [svc[s] EXCEPT !.finalizer = FALSE]
  <2>1. svc[s].exists /\ svc[s] = worker[s].obj /\ svc' = [svc EXCEPT ![s] = o]
    BY <1>2, RemoveFinalizersStep DEF KInv
  <2>2. worker[s].pc = "removeFinalizers"
    BY <1>2 DEF RemoveFinalizers
  <2>3. /\ worker[s].mode = IF svc[s].deleting THEN "delete" ELSE "createOrUpdate"
    BY <1>0, <2>1, <2>2 DEF CoherentWorker, Coherent
  <2>4. ASSUME svc[s].deleting PROVE o = NoSvc(svc[s].uid) /\ \A ip \in svc[s].ips : ~Live(s, ip)
    BY <2>1, <2>2, <2>3, <2>4 DEF KInv, KeyInv, Released
  <2>5. ASSUME ~svc[s].deleting
        PROVE  o = [svc[s] EXCEPT !.finalizer = FALSE] /\ ~ShouldFinalize(svc[s])
    BY <2>1, <2>2, <2>3, <2>5 DEF KInv, KeyInv, Guarded
  <2>6. o \in Svc
    BY <1>0, ChangeType
  <2> HIDE DEF o
  <2>7. Writes(s, o)
    BY <2>1, <2>4, <2>5 DEF Writes
  <2> QED
    BY <1>2, <2>1, <2>6, <2>7 DEF RemoveFinalizers
<1>3. ASSUME NEW s \in Services,
             CreateService(s) \/ ChangeIPs(s) \/ ChangeIgnore(s) \/ DeleteService(s)
      PROVE  UNCHANGED pub /\ \E o \in Svc : Writes(s, o) /\ svc' = [svc EXCEPT ![s] = o]
  BY <1>3, UserStep DEF Writes, KInv
<1>4. ASSUME NEW s \in Services, WorkerStep(s), ~AddFinalizers(s), ~RemoveFinalizers(s)
      PROVE  UNCHANGED svc
  BY <1>4, WorkerFrame
<1>5. ASSUME NEW s \in Services,
             \/ SyncService(s) \/ Resync(s)
             \/ \E ip \in IPs : SyncPub(s, ip) \/ FinalizePub(s, ip) \/ FinishPub(s, ip)
      PROVE  UNCHANGED svc
  BY <1>5 DEF SyncService, Resync, SyncPub, FinalizePub, FinishPub
<1>6. ASSUME (\E n \in Names : Expire(n)) \/ Restart \/ UNCHANGED vars PROVE UNCHANGED svc
  BY <1>6 DEF Expire, Restart, vars
<1> QED
  BY <1>1, <1>2, <1>3, <1>4, <1>5, <1>6 DEF Next

(* A service that had the finalizer goes when none of its addresses is left  *)
(* with a PublicIPAddress without a deletion timestamp: what the README of   *)
(* the repository promises of a finalizer.                                   *)
THEOREM FinalizerGoesLast == Spec => FinalizerProtects
<1> DEFINE Protects == \A s \in Services : svc[s].finalizer /\ ~svc'[s].exists
                                             => \A ip \in svc[s].ips : ~Live(s, ip)
<1>1. KInv /\ [Next]_vars => [Protects]_vars
  <2> SUFFICES ASSUME KInv, [Next]_vars, NEW s \in Services, svc[s].finalizer, ~svc'[s].exists
               PROVE  \A ip \in svc[s].ips : ~Live(s, ip)
    OBVIOUS
  <2>1. svc[s].exists /\ ~UNCHANGED svc /\ svc \in [Services -> Svc] /\ svc[s] \in Svc
    BY DEF KInv, KeyInv, Blank, IInv, TypeOK
  <2>2. PICK k \in Services : \E o \in Svc : Writes(k, o) /\ svc' = [svc EXCEPT ![k] = o]
    BY <2>1, ServiceWrites
  <2>3. PICK o \in Svc : Writes(k, o) /\ svc' = [svc EXCEPT ![k] = o]
    BY <2>2
  <2>4. s = k /\ ~o.exists
    BY <2>1, <2>3
  <2> QED
    BY <2>1, <2>3, <2>4 DEF Writes, UserWrites, Svc
<1> QED
  BY <1>1, KeyInvariant, PTL DEF Spec, FinalizerProtects

-----------------------------------------------------------------------------
(* The refinement mapping, service by service.                               *)
PhaseOf(o) ==
    IF ~o.exists THEN "absent"
    ELSE IF o.deleting THEN "dying"
    ELSE IF o.finalizer THEN "guarded" ELSE "live"

WantedOf(o) == IF o.ignore THEN {} ELSE o.ips

Phase == [s \in Services |-> PhaseOf(svc[s])]

Needs == [s \in Services |-> WantedOf(svc[s])]

Made == [s \in Services |-> {ip \in IPs : Live(s, ip)}]

(* The phase of s turns, and its needs become ips.                           *)
Turns(s, from, to) == Phase[s] = from /\ Phase' = [Phase EXCEPT ![s] = to]

NeedsOnly(s, ips) == Needs' = [Needs EXCEPT ![s] = ips]

(* The actions of Finalization under the mapping.                            *)
LEMMA Mapped ==
    /\ Phase' = Phase /\ Needs' = Needs /\ Made' = Made => UNCHANGED Lifecycle!vars
    /\ \A s \in Services :
          /\ \A ips \in SUBSET IPs :
               /\ Made' = Made /\ Turns(s, "absent", "live") /\ NeedsOnly(s, ips) => Lifecycle!Next
               /\ Made' = Made /\ Phase' = Phase /\ Phase[s] # "absent" /\ NeedsOnly(s, ips)
                    => Lifecycle!Next
          /\ Made' = Made /\ Turns(s, "live", "absent") /\ NeedsOnly(s, {}) => Lifecycle!Next
          /\ Made' = Made /\ Turns(s, "guarded", "dying") /\ Needs' = Needs => Lifecycle!Next
          /\ Made' = Made /\ Turns(s, "live", "guarded") /\ Needs' = Needs => Lifecycle!Next
          /\ Made' = Made /\ Turns(s, "guarded", "live") /\ Needs' = Needs /\ Needs[s] = {}
               => Lifecycle!Next
          /\ Made' = Made /\ Turns(s, "dying", "absent") /\ NeedsOnly(s, {})
             /\ Needs[s] \cap Made[s] = {} => Lifecycle!Next
          /\ \A ip \in IPs :
               /\ Phase' = Phase /\ Needs' = Needs /\ Made' = [Made EXCEPT ![s] = @ \ {ip}]
                    => Lifecycle!Next
               /\ Phase' = Phase /\ Needs' = Needs /\ Made' = [Made EXCEPT ![s] = @ \cup {ip}]
                  /\ Phase[s] \in {"guarded", "dying"} => Lifecycle!Next
<1>0. Phase' = Phase /\ Needs' = Needs /\ Made' = Made => UNCHANGED Lifecycle!vars
  BY DEF Lifecycle!vars, Phase, PhaseOf, Needs, WantedOf, Made
<1> USE DEF Turns, NeedsOnly, Phase, PhaseOf, Needs, WantedOf, Made, Lifecycle!Move, Lifecycle!Wants
<1>1. ASSUME NEW s \in Services, NEW ips \in SUBSET IPs, Made' = Made, NeedsOnly(s, ips)
      PROVE  /\ Turns(s, "absent", "live") => Lifecycle!Create(s)
             /\ Phase' = Phase /\ Phase[s] # "absent" => Lifecycle!Edit(s)
  BY <1>1 DEF Lifecycle!Create, Lifecycle!Edit
<1>2. ASSUME NEW s \in Services, Made' = Made
      PROVE  /\ Turns(s, "live", "absent") /\ NeedsOnly(s, {}) => Lifecycle!Delete(s)
             /\ Turns(s, "guarded", "dying") /\ Needs' = Needs => Lifecycle!Delete(s)
  BY <1>2 DEF Lifecycle!Delete
<1>3. ASSUME NEW s \in Services, Made' = Made, Needs' = Needs
      PROVE  /\ Turns(s, "live", "guarded") => Lifecycle!Finalize(s)
             /\ Turns(s, "guarded", "live") /\ Needs[s] = {} => Lifecycle!Unfinalize(s)
  BY <1>3 DEF Lifecycle!Finalize, Lifecycle!Unfinalize
<1>4. ASSUME NEW s \in Services, Made' = Made, NeedsOnly(s, {}), Turns(s, "dying", "absent"),
             Needs[s] \cap Made[s] = {}
      PROVE  Lifecycle!Finish(s)
  BY <1>4 DEF Lifecycle!Finish
<1>5. ASSUME NEW s \in Services, NEW ip \in IPs, Phase' = Phase, Needs' = Needs
      PROVE  /\ Made' = [Made EXCEPT ![s] = @ \ {ip}] => Lifecycle!Discard(s, ip)
             /\ Made' = [Made EXCEPT ![s] = @ \cup {ip}] /\ Phase[s] \in {"guarded", "dying"}
                  => Lifecycle!Make(s, ip)
  BY <1>5 DEF Lifecycle!Discard, Lifecycle!Make
<1> HIDE DEF Turns, NeedsOnly, Phase, Needs, Made
<1> QED
  BY <1>0, <1>1, <1>2, <1>3, <1>4, <1>5 DEF Lifecycle!Next

(* Every step changes one resource, or none.                                 *)
LEMMA PubWrites ==
    ASSUME KInv, [Next]_vars
    PROVE  \/ UNCHANGED pub
           \/ UNCHANGED svc /\ \E s \in Services, ip \in IPs : \E o \in Pub :
                 /\ pub' = [pub EXCEPT ![s][ip] = o]
                 /\ o.exists /\ ~o.deleting
                      => Live(s, ip) \/ (svc[s].exists /\ svc[s].finalizer)
<1>0. pub \in [Services -> [IPs -> Pub]] /\ IInv
  BY DEF KInv, IInv, TypeOK
<1> DEFINE Changes(s, ip, o) ==
      /\ pub' = [pub EXCEPT ![s][ip] = o]
      /\ o.exists /\ ~o.deleting => Live(s, ip) \/ (svc[s].exists /\ svc[s].finalizer)
<1>1. ASSUME NEW s \in Services, CreateOrUpdate(s), ~UNCHANGED pub
      PROVE  UNCHANGED svc /\ \E ip \in IPs : \E o \in Pub : Changes(s, ip, o)
  <2>1. worker[s].pc = "createOrUpdate" /\ UNCHANGED svc
    BY <1>1 DEF CreateOrUpdate
  <2>2. svc[s].exists /\ svc[s].finalizer
    BY <2>1 DEF KInv, KeyInv, Guarded
  <2> QED
    BY <1>0, <1>1, <2>1, <2>2, CreateOrUpdateStep
<1>2. ASSUME NEW s \in Services, AnnotateListed(s), ~UNCHANGED pub
      PROVE  UNCHANGED svc /\ \E ip \in IPs : \E o \in Pub : Changes(s, ip, o)
  <2>1. UNCHANGED svc
    BY <1>2 DEF AnnotateListed
  <2>2. PICK ip \in IPs, o \in Pub :
           /\ pub' = [pub EXCEPT ![s][ip] = o]
           /\ o.exists = pub[s][ip].exists /\ o.deleting = pub[s][ip].deleting
    BY <1>0, <1>2, AnnotateListedStep
  <2>3. Changes(s, ip, o)
    BY <2>2 DEF Live
  <2> QED
    BY <2>1, <2>3
<1>3. ASSUME NEW s \in Services, DeleteOwn(s) \/ DeleteListed(s), ~UNCHANGED pub
      PROVE  UNCHANGED svc /\ \E ip \in IPs : \E o \in Pub : Changes(s, ip, o)
  <2>1. UNCHANGED svc
    BY <1>3 DEF DeleteOwn, DeleteListed
  <2>2. PICK ip \in IPs : pub' = [pub EXCEPT ![s][ip] = Deleted(@)]
    BY <1>0, <1>3, DeleteOwnStep, DeleteListedStep
  <2>3. pub[s][ip] \in Pub
    BY <1>0
  <2>4. Changes(s, ip, Deleted(pub[s][ip])) /\ Deleted(pub[s][ip]) \in Pub
    BY <2>2, <2>3, DeletedType
  <2> QED
    BY <2>1, <2>4
<1>4. ASSUME NEW s \in Services, NEW ip \in IPs, FinalizePub(s, ip) \/ FinishPub(s, ip)
      PROVE  UNCHANGED svc /\ \E o \in Pub : Changes(s, ip, o)
  <2>1. pub[s][ip] \in Pub
    BY <1>0
  <2>2. CASE FinalizePub(s, ip)
    <3> DEFINE o == [pub[s][ip] EXCEPT !.finalizer = TRUE]
    <3>1. pub' = [pub EXCEPT ![s][ip] = o] /\ UNCHANGED svc
      BY <1>0, <2>2 DEF FinalizePub
    <3>2. o \in Pub /\ Live(s, ip)
      BY <2>1, <2>2 DEF FinalizePub, Pub, Live
    <3> HIDE DEF o
    <3> QED
      BY <3>1, <3>2
  <2>3. CASE FinishPub(s, ip)
    <3>1. pub' = [pub EXCEPT ![s][ip] = NoPub] /\ UNCHANGED svc
      BY <2>3 DEF FinishPub
    <3>2. NoPub \in Pub /\ ~NoPub.exists
      BY BlankType DEF NoPub
    <3> QED
      BY <3>1, <3>2
  <2> QED
    BY <1>4, <2>2, <2>3
<1>5. ASSUME NEW s \in Services, WorkerStep(s)
      PROVE  UNCHANGED pub \/ CreateOrUpdate(s) \/ AnnotateListed(s) \/ DeleteOwn(s) \/ DeleteListed(s)
  BY <1>5, WorkerFrame
<1>6. ASSUME NEW s \in Services,
             \/ SyncService(s) \/ Resync(s) \/ (\E ip \in IPs : SyncPub(s, ip))
             \/ CreateService(s) \/ ChangeIPs(s) \/ ChangeIgnore(s) \/ DeleteService(s)
      PROVE  UNCHANGED pub
  BY <1>6 DEF SyncService, Resync, SyncPub, CreateService, ChangeIPs, ChangeIgnore,
              DeleteService, Edit
<1>7. ASSUME (\E n \in Names : Expire(n)) \/ Restart \/ UNCHANGED vars PROVE UNCHANGED pub
  BY <1>7 DEF Expire, Restart, vars
<1> QED
  BY <1>1, <1>2, <1>3, <1>4, <1>5, <1>6, <1>7 DEF Next

(* Every step is a step of Finalization, or a stutter.                       *)
LEMMA StepRefines == KInv /\ [Next]_vars => [Lifecycle!Next]_(Lifecycle!vars)
<1> SUFFICES ASSUME KInv, [Next]_vars, ~UNCHANGED Lifecycle!vars PROVE Lifecycle!Next
  OBVIOUS
<1>0. /\ pub \in [Services -> [IPs -> Pub]] /\ svc \in [Services -> Svc]
      /\ \A s \in Services : svc[s] \in Svc
  BY DEF KInv, IInv, TypeOK
<1>1. UNCHANGED svc => Phase' = Phase /\ Needs' = Needs
  BY DEF Phase, Needs
<1>2. UNCHANGED pub => Made' = Made
  BY DEF Made, Live
<1>3. ASSUME UNCHANGED pub, NEW s \in Services, NEW o \in Svc, Writes(s, o),
             svc' = [svc EXCEPT ![s] = o]
      PROVE  Lifecycle!Next
  <2>1. /\ Phase' = [Phase EXCEPT ![s] = PhaseOf(o)]
        /\ Needs' = [Needs EXCEPT ![s] = WantedOf(o)] /\ Made' = Made
        /\ Phase[s] = PhaseOf(svc[s]) /\ Needs[s] = WantedOf(svc[s])
    BY <1>0, <1>2, <1>3 DEF Phase, Needs
  <2>2. WantedOf(o) \in SUBSET IPs /\ svc[s] \in Svc
    BY <1>0 DEF WantedOf, Svc
  <2>3. /\ PhaseOf(o) = PhaseOf(svc[s]) => Phase' = Phase
        /\ WantedOf(o) = WantedOf(svc[s]) => Needs' = Needs
    BY <2>1 DEF Phase, Needs
  <2>4. CASE ~svc[s].exists /\ o.exists /\ ~o.finalizer /\ ~o.deleting
    <3>1. PhaseOf(svc[s]) = "absent" /\ PhaseOf(o) = "live"
      BY <2>4 DEF PhaseOf
    <3> QED
      BY <2>1, <2>2, <3>1, Mapped DEF Turns, NeedsOnly
  <2>5. CASE /\ svc[s].exists /\ o.exists
             /\ o.finalizer = svc[s].finalizer /\ o.deleting = svc[s].deleting
    <3>1. PhaseOf(svc[s]) = PhaseOf(o) /\ PhaseOf(svc[s]) # "absent"
      BY <2>5 DEF PhaseOf
    <3> QED
      BY <2>1, <2>2, <2>3, <3>1, Mapped DEF Turns, NeedsOnly
  <2>6. CASE svc[s].exists /\ ~svc[s].deleting /\ svc[s].finalizer /\ o = [svc[s] EXCEPT !.deleting = TRUE]
    <3>1. PhaseOf(svc[s]) = "guarded" /\ PhaseOf(o) = "dying" /\ WantedOf(o) = WantedOf(svc[s])
      BY <2>2, <2>6 DEF PhaseOf, WantedOf, Svc
    <3> QED
      BY <2>1, <2>3, <3>1, Mapped DEF Turns, NeedsOnly
  <2>7. CASE svc[s].exists /\ ~svc[s].deleting /\ ~svc[s].finalizer /\ o = NoSvc(svc[s].uid)
    <3>1. PhaseOf(svc[s]) = "live" /\ PhaseOf(o) = "absent" /\ WantedOf(o) = {}
      BY <2>7 DEF PhaseOf, WantedOf, NoSvc
    <3> QED
      BY <2>1, <3>1, Mapped DEF Turns, NeedsOnly
  <2>8. CASE svc[s].exists /\ ~svc[s].deleting /\ o = [svc[s] EXCEPT !.finalizer = TRUE]
    <3>1. /\ PhaseOf(svc[s]) \in {"live", "guarded"} /\ PhaseOf(o) = "guarded"
          /\ WantedOf(o) = WantedOf(svc[s])
      BY <2>2, <2>8 DEF PhaseOf, WantedOf, Svc
    <3>2. CASE PhaseOf(svc[s]) = "live"
      BY <2>1, <2>3, <3>1, <3>2, Mapped DEF Turns, NeedsOnly
    <3>3. CASE PhaseOf(svc[s]) = "guarded"
      BY <2>1, <2>3, <3>1, <3>3, Mapped DEF Turns, NeedsOnly
    <3> QED
      BY <3>1, <3>2, <3>3
  <2>9. CASE /\ svc[s].exists /\ ~svc[s].deleting /\ o = [svc[s] EXCEPT !.finalizer = FALSE]
             /\ ~ShouldFinalize(svc[s])
    <3>1. /\ PhaseOf(svc[s]) \in {"live", "guarded"} /\ PhaseOf(o) = "live"
          /\ WantedOf(o) = WantedOf(svc[s]) /\ WantedOf(svc[s]) = {}
      BY <2>2, <2>9 DEF PhaseOf, WantedOf, Svc, ShouldFinalize
    <3>2. CASE PhaseOf(svc[s]) = "guarded"
      BY <2>1, <2>3, <3>1, <3>2, Mapped DEF Turns, NeedsOnly
    <3>3. CASE PhaseOf(svc[s]) = "live"
      BY <2>1, <2>3, <3>1, <3>3, Mapped DEF Turns, NeedsOnly
    <3> QED
      BY <3>1, <3>2, <3>3
  <2>10. CASE /\ svc[s].exists /\ svc[s].deleting /\ o = NoSvc(svc[s].uid)
              /\ \A ip \in svc[s].ips : ~Live(s, ip)
    <3>1. /\ PhaseOf(svc[s]) = "dying" /\ PhaseOf(o) = "absent"
          /\ WantedOf(o) = {} /\ WantedOf(svc[s]) \subseteq svc[s].ips
      BY <2>2, <2>10 DEF PhaseOf, WantedOf, Svc, NoSvc
    <3>2. Needs[s] \cap Made[s] = {}
      BY <2>1, <2>10, <3>1 DEF Made
    <3> QED
      BY <2>1, <3>1, <3>2, Mapped DEF Turns, NeedsOnly
  <2> QED
    BY <1>3, <2>4, <2>5, <2>6, <2>7, <2>8, <2>9, <2>10 DEF Writes, UserWrites
<1>4. ASSUME UNCHANGED svc, NEW s \in Services, NEW ip \in IPs, NEW o \in Pub,
             pub' = [pub EXCEPT ![s][ip] = o],
             o.exists /\ ~o.deleting => Live(s, ip) \/ (svc[s].exists /\ svc[s].finalizer)
      PROVE  Lifecycle!Next
  <2>1. \A k \in Services, j \in IPs :
           Live(k, j)' <=> IF k = s /\ j = ip THEN o.exists /\ ~o.deleting ELSE Live(k, j)
    BY <1>0, <1>4 DEF Live
  <2>2. CASE ~(o.exists /\ ~o.deleting)
    <3>1. Made' = [Made EXCEPT ![s] = @ \ {ip}]
      BY <2>1, <2>2 DEF Made
    <3> QED
      BY <1>1, <1>4, <3>1, Mapped
  <2>3. CASE o.exists /\ ~o.deleting /\ Live(s, ip)
    <3>1. Made' = Made
      BY <2>1, <2>3 DEF Made
    <3> QED
      BY <1>1, <1>4, <3>1, Mapped
  <2>4. CASE o.exists /\ ~o.deleting /\ svc[s].exists /\ svc[s].finalizer
    <3>1. Made' = [Made EXCEPT ![s] = @ \cup {ip}]
      BY <2>1, <2>4 DEF Made
    <3>2. Phase[s] \in {"guarded", "dying"}
      BY <2>4 DEF Phase, PhaseOf
    <3> QED
      BY <1>1, <1>4, <3>1, <3>2, Mapped
  <2> QED
    BY <1>4, <2>2, <2>3, <2>4
<1>5. CASE UNCHANGED <<svc, pub>>
  BY <1>1, <1>2, <1>5, Mapped
<1> QED
  BY <1>3, <1>4, <1>5, ServiceWrites, PubWrites

(* The service controller implements Finalization: resources are created     *)
(* under the finalizer of their service, which leaves a living service only  *)
(* when it wants no resources, and a dying one only after the resources for  *)
(* its addresses.                                                            *)
THEOREM Refinement == Spec => ImplementsFinalization
<1>1. Init => Lifecycle!Init
  BY DEF Init, Lifecycle!Init, NoSvc, NoItems, NoPub, Live
<1> QED
  BY <1>1, KeyInvariant, StepRefines, PTL DEF Spec, ImplementsFinalization, Lifecycle!Spec
====================================================================================
