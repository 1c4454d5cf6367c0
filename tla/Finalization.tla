------------------------------- MODULE Finalization ------------------------------
(*****************************************************************************)
(* What the finalizers of the generic reconciler                             *)
(* (pkg/controller/reconciler.go) promise of the objects of the target       *)
(* cluster and of the resources kept for them in the control cluster: no     *)
(* resource is made for an object before the object carries the finalizer,   *)
(* no finalizer leaves a living object that still wants resources, and no    *)
(* object goes while a resource that it wants is alive.  A user who strips a *)
(* finalizer ends these promises for that object until it is finalized       *)
(* again.  The controllers of services and of nodes implement this           *)
(* specification.                                                            *)
(*****************************************************************************)

CONSTANTS Keys, Resources

VARIABLES
    phase,          \* phase[k]: what the API server knows of the object k
    wanted,         \* wanted[k]: the resources that k should have
    made,           \* made[k]: the resources of k whose deletion was not requested
    stripped        \* the objects whose finalizer a user has taken off

Phases == {"absent", "live", "guarded", "dying"}

Move(k, from, to) == phase[k] = from /\ phase' = [phase EXCEPT ![k] = to]

Wants(k, resources) == wanted' = [wanted EXCEPT ![k] = resources]

-----------------------------------------------------------------------------
(* The user.                                                                 *)

Create(k) ==
    /\ Move(k, "absent", "live") /\ (\E resources \in SUBSET Resources : Wants(k, resources))
    /\ UNCHANGED <<made, stripped>>

Edit(k) ==
    /\ phase[k] # "absent" /\ (\E resources \in SUBSET Resources : Wants(k, resources))
    /\ UNCHANGED <<phase, made, stripped>>

(* A deletion request waits for the finalizer, if there is one.              *)
Delete(k) ==
    /\ \/ Move(k, "live", "absent") /\ Wants(k, {})
       \/ Move(k, "guarded", "dying") /\ UNCHANGED wanted
    /\ UNCHANGED <<made, stripped>>

Strip(k) ==
    /\ \/ Move(k, "guarded", "live") /\ UNCHANGED wanted
       \/ Move(k, "dying", "absent") /\ Wants(k, {})
    /\ stripped' = stripped \cup {k}
    /\ UNCHANGED made

-----------------------------------------------------------------------------
(* The controller.                                                           *)

Finalize(k) ==
    /\ Move(k, "live", "guarded") /\ stripped' = stripped \ {k}
    /\ UNCHANGED <<wanted, made>>

Make(k, i) ==
    /\ phase[k] \in {"guarded", "dying"} \/ k \in stripped
    /\ made' = [made EXCEPT ![k] = @ \cup {i}]
    /\ UNCHANGED <<phase, wanted, stripped>>

Discard(k, i) ==
    /\ made' = [made EXCEPT ![k] = @ \ {i}]
    /\ UNCHANGED <<phase, wanted, stripped>>

(* The object no longer needs the finalizer.                                 *)
Unfinalize(k) ==
    /\ wanted[k] = {} /\ Move(k, "guarded", "live")
    /\ UNCHANGED <<wanted, made, stripped>>

(* The deletion has been reconciled.                                         *)
Finish(k) ==
    /\ wanted[k] \cap made[k] = {} /\ Move(k, "dying", "absent") /\ Wants(k, {})
    /\ UNCHANGED <<made, stripped>>

-----------------------------------------------------------------------------
Init ==
    /\ phase = [k \in Keys |-> "absent"]
    /\ wanted = [k \in Keys |-> {}] /\ made = [k \in Keys |-> {}]
    /\ stripped = {}

Next ==
    \E k \in Keys :
        \/ Create(k) \/ Edit(k) \/ Delete(k) \/ Strip(k)
        \/ Finalize(k) \/ Unfinalize(k) \/ Finish(k)
        \/ \E i \in Resources : Make(k, i) \/ Discard(k, i)

vars == <<phase, wanted, made, stripped>>

Spec == Init /\ [][Next]_vars
==================================================================================
