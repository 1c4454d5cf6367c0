---------------------------- MODULE FailedOperations ----------------------------
(*****************************************************************************)
(* The failed operations a tracking resource carries in its status           *)
(* (pkg/apis/azure/v1alpha1/types_common.go).  The code keeps a slice with   *)
(* at most one entry per operation type; the error message and timestamp of  *)
(* an entry are never read back, so the slice is the function from           *)
(* operation types to attempts, 0 meaning that there is no entry.            *)
(*****************************************************************************)
EXTENDS Integers

CONSTANT
    AttemptsBound   \* the counters saturate here; above every configured maximum

ASSUME AttemptsBoundAssumption == AttemptsBound \in Nat \ {0}

FailedOperationsOf(opTypes) == [opTypes -> 0 .. AttemptsBound]

NoFailedOperations(opTypes) == [op \in opTypes |-> 0]

(* One more failed attempt; the entry is appended when there was none.       *)
AddOrUpdateFailedOperation(failed, op) ==
    [failed EXCEPT ![op] = IF @ < AttemptsBound THEN @ + 1 ELSE @]

(* Mutant of DeleteFailedOperation: takes back one attempt instead.          *)
DecrementFailedOperation(failed, op) == [failed EXCEPT ![op] = @ - 1]

(* The operation succeeded: its entry, if any, goes.                         *)
DeleteFailedOperation(failed, op) == [failed EXCEPT ![op] = 0]
=================================================================================
