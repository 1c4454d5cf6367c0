---------------------------------- MODULE MCApp ----------------------------------
(* Instances of App for TLC. *)
EXTENDS App, TLC

CONSTANTS r1, r2

(* A file without sections, and one with both, complete.                       *)
MCEmpty == [s \in Sections |-> Absent]

MCFull ==
    [orphanedPublicIPRemedy |->
        [RequeueInterval |-> 1, SyncPeriod |-> 600, ServiceSyncPeriod |-> 240,
         DeletionGracePeriod |-> 5, MaxGetAttempts |-> 29, MaxCleanAttempts |-> 29],
     failedVMRemedy |->
        [RequeueInterval |-> 2, SyncPeriod |-> 120, NodeSyncPeriod |-> 240,
         MaxGetAttempts |-> 28, MaxReapplyAttempts |-> 3]]

MCFiles == {MCEmpty, MCFull, Unreadable, NoPath}

MCInfras == Credentials \cup {NoCredentials}

MCSwitches == {{}, ControlControllers}
==================================================================================
