----------------------------------- MODULE App -----------------------------------
(*****************************************************************************)
(* The program remedy-controller-azure (cmd/remedy-controller-azure/app,     *)
(* pkg/cmd), in every replica of its deployment: it reads its configuration, *)
(* adds four controllers to two managers, one per cluster, and starts both   *)
(* managers.  The manager of the control cluster takes part in a leader      *)
(* election, the one of the target cluster does not.                         *)
(*                                                                           *)
(* Durations in a configuration are numbers of minutes.  The managers and    *)
(* the leader election are those of controller-runtime: its workers and      *)
(* caches are as this program uses them.                                     *)
(*****************************************************************************)
EXTENDS FiniteSets, Backoff

CONSTANTS
    Replicas, NoReplica,
    Absent,             \* a section that the configuration file does not have
    NoPath,             \* no configuration file is given
    Unreadable,         \* a configuration file that cannot be read or decoded
    NoCredentials,      \* an infrastructure configuration that cannot be read
    Files,              \* the contents the configuration file may have
    Infras,             \* the credentials the infrastructure configuration may have
    Switches,           \* sets of controllers that the flags may disable
    MaxFailures         \* bound on failing managers, crashes and stop signals

Sections == {"orphanedPublicIPRemedy", "failedVMRemedy"}

ControlControllers == {"publicipaddress", "virtualmachine"}

TargetControllers == {"service", "node"}

Controllers == ControlControllers \cup TargetControllers

SectionOf(c) == IF c \in {"publicipaddress", "service"} THEN "orphanedPublicIPRemedy"
                                                        ELSE "failedVMRemedy"

OrphanedPublicIPRemedy ==
    [RequeueInterval : Nat, SyncPeriod : Nat, ServiceSyncPeriod : Nat,
     DeletionGracePeriod : Nat, MaxGetAttempts : Nat, MaxCleanAttempts : Nat]

FailedVMRemedy ==
    [RequeueInterval : Nat, SyncPeriod : Nat, NodeSyncPeriod : Nat,
     MaxGetAttempts : Nat, MaxReapplyAttempts : Nat]

Section == [orphanedPublicIPRemedy |-> OrphanedPublicIPRemedy, failedVMRemedy |-> FailedVMRemedy]

(* What credentials may be, as far as making clients goes: a file with a     *)
(* federated token, a secret, or neither.                                    *)
Credentials == {"federated", "secret", "noSecret"}

ASSUME AppConstants ==
    /\ NoReplica \notin Replicas /\ MaxFailures \in Nat
    /\ \A f \in Files \ {NoPath, Unreadable} :
          DOMAIN f = Sections /\ \A s \in Sections : f[s] = Absent \/ f[s] \in Section[s]
    /\ Infras \subseteq Credentials \cup {NoCredentials}
    /\ Switches \subseteq SUBSET Controllers

VARIABLES
    file, infra, disabled,  \* what the replicas are deployed with
    options,    \* options[r][c]: the DefaultAddOptions of c in the process r
    process,    \* process[r]: how far the process has come, which controllers run in it
    lease,      \* the replica that holds the lease
    failures    \* failures so far

deployment == <<file, infra, disabled>>
vars == <<deployment, options, process, lease, failures>>

-----------------------------------------------------------------------------
Managers == {"control", "target"}

ControllersOf(m) == IF m = "control" THEN ControlControllers ELSE TargetControllers

(* Mutant of Electing: no manager takes part.                                *)
ElectingNone == {}

(* The managers that take part in the leader election.                       *)
Electing == {"control"}

(* The defaults of the controllers; a field that one does not read is zero.  *)
DefaultPublicIPAddress ==
    [RequeueInterval |-> 1, SyncPeriod |-> 600, ServiceSyncPeriod |-> 0,
     DeletionGracePeriod |-> 5, MaxGetAttempts |-> 5, MaxCleanAttempts |-> 5]

DefaultService ==
    [RequeueInterval |-> 0, SyncPeriod |-> 0, ServiceSyncPeriod |-> 240,
     DeletionGracePeriod |-> 0, MaxGetAttempts |-> 0, MaxCleanAttempts |-> 0]

DefaultVirtualMachine ==
    [RequeueInterval |-> 1, SyncPeriod |-> 120, NodeSyncPeriod |-> 0,
     MaxGetAttempts |-> 5, MaxReapplyAttempts |-> 5]

DefaultNode ==
    [RequeueInterval |-> 0, SyncPeriod |-> 0, NodeSyncPeriod |-> 240,
     MaxGetAttempts |-> 0, MaxReapplyAttempts |-> 0]

DefaultConfig(c) ==
    CASE c = "publicipaddress" -> DefaultPublicIPAddress [] c = "service" -> DefaultService
      [] c = "virtualmachine" -> DefaultVirtualMachine [] c = "node" -> DefaultNode

(* wired: the path of the infrastructure configuration (control cluster), or *)
(* the other manager and its client (target cluster), has been passed on.    *)
AddOptions(c) == [config : Section[SectionOf(c)], wired : BOOLEAN]

DefaultAddOptions == [c \in Controllers |-> [config |-> DefaultConfig(c), wired |-> FALSE]]

PCs == {"down", "complete", "apply", "add", "run", "stop"}

States == {"new", "started", "leads", "ended"}

Process == [pc : PCs, added : SUBSET Controllers, managers : [Managers -> States],
            running : SUBSET Controllers]

Down == [pc |-> "down", added |-> {}, managers |-> [m \in Managers |-> "new"], running |-> {}]

Goto(r, pc) == process' = [process EXCEPT ![r].pc = pc]

(* logErrAndExit: the process ends, with everything that runs in it.         *)
Exit(r) == process' = [process EXCEPT ![r] = Down]

-----------------------------------------------------------------------------
(* Start-up.                                                                 *)

(* The container is started, or started again.                               *)
Boot(r) ==
    /\ process[r].pc = "down" /\ Goto(r, "complete")
    /\ options' = [options EXCEPT ![r] = DefaultAddOptions]
    /\ UNCHANGED <<deployment, lease, failures>>

(* An empty file is a configuration without sections.                        *)
CanLoad == file # Unreadable

(* There is no configuration to start with when no file is given.            *)
BuildsConfig == file # NoPath /\ CanLoad

(* The options are completed, the managers made.                             *)
Complete(r) ==
    /\ process[r].pc = "complete"
    /\ IF BuildsConfig THEN Goto(r, "apply") ELSE Exit(r)
    /\ UNCHANGED <<deployment, options, lease, failures>>

(* Mutant of ApplySection: a section that is absent is taken for empty.      *)
ApplySectionAlways(c) ==
    IF file[SectionOf(c)] = Absent THEN [x \in DOMAIN DefaultConfig(c) |-> 0]
                                   ELSE file[SectionOf(c)]

(* A section, if there is one, replaces all defaults of a controller.        *)
ApplySection(c) ==
    IF file[SectionOf(c)] = Absent THEN DefaultConfig(c) ELSE file[SectionOf(c)]

(* The infrastructure configuration or the control cluster's manager.        *)
Wire(o) == [o EXCEPT !.wired = TRUE]

ApplyOptions(r) ==
    /\ process[r].pc = "apply" /\ Goto(r, "add")
    /\ options' = [options EXCEPT ![r] =
            [c \in Controllers |-> Wire([@[c] EXCEPT !.config = ApplySection(c)])]]
    /\ UNCHANGED <<deployment, lease, failures>>

ReadConfig == infra # NoCredentials

(* A token file is not read before the first request to Azure.               *)
NewClients == infra \in {"federated", "secret"}

(* AddToManager of the publicipaddress and the virtualmachine controller ... *)
CanAddToControl(o) == o.wired /\ ReadConfig /\ NewClients

(* ... and of the service and the node controller, which watch the control   *)
(* cluster through its manager.                                              *)
CanAddToTarget(o) == o.wired

CanAdd(r, c) ==
    IF c \in ControlControllers THEN CanAddToControl(options[r][c])
                                ELSE CanAddToTarget(options[r][c])

(* The controllers that the switches leave enabled.                          *)
AddToManagers(r) ==
    LET enabled == Controllers \ disabled
    IN  /\ process[r].pc = "add"
        /\ IF \A c \in enabled : CanAdd(r, c)
           THEN process' = [process EXCEPT ![r].added = enabled, ![r].pc = "run"]
           ELSE Exit(r)
        /\ UNCHANGED <<deployment, options, lease, failures>>

-----------------------------------------------------------------------------
(* The two managers, each started in a goroutine of its own.                 *)

In(r, m, states) == process[r].pc = "run" /\ process[r].managers[m] \in states

(* The caches of a manager are synchronized before anything else.            *)
Start(r, m) ==
    /\ In(r, m, {"new"})
    /\ process' = [process EXCEPT ![r].managers[m] = "started"]
    /\ UNCHANGED <<deployment, options, lease, failures>>

Lead(r, m) ==
    /\ In(r, m, {"started"})
    /\ IF m \in Electing THEN lease = NoReplica /\ lease' = r ELSE UNCHANGED lease
    /\ process' = [process EXCEPT ![r].managers[m] = "leads"]
    /\ UNCHANGED <<deployment, options, failures>>

(* The controllers of the target cluster also watch the control cluster,     *)
(* through the cache of the other manager.                                   *)
StartControllers(r, m) ==
    LET new == (process[r].added \cap ControllersOf(m)) \ process[r].running
    IN  /\ In(r, m, {"leads"}) /\ new # {}
        /\ m = "target" => process[r].managers["control"] \in {"started", "leads"}
        /\ process' = [process EXCEPT ![r].running = @ \cup new]
        /\ UNCHANGED <<deployment, options, lease, failures>>

Fails == failures < MaxFailures /\ failures' = failures + 1

(* Mutant of Ended: the controllers are not waited for.                      *)
EndedAtOnce(r, m) == [process[r] EXCEPT !.managers[m] = "ended"]

(* A manager ends: its controllers have ended.                               *)
Ended(r, m) == [process[r] EXCEPT !.managers[m] = "ended", !.running = @ \ ControllersOf(m)]

(* Mutant of ManagerFails: the error is logged, the process goes on.         *)
ManagerFailsUnnoticed(r, m) ==
    /\ In(r, m, {"new", "started", "leads"}) /\ Fails
    /\ process' = [process EXCEPT ![r] = Ended(r, m)]
    /\ UNCHANGED <<deployment, options, lease>>

(* Start returns an error: a cache cannot be synchronized, a controller      *)
(* cannot start, the lease is lost.                                          *)
ManagerFails(r, m) ==
    /\ In(r, m, {"new", "started", "leads"}) /\ Fails
    /\ Exit(r)
    /\ UNCHANGED <<deployment, options, lease>>

Crash(r) ==
    /\ process[r].pc # "down" /\ Fails
    /\ Exit(r)
    /\ UNCHANGED <<deployment, options, lease>>

(* A stop signal cancels the context of both managers ...                    *)
Stop(r) ==
    /\ process[r].pc = "run" /\ Fails
    /\ Goto(r, "stop")
    /\ UNCHANGED <<deployment, options, lease>>

(* Mutant of EndManager: only a manager that leads learns of the signal.     *)
EndManagerLeading(r, m) ==
    /\ process[r].pc = "stop" /\ process[r].managers[m] = "leads"
    /\ process' = [process EXCEPT ![r] = Ended(r, m)]
    /\ UNCHANGED <<deployment, options, lease, failures>>

(* ... each ends when its controllers have, ...                              *)
EndManager(r, m) ==
    /\ process[r].pc = "stop" /\ process[r].managers[m] # "ended"
    /\ process' = [process EXCEPT ![r] = Ended(r, m)]
    /\ UNCHANGED <<deployment, options, lease, failures>>

(* ... and the program returns when both have.                               *)
Finish(r) ==
    /\ process[r].pc = "stop" /\ \A m \in Managers : process[r].managers[m] = "ended"
    /\ Exit(r)
    /\ UNCHANGED <<deployment, options, lease, failures>>

(* A leader that loses the lease ends before the lease expires.              *)
Expire ==
    /\ lease # NoReplica /\ process[lease].managers["control"] # "leads"
    /\ lease' = NoReplica
    /\ UNCHANGED <<deployment, options, process, failures>>

-----------------------------------------------------------------------------
Init ==
    /\ file \in Files /\ infra \in Infras /\ disabled \in Switches
    /\ options = [r \in Replicas |-> DefaultAddOptions]
    /\ process = [r \in Replicas |-> Down]
    /\ lease = NoReplica /\ failures = 0

Progress(r) ==
    \/ Boot(r) \/ Complete(r) \/ ApplyOptions(r) \/ AddToManagers(r)
    \/ \E m \in Managers : Start(r, m) \/ StartControllers(r, m) \/ EndManager(r, m)
    \/ Finish(r)

Next ==
    \/ \E r \in Replicas : \/ Progress(r) \/ Crash(r) \/ Stop(r)
                           \/ \E m \in Managers : Lead(r, m) \/ ManagerFails(r, m)
    \/ Expire

Spec == Init /\ [][Next]_vars

(* The kubelet starts what has ended, the program and the managers go on, a  *)
(* lease that is not renewed expires, and a free one is taken.               *)
FairSpec ==
    /\ Spec /\ WF_vars(Expire)
    /\ \A r \in Replicas : WF_vars(Progress(r)) /\ \A m \in Managers : WF_vars(Lead(r, m))

-----------------------------------------------------------------------------
(* The state is well typed; in particular no controller outlives its manager *)
(* or its process.                                                           *)
TypeOK ==
    /\ DOMAIN options = Replicas
    /\ \A r \in Replicas, c \in Controllers : options[r][c] \in AddOptions(c)
    /\ process \in [Replicas -> Process]
    /\ \A r \in Replicas : /\ process[r].running \subseteq process[r].added
                           /\ process[r].pc \notin {"run", "stop"} => process[r].added = {}
                           /\ \A m \in Managers : process[r].managers[m] = "ended"
                                 => process[r].running \cap ControllersOf(m) = {}
    /\ lease \in Replicas \cup {NoReplica}
    /\ failures \in 0 .. MaxFailures

Runs(r, c) == c \in process[r].running

(* The actuators of the control cluster clean addresses and reapply machines *)
(* under the assumption that nobody else does: at no time do two replicas    *)
(* run one of these controllers, while replicas fail, restart and shut down. *)
AtMostOneActs ==
    \A c \in ControlControllers, r, q \in Replicas : Runs(r, c) /\ Runs(q, c) => r = q

(* "SyncPeriod determines the minimum frequency at which ... resources will  *)
(* be reconciled" (config types): a controller that runs has a period after  *)
(* which it asks to be called again.  createOrUpdate takes zero for never.   *)
AlwaysResynced ==
    \A r \in Replicas, c \in Controllers :
        Runs(r, c) => LET config == options[r][c].config
                      IN  CASE c = "service" -> config.ServiceSyncPeriod > 0
                            [] c = "node"    -> config.NodeSyncPeriod > 0
                            [] OTHER         -> config.SyncPeriod > 0

MinuteLater[d \in Duration] == Plus(d, Minute)

Minutes[n \in Nat] == IF n = 0 THEN Zero ELSE MinuteLater[Minutes[n - 1]]

(* The README: operations are retried "with backoff".  Up to the configured  *)
(* number of attempts, every delay that a running actuator asks for is       *)
(* positive and longer than the one before.  The shift of the interval       *)
(* overflows beyond: with an interval of a minute, for 30 attempts.          *)
DelaysBackOff ==
    \A r \in Replicas, c \in ControlControllers :
        Runs(r, c) =>
            LET config == options[r][c].config
                delay(k) == requeueDelay(Minutes[config.RequeueInterval], k)
                maxima == {config.MaxGetAttempts,
                           IF c = "publicipaddress" THEN config.MaxCleanAttempts
                                                    ELSE config.MaxReapplyAttempts}
            IN  \A max \in maxima : \A k \in 1 .. max - 1 :
                    Less(Zero, delay(k)) /\ (k > 1 => Less(delay(k - 1), delay(k)))

Deployable(c) ==
    /\ BuildsConfig /\ c \notin disabled
    /\ ControlControllers \subseteq disabled \/ (ReadConfig /\ NewClients)

(* A failure never leaves half of the program behind: whatever fails in      *)
(* whichever replica, every controller that is enabled runs again somewhere. *)
EveryControllerRuns ==
    \A c \in Controllers : Deployable(c) ~> \E r \in Replicas : Runs(r, c)

(* A process that is told to stop ends, also while it waits for the lease.   *)
StopEnds == \A r \in Replicas : process[r].pc = "stop" ~> process[r].pc = "down"
==================================================================================
