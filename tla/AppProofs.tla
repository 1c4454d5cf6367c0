--------------------------------- MODULE AppProofs ---------------------------------
(*****************************************************************************)
(* Theorems about App, for every set of replicas, every deployment and any   *)
(* number of failures, crashes and stop signals.                             *)
(*****************************************************************************)
EXTENDS App, RecursiveFunctions

-----------------------------------------------------------------------------
(* The files that the program starts with.                                   *)
Loaded(f) == f \in Files \ {NoPath, Unreadable}

(* The built-in defaults of a controller are a section of its remedy.        *)
LEMMA DefaultConfigType ==
    ASSUME NEW c \in Controllers
    PROVE  DefaultConfig(c) \in Section[SectionOf(c)]
<1>1. DefaultPublicIPAddress \in OrphanedPublicIPRemedy
  BY DEF DefaultPublicIPAddress, OrphanedPublicIPRemedy
<1>2. DefaultService \in OrphanedPublicIPRemedy
  BY DEF DefaultService, OrphanedPublicIPRemedy
<1>3. DefaultVirtualMachine \in FailedVMRemedy
  BY DEF DefaultVirtualMachine, FailedVMRemedy
<1>4. DefaultNode \in FailedVMRemedy
  BY DEF DefaultNode, FailedVMRemedy
<1>5. /\ Section["orphanedPublicIPRemedy"] = OrphanedPublicIPRemedy
      /\ Section["failedVMRemedy"] = FailedVMRemedy
  BY DEF Section
<1> QED
  BY <1>1, <1>2, <1>3, <1>4, <1>5
     DEF DefaultConfig, SectionOf, Controllers, ControlControllers, TargetControllers

(* The defaults are options.                                                 *)
LEMMA DefaultsType == \A c \in Controllers : DefaultAddOptions[c] \in AddOptions(c)
BY DefaultConfigType DEF DefaultAddOptions, AddOptions

(* A section from a file that was decoded replaces a section by a section.   *)
LEMMA ApplySectionType ==
    ASSUME Loaded(file), NEW c \in Controllers
    PROVE  ApplySection(c) \in Section[SectionOf(c)]
<1>1. SectionOf(c) \in Sections
  BY DEF SectionOf, Sections
<1>2. file[SectionOf(c)] = Absent \/ file[SectionOf(c)] \in Section[SectionOf(c)]
  BY <1>1, AppConstants DEF Loaded
<1> QED
  BY <1>2, DefaultConfigType DEF ApplySection

(* A process that has ended is a process.                                    *)
LEMMA DownType == Down \in Process
BY DEF Down, Process, PCs, States

-----------------------------------------------------------------------------
(* The process has come past reading its configuration only if there is one. *)
Configured ==
    /\ file \in Files
    /\ \A r \in Replicas : process[r].pc \notin {"down", "complete"} => BuildsConfig

(* The manager of the control cluster leads only while its replica holds the *)
(* lease, and controllers of the control cluster run only while it leads.    *)
LeadsWithLease ==
    \A r \in Replicas :
        /\ process[r].managers["control"] = "leads" => lease = r
        /\ process[r].running \cap ControlControllers # {}
              => process[r].managers["control"] = "leads"

IInv == TypeOK /\ Configured /\ LeadsWithLease

(* What TypeOK says of one process.                                          *)
WellFormed(p) ==
    /\ p \in Process
    /\ p.running \subseteq p.added
    /\ p.pc \notin {"run", "stop"} => p.added = {}
    /\ \A m \in Managers : p.managers[m] = "ended" => p.running \cap ControllersOf(m) = {}

(* A process that is not past its configuration, or has one, and leads with  *)
(* the lease l only.                                                         *)
Sound(r, p, l) ==
    /\ WellFormed(p)
    /\ p.pc \notin {"down", "complete"} => BuildsConfig
    /\ p.managers["control"] = "leads" => l = r
    /\ p.running \cap ControlControllers # {} => p.managers["control"] = "leads"

(* A step that leaves options behind, and changes those of r at most.        *)
OptionsStep(r) ==
    /\ DOMAIN options' = Replicas
    /\ \A c \in Controllers : options'[r][c] \in AddOptions(c)
    /\ \A q \in Replicas \ {r} : options'[q] = options[q]

(* A step that changes one process only, and leaves the lease to whom it     *)
(* belongs, keeps the invariant.                                             *)
LEMMA ProcessStep ==
    ASSUME IInv, NEW r \in Replicas, NEW p, process' = [process EXCEPT ![r] = p],
           UNCHANGED deployment, Sound(r, p, lease'),
           \/ UNCHANGED lease
           \/ lease = NoReplica /\ lease' = r,
           OptionsStep(r), failures' \in 0 .. MaxFailures
    PROVE  IInv'
<1> USE DEF IInv, TypeOK
<1>1. process' \in [Replicas -> Process]
  BY DEF Sound, WellFormed
<1>2. process'[r] = p /\ \A q \in Replicas \ {r} : process'[q] = process[q]
  OBVIOUS
<1>3. BuildsConfig' = BuildsConfig
  BY DEF BuildsConfig, CanLoad, deployment
<1>4. Configured'
  BY <1>2, <1>3 DEF Configured, Sound, deployment
<1>5. LeadsWithLease'
  <2>1. SUFFICES ASSUME NEW q \in Replicas
                 PROVE  /\ process'[q].managers["control"] = "leads" => lease' = q
                        /\ process'[q].running \cap ControlControllers # {}
                              => process'[q].managers["control"] = "leads"
    BY DEF LeadsWithLease
  <2>2. CASE q = r
    BY <1>2, <2>2 DEF Sound
  <2>3. CASE q # r
    BY <1>2, <2>3, AppConstants DEF LeadsWithLease
  <2> QED
    BY <2>2, <2>3
<1>6. /\ DOMAIN options' = Replicas
      /\ \A q \in Replicas, c \in Controllers : options'[q][c] \in AddOptions(c)
  BY DEF OptionsStep
<1>7. \A q \in Replicas : /\ process'[q].running \subseteq process'[q].added
                          /\ process'[q].pc \notin {"run", "stop"} => process'[q].added = {}
                          /\ \A m \in Managers : process'[q].managers[m] = "ended"
                                => process'[q].running \cap ControllersOf(m) = {}
  BY <1>2 DEF Sound, WellFormed
<1>8. lease' \in Replicas \cup {NoReplica}
  OBVIOUS
<1> QED
  BY <1>1, <1>4, <1>5, <1>6, <1>7, <1>8

(* The options of a process that are left alone stay options.                *)
LEMMA OptionsKept ==
    ASSUME IInv, NEW r \in Replicas, UNCHANGED options
    PROVE  OptionsStep(r)
BY DEF IInv, TypeOK, OptionsStep

(* Exit keeps the invariant: nothing runs in a process that has ended.       *)
LEMMA ExitStep ==
    ASSUME IInv, NEW r \in Replicas, Exit(r), UNCHANGED <<deployment, options, lease>>,
           failures' \in 0 .. MaxFailures
    PROVE  IInv'
<1>1. Sound(r, Down, lease')
  BY DownType DEF Sound, WellFormed, Down, Managers
<1>2. UNCHANGED deployment /\ UNCHANGED options /\ UNCHANGED lease
  OBVIOUS
<1> QED
  BY <1>1, <1>2, OptionsKept, ProcessStep DEF Exit

(* Every step keeps the invariant: one step of the proof per action.         *)
LEMMA Inductive == IInv /\ [Next]_vars => IInv'
<1> SUFFICES ASSUME IInv, [Next]_vars
             PROVE  IInv'
  OBVIOUS
<1>a. /\ failures \in 0 .. MaxFailures /\ MaxFailures \in Nat
      /\ lease \in Replicas \cup {NoReplica}
  BY AppConstants DEF IInv, TypeOK
<1>b. \A r \in Replicas : process[r] \in Process /\ Sound(r, process[r], lease)
  BY DEF IInv, TypeOK, Configured, LeadsWithLease, Sound, WellFormed
<1>c. Fails => failures' \in 0 .. MaxFailures
  BY <1>a DEF Fails
<1>1. ASSUME NEW r \in Replicas, Boot(r) PROVE IInv'
  <2> DEFINE p == [process[r] EXCEPT !.pc = "complete"]
  <2>1. Sound(r, p, lease)
    BY <1>1, <1>b DEF Boot, Sound, WellFormed, Process, PCs
  <2>2. OptionsStep(r)
    BY <1>1, DefaultsType DEF Boot, IInv, TypeOK, OptionsStep
  <2>3. process' = [process EXCEPT ![r] = p]
    BY <1>1 DEF Boot, Goto
  <2> QED
    BY <1>1, <1>a, <2>1, <2>2, <2>3, ProcessStep DEF Boot
<1>2. ASSUME NEW r \in Replicas, Complete(r) PROVE IInv'
  <2> DEFINE p == [process[r] EXCEPT !.pc = "apply"]
  <2>1. CASE BuildsConfig /\ process' = [process EXCEPT ![r] = p]
    <3>1. Sound(r, p, lease)
      BY <1>2, <1>b, <2>1 DEF Complete, Sound, WellFormed, Process, PCs
    <3> QED
      BY <1>2, <1>a, <2>1, <3>1, OptionsKept, ProcessStep DEF Complete
  <2>2. CASE Exit(r)
    BY <1>2, <1>a, <2>2, ExitStep DEF Complete
  <2> QED
    BY <1>2, <2>1, <2>2 DEF Complete, Goto
<1>3. ASSUME NEW r \in Replicas, ApplyOptions(r) PROVE IInv'
  <2> DEFINE p == [process[r] EXCEPT !.pc = "add"]
  <2>1. Sound(r, p, lease)
    BY <1>3, <1>b DEF ApplyOptions, Sound, WellFormed, Process, PCs
  <2>2. Loaded(file)
    BY <1>3 DEF ApplyOptions, IInv, Configured, Loaded, BuildsConfig, CanLoad
  <2>3. \A c \in Controllers : options'[r][c] \in AddOptions(c)
    <3>1. SUFFICES ASSUME NEW c \in Controllers PROVE options'[r][c] \in AddOptions(c)
      OBVIOUS
    <3>2. options'[r][c] = Wire([options[r][c] EXCEPT !.config = ApplySection(c)])
      BY <1>3 DEF ApplyOptions, IInv, TypeOK
    <3>3. options[r][c] \in AddOptions(c)
      BY DEF IInv, TypeOK
    <3> QED
      BY <2>2, <3>2, <3>3, ApplySectionType DEF Wire, AddOptions
  <2>4. OptionsStep(r)
    BY <1>3, <2>3 DEF ApplyOptions, IInv, TypeOK, OptionsStep
  <2>5. process' = [process EXCEPT ![r] = p]
    BY <1>3 DEF ApplyOptions, Goto
  <2> QED
    BY <1>3, <1>a, <2>1, <2>4, <2>5, ProcessStep DEF ApplyOptions
<1>4. ASSUME NEW r \in Replicas, AddToManagers(r) PROVE IInv'
  <2> DEFINE p == [process[r] EXCEPT !.added = Controllers \ disabled, !.pc = "run"]
  <2>1. CASE process' = [process EXCEPT ![r] = p]
    <3>1. Sound(r, p, lease)
      BY <1>4, <1>b DEF AddToManagers, Sound, WellFormed, Process, PCs
    <3> QED
      BY <1>4, <1>a, <2>1, <3>1, OptionsKept, ProcessStep DEF AddToManagers
  <2>2. CASE Exit(r)
    BY <1>4, <1>a, <2>2, ExitStep DEF AddToManagers
  <2>3. process' = [process EXCEPT ![r] = p] \/ Exit(r)
    BY <1>4 DEF AddToManagers
  <2> QED
    BY <2>1, <2>2, <2>3
<1>5. ASSUME NEW r \in Replicas, NEW m \in Managers, Start(r, m) PROVE IInv'
  <2> DEFINE p == [process[r] EXCEPT !.managers[m] = "started"]
  <2>1. Sound(r, p, lease)
    BY <1>5, <1>b DEF Start, In, Sound, WellFormed, Process, Managers, States
  <2> QED
    BY <1>5, <1>a, <2>1, OptionsKept, ProcessStep DEF Start
<1>6. ASSUME NEW r \in Replicas, NEW m \in Managers, Lead(r, m) PROVE IInv'
  <2> DEFINE p == [process[r] EXCEPT !.managers[m] = "leads"]
  <2>1. p \in Process
    BY <1>b DEF Process, States
  <2>2. Sound(r, p, lease')
    BY <1>6, <1>b, <2>1 DEF Lead, In, Electing, Sound, WellFormed, Process, Managers
  <2>3. UNCHANGED lease \/ (lease = NoReplica /\ lease' = r)
    BY <1>6 DEF Lead
  <2> QED
    BY <1>6, <1>a, <2>2, <2>3, OptionsKept, ProcessStep DEF Lead
<1>7. ASSUME NEW r \in Replicas, NEW m \in Managers, StartControllers(r, m) PROVE IInv'
  <2> DEFINE new == (process[r].added \cap ControllersOf(m)) \ process[r].running
             p == [process[r] EXCEPT !.running = @ \cup new]
  <2>1. p \in Process
    BY <1>b DEF Process
  <2>2. process[r].pc = "run" /\ process[r].managers[m] = "leads"
    BY <1>7 DEF StartControllers, In
  <2>3. \A k \in Managers \ {m} : ControllersOf(k) \cap ControllersOf(m) = {}
    BY DEF Managers, ControllersOf, ControlControllers, TargetControllers
  <2>4. WellFormed(p)
    BY <1>b, <2>1, <2>2, <2>3 DEF Sound, WellFormed, Process
  <2>5. p.running \cap ControlControllers # {} => p.managers["control"] = "leads"
    <3>1. CASE m = "control"
      BY <1>b, <2>2, <3>1 DEF Process
    <3>2. CASE m = "target"
      BY <1>b, <2>2, <3>2
         DEF Process, Sound, ControllersOf, ControlControllers, TargetControllers
    <3> QED
      BY <3>1, <3>2 DEF Managers
  <2>6. Sound(r, p, lease)
    BY <1>b, <2>4, <2>5 DEF Sound, Process
  <2> QED
    BY <1>7, <1>a, <2>6, OptionsKept, ProcessStep DEF StartControllers
<1>8. ASSUME NEW r \in Replicas, NEW m \in Managers, ManagerFails(r, m) PROVE IInv'
  BY <1>8, <1>c, ExitStep DEF ManagerFails
<1>9. ASSUME NEW r \in Replicas, Crash(r) PROVE IInv'
  BY <1>9, <1>c, ExitStep DEF Crash
<1>10. ASSUME NEW r \in Replicas, Stop(r) PROVE IInv'
  <2> DEFINE p == [process[r] EXCEPT !.pc = "stop"]
  <2>1. Sound(r, p, lease)
    BY <1>10, <1>b DEF Stop, Sound, WellFormed, Process, PCs
  <2>2. process' = [process EXCEPT ![r] = p]
    BY <1>10 DEF Stop, Goto
  <2> QED
    BY <1>10, <1>c, <2>1, <2>2, OptionsKept, ProcessStep DEF Stop
<1>11. ASSUME NEW r \in Replicas, NEW m \in Managers, EndManager(r, m) PROVE IInv'
  <2> DEFINE p == Ended(r, m)
  <2>1. p \in Process
    BY <1>b DEF Ended, Process, States
  <2>2. Sound(r, p, lease)
    BY <1>11, <1>b, <2>1
       DEF EndManager, Ended, Sound, WellFormed, Process, Managers, ControllersOf
  <2> QED
    BY <1>11, <1>a, <2>2, OptionsKept, ProcessStep DEF EndManager
<1>12. ASSUME NEW r \in Replicas, Finish(r) PROVE IInv'
  BY <1>12, <1>a, ExitStep DEF Finish
<1>13. CASE Expire
  <2>1. \A r \in Replicas : process[r].managers["control"] = "leads" => r # lease
    BY <1>13 DEF Expire
  <2>2. LeadsWithLease'
    BY <1>13, <2>1 DEF Expire, IInv, LeadsWithLease
  <2>3. TypeOK' /\ Configured'
    BY <1>13 DEF Expire, deployment, IInv, TypeOK, Configured, BuildsConfig, CanLoad
  <2> QED
    BY <2>2, <2>3 DEF IInv
<1>14. CASE UNCHANGED vars
  BY <1>14 DEF vars, deployment, IInv, TypeOK, Configured, LeadsWithLease, BuildsConfig, CanLoad
<1> QED
  BY <1>1, <1>2, <1>3, <1>4, <1>5, <1>6, <1>7, <1>8, <1>9, <1>10, <1>11, <1>12, <1>13, <1>14
     DEF Next, Progress

(* The initial states satisfy the invariant.                                 *)
LEMMA Initial == Init => IInv
<1> SUFFICES ASSUME Init PROVE IInv
  OBVIOUS
<1>1. TypeOK
  BY DownType, DefaultsType, AppConstants DEF Init, TypeOK, Down, Managers
<1>2. \A r \in Replicas : /\ process[r].pc = "down" /\ process[r].running = {}
                          /\ process[r].managers["control"] = "new"
  BY DEF Init, Down, Managers
<1>3. Configured /\ LeadsWithLease
  BY <1>2 DEF Init, Configured, LeadsWithLease
<1> QED
  BY <1>1, <1>3 DEF IInv

-----------------------------------------------------------------------------
(* Every reachable state is well typed: no controller outlives its manager   *)
(* or its process.                                                           *)
THEOREM TypeCorrect == Spec => []TypeOK
<1>1. IInv => TypeOK
  BY DEF IInv
<1> QED
  BY <1>1, Initial, Inductive, PTL DEF Spec

(* However many replicas there are, and whatever fails in them, the          *)
(* publicipaddress and the virtualmachine controller never run in two of     *)
(* them at once.                                                             *)
THEOREM SingleActor == Spec => []AtMostOneActs
<1>1. IInv => AtMostOneActs
  BY DEF IInv, LeadsWithLease, AtMostOneActs, Runs
<1> QED
  BY <1>1, Initial, Inductive, PTL DEF Spec
-----------------------------------------------------------------------------
(* What a controller runs with: the section of the file, if there is one,    *)
(* and its built-in defaults otherwise, however often its process ends and   *)
(* starts again.                                                             *)
Applied ==
    \A r \in Replicas :
        process[r].pc \notin {"down", "complete", "apply"}
            => \A c \in Controllers : options[r][c].config = ApplySection(c)

RunsApplied ==
    \A r \in Replicas, c \in Controllers :
        Runs(r, c) => Loaded(file) /\ options[r][c].config = ApplySection(c)

(* Options change before the process adds controllers only: no other step    *)
(* of this or another replica touches what was applied.                      *)
LEMMA AppliedInductive == IInv /\ Applied /\ [Next]_vars => Applied'
<1> SUFFICES ASSUME IInv, Applied, [Next]_vars, NEW r \in Replicas, NEW c \in Controllers,
                    process'[r].pc \notin {"down", "complete", "apply"}
             PROVE  options'[r][c].config = ApplySection(c)'
  BY DEF Applied
<1>a. UNCHANGED file
  BY DEF Next, Progress, vars, deployment, Boot, Complete, ApplyOptions, AddToManagers, Start,
         StartControllers, EndManager, Finish, Crash, Stop, Lead, ManagerFails, Expire
<1>b. ApplySection(c)' = ApplySection(c)
  BY <1>a DEF ApplySection, DefaultConfig, DefaultPublicIPAddress, DefaultService,
              DefaultVirtualMachine, DefaultNode, SectionOf
<1>c. process \in [Replicas -> Process] /\ Down \in Process /\ Down.pc = "down"
  BY DownType DEF IInv, TypeOK, Down
<1>1. CASE UNCHANGED options /\ process[r].pc \notin {"down", "complete", "apply"}
  BY <1>1, <1>b DEF Applied
<1>2. ASSUME NEW q \in Replicas, ApplyOptions(q) PROVE options'[r][c].config = ApplySection(c)'
  <2>1. CASE q = r
    <3>1. options'[r][c] = Wire([options[r][c] EXCEPT !.config = ApplySection(c)])
      BY <1>2, <2>1 DEF ApplyOptions, IInv, TypeOK
    <3>2. options[r][c] \in AddOptions(c)
      BY DEF IInv, TypeOK
    <3> QED
      BY <1>b, <3>1, <3>2 DEF Wire, AddOptions
  <2>2. CASE q # r
    BY <1>2, <1>b, <1>c, <2>2 DEF ApplyOptions, Goto, Applied, IInv, TypeOK
  <2> QED
    BY <2>1, <2>2
<1>3. ASSUME NEW q \in Replicas, Boot(q) PROVE options'[r][c].config = ApplySection(c)'
  <2>1. q # r
    BY <1>3, <1>c DEF Boot, Goto
  <2> QED
    BY <1>3, <1>b, <1>c, <2>1 DEF Boot, Goto, Applied, IInv, TypeOK
<1>4. ASSUME NEW q \in Replicas, Exit(q), UNCHANGED options
      PROVE  options'[r][c].config = ApplySection(c)'
  BY <1>1, <1>4, <1>c DEF Exit
<1>5. ASSUME NEW q \in Replicas, Complete(q) PROVE options'[r][c].config = ApplySection(c)'
  <2>1. UNCHANGED options /\ (Exit(q) \/ Goto(q, "apply"))
    BY <1>5 DEF Complete
  <2>2. CASE Goto(q, "apply")
    <3>1. q # r
      BY <1>c, <2>2 DEF Goto
    <3>2. process'[r] = process[r]
      BY <1>c, <2>2, <3>1 DEF Goto
    <3> QED
      BY <1>1, <2>1, <3>2
  <2> QED
    BY <1>4, <2>1, <2>2
<1>6. ASSUME NEW q \in Replicas, AddToManagers(q) PROVE options'[r][c].config = ApplySection(c)'
  BY <1>1, <1>4, <1>6, <1>c DEF AddToManagers
<1>7. ASSUME NEW q \in Replicas, NEW m \in Managers,
             Start(q, m) \/ Lead(q, m) \/ StartControllers(q, m) \/ EndManager(q, m)
      PROVE  options'[r][c].config = ApplySection(c)'
  <2>1. UNCHANGED options /\ process'[r].pc = process[r].pc
    <3>1. CASE Start(q, m)
      BY <1>c, <3>1 DEF Start, Process
    <3>2. CASE Lead(q, m)
      BY <1>c, <3>2 DEF Lead, Process
    <3>3. CASE StartControllers(q, m)
      BY <1>c, <3>3 DEF StartControllers, Process
    <3>4. CASE EndManager(q, m)
      BY <1>c, <3>4 DEF EndManager, Ended, Process
    <3> QED
      BY <1>7, <3>1, <3>2, <3>3, <3>4
  <2> QED
    BY <1>1, <2>1
<1>8. ASSUME NEW q \in Replicas, Stop(q) PROVE options'[r][c].config = ApplySection(c)'
  <2>1. UNCHANGED options /\ (process'[r].pc = process[r].pc \/ process[r].pc = "run")
    BY <1>8, <1>c DEF Stop, Goto
  <2> QED
    BY <1>1, <2>1
<1>9. CASE Expire \/ UNCHANGED vars
  BY <1>1, <1>9 DEF Expire, vars
<1> QED
  BY <1>2, <1>3, <1>4, <1>5, <1>6, <1>7, <1>8, <1>9
     DEF Next, Progress, Crash, ManagerFails, Finish

(* What runs in a reachable state runs with what was applied.                *)
LEMMA AlwaysApplied == Spec => []RunsApplied
<1>1. Init => Applied
  BY DEF Init, Applied, Down
<1>2. IInv /\ Applied => RunsApplied
  <2> SUFFICES ASSUME IInv, Applied, NEW r \in Replicas, NEW c \in Controllers, Runs(r, c)
               PROVE  Loaded(file) /\ options[r][c].config = ApplySection(c)
    BY DEF RunsApplied
  <2>1. process[r].pc \in {"run", "stop"}
    BY DEF Runs, IInv, TypeOK
  <2> QED
    BY <2>1 DEF Applied, IInv, Configured, Loaded, BuildsConfig, CanLoad
<1> QED
  BY <1>1, <1>2, Initial, Inductive, AppliedInductive, PTL DEF Spec

-----------------------------------------------------------------------------
(* The periods.                                                              *)

(* The period that a controller reads from its options.                      *)
Period(c, config) ==
    CASE c = "service" -> config.ServiceSyncPeriod
      [] c = "node"    -> config.NodeSyncPeriod
      [] OTHER         -> config.SyncPeriod

(* The file gives every controller a period, in the sections that it has.    *)
GivesPeriods(f) ==
    \A c \in Controllers : f[SectionOf(c)] # Absent => Period(c, f[SectionOf(c)]) > 0

(* Every default is a period.                                                *)
LEMMA DefaultPeriods == \A c \in Controllers : Period(c, DefaultConfig(c)) > 0
BY DEF Controllers, ControlControllers, TargetControllers, Period, DefaultConfig,
       DefaultPublicIPAddress, DefaultService, DefaultVirtualMachine, DefaultNode

(* A controller that runs is called again after some time, if no section of  *)
(* the file sets its period to zero, which createOrUpdate takes for never:   *)
(* for a file without its section the default is there after every restart,  *)
(* and the section of one controller never takes the period of another.      *)
THEOREM Resynced ==
    ASSUME \A f \in Files \ {NoPath, Unreadable} : GivesPeriods(f)
    PROVE  Spec => []AlwaysResynced
<1>1. ASSUME RunsApplied PROVE AlwaysResynced
  <2> SUFFICES ASSUME NEW r \in Replicas, NEW c \in Controllers, Runs(r, c)
               PROVE  Period(c, options[r][c].config) > 0
    BY DEF AlwaysResynced, Period
  <2>1. Loaded(file) /\ options[r][c].config = ApplySection(c)
    BY <1>1 DEF RunsApplied
  <2> QED
    BY <2>1, DefaultPeriods DEF ApplySection, GivesPeriods, Loaded
<1> QED
  BY <1>1, AlwaysApplied, PTL

-----------------------------------------------------------------------------
(* The delays.                                                               *)

MinuteLength == 60 * 1000 * Million         \* in nanoseconds

(* n minutes are as long as n minutes are, if that fits a time.Duration.     *)
LEMMA MinutesExact ==
    ASSUME NEW n \in Nat, MinuteLength * n < Limit
    PROVE  Minutes[n] \in Duration /\ Val(Minutes[n]) = MinuteLength * n
<1> DEFINE G == {k \in Nat : k <= n => Val(Minutes[k]) = MinuteLength * k}
<1>1. /\ Minutes \in [Nat -> Duration] /\ Minutes[0] = Zero
      /\ \A k \in Nat : Minutes[k + 1] = MinuteLater[Minutes[k]]
  <2>1. Zero \in Duration /\ MinuteLater \in [Duration -> Duration]
    BY Durations, PlusType DEF MinuteLater
  <2>2. Minutes = Iterated(Zero, MinuteLater)
    BY DEF Minutes, Iterated
  <2> QED
    BY <2>1, <2>2, IteratedFunction
<1>2. Val(Zero) = 0 /\ Val(Minute) = MinuteLength /\ Minute \in Duration
  BY Durations, SMT DEF Val, Zero, Minute, Base, MinuteLength, Million
<1>3. 0 \in G
  BY <1>1, <1>2, SMT DEF MinuteLength, Million
<1>4. ASSUME NEW k \in Nat, k \in G PROVE k + 1 \in G
  <2> SUFFICES ASSUME k + 1 <= n PROVE Val(Minutes[k + 1]) = MinuteLength * (k + 1)
    OBVIOUS
  <2> DEFINE d == Minutes[k]
  <2>1. d \in Duration /\ Minutes[k + 1] = Plus(d, Minute) /\ Val(d) = MinuteLength * k
    <3>1. k <= n
      OBVIOUS
    <3>2. Val(d) = MinuteLength * k
      BY <1>4, <3>1
    <3> QED
      BY <1>1, <1>2, <3>2 DEF MinuteLater
  <2> HIDE DEF d
  <2>2. /\ Val(d) + Val(Minute) = MinuteLength * (k + 1)
        /\ MinuteLength * (k + 1) <= MinuteLength * n
        /\ MinuteLength * (k + 1) \in Int /\ MinuteLength * n \in Int
    BY <1>2, <2>1, SMT DEF MinuteLength, Million
  <2>3. Val(d) + Val(Minute) < Limit
    BY <2>2, LimitType
  <2> QED
    BY <1>2, <2>1, <2>2, <2>3, PlusVal, SummandsFit
<1>5. Nat \subseteq G
  <2> HIDE DEF G
  <2> QED
    BY <1>3, <1>4, Induction
<1> QED
  BY <1>1, <1>5

(* An interval that is not zero and whose last doubling before attempt max   *)
(* fits a time.Duration.                                                     *)
Fits(interval, max) ==
    max >= 2 => interval >= 1 /\ Shifted(MinuteLength * interval, max - 2) < Limit

(* Such delays are positive and grow.                                        *)
LEMMA DelaysGrow ==
    ASSUME NEW i \in Nat, NEW max \in Nat, Fits(i, max), NEW k \in 1 .. max - 1
    PROVE  /\ Less(Zero, requeueDelay(Minutes[i], k))
           /\ k > 1 => Less(requeueDelay(Minutes[i], k - 1), requeueDelay(Minutes[i], k))
<1> DEFINE d == Minutes[i]  x == MinuteLength * i  last == max - 2
<1>1. last \in Nat /\ i >= 1 /\ x \in Nat /\ x > 0 /\ Shifted(x, last) < Limit
  BY SMT DEF Fits, MinuteLength, Million
<1>2. Limit \in Int /\ \A j \in Nat : Shifted(x, j) \in Nat
  BY <1>1, LimitType, ShiftedGrows
<1> HIDE DEF last, x
<1>3. \A j \in Nat : j <= last => x <= Shifted(x, j) /\ Shifted(x, j) <= Shifted(x, last)
  BY <1>1, ShiftedGrows
<1>4. d \in Duration /\ Val(d) = x
  <2>1. 0 \in Nat /\ 0 <= last /\ Shifted(x, 0) = x
    BY <1>1, ShiftedGrows
  <2>2. x <= Shifted(x, last)
    BY <1>3, <2>1
  <2>3. x < Limit
    BY <1>1, <1>2, <2>2
  <2> QED
    BY <2>3, MinutesExact DEF x
<1> HIDE DEF d
<1>5. ASSUME NEW j \in Nat, j <= last
      PROVE  /\ ShiftLeft(d, j) \in Duration /\ ~Negative(ShiftLeft(d, j))
             /\ Val(ShiftLeft(d, j)) = Shifted(x, j)
  <2>1. Shifted(x, j) < Limit
    BY <1>1, <1>2, <1>3, <1>5
  <2>2. ShiftLeft(d, j) \in Duration /\ Val(ShiftLeft(d, j)) = Shifted(x, j)
    BY <1>4, <2>1, ShiftLeftType, ShiftLeftExact
  <2>3. ~(Val(ShiftLeft(d, j)) >= Limit)
    BY <1>2, <2>1, <2>2
  <2> QED
    BY <2>2, <2>3, ValType
<1> DEFINE j == k - 1
<1>6. j \in Nat /\ j <= last
  BY DEF last
<1>7. Less(Zero, ShiftLeft(d, j))
  <2>1. Zero \in Duration /\ ~Negative(Zero) /\ Val(Zero) = 0
    <3>1. Zero \in Duration
      BY Durations
    <3> QED
      BY <3>1, SMT DEF Zero, Negative, Val, Base
  <2> HIDE DEF j
  <2>2. 0 < Val(ShiftLeft(d, j))
    BY <1>1, <1>2, <1>3, <1>5, <1>6
  <2> QED
    BY <1>5, <1>6, <2>1, <2>2, LessVal
<1>8. ASSUME k > 1 PROVE Less(ShiftLeft(d, j - 1), ShiftLeft(d, j))
  <2> DEFINE h == j - 1
  <2>1. h \in Nat /\ h <= last /\ j = h + 1
    <3>1. j >= 1
      BY <1>8
    <3> HIDE DEF j
    <3> QED
      BY <1>1, <1>6, <3>1
  <2> HIDE DEF j, h
  <2>2. Shifted(x, j) = Shifted(x, h) + Shifted(x, h) /\ x <= Shifted(x, h)
    BY <1>1, <1>3, <2>1, ShiftedGrows
  <2>3. Shifted(x, h) < Shifted(x, j)
    BY <1>1, <1>2, <2>1, <2>2
  <2>4. Less(ShiftLeft(d, h), ShiftLeft(d, j))
    BY <1>5, <1>6, <2>1, <2>3, LessVal
  <2> QED
    BY <2>4 DEF h
<1> QED
  BY <1>7, <1>8 DEF requeueDelay, d

(* How often a controller of the control cluster tries, at most, and that    *)
(* the file makes all delays in between fit.                                 *)
Maxima(c, config) ==
    {config.MaxGetAttempts,
     IF c = "publicipaddress" THEN config.MaxCleanAttempts ELSE config.MaxReapplyAttempts}

GivesDelays(f) ==
    \A c \in ControlControllers : f[SectionOf(c)] # Absent
        => LET config == f[SectionOf(c)]
           IN  \A max \in Maxima(c, config) : Fits(config.RequeueInterval, max)

(* The defaults are four delays of one to eight minutes.                     *)
LEMMA DefaultDelays ==
    \A c \in ControlControllers : \A max \in Maxima(c, DefaultConfig(c)) :
        Fits(DefaultConfig(c).RequeueInterval, max)
<1>1. \A c \in ControlControllers :
          Maxima(c, DefaultConfig(c)) = {5} /\ DefaultConfig(c).RequeueInterval = 1
  BY DEF ControlControllers, Maxima, DefaultConfig, DefaultPublicIPAddress,
         DefaultVirtualMachine
<1>2. Fits(1, 5)
  <2> DEFINE x == MinuteLength * 1
  <2>1. x \in Nat /\ x = 60 * 1000 * Million
    BY SMT DEF MinuteLength, Million
  <2>2. Shifted(x, 3) = 480 * 1000 * Million
    <3> HIDE DEF x
    <3>1. Shifted(x, 0) = x /\ \A n \in Nat : Shifted(x, n + 1) = Shifted(x, n) + Shifted(x, n)
      BY <2>1, ShiftedGrows
    <3>2. Shifted(x, 0 + 1) = x + x
      BY <3>1
    <3>3. Shifted(x, 1 + 1) = Shifted(x, 1) + Shifted(x, 1)
      BY <3>1
    <3>4. Shifted(x, 2 + 1) = Shifted(x, 2) + Shifted(x, 2)
      BY <3>1
    <3> QED
      BY <2>1, <3>2, <3>3, <3>4, SMT DEF Million
  <2>3. 1000 * Million * 480 < Limit
    BY FitsLimit, SMT DEF Million
  <2> QED
    BY <2>2, <2>3, SMT DEF Fits, Million
<1> QED
  BY <1>1, <1>2

(* Up to the configured number of attempts, every delay that a running       *)
(* actuator asks for is positive and longer than the one before, if the      *)
(* interval in each section of the file is positive and its last doubling    *)
(* fits an int64: with an interval of a minute, 29 attempts.  The built-in   *)
(* defaults do.                                                              *)
THEOREM RequeuesBackOff ==
    ASSUME \A f \in Files \ {NoPath, Unreadable} : GivesDelays(f)
    PROVE  Spec => []DelaysBackOff
<1>1. ASSUME RunsApplied PROVE DelaysBackOff
  <2> SUFFICES ASSUME NEW r \in Replicas, NEW c \in ControlControllers, Runs(r, c),
                      NEW max \in Maxima(c, options[r][c].config), NEW k \in 1 .. max - 1
               PROVE  LET interval == Minutes[options[r][c].config.RequeueInterval]
                          delay(j) == requeueDelay(interval, j)
                      IN  Less(Zero, delay(k)) /\ (k > 1 => Less(delay(k - 1), delay(k)))
    BY DEF DelaysBackOff, Maxima
  <2> DEFINE config == options[r][c].config
  <2>1. Loaded(file) /\ config = ApplySection(c) /\ c \in Controllers
    BY <1>1 DEF RunsApplied, Controllers
  <2>2. Fits(config.RequeueInterval, max)
    BY <2>1, DefaultDelays DEF ApplySection, GivesDelays, Loaded
  <2>3. config.RequeueInterval \in Nat /\ max \in Nat
    <3>1. config \in Section[SectionOf(c)]
      BY <2>1, ApplySectionType
    <3>2. CASE c = "publicipaddress"
      BY <3>1, <3>2 DEF SectionOf, Section, OrphanedPublicIPRemedy, Maxima
    <3>3. CASE c = "virtualmachine"
      BY <3>1, <3>3 DEF SectionOf, Section, FailedVMRemedy, Maxima
    <3> QED
      BY <3>2, <3>3 DEF ControlControllers
  <2> HIDE DEF config
  <2> QED
    BY <2>2, <2>3, DelaysGrow DEF config
<1> QED
  BY <1>1, AlwaysApplied, PTL
==================================================================================
