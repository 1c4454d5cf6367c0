------------------------------ MODULE RemedyApplier ------------------------------
(*****************************************************************************)
(* The remedy applier (cmd/remedy-applier-azure/commands/root.go,            *)
(* pkg/remedies/azure/pubip.go), a program of its own that works without   *)
(* custom resources: pass after pass it lists the addresses that services of *)
(* type LoadBalancer have, then the public IP addresses of the resource      *)
(* group, and takes the ones whose IP no service has off the load balancer   *)
(* and deletes them.  A stop signal ends it after five seconds, whatever it  *)
(* is doing; what it knows is in memory only.                                *)
(*                                                                           *)
(* Every call to Kubernetes or Azure is one action.  Names are numbers, in   *)
(* the order in which Azure lists them.  Meanwhile the cloud provider builds *)
(* an address for a service in four steps (allocate the resource, assign the *)
(* IP, add a frontend, publish the IP in the status of the service) and, if  *)
(* nothing goes wrong, takes it down again.                                  *)
(*****************************************************************************)
EXTENDS Integers, Sequences, FiniteSetsExt, Backoff

CONSTANTS
    Names,              \* names of Azure public IP addresses
    Ours,               \* the names that contain the name of the shoot
    IPs, NoIP,          \* IP addresses, and none
    MaxAllocations,     \* bound on the allocations under one name
    MaxRetry,           \* bound on the failing calls in a row
    MaxStops,           \* bound on the stop signals, at least one
    Faults              \* subset of {"call"}: failing calls

ASSUME ApplierConstants ==
    /\ Names \subseteq Nat /\ Ours \subseteq Names
    /\ NoIP \notin IPs
    /\ MaxAllocations \in Nat /\ MaxRetry \in Nat /\ MaxStops \in Nat \ {0}

VARIABLES
    azure,              \* azure[n]: the Azure public IP address n
    frontends,          \* names with a frontend on the load balancer
    claimed,            \* IPs in the status of a LoadBalancer service
    pc,                 \* what the pass does next; "sleep" between two passes
    known, orphans, lb, \* what the pass has found out: getKnownK8sIps, the orphans of
                        \* separateOrphanAndKnownIps left to delete, the load balancer read
    retry, sleep,       \* failed attempts in a row, the delay before the next attempt
    program, stops,     \* "up" or "stopping", the stop signals so far
    steady              \* history: names whose IP has been claimed since the pass began

life == <<program, stops>>
vars == <<azure, frontends, claimed, pc, known, orphans, lb, retry, sleep, life, steady>>

Address == [exists : BOOLEAN, allocations : 0 .. MaxAllocations, ip : IPs \cup {NoIP},
            attached : BOOLEAN]

Absent(k) == [exists |-> FALSE, allocations |-> k, ip |-> NoIP, attached |-> FALSE]

-----------------------------------------------------------------------------
(* CleanPublicIps: a pass ends well, or it ends with its first error.        *)

Reset ==
    /\ pc' = "sleep" /\ retry' = 0 /\ sleep' = Zero
    /\ known' = {} /\ orphans' = {} /\ lb' = {}

(* The delays up to the bound, which TLC computes once, and any other one.   *)
Delays == Append([k \in 1 .. MaxRetry |-> backoff(k - 1)], backoff(MaxRetry))

delay(k) == IF k <= MaxRetry THEN Delays[k + 1] ELSE backoff(k)

Fail ==
    /\ pc' = "sleep" /\ retry' = retry + 1 /\ sleep' = delay(retry)
    /\ known' = {} /\ orphans' = {} /\ lb' = {}

(* An error of the call itself, bounded by the retries and the stops: none   *)
(* after the last stop.  Once the context is cancelled every call fails, but *)
(* what was sent before may take effect.                                     *)
CallFails ==
    /\ ("call" \in Faults /\ stops < MaxStops) \/ program = "stopping"
    /\ retry < MaxRetry /\ Fail

CallSucceeds == program = "up"

(* Mutant of getKnownK8sIps: a service without an IP counts as one with none. *)
getKnownK8sIpsOrNone ==
    /\ pc = "sleep"
    /\ known' = claimed \cup {NoIP} /\ steady' = {n \in Names : azure[n].ip \in claimed}
    /\ pc' = "getAll"
    /\ UNCHANGED <<azure, frontends, claimed, orphans, lb, retry, sleep>>

(* Mutant of getKnownK8sIps: an error of the call counts as an empty answer. *)
getNoK8sIpsOnError ==
    /\ pc = "sleep"
    /\ known' \in {claimed, {}} /\ steady' = {n \in Names : azure[n].ip \in claimed}
    /\ pc' = "getAll"
    /\ UNCHANGED <<azure, frontends, claimed, orphans, lb, retry, sleep>>

getKnownK8sIps ==
    /\ pc = "sleep"
    /\ \/ CallFails /\ UNCHANGED steady
       \/ /\ CallSucceeds
          /\ known' = claimed /\ steady' = {n \in Names : azure[n].ip \in claimed}
          /\ pc' = "getAll"
          /\ UNCHANGED <<orphans, lb, retry, sleep>>
    /\ UNCHANGED <<azure, frontends, claimed>>

(* Mutant of separateOrphanAndKnownIps: an address without an IP is skipped. *)
separateAssigned(ips) == {n \in Ours : azure[n].exists /\ azure[n].ip \notin ips \cup {NoIP}}

(* The orphans, given the known IPs.  An address without an IP is one.       *)
separateOrphanAndKnownIps(ips) == {n \in Ours : azure[n].exists /\ azure[n].ip \notin ips}

GetAll ==
    /\ pc = "getAll"
    /\ \/ CallFails
       \/ /\ CallSucceeds
          /\ orphans' = separateOrphanAndKnownIps(known)
          /\ pc' = "getLB"
          /\ UNCHANGED <<known, lb, retry, sleep>>
    /\ UNCHANGED <<azure, frontends, claimed, steady>>

(* RemoveFromLoadBalancer reads the load balancer ...                        *)
GetLoadBalancer ==
    /\ pc = "getLB"
    /\ \/ CallFails
       \/ /\ CallSucceeds
          /\ lb' = frontends /\ pc' = "putLB" /\ UNCHANGED <<known, orphans, retry, sleep>>
    /\ UNCHANGED <<azure, frontends, claimed, steady>>

WithoutOrphans == lb \ orphans

(* ... and writes it, whatever became of it since, without the frontends of  *)
(* the orphans.  Azure refuses a frontend whose address is gone, and an      *)
(* error may come after the write has taken effect.                          *)
PutLoadBalancer ==
    LET valid == \A n \in WithoutOrphans : azure[n].exists
    IN  /\ pc = "putLB"
        /\ \/ (CallFails \/ (~valid /\ Fail)) /\ UNCHANGED frontends
           \/ valid /\ frontends' = WithoutOrphans /\ CallFails
           \/ /\ CallSucceeds
              /\ valid /\ frontends' = WithoutOrphans
              /\ pc' = "delete" /\ UNCHANGED <<known, orphans, lb, retry, sleep>>
        /\ UNCHANGED <<azure, claimed, steady>>

(* The next orphan is deleted by its name.  Azure refuses an address that a  *)
(* frontend uses; that one is already gone is no error.                      *)
Delete ==
    LET n == Min(orphans)
        gone == [azure EXCEPT ![n] = Absent(@.allocations)]
    IN  /\ pc = "delete" /\ orphans # {}
        /\ \/ (CallFails \/ (n \in frontends /\ Fail)) /\ UNCHANGED azure
           \/ n \notin frontends /\ azure' = gone /\ CallFails
           \/ /\ CallSucceeds
              /\ n \notin frontends /\ azure' = gone
              /\ orphans' = orphans \ {n} /\ UNCHANGED <<pc, known, lb, retry, sleep>>
        /\ UNCHANGED <<frontends, claimed, steady>>

Finish ==
    /\ pc = "delete" /\ orphans = {}
    /\ Reset
    /\ UNCHANGED <<azure, frontends, claimed, steady>>

CleanPublicIps ==
    /\ UNCHANGED life
    /\ \/ getKnownK8sIps \/ GetAll \/ GetLoadBalancer \/ PutLoadBalancer
       \/ Delete \/ Finish

(* GetRootCommand: a stop signal cancels the context of the pass ...  (One   *)
(* that comes between two passes interrupts nothing and is left out.)        *)
StopSignal ==
    /\ program = "up" /\ pc # "sleep" /\ stops < MaxStops
    /\ program' = "stopping" /\ stops' = stops + 1
    /\ UNCHANGED <<azure, frontends, claimed, pc, known, orphans, lb, retry, sleep, steady>>

(* ... and some seconds later the program ends.  It is started again.        *)
Exit ==
    /\ program = "stopping" /\ program' = "up"
    /\ Reset /\ steady' = {}
    /\ UNCHANGED <<azure, frontends, claimed, stops>>

-----------------------------------------------------------------------------
(* The cloud provider.                                                       *)

applier == <<pc, known, orphans, lb, retry, sleep, life>>

Allocate(n) ==
    /\ ~azure[n].exists /\ azure[n].allocations < MaxAllocations
    /\ azure' = [azure EXCEPT ![n] = [Absent(@.allocations + 1) EXCEPT !.exists = TRUE]]
    /\ UNCHANGED <<frontends, claimed, steady, applier>>

Assign(n) ==
    /\ azure[n].exists /\ azure[n].ip = NoIP
    /\ \E ip \in IPs \ {azure[m].ip : m \in Names} :
          azure' = [azure EXCEPT ![n].ip = ip]
    /\ UNCHANGED <<frontends, claimed, steady, applier>>

Attach(n) ==
    /\ azure[n].ip # NoIP /\ ~azure[n].attached
    /\ azure' = [azure EXCEPT ![n].attached = TRUE]
    /\ frontends' = frontends \cup {n}
    /\ UNCHANGED <<claimed, steady, applier>>

Publish(n) ==
    /\ n \in frontends /\ azure[n].ip # NoIP /\ azure[n].ip \notin claimed
    /\ claimed' = claimed \cup {azure[n].ip}
    /\ UNCHANGED <<azure, frontends, steady, applier>>

(* The service goes, its address stays behind ...                            *)
Withdraw(ip) ==
    /\ ip \in claimed
    /\ claimed' = claimed \ {ip}
    /\ steady' = {n \in steady : azure[n].ip # ip}
    /\ UNCHANGED <<azure, frontends, applier>>

(* ... unless the cloud provider takes it down.                              *)
Release(n) ==
    /\ azure[n].exists /\ azure[n].ip \notin claimed
    /\ azure' = [azure EXCEPT ![n] = Absent(@.allocations)]
    /\ frontends' = frontends \ {n}
    /\ UNCHANGED <<claimed, steady, applier>>

-----------------------------------------------------------------------------
Init ==
    /\ azure = [n \in Names |-> Absent(0)]
    /\ frontends = {} /\ claimed = {}
    /\ pc = "sleep" /\ known = {} /\ orphans = {} /\ lb = {}
    /\ retry = 0 /\ sleep = Zero
    /\ program = "up" /\ stops = 0
    /\ steady = {}

Next ==
    \/ CleanPublicIps \/ StopSignal \/ Exit
    \/ \E n \in Names : Allocate(n) \/ Assign(n) \/ Attach(n) \/ Publish(n) \/ Release(n)
    \/ \E ip \in IPs : Withdraw(ip)

Spec == Init /\ [][Next]_vars

(* The program runs, its calls return, and a stop ends.  The cloud provider  *)
(* owes nothing.                                                             *)
FairSpec == Spec /\ WF_vars(CleanPublicIps) /\ WF_vars(Exit)

-----------------------------------------------------------------------------
(* The state is well typed.  Between two passes nothing of the last one is   *)
(* left, and a pass only ever deletes addresses of its shoot.                *)
TypeOK ==
    /\ azure \in [Names -> Address]
    /\ frontends \subseteq Names /\ claimed \subseteq IPs
    /\ pc \in {"sleep", "getAll", "getLB", "putLB", "delete"}
    /\ pc = "sleep" => known = {} /\ orphans = {} /\ lb = {}
    /\ known \subseteq IPs /\ orphans \subseteq Ours /\ lb \subseteq Names
    /\ retry \in Nat /\ sleep \in Duration
    /\ program \in {"up", "stopping"} /\ stops \in 0 .. MaxStops
    /\ steady \subseteq Names

(* This step of the applier deletes n.                                       *)
Deleted(n) ==
    azure[n].exists /\ ~azure'[n].exists /\ <<pc, orphans>>' # <<pc, orphans>>

(* An address whose IP a service has had ever since before the pass began is *)
(* not deleted, whatever is built, taken down and built again under the      *)
(* listed names while the pass goes on.                                      *)
KeepsSteadyAddresses == [][\A n \in Names : Deleted(n) => n \notin steady]_vars

Orphan(n) == n \in Ours /\ azure[n].exists /\ azure[n].ip \notin claimed

(* An orphan does not stay for ever: some pass gets it off the load balancer *)
(* and deletes it, although passes are cut short by errors and by stops of   *)
(* the program, each of which forgets the orphans found.                     *)
OrphansAreCleaned == \A n \in Names : Orphan(n) ~> ~Orphan(n)

(* So many failures in a row have delays that an int64 of nanoseconds holds. *)
InRange == 50

(* The README: operations are retried "with backoff", "to prevent it from    *)
(* exhausting platform rate limits due to infinite frequent retries".  No    *)
(* delay is longer than five minutes, and, as long as the failures in a row  *)
(* are in range, none is negative and none shorter than the one before.  (A  *)
(* negative delay is none; the delay after the 51st failure is negative.)    *)
RetriesSlowDown ==
    [][/\ ~Less(FiveMinutes, sleep')
       /\ retry' <= InRange => ~Negative(sleep')
       /\ (retry' > retry /\ retry' <= InRange) => ~Less(sleep', sleep)]_vars
==================================================================================
