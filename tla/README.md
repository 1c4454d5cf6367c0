# TLA+ models of the Gardener remedy controller

The remedy controller watches services and nodes of a *target cluster*, keeps
one custom resource per public IP address (`PublicIPAddress`) and per node
(`VirtualMachine`) in a *control cluster*, and repairs what goes wrong with the
corresponding Azure resources: it deletes orphaned public IP addresses and
reapplies failed virtual machines. A second program, the remedy applier,
deletes orphaned addresses without custom resources.

The modules here model these programs call by call: every request to
Kubernetes or Azure is one action, so that everything else may happen between
any two requests. `PROJECT.json` maps every definition to the lines it models.

## Inventory

| part | state | operations | hard behaviour | properties that make it correct |
|---|---|---|---|---|
| reconciler (`pkg/controller/reconciler.go`) | work queue, delayed requeues, finalizers | Reconcile, createOrUpdate, delete, ensureDeleted | stale cached objects, conflicts, crashes between calls | nothing tracked is forgotten; the finalizer goes last |
| publicipaddress controller | status (name, failed operations), Azure addresses, load balancer | CreateOrUpdate, Delete, search, clean, status update | check by value, delete by name many calls later; attempts counted in a status read from a lagging cache; partial failures | cleans only its own address, only after the grace period; gives up only after the configured attempts; every deletion ends |
| virtualmachine controller | status, gauge of VM states | CreateOrUpdate, Delete, reapply | retries across reconciliations, events and syncs; metrics in memory | repaired or alerted; bounded retries; always scheduled |
| service controller | projections kept by the predicate, `PublicIPAddress` resources | CreateOrUpdate, Delete, predicate events | two watches and two caches that lag behind each other; ignored services; addresses that come back | every address is tracked, resources of services that are gone are released |
| node controller | projections, `VirtualMachine` resources | CreateOrUpdate, Delete, predicate events | as above | health is tracked, resources of nodes that are gone are released |
| owned object predicate (`pkg/controller/predicate.go`) | none | create, update, delete events of owned resources | an owned resource outlives its owner | part of the two above |
| `RemoveFromLoadBalancer` (`pkg/utils/azure/pubip.go`) | the load balancer | read, filter frontends, rules and probes, write | lost updates; references between the three lists | nothing dangling, nothing of others lost |
| remedy applier (`pkg/remedies/azure/pubip.go`, `cmd/remedy-applier-azure`) | one pass; failures in a row | list services, list addresses, take off, delete; backoff; stop | two lists taken at different times; a stop between any two calls; integer overflow | keeps what services have; orphans go; retries slow down |
| wiring and configuration (`cmd/remedy-controller-azure/app`, `pkg/cmd`, `pkg/apis/config`) | options, two managers, the lease | complete, apply, add, start, stop | several replicas; one manager of two fails; a stop while waiting for the lease; absent and partial sections | one replica writes to Azure; whatever fails, everything runs again; a process that is stopped ends |

Service and publicipaddress controllers interact through `PublicIPAddress`
resources only, node and virtualmachine controllers through `VirtualMachine`
resources only. All four run in one process, and several replicas of that
process run side by side. `PROJECT.json` lists every part with what is modelled
of it, and the hazards with the properties that cover them. Not modelled are
the simulators (tools that break Azure resources for manual tests), generated
code, charts and the Python tests.

## Modules

* `FailedOperations`: the list of failed operations of a status
  (`types_common.go`), one counter per operation type. Counters saturate at
  `AttemptsBound`; the code compares them with smaller maxima only.
* `PublicIPAddress`: reconciler and actuator of the publicipaddress controller
  for a set of resources; API server and informer cache, Azure addresses and
  load balancer, clock. `worker[p]` holds the locals of the reconciliation of
  `p` (a work queue runs one reconciliation per key). The status fields exists,
  ID and name are one field. `CreateOrPatch` is modelled as what it does: read
  from the cache, patch the fields that differ, continue with the server's
  reply. `Faults` selects failing Azure calls, failing API calls, crashes and a
  lagging cache; `Habits` selects what users and the cloud do: annotate, reuse
  names, claim an address whose deletion is under way, retag, unassign.
* `VirtualMachine`: the same for the virtualmachine controller, with the gauge.
  `burst` is a history variable that counts reapply calls since the last event,
  sync or success.
* `LoadBalancer`: what `RemoveFromLoadBalancer` does to the lists of frontends,
  rules and probes, for every load balancer of a small family.
* `Service`: reconciler, actuator, predicate with its cache, and the watch on
  `PublicIPAddress` resources. The publicipaddress controller appears as what it
  does to these resources: finalize them and end deletions.
* `Node`: the same for nodes and `VirtualMachine` resources.
* `Finalization`: what the finalizers of the generic reconciler promise of an
  object of the target cluster and of the resources kept for it: resources are made
  only under the finalizer, which leaves a living object only when it wants no
  resources, and a dying one only after those it wants. `Service` and `Node`
  instantiate it with a refinement mapping (`Lifecycle`).
* `Backoff`: delays in int64 arithmetic (four 16-bit digits, wrapping): the
  Fibonacci delay of the remedy applier and the shifted delay of the controllers.
* `RemedyApplier`: the passes of the remedy applier against a cloud provider
  that builds an address in four steps, and its shutdown by signal. `steady` is
  a history variable.
* `App`: every replica of the controller program, from reading its configuration
  to its end: `options` and `process` are the state of each process, `lease` the
  lease of the leader election. Managers, caches and leader election are those of
  controller-runtime, modelled as the program uses them: caches are synchronised
  before the election, losing the lease makes `Start` return an error, and the
  program exits on any error of either manager.
* `MC...`: model values and functions for the constants.
* `PublicIPAddressProofs`, `VirtualMachineProofs`, `ServiceProofs`, `NodeProofs`,
  `LoadBalancerProofs`, `RemedyApplierProofs`, `AppProofs`: theorems about these
  modules.
* `RecursiveFunctions`: induction and recursion on the natural numbers, and what
  the recursive functions of `Backoff` return for every argument.

Definitions commented as a *mutant* are plausible mistakes in the definition
that follows them. They are used nowhere; `PROJECT.json` says which property
each of them breaks when it takes the place of the original.

## Runs

Runs that pass:

| run | shows |
|---|---|
| PubipGuards | one resource, created once, and one Azure name, all faults, annotations that come and go, the name used again, addresses that lose their IP: types; an address is recorded only under the finalizer; cleaned only for a deletion that the API server knows of and whose grace period is over, and not when annotated; forgotten only after it was cleaned or given up |
| PubipConcurrent | two resources concurrently on one load balancer: each deletes only its own address, and neither forgets an orphan before giving up although Azure refuses calls in their races |
| PubipLiveness | every deletion ends, even if Azure always fails |
| VM | types; a tracked resource is always queued, delayed, reconciled or about to be; reapply calls between syncs and events are bounded; a failed machine is repaired or alerted; an alert ends with the failure; every deletion ends |
| LBReferences | nothing left refers to anything dropped; nothing of other addresses is dropped |
| ServiceSafety | with failing calls, crashes, lagging caches and expiring projections: types; when the finalizer of a service goes, the resources of its addresses have been deleted; a resource that turns up after its service is gone is never overlooked; implements `Finalization` |
| ServiceLiveness | two services that share a key of the service cache: addresses are tracked and resources of gone services released, and every deletion of a service ends, with lagging caches and expiring projections |
| Node | types; the finalizer goes after the `VirtualMachine` was deleted; health is tracked; resources of gone nodes are never overlooked, and are released; every deletion ends; with failing calls, crashes and stripped finalizers; implements `Finalization` |
| Applier | types; an address that a service has had since before the pass is kept; orphans go although a stop may come between any two calls; delays stay within five minutes, and grow for the first 50 failures in a row (the run goes on past the overflow that follows) |
| App | two replicas with complete, empty, absent and unreadable configurations and credentials, failing managers, crashes and stops: types; a controller that writes to Azure runs in one replica at most; whatever runs has a sync period and delays that grow; whatever is enabled runs again in the end; a stopped process ends |

Runs that show a disagreement between the code and what a comment or the
repository's README says (quoted under "findings" in `PROJECT.json`):

| run | shows |
|---|---|
| PubipUnassigned | an address without IP makes every reconciliation panic; its deletion never ends |
| ServiceRegained | an address given back to its service during the deletion of its resource is cleaned |

### Further deviations

The models also exhibit the following, which no run is kept for. Most are where
a comment or the repository's README promises more than the code does, and each
explains a restriction in the statement of a property above or in the bounds of
its run.

* `CleansOnlyAfterGracePeriod` fails with a lagging cache and `MaxUid = 2`: a
  resource re-created while the cache still shows its predecessor being deleted
  has no deletion timestamp when the status update reads it again, and
  `publicipaddress/actuator.go:167` skips the grace period. The same update
  writes a name into the status of a resource that has no finalizer yet, so that
  `RecordedIsFinalized` fails there, too.
* `PublicIPAddress`'s `DeletionTerminates` fails with "lag" among the faults and Azure
  failing for ever: a cache that stays one write behind for ever makes every status
  update start from the count before the last (`publicipaddress/actuator.go:280`), so
  that the maximum is never reached. Its run has a cache that catches up before each
  requeue.
* The search by name (`publicipaddress/actuator.go:224`) compares IPs only, so
  with the habit "retag" it returns an address tagged for another service; the
  search by IP compares tags. `CleansOnlyItsOwn` is therefore stated for names
  and addresses that stay what they are.
* The load balancer is written back whole without an etag (`utils/azure/pubip.go:136`):
  a frontend added between the read and the write is lost, of whichever address.
* `updateProbes` (`utils/azure/pubip.go:210`) appends a probe once per surviving
  rule, so that one with two rules is written back twice. `OthersStay` speaks of
  membership for that reason.
* Every `Failed` machine is reapplied; `spec.notReadyOrUnreachable` is not looked
  at (`virtualmachine/actuator.go:124`), although `README.md:46` describes
  the check as being made for a node that is not ready.
* After the maximum of reapply attempts, every sync reapplies once more and counts
  it in the status, which `README.md:209` says stays as it is. `RetriesBounded`
  counts between syncs.
* A reapply that succeeds and leaves the machine `Failed` sets the gauge to
  "failed" at once (`virtualmachine/actuator.go:159`), which `add.go:66` reserves
  for having given up.
* Whether to poll a machine again soon is decided by its state before the reapply
  (`virtualmachine/actuator.go:175`), so one that is Updating afterwards is looked
  at a sync period later.
* The resources for addresses that a service lost earlier can survive its finalizer:
  Delete lists them in a cache (`service/actuator.go:155`) and can miss one created
  just before. `FinalizerProtects` is therefore about the addresses that the service has
  when it goes, and `OrphansAreNoticed` and `OrphansAreReleased` about the others.
* Delete of a service does not look at the ignore annotation
  (`service/actuator.go:148`): the address of an ignored service is cleaned if
  annotation and deletion are seen together.
* The remedy applier lists services before addresses: one allocated in between,
  or still without IP, is deleted although a service has it by then.
  `KeepsSteadyAddresses` speaks of what was published before the pass.
* The delay after the 51st failure in a row overflows int64 and is negative, and
  later ones are now right and now wrong (`remedies/azure/pubip.go:159`).
  `RetriesSlowDown` speaks of negative and growing delays for the first 50 only
  (`InRange`); the theorem `RangeIsExact` says that there is no 51st.
* The requeue delay of the controllers is the interval shifted left by the
  attempts (`publicipaddress/actuator.go:102`). With an interval of a minute it
  is negative after the 29th failed attempt, so that a configured maximum of 30 or
  more makes `DelaysBackOff` fail: the last retries follow at once. `README.md:21`
  promises a backoff.
* A section of the configuration file replaces all defaults of a controller at
  once (`pkg/cmd/config_options.go:82`). Fields that `config/v1alpha1/types.go:53`
  marks as optional become zero when a section leaves them out, and with a sync
  period of zero nothing is ever reconciled again without an event.
  `AlwaysResynced` is checked for complete sections, as the chart renders them.
* The manager of the target cluster takes no part in the leader election
  (`app/app.go:57`): with several replicas, the service and node controllers run
  in each. `AtMostOneActs` is about the two controllers that write to Azure;
  `Service` and `Node` model one process.

### Bounds

One or two resources, since reconciliations of different keys share only the
load balancer and, for services, the keys of the predicate's cache (runs
PubipConcurrent and ServiceLiveness have two for that reason). Two IPs, so that there
is an address that is not the right one; one Azure name in PubipGuards, which comes
to denote another address by being used again, and two in PubipConcurrent. Maxima of
attempts of 1 or 2: below, at and above the limit all occur. Grace period 1 and
clock to 3 or 4: before, at and after its end occur. `MaxUid` bounds the
incarnations of a resource under one name; with 1, nothing is re-created:
`CleansOnlyAfterGracePeriod` and `RecordedIsFinalized` are properties of one
incarnation. `MaxEdits` bounds what users do and, for nodes, failing calls and
crashes too; `MaxLosses` the failing API calls and crashes of `VirtualMachine`,
each of which may cost one more reapply; `MaxGeneration` the changes of a spec;
`MaxAllocations` the reuse of a name; `MaxRetry` the failing calls in a row: the
delay reaches its limit of five minutes at the fifteenth failure (fib(14) = 377 s) and
overflows at the 51st, and the run goes to 52; only the calls that fail are bounded,
the counter of the program is not. `MaxStops` bounds the stop
signals of the applier; one is enough, as a restarted applier starts from
nothing. `MaxFailures` bounds what fails in `App`: with three, both replicas can
fail and the first can again while the second takes over. The configured maxima of
its file are 29 and 28 with intervals of one and two minutes, the last ones
whose delays do not overflow. Requeue delays are arbitrary in the modules of the
controllers, except in `VirtualMachine`, which tells a retry from a sync: a retry may
come at once, whatever the cache shows, while a sync finds a cache that has caught up
during the sync period. How long delays are is a question about `Backoff`, asked in
`App`.

The deadlock check is off for services and nodes, where the system rests once
the bounded users have stopped and everything is synchronised, for the replicas
of `App`, which rest once the bounded failures are spent, and for the load balancer,
whose update ends.

### Fairness

`WF` of every worker: a work queue hands every key to a worker eventually, a
delayed key is added after its delay, and calls return (with success or not:
where a fault is enabled, failing every time is a fair behaviour). `WF` of the
informers: watches deliver, and resyncs happen, which is also where an expired
projection takes effect. `WF` of the clock. In `Service` and `Node` the
deletion of an owned resource ends; this is what `DeletionTerminates` shows of
`PublicIPAddress` and `VirtualMachine`. Nothing is assumed of users, the cloud
provider or Azure, but for the remedy applier: calls fail at most `MaxRetry` times
in a row, since nothing is cleaned while Azure answers nothing. Crashes are not
fair and, in liveness runs, either absent or finitely many: a controller that
crashes for ever gets nothing done. In `App`, the kubelet starts a container that
has ended, a lease that is not renewed expires, and a free lease is taken. That
a leader ends before its lease expires (the guard of `Expire`) is an assumption about
client-go, whose renew deadline is shorter than the lease duration.

### Refinement

`Finalization` keeps, for every object of the target cluster, its phase (absent, live,
guarded by the finalizer, dying), the resources it wants and those made for it whose
deletion was not requested. The mapping reads the phase off the API server's object;
a service wants a resource for each address unless it is ignored, a node wants one
`VirtualMachine`. The users' moves are free; the controller's are not: `Make` needs the
finalizer, `Unfinalize` an object that wants nothing, `Finish` that none of what the
object wants is alive. A controller that creates before it adds the finalizer, that drops
it from a living service with addresses, or that drops it before it has deleted, does not
implement it (the mutants `DispatchUnfinalized` are of the first kind). Users strip the
finalizers of nodes: `stripped` remembers whose, and what a reconciliation in progress
does then is no breach. For services, nobody does. That deletions end is not in
`Finalization` but is the property `DeletionTerminates` of each controller. The resources
of the control cluster have no contract of this kind: what their finalizers protect is in
Azure, and is the subject of `LeaksOnlyAfterGivingUp` and `RecordedIsFinalized`.

## Proofs

Every theorem holds for all values of the constants that satisfy the `ASSUME`s of
its module (and `AttemptsBound \in Nat`, from `FailedOperations`), and each rests on
an inductive invariant whose parts are explained where they are defined. TLC checks
the same properties on the instances above.

| module | theorem | inductive invariant, beyond the types |
|---|---|---|
| PublicIPAddressProofs | `TypeCorrect` | none |
| | `Ownership`: `CleansOnlyItsOwn` | names are unique in Azure; every name held on behalf of a resource denotes its address, if any |
| | `FinalizerGoesFirst`: `RecordedIsFinalized` | the finalizer and the deletion timestamp that a copy of a resource shows stay until it goes; the actuator works on resources with the finalizer only, `Delete` only on those being deleted |
| | `CleansOnlyWhenDue`: `CleansOnlyAfterGracePeriod` | the same, and: from the decision to clean on, the object in hand is due, and the API server agrees with it |
| | `LeaksOnlyWhenLetGo`: `LeaksOnlyAfterGivingUp` | a deletion that found nothing, or has deleted what it found, leaves no address with the tag and IP of its resource, and none comes back |
| VirtualMachineProofs | `TypeCorrect` | a worker that updates its status has an outcome |
| | `NeverForgotten`: `AlwaysScheduled` | the cache never runs ahead of the API server; a resource re-created while the deletion of its predecessor is reconciled is queued or will be noticed |
| | `RetriesEnd`: `RetriesBounded` | the reapply calls since the last event, sync or success are at most those that the status counts and those whose count was lost, for every phase of the worker and of the queue; the cache knows the incarnation that carries the finalizer, and `AddFinalizers` lets nothing older pass |
| ServiceProofs | `TypeCorrect` | handler, object and program counter of a worker fit together; every incarnation was an edit |
| | `FinalizerGoesLast`: `FinalizerProtects` | a worker that deletes leaves none of the resources for the addresses it was given; those that it has yet to treat are in `todo` |
| | `OrphansNoticed`: `OrphansAreNoticed` | a worker that learns that its service is gone reconciles once more, and does not rest while the cache shows something to delete |
| | `Refinement`: `ImplementsFinalization` | resources are created under the finalizer, which leaves a living service only when it needs none |
| NodeProofs | `TypeCorrect` | every incarnation was an edit |
| | `FinalizerGoesLast`: `FinalizerProtects` | between the deletion of the `VirtualMachine` and the removal of the finalizer none is alive |
| | `OrphansNoticed`: `OrphansAreNoticed` | a deletion that is delivered during a reconciliation queues the node; the cache takes no living incarnation to be gone |
| | `Refinement`: `ImplementsFinalization` | nobody but a user takes the finalizer off before the `VirtualMachine` is created |
| LoadBalancerProofs | `ReferencesKept`: `ReferencesResolve`, `OthersKept`: `OthersStay` | each list is what the functions that have run make of the one that was read, and the ids handed on are those of what they dropped |
| RemedyApplierProofs | `TypeCorrect` | the delay is the one of the number of failures; a pass that is over leaves nothing behind |
| | `SteadyKept`: `KeepsSteadyAddresses` | a steady address is claimed by a service, known to the pass and not among the orphans |
| | `BacksOff`: `RetriesSlowDown`, `RangeIsExact` | the delay is the one of the number of failures |
| AppProofs | `TypeCorrect` | a process that is past its configuration has one |
| | `SingleActor`: `AtMostOneActs` | the control manager leads only with the lease; its controllers run only while it leads |
| | `Resynced`: `AlwaysResynced`, for files that set no period to zero | a process that adds controllers or runs them has applied the file's sections |
| | `RequeuesBackOff`: `DelaysBackOff`, for files whose last doubling fits | the same |

Why these strengthenings are needed:

* `Ownership` assumes `StableNames` (Azure neither reuses a name nor changes an
  address in place, i.e. `Habits` has none of "reuse", "retag", "unassign"). The
  action `DeleteIP` only has a name, so the property says nothing inductive by
  itself. New references come only from a search, which compares, and new
  addresses only under names that nobody holds. Between the search and `DeleteIP`
  nothing looks at the address again, and the search by name does not look at its
  tag: without the assumption the property is false.
* `FinalizerGoesFirst` and `CleansOnlyWhenDue` assume that a resource is not created again under
  its name (`OneIncarnation`, `MaxUid` at most 1, as in the run PubipGuards). The
  decision to clean is made on an object that was read several calls earlier; it
  stays right since nobody takes a deletion timestamp back. A new resource of the
  same name has none, and with a lagging cache `CleansOnlyAfterGracePeriod` is then
  false (see the deviations).
* `LeaksOnlyWhenLetGo` holds for every number of incarnations, but needs that an
  address does not come back unnoticed (`NoComeback`: no habit "reuse", "claim" or
  "retag"). TLC finds a leak with each of the three, with "reuse" only for a resource
  that is created again under its name. With names that are reused and one
  incarnation, the property is left to the run PubipGuards. The name that `DeleteIP`
  deletes is the one that the status records, which need not be the one that the
  search has just found: the invariant orders the names by age.
* `RetriesEnd` counts what the status does not: a status update that fails loses a
  count, which allows another attempt, and with a maximum of one a pending delayed
  requeue adds a second attempt. Hence `max(2, MaxReapplyAttempts)` plus the losses.
* `RetriesEnd` does not need a current cache for a retry. A worker that starts from an
  old copy learns so from the conflict in `AddFinalizers`, before it counts on the copy,
  or deletes and does not reapply; what it counts on from there on is what the API server
  has.
* `Service!FinalizerProtects` is about the last step of a deletion that takes two
  loops and any number of calls. The addresses of the object in hand are those of the
  service when the finalizer goes, since the removal conflicts with every change;
  `Released` says that those the first loop has treated stay without a living resource,
  which nobody but this worker creates.
* `OrphansAreNoticed` is about what the cached list of Delete missed. Neither cache is
  assumed to be current, so the invariant says of every program counter what an event
  that is still to come, the queue or the rest of the reconciliation will make up for
  (`Learns`, `Covers`, `Noticed`). It is the part of `OrphansAreReleased` that a proof
  reaches: in a state in which nothing is left to do, no orphan is left.
* The properties of `LoadBalancer` are about its last state only. The invariant says
  what the three lists are in between; the rest is what filtering and flattening do
  to the sets of elements (`WithoutList`, `FlattenedSet`), and that ids are distinct
  and references resolve in what Azure returns.
* `Node!FinalizerProtects` does not look at a list either: the `VirtualMachine` is
  deleted by name.
* `KeepsSteadyAddresses` rests on the order of the two lists. `MinIsMember`: the
  least of a set of numbers is a member of it (`Least` of `RecursiveFunctions`).
* `BacksOff` compares durations of 64 bits as numbers. `Val` is the number that four
  digits stand for; addition is exact below 2^63 and negative for the next sums
  (`PlusVal`), and `Less` is the order of numbers there (`LessVal`). Fibonacci numbers of
  seconds are below 2^63 nanoseconds up to the 49th, and the 50th is not
  (`FibOverflows`): the range of `RetriesSlowDown` ends where the arithmetic does, and
  there is no assumption on `MaxRetry` or on the number of failures.
* `RequeuesBackOff` asks of a file that its interval is positive and that the
  interval, doubled as often as for the last retry, is below 2^63 nanoseconds
  (`GivesDelays`). The code checks neither. The defaults satisfy it
  (`DefaultDelays`), as do the files of the run `App`. `Resynced` asks that no section
  of a file sets the period that its controller reads to zero (`GivesPeriods`), which the
  code does not check either.
* The refinements show that what a step writes is one move of `Finalization`, or none.
  For services the steps are first classified: some write a service (`ServiceWrites`),
  some a resource (`PubWrites`), the others neither. The moves of the controller need the
  invariant of `FinalizerGoesLast`.

Recursion is proved about by way of functions. The induction theorems of the library
take operators as parameters, which no prover here can instantiate;
`RecursiveFunctions` derives what is needed from well-founded relations, as
facts about sets and functions: `Induction` (a set that contains 0 and with each
number the next contains all), `RecursiveFunction` (a function with given first value
and step exists) and `IteratedFunction` (so that the `CHOOSE` behind a recursive
definition returns it). One caution for whoever extends it: tlapm 1.4.5 multiplies
constants with 63 bits and would accept that a product of literals that overflows is
what is left of it. No proof here has a product of literals of 2^62 or more in one
obligation; large factors are hidden behind names.

Only model-checked: all liveness properties, `EveryControllerRuns`, `StopEnds` and
`DeletionTerminates` among them, since liveness under
fairness is out of the prover's reach. Every invariant and every action property of
the passing runs, `ImplementsFinalization` included, is stated
by a theorem, under the assumptions named above.

## Left out

Wording of messages and logs, Prometheus counters, the encoding of labels and
names (a label or a name is the pair it encodes), the length limit of labels,
paging of lists, request counters, the namespaces that the manager of the control
cluster is restricted to, and the number of concurrent reconciles (keys are
independent but for what two-key runs check). Flags, the decoding of
configuration files and the making of clients are in `App` as far as they decide
whether and with what a controller is started. `AddFinalizers`
and `RemoveFinalizers` are functions of a library: they patch with an optimistic
lock, so that they conflict with every change since the object was read. The
simulators are tools that a developer runs to break Azure resources; the system
never calls them.

## Plan

Done: the controllers, the load balancer, the applier, the wiring; delays in int64
arithmetic; `Finalization` and its refinements. Left:

1. Compose `Service` with `PublicIPAddress` (orphaned IP remedy) and `Node` with
   `VirtualMachine` (failed VM remedy) with an abstract specification of what
   each remedy promises, in place of the summaries that `FinalizePub`,
   `FinishPub`, `FinalizeVM` and `FinishVM` are now; show the refinement.
2. Two processes of the service and node controllers for one cluster, since these
   do not take part in the leader election.
3. Proofs: the abstract specifications of 1., once they are there.
