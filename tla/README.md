# Flink Chaos Operator: verification project

TLA+ modules, TLC configurations and TLAPS proofs for the Flink Chaos Operator,
a Kubernetes operator that injects failures into Flink clusters (pod kills,
network partitions, network impairment, resource exhaustion) as asked for by
`ChaosRun` custom resources, observes the recovery and gives a verdict.

Paths below are relative to the repository root; `controller:NNN` stands for
`internal/controller/chaosrun_controller.go:NNN`.

## 1. The system

| Component | State it keeps | Operations | What is hard about it |
|---|---|---|---|
| ChaosRun controller (`internal/controller`) | none of its own: the status and the finalizer of the `ChaosRun`; metrics in memory | one `Reconcile` per key, dispatching to a handler per phase, abort and deletion before them | reads from a cache, writes merge patches without a version check, crashes between injection and its record, two ways to end (cleanup, deletion), progress only by requeue or watch event |
| Drivers (`internal/scenario/*`) | policies, ephemeral containers, deleted pods; records in the run's status | `Inject`, `Cleanup` | partial failure, repetition, containers nobody can delete, cached list of policies |
| Safety checker (`internal/safety`) | none | `Check` before an injection | the concurrency limit counts runs read from the cache; explicit selections |
| Resolvers (`internal/resolver/*`) | none | from a target to its TaskManager pods | label conventions, pods that are terminating |
| Observers (`internal/observer/*`) | none | what can be seen of a recovery | old pods taken for replacements |
| API types (`api/v1alpha1`) | the schema | `Validate`, `SetDefaults` | defaults exist only in memory |
| Builders (`internal/netchaos`, `stress`, `ephemeral`) | none | NetworkPolicies, tc scripts, stress commands, container names | which flows a policy denies, alone and together with others; name truncation; `set -e`; rounding of durations |
| API server (`internal/apiserver`) | the number of open event streams | create, abort, delete, read views, server-sent events | a connection limit under concurrent requests; events written to slow clients; defaults of its own |
| kubectl plugin (`cmd/kubectl-fchaos`) | none | create, watch, stop | translation of selectors and flags |
| Web UI (`ui/`) | React state | display | none for a model checker |

The parts meet in the `ChaosRun` object. Users create it, set
`spec.control.abort`, or delete it; the controller reads it through the informer
cache of controller-runtime and writes its status with merge patches; drivers,
called synchronously by the controller, act on pods and policies and put their
records into the object the controller holds, which the next patch sends. A new
version of the object comes back as a watch event that queues its key; the
other ways to be queued are a requeue, an error, and a restart.

What makes each part correct:

* controller: every run ends with a verdict its phase and its
  observations justify; what was injected is removed before a run ends well or
  the object goes; no unfinished run is forgotten; a finished run is not
  touched again;
* drivers: no more than was asked for is disrupted, repetition does not widen
  it, and "clean" means clean;
* safety checker: the limits hold for the cluster, not only for the cached view
  of one run;
* observers: "recovered" is only said of pods that are replacements;
* NetworkPolicies: a partition in force stops the flows its spec names and no
  others, next to the partitions of other runs;
* ephemeral containers: an impairment ends by itself, is not taken away or
  prolonged by another run's, and is reported clean when it is;
* front ends, defaults and validation: what was asked for is what happens, to
  the pods that were meant, for as long as was meant, and what is accepted can be
  carried out;
* event streams: the counter is exact, the limit is kept, and a client that reads
  learns every last phase.

`PROJECT.json` lists the components with their status and the hazards with their
lines.

## 2. Modules

| Module | What it is |
|---|---|
| `ChaosRunTypes` | the run's spec and status, the helpers of `phases.go`, the merge patch |
| `ChaosRunReconciler` | the controller with everything around it: API server, cache, work queue, drivers, cluster, users |
| `ChaosRunLifecycle` | the abstract specification: phase, verdict, and whether the cluster holds a policy of the run |
| `ChaosRunProperties` | invariants, action properties, liveness, the refinement mapping |
| `MCChaosRun` | the specs of runs the `ChaosRun*` configurations use, but for `ChaosRunRequests.cfg` |
| `SafetyChecker` | the pre-injection checks as operators on a spec, a resolved target and the listed runs |
| `TaskManagerRuns`, `MCTaskManagerRuns` | several runs against the pods of one workload: resolvers, checks, kill driver, observers |
| `PartitionPolicies`, `MCPartitionPolicies` | the NetworkPolicies of several runs of a namespace, made and deleted one by one, and the traffic they stop together |
| `InjectedContainers`, `MCInjectedContainers` | the ephemeral containers of several runs on shared pods: scripts, qdiscs, records, cleanup |
| `TargetResolution` | which pods a target stands for: resolvers, the plugin's selectors, the deployments the web UI offers |
| `ChaosRunRequests`, `MCChaosRunRequests` | the way of a request from plugin, web UI or manifest through schema, defaults, validation and safety checks to a driver; extends `SafetyChecker` and `TargetResolution` |
| `EventStreams`, `MCEventStreams` | the concurrent handlers of the server-sent events |
| `ChaosRunProofs`, `ChaosRunFreshProofs` (until the first outdated read), `ChaosRunStaleProofs` (reads of any age), `TaskManagerRunsProofs`, `PartitionPoliciesProofs`, `InjectedContainersProofs`, `ChaosRunRequestsProofs`, `EventStreamsProofs` | theorems and their proofs |

How they compose: `ChaosRunReconciler` follows one run through the whole
controller and leaves the contents of an injection abstract. `TaskManagerRuns`,
`PartitionPolicies` and `InjectedContainers` each take one kind of injection, with
several runs on the same pods, and leave of the controller only the order in which
it calls and records. `ChaosRunRequests` fixes which specs reach a driver. What
one of them leaves open, another one closes: whether an injection is admitted is
arbitrary in the first and computed in `TaskManagerRuns`; a unit in `ChaosRunReconciler`
is a policy in `PartitionPolicies` and a container in `InjectedContainers`.

### How the model corresponds to the code

*Grain of the steps.* Between two API calls a reconcile only computes. Each step
of `ChaosRunReconciler` is therefore one API call (or one call of a driver) with
the computation that leads to it; `pc` names the call that comes next and `mem`
is the Go object in memory. Users, the clock, containers and restarts come
between any two steps. `MaxConcurrentReconciles` is 1 per key whatever its
setting, so one `pc` suffices for one run.

*The object.* `store` is the sequence of versions from the one the informer cache has
seen (`Cached`) to the one the API server holds (`API`). A write that changes something
appends a version; a `WatchEvent` drops the first and queues the key. With `ReadLag = n`
a reconcile may start while the cache is n versions behind; `stale` counts the
reconciles that did, and `MaxStale` bounds them. A patch is `MergeStatus(base, run,
current)`: only the fields in which the changed object differs from the one that was
read are sent, and nothing checks that the server still holds the version that was read.
This is what `client.MergeFrom` without optimistic locking does.

*What the patch returns.* `Status().Patch` overwrites the object in memory with
the server's answer, the spec included. `mem` continues with that answer, and
`storedPoll` is the poll interval read back. A run written by a Go client holds
an explicit `pollInterval: 0s`, because the field is a struct (controller:472-477
describes this); a manifest without the field leaves the default in memory.

*Errors.* Every write may fail without being applied, may be applied with its
answer lost, or may find the object gone; each returns an error and a
rate-limited requeue, which is modelled as a timer that is due at once.

*Time.* A clock `0 .. MaxTime`; at `MaxTime` all deadlines have passed, so a run
never waits for a moment the bound excludes. Durations are in ticks.

*The cluster.* `effect[u]` is the state of unit u: the pod killed, the
NetworkPolicy in place, or the ephemeral container starting, active since a
time, or ended. A partition's units are its two policies; for the others a unit
is a pod. A container ends at any moment: the end of its duration and the death
of its pod both do that. Policies are listed through the manager's client, which
reads from a cache: with `PolicyLag = n` a policy made within the last n ticks may be missing
from the list, and `unseen` holds those that the last complete cleanup did not see.

*Left out of the status.* Messages, events, `EndedAt`, `SelectedPods`, the pod
counts, and conditions nobody reads again. Phase `""` and `Pending` are one.

| Code | Definitions |
|---|---|
| `Reconcile` | `Handler`, `ReconcileSkip`, `ReconcileDispatch`, `AbortViaCleaningUp`, `AbortNow`, `AbortCounted`, `CleanupOnDelete`, `RemoveOnDelete` |
| `reconcilePending`, `waitForStableCheckpoint` | `ValidationFails`, `RecordStart`, `Checkpoint...`, `StartInjecting` |
| `reconcileInjecting`, drivers' `Inject` | `InjectionRejected`, `DryRun`, `Inject`, `InjectFails`, `RecordInjection`, `RecordFailure`, `AddFinalizer` |
| `transitionToObserving` | `TransitionToObserving` |
| `reconcileObserving` | `ObservationDisabled`, `ObservationTimeout`, `PartitionElapsed`, `PartitionHeld`, `ObservationError`, `NotRecovered`, `RecoveryObserved` |
| `reconcileCleaningUp`, drivers' `Cleanup` | `CleanupTimeout`, `Cleanup`, `CleanupRetry`, `CleanupDone`, `RemoveFinalizer` |
| API server and plugin: abort, delete | `UserAborts`, `UserDeletes` |
| Kubernetes, controller-runtime | `WatchEvent`, `TimerFires`, `Restart`, `ContainerStarts`, `ContainerEnds`, `Tick` |

### Several runs, one workload

`TaskManagerRuns` looks at what `ChaosRunReconciler` leaves arbitrary: whether an
injection is admitted, what it kills and what counts as recovered. It extends
`SafetyChecker`. The controller has one worker, so a reconcile of one run never overlaps
with a reconcile of another; a reconcile is cut where it writes: the deletes, the patch
that records them (`RecordInjection`, which may be lost), the transition. `runCache` and
`podCache` are the informer caches, `RunEvent` and `PodEvent` bring them up to date one
object at a time. A reconcile may start from caches that are behind: `MaxStale` of them
from outdated statuses (`stale` counts them), each of them with a view of the pods that
is wrong of up to `PodLag` pods; `ghosts` are the pods that a kill found in its cache
and nowhere else. Pods are killed, replaced under new names and become ready. What the
JobManager says of its TaskManagers is arbitrary (`FlinkAnswers`): it counts one that
was killed until its heartbeats are missed. All pods belong to one workload, so that
"the same workload" has a meaning that does not depend on how a target is written.

| Code | Definitions |
|---|---|
| `Checker.Check` and its parts | `Check`, `EnoughTaskManagersRemain`, `BelowConcurrencyLimit`, ... |
| `Resolve` of the resolvers, `IsPodEligible` | `Resolve`, `TaskManagers`, `Resolvable`, `LogicalName`, `Eligible` |
| `tmpodkill` | `KillSelections`, `Kill` |
| the other drivers, as far as pods and records go | `Disrupt` |
| the three observers, the JobManager | `KubernetesObserver`, `FlinkRestObserver`, `CompositeObserver`, `FlinkAnswers` |
| `reconcileInjecting`, `reconcileObserving`, ... | `Reject`, `RecordInjection`, `RecordFailure`, `TransitionToObserving`, `ResumeObserving`, `Poll`, `ObservationEnds`, `CleanedUp`, `Abort` |

### Several partitions, one namespace

`PartitionPolicies` has the policies themselves. `Build` is what `policy.Build` makes of
labels, CIDR, direction and port; `Passes` is the rule of Kubernetes: a pod that no
policy of a direction selects is open in that direction, a selected one has what any of
the policies that select it allows. Every policy is created and deleted in a step of its
own, with the errors and restarts in between; what is carried over a restart is the
stored phase. A cleanup lists from the informer cache (`cached`), which shows the
policies of some earlier moment until `CacheCatchesUp`; `missed` holds what the last
cleanup of a run did not see. `Requested` is what the documents say a spec blocks,
`MayStop` what its policies account for. A flow has a source, a destination and a port,
of which one end is a pod.

| Code | Definitions |
|---|---|
| `policy.Build`, `resolvePartitionPeers` | `Build`, `AllowAllExcept`, `SelectedLabels`, `DestCIDR`, `Resolvable` |
| `Driver.Inject` | `Inject`, `ToCreate`, `CreatePolicy`, `CountedIfNew`, `CreateFails`, `RecordInjection` |
| `Driver.Cleanup` | `Cleanup`, `Listed`, `DeletePolicy`, `DeleteFails`, `AfterDeleteError`, `CleanupEnds` |
| NetworkPolicy in Kubernetes | `Selecting`, `Permits`, `MayLeave`, `MayEnter`, `Passes` |

### Several runs, one pod's containers

`InjectedContainers` has NetworkChaos and ResourceExhaustion, which differ in what the
container does. A pod has one root qdisc at most, and the tc script runs under `set -e`:
adding a qdisc fails when one is there, adding a filter may fail, and only a script that
has slept deletes the root qdisc. A container is named by scenario, cut run name and
index; `ShortName` is a parameter, so that two runs may share it. Nobody stops a
container. `polled` says whether the run is stored with a poll interval, without which
nobody requeues its cleanup (finding 1). Time goes in ticks, and what is due happens
before the next one; a start takes up to `StartDelay` ticks, or never comes.

| Code | Definitions |
|---|---|
| `BuildTCCommands`, the entrypoint script | `StartTc`, `AddFilter`, `Finish`, `AfterAddError`, `AfterSleep` |
| `ephemeral.ContainerName`, `FindContainerState` | `ContainerName`, `Next1`, `Ended` |
| `Inject` of the two drivers | `Inject`, `NoTarget`, `AddContainer`, `AddFails`, `PartialRecords`, `Injected`, `Interrupted` |
| `Cleanup` of the two drivers, `isCleanupComplete` | `StartCleanup`, `Cleanup`, `CleanupFails`, `Marked`, `Gone`, `Elapsed` |
| kubelet, cluster, clock | `StartStress`, `NeverStarts`, `PodDies`, `Surviving`, `Tick` |

### From a request to its pods

`ChaosRunRequests` is a pipeline: a request is refused or stored, validated, admitted
and handed to a driver. A spec is one flat record; durations are in halves of
a second, so that what is shorter than a second and what is rounded can be told
apart; addresses and bandwidths are one of a few representatives (an address, a
malformed one, a host name). Pods and label conventions are those of
`TargetResolution`. Every path computes on the whole spec: the plugin and the API server
start from what a Go program leaves in a spec it does not fill, the schema
adds its defaults at creation, and `SetDefaults` is applied anew at every reconcile
because the result is never stored. `Lasts` is the set of durations a disruption may have: a
partition ends with its observation, and when the timeout of that is shorter than the partition's
duration, at whichever reconcile comes in between.

| Code | Definitions |
|---|---|
| plugin: run commands, `validate.go` | `PluginAccepts`, `PluginSpec`, `TMKill`, `NetworkPartition`, `NetworkChaos`, `ResourceExhaustion`, `ParseSelector` |
| API server: `handleCreateChaosRun` | `UIAccepts`, `UISpec`, `UIBase`, `UINetwork`, `UIResourceExhaustion`, `MinTaskManagers` |
| API server: deployments, topology | `DeploymentNames`, `ShownPods`, `TopologyTargets` |
| schema markers, `SetDefaults`, `Validate` | `SchemaAccepts`, `WithSchemaDefaults`, `SetDefaults`, `Observed`, `Validate`, `ValidNetwork`, ... |
| the three resolvers, `podutil` | `Matches`, `IsTaskManager`, `ComponentRole`, `IsPodEligible`, `TMPods`, `Resolves` |
| durations in drivers and builders | `SleepSeconds`, `RoundedSeconds`, `StressTimeout`, `ResolvedDuration`, `Lasts` |
| `reconcilePending`, `reconcileInjecting` | `ReconcilePending`, `Reject`, `Kill`, `Disrupt`, `Fail` |

### Event streams

In `EventStreams` each client has a handler that raises the shared counter, is refused or
streams, and lowers the counter on its way out. A poll reads the list of runs; the
events are written one by one, while runs go on and clients stall or go. The
snapshot is set before the event is written, as in the code.

| Code | Definitions |
|---|---|
| `handleSSE`: counter and limit | `Enter`, `MayStream`, `Refuse`, `AfterRefusal`, `Leave` |
| the loop: poll, write, forget | `Connect`, `Poll`, `Changed`, `Send`, `EndPoll`, `AfterPoll`, `Notice` |

### Mutants

Operators named `..._Mutant`, `..._Hasty` and `..._Once` are plausible mistakes in
the operator that follows them. No specification uses them; they document which
mistake which property would find.

## 3. The abstract specification

`ChaosRunLifecycle` says what a reader of a run's status may rely on: the phases follow
one another as in the state machine, a verdict reached when the observation ended is the
one the run completes with, `Completed` and `Aborted` are reached only when no policy of
the run is left that its cleanup was shown, and only `Failed` promises nothing about the
cluster. `RefinesLifecycle` shows that the controller implements it, with `disrupted`
mapped to "a policy of this partition exists that the last cleanup's list did not miss",
until a reconcile first reads an outdated version: a handler that does can send a run
back to a phase it has left, which no life of a run allows. A run that has been deleted
is `Gone`; an injection already under way may still put policies in place then, and the
abstract specification admits it: the finalizer is added only after the injection has
been recorded (controller:453-464).

## 4. Runs

Deadlock checking is off where finished runs, or requests, stop for good.

| Run | Bounds | Question and answer |
|---|---|---|
| `controller` | 2 units (exchangeable), time 0..3, eight specs (kill, partition, checkpoint wait, observation off, invalid, dry run, an impairment cleaned up at once), fresh reads and lists, 1 fault, 1 restart, abort and delete | Does the controller lead the life of a run when it reads what it last wrote? `TypeOK`; an impairment on record is called clean only when its containers have ended or their duration has passed (`CleanedUpAfterDuration`); phases and verdicts are those of the abstract specification, finished runs are left alone, and no policy is left by a run that ended well (`RefinesLifecycle`). Yes. |
| `stale_reads` | 2 units (exchangeable), time 0..2, kill, partition and NetworkChaos, one reconcile that reads a version behind, lists of policies one tick behind, 1 fault, no restart, abort and delete | What survives stale caches? An unfinished run is never forgotten (`NeverParked`) and `Passed` is never said without a recovery (`PassedMeansRecovered`): both as they are. A run that ended well has left no policy (`EndsWithoutPolicies`), and no finalizer was removed before one (`FinalizerGuardsEffects`), but for policies that the list did not show. A kill takes one more selection for each fault or outdated read (`KillsAtMostCount`), and the end of a run is counted at most once more for each (`CountedOnce`, which also says which ends are counted at all). |
| `ends` | 1 unit, time 0..2, all four scenarios, fresh reads, 1 fault, abort and delete, fairness | Every run ends (`RunEnds`), and a run deleted while injecting or observing goes (`DeletionEnds`). Yes. |
| `unpolled_cleanup` | 1 unit, stored interval 0 | `NeverParked` fails, finding 1. |
| `failed_injection` | 2 units, 1 fault | `FinishedWithoutPolicies` fails, finding 2. |
| `task_managers` | two runs of seven kinds (among them a selector, a selection that names more pods than it counts, and one of a pod that is not there), three TaskManagers and one to come, one JobManager, 1 fault, one reconcile from outdated statuses, every reconcile from a cache wrong of up to one pod | By how much can the safety limits be missed, when injections fail half-way, are not recorded and are repeated? Runs on a target of one name: by one for each outdated read (`DisruptionsWithinLimit`). TaskManagers: by the names beyond the count, and by the pods that a kill found in its cache alone (`TaskManagersStay`); only those are killed twice (`VictimsAreDisjoint`). A recovery with a victim in service is reported at most once per outdated read (`RecoveryOnlyWithoutVictims`). |
| `false_recovery` | one run | `RecoveryMeansReplacement` fails, finding 3. |
| `partitions` | two runs of thirteen network specs, two with a port, two TaskManagers, a JobManager, two outside addresses, two ports, a cache of policies that is arbitrarily far behind, 1 fault, 1 restart; pairs that share the egress of the TaskManagers with different addresses excluded | Does a partition stop what it is documented to stop (`PartitionInForce`)? Yes, but for TMtoJM Egress, which stops the opposite. Is whatever is stopped accounted for by a spec whose policies are there (`NothingElseCut`), and is the namespace open again after the cleanups, but for policies they were not shown (`RestoredWhenClean`)? Does the status name the policies there are (`StatusNamesThePolicies`)? Yes. |
| `cancelled_partitions` | the pairs of external partitions the run before excludes | `PartitionInForce` fails, finding 4. |
| `requests` | three namespaces (two FlinkDeployments with terminating, pending and unlabelled pods, the same as a session, two Ververica deployments of one name), about 18,000 requests from the three front ends, with and without the number of TaskManagers, observation on, off and shorter than the partition | `LastTaskManagerNeedsConsent`, `DisruptionWithinCap`, `AskedDurationIsUsed`, `AdmittedIsDrivable`, `SelectorMeansItsPods`, `UIHitsWhatItShows`. All hold, with the exceptions their definitions name. |
| `impairments` | two runs with the same cut name, two pods, durations of 2 and 1, start delay 1, with a filter, without, or a stress container; 1 fault, fairness | In each pair one run is polled and one is not. Can containers of several runs, or of one that was interrupted, disturb one another? `SleepsOnOwnQdisc`, `LeftOnlyByFilter`, `OutlivesByStartDelay`, `RecordsNameOwnContainers`: no. Every impairment ends (`DisruptionEnds`), every cleanup of a polled run does (`CleanupConverges`). |
| `event_streams` | two clients, one connection, two runs of two phases that may be created three times, fairness | `CounterIsExact`, `StreamsWithinLimit`, `NothingSkipped`, `ClientsCatchUp`, `SlotsAreReturned`. All hold. |

*Why the bounds are enough to be interesting.* Two units let an injection and a
cleanup stop half-way and let a second selection differ from the first. A window
of one tick, a grace of one and a clock of three let the observation end by
recovery, by timeout or by the partition's duration, and let the cleanup deadline
pass while a cleanup is still retried. One fault and one restart hit every call
in turn, and together they repeat an injection twice. A restart is a fault with
another reason where reads are stale, and is left out there. One version of lag is what
a reconcile meets that starts from its own requeue before its own write has come
back, one tick is more than a policy needs to reach a cache. Larger lags and more
outdated reads are covered by the proofs: every property of `stale_reads` and of
`controller` is proved for every lag and bound.

For the safety limits two runs are enough: a run is admitted against the sum of the
others, and one other is enough to be at a limit of 1 or 2. Three TaskManagers admit a
kill of one, of two, and a second run after the first; the fourth is the replacement. One
pod that the cache shows in an earlier state is enough for a second kill to choose it. The
symmetry of `MCTaskManagerRuns` exchanges runs and the first three pods, which the specs
name all or none of.

For policies and containers two runs meet in every combination of specs, one fault
interrupts each call, and the proofs cover the rest: every safety property of these
two runs is proved for any number of runs, pods and faults. Durations of 2 and 1 with a start
delay of 1 let a container still wait, run or have ended when its record's time is
over. One connection for two clients is the limit reached and exceeded by
concurrent requests; two phases let a run go on while its first event is
being written, and a third creation lets it come back under its name.

*What stale reads break.* A handler that read the version before the end sends its own
phase, and the merge patch puts the finished run back: `RefinesLifecycle` is claimed of the
steps before the first such read. The missing version check of the patch is the reason.
`CleanedUpAfterDuration` has the same bound (`stale = 0`): the answer to the patch that
records an injection is lost, a reconcile of the old version injects again, meets a
container of its own name, fails, and its record of a part replaces the record of all. It
says `API.injected` because without a record on the object the cleanup
has nothing to look at and reports clean at once, while the containers of an
injection whose record was lost still run. The other properties are claimed of every
behaviour and say what an outdated read costs: another selection of a kill, another count, a policy
left that the list did not show, a run above the limit, a pod killed twice. Their bounds are history
variables (`stale`, `unseen`, `ghosts`, `missed`), which no action of the code reads.

*Fairness.* The work queue serves a queued key and a reconcile runs to its end
(`WF(Step)`); watch events arrive, timers fire, time passes; a container starts
and ends. Each holds of controller-runtime and of the kubelet as long as the
process lives. Nothing is assumed of users, faults (bounded) or restarts. The
choice among the outcomes of a step is not fair: an observation may fail for ever, and
`RunEnds` holds because the window closes.

In `InjectedContainers` time passes, scripts go on, and a run that is cleaning up is
requeued if it is stored with a poll interval. Without one (plugin and web UI store
`0s`) a cleanup that does not complete is not tried again, finding 1, and
`CleanupConverges` says nothing of such a run; that its impairments end by themselves is
claimed of all runs (`DisruptionEnds`). Nothing is assumed of injections, nor of pods.
In `EventStreams` a handler that can go on does, and a cancelled context is not passed
over for ever: `select` picks among its ready cases at random (strong fairness of
`Notice`, since a poll may always be ready too). Nothing is assumed of clients and runs.

### Findings

Of each of the first four a run has a counterexample.

1. *Cleanup without a poll* (`unpolled_cleanup`): in CleaningUp the requeue uses the
   poll interval read back by the patch just made (controller:783, :795). With
   `0s` stored nothing is requeued. The two other handlers capture the value first,
   and a comment there says why. Only the manager's resync (hours) would wake the run.
2. *A failed injection leaves its policies* (`failed_injection`): a partition whose
   second policy cannot be created ends Failed with the first in place, never
   passing through CleaningUp; the names of what was created are dropped
   (`internal/scenario/networkpartition/driver.go:229`, controller:408-422).
3. *A recovery without a replacement* (`false_recovery`): the observer computes the count
   before the injection from the pods that are live at the poll, so the comparison
   with the count after never fails (`internal/observer/kubernetes/observer.go:61`,
   `:101`). When the killed pod is gone and the survivors are ready, the run has Passed.
   With the REST observer the baseline is the recorded one, but the JobManager counts a
   killed TaskManager until its heartbeats are missed. The converse holds as well: a scenario
   that leaves its pods alive finds the injected pods among the live ones at every
   poll and cannot be observed to recover (`RecoveryOnlyWithoutVictims`); it ends by
   timeout.
4. *Partitions that cancel one another* (`cancelled_partitions`): an external partition
   is a policy that allows all egress of the namespace's TaskManagers but to one
   address. Kubernetes adds up what policies allow, so a second one, for another
   address or another deployment, allows what the first denies
   (`internal/scenario/networkpartition/driver.go:92-98`). `PartitionsHold` shows that
   this is the only way.

### Where documents promise more than the code keeps

The properties of the passing runs say what the code does. Where a document says more,
the case in which the code does not keep it is among the inputs of the run, the property
names it, and the sentence is quoted here (and under "findings" in `PROJECT.json`).

5. *TMtoJM Egress is laid on the JobManagers.* "Block outgoing traffic from source
   component" (`docs/scenarios/network-chaos.md:28`); the code stops what comes back
   from the JobManagers and lets pass what leaves the TaskManagers
   (`internal/scenario/networkpartition/driver.go:79-98`). `Requested` is the documented
   meaning, `PartitionInForce` excepts this one spec (`Reversed`).
   `BlocksWhatIsDocumented` is the promise without the exception: TLC refutes it in four
   states.
6. *A port widens a partition.* "Port restricts the chaos effect to a single destination
   port" (`api/v1alpha1/chaosrun_types.go:226`,
   `internal/netchaos/policy/builder.go:42`); the port narrows what is allowed, so that
   other ports of other addresses are denied too (builder.go:102). `MayStop` says so.
7. *A partition between pods isolates them.* "between specified component pairs"
   (`docs/scenarios/network-chaos.md:11`); the policy denies all traffic of the pods it is laid on
   (`MayStop` again; the comment of builder.go:50-52 describes it).
8. *A cleanup may miss a policy.* "Automatically removes the NetworkPolicy during the
   CleaningUp phase" (`docs/scenarios/network-chaos.md:12`); policies are listed from a
   cache (`internal/scenario/networkpartition/driver.go:137`). `EndsWithoutPolicies`,
   `FinalizerGuardsEffects` and `RestoredWhenClean` say that nothing else is left.
9. *A partition ends with its observation.* "Duration is how long the disruption remains
   active before cleanup" (`api/v1alpha1/chaosrun_types.go:273`); with observation off
   it ends at once, with a shorter timeout at that (controller:509-515, :533-588).
   Observation is off for a manifest that gives only a timeout or a poll interval, while
   `enabled` "Defaults to true" (types:370). `AskedDurationIsUsed` names the case
   (`EndedWithObservation`).
10. *A missing number is consent.* The default is 1, "Set explicitly to 0 to allow
    killing all TaskManagers" (types:403-404, `docs/api-reference.md:134`); the API
    server stores a number that the request leaves out as 0
    (`internal/apiserver/handlers_chaos_write.go:364`). The wizard sends it; other
    clients need not. `LastTaskManagerNeedsConsent` names it.
11. *Explicit selections escape the minimum.* "Ensures at least 1 TM pod survives
    injection" (`docs/safety.md:11`), "The run is blocked if this threshold would be
    violated" (types:402-403); the checker deducts the count, the driver deletes the
    names (`internal/safety/checker.go:148`). `TaskManagersStay` says by how much
    (`Excess`), `LastTaskManagerNeedsConsent` names it.
12. *One workload under two names.* "Prevents overlapping chaos runs on the same
    workload" (`docs/safety.md:10`), "All standard safety guardrails still apply" of
    selectors (`docs/target-types.md:67`); runs are compared by a logical name, which is
    the same for all selectors and never that of a deployment
    (`internal/safety/checker.go:197`). `DisruptionsWithinLimit` is claimed for each
    name.
13. *An address nobody validates.* "callers are expected to validate inputs before
    construction" (`internal/netchaos/tc/builder.go:133-134`); addresses are validated
    for external targets only (`api/v1alpha1/chaosrun_validation.go:162`) and written
    into the script for all. On a malformed one the builder panics. `AdmittedIsDrivable`
    names it.
14. *Ends that are not counted.* "incremented once per terminal transition (Completed,
    Aborted, Failed)" (`internal/controller/metrics.go:29-30`, `docs/metrics.md:9`); of
    the runs that end Failed only those whose cleanup timed out are counted, dry runs
    are not, and a failed last patch counts again. `CountedOnce` says which ends are
    counted and how often at most.

### Known limits

Behaviour met while modelling at which a property stops, and of which the documents say nothing:

* StartedAt is stamped anew each time a Pending run is reconciled (controller:225), so
  that the deadline of a wait for a checkpoint moves along. `RunEnds` is not claimed of
  such runs.
* A run deleted in CleaningUp whose cleanup deadline passes is finished with its finalizer
  in place (controller:755-771) and skipped from then on (controller:112): the object stays.
  `DeletionEnds` is claimed of runs deleted while they inject or observe.
* The finalizer is added after the injection is recorded (controller:453-464): a run deleted in
  between goes and leaves its policies.
* Durations below a second: a stress timeout rounds to `0s`, which is none
  (`internal/scenario/resourceexhaustion/stress/builder.go:60`), and a duration of `0s`
  passes the cap and becomes 60 seconds (`internal/scenario/networkchaos/driver.go:236`).
  `DisruptionWithinCap` and `AskedDurationIsUsed` are claimed of a second and more.
* The plugin drops selector requirements that are not equalities
  (`cmd/kubectl-fchaos/main.go:74-95`); `SelectorMeansItsPods` is about the others.
* When a tc filter fails its qdisc stays until the pod goes (`internal/netchaos/tc/builder.go:147`).
* A client of the event stream that stalls without closing holds its connection: there is
  no write timeout (`internal/apiserver/server.go:87`).
* Names of runs are taken not to be used again while policies or containers of that name are left.

## 5. Proofs

The theorems hold for every value of the constants that satisfies the named assumptions
of its module (`MaxTimeAssumption`, `UnitsAssumption`, `ConstantsAssumption`,
`RequestsAssumption`): any units, specs, lags, faults and restarts, any finite sets of
runs, pods and clients. What a theorem needs beyond that is its `ASSUME`, and only four
have one: `RunsAreNeverForgotten` (finding 1 refutes it without), `PartitionsHold`
(finding 4), `EnoughTaskManagersStay` (that there are enough at first) and
`UIIsTruthful` (labels by convention).

* `TypeCorrect` (`ChaosRunProofs`): `Spec => []TypeOK`. `TypeOK` is inductive. The content is in the
  merge patch (`MergeType`: a mixture of three versions is a well-formed run) and in
  the time arithmetic (`TimeType`).
* `RunsAreNeverForgotten` (`ChaosRunProofs`): `ASSUME PollIsStored PROVE Spec =>
  []NeverParked`, where `PollIsStored` says that the poll interval survives a patch.
  Finding 1 shows that the hypothesis is needed. `NeverParked` is not inductive. It is
  strengthened to `Awake == NeverParked /\ PhaseInMemory /\ DeletionIsFinal`:
  `PhaseInMemory` says that the patch which ended the run is what the steps "counted"
  and "removeFinalizer" come after, so that they may stop without a requeue;
  `DeletionIsFinal` says that a deletion seen in an old version is still there in the
  newest, so that removing the finalizer removes the object and nothing has to be
  queued. The argument is by the way a step ends: with a requeue; with a write that
  makes a new version, whose event is on its way; with a write that changed nothing, in
  which case the newest version already is what was written, an ended run; or with an
  error, which requeues.

* `PassedRunsRecovered` (`ChaosRunStaleProofs`): `Spec => []PassedMeansRecovered`. A
  handler decides on a version that may be old and sends differences to it, so
  the proof rests on what no write takes back: a recovery, a verdict, the start of the
  observation, and that something (an abort, a verdict, a recovery) decides how a
  cleanup is to end. `Sound` says of one version that it leads no handler to a false
  `Passed`: in CleaningUp the end is decided, in Observing the start is known, a
  partition has no replacement pods because it is never polled. `Grows` says
  what a later version keeps of an earlier one. The inductive invariant `Truthful` is
  that every version, and the copy in memory, is sound and that the
  server's version grows from each of them; it is claimed of the `Judged` runs,
  those that observe something and are not a resource exhaustion. The core is `MergeKeeps`: the
  merge patch of a sound change to an old version, applied to a newer sound version
  that has lost nothing, is sound and loses nothing.

* `PartitionsEndClean` (`ChaosRunStaleProofs`): `Spec => []EndsWithoutPolicies`, for
  every `ReadLag` and `PolicyLag`. A stale handler may inject, and nothing but the phase
  it read keeps it from doing so after the end. The invariant `Ordered` says what an old
  version tells of the newer ones (`Before`: an abort stays, nothing goes back to
  Pending, nothing from CleaningUp to Injecting) and, the other way round, how far a run
  may have come while an old version is still to be read (`Reachable`: as long as a
  version without an abort in Pending or Injecting is unread, the run has not been
  concluded, unless it is a dry run). A version is unread only until a newer one has
  been read (`Unread`), so a reconcile that has come to its cleanup has no version in
  Injecting before it. Hence no injection comes after the last cleanup, and
  `PoliciesOrdered` carries "no policies but those the list did not show" from the
  driver's answer to the end of the run. The core is `OrderedWrite`: what a write may
  make of the phase (`MayBecome`).

* `RunsAreCountedOnce`, `KillsAreLimited`, `FinalizerGoesLast` (`ChaosRunStaleProofs`):
  `CountedOnce`, `KillsAtMostCount`, `FinalizerGuardsEffects`, for every lag. One
  invariant, `Tallied`: while a run is still open to be counted (`Open`), or the driver
  still to be called (`MayKill`), every count and every selection so far is paid for by
  a fault, a restart or an outdated read (`Losses`); once it is closed there may be one
  more. `WriteTally` says what a write does to that account, `InjectTally` what the
  driver does, and `DispatchTally` that only the reading of an outdated version opens a
  closed run again. `CallsKnow` carries from a cleanup to the step that removes the
  finalizer that nothing is left which the list showed.

`ChaosRunFreshProofs` is about the steps up to the first reconcile that reads an
outdated version; nothing is assumed of the lags. Until then the object in memory
differs from the server's in what users do to it and nothing else (`Agree`), a patch
stores exactly the status that was computed (`MergeInStep`), and the call a reconcile
has come to determines the phase (`PhaseAt`): together `InStep`. On it rests an
invariant, `stale = 0 => Accounts`, and with it what every step promises (`Promised`).
`StaleGrows` says that `stale` never returns to 0. The paragraph on stale reads above
shows why the claim ends there.

* `CleanMeansEndedOrOver`: `CleanedUpAfterDuration`. `ContainersAccounted`: a recorded
  injection covers every container that is active, unless its time is over, until a
  driver has seen that container ended; the records in memory and in the driver's answer
  do as well. The proof needs that a selection of a container scenario is all of the
  target, so that a recorded injection is a complete one.
* `Implementation`: `Spec => RefinesLifecycle`. Initial states map to initial states;
  every step is one of `ChaosRunLifecycle` or leaves its variables alone. `Moves` says
  in terms of two versions how phase and verdict may go on, each write is shown to make
  such a move (`PatchStep`), and `MovesRefine`, `DeleteRefines`, `EffectsRefine` and
  `StutterRefines` turn moves, deletions and changes of the cluster into steps of the
  abstract specification. `PoliciesAccounted` says where there is no policy, or none
  that was shown.

The theorems of `TaskManagerRunsProofs` are for any lag of the caches, any ways of
naming targets and any selections.

* `TypeCorrect`: `Spec => []TypeOK`. `TypeOK` is inductive.
* `EnoughTaskManagersStay`: `TaskManagersStay`, if it holds at first (`EnoughAtFirst`:
  the checks cannot provide TaskManagers that were never there). The property is
  inductive: a kill that is admitted leaves what its own run asks for, less what it
  names beyond its count and the pods that only its cache still had (`KillLeavesEnough`,
  by counting; `CoveringCount`), and nothing else takes a TaskManager out of service
  (`OnlyKillsTake`).
* `DisruptionsAreLimited`: `DisruptionsWithinLimit`. That one of the
  disrupting runs allows their number is not inductive: that one may end. The invariant
  `GroupsWithinLimit` says it of every subset of them, an injection that is being recorded included
  (`Claimed`); an admission from outdated statuses adds one, and so does `stale`.
* `RecoveriesLeaveNoVictim`: `RecoveryOnlyWithoutVictims`, however old the pods are that
  the observer sees. An injected pod has been in the cache (`VictimsKnown`); if an
  observer later does not find it among the live ones, the cache shows it on its way
  out, and then it is (`CacheFollows`). Only a poll of outdated statuses, which do not
  show the injection, can report otherwise (`FewMisreported`).
* `NoPodIsKilledTwice`: `VictimsAreDisjoint`. `WorkClaims` says that a kill which is not
  yet recorded has claimed pods that no other has, but for `ghosts`.

`PartitionPoliciesProofs` proves every property of the run `partitions`, from one
inductive invariant: every policy is the one its run's spec asks for (`WellMade`), so
that two of one run and direction are one; what an injection has created and has still
to create make up its spec, and what it counts as created is there (`InjectionKnows`),
which is what makes a restart harmless; an active run has all its policies; a cleanup
has listed all that are left but those it missed (`CleanupKnows`, `NothingLeft`).

* `TypeCorrect`, `StatusIsExact`, `CleanRunsRestore`, `NothingElseIsCut`: without
  further assumptions, for any ports and a cache of policies that is any time behind.
* `PartitionsHold`: `PartitionInForce`, if no two partitions on the egress of the TaskManagers
  differ in their address (`Apart`; finding 4 otherwise).

`InjectedContainersProofs` proves every safety property of the run `impairments`, for
any names, equal or not. The invariant ties scripts to qdiscs in both directions
(`ScriptHasQdisc`, `QdiscHasScript`): from one of them alone, the end of a script could
delete another one's qdisc. `RecordsFit` bounds the records by the pods, from which the
indices in container names are. `RecordTime` relates the age of a record to what is left
of its container: together they are no more than the duration and the delay of the
start, and for a container that waits no more than that delay.

* `TypeCorrect`, `ScriptsSleepOnTheirOwn`, `OnlyFiltersLeaveQdiscs`, `RecordsAreOwn`,
  `CleanOutlivesByItsStart`: without further assumptions.

`ChaosRunRequestsProofs` proves every property of the run `requests`, for any
namespaces, pods, labels and requests. `RequestsAssumption` says what may be asked: a
request is a whole spec of one of the four scenarios (`WellFormed`), the front ends give
no value to what they have no flag or field for (a cap; for a partition from the plugin,
a duration), and the web UI starts a run for the target that the topology gave it. Two
kinds of lemmas carry the proofs. One says for each hand a spec goes through which
fields it changes: `FrontEndsWriteSpecs`, `WrittenFields`, `SchemaFields`,
`DefaultFields`, together `StoredFields`. The other says what the helpers compute:
`SubsetOfSize` (a kill finds a selection of its size), `DriversRound` (truncating or
rounding to seconds), `NothingDropped` (the plugin's selectors), `PlainKeysDecide` (the
resolvers' label keys). The invariant `Progress` says what a request that has come to a
stage has passed, and what the driver made of it.

* `CapHolds`, `DurationIsKept`, `ConsentIsNeeded`, `AdmissionSuffices`,
  `SelectorIsHonoured`: without further assumptions; the exceptions are those that the
  properties name.
* `UIIsTruthful`: `UIHitsWhatItShows`, if pods are labelled by convention
  (`LabelledByConvention`): the UI looks at the plain keys alone, the resolvers at three
  families of keys; and a pod that carries both the name of a FlinkDeployment and that
  of a Ververica deployment is shown under one and matched by the other.

The namespaces of the run `requests` are of that kind; TLC checks it (`ConventionsKept`).

`EventStreamsProofs`: `TypeCorrect`, `CounterCorrect`, `LimitKept`, `NoEventSkipped`. The counter is
related to the set of handlers that are counted; that the limit is kept follows from
`CounterIsExact`, since a handler is admitted by what its own `Add` returned. That no event is
skipped needs that a handler which is not yet connected has written nothing (`NothingYet`).

Every safety property, action property and refinement that a passing run checks is
proved. Only model-checked is liveness under fairness (`RunEnds`, `DeletionEnds`,
`DisruptionEnds`, `CleanupConverges`, `ClientsCatchUp`, `SlotsAreReturned`), which is
beyond the prover. No RECURSIVE operator is used.

## 6. Not modelled, and the plan

Not modelled, and why:

* the Flink REST client (`internal/observer/flinkrest/client.go`): HTTP and JSON
  decoding. Its answers are inputs: `FlinkAnswers` in `TaskManagerRuns`, the checkpoint
  check in `ChaosRunReconciler`;
* the other read handlers, the display parts of the topology and the web UI: read-only views;
* the list and status commands of the plugin: printing;
* process wiring (`cmd/*/main.go`): leader election is taken to leave one active controller;
* generated code, charts and manifests; metrics other than RunsTotal;
* validation of the wait for a checkpoint (`api/v1alpha1/chaosrun_validation.go`) and
  what makes a checkpoint stable: `ChaosRunReconciler` takes any answer;
* texts: messages, events, and the wording of scripts and commands.

What is left, most important first:

1. The stability of a checkpoint, from the polls of the JobManager.
2. Composition: `PartitionPolicies` as the cluster of `ChaosRunReconciler`, in place of its units.
