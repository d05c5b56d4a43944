------------------------- MODULE ChaosRunReconciler -------------------------
(***************************************************************************)
(* The controller of internal/controller/chaosrun_controller.go driving    *)
(* one ChaosRun, together with everything it talks to: the API server and  *)
(* the informer cache in front of it, the work queue of controller-        *)
(* runtime, the scenario drivers and what they leave in the cluster, and   *)
(* the users who abort or delete the run.                                  *)
(*                                                                         *)
(* A reconcile is cut at its API calls.  Between two calls it only         *)
(* computes, so the computation is part of the step that makes the next    *)
(* call; a user, the clock, a container or a restart may come in between.  *)
(***************************************************************************)
EXTENDS ChaosRunTypes

CONSTANTS
  Specs,        \* the specs a run may be created with
  CleanupGrace, \* cleanupGrace, in ticks
  ReadLag,      \* how many versions behind the server a reconcile may read
  PolicyLag,    \* how many ticks a list of NetworkPolicies may be behind
  MaxFaults,    \* bound: API calls that fail
  MaxCrashes,   \* bound: restarts of the controller
  MaxStale,     \* bound: reconciles that read an outdated version
  UserActions   \* what users may do, a subset of {"abort", "delete"}

ASSUME ConstantsAssumption ==
  /\ Specs \subseteq RunSpec
  /\ CleanupGrace \in Nat /\ ReadLag \in Nat /\ PolicyLag \in Nat
  /\ MaxFaults \in Nat /\ MaxCrashes \in Nat /\ MaxStale \in Nat
  /\ UserActions \subseteq {"abort", "delete"}

VARIABLES
  spec,     \* the spec of the run, immutable but for control.abort
  store,    \* versions of the object, from the informer's to the server's
  queued,   \* the work queue holds the run's key
  timer,    \* when the delaying queue adds the key again, or NoTime
  pc,       \* the API call the running reconcile makes next, or "idle"
  mem,      \* the object the running reconcile has in memory
  result,   \* what the driver last returned to the running reconcile
  effect,   \* [Units -> when its disruption began, or NoTime, Starting, Ended]
  counted,  \* how often RunsTotal was incremented for this run
  now,      \* the clock
  faults,   \* API calls that have failed
  crashes,  \* restarts so far
  stale,    \* reconciles so far that read an outdated version
  unseen    \* policies that the list of the last complete cleanup did not show

vars == <<spec, store, queued, timer, pc, mem, result, effect, counted, now,
          faults, crashes, stale, unseen>>

API    == store[Len(store)]   \* what the API server holds
Cached == store[1]            \* what r.Get returns: the informer's copy

-----------------------------------------------------------------------------
(* Time.  At MaxTime every deadline has passed. *)

Past(t, d)  == now - t > d \/ now = MaxTime
Over(t, d)  == now - t >= d \/ now = MaxTime
After(d)    == IF now + d > MaxTime THEN MaxTime ELSE now + d

\* ctrl.Result{RequeueAfter: d}: zero means no requeue at all.
RequeueAfter(d) == IF d = 0 THEN NoTime ELSE After(d)

\* The delaying queue keeps the earliest time it was given for a key.
Earliest(t, u) ==
  IF t = NoTime THEN u ELSE IF u = NoTime \/ t <= u THEN t ELSE u

-----------------------------------------------------------------------------
(* The API server and the end of a reconcile. *)

\* A write that changes nothing makes no new version and no watch event.
Push(run) == IF run = API THEN store ELSE Append(store, run)

Continue(run, next, wake) ==
  /\ pc' = next
  /\ mem' = IF next = "idle" THEN NewRun ELSE run
  /\ timer' = Earliest(timer, wake)

\* An error returned to controller-runtime: a rate-limited requeue.
Fail == Continue(NewRun, "idle", now)

(***************************************************************************)
(* One write.  It succeeds and the reconcile goes on with the server's     *)
(* answer in memory; or it fails because the object is gone, because it    *)
(* was not applied, or because only the answer was lost.                   *)
(***************************************************************************)
Write(written, next, wake) ==
  \/ /\ API.exists
     /\ store' = Push(written)
     /\ Continue(written, next, wake)
     /\ UNCHANGED faults
  \/ /\ ~API.exists
     /\ Fail
     /\ UNCHANGED <<store, faults>>
  \/ /\ API.exists /\ faults < MaxFaults
     /\ faults' = faults + 1
     /\ store' \in {store, Push(written)}
     /\ Fail

PatchStatus(run, next, wake) == Write(MergeStatus(mem, run, API), next, wake)

\* finishRun, called before the patch it reports.
FinishRun == counted' = counted + 1

NoResult == [units |-> {}, at |-> NoTime]

\* What no step of a reconcile but its first changes.
Untouched == UNCHANGED <<spec, queued, now, crashes, stale, unseen>>

-----------------------------------------------------------------------------
(* Reconcile *)

Handler(run) ==
  CASE run.deleting /\ run.finalizer -> "deleteCleanup"
    [] ~(run.deleting /\ run.finalizer)
         /\ run.abort /\ run.phase # "CleaningUp" -> "abort"
    [] OTHER -> run.phase

\* The run is gone or finished: nothing to do, not even for a deletion.
ReconcileSkip ==
  /\ pc = "idle" /\ queued /\ Len(store) <= ReadLag + 1
  /\ ~Cached.exists \/ IsTerminal(Cached.phase)
  /\ queued' = FALSE
  /\ UNCHANGED <<spec, store, timer, pc, mem, result, effect, counted, now,
                 faults, crashes, stale, unseen>>

ReconcileDispatch ==
  /\ pc = "idle" /\ queued /\ Len(store) <= ReadLag + 1
  /\ Cached.exists /\ ~IsTerminal(Cached.phase)
  /\ \/ Len(store) = 1 /\ UNCHANGED stale
     \/ Len(store) > 1 /\ stale < MaxStale /\ stale' = stale + 1
  /\ queued' = FALSE
  /\ pc' = Handler(Cached)
  /\ mem' = Cached
  /\ UNCHANGED <<spec, store, timer, result, effect, counted, now, faults,
                 crashes, unseen>>

\* Mistake: the injection of a run still in Injecting is forgotten.
HasInjectedResources_Mutant(run) ==
  NeedsCleanup(spec.scenario) /\ run.phase = "Observing"

HasInjectedResources(run) ==
  NeedsCleanup(spec.scenario) /\ run.phase # "Pending"

AbortViaCleaningUp ==
  /\ pc = "abort" /\ HasInjectedResources(mem)
  /\ PatchStatus(TransitionPhase(SetCondition(mem, "AbortRequested"),
                                 "CleaningUp"), "idle", now)
  /\ UNCHANGED <<result, effect, counted>> /\ Untouched

\* Mistake: counted before the patch like every other end, and after it.
AbortNow_Mutant ==
  /\ pc = "abort" /\ ~HasInjectedResources(mem)
  /\ PatchStatus(AbortRun(SetCondition(mem, "AbortRequested")), "counted", NoTime)
  /\ FinishRun
  /\ UNCHANGED <<result, effect>> /\ Untouched

\* Here RunsTotal is incremented after the patch, and only if it succeeds.
AbortNow ==
  /\ pc = "abort" /\ ~HasInjectedResources(mem)
  /\ PatchStatus(AbortRun(SetCondition(mem, "AbortRequested")), "counted", NoTime)
  /\ UNCHANGED <<result, effect, counted>> /\ Untouched

AbortCounted ==
  /\ pc = "counted"
  /\ FinishRun
  /\ Continue(NewRun, "idle", NoTime)
  /\ UNCHANGED <<store, faults, result, effect>> /\ Untouched

-----------------------------------------------------------------------------
(* reconcilePending and waitForStableCheckpoint *)

ValidationFails ==
  /\ pc = "Pending" /\ ~spec.valid
  /\ PatchStatus(FailRun(mem), "idle", NoTime)
  /\ UNCHANGED <<result, effect, counted>> /\ Untouched

RecordStart ==
  /\ pc = "Pending" /\ spec.valid
  /\ PatchStatus([mem EXCEPT !.startedAt = now],
                 IF spec.checkpoint THEN "checkpoint" ELSE "toInjecting", NoTime)
  /\ UNCHANGED <<result, effect, counted>> /\ Untouched

\* A run the server already holds as Failed (an old version was read) stops.
CheckpointStable ==
  /\ pc = "checkpoint"
  /\ Continue(mem, IF mem.phase = "Failed" THEN "idle" ELSE "toInjecting", NoTime)
  /\ UNCHANGED <<store, faults, result, effect, counted>> /\ Untouched

CheckpointCheckFails ==
  /\ pc = "checkpoint"
  /\ Fail
  /\ UNCHANGED <<store, faults, result, effect, counted>> /\ Untouched

CheckpointWaitTimeout ==
  /\ pc = "checkpoint" /\ Past(mem.startedAt, spec.checkpointWait)
  /\ PatchStatus(FailRun(mem), "idle", NoTime)
  /\ UNCHANGED <<result, effect, counted>> /\ Untouched

CheckpointNotStable ==
  /\ pc = "checkpoint" /\ ~Past(mem.startedAt, spec.checkpointWait)
  /\ PatchStatus(mem, "idle", RequeueAfter(spec.storedPoll))
  /\ UNCHANGED <<result, effect, counted>> /\ Untouched

StartInjecting ==
  /\ pc = "toInjecting"
  /\ PatchStatus(TransitionPhase(mem, "Injecting"), "idle", now)
  /\ UNCHANGED <<result, effect, counted>> /\ Untouched

-----------------------------------------------------------------------------
(* reconcileInjecting and the drivers' Inject *)

InEffect == {u \in Units : effect[u] \notin {NoTime, Ended}}

\* Target resolution or a safety check rejects the run.
InjectionRejected ==
  /\ pc = "Injecting" /\ ~mem.injected
  /\ PatchStatus(FailRun(mem), "idle", NoTime)
  /\ UNCHANGED <<result, effect, counted>> /\ Untouched

DryRun ==
  /\ pc = "Injecting" /\ ~mem.injected /\ spec.dryRun
  /\ PatchStatus(FinalizeRun(mem, "Inconclusive"), "idle", NoTime)
  /\ UNCHANGED <<result, effect, counted>> /\ Untouched

\* Mistake: one pod more than Count.
Selections_Mutant ==
  IF NeedsCleanup(spec.scenario) THEN {Units}
  ELSE {S \in SUBSET (Units \ InEffect) : Cardinality(S) = spec.count + 1}

(***************************************************************************)
(* What a driver goes for.  TaskManagerPodKill picks Count of the pods     *)
(* that are alive; the others act on all of the target.                    *)
(***************************************************************************)
Selections ==
  IF NeedsCleanup(spec.scenario) THEN {Units}
  ELSE LET alive == Units \ InEffect
       IN {S \in SUBSET alive :
             \/ Cardinality(S) = spec.count
             \/ S = alive /\ Cardinality(alive) < spec.count}

\* A policy that already exists is left as it is.
Disrupt(S) ==
  effect' = [u \in Units |->
    IF u \notin S \/ (spec.scenario = "NetworkPartition" /\ effect[u] # NoTime)
      THEN effect[u]
      ELSE IF InContainers(spec.scenario) THEN Starting ELSE now]

\* Their own idempotency: containers on record are not started again.
AlreadyInjected == InContainers(spec.scenario) /\ mem.records # {}

Inject(S) ==
  /\ pc = "Injecting" /\ ~mem.injected /\ ~spec.dryRun
  /\ S \in Selections /\ S # {}
  /\ IF AlreadyInjected
       THEN /\ result' = [units |-> mem.records, at |-> mem.injectedAt]
            /\ UNCHANGED effect
       ELSE /\ result' = [units |-> S, at |-> now]
            /\ Disrupt(S)
  /\ pc' = "recordInjection"
  /\ UNCHANGED <<store, mem, timer, faults, counted>> /\ Untouched

(***************************************************************************)
(* A call of the driver fails when it has done the part T of its work: a   *)
(* fault, after which the call that failed may have been carried out all   *)
(* the same, or (for a container) a name that the pod already has.  D is   *)
(* what has been done to the cluster.                                      *)
(***************************************************************************)
InjectFails(S, T, D) ==
  /\ pc = "Injecting" /\ ~mem.injected /\ ~spec.dryRun /\ ~AlreadyInjected
  /\ S \in Selections /\ T \subseteq S
  /\ \E u \in S \ T :
       \/ /\ faults < MaxFaults
          /\ faults' = faults + 1
          /\ D \in {T, T \cup {u}}
       \/ /\ InContainers(spec.scenario) /\ effect[u] # NoTime
          /\ UNCHANGED faults
          /\ D = T
  /\ Disrupt(D)
  /\ result' = [units |-> T, at |-> now]
  /\ pc' = "recordFailure"
  /\ UNCHANGED <<store, mem, timer, counted>> /\ Untouched

RecordInjection ==
  /\ pc = "recordInjection"
  /\ PatchStatus([mem EXCEPT
                   !.injected = TRUE,
                   !.records = IF NeedsCleanup(spec.scenario)
                               THEN result.units ELSE {},
                   !.injectedAt = IF InContainers(spec.scenario)
                                  THEN result.at ELSE NoTime],
                 "addFinalizer", NoTime)
  /\ result' = NoResult
  /\ UNCHANGED <<effect, counted>> /\ Untouched

\* The container drivers have put their partial work in the status that is
\* patched; the policies that were created are recorded nowhere.
RecordFailure ==
  /\ pc = "recordFailure"
  /\ LET run == IF InContainers(spec.scenario) /\ result.units # {}
                THEN [mem EXCEPT !.records = result.units,
                                 !.injectedAt = result.at]
                ELSE mem
     IN PatchStatus(FailRun(run), "idle", NoTime)
  /\ result' = NoResult
  /\ UNCHANGED <<effect, counted>> /\ Untouched

AddFinalizer ==
  /\ pc = "addFinalizer" /\ NeedsCleanup(spec.scenario) /\ ~mem.finalizer
  /\ Write([API EXCEPT !.finalizer = TRUE], "toObserving", NoTime)
  /\ UNCHANGED <<result, effect, counted>> /\ Untouched

\* transitionToObserving: after an injection, or when the run was read with
\* its injection already recorded.  It reads PollInterval itself, which after
\* an injection is after a patch.
TransitionToObserving ==
  /\ \/ pc = "toObserving"
     \/ pc = "addFinalizer" /\ (mem.finalizer \/ ~NeedsCleanup(spec.scenario))
     \/ pc = "Injecting" /\ mem.injected
  /\ PatchStatus([TransitionPhase(mem, "Observing") EXCEPT !.observingAt = now],
                 "idle", RequeueAfter(IF pc = "Injecting" THEN spec.poll
                                      ELSE spec.storedPoll))
  /\ UNCHANGED <<result, effect, counted>> /\ Untouched

-----------------------------------------------------------------------------
(* reconcileObserving *)

StartCleaningUp(run) == PatchStatus(TransitionPhase(run, "CleaningUp"), "idle", now)

\* FinalizeRun, finishRun, patch: the end of a run that leaves nothing behind.
Finish(verdict, run) ==
  /\ FinishRun
  /\ PatchStatus(FinalizeRun(run, verdict), "idle", NoTime)

ObservationDisabled ==
  /\ pc = "Observing" /\ ~spec.observe
  /\ IF NeedsCleanup(spec.scenario)
       THEN StartCleaningUp(mem) /\ UNCHANGED counted
       ELSE Finish("Passed", mem)
  /\ UNCHANGED <<result, effect>> /\ Untouched

ObserveAnchor == IF mem.observingAt # NoTime THEN mem.observingAt ELSE mem.startedAt

WindowElapsed == ObserveAnchor # NoTime /\ Past(ObserveAnchor, spec.timeout)

\* Mistake: a replacement that was seen counts as a recovery.
TimeoutVerdict_Mutant ==
  IF spec.scenario = "ResourceExhaustion" \/ mem.replacement THEN "Passed"
  ELSE "Failed"

TimeoutVerdict ==
  IF spec.scenario = "ResourceExhaustion" \/ mem.recovered THEN "Passed"
  ELSE IF mem.replacement /\ NeedsCleanup(spec.scenario) THEN "Inconclusive"
  ELSE "Failed"

ObservationTimeout ==
  /\ pc = "Observing" /\ spec.observe /\ WindowElapsed
  /\ IF NeedsCleanup(spec.scenario)
       THEN /\ StartCleaningUp([mem EXCEPT !.verdict = TimeoutVerdict])
            /\ UNCHANGED counted
       ELSE Finish(TimeoutVerdict, mem)
  /\ UNCHANGED <<result, effect>> /\ Untouched

(***************************************************************************)
(* NetworkPartition always has a duration (SetDefaults), and until it has  *)
(* elapsed the handler returns here: a partition is never observed.        *)
(***************************************************************************)
HoldsPartition ==
  spec.scenario = "NetworkPartition" /\ mem.observingAt # NoTime

PartitionElapsed ==
  /\ pc = "Observing" /\ spec.observe /\ ~WindowElapsed
  /\ HoldsPartition /\ Over(mem.observingAt, spec.duration)
  /\ StartCleaningUp([mem EXCEPT !.verdict =
                        IF mem.replacement THEN "Passed" ELSE "Inconclusive"])
  /\ UNCHANGED <<result, effect, counted>> /\ Untouched

PartitionHeld ==
  /\ pc = "Observing" /\ spec.observe /\ ~WindowElapsed
  /\ HoldsPartition /\ ~Over(mem.observingAt, spec.duration)
  /\ PatchStatus(mem, "idle", RequeueAfter(mem.observingAt + spec.duration - now))
  /\ UNCHANGED <<result, effect, counted>> /\ Untouched

Polls == pc = "Observing" /\ spec.observe /\ ~WindowElapsed /\ ~HoldsPartition

\* Mistake: a poll that failed is not tried again.
ObservationError_Mutant ==
  /\ Polls
  /\ Continue(mem, "idle", NoTime)
  /\ UNCHANGED <<store, faults, result, effect, counted>> /\ Untouched

ObservationError ==
  /\ Polls
  /\ Continue(mem, "idle", RequeueAfter(spec.poll))
  /\ UNCHANGED <<store, faults, result, effect, counted>> /\ Untouched

\* Mistake: the requeue relies on the patch changing something.
NotRecovered_Mutant(replacement) ==
  /\ Polls
  /\ PatchStatus([mem EXCEPT !.replacement = replacement], "idle", NoTime)
  /\ UNCHANGED <<result, effect, counted>> /\ Untouched

NotRecovered(replacement) ==
  /\ Polls
  /\ PatchStatus([mem EXCEPT !.replacement = replacement],
                 "idle", RequeueAfter(spec.poll))
  /\ UNCHANGED <<result, effect, counted>> /\ Untouched

RecoveryObserved ==
  /\ Polls /\ ~mem.recovered
  /\ LET run == SetCondition([mem EXCEPT !.replacement = TRUE,
                                         !.recovered = TRUE],
                             "RecoveryObserved")
     IN IF NeedsCleanup(spec.scenario)
          THEN StartCleaningUp(run) /\ UNCHANGED counted
          ELSE Finish("Passed", run)
  /\ UNCHANGED <<result, effect>> /\ Untouched

-----------------------------------------------------------------------------
(* The drivers' Cleanup *)

(***************************************************************************)
(* NetworkPartition lists the policies by label, from a cache that has     *)
(* seen every policy older than PolicyLag, and deletes those it finds.     *)
(***************************************************************************)
Listings == {L \in SUBSET InEffect :
               \A u \in InEffect : Over(effect[u], PolicyLag) => u \in L}

Delete(S) == effect' = [u \in Units |-> IF u \in S THEN NoTime ELSE effect[u]]

\* Mistake: a container that is not running yet is taken for one that ended.
Unclean_Mutant ==
  {u \in mem.records :
     effect[u] \notin {Starting, Ended} /\ ~Over(mem.injectedAt, spec.duration)}

\* The container drivers only look: a record is clean once its container has
\* ended, or its duration has passed since InjectedAt.
Unclean == {u \in mem.records :
              effect[u] # Ended /\ ~Over(mem.injectedAt, spec.duration)}

DriverCleanup(left) ==
  \/ /\ spec.scenario = "NetworkPartition"
     /\ \E L \in Listings : Delete(L) /\ unseen' = InEffect \ L
     /\ left = {}
  \/ /\ InContainers(spec.scenario)
     /\ left = Unclean
     /\ UNCHANGED <<effect, unseen>>

DriverCleanupFails(left) ==
  /\ faults < MaxFaults
  /\ faults' = faults + 1
  /\ UNCHANGED unseen
  /\ \/ /\ spec.scenario = "NetworkPartition"
        /\ \E L \in Listings : \E S \in SUBSET L : Delete(S)
        /\ left = mem.records
     \/ /\ InContainers(spec.scenario)
        /\ Unclean \subseteq left /\ left # {}
        /\ UNCHANGED effect

-----------------------------------------------------------------------------
(* reconcileCleaningUp *)

CleanupDeadline == spec.timeout + CleanupGrace

\* The forced end: no cleanup is tried and the finalizer stays.
CleanupTimeout ==
  /\ pc = "CleaningUp" /\ mem.startedAt # NoTime
  /\ Past(mem.startedAt, CleanupDeadline)
  /\ FinishRun
  /\ PatchStatus(FailRun(ClearCondition(mem, "NetworkChaosCleanedUp")),
                 "idle", NoTime)
  /\ UNCHANGED <<result, effect>> /\ Untouched

BeforeDeadline ==
  mem.startedAt = NoTime \/ ~Past(mem.startedAt, CleanupDeadline)

\* Mistake: an error of the driver is logged and the run finished.
Cleanup_Mutant ==
  /\ pc = "CleaningUp" /\ BeforeDeadline
  /\ \E left \in SUBSET mem.records :
       /\ \/ DriverCleanup(left) /\ UNCHANGED faults
          \/ DriverCleanupFails(left)
       /\ result' = [units |-> left, at |-> NoTime]
  /\ pc' = "cleanupDone"
  /\ UNCHANGED <<spec, store, queued, mem, timer, counted, now, crashes, stale>>

Cleanup ==
  /\ pc = "CleaningUp" /\ BeforeDeadline
  /\ \E left \in SUBSET mem.records :
       \/ /\ DriverCleanup(left)
          /\ result' = [units |-> left, at |-> NoTime]
          /\ pc' = IF left = {} THEN "cleanupDone" ELSE "cleanupRetry"
          /\ UNCHANGED faults
       \/ /\ DriverCleanupFails(left)
          /\ result' = [units |-> left, at |-> NoTime]
          /\ pc' = "cleanupRetry"
  /\ UNCHANGED <<spec, store, queued, mem, timer, counted, now, crashes, stale>>

\* PollInterval is read after the patch: see storedPoll.
CleanupRetry ==
  /\ pc = "cleanupRetry"
  /\ PatchStatus([mem EXCEPT !.records = result.units],
                 "idle", RequeueAfter(spec.storedPoll))
  /\ result' = NoResult
  /\ UNCHANGED <<effect, counted>> /\ Untouched

CleanupDone ==
  /\ pc = "cleanupDone"
  /\ FinishRun
  /\ LET run == SetCondition([mem EXCEPT !.records = {}], "NetworkChaosCleanedUp")
     IN PatchStatus(IF "AbortRequested" \in mem.conditions THEN AbortRun(run)
                    ELSE FinalizeRun(run, IF mem.verdict = "" THEN "Passed"
                                          ELSE mem.verdict),
                    "removeFinalizer", NoTime)
  /\ result' = NoResult
  /\ UNCHANGED effect /\ Untouched

\* The object is fetched again, from the cache.
RemoveFinalizer ==
  /\ pc = "removeFinalizer"
  /\ IF mem.finalizer /\ Cached.exists /\ Cached.finalizer
       THEN Write(WithoutFinalizer(API), "idle", NoTime)
       ELSE /\ Continue(mem, "idle", IF mem.finalizer /\ ~Cached.exists
                                       THEN now ELSE NoTime)
            /\ UNCHANGED <<store, faults>>
  /\ UNCHANGED <<result, effect, counted>> /\ Untouched

-----------------------------------------------------------------------------
(* Deletion of a run that holds the finalizer *)

\* Mistake: the finalizer goes although the cleanup failed.
CleanupOnDelete_Hasty ==
  /\ pc = "deleteCleanup"
  /\ \E left \in SUBSET mem.records :
       \/ DriverCleanup(left) /\ UNCHANGED faults
       \/ DriverCleanupFails(left)
  /\ Continue(mem, "removeOnDelete", NoTime)
  /\ UNCHANGED <<spec, store, queued, result, counted, now, crashes, stale>>

\* Mistake: a cleanup that failed is not tried again.
CleanupOnDelete_Once ==
  /\ pc = "deleteCleanup"
  /\ \E left \in SUBSET mem.records :
       \/ /\ DriverCleanup(left)
          /\ Continue(mem, "removeOnDelete", NoTime)
          /\ UNCHANGED faults
       \/ /\ DriverCleanupFails(left)
          /\ Continue(mem, "idle", NoTime)
  /\ UNCHANGED <<spec, store, queued, result, counted, now, crashes, stale>>

CleanupOnDelete ==
  /\ pc = "deleteCleanup"
  /\ \E left \in SUBSET mem.records :
       \/ /\ DriverCleanup(left)
          /\ Continue(mem, "removeOnDelete", NoTime)
          /\ UNCHANGED faults
       \/ /\ DriverCleanupFails(left)
          /\ Continue(mem, "idle", RequeueAfter(1))
  /\ UNCHANGED <<spec, store, queued, result, counted, now, crashes, stale>>

RemoveOnDelete ==
  /\ pc = "removeOnDelete"
  /\ Write(WithoutFinalizer(API), "idle", NoTime)
  /\ UNCHANGED <<result, effect, counted>> /\ Untouched

-----------------------------------------------------------------------------
(* Everything around the reconcile. *)

ControllerUnchanged == UNCHANGED <<spec, pc, mem, result, counted, stale, unseen>>

WatchEvent ==
  /\ Len(store) > 1
  /\ store' = Tail(store)
  /\ queued' = TRUE
  /\ UNCHANGED <<timer, effect, now, faults, crashes>> /\ ControllerUnchanged

TimerFires ==
  /\ timer # NoTime /\ timer <= now
  /\ queued' = TRUE
  /\ timer' = NoTime
  /\ UNCHANGED <<store, effect, now, faults, crashes>> /\ ControllerUnchanged

\* The process dies and the new one lists the runs afresh.
Restart ==
  /\ crashes < MaxCrashes
  /\ crashes' = crashes + 1
  /\ pc' = "idle" /\ mem' = NewRun /\ result' = NoResult
  /\ store' = <<API>>
  /\ queued' = TRUE /\ timer' = NoTime
  /\ UNCHANGED <<spec, effect, counted, now, faults, stale, unseen>>

\* kubectl fchaos stop, POST /api/chaosruns/{name}/abort
UserAborts ==
  /\ "abort" \in UserActions
  /\ API.exists /\ ~API.abort
  /\ store' = Push([API EXCEPT !.abort = TRUE])
  /\ UNCHANGED <<queued, timer, effect, now, faults, crashes>> /\ ControllerUnchanged

\* kubectl delete, DELETE /api/chaosruns/{name}
UserDeletes ==
  /\ "delete" \in UserActions
  /\ API.exists /\ ~API.deleting
  /\ store' = Push([API EXCEPT !.deleting = TRUE, !.exists = API.finalizer])
  /\ UNCHANGED <<queued, timer, effect, now, faults, crashes>> /\ ControllerUnchanged

ContainerStarts(u) ==
  /\ effect[u] = Starting
  /\ effect' = [effect EXCEPT ![u] = now]
  /\ UNCHANGED <<store, queued, timer, now, faults, crashes>> /\ ControllerUnchanged

\* Its duration is over, or it goes away with its pod.
ContainerEnds(u) ==
  /\ InContainers(spec.scenario) /\ u \in InEffect
  /\ effect' = [effect EXCEPT ![u] = Ended]
  /\ UNCHANGED <<store, queued, timer, now, faults, crashes>> /\ ControllerUnchanged

Tick ==
  /\ now < MaxTime
  /\ now' = now + 1
  /\ UNCHANGED <<store, queued, timer, effect, faults, crashes>> /\ ControllerUnchanged

-----------------------------------------------------------------------------
Init ==
  /\ spec \in Specs
  /\ store = <<NewRun>> /\ queued = TRUE /\ timer = NoTime
  /\ pc = "idle" /\ mem = NewRun /\ result = NoResult
  /\ effect = [u \in Units |-> NoTime]
  /\ counted = 0 /\ now = 0 /\ faults = 0 /\ crashes = 0
  /\ stale = 0 /\ unseen = {}

Step ==
  \/ ReconcileSkip \/ ReconcileDispatch
  \/ AbortViaCleaningUp \/ AbortNow \/ AbortCounted
  \/ ValidationFails \/ RecordStart \/ CheckpointStable
  \/ CheckpointCheckFails \/ CheckpointWaitTimeout \/ CheckpointNotStable
  \/ StartInjecting
  \/ InjectionRejected \/ DryRun
  \/ \E S \in SUBSET Units :
       Inject(S) \/ \E T, D \in SUBSET S : InjectFails(S, T, D)
  \/ RecordInjection \/ RecordFailure \/ AddFinalizer \/ TransitionToObserving
  \/ ObservationDisabled \/ ObservationTimeout \/ PartitionElapsed
  \/ PartitionHeld \/ ObservationError
  \/ (\E replacement \in BOOLEAN : NotRecovered(replacement))
  \/ RecoveryObserved
  \/ CleanupTimeout \/ Cleanup \/ CleanupRetry \/ CleanupDone
  \/ RemoveFinalizer \/ CleanupOnDelete \/ RemoveOnDelete

Environment ==
  \/ WatchEvent \/ TimerFires \/ Restart \/ UserAborts \/ UserDeletes
  \/ (\E u \in Units : ContainerStarts(u) \/ ContainerEnds(u))
  \/ Tick

Next == Step \/ Environment

(***************************************************************************)
(* Fairness.  The worker never stops in the middle of a reconcile and      *)
(* serves a queued key; watch events and timers arrive; time passes; a     *)
(* container starts and comes to its end.  Nothing is assumed of users,    *)
(* faults or restarts.                                                     *)
(***************************************************************************)
Fairness ==
  /\ WF_vars(Step) /\ WF_vars(WatchEvent) /\ WF_vars(TimerFires) /\ WF_vars(Tick)
  /\ \A u \in Units : WF_vars(ContainerStarts(u)) /\ WF_vars(ContainerEnds(u))

Spec == Init /\ [][Next]_vars
FairSpec == Spec /\ Fairness
=============================================================================
