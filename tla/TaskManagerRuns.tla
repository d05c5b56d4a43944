--------------------------- MODULE TaskManagerRuns ---------------------------
(***************************************************************************)
(* Several ChaosRuns against the pods of one Flink workload: how a target  *)
(* is resolved to TaskManagers, what the safety checks admit, which pods   *)
(* are killed, and what the observers call a recovery.                     *)
(*                                                                         *)
(* The controller has one worker, so the reconciles of the runs alternate; *)
(* the pods and the caches change between any two steps.                   *)
(* A reconcile is cut where it writes.  What happens to one run's status   *)
(* under stale reads of that run is the subject of ChaosRunReconciler.     *)
(***************************************************************************)
EXTENDS SafetyChecker

CONSTANTS
  Runs,        \* the ChaosRuns
  Pods,        \* names of the workload's pods, those to come included
  InitialPods, \* the pods that are there at first
  Replicas,    \* how many TaskManagers the workload asks for
  Role,        \* [Pods -> {"taskmanager", "jobmanager", ""}]: the component label
  Session,     \* is the workload a session cluster?
  Specs,       \* the functions from runs to specs to be considered
  MaxFaults,   \* how many calls may fail and records may be lost
  MaxStale,    \* how many reconciles may start from outdated statuses
  PodLag       \* of how many pods the cache may be behind when one starts

RunSpec ==
  [type : {"FlinkDeployment", "VervericaDeployment", "PodSelector"}, name : STRING,
   namespace : STRING,
   scenario : {"TaskManagerPodKill", "ResourceExhaustion"} \cup NetworkScenarios,
   podNames : SUBSET Pods, count : Nat,
   network : STRING, direction : STRING, duration : Nat, maxDuration : Nat,
   observe : BOOLEAN, rest : BOOLEAN,
   minTaskManagersRemaining : Int, maxConcurrentRunsPerTarget : Int,
   allowSharedClusterImpact : BOOLEAN, allowCheckpointStorageChaos : BOOLEAN]

ASSUME ConstantsAssumption ==
  /\ IsFiniteSet(Runs) /\ IsFiniteSet(Pods) /\ InitialPods \subseteq Pods
  /\ {Replicas, MaxFaults, MaxStale, PodLag} \subseteq Nat
  /\ Role \in [Pods -> {"taskmanager", "jobmanager", ""}]
  /\ Session \in BOOLEAN
  /\ \A s \in Specs : s \in [Runs -> RunSpec]

VARIABLES
  spec,       \* the specs of the runs, with defaults
  runs,       \* their statuses
  runCache,   \* the statuses the informer cache has seen
  pods,       \* the pods
  podCache,   \* the pods the informer cache has seen
  work,       \* an injection that has been made and is being recorded
  faults,
  stale,      \* history: how many reconciles started from outdated statuses
  ghosts      \* history: the pods that a kill found in its cache alone

vars == <<spec, runs, runCache, pods, podCache, work, faults, stale, ghosts>>

PodStates == {"absent", "pending", "ready", "terminating"}

\* Mutant: the deletion timestamp is not looked at.
Eligible_Mutant(view) ==
  {p \in Pods : view[p] \in {"pending", "ready", "terminating"}}

\* "pending" stands for every pod that is not yet Running with all its
\* containers ready, "terminating" for those that are gone as well.
Eligible(view) == {p \in Pods : view[p] \in {"pending", "ready"}}

NewRun == [phase |-> "Injecting", target |-> "", injected |-> {}, before |-> 0,
           replacement |-> FALSE, recovered |-> FALSE]

NoWork == [step |-> "idle"]

-----------------------------------------------------------------------------
(* Resolvers. *)

\* Every selector is the same target to the resolver.
LogicalName(s) == IF s.type = "PodSelector" THEN "pod-selector" ELSE s.name

\* With a selector, whatever is not a JobManager is taken for a TaskManager.
TaskManagers(s, view) ==
  {p \in Eligible(view) : IF s.type = "PodSelector" THEN Role[p] # "jobmanager"
                                                    ELSE Role[p] = "taskmanager"}

Resolve(s, view) ==
  [logicalName |-> LogicalName(s), taskManagers |-> TaskManagers(s, view),
   sharedCluster |-> Session /\ s.type # "PodSelector"]

Resolvable(s, view) ==
  IF s.type = "PodSelector" THEN Eligible(view) # {} ELSE TaskManagers(s, view) # {}

-----------------------------------------------------------------------------
(* Observers. *)

\* Mutant: one injected pod that is gone suffices.
KubernetesObserver_Mutant(run, target, view) ==
  LET replacement == run.injected = {} \/ ~(run.injected \subseteq target.taskManagers)
  IN  [replacement |-> replacement,
       ready |-> replacement /\ \A p \in target.taskManagers : view[p] = "ready"]

\* The count before is the count of now plus the injected pods, so that the
\* second comparison never fails.
KubernetesObserver(run, target, view) ==
  LET live        == target.taskManagers
      before      == Cardinality(live) + Cardinality(run.injected)
      replacement ==
        \/ run.injected = {}
        \/ /\ run.injected \cap live = {}
           /\ Cardinality(live) >= before - Cardinality(run.injected)
  IN  IF live = {} THEN [replacement |-> FALSE, ready |-> FALSE]
      ELSE [replacement |-> replacement,
            ready       |-> replacement /\ \A p \in live : view[p] = "ready"]

\* Without the REST API the observer does not stand in the way.
FlinkRestObserver(s, run, flink) ==
  IF ~s.rest THEN [replacement |-> FALSE, ready |-> TRUE]
  ELSE [replacement |-> flink.taskManagers > 0,
        ready       |-> flink.jobRunning /\ flink.taskManagers >= run.before]

CompositeObserver(results) ==
  [replacement |-> \E result \in results : result.replacement,
   ready       |-> \A result \in results : result.ready]

\* The controller observes a target that cannot be resolved as having no pods.
Observe(s, run, view, flink) ==
  CompositeObserver({KubernetesObserver(run, Resolve(s, view), view),
                     FlinkRestObserver(s, run, flink)})

-----------------------------------------------------------------------------
(* Injection. *)

Init ==
  /\ spec \in Specs
  /\ runs = [r \in Runs |-> NewRun]
  /\ runCache = runs
  /\ pods = [p \in Pods |-> IF p \in InitialPods THEN "ready" ELSE "absent"]
  /\ podCache = pods
  /\ work = NoWork
  /\ faults = 0
  /\ stale = 0 /\ ghosts = {}

\* The worker takes up a run that its cache shows in this phase.
Reconciles(r, phase) ==
  /\ work = NoWork
  /\ runCache[r].phase = phase
  /\ Cardinality({p \in Pods : podCache[p] # pods[p]}) <= PodLag
  /\ \/ runCache = runs /\ UNCHANGED stale
     \/ runCache # runs /\ stale < MaxStale /\ stale' = stale + 1

Fault == faults < MaxFaults /\ faults' = faults + 1

Update(r, status) == runs' = [runs EXCEPT ![r] = status]

NeedsCleanup(s) == s.scenario # "TaskManagerPodKill"

Admitted(r) ==
  /\ Resolvable(spec[r], podCache)
  /\ Check(r, spec[r], Resolve(spec[r], podCache), runCache)

\* The target cannot be resolved, or a safety check refuses the injection.
Reject(r) ==
  /\ Reconciles(r, "Injecting") /\ runCache[r].injected = {}
  /\ ~Admitted(r)
  /\ Update(r, [runs[r] EXCEPT !.phase = "Failed"])
  /\ UNCHANGED <<spec, runCache, pods, podCache, work, faults, ghosts>>

\* The pods the kill driver may choose: those that are named, whatever the
\* count, or as many as the count says.
KillSelections(s, target) ==
  IF s.podNames # {} THEN {s.podNames}
  ELSE {chosen \in SUBSET target.taskManagers :
          \/ Cardinality(chosen) = SelectionCount(s)
          \/ chosen = target.taskManagers /\ Cardinality(chosen) < SelectionCount(s)}

\* A pod that is on its way, or gone, is deleted without an error.
Deleted(chosen) ==
  [p \in Pods |-> IF p \in chosen /\ pods[p] \in {"pending", "ready"}
                  THEN "terminating" ELSE pods[p]]

Kill(r) ==
  /\ Reconciles(r, "Injecting") /\ runCache[r].injected = {}
  /\ Admitted(r) /\ ~NeedsCleanup(spec[r])
  /\ LET target == Resolve(spec[r], podCache) IN
     \E chosen \in KillSelections(spec[r], target) :
     \E killed \in SUBSET chosen :
       /\ \/ killed = chosen /\ chosen \subseteq target.taskManagers /\ UNCHANGED faults
          \/ killed = {} /\ ~(chosen \subseteq target.taskManagers) /\ UNCHANGED faults
          \/ killed # chosen /\ chosen \subseteq target.taskManagers /\ Fault
       /\ pods' = Deleted(killed)
       /\ ghosts' = ghosts \cup (target.taskManagers \ Eligible(pods))
       /\ work' = [step |-> IF killed = chosen THEN "record" ELSE "fail", run |-> r,
                   injected |-> killed, target |-> target]
  /\ UNCHANGED <<spec, runs, runCache, podCache>>

\* The other scenarios reach every TaskManager, and delete none.
Disrupt(r) ==
  /\ Reconciles(r, "Injecting") /\ runCache[r].injected = {}
  /\ Admitted(r) /\ NeedsCleanup(spec[r])
  /\ LET target == Resolve(spec[r], podCache) IN
     \/ /\ work' = [step |-> "record", run |-> r, injected |-> target.taskManagers,
                    target |-> target]
        /\ UNCHANGED faults
     \/ /\ work' = [step |-> "fail", run |-> r, injected |-> {}, target |-> target]
        /\ Fault
  /\ UNCHANGED <<spec, runs, runCache, pods, podCache, ghosts>>

\* Mutant: the count before is computed as the observer does.
RecordInjection_Mutant ==
  /\ work.step = "record"
  /\ Update(work.run, [runs[work.run] EXCEPT
       !.target = work.target.logicalName, !.injected = work.injected,
       !.before = Cardinality(work.target.taskManagers) + Cardinality(work.injected)])
  /\ work' = [work EXCEPT !.step = "observe"]
  /\ UNCHANGED <<spec, runCache, pods, podCache, faults, stale, ghosts>>

RecordInjection ==
  /\ work.step = "record"
  /\ Update(work.run, [runs[work.run] EXCEPT
       !.target = work.target.logicalName, !.injected = work.injected,
       !.before = Cardinality(work.target.taskManagers)])
  /\ work' = [work EXCEPT !.step = "observe"]
  /\ UNCHANGED <<spec, runCache, pods, podCache, faults, stale, ghosts>>

RecordFailure ==
  /\ work.step = "fail"
  /\ Update(work.run, [runs[work.run] EXCEPT !.phase = "Failed",
                                              !.target = work.target.logicalName])
  /\ work' = NoWork
  /\ UNCHANGED <<spec, runCache, pods, podCache, faults, stale, ghosts>>

\* A patch is refused or the controller dies: what was done is not recorded.
LoseRecord ==
  /\ work # NoWork
  /\ work' = NoWork
  /\ Fault
  /\ UNCHANGED <<spec, runs, runCache, pods, podCache, stale, ghosts>>

\* In the reconcile that injected.
TransitionToObserving ==
  /\ work.step = "observe"
  /\ Update(work.run, [runs[work.run] EXCEPT !.phase = "Observing"])
  /\ work' = NoWork
  /\ UNCHANGED <<spec, runCache, pods, podCache, faults, stale, ghosts>>

\* In a later one, which finds the injection recorded.
ResumeObserving(r) ==
  /\ Reconciles(r, "Injecting") /\ runCache[r].injected # {}
  /\ Update(r, [runs[r] EXCEPT !.phase = "Observing"])
  /\ UNCHANGED <<spec, runCache, pods, podCache, work, faults, ghosts>>

-----------------------------------------------------------------------------
(* Observation, abort and cleanup.  The verdicts, and what an abort makes of a *)
(* cleanup, are the subject of ChaosRunReconciler. *)

\* Runs with something to remove go through CleaningUp; the others are final.
Conclude(r, status) ==
  Update(r, [status EXCEPT
    !.phase = IF NeedsCleanup(spec[r]) THEN "CleaningUp" ELSE "Completed"])

\* What the JobManager may answer: it counts a TaskManager until it misses its
\* heartbeats, and not before it has registered.
FlinkAnswers == [jobRunning : BOOLEAN, taskManagers : 0 .. Cardinality(Pods)]

\* A partition is held, not observed.
Poll(r) ==
  /\ Reconciles(r, "Observing")
  /\ spec[r].observe /\ spec[r].scenario # "NetworkPartition"
  /\ \E flink \in FlinkAnswers :
       LET seen == Observe(spec[r], runCache[r], podCache, flink)
           now  == [runs[r] EXCEPT !.replacement = seen.replacement]
       IN  IF seen.ready THEN Conclude(r, [now EXCEPT !.recovered = TRUE])
                         ELSE Update(r, now)
  /\ UNCHANGED <<spec, runCache, pods, podCache, work, faults, ghosts>>

\* The window has passed, or the time for which a partition is held, or there is
\* nothing to observe.
ObservationEnds(r) ==
  /\ Reconciles(r, "Observing")
  /\ Conclude(r, runs[r])
  /\ UNCHANGED <<spec, runCache, pods, podCache, work, faults, ghosts>>

CleanedUp(r) ==
  /\ Reconciles(r, "CleaningUp")
  /\ \E phase \in Terminal : Update(r, [runs[r] EXCEPT !.phase = phase])
  /\ UNCHANGED <<spec, runCache, pods, podCache, work, faults, ghosts>>

Abort(r) ==
  /\ \E phase \in {"Injecting", "Observing"} : Reconciles(r, phase)
  /\ Update(r, [runs[r] EXCEPT
       !.phase = IF NeedsCleanup(spec[r]) /\ runCache[r].injected # {}
                 THEN "CleaningUp" ELSE "Aborted"])
  /\ UNCHANGED <<spec, runCache, pods, podCache, work, faults, ghosts>>

-----------------------------------------------------------------------------
(* Kubernetes. *)

RunEvent(r) ==
  /\ runCache[r] # runs[r]
  /\ runCache' = [runCache EXCEPT ![r] = runs[r]]
  /\ UNCHANGED <<spec, runs, pods, podCache, work, faults, stale, ghosts>>

PodEvent(p) ==
  /\ podCache[p] # pods[p]
  /\ podCache' = [podCache EXCEPT ![p] = pods[p]]
  /\ UNCHANGED <<spec, runs, runCache, pods, work, faults, stale, ghosts>>

\* A TaskManager is missing, and a pod with a new name takes its place.
Replace(p) ==
  /\ pods[p] = "absent"
  /\ Cardinality({q \in Eligible(pods) : Role[q] = "taskmanager"}) < Replicas
  /\ pods' = [pods EXCEPT ![p] = "pending"]
  /\ UNCHANGED <<spec, runs, runCache, podCache, work, faults, stale, ghosts>>

PodReady(p) ==
  /\ pods[p] = "pending"
  /\ pods' = [pods EXCEPT ![p] = "ready"]
  /\ UNCHANGED <<spec, runs, runCache, podCache, work, faults, stale, ghosts>>

Next ==
  \/ \E r \in Runs : Reject(r) \/ Kill(r) \/ Disrupt(r) \/ ResumeObserving(r)
                       \/ Poll(r) \/ ObservationEnds(r) \/ CleanedUp(r) \/ Abort(r)
                       \/ RunEvent(r)
  \/ RecordInjection \/ RecordFailure \/ LoseRecord \/ TransitionToObserving
  \/ \E p \in Pods : PodEvent(p) \/ Replace(p) \/ PodReady(p)

Spec == Init /\ [][Next]_vars
-----------------------------------------------------------------------------
(* Properties. *)

PodCount == 0 .. Cardinality(Pods)

TargetNames == {LogicalName(s[r]) : s \in Specs, r \in Runs}

RunStatus ==
  [phase : {"Injecting", "Observing", "CleaningUp"} \cup Terminal,
   target : {""} \cup TargetNames,
   injected : SUBSET Pods, before : PodCount,
   replacement : BOOLEAN, recovered : BOOLEAN]

Target == [logicalName : TargetNames, taskManagers : SUBSET Pods, sharedCluster : BOOLEAN]

Work == {NoWork} \cup
  [step : {"record", "fail", "observe"}, run : Runs, injected : SUBSET Pods,
   target : Target]

TypeOK ==
  /\ spec \in Specs
  /\ runs \in [Runs -> RunStatus] /\ runCache \in [Runs -> RunStatus]
  /\ pods \in [Pods -> PodStates] /\ podCache \in [Pods -> PodStates]
  /\ work \in Work
  /\ faults \in 0 .. MaxFaults /\ stale \in 0 .. MaxStale
  /\ ghosts \in SUBSET Pods

\* The runs known to disrupt a target: it is recorded, and they have not ended.
Disrupting(name) ==
  {r \in Runs : runs[r].target = name /\ runs[r].phase \notin Terminal}

\* No more runs disrupt a target at a time than one of them allows, but for one
\* more with every reconcile that saw outdated runs (checkConcurrency, through
\* the manager's cache).  A retried or failed injection makes no difference.
\* Targets are told apart by the name they resolve to: the same pods under a
\* selector are another target, though the limit is documented for
\* "simultaneous ChaosRuns targeting the same workload" and for selectors too.
DisruptionsWithinLimit ==
  \A name \in TargetNames \ {""} :
    Disrupting(name) # {} =>
      \E r \in Disrupting(name) :
        Cardinality(Disrupting(name)) <= spec[r].maxConcurrentRunsPerTarget + stale

\* By how many pods a run that names them takes more than the checker deducts.
Excess(s) ==
  LET more == Cardinality(s.podNames) - SelectionCount(s)
  IN  IF more > 0 THEN more ELSE 0

\* A selector takes pods without the component label for TaskManagers.
Unlabelled == {p \in Pods : Role[p] = ""}

\* However often injections are repeated or half-done, by however many runs and
\* under whatever names, the kills leave as many TaskManagers as the least
\* demanding run asks for, less the pods it names beyond its count, and the pods
\* that a kill counted and were not there (checkMinTaskManagersRemaining against
\* what the kill driver does).  Documented is the number itself, "the run is
\* blocked".
TaskManagersStay ==
  \E r \in Runs :
    Cardinality({p \in Eligible(pods) : Role[p] = "taskmanager"})
      >= spec[r].minTaskManagersRemaining - Excess(spec[r])
           - Cardinality(ghosts \cup Unlabelled)

\* A pod recorded as the victim of two kills is one that the cache still showed
\* to a kill when it was on its way out (IsPodEligible).
VictimsAreDisjoint ==
  \A r, s \in Runs :
    r # s /\ ~NeedsCleanup(spec[r]) /\ ~NeedsCleanup(spec[s])
      => runs[r].injected \cap runs[s].injected \subseteq ghosts

\* However old the pods that the observer sees, a recovery is reported while a
\* pod the run disrupted is in service of no more runs than there were
\* reconciles on outdated statuses (KubernetesObserver takes the pods of the
\* status it is given for gone).
RecoveryOnlyWithoutVictims ==
  Cardinality({r \in Runs : /\ runs[r].recovered
                            /\ runs[r].injected \cap Eligible(pods) # {}}) <= stale

\* A kill is reported as recovered only after a replacement has appeared
\* ("at least one replacement TaskManager was observed running").
RecoveryMeansReplacement ==
  \A r \in Runs :
    runs[r].recovered => \E p \in Pods \ InitialPods : pods[p] # "absent"
=============================================================================
