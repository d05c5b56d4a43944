-------------------------- MODULE ChaosRunProperties --------------------------
(***************************************************************************)
(* What is claimed of the controller of ChaosRunReconciler.                *)
(***************************************************************************)
EXTENDS ChaosRunReconciler

Labels ==
  {"idle", "abort", "counted", "Pending", "checkpoint", "toInjecting",
   "Injecting", "recordInjection", "recordFailure", "addFinalizer",
   "toObserving", "Observing", "CleaningUp", "cleanupRetry", "cleanupDone",
   "removeFinalizer", "deleteCleanup", "removeOnDelete"}

Result == [units: SUBSET Units, at: MaybeTime]

\* Every variable keeps its type; in particular a merge patch computed from
\* an old version always yields a well-formed object.
TypeOK ==
  /\ spec \in Specs
  /\ store \in Seq(Run) /\ store # <<>>
  /\ queued \in BOOLEAN /\ timer \in MaybeTime
  /\ pc \in Labels /\ mem \in Run /\ result \in Result
  /\ effect \in [Units -> Time \cup {NoTime, Starting, Ended}]
  /\ counted \in Nat
  /\ now \in Time /\ faults \in 0 .. MaxFaults /\ crashes \in 0 .. MaxCrashes
  /\ stale \in 0 .. MaxStale /\ unseen \in SUBSET Units

Live(run) == run.exists /\ ~IsTerminal(run.phase)

-----------------------------------------------------------------------------
(* Safety *)

\* Nothing is queued, no timer is set, no reconcile runs and no watch event is
\* on its way: nothing would make the controller look at the run again.
Parked == pc = "idle" /\ ~queued /\ timer = NoTime /\ Len(store) = 1

\* A run that is not finished is never forgotten: each way out of a handler
\* either writes a new version (whose event comes back) or requeues.
NeverParked == Parked => ~Live(API)

\* "Passed" is only said of an observed run whose recovery was seen, except
\* for ResourceExhaustion, which passes by running to the end of the window.
PassedMeansRecovered ==
  /\ API.phase = "Completed" /\ API.verdict = "Passed"
  /\ spec.observe /\ spec.scenario # "ResourceExhaustion"
  => API.recovered

\* A run that ends Completed or Aborted has left no NetworkPolicy in place, but
\* for those that the list of its cleanup, which comes from a cache, did not
\* show.  ("Automatically removes the NetworkPolicy during the CleaningUp
\* phase", docs/scenarios/network-chaos.md:12, has no such exception.)
EndsWithoutPolicies ==
  API.phase \in {"Completed", "Aborted"} /\ spec.scenario = "NetworkPartition"
  => InEffect \subseteq unseen

\* A run with ephemeral containers whose injection is on record is only called
\* clean when none of them is active or the duration has passed since then, as
\* long as no reconcile has read an outdated version (and injected once more).
CleanedUpAfterDuration ==
  /\ InContainers(spec.scenario) /\ API.injected /\ stale = 0
  /\ "NetworkChaosCleanedUp" \in API.conditions
  => InEffect = {} \/ (API.injectedAt # NoTime /\ Over(API.injectedAt, spec.duration))

\* TaskManagerPodKill deletes no more pods than its selection asks for, and as
\* many again each time the record of an injection can have been lost to a
\* fault or a restart, or was not yet in the version that was read.
KillsAtMostCount ==
  spec.scenario = "TaskManagerPodKill"
  => Cardinality(InEffect) <= spec.count * (1 + faults + crashes + stale)

(***************************************************************************)
(* RunsTotal counts the end of a run once, and again only for a patch that *)
(* failed or a reconcile that read an outdated version.  A run that ends   *)
(* Completed, but for a dry run, is counted; so is one that ends Aborted,  *)
(* unless a fault or a restart came between the patch and the count.  Of   *)
(* the others nothing is said: of the runs that end Failed only those      *)
(* whose cleanup took too long are counted, while "every terminal          *)
(* transition" is said to be (internal/controller/metrics.go:28-30,        *)
(* docs/metrics.md:9).                                                     *)
(***************************************************************************)
CountedOnce ==
  /\ counted <= 1 + faults + stale
  /\ API.phase = "Completed" /\ ~spec.dryRun => counted >= 1
  /\ API.phase = "Aborted" /\ pc # "counted" => counted + faults + crashes >= 1

\* The finalizer of a partition goes only when none of its policies is left
\* that the list of the cleanup showed.
FinalizerGuardsEffects ==
  [][API.finalizer /\ ~API'.finalizer /\ spec.scenario = "NetworkPartition"
       => InEffect \subseteq unseen]_vars

-----------------------------------------------------------------------------
(* Refinement *)

Lifecycle == INSTANCE ChaosRunLifecycle WITH
  phase <- IF API.exists THEN API.phase ELSE "Gone",
  verdict <- API.verdict,
  disrupted <- spec.scenario = "NetworkPartition" /\ InEffect \ unseen # {}

\* The controller implements the life of a run that its status promises, until
\* a reconcile first reads an outdated version: a handler that does so can send
\* a run back to a phase it has left.
RefinesLifecycle ==
  Lifecycle!Init /\ [][stale' = 0 => [Lifecycle!Next]_(Lifecycle!vars)]_vars

-----------------------------------------------------------------------------
(* Liveness *)

\* Every run comes to an end, and stays there.
RunEnds == <>[]~Live(API)

\* A run deleted while it is injecting or observing is cleaned up and goes: the
\* finalizer does not keep it for ever.
DeletionEnds ==
  (API.exists /\ API.deleting /\ API.phase \in {"Injecting", "Observing"})
    ~> ~API.exists

-----------------------------------------------------------------------------
(* What the documentation says and the code does not do. *)

\* The CleaningUp phase removes the policies before the run is finalized.
FinishedWithoutPolicies ==
  IsTerminal(API.phase) /\ spec.scenario = "NetworkPartition" /\ pc = "idle"
  => InEffect = {}
=============================================================================
