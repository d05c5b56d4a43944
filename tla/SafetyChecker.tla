---------------------------- MODULE SafetyChecker ----------------------------
(***************************************************************************)
(* internal/safety: what a run has to satisfy before it may inject.  The   *)
(* checks are functions of the run's spec (with its defaults), the         *)
(* resolved target, and the runs the cache lists at that moment.           *)
(***************************************************************************)
EXTENDS Integers, FiniteSets

DeniedNamespaces == {"kube-system", "kube-public", "kube-node-lease"}

NetworkScenarios == {"NetworkPartition", "NetworkChaos"}

Terminal == {"Completed", "Aborted", "Failed"}

SharedClusterAllowed(spec, target) ==
  target.sharedCluster => spec.allowSharedClusterImpact

\* How many pods the checker believes the injection will take.
SelectionCount(spec) == IF spec.count = 0 THEN 1 ELSE spec.count

\* Mutant: what the injection takes is not deducted.
EnoughTaskManagersRemain_Mutant(spec, target) ==
  Cardinality(target.taskManagers) >= spec.minTaskManagersRemaining

EnoughTaskManagersRemain(spec, target) ==
  Cardinality(target.taskManagers) - SelectionCount(spec)
    >= spec.minTaskManagersRemaining

\* The unfinished runs, other than r, that are listed with this target.
ActivePeers(r, target, listed) ==
  {peer \in DOMAIN listed \ {r} :
     /\ listed[peer].phase \notin Terminal
     /\ listed[peer].target = target.logicalName}

\* Mutant: the run that is to start is not counted.
BelowConcurrencyLimit_Mutant(r, spec, target, listed) ==
  Cardinality(ActivePeers(r, target, listed)) <= spec.maxConcurrentRunsPerTarget

BelowConcurrencyLimit(r, spec, target, listed) ==
  Cardinality(ActivePeers(r, target, listed)) < spec.maxConcurrentRunsPerTarget

\* Mutant: only partitions are capped.
WithinDurationCap_Mutant(spec) ==
  spec.scenario = "NetworkPartition" => spec.duration <= spec.maxDuration

WithinDurationCap(spec) ==
  spec.scenario # "TaskManagerPodKill" => spec.duration <= spec.maxDuration

CheckpointStorageAllowed(spec) ==
  spec.scenario \in NetworkScenarios /\ spec.network = "TMtoCheckpoint"
    => spec.allowCheckpointStorageChaos

BlastRadiusAllowed(spec) ==
  /\ spec.scenario = "NetworkPartition"
  /\ spec.network = "TMtoTM" /\ spec.direction = "Both"
  => spec.allowSharedClusterImpact

Check(r, spec, target, listed) ==
  /\ spec.namespace \notin DeniedNamespaces
  /\ SharedClusterAllowed(spec, target)
  /\ spec.scenario = "TaskManagerPodKill" => EnoughTaskManagersRemain(spec, target)
  /\ BelowConcurrencyLimit(r, spec, target, listed)
  /\ WithinDurationCap(spec)
  /\ CheckpointStorageAllowed(spec)
  /\ BlastRadiusAllowed(spec)
=============================================================================
