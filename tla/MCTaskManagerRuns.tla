--------------------------- MODULE MCTaskManagerRuns ---------------------------
(* Two runs against a workload of three TaskManagers and one JobManager. *)
EXTENDS TaskManagerRuns, TLC

CONSTANTS r1, r2, t1, t2, t3, t4, j1

MCRole == [p \in Pods |-> IF p = j1 THEN "jobmanager" ELSE "taskmanager"]

KillSpec ==
  [type |-> "FlinkDeployment", name |-> "orders", namespace |-> "streaming",
   scenario |-> "TaskManagerPodKill", podNames |-> {}, count |-> 1,
   network |-> "TMtoJM", direction |-> "Both", duration |-> 1, maxDuration |-> 1,
   observe |-> TRUE, rest |-> FALSE,
   minTaskManagersRemaining |-> 1, maxConcurrentRunsPerTarget |-> 2,
   allowSharedClusterImpact |-> FALSE, allowCheckpointStorageChaos |-> FALSE]

ImpairmentSpec == [KillSpec EXCEPT !.scenario = "NetworkChaos"]

\* A run that tolerates no other, one that takes two pods and is observed with
\* the REST API, one with the default count that finds its pods with a selector,
\* one that names more pods than it counts, one that names a pod to come, a
\* scenario that deletes nothing, and a partition the checks refuse.
Choices ==
  {[KillSpec EXCEPT !.maxConcurrentRunsPerTarget = 1],
   [KillSpec EXCEPT !.count = 2, !.rest = TRUE],
   [KillSpec EXCEPT !.type = "PodSelector", !.name = "", !.count = 0,
                    !.maxConcurrentRunsPerTarget = 1],
   [KillSpec EXCEPT !.podNames = {t1, t2, t3}, !.minTaskManagersRemaining = 2],
   [KillSpec EXCEPT !.podNames = {t4}],
   ImpairmentSpec,
   [KillSpec EXCEPT !.scenario = "NetworkPartition", !.network = "TMtoTM"]}

MCSpecs == [Runs -> Choices]

\* Neither the runs nor the TaskManagers there are at first differ in MCSpecs.
Symmetry == Permutations(Runs) \cup Permutations({t1, t2, t3})

SingleSpecs == {[r \in Runs |-> KillSpec]}
==============================================================================
