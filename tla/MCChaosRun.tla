------------------------------ MODULE MCChaosRun ------------------------------
(* The specs the controller is checked with, in ticks of the clock. *)
EXTENDS ChaosRunProperties, TLC

KillSpec ==
  [scenario |-> "TaskManagerPodKill", valid |-> TRUE, dryRun |-> FALSE,
   observe |-> TRUE, checkpoint |-> FALSE, count |-> 1, timeout |-> 1,
   poll |-> 1, storedPoll |-> 1, duration |-> 0, checkpointWait |-> 0]

PartitionSpec ==
  [KillSpec EXCEPT !.scenario = "NetworkPartition", !.duration = 1]

ImpairmentSpec ==
  [KillSpec EXCEPT !.scenario = "NetworkChaos", !.duration = 1]

WaitingSpec ==
  [KillSpec EXCEPT !.checkpoint = TRUE, !.checkpointWait = 1]

\* Kills and partitions, every way in which a run ends before its injection or
\* without an observation, and an impairment that is cleaned up at once.
ControllerSpecs ==
  {KillSpec, PartitionSpec, WaitingSpec,
   [KillSpec EXCEPT !.observe = FALSE], [PartitionSpec EXCEPT !.observe = FALSE],
   [KillSpec EXCEPT !.valid = FALSE], [PartitionSpec EXCEPT !.dryRun = TRUE],
   [ImpairmentSpec EXCEPT !.observe = FALSE, !.duration = 2]}

\* One spec for each way to be cleaned up: nothing, policies, containers.
ScenarioSpecs == {KillSpec, PartitionSpec, ImpairmentSpec}

AllScenarios == ScenarioSpecs \cup {[ImpairmentSpec EXCEPT !.scenario = "ResourceExhaustion"]}

PartitionSpecs == {PartitionSpec}

\* A run created by a Go client: the interval reads back as 0s.
UnpolledSpecs == {[ImpairmentSpec EXCEPT !.storedPoll = 0]}

\* The units are interchangeable.
Symmetry == Permutations(Units)
=============================================================================
