---------------------------- MODULE ChaosRunTypes ----------------------------
(***************************************************************************)
(* The ChaosRun custom resource: the part of its spec and status that the  *)
(* controller decides on, the helpers of internal/controller/phases.go     *)
(* that finish a run, and the JSON merge patch every status write is.      *)
(*                                                                         *)
(* Phase "" (a run nobody has touched) and Pending are one phase here: the *)
(* controller dispatches both to reconcilePending and never writes         *)
(* Pending itself.                                                         *)
(***************************************************************************)
EXTENDS Integers, Sequences, FiniteSets

CONSTANTS
  Units,      \* what a run acts on: pods, or the NetworkPolicies it creates
  MaxTime     \* the clock stops here; every deadline has then passed

ASSUME MaxTimeAssumption == MaxTime \in Nat
ASSUME UnitsAssumption == IsFiniteSet(Units)

NoTime   == -1                      \* an unset *metav1.Time
Starting == -2                      \* an ephemeral container still being started
Ended    == -3                      \* an ephemeral container that has terminated
Time     == 0 .. MaxTime
MaybeTime == Time \cup {NoTime}

-----------------------------------------------------------------------------
(* Phases, verdicts, conditions and scenarios. *)

Terminal == {"Completed", "Aborted", "Failed"}
Phases   == {"Pending", "Injecting", "Observing", "CleaningUp"} \cup Terminal
Verdicts == {"", "Passed", "Failed", "Inconclusive"}

\* The conditions a later decision or a reader depends on, when True.
ConditionTypes == {"AbortRequested", "RecoveryObserved", "NetworkChaosCleanedUp"}

Scenarios == {"TaskManagerPodKill", "NetworkPartition", "NetworkChaos",
              "ResourceExhaustion"}

\* The scenarios the controller calls "network scenarios": they leave
\* something behind that has to be removed.
NeedsCleanup(scenario) == scenario # "TaskManagerPodKill"

\* NetworkChaos and ResourceExhaustion run in ephemeral containers, which
\* nobody can delete: they end by themselves when their duration is over.
InContainers(scenario) == scenario \in {"NetworkChaos", "ResourceExhaustion"}

(***************************************************************************)
(* The spec of a run after SetDefaults, durations in clock ticks.  poll is *)
(* the interval SetDefaults puts in memory; storedPoll is the value a read *)
(* after a status patch returns: the response overwrites the object, and a *)
(* run created by a Go client (CLI, API server) stores an explicit "0s".   *)
(***************************************************************************)
RunSpec == [scenario: Scenarios, valid: BOOLEAN, dryRun: BOOLEAN,
            observe: BOOLEAN, checkpoint: BOOLEAN, count: Nat,
            timeout: Nat, poll: Nat \ {0}, storedPoll: Nat,
            duration: Nat, checkpointWait: Nat]

(***************************************************************************)
(* One version of the object.  injected stands for len(InjectedPods) > 0,  *)
(* records for NetworkPolicies or for the container records that are not   *)
(* CleanedUp yet, and injectedAt for the InjectedAt those records share.   *)
(***************************************************************************)
Run == [exists: BOOLEAN, abort: BOOLEAN, deleting: BOOLEAN, finalizer: BOOLEAN,
        phase: Phases, verdict: Verdicts, conditions: SUBSET ConditionTypes,
        startedAt: MaybeTime, observingAt: MaybeTime, injected: BOOLEAN,
        records: SUBSET Units, injectedAt: MaybeTime,
        replacement: BOOLEAN, recovered: BOOLEAN]

NewRun == [exists |-> TRUE, abort |-> FALSE, deleting |-> FALSE,
           finalizer |-> FALSE, phase |-> "Pending", verdict |-> "",
           conditions |-> {}, startedAt |-> NoTime, observingAt |-> NoTime,
           injected |-> FALSE, records |-> {}, injectedAt |-> NoTime,
           replacement |-> FALSE, recovered |-> FALSE]

-----------------------------------------------------------------------------
(* internal/controller/phases.go *)

IsTerminal(phase) == phase \in Terminal

TransitionPhase(run, phase) == [run EXCEPT !.phase = phase]

FinalizeRun(run, verdict) ==
  [run EXCEPT !.phase = "Completed", !.verdict = verdict]

FailRun(run) == [run EXCEPT !.phase = "Failed", !.verdict = "Failed"]

\* Mistake: the phase is used for the verdict too.
AbortRun_Mutant(run) == [run EXCEPT !.phase = "Aborted", !.verdict = "Aborted"]

AbortRun(run) == [run EXCEPT !.phase = "Aborted", !.verdict = "Inconclusive"]

SetCondition(run, type) == [run EXCEPT !.conditions = @ \cup {type}]

ClearCondition(run, type) == [run EXCEPT !.conditions = @ \ {type}]

-----------------------------------------------------------------------------
(***************************************************************************)
(* client.MergeFrom(base): the patch carries the fields in which the       *)
(* changed object differs from the one that was read, with no check that   *)
(* the server still holds the version that was read.  A list (conditions,  *)
(* records) is replaced as a whole.                                        *)
(***************************************************************************)
Changed(base, changed, current) == IF changed # base THEN changed ELSE current

\* Status().Patch: only fields of the status are sent.
MergeStatus(base, run, current) ==
  [current EXCEPT
     !.phase       = Changed(base.phase, run.phase, @),
     !.verdict     = Changed(base.verdict, run.verdict, @),
     !.conditions  = Changed(base.conditions, run.conditions, @),
     !.startedAt   = Changed(base.startedAt, run.startedAt, @),
     !.observingAt = Changed(base.observingAt, run.observingAt, @),
     !.injected    = Changed(base.injected, run.injected, @),
     !.records     = Changed(base.records, run.records, @),
     !.injectedAt  = Changed(base.injectedAt, run.injectedAt, @),
     !.replacement = Changed(base.replacement, run.replacement, @),
     !.recovered   = Changed(base.recovered, run.recovered, @)]

\* Removing the last finalizer of an object that is being deleted deletes it.
WithoutFinalizer(current) ==
  [current EXCEPT !.finalizer = FALSE, !.exists = @ /\ ~current.deleting]
=============================================================================
