-------------------------- MODULE ChaosRunLifecycle --------------------------
(***************************************************************************)
(* What the life of a ChaosRun promises to whoever reads its status: the   *)
(* phases follow one another as the state machine of the controller says,  *)
(* a verdict reached before cleanup is the verdict the run ends with, and  *)
(* a run that ends Completed or Aborted has left no policy behind that its *)
(* cleanup was shown.                                                      *)
(* Only Failed makes no promise about the cluster.                         *)
(***************************************************************************)
CONSTANTS Phases, Terminal, Verdicts

VARIABLES
  phase,     \* status.phase, or "Gone" when the object has been deleted
  verdict,   \* status.verdict
  disrupted  \* the cluster holds a NetworkPolicy of this run (but for those
             \* that a complete cleanup was not shown)

vars == <<phase, verdict, disrupted>>

Init == phase = "Pending" /\ verdict = "" /\ disrupted = FALSE

Start ==
  /\ phase = "Pending" /\ phase' = "Injecting"
  /\ UNCHANGED <<verdict, disrupted>>

\* Deleting a run does not stop an injection that is under way.
Disrupt ==
  /\ phase \in {"Injecting", "Gone"} /\ disrupted' = TRUE
  /\ UNCHANGED <<phase, verdict>>

Lift ==
  /\ disrupted' = FALSE
  /\ UNCHANGED <<phase, verdict>>

Observe ==
  /\ phase = "Injecting" /\ phase' = "Observing"
  /\ UNCHANGED <<verdict, disrupted>>

\* The observation ends, with or without a verdict.
CleanUp ==
  /\ phase = "Observing" /\ phase' = "CleaningUp"
  /\ verdict' \in Verdicts
  /\ UNCHANGED disrupted

\* An abort skips what is left of the injection and of the observation.
CleanUpAborted ==
  /\ phase \in {"Injecting", "Observing"} /\ phase' = "CleaningUp"
  /\ UNCHANGED <<verdict, disrupted>>

Complete ==
  /\ phase \in {"Injecting", "Observing", "CleaningUp"} /\ ~disrupted
  /\ phase' = "Completed"
  /\ verdict' \in Verdicts \ {""}
  /\ verdict # "" => verdict' = verdict
  /\ UNCHANGED disrupted

Abort ==
  /\ phase \notin Terminal \cup {"Gone"} /\ ~disrupted
  /\ phase' = "Aborted" /\ verdict' = "Inconclusive"
  /\ UNCHANGED disrupted

Fail ==
  /\ phase \notin Terminal \cup {"Observing", "Gone"}
  /\ phase' = "Failed" /\ verdict' = "Failed"
  /\ UNCHANGED disrupted

Delete ==
  /\ phase # "Gone" /\ phase' = "Gone"
  /\ UNCHANGED <<verdict, disrupted>>

Next ==
  \/ Start \/ Disrupt \/ Lift \/ Observe \/ CleanUp \/ CleanUpAborted
  \/ Complete \/ Abort \/ Fail \/ Delete

Spec == Init /\ [][Next]_vars
=============================================================================
