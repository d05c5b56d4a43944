------------------------ MODULE TaskManagerRunsProofs ------------------------
(***************************************************************************)
(* What the safety checks promise of a workload, for any number of runs,   *)
(* pods and faults: the runs that disrupt it at a time, and the            *)
(* TaskManagers that the kills leave.                                      *)
(***************************************************************************)
EXTENDS TaskManagerRuns, FiniteSetTheorems, TLAPS

\* The counts of pods, and of faults.
LEMMA PodCounts ==
  /\ 0 \in PodCount
  /\ \A S \in SUBSET Pods : IsFiniteSet(S) /\ Cardinality(S) \in PodCount
<1>1. Cardinality(Pods) \in Nat /\ IsFiniteSet(Pods)
  BY ConstantsAssumption, FS_CardinalityType
<1>2. ASSUME NEW S \in SUBSET Pods
      PROVE  IsFiniteSet(S) /\ Cardinality(S) \in PodCount
  BY <1>1, FS_Subset, FS_CardinalityType DEF PodCount
<1>3. 0 \in PodCount
  BY <1>1 DEF PodCount
<1> QED
  BY <1>2, <1>3

LEMMA FaultBound ==
  ASSUME faults \in 0 .. MaxFaults, Fault
  PROVE  faults' \in 0 .. MaxFaults
<1>1. MaxFaults \in Nat
  BY ConstantsAssumption
<1> QED
  BY <1>1 DEF Fault

-----------------------------------------------------------------------------
(* The operators yield what the statuses are made of. *)

LEMMA EligiblePods ==
  ASSUME NEW view
  PROVE  Eligible(view) \subseteq Pods /\ IsFiniteSet(Eligible(view))
<1>1. Eligible(view) \subseteq Pods
  BY DEF Eligible
<1> QED
  BY <1>1, PodCounts

\* The specs of the runs.
LEMMA SpecOfRun ==
  ASSUME TypeOK, NEW r \in Runs
  PROVE  spec[r] \in RunSpec /\ LogicalName(spec[r]) \in TargetNames
<1>1. spec \in Specs
  BY DEF TypeOK
<1>2. spec \in [Runs -> RunSpec]
  BY <1>1, ConstantsAssumption
<1> QED
  BY <1>1, <1>2 DEF TargetNames

LEMMA ResolvedTarget ==
  ASSUME NEW s \in RunSpec, NEW view
  PROVE  /\ LogicalName(s) \in TargetNames => Resolve(s, view) \in Target
         /\ TaskManagers(s, view) \subseteq Eligible(view)
         /\ IsFiniteSet(TaskManagers(s, view))
         /\ Resolve(s, view).logicalName = LogicalName(s)
         /\ Resolve(s, view).taskManagers = TaskManagers(s, view)
<1>1. TaskManagers(s, view) \subseteq Eligible(view)
  BY DEF TaskManagers
<1>2. TaskManagers(s, view) \in SUBSET Pods /\ IsFiniteSet(TaskManagers(s, view))
  BY <1>1, EligiblePods, PodCounts
<1>3. (Session /\ s.type # "PodSelector") \in BOOLEAN
  BY ConstantsAssumption
<1> QED
  BY <1>1, <1>2, <1>3 DEF Resolve, Target

\* Whatever the observers see, they answer yes or no.
LEMMA ObservedVerdict ==
  ASSUME NEW s, NEW run, NEW view, NEW flink
  PROVE  /\ Observe(s, run, view, flink).replacement \in BOOLEAN
         /\ Observe(s, run, view, flink).ready \in BOOLEAN
BY DEF Observe, CompositeObserver

\* The pods the kill driver chooses.
LEMMA SelectedPods ==
  ASSUME NEW s \in RunSpec, NEW view,
         NEW chosen \in KillSelections(s, Resolve(s, view))
  PROVE  /\ chosen \in SUBSET Pods
         /\ s.podNames = {} => Cardinality(chosen) <= SelectionCount(s)
<1>1. CASE s.podNames # {}
  BY <1>1 DEF KillSelections, RunSpec, NetworkScenarios
<1>2. CASE s.podNames = {}
  <2>1. chosen \in SUBSET TaskManagers(s, view)
    BY <1>2, ResolvedTarget DEF KillSelections
  <2>2. chosen \in SUBSET Pods
    BY <2>1, ResolvedTarget, EligiblePods
  <2>3. Cardinality(chosen) \in Nat
    BY <2>2, PodCounts, FS_CardinalityType
  <2>4. SelectionCount(s) \in Nat
    BY DEF SelectionCount, RunSpec, NetworkScenarios
  <2>5. \/ Cardinality(chosen) = SelectionCount(s)
        \/ Cardinality(chosen) < SelectionCount(s)
    BY <1>2 DEF KillSelections
  <2> QED
    BY <2>2, <2>3, <2>4, <2>5
<1> QED
  BY <1>1, <1>2

-----------------------------------------------------------------------------
(* Type correctness. *)

LEMMA UpdateType ==
  ASSUME TypeOK, NEW r \in Runs, NEW status \in RunStatus, Update(r, status)
  PROVE  runs' \in [Runs -> RunStatus]
BY DEF Update, TypeOK

LEMMA Busy == work.step # "idle" => work # NoWork
BY DEF NoWork

LEMMA WorkInProgress ==
  ASSUME TypeOK, work # NoWork
  PROVE  /\ work \in [step : {"record", "fail", "observe"}, run : Runs,
                      injected : SUBSET Pods, target : Target]
         /\ work.run \in Runs /\ runs[work.run] \in RunStatus
         /\ work.target.logicalName \in TargetNames
         /\ work.target.taskManagers \in SUBSET Pods
         /\ work.injected \in SUBSET Pods
BY DEF TypeOK, Work, Target

LEMMA StaleBound ==
  ASSUME TypeOK
  PROVE  /\ stale \in Nat
         /\ \A r, phase : Reconciles(r, phase) =>
              stale' \in 0 .. MaxStale /\ (runCache # runs => stale' = stale + 1)
                /\ (runCache = runs => stale' = stale)
<1>1. MaxStale \in Nat /\ stale \in 0 .. MaxStale
  BY ConstantsAssumption DEF TypeOK
<1> QED
  BY <1>1 DEF Reconciles

LEMMA InitTypeOK == Init => TypeOK
<1> SUFFICES ASSUME Init PROVE TypeOK
  OBVIOUS
<1>1. work \in Work
  BY DEF Init, Work
<1>2. NewRun \in RunStatus
  BY PodCounts DEF NewRun, RunStatus, Terminal
<1>3. pods \in [Pods -> PodStates]
  BY ConstantsAssumption DEF Init, PodStates
<1>4. spec \in Specs /\ ghosts \in SUBSET Pods
  BY ConstantsAssumption DEF Init
<1>5. faults \in 0 .. MaxFaults /\ stale \in 0 .. MaxStale
  <2>1. MaxFaults \in Nat /\ faults = 0 /\ MaxStale \in Nat /\ stale = 0
    BY ConstantsAssumption DEF Init
  <2> QED
    BY <2>1
<1> QED
  BY <1>1, <1>2, <1>3, <1>4, <1>5 DEF Init, TypeOK

LEMMA NextTypeOK == TypeOK /\ [Next]_vars => TypeOK'
<1> SUFFICES ASSUME TypeOK, [Next]_vars PROVE TypeOK'
  OBVIOUS
<1>0. ASSUME NEW r \in Runs, NEW phase, Reconciles(r, phase)
      PROVE  stale' \in 0 .. MaxStale
  BY <1>0, StaleBound
<1> USE DEF TypeOK
<1>1. ASSUME NEW r \in Runs, Reject(r) PROVE TypeOK'
  <2>1. [runs[r] EXCEPT !.phase = "Failed"] \in RunStatus
    BY DEF RunStatus, Terminal
  <2> QED
    BY <1>0, <1>1, <2>1, UpdateType DEF Reject
<1>2. ASSUME NEW r \in Runs, Kill(r) PROVE TypeOK'
  <2> DEFINE target == Resolve(spec[r], podCache)
  <2>1. PICK chosen \in KillSelections(spec[r], target) :
             \E killed \in SUBSET chosen :
               /\ \/ UNCHANGED faults
                  \/ Fault
               /\ pods' = Deleted(killed)
               /\ work' = [step |-> IF killed = chosen THEN "record" ELSE "fail",
                           run |-> r, injected |-> killed, target |-> target]
    BY <1>2 DEF Kill
  <2>2. PICK killed \in SUBSET chosen :
               /\ \/ UNCHANGED faults
                  \/ Fault
               /\ pods' = Deleted(killed)
               /\ work' = [step |-> IF killed = chosen THEN "record" ELSE "fail",
                           run |-> r, injected |-> killed, target |-> target]
    BY <2>1
  <2>3. killed \in SUBSET Pods /\ target \in Target
    BY SelectedPods, SpecOfRun, ResolvedTarget
  <2>4. work' \in Work
    BY <2>2, <2>3 DEF Work
  <2>5. pods' \in [Pods -> PodStates]
    BY <2>2 DEF Deleted, PodStates
  <2>6. faults' \in 0 .. MaxFaults
    BY <2>2, FaultBound
  <2>7. ghosts' \in SUBSET Pods
    <3>1. target.taskManagers \in SUBSET Pods
      BY <2>3 DEF Target
    <3>2. ghosts' = ghosts \cup (target.taskManagers \ Eligible(pods))
      BY <1>2 DEF Kill
    <3> QED
      BY <3>1, <3>2
  <2> QED
    BY <1>0, <1>2, <2>4, <2>5, <2>6, <2>7 DEF Kill
<1>3. ASSUME NEW r \in Runs, Disrupt(r) PROVE TypeOK'
  <2> DEFINE target == Resolve(spec[r], podCache)
  <2>1. target \in Target /\ target.taskManagers \in SUBSET Pods
    BY SpecOfRun, ResolvedTarget DEF Target
  <2>2. work' \in Work
    BY <1>3, <2>1 DEF Disrupt, Work
  <2>3. faults' \in 0 .. MaxFaults
    BY <1>3, FaultBound DEF Disrupt
  <2> QED
    BY <1>0, <1>3, <2>2, <2>3 DEF Disrupt
<1>4. ASSUME RecordInjection PROVE TypeOK'
  <2>1. work # NoWork
    BY <1>4, Busy DEF RecordInjection
  <2>2. Cardinality(work.target.taskManagers) \in PodCount
    BY <2>1, WorkInProgress, PodCounts
  <2>3. [runs[work.run] EXCEPT
           !.target = work.target.logicalName, !.injected = work.injected,
           !.before = Cardinality(work.target.taskManagers)] \in RunStatus
    BY <2>1, <2>2, WorkInProgress DEF RunStatus, Terminal
  <2>4. work' \in Work
    BY <1>4, <2>1, WorkInProgress DEF RecordInjection, Work
  <2> QED
    BY <1>4, <2>1, <2>3, <2>4, WorkInProgress, UpdateType DEF RecordInjection
<1>5. ASSUME RecordFailure PROVE TypeOK'
  <2>1. work # NoWork
    BY <1>5, Busy DEF RecordFailure
  <2>2. [runs[work.run] EXCEPT !.phase = "Failed",
                                 !.target = work.target.logicalName] \in RunStatus
    BY <2>1, WorkInProgress DEF RunStatus, Terminal
  <2> QED
    BY <1>5, <2>1, <2>2, WorkInProgress, UpdateType DEF RecordFailure, Work
<1>6. ASSUME LoseRecord PROVE TypeOK'
  BY <1>6, FaultBound DEF LoseRecord, Work
<1>7. ASSUME TransitionToObserving PROVE TypeOK'
  <2>1. work # NoWork
    BY <1>7, Busy DEF TransitionToObserving
  <2>2. [runs[work.run] EXCEPT !.phase = "Observing"] \in RunStatus
    BY <2>1, WorkInProgress DEF RunStatus, Terminal
  <2> QED
    BY <1>7, <2>1, <2>2, WorkInProgress, UpdateType DEF TransitionToObserving, Work
<1>8. ASSUME NEW r \in Runs, ResumeObserving(r) PROVE TypeOK'
  <2>1. [runs[r] EXCEPT !.phase = "Observing"] \in RunStatus
    BY DEF RunStatus, Terminal
  <2> QED
    BY <1>0, <1>8, <2>1, UpdateType DEF ResumeObserving
<1>9. ASSUME NEW r \in Runs, NEW status \in RunStatus, Conclude(r, status)
      PROVE  runs' \in [Runs -> RunStatus]
  <2>1. [status EXCEPT
           !.phase = IF NeedsCleanup(spec[r]) THEN "CleaningUp" ELSE "Completed"]
          \in RunStatus
    BY DEF RunStatus, Terminal
  <2> QED
    BY <1>9, <2>1, UpdateType DEF Conclude
<1>10. ASSUME NEW r \in Runs, Poll(r) PROVE TypeOK'
  <2>1. PICK flink \in FlinkAnswers :
          LET seen == Observe(spec[r], runCache[r], podCache, flink)
              now  == [runs[r] EXCEPT !.replacement = seen.replacement]
          IN  \/ Conclude(r, [now EXCEPT !.recovered = TRUE])
              \/ Update(r, now)
    BY <1>10 DEF Poll
  <2> DEFINE seen == Observe(spec[r], runCache[r], podCache, flink)
             now  == [runs[r] EXCEPT !.replacement = seen.replacement]
  <2>2. seen.replacement \in BOOLEAN
    BY ObservedVerdict
  <2> HIDE DEF seen
  <2>3. now \in RunStatus /\ [now EXCEPT !.recovered = TRUE] \in RunStatus
    BY <2>2 DEF RunStatus, Terminal
  <2>4. Conclude(r, [now EXCEPT !.recovered = TRUE]) \/ Update(r, now)
    BY <2>1 DEF seen
  <2> HIDE DEF now
  <2>5. runs' \in [Runs -> RunStatus]
    BY <2>3, <2>4, <1>9, UpdateType
  <2> QED
    BY <1>0, <1>10, <2>5 DEF Poll
<1>11. ASSUME NEW r \in Runs, ObservationEnds(r) PROVE TypeOK'
  <2>1. runs' \in [Runs -> RunStatus]
    BY <1>9, <1>11 DEF ObservationEnds
  <2> QED
    BY <1>0, <1>11, <2>1 DEF ObservationEnds
<1>12. ASSUME NEW r \in Runs, CleanedUp(r) PROVE TypeOK'
  <2>1. \A phase \in Terminal : [runs[r] EXCEPT !.phase = phase] \in RunStatus
    BY DEF RunStatus, Terminal
  <2> QED
    BY <1>0, <1>12, <2>1, UpdateType DEF CleanedUp
<1>13. ASSUME NEW r \in Runs, Abort(r) PROVE TypeOK'
  <2>1. [runs[r] EXCEPT
           !.phase = IF NeedsCleanup(spec[r]) /\ runCache[r].injected # {}
                     THEN "CleaningUp" ELSE "Aborted"] \in RunStatus
    BY DEF RunStatus, Terminal
  <2> QED
    BY <1>0, <1>13, <2>1, UpdateType DEF Abort
<1>14. ASSUME NEW r \in Runs, RunEvent(r) PROVE TypeOK'
  BY <1>14 DEF RunEvent
<1>15. ASSUME NEW p \in Pods,
              \/ PodEvent(p) \/ Replace(p) \/ PodReady(p)
       PROVE  TypeOK'
  BY <1>15 DEF PodEvent, Replace, PodReady,
               PodStates
<1>16. CASE UNCHANGED vars
  BY <1>16 DEF vars
<1> QED
  BY <1>1, <1>2, <1>3, <1>4, <1>5, <1>6, <1>7, <1>8, <1>10, <1>11, <1>12, <1>13,
     <1>14, <1>15, <1>16 DEF Next

\* Statuses, caches and the work in progress are well-formed in every reachable
\* state, whatever the specs: in particular the TaskManagers counted before an
\* injection are never more than there are pods.
THEOREM TypeCorrect == Spec => []TypeOK
BY InitTypeOK, NextTypeOK, PTL DEF Spec

-----------------------------------------------------------------------------
(* The TaskManagers that the kills leave. *)

\* At first there are as many TaskManagers as some run asks for.
EnoughAtFirst ==
  \A s \in Specs : \E r \in Runs :
    Cardinality({p \in InitialPods : Role[p] = "taskmanager"})
      >= s[r].minTaskManagersRemaining

InService == {p \in Eligible(pods) : Role[p] = "taskmanager"}

\* The pods that a target may hold and that are not in service as TaskManagers.
Strangers == ghosts \cup Unlabelled

\* Three sets of pods that cover a fourth.
LEMMA CoveringCount ==
  ASSUME NEW V \in SUBSET Pods, NEW A \in SUBSET Pods, NEW B \in SUBSET Pods,
         NEW C \in SUBSET Pods, V \subseteq (A \cup B) \cup C
  PROVE  Cardinality(V) <= (Cardinality(A) + Cardinality(B)) + Cardinality(C)
<1>1. /\ IsFiniteSet(V) /\ IsFiniteSet(A) /\ IsFiniteSet(B) /\ IsFiniteSet(C)
      /\ IsFiniteSet(A \cup B) /\ IsFiniteSet((A \cup B) \cup C)
  BY PodCounts
<1>2. Cardinality(V) <= Cardinality((A \cup B) \cup C)
  BY <1>1, FS_Subset
<1>3. /\ Cardinality(A \cup B)
           = Cardinality(A) + Cardinality(B) - Cardinality(A \cap B)
      /\ Cardinality((A \cup B) \cup C)
           = Cardinality(A \cup B) + Cardinality(C) - Cardinality((A \cup B) \cap C)
  BY <1>1, FS_Union
<1>4. /\ Cardinality(V) \in Nat /\ Cardinality(A) \in Nat /\ Cardinality(B) \in Nat
      /\ Cardinality(C) \in Nat /\ Cardinality(A \cup B) \in Nat
      /\ Cardinality((A \cup B) \cup C) \in Nat
      /\ Cardinality(A \cap B) \in Nat /\ Cardinality((A \cup B) \cap C) \in Nat
  <2>1. IsFiniteSet(A \cap B) /\ IsFiniteSet((A \cup B) \cap C)
    BY <1>1, FS_Intersection
  <2> QED
    BY <1>1, <2>1, FS_CardinalityType
<1> QED
  BY <1>2, <1>3, <1>4

\* What a run leaves of the TaskManagers it asks for.
Floor(r) ==
  spec[r].minTaskManagersRemaining - Excess(spec[r]) - Cardinality(Strangers)

\* The counts that the bound is made of.
LEMMA FloorType ==
  ASSUME TypeOK, NEW r \in Runs
  PROVE  /\ SelectionCount(spec[r]) \in Nat /\ Excess(spec[r]) \in Nat
         /\ Cardinality(spec[r].podNames) <= SelectionCount(spec[r]) + Excess(spec[r])
         /\ spec[r].minTaskManagersRemaining \in Int
         /\ spec[r].podNames \in SUBSET Pods
<1>1. spec[r] \in RunSpec
  BY SpecOfRun
<1>2. /\ SelectionCount(spec[r]) \in Nat /\ spec[r].minTaskManagersRemaining \in Int
      /\ spec[r].podNames \in SUBSET Pods
  BY <1>1 DEF SelectionCount, RunSpec
<1>3. Cardinality(spec[r].podNames) \in Nat
  BY <1>2, PodCounts, FS_CardinalityType
<1> DEFINE names == Cardinality(spec[r].podNames)
           count == SelectionCount(spec[r])
<1>4. Excess(spec[r]) = IF names - count > 0 THEN names - count ELSE 0
  BY DEF Excess
<1> HIDE DEF names, count
<1>5. names \in Nat /\ count \in Nat
  BY <1>2, <1>3 DEF names, count
<1>6. Excess(spec[r]) \in Nat /\ names <= count + Excess(spec[r])
  BY <1>4, <1>5
<1> QED
  BY <1>2, <1>6 DEF names, count

\* A pod in a target is in service, or was not there, or has no label.
LEMMA TargetInService ==
  ASSUME TypeOK, NEW r \in Runs
  PROVE  Resolve(spec[r], podCache).taskManagers
           \subseteq InService \cup Unlabelled
             \cup (Resolve(spec[r], podCache).taskManagers \ Eligible(pods))
<1> DEFINE view == Resolve(spec[r], podCache).taskManagers
<1>1. view = TaskManagers(spec[r], podCache)
  BY SpecOfRun, ResolvedTarget
<1>2. \A p \in Pods : Role[p] \in {"taskmanager", "jobmanager", ""}
  BY ConstantsAssumption
<1>3. \A p \in view : p \in Pods /\ (Role[p] = "taskmanager" \/ Role[p] = "")
  BY <1>1, <1>2, EligiblePods DEF TaskManagers
<1> HIDE DEF view
<1>4. \A p \in view : p \in Eligible(pods) => p \in InService \/ p \in Unlabelled
  BY <1>3 DEF InService, Unlabelled
<1> QED
  BY <1>4 DEF view

\* A kill that the safety check admits leaves what its run asks for, less what
\* it names beyond its count and what its view holds by mistake.
LEMMA KillLeavesEnough ==
  ASSUME TypeOK, NEW r \in Runs, Kill(r)
  PROVE  Cardinality(InService') >= Floor(r)'
<1> DEFINE target == Resolve(spec[r], podCache)
           view   == target.taskManagers
           count  == SelectionCount(spec[r])
<1>1. spec[r] \in RunSpec /\ spec' = spec /\ view \in SUBSET Pods
  BY SpecOfRun, ResolvedTarget, EligiblePods DEF Kill
<1>2. /\ count \in Nat /\ Excess(spec[r]) \in Nat
      /\ Cardinality(spec[r].podNames) <= count + Excess(spec[r])
      /\ spec[r].minTaskManagersRemaining \in Int
  BY FloorType
<1>3. Cardinality(view) - count >= spec[r].minTaskManagersRemaining
  BY DEF Kill, NeedsCleanup, Admitted, Check, EnoughTaskManagersRemain
<1>4. PICK chosen \in KillSelections(spec[r], target) :
           \E killed \in SUBSET chosen :
             /\ pods' = Deleted(killed)
             /\ ghosts' = ghosts \cup (view \ Eligible(pods))
  BY DEF Kill
<1>5. PICK killed \in SUBSET chosen :
             /\ pods' = Deleted(killed)
             /\ ghosts' = ghosts \cup (view \ Eligible(pods))
  BY <1>4
<1>6. /\ chosen \in SUBSET Pods
      /\ Cardinality(chosen) <= count + Excess(spec[r])
  <2>1. CASE spec[r].podNames = {}
    <3>1. chosen \in SUBSET Pods /\ Cardinality(chosen) <= count
      BY <1>1, <2>1, SelectedPods
    <3>2. Cardinality(chosen) \in Nat
      BY <3>1, PodCounts, FS_CardinalityType
    <3> QED
      BY <1>2, <3>1, <3>2
  <2>2. CASE spec[r].podNames # {}
    <3>1. chosen = spec[r].podNames
      BY <2>2 DEF KillSelections
    <3> QED
      BY <1>2, <3>1, FloorType
  <2> QED
    BY <2>1, <2>2
<1>7. InService \subseteq InService' \cup killed
  <2>1. \A p \in Pods : pods'[p] = IF p \in killed /\ pods[p] \in {"pending", "ready"}
                                 THEN "terminating" ELSE pods[p]
    BY <1>5 DEF Deleted
  <2>2. \A p : p \in InService' <=>
              p \in Pods /\ pods'[p] \in {"pending", "ready"} /\ Role[p] = "taskmanager"
    BY DEF InService, Eligible
  <2>3. \A p : p \in InService <=>
              p \in Pods /\ pods[p] \in {"pending", "ready"} /\ Role[p] = "taskmanager"
    BY DEF InService, Eligible
  <2> QED
    BY <2>1, <2>2, <2>3
<1>8. view \subseteq (InService' \cup chosen) \cup Strangers'
  <2>1. view \ Eligible(pods) \subseteq ghosts'
    BY <1>5
  <2>2. Unlabelled' = Unlabelled
    BY DEF Unlabelled
  <2>3. view \subseteq InService \cup Unlabelled \cup (view \ Eligible(pods))
    BY TargetInService
  <2> HIDE DEF view
  <2> QED
    BY <1>5, <1>7, <2>1, <2>2, <2>3 DEF Strangers
<1>9. InService' \in SUBSET Pods /\ Strangers' \in SUBSET Pods
  <2>1. ghosts' \in SUBSET Pods
    BY <1>1, <1>5 DEF TypeOK
  <2> QED
    BY <2>1 DEF InService, Eligible, Strangers, Unlabelled
<1>10. Cardinality(view) <=
         (Cardinality(InService') + Cardinality(chosen)) + Cardinality(Strangers')
  BY <1>1, <1>6, <1>8, <1>9, CoveringCount
<1>11. /\ Cardinality(view) \in Nat /\ Cardinality(InService') \in Nat
       /\ Cardinality(chosen) \in Nat /\ Cardinality(Strangers') \in Nat
  BY <1>1, <1>6, <1>9, PodCounts, FS_CardinalityType
<1>12. Floor(r)' = spec[r].minTaskManagersRemaining - Excess(spec[r])
                     - Cardinality(Strangers')
  BY <1>1 DEF Floor, Excess, SelectionCount
<1> HIDE DEF view, count
<1> QED
  BY <1>2, <1>3, <1>6, <1>10, <1>11, <1>12

\* No other step takes a TaskManager out of service.
LEMMA OnlyKillsTake ==
  ASSUME TypeOK, [Next]_vars, \A r \in Runs : ~Kill(r)
  PROVE  InService \subseteq InService'
<1>1. CASE UNCHANGED pods
  BY <1>1 DEF InService, Eligible
<1>2. ASSUME NEW p \in Pods, Replace(p) \/ PodReady(p)
      PROVE  InService \subseteq InService'
  BY <1>2 DEF Replace, PodReady, InService, Eligible, TypeOK
<1>3. \/ UNCHANGED pods
      \/ \E p \in Pods : Replace(p) \/ PodReady(p)
  BY DEF Next, vars, Reject, Disrupt, ResumeObserving, Poll, ObservationEnds,
         CleanedUp, Abort, RunEvent, RecordInjection, RecordFailure, LoseRecord,
         TransitionToObserving, PodEvent
<1> QED
  BY <1>1, <1>2, <1>3

LEMMA EnoughStay ==
  ASSUME TypeOK, TaskManagersStay, [Next]_vars
  PROVE  TaskManagersStay'
<1>1. spec' = spec /\ (ghosts' = ghosts \/ \E r \in Runs : Kill(r))
  BY DEF Next, vars, Reject, Kill, Disrupt, ResumeObserving, Poll, ObservationEnds,
         CleanedUp, Abort, RunEvent, RecordInjection, RecordFailure, LoseRecord,
         TransitionToObserving, PodEvent, Replace, PodReady
<1>2. (TaskManagersStay <=> \E r \in Runs : Cardinality(InService) >= Floor(r))
      /\ (TaskManagersStay' <=> \E r \in Runs : Cardinality(InService') >= Floor(r)')
  BY DEF TaskManagersStay, InService, Floor, Strangers
<1>3. CASE \E r \in Runs : Kill(r)
  BY <1>2, <1>3, KillLeavesEnough
<1>4. CASE \A r \in Runs : ~Kill(r)
  <2>1. PICK r \in Runs : Cardinality(InService) >= Floor(r)
    BY <1>2
  <2>2. InService \subseteq InService' /\ InService' \subseteq Pods
    BY <1>4, OnlyKillsTake DEF InService, Eligible
  <2>3. Cardinality(InService) <= Cardinality(InService')
        /\ Cardinality(InService) \in Nat /\ Cardinality(InService') \in Nat
    BY <2>2, PodCounts, FS_Subset, FS_CardinalityType
  <2>4. Floor(r) \in Int
    <3>1. Strangers \in SUBSET Pods
      BY DEF TypeOK, Strangers, Unlabelled
    <3>2. Cardinality(Strangers) \in Nat
      BY <3>1, PodCounts, FS_CardinalityType
    <3> QED
      BY <3>2, FloorType DEF Floor
  <2>5. Floor(r)' = Floor(r)
    BY <1>1, <1>4 DEF Floor, Strangers, Unlabelled
  <2>6. Cardinality(InService') >= Floor(r)'
    BY <2>1, <2>3, <2>4, <2>5
  <2> QED
    BY <1>2, <2>6
<1> QED
  BY <1>3, <1>4

\* However many runs kill however often, of which some are half-done or not
\* recorded, and however old the pods and the statuses they see: the kills leave
\* as many TaskManagers as one of the runs asks for, but for the pods it names
\* beyond its count and those that were not there when they were counted
\* (checkMinTaskManagersRemaining).
THEOREM EnoughTaskManagersStay ==
  ASSUME EnoughAtFirst
  PROVE  Spec => []TaskManagersStay
<1>1. Init => TaskManagersStay
  <2> SUFFICES ASSUME Init PROVE TaskManagersStay
    OBVIOUS
  <2>1. TypeOK
    BY InitTypeOK
  <2>2. InService = {p \in InitialPods : Role[p] = "taskmanager"}
    BY ConstantsAssumption DEF Init, Eligible, InService
  <2>3. PICK r \in Runs : Cardinality(InService) >= spec[r].minTaskManagersRemaining
    <3>1. spec \in Specs
      BY DEF Init
    <3>2. \E r \in Runs :
            Cardinality({p \in InitialPods : Role[p] = "taskmanager"})
              >= spec[r].minTaskManagersRemaining
      BY <3>1, EnoughAtFirst, Zenon DEF EnoughAtFirst
    <3> QED
      BY <2>2, <3>2
  <2>4. InService \in SUBSET Pods /\ Strangers \in SUBSET Pods
    BY <2>1 DEF InService, Eligible, Strangers, Unlabelled, TypeOK
  <2>5. Cardinality(InService) \in Nat /\ Cardinality(Strangers) \in Nat
    BY <2>4, PodCounts, FS_CardinalityType
  <2>6. Cardinality(InService) >= Floor(r)
    BY <2>1, <2>3, <2>5, FloorType DEF Floor
  <2> QED
    BY <2>6 DEF TaskManagersStay, InService, Floor, Strangers
<1>2. TypeOK /\ TaskManagersStay /\ [Next]_vars => TaskManagersStay'
  BY EnoughStay
<1> QED
  BY <1>1, <1>2, TypeCorrect, PTL DEF Spec

-----------------------------------------------------------------------------
(* The runs that disrupt the workload at a time. *)

Limit(r) == spec[r].maxConcurrentRunsPerTarget

\* The runs that disrupt a target or are about to.
Claimed(name) ==
  {r \in Runs : \/ r \in Disrupting(name)
                \/ work # NoWork /\ work.run = r /\ work.target.logicalName = name}

\* The limit holds of any of these runs, so that it still does when some of them
\* end.
GroupsWithinLimit ==
  \A name \in TargetNames \ {""} : \A S \in SUBSET Claimed(name) :
    S # {} => \E r \in S : Cardinality(S) <= Limit(r) + stale

RecordedTargets ==
  /\ \A r \in Runs : runs[r].target \in {"", LogicalName(spec[r])}
  /\ work # NoWork => work.target.logicalName = LogicalName(spec[work.run])

\* A run that is admitted allows itself.
LimitsAllowOne ==
  /\ \A r \in Runs : runs[r].target # "" => Limit(r) > 0
  /\ work # NoWork => Limit(work.run) > 0

LimitInv == GroupsWithinLimit /\ RecordedTargets /\ LimitsAllowOne

LEMMA RunSets ==
  \A S \in SUBSET Runs : IsFiniteSet(S) /\ Cardinality(S) \in Nat
<1>1. IsFiniteSet(Runs)
  BY ConstantsAssumption
<1> QED
  BY <1>1, FS_Subset, FS_CardinalityType

LEMMA LimitType ==
  ASSUME TypeOK, NEW r \in Runs
  PROVE  Limit(r) \in Int
BY SpecOfRun DEF Limit, RunSpec

\* No more runs, and no fewer outdated reads.
\* Room does not shrink with outdated reads.
LEMMA MoreRoom ==
  ASSUME NEW n \in Nat, NEW limit \in Int, NEW k \in Nat, NEW m \in {k, k + 1},
         n <= limit + k
  PROVE  n <= limit + m
OBVIOUS

LEMMA Between ==
  ASSUME NEW a \in Nat, NEW b \in Nat, NEW c \in Int, a <= b, b < c
  PROVE  a < c
OBVIOUS

\* Of a group that is one run larger than another that fits.
LEMMA RoomForOneMore ==
  ASSUME NEW n \in Nat, NEW rest \in Nat, rest = n - 1, NEW limit \in Int,
         NEW k \in Nat, NEW m,
         \/ m = k + 1 /\ rest = 0 /\ limit > 0
         \/ m = k + 1 /\ rest <= limit + k
         \/ m = k /\ rest < limit
  PROVE  n <= limit + m
OBVIOUS

LEMMA GroupsShrink ==
  ASSUME TypeOK, GroupsWithinLimit, UNCHANGED spec, stale' \in {stale, stale + 1},
         \A name \in TargetNames \ {""} : Claimed(name)' \subseteq Claimed(name)
  PROVE  GroupsWithinLimit'
<1> SUFFICES ASSUME NEW name \in TargetNames \ {""}, NEW S \in SUBSET Claimed(name)',
                    S # {}
             PROVE  \E r \in S : Cardinality(S) <= Limit(r) + stale'
  BY DEF GroupsWithinLimit, Limit
<1>1. S \in SUBSET Claimed(name) /\ S \in SUBSET Runs
  BY DEF Claimed
<1>2. PICK r \in S : Cardinality(S) <= Limit(r) + stale
  BY <1>1 DEF GroupsWithinLimit
<1>3. Limit(r) \in Int /\ Cardinality(S) \in Nat /\ stale \in Nat
  BY <1>1, LimitType, RunSets, StaleBound
<1>4. Cardinality(S) <= Limit(r) + stale'
  BY <1>2, <1>3, MoreRoom
<1> QED
  BY <1>4

\* One more run may disrupt a target if there is room for it, or if outdated
\* runs were read.
LEMMA GroupsGrow ==
  ASSUME TypeOK, GroupsWithinLimit, UNCHANGED spec, NEW w \in Runs, Limit(w) > 0,
         \A name \in TargetNames \ {""} : Claimed(name)' \subseteq Claimed(name) \cup {w},
         \/ stale' = stale + 1
         \/ /\ stale' = stale
            /\ \A name \in TargetNames \ {""} :
                 w \in Claimed(name)' => Cardinality(Claimed(name) \ {w}) < Limit(w)
  PROVE  GroupsWithinLimit'
<1> SUFFICES ASSUME NEW name \in TargetNames \ {""}, NEW S \in SUBSET Claimed(name)',
                    S # {}
             PROVE  \E r \in S : Cardinality(S) <= Limit(r) + stale'
  BY DEF GroupsWithinLimit, Limit
<1>1. S \in SUBSET Runs /\ S \ {w} \in SUBSET Claimed(name)
  BY DEF Claimed
<1>2. /\ \A r \in Runs : Limit(r) \in Int
      /\ stale \in Nat /\ Cardinality(S) \in Nat /\ Cardinality(S \ {w}) \in Nat
  BY <1>1, LimitType, RunSets, StaleBound
<1>3. CASE w \notin S
  <2>1. PICK r \in S : Cardinality(S) <= Limit(r) + stale
    BY <1>1, <1>3 DEF GroupsWithinLimit
  <2>2. r \in Runs /\ Cardinality(S) <= Limit(r) + stale'
    BY <1>1, <1>2, <2>1, MoreRoom
  <2> QED
    BY <2>2
<1>4. CASE w \in S
  <2>1. Cardinality(S \ {w}) = Cardinality(S) - 1
    BY <1>1, <1>4, RunSets, FS_RemoveElement
  <2>2. CASE stale' = stale + 1 /\ S \ {w} = {}
    <3>1. Cardinality(S \ {w}) = 0
      BY <2>2, FS_EmptySet
    <3>2. Cardinality(S) <= Limit(w) + stale'
      BY <1>2, <2>1, <2>2, <3>1, RoomForOneMore
    <3> QED
      BY <1>4, <3>2
  <2>3. CASE stale' = stale + 1 /\ S \ {w} # {}
    <3>1. PICK r \in S \ {w} : Cardinality(S \ {w}) <= Limit(r) + stale
      BY <1>1, <2>3 DEF GroupsWithinLimit
    <3>2. r \in Runs /\ Cardinality(S) <= Limit(r) + stale'
      BY <1>1, <1>2, <2>1, <2>3, <3>1, RoomForOneMore
    <3> QED
      BY <3>2
  <2>4. CASE stale' = stale
             /\ Cardinality(Claimed(name) \ {w}) < Limit(w)
    <3>1. S \ {w} \subseteq Claimed(name) \ {w} /\ Claimed(name) \ {w} \in SUBSET Runs
      BY <1>1 DEF Claimed
    <3>2. Cardinality(S \ {w}) <= Cardinality(Claimed(name) \ {w})
          /\ Cardinality(Claimed(name) \ {w}) \in Nat
      BY <3>1, RunSets, FS_Subset
    <3>3. Cardinality(S \ {w}) < Limit(w)
      BY <1>2, <2>4, <3>2, Between, Zenon
    <3>4. Cardinality(S) <= Limit(w) + stale'
      BY <1>2, <2>1, <2>4, <3>3, RoomForOneMore
    <3> QED
      BY <1>4, <3>4
  <2> QED
    BY <1>4, <2>2, <2>3, <2>4
<1> QED
  BY <1>3, <1>4

\* A reconcile that keeps the target of its run: only one that read outdated
\* runs can revive it.
LEMMA StatusKeepsLimit ==
  ASSUME TypeOK, LimitInv, UNCHANGED <<spec, work>>,
         NEW r \in Runs, NEW phase, Reconciles(r, phase), phase \notin Terminal,
         NEW status, Update(r, status), status.target = runs[r].target
  PROVE  LimitInv'
<1>1. work = NoWork /\ work' = NoWork
  BY DEF Reconciles
<1>2. \A q \in Runs : runs'[q] = IF q = r THEN status ELSE runs[q]
  BY DEF Update, TypeOK
<1>3. \A name \in TargetNames \ {""} :
        Claimed(name)' \subseteq Claimed(name) \cup {r}
  BY <1>1, <1>2 DEF Claimed, Disrupting
<1>4. RecordedTargets' /\ LimitsAllowOne'
  BY <1>1, <1>2 DEF LimitInv, RecordedTargets, LimitsAllowOne, Limit
<1>5. CASE runCache = runs
  <2>1. stale' = stale /\ stale \in Nat /\ runs[r].phase \notin Terminal
    BY <1>5, StaleBound DEF Reconciles
  <2>2. \A name \in TargetNames \ {""} : Claimed(name)' \subseteq Claimed(name)
    BY <1>1, <1>2, <2>1 DEF Claimed, Disrupting
  <2>3. GroupsWithinLimit'
    BY <2>1, <2>2, GroupsShrink DEF LimitInv
  <2> QED
    BY <1>4, <2>3 DEF LimitInv
<1>6. CASE runCache # runs
  <2>1. stale' = stale + 1 /\ stale \in Nat
    BY <1>6, StaleBound
  <2>2. CASE runs[r].target # ""
    <3>1. Limit(r) > 0
      BY <2>2 DEF LimitInv, LimitsAllowOne
    <3>2. GroupsWithinLimit'
      BY <1>3, <2>1, <3>1, GroupsGrow DEF LimitInv
    <3> QED
      BY <1>4, <3>2 DEF LimitInv
  <2>3. CASE runs[r].target = ""
    <3>1. \A name \in TargetNames \ {""} : Claimed(name)' \subseteq Claimed(name)
      BY <1>1, <1>2, <2>3 DEF Claimed, Disrupting
    <3>2. GroupsWithinLimit'
      BY <2>1, <3>1, GroupsShrink DEF LimitInv
    <3> QED
      BY <1>4, <3>2 DEF LimitInv
  <2> QED
    BY <2>2, <2>3
<1> QED
  BY <1>5, <1>6

\* The check that admits an injection: its run allows itself, and if the runs
\* that were read are those there are, leaves room for it.
LEMMA AdmittedLeavesRoom ==
  ASSUME TypeOK, NEW r \in Runs, Admitted(r), work = NoWork
  PROVE  /\ Limit(r) > 0
         /\ runCache = runs =>
              Cardinality(Claimed(LogicalName(spec[r])) \ {r}) < Limit(r)
<1> DEFINE name  == LogicalName(spec[r])
           peers == ActivePeers(r, Resolve(spec[r], podCache), runCache)
<1>1. DOMAIN runCache = Runs /\ Resolve(spec[r], podCache).logicalName = name
  BY SpecOfRun, ResolvedTarget DEF TypeOK
<1>2. peers \in SUBSET Runs
  BY <1>1 DEF ActivePeers
<1>3. Cardinality(peers) < Limit(r)
  BY DEF Admitted, Check, BelowConcurrencyLimit, Limit
<1>4. runCache = runs => Claimed(name) \ {r} = peers
  BY <1>1 DEF ActivePeers, Claimed, Disrupting
<1> HIDE DEF peers
<1>5. Cardinality(peers) \in Nat /\ Limit(r) \in Int
  BY <1>2, RunSets, LimitType
<1> QED
  BY <1>3, <1>4, <1>5

LEMMA LimitInvInductive ==
  ASSUME TypeOK, LimitInv, [Next]_vars
  PROVE  LimitInv'
<1>1. ASSUME NEW r \in Runs, Kill(r) \/ Disrupt(r)
      PROVE  LimitInv'
  <2>1. /\ Admitted(r) /\ work = NoWork /\ Reconciles(r, "Injecting")
        /\ UNCHANGED <<spec, runs>>
    BY <1>1 DEF Kill, Disrupt, Reconciles
  <2>2. work'.run = r /\ work'.target = Resolve(spec[r], podCache)
    BY <1>1 DEF Kill, Disrupt
  <2>3. work'.target.logicalName = LogicalName(spec[r])
    BY <2>2, SpecOfRun, ResolvedTarget
  <2>4. \A name : /\ Claimed(name)' \subseteq Claimed(name) \cup {r}
                  /\ name # LogicalName(spec[r]) => Claimed(name)' \subseteq Claimed(name)
    BY <2>1, <2>2, <2>3 DEF Claimed, Disrupting
  <2>5. Limit(r) > 0
    BY <2>1, AdmittedLeavesRoom
  <2>6. GroupsWithinLimit'
    <3>1. CASE runCache # runs
      <4>1. stale' = stale + 1
        BY <2>1, <3>1, StaleBound
      <4> QED
        BY <2>1, <2>4, <2>5, <4>1, GroupsGrow DEF LimitInv
    <3>2. CASE runCache = runs
      <4>1. stale' = stale
        BY <2>1, <3>2, StaleBound
      <4>2. Cardinality(Claimed(LogicalName(spec[r])) \ {r}) < Limit(r)
        BY <2>1, <3>2, AdmittedLeavesRoom
      <4>3. \A name \in TargetNames \ {""} :
              r \in Claimed(name)' => name = LogicalName(spec[r])
        BY <2>1, <2>4 DEF Claimed, Disrupting, LimitInv, RecordedTargets
      <4> QED
        BY <2>1, <2>4, <2>5, <4>1, <4>2, <4>3, GroupsGrow DEF LimitInv
    <3> QED
      BY <3>1, <3>2
  <2>7. RecordedTargets' /\ LimitsAllowOne'
    BY <2>1, <2>2, <2>3, <2>5 DEF LimitInv, RecordedTargets, LimitsAllowOne, Limit
  <2> QED
    BY <2>6, <2>7 DEF LimitInv
<1>2. ASSUME NEW r \in Runs,
             Reject(r) \/ ResumeObserving(r) \/ Abort(r) \/ CleanedUp(r)
      PROVE  LimitInv'
  <2>1. UNCHANGED <<spec, work>>
    BY <1>2 DEF Reject, ResumeObserving, Abort, CleanedUp
  <2>2. PICK phase : Reconciles(r, phase) /\ phase \notin Terminal
    BY <1>2 DEF Reject, ResumeObserving, Abort, CleanedUp, Terminal
  <2>3. PICK next : Update(r, [runs[r] EXCEPT !.phase = next])
    BY <1>2 DEF Reject, ResumeObserving, Abort, CleanedUp
  <2>4. [runs[r] EXCEPT !.phase = next].target = runs[r].target
    BY DEF TypeOK, RunStatus
  <2> QED
    BY <2>1, <2>2, <2>3, <2>4, StatusKeepsLimit
<1>3. ASSUME NEW r \in Runs, Poll(r) \/ ObservationEnds(r)
      PROVE  LimitInv'
  <2>1. Reconciles(r, "Observing") /\ UNCHANGED <<spec, work>>
    BY <1>3 DEF Poll, ObservationEnds
  <2>2. "Observing" \notin Terminal
    BY DEF Terminal
  <2>3. ASSUME NEW status, Conclude(r, status)
        PROVE  \E next : Update(r, next) /\ next.target = status.target
    <3> DEFINE next == [status EXCEPT
                 !.phase = IF NeedsCleanup(spec[r]) THEN "CleaningUp" ELSE "Completed"]
    <3>1. Update(r, next) /\ next.target = status.target
      BY <2>3 DEF Conclude
    <3> QED
      BY <3>1
  <2>4. \E status : Update(r, status) /\ status.target = runs[r].target
    <3>1. CASE ObservationEnds(r)
      BY <2>3, <3>1 DEF ObservationEnds
    <3>2. CASE Poll(r)
      <4>1. PICK flink \in FlinkAnswers :
              LET seen == Observe(spec[r], runCache[r], podCache, flink)
                  now  == [runs[r] EXCEPT !.replacement = seen.replacement]
              IN  \/ Conclude(r, [now EXCEPT !.recovered = TRUE])
                  \/ Update(r, now)
        BY <3>2 DEF Poll
      <4> DEFINE seen  == Observe(spec[r], runCache[r], podCache, flink)
                 now   == [runs[r] EXCEPT !.replacement = seen.replacement]
                 found == [now EXCEPT !.recovered = TRUE]
      <4> HIDE DEF seen
      <4>2. now.target = runs[r].target /\ found.target = runs[r].target
        OBVIOUS
      <4>3. Conclude(r, found) \/ Update(r, now)
        BY <4>1 DEF seen
      <4> HIDE DEF now, found
      <4> QED
        BY <2>3, <4>2, <4>3
    <3> QED
      BY <1>3, <3>1, <3>2
  <2> QED
    BY <2>1, <2>2, <2>4, StatusKeepsLimit
<1>4. ASSUME RecordInjection \/ RecordFailure \/ TransitionToObserving
      PROVE  LimitInv'
  <2> DEFINE w == work.run
  <2>1. work # NoWork /\ UNCHANGED <<spec, stale>> /\ w \in Runs /\ stale \in Nat
    BY <1>4, Busy, WorkInProgress, StaleBound
    DEF RecordInjection, RecordFailure, TransitionToObserving
  <2>2. PICK status : Update(w, status)
                      /\ status.target \in {runs[w].target, work.target.logicalName}
    <3> DEFINE recorded == [runs[w] EXCEPT
                 !.target = work.target.logicalName, !.injected = work.injected,
                 !.before = Cardinality(work.target.taskManagers)]
               failed   == [runs[w] EXCEPT !.phase = "Failed",
                                             !.target = work.target.logicalName]
               observing == [runs[w] EXCEPT !.phase = "Observing"]
    <3>1. runs[w] \in RunStatus
      BY <2>1, WorkInProgress
    <3>2. /\ recorded.target = work.target.logicalName
          /\ failed.target = work.target.logicalName
          /\ observing.target = runs[w].target
      BY <3>1 DEF RunStatus
    <3>3. Update(w, recorded) \/ Update(w, failed) \/ Update(w, observing)
      BY <1>4 DEF RecordInjection, RecordFailure, TransitionToObserving
    <3> HIDE DEF recorded, failed, observing
    <3> QED
      BY <3>2, <3>3
  <2>3. \A q \in Runs : runs'[q] = IF q = w THEN status ELSE runs[q]
    BY <2>1, <2>2 DEF Update, TypeOK
  <2>4. status.target \in {"", work.target.logicalName}
    BY <2>1, <2>2 DEF LimitInv, RecordedTargets
  <2>5. work' = NoWork \/ (work'.run = w /\ work'.target = work.target)
    BY <1>4, <2>1, WorkInProgress
    DEF RecordInjection, RecordFailure, TransitionToObserving
  <2>6. \A name \in TargetNames \ {""} : Claimed(name)' \subseteq Claimed(name)
    <3> SUFFICES ASSUME NEW name \in TargetNames \ {""}, NEW q \in Claimed(name)'
                 PROVE  q \in Claimed(name)
      OBVIOUS
    <3>1. q \in Runs
      BY DEF Claimed
    <3>2. CASE q = w
      <4>1. status.target = name \/ work.target.logicalName = name
        BY <2>1, <2>3, <2>5, <3>1, <3>2 DEF Claimed, Disrupting
      <4>2. work.target.logicalName = name
        BY <2>4, <4>1
      <4> QED
        BY <2>1, <3>1, <3>2, <4>2 DEF Claimed
    <3>3. CASE q # w
      BY <2>3, <2>5, <3>1, <3>3 DEF Claimed, Disrupting
    <3> QED
      BY <3>2, <3>3
  <2>7. GroupsWithinLimit'
    BY <2>1, <2>6, GroupsShrink DEF LimitInv
  <2>8. RecordedTargets'
    BY <2>1, <2>2, <2>3, <2>5 DEF LimitInv, RecordedTargets
  <2>9. LimitsAllowOne'
    BY <2>1, <2>3, <2>5 DEF LimitInv, LimitsAllowOne, Limit
  <2> QED
    BY <2>7, <2>8, <2>9 DEF LimitInv
<1>5. ASSUME UNCHANGED <<spec, runs, stale>>, work' \in {work, NoWork}
      PROVE  LimitInv'
  <2>1. \A name \in TargetNames \ {""} : Claimed(name)' \subseteq Claimed(name)
    BY <1>5 DEF Claimed, Disrupting
  <2>2. GroupsWithinLimit'
    BY <1>5, <2>1, GroupsShrink, StaleBound DEF LimitInv
  <2>3. RecordedTargets' /\ LimitsAllowOne'
    BY <1>5 DEF LimitInv, RecordedTargets, LimitsAllowOne, Limit
  <2> QED
    BY <2>2, <2>3 DEF LimitInv
<1>6. ASSUME LoseRecord \/ UNCHANGED vars
      PROVE  LimitInv'
  BY <1>5, <1>6 DEF LoseRecord, vars
<1>7. ASSUME NEW r \in Runs, RunEvent(r)
      PROVE  LimitInv'
  BY <1>5, <1>7 DEF RunEvent
<1>8. ASSUME NEW p \in Pods, PodEvent(p) \/ Replace(p) \/ PodReady(p)
      PROVE  LimitInv'
  BY <1>5, <1>8 DEF PodEvent, Replace, PodReady
<1> QED
  BY <1>1, <1>2, <1>3, <1>4, <1>6, <1>7, <1>8 DEF Next

\* However many runs, targets and injections that are repeated or not recorded:
\* no more runs disrupt a target at a time than one of them allows, but for one
\* with every reconcile that saw outdated runs (checkConcurrency).
THEOREM DisruptionsAreLimited == Spec => []DisruptionsWithinLimit
<1>1. Init => LimitInv
  <2> SUFFICES ASSUME Init PROVE LimitInv
    OBVIOUS
  <2>1. (\A r \in Runs : runs[r].target = "") /\ work = NoWork
    BY DEF Init, NewRun
  <2>2. \A name \in TargetNames \ {""} : Claimed(name) = {}
    BY <2>1 DEF Claimed, Disrupting
  <2> QED
    BY <2>1, <2>2 DEF LimitInv, GroupsWithinLimit, RecordedTargets, LimitsAllowOne
<1>2. TypeOK /\ LimitInv /\ [Next]_vars => LimitInv'
  BY LimitInvInductive
<1>3. LimitInv => DisruptionsWithinLimit
  BY DEF LimitInv, GroupsWithinLimit, Claimed, DisruptionsWithinLimit, Limit, Disrupting
<1> QED
  BY <1>1, <1>2, <1>3, TypeCorrect, PTL DEF Spec


-----------------------------------------------------------------------------
(* Recoveries, however old the pods that the observer sees. *)

Out == {p \in Pods : pods[p] = "terminating"}

\* The cache shows a pod only if it is or was there, and on its way out only if
\* it is.
CacheFollows ==
  \A p \in Pods :
    /\ podCache[p] # "absent" => pods[p] # "absent"
    /\ podCache[p] = "terminating" => p \in Out

\* The pods, of those that are TaskManagers for a spec, that the cache has shown.
Known(s) ==
  {p \in Pods : /\ podCache[p] # "absent"
                /\ IF s.type = "PodSelector" THEN Role[p] # "jobmanager"
                                             ELSE Role[p] = "taskmanager"}

\* An injection reaches pods that the cache has shown.
VictimsKnown ==
  /\ \A r \in Runs : runs[r].injected \subseteq Known(spec[r])
  /\ work # NoWork => work.injected \subseteq Known(spec[work.run])

\* The runs whose recovery is reported while a victim is in service, and those
\* of which it may yet be: an injection is recorded of a run that was observed.
Misreported ==
  {r \in Runs :
     \/ runs[r].recovered /\ ~(runs[r].injected \subseteq Out)
     \/ runs[r].recovered /\ runs[r].phase = "Injecting"
     \/ work # NoWork /\ work.run = r /\ runs[r].phase # "Injecting"}

FewMisreported == Cardinality(Misreported) <= stale

RecoveryInv == CacheFollows /\ VictimsKnown /\ FewMisreported

\* The observer that finds a target ready finds none of the injected pods, and
\* they have been there.
LEMMA ReadyWithoutVictims ==
  ASSUME TypeOK, RecoveryInv, NEW r \in Runs, NEW flink,
         Observe(spec[r], runs[r], podCache, flink).ready
  PROVE  runs[r].injected \subseteq Out
<1> DEFINE live == TaskManagers(spec[r], podCache)
           seen == KubernetesObserver(runs[r], Resolve(spec[r], podCache), podCache)
<1>1. seen.ready
  BY DEF Observe, CompositeObserver
<1>2. Resolve(spec[r], podCache).taskManagers = live
  BY SpecOfRun, ResolvedTarget
<1> HIDE DEF live
<1>3. runs[r].injected = {} \/ runs[r].injected \cap live = {}
  BY <1>1, <1>2 DEF KubernetesObserver
<1>4. \A p \in Known(spec[r]) : p \in live \/ p \in Out
  <2> SUFFICES ASSUME NEW p \in Known(spec[r]) PROVE p \in live \/ p \in Out
    OBVIOUS
  <2>1. p \in Pods /\ podCache[p] \in PodStates /\ podCache[p] # "absent"
    BY DEF Known, TypeOK
  <2>2. p \in Eligible(podCache) \/ podCache[p] = "terminating"
    BY <2>1 DEF PodStates, Eligible
  <2>3. p \in Eligible(podCache) => p \in live
    BY DEF Known, TaskManagers, live
  <2> QED
    BY <2>1, <2>2, <2>3 DEF RecoveryInv, CacheFollows
<1>5. runs[r].injected \subseteq Known(spec[r])
  BY DEF RecoveryInv, VictimsKnown
<1> QED
  BY <1>3, <1>4, <1>5

\* Pods that are known remain so, and those that are out stay out.
LEMMA PodsMoveOn ==
  ASSUME TypeOK, CacheFollows, [Next]_vars
  PROVE  /\ CacheFollows' /\ Out \subseteq Out' /\ spec' = spec
         /\ \A r \in Runs : Known(spec[r]) \subseteq Known(spec[r])'
<1>1. CASE UNCHANGED <<spec, pods, podCache>>
  BY <1>1 DEF CacheFollows, Out, Known
<1>2. ASSUME NEW r \in Runs, Kill(r), NEW killed, pods' = Deleted(killed)
      PROVE  CacheFollows' /\ Out \subseteq Out'
  BY <1>2 DEF Kill, Deleted, CacheFollows, Out, TypeOK
<1>3. CASE \E r \in Runs : Kill(r)
  <2>1. PICK r \in Runs : Kill(r)
    BY <1>3
  <2>2. \E killed : pods' = Deleted(killed)
    BY <2>1 DEF Kill
  <2>3. spec' = spec /\ podCache' = podCache
    BY <2>1 DEF Kill
  <2> QED
    BY <1>2, <2>1, <2>2, <2>3 DEF Known
<1>4. CASE \E p \in Pods : PodEvent(p)
  <2>1. PICK p \in Pods : PodEvent(p)
    BY <1>4
  <2>2. /\ UNCHANGED <<spec, pods>>
        /\ podCache' \in [Pods -> PodStates]
        /\ \A q \in Pods : podCache'[q] = IF q = p THEN pods[p] ELSE podCache[q]
    BY <2>1 DEF PodEvent, TypeOK
  <2>3. CacheFollows' /\ Out' = Out
    BY <2>2 DEF CacheFollows, Out
  <2>4. podCache[p] # "absent" => pods[p] # "absent"
    BY DEF CacheFollows
  <2> QED
    BY <2>2, <2>3, <2>4 DEF Known
<1>5. CASE \E p \in Pods : Replace(p) \/ PodReady(p)
  BY <1>5 DEF Replace, PodReady, CacheFollows, Out, Known, TypeOK
<1>6. \/ UNCHANGED <<spec, pods, podCache>>
      \/ \E r \in Runs : Kill(r)
      \/ \E p \in Pods : PodEvent(p) \/ Replace(p) \/ PodReady(p)
  BY DEF Next, vars, Reject, Disrupt, ResumeObserving, Poll, ObservationEnds,
         CleanedUp, Abort, RunEvent, RecordInjection, RecordFailure, LoseRecord,
         TransitionToObserving
<1> QED
  BY <1>1, <1>3, <1>4, <1>5, <1>6

\* A reconcile that read outdated runs adds the run it is about, and no other
\* step adds any.
LEMMA MisreportedGrow ==
  ASSUME TypeOK, FewMisreported, NEW r \in Runs,
         \/ Misreported' \subseteq Misreported /\ stale' = stale
         \/ Misreported' \subseteq Misreported \cup {r} /\ stale' = stale + 1
  PROVE  FewMisreported'
<1>1. Misreported \in SUBSET Runs /\ Misreported' \in SUBSET Runs /\ stale \in Nat
  BY StaleBound DEF Misreported
<1>2. /\ IsFiniteSet(Misreported) /\ Cardinality(Misreported) \in Nat
      /\ IsFiniteSet(Misreported \cup {r}) /\ Cardinality(Misreported') \in Nat
      /\ Cardinality(Misreported \cup {r}) \in Nat
  BY <1>1, RunSets, FS_AddElement
<1>3. Cardinality(Misreported \cup {r}) <= Cardinality(Misreported) + 1
  BY <1>2, FS_AddElement
<1>4. \/ Cardinality(Misreported') <= Cardinality(Misreported) /\ stale' = stale
      \/ /\ Cardinality(Misreported') <= Cardinality(Misreported \cup {r})
         /\ stale' = stale + 1
  BY <1>2, FS_Subset
<1> QED
  BY <1>1, <1>2, <1>3, <1>4 DEF FewMisreported

\* A step that changes one status, and neither its victims nor, unless outdated
\* runs were read, its innocence.
LEMMA StatusKeepsRecovery ==
  ASSUME TypeOK, RecoveryInv, [Next]_vars, work' = NoWork,
         NEW r \in Runs, NEW status, Update(r, status),
         status.injected = runs[r].injected,
         \/ stale' = stale + 1
         \/ /\ stale' = stale
            /\ status.phase # "Injecting"
            /\ status.recovered =>
                 \/ runs[r].injected \subseteq Out
                 \/ runs[r].recovered
                 \/ r \in Misreported
  PROVE  RecoveryInv'
<1>1. /\ CacheFollows' /\ Out \subseteq Out' /\ spec' = spec
      /\ \A q \in Runs : Known(spec[q]) \subseteq Known(spec[q])'
  BY PodsMoveOn DEF RecoveryInv
<1>2. \A q \in Runs : runs'[q] = IF q = r THEN status ELSE runs[q]
  BY DEF Update, TypeOK
<1>3. \A q \in Runs : runs'[q].injected = runs[q].injected
  BY <1>2
<1>4. VictimsKnown'
  BY <1>1, <1>3 DEF RecoveryInv, VictimsKnown
<1>5. Misreported' \subseteq Misreported \cup {r}
  BY <1>1, <1>2 DEF Misreported
<1>6. stale' = stale => Misreported' \subseteq Misreported
  <2> SUFFICES ASSUME stale' = stale, r \in Misreported' PROVE r \in Misreported
    BY <1>5
  <2>1. stale \in Nat
    BY StaleBound
  <2>2. /\ status.phase # "Injecting"
        /\ status.recovered =>
             runs[r].injected \subseteq Out \/ runs[r].recovered \/ r \in Misreported
    BY <2>1
  <2>3. status.recovered /\ ~(runs[r].injected \subseteq Out)
    BY <1>1, <1>2, <2>2 DEF Misreported
  <2> QED
    BY <2>2, <2>3 DEF Misreported
<1>7. FewMisreported'
  BY <1>5, <1>6, MisreportedGrow DEF RecoveryInv
<1> QED
  BY <1>1, <1>4, <1>7 DEF RecoveryInv

\* A step that leaves the statuses alone.
LEMMA SameStatusesKeepRecovery ==
  ASSUME TypeOK, RecoveryInv, [Next]_vars, runs' = runs, stale' = stale,
         work' \in {work, NoWork}
  PROVE  RecoveryInv'
<1>1. /\ CacheFollows' /\ Out \subseteq Out' /\ spec' = spec
      /\ \A q \in Runs : Known(spec[q]) \subseteq Known(spec[q])'
  BY PodsMoveOn DEF RecoveryInv
<1>2. VictimsKnown'
  BY <1>1, WorkInProgress DEF RecoveryInv, VictimsKnown
<1>3. Misreported' \subseteq Misreported
  BY <1>1 DEF Misreported
<1>4. FewMisreported'
  <2>1. CASE Runs = {}
    <3>1. Misreported' = Misreported
      BY <2>1 DEF Misreported
    <3> QED
      BY <3>1 DEF RecoveryInv, FewMisreported
  <2>2. CASE \E r : r \in Runs
    BY <1>3, <2>2, MisreportedGrow DEF RecoveryInv
  <2> QED
    BY <2>1, <2>2
<1> QED
  BY <1>1, <1>2, <1>4 DEF RecoveryInv

LEMMA RecoveryInvInductive ==
  ASSUME TypeOK, RecoveryInv, [Next]_vars
  PROVE  RecoveryInv'
<1>1. ASSUME NEW r \in Runs, NEW phase, Reconciles(r, phase)
      PROVE  /\ work = NoWork /\ stale \in Nat /\ runs[r] \in RunStatus
             /\ \/ stale' = stale + 1
                \/ stale' = stale /\ runCache = runs /\ runs[r].phase = phase
  BY <1>1, StaleBound DEF Reconciles, TypeOK
<1>2. ASSUME NEW r \in Runs, Kill(r) \/ Disrupt(r)
      PROVE  RecoveryInv'
  <2> DEFINE target == Resolve(spec[r], podCache)
  <2>1. /\ Reconciles(r, "Injecting") /\ runs' = runs
        /\ UNCHANGED <<spec, podCache>>
    BY <1>2 DEF Kill, Disrupt
  <2>2. target.taskManagers \subseteq Known(spec[r])
    <3>1. target.taskManagers = TaskManagers(spec[r], podCache)
      BY SpecOfRun, ResolvedTarget
    <3> QED
      BY <3>1 DEF TaskManagers, Eligible, Known
  <2>3. work'.run = r /\ work'.injected \subseteq Known(spec[r])
    <3>1. CASE Disrupt(r)
      BY <2>2, <3>1 DEF Disrupt
    <3>2. CASE Kill(r)
      <4>1. PICK chosen \in KillSelections(spec[r], target) :
                 \E killed \in SUBSET chosen :
                   /\ killed = {} \/ chosen \subseteq target.taskManagers
                   /\ work'.run = r /\ work'.injected = killed
        BY <3>2 DEF Kill
      <4> QED
        BY <2>2, <4>1
    <3> QED
      BY <1>2, <3>1, <3>2
  <2>4. CacheFollows' /\ Out \subseteq Out'
    BY PodsMoveOn DEF RecoveryInv
  <2>5. VictimsKnown'
    BY <2>1, <2>3 DEF RecoveryInv, VictimsKnown, Known
  <2>6. /\ Misreported' \subseteq Misreported \cup {r}
        /\ runs[r].phase = "Injecting" => Misreported' \subseteq Misreported
    BY <2>1, <2>3, <2>4 DEF Misreported
  <2>7. FewMisreported'
    BY <1>1, <2>1, <2>6, MisreportedGrow DEF RecoveryInv
  <2> QED
    BY <2>4, <2>5, <2>7 DEF RecoveryInv
<1>3. ASSUME RecordInjection
      PROVE  RecoveryInv'
  <2> DEFINE w == work.run
             recorded == [runs[w] EXCEPT
               !.target = work.target.logicalName, !.injected = work.injected,
               !.before = Cardinality(work.target.taskManagers)]
  <2>1. /\ work # NoWork /\ w \in Runs /\ runs[w] \in RunStatus
        /\ work' = [work EXCEPT !.step = "observe"]
        /\ UNCHANGED <<spec, pods, podCache, stale>>
    BY <1>3, Busy, WorkInProgress DEF RecordInjection
  <2>2. /\ recorded.injected = work.injected /\ recorded.phase = runs[w].phase
        /\ recorded.recovered = runs[w].recovered
    BY <2>1 DEF RunStatus
  <2>3. Update(w, recorded)
    BY <1>3 DEF RecordInjection
  <2> HIDE DEF recorded
  <2>4. \A q \in Runs : runs'[q] = IF q = w THEN recorded ELSE runs[q]
    BY <2>1, <2>3 DEF Update, TypeOK
  <2>5. work'.run = w /\ work'.injected = work.injected
    BY <2>1, WorkInProgress
  <2>6. CacheFollows'
    BY PodsMoveOn DEF RecoveryInv
  <2>7. VictimsKnown'
    BY <2>1, <2>2, <2>4, <2>5 DEF RecoveryInv, VictimsKnown, Known
  <2>8. Misreported' \subseteq Misreported
    BY <2>1, <2>2, <2>4, <2>5 DEF Misreported, Out
  <2>9. FewMisreported'
    BY <2>1, <2>8, MisreportedGrow DEF RecoveryInv
  <2> QED
    BY <2>6, <2>7, <2>9 DEF RecoveryInv
<1>4. ASSUME RecordFailure \/ TransitionToObserving
      PROVE  RecoveryInv'
  <2> DEFINE w         == work.run
             failed    == [runs[w] EXCEPT !.phase = "Failed",
                                            !.target = work.target.logicalName]
             observing == [runs[w] EXCEPT !.phase = "Observing"]
  <2>1. w \in Runs /\ runs[w] \in RunStatus /\ work' = NoWork /\ stale' = stale
    BY <1>4, Busy, WorkInProgress DEF RecordFailure, TransitionToObserving
  <2>2. /\ failed.injected = runs[w].injected /\ failed.phase = "Failed"
        /\ failed.recovered = runs[w].recovered
        /\ observing.injected = runs[w].injected /\ observing.phase = "Observing"
        /\ observing.recovered = runs[w].recovered
    BY <2>1 DEF RunStatus
  <2>3. Update(w, failed) \/ Update(w, observing)
    BY <1>4 DEF RecordFailure, TransitionToObserving
  <2> HIDE DEF failed, observing
  <2> QED
    BY <2>1, <2>2, <2>3, StatusKeepsRecovery
<1>5. ASSUME NEW r \in Runs,
             Reject(r) \/ ResumeObserving(r) \/ CleanedUp(r) \/ Abort(r)
      PROVE  RecoveryInv'
  <2>1. PICK from : Reconciles(r, from)
    BY <1>5 DEF Reject, ResumeObserving, CleanedUp, Abort
  <2>2. work' = NoWork /\ stale' \in {stale, stale + 1}
    BY <1>1, <1>5, <2>1 DEF Reject, ResumeObserving, CleanedUp, Abort
  <2>3. PICK phase : phase # "Injecting" /\ Update(r, [runs[r] EXCEPT !.phase = phase])
    BY <1>5 DEF Reject, ResumeObserving, CleanedUp, Abort, Terminal
  <2> DEFINE status == [runs[r] EXCEPT !.phase = phase]
  <2>4. /\ status.injected = runs[r].injected /\ status.phase = phase
        /\ status.recovered = runs[r].recovered
    BY DEF TypeOK, RunStatus
  <2>5. Update(r, status)
    BY <2>3
  <2> HIDE DEF status
  <2> QED
    BY <2>2, <2>3, <2>4, <2>5, StatusKeepsRecovery
<1>6. ASSUME NEW r \in Runs, NEW status \in RunStatus, Conclude(r, status),
             work' = NoWork, status.injected = runs[r].injected,
             \/ stale' = stale + 1
             \/ /\ stale' = stale
                /\ status.recovered =>
                     runs[r].injected \subseteq Out \/ runs[r].recovered
      PROVE  RecoveryInv'
  <2> DEFINE next == [status EXCEPT
               !.phase = IF NeedsCleanup(spec[r]) THEN "CleaningUp" ELSE "Completed"]
  <2>1. /\ next.injected = status.injected /\ next.recovered = status.recovered
        /\ next.phase # "Injecting"
    BY DEF RunStatus
  <2>2. Update(r, next)
    BY <1>6 DEF Conclude
  <2> HIDE DEF next
  <2> QED
    BY <1>6, <2>1, <2>2, StatusKeepsRecovery
<1>7. ASSUME NEW r \in Runs, ObservationEnds(r)
      PROVE  RecoveryInv'
  <2>1. Reconciles(r, "Observing") /\ Conclude(r, runs[r]) /\ work' = work
    BY <1>7 DEF ObservationEnds
  <2>2. /\ work' = NoWork /\ runs[r] \in RunStatus
        /\ stale' = stale \/ stale' = stale + 1
    BY <1>1, <2>1
  <2> QED
    BY <1>6, <2>1, <2>2
<1>8. ASSUME NEW r \in Runs, Poll(r)
      PROVE  RecoveryInv'
  <2>1. /\ work' = NoWork /\ runs[r] \in RunStatus
        /\ \/ stale' = stale + 1
           \/ stale' = stale /\ runCache = runs /\ runs[r].phase = "Observing"
    BY <1>1, <1>8 DEF Poll
  <2>2. PICK flink \in FlinkAnswers :
          LET seen == Observe(spec[r], runCache[r], podCache, flink)
              now  == [runs[r] EXCEPT !.replacement = seen.replacement]
          IN  \/ seen.ready /\ Conclude(r, [now EXCEPT !.recovered = TRUE])
              \/ Update(r, now)
    BY <1>8 DEF Poll
  <2> DEFINE seen  == Observe(spec[r], runCache[r], podCache, flink)
             now   == [runs[r] EXCEPT !.replacement = seen.replacement]
             found == [now EXCEPT !.recovered = TRUE]
  <2>3. seen.replacement \in BOOLEAN
    BY ObservedVerdict
  <2>4. runCache = runs /\ seen.ready => runs[r].injected \subseteq Out
    BY ReadyWithoutVictims
  <2>5. (seen.ready /\ Conclude(r, found)) \/ Update(r, now)
    BY <2>2
  <2> HIDE DEF seen
  <2>6. /\ found \in RunStatus /\ found.injected = runs[r].injected
        /\ now.injected = runs[r].injected /\ now.recovered = runs[r].recovered
        /\ now.phase = runs[r].phase
    BY <2>1, <2>3 DEF RunStatus
  <2> HIDE DEF now, found
  <2>7. CASE seen.ready /\ Conclude(r, found)
    BY <1>6, <2>1, <2>4, <2>6, <2>7
  <2>8. CASE Update(r, now)
    BY <2>1, <2>6, <2>8, StatusKeepsRecovery
  <2> QED
    BY <2>5, <2>7, <2>8
<1>9. ASSUME LoseRecord \/ UNCHANGED vars
      PROVE  RecoveryInv'
  BY <1>9, SameStatusesKeepRecovery DEF LoseRecord, vars
<1>10. ASSUME NEW r \in Runs, RunEvent(r)
       PROVE  RecoveryInv'
  BY <1>10, SameStatusesKeepRecovery DEF RunEvent
<1>11. ASSUME NEW p \in Pods, PodEvent(p) \/ Replace(p) \/ PodReady(p)
       PROVE  RecoveryInv'
  BY <1>11, SameStatusesKeepRecovery DEF PodEvent, Replace, PodReady
<1> QED
  BY <1>2, <1>3, <1>4, <1>5, <1>7, <1>8, <1>9, <1>10, <1>11 DEF Next

\* However old the pods that the observers see: no more runs are reported as
\* recovered while a pod they disrupted is in service than there were reconciles
\* that read outdated statuses (KubernetesObserver compares the names of the
\* injected pods with the target).
THEOREM RecoveriesLeaveNoVictim == Spec => []RecoveryOnlyWithoutVictims
<1>1. Init => RecoveryInv
  <2> SUFFICES ASSUME Init PROVE RecoveryInv
    OBVIOUS
  <2>1. /\ \A r \in Runs : runs[r].injected = {} /\ ~runs[r].recovered
        /\ work = NoWork /\ stale = 0
    BY DEF Init, NewRun
  <2>2. CacheFollows
    BY DEF Init, CacheFollows, Out
  <2>3. Misreported = {}
    BY <2>1 DEF Misreported
  <2>4. FewMisreported
    BY <2>1, <2>3, FS_EmptySet DEF FewMisreported
  <2> QED
    BY <2>1, <2>2, <2>4 DEF RecoveryInv, VictimsKnown
<1>2. TypeOK /\ RecoveryInv /\ [Next]_vars => RecoveryInv'
  BY RecoveryInvInductive
<1>3. TypeOK /\ RecoveryInv => RecoveryOnlyWithoutVictims
  <2> SUFFICES ASSUME TypeOK, RecoveryInv PROVE RecoveryOnlyWithoutVictims
    OBVIOUS
  <2> DEFINE reported == {r \in Runs : /\ runs[r].recovered
                                       /\ runs[r].injected \cap Eligible(pods) # {}}
  <2>1. reported \subseteq Misreported /\ Misreported \in SUBSET Runs
    BY DEF Misreported, Eligible, Out
  <2>2. Cardinality(reported) <= Cardinality(Misreported)
    BY <2>1, RunSets, FS_Subset
  <2>3. /\ Cardinality(reported) \in Nat /\ Cardinality(Misreported) \in Nat
        /\ stale \in Nat
    BY <2>1, RunSets, StaleBound
  <2> QED
    BY <2>2, <2>3 DEF RecoveryInv, FewMisreported, RecoveryOnlyWithoutVictims
<1> QED
  BY <1>1, <1>2, <1>3, TypeCorrect, PTL DEF Spec

-----------------------------------------------------------------------------
(* The victims of the kills. *)

Kills(r) == ~NeedsCleanup(spec[r])

\* The pods that a kill claims are out, and if another kill has claimed them, they
\* were when this one did.
WorkClaims ==
  work # NoWork /\ Kills(work.run) =>
    /\ work.injected \subseteq Out
    /\ \A s \in Runs \ {work.run} :
         Kills(s) => work.injected \cap runs[s].injected \subseteq ghosts

VictimsOut == \A r \in Runs : Kills(r) => runs[r].injected \subseteq Out

ClaimsInv == VictimsAreDisjoint /\ WorkClaims /\ VictimsOut

\* A step that records no injection and makes none.
LEMMA SameVictims ==
  ASSUME ClaimsInv, Out \subseteq Out', UNCHANGED <<spec, ghosts>>,
         work' \in {work, NoWork},
         \A r \in Runs : runs'[r].injected = runs[r].injected
  PROVE  ClaimsInv'
<1>1. \A r : Kills(r)' = Kills(r)
  BY DEF Kills, NeedsCleanup
<1>2. VictimsAreDisjoint'
  BY DEF ClaimsInv, VictimsAreDisjoint, NeedsCleanup
<1>3. WorkClaims' /\ VictimsOut'
  BY <1>1, WorkInProgress DEF ClaimsInv, WorkClaims, VictimsOut
<1> QED
  BY <1>2, <1>3 DEF ClaimsInv

\* A status that is not that of an injection.
LEMMA SameVictimsOfOne ==
  ASSUME TypeOK, ClaimsInv, Out \subseteq Out', UNCHANGED <<spec, ghosts>>,
         work' \in {work, NoWork}, NEW r \in Runs, NEW status, Update(r, status),
         status.injected = runs[r].injected
  PROVE  ClaimsInv'
<1>1. \A q \in Runs : runs'[q].injected = runs[q].injected
  BY DEF Update, TypeOK
<1> QED
  BY <1>1, SameVictims

LEMMA ClaimsInvInductive ==
  ASSUME TypeOK, CacheFollows, ClaimsInv, [Next]_vars
  PROVE  ClaimsInv'
<1>1. Out \subseteq Out' /\ spec' = spec
  BY PodsMoveOn
<1>2. ASSUME NEW r \in Runs, Kill(r)
      PROVE  ClaimsInv'
  <2> DEFINE target == Resolve(spec[r], podCache)
  <2>1. runs' = runs /\ target.taskManagers = TaskManagers(spec[r], podCache)
    BY <1>2, SpecOfRun, ResolvedTarget DEF Kill
  <2>2. PICK chosen \in KillSelections(spec[r], target) :
             \E killed \in SUBSET chosen :
               /\ killed = {} \/ chosen \subseteq target.taskManagers
               /\ pods' = Deleted(killed)
               /\ ghosts' = ghosts \cup (target.taskManagers \ Eligible(pods))
               /\ work'.run = r /\ work'.injected = killed
    BY <1>2 DEF Kill
  <2>3. PICK killed \in SUBSET chosen :
               /\ killed = {} \/ chosen \subseteq target.taskManagers
               /\ pods' = Deleted(killed)
               /\ ghosts' = ghosts \cup (target.taskManagers \ Eligible(pods))
               /\ work'.run = r /\ work'.injected = killed
    BY <2>2
  <2>4. killed \subseteq target.taskManagers
    BY <2>3
  <2>5. killed \cap Out \subseteq ghosts' /\ killed \subseteq Out'
    <3>1. \A p \in killed : p \in Pods /\ podCache[p] \in {"pending", "ready"}
      BY <2>1, <2>4 DEF TaskManagers, Eligible
    <3>2. \A p \in killed : pods[p] \in {"pending", "ready", "terminating"}
      BY <3>1 DEF CacheFollows, TypeOK, PodStates
    <3>3. \A p \in killed : pods'[p] = "terminating"
      BY <2>3, <3>1, <3>2 DEF Deleted
    <3>4. Out \cap Eligible(pods) = {}
      BY DEF Out, Eligible
    <3> QED
      BY <2>3, <2>4, <3>1, <3>3, <3>4 DEF Out
  <2>6. \A q : Kills(q)' = Kills(q)
    BY <1>1 DEF Kills, NeedsCleanup
  <2>7. ghosts \subseteq ghosts'
    BY <2>3
  <2>8. VictimsAreDisjoint' /\ VictimsOut'
    BY <1>1, <2>1, <2>6, <2>7
    DEF ClaimsInv, VictimsAreDisjoint, NeedsCleanup, VictimsOut
  <2>9. WorkClaims'
    BY <2>1, <2>3, <2>5, <2>6 DEF ClaimsInv, WorkClaims, VictimsOut
  <2> QED
    BY <2>8, <2>9 DEF ClaimsInv
<1>3. ASSUME NEW r \in Runs, Disrupt(r)
      PROVE  ClaimsInv'
  <2>1. UNCHANGED <<runs, ghosts>> /\ work'.run = r /\ ~Kills(r)
    BY <1>3 DEF Disrupt, Kills
  <2>2. \A q : Kills(q)' = Kills(q)
    BY <1>1 DEF Kills, NeedsCleanup
  <2>3. VictimsAreDisjoint' /\ VictimsOut'
    BY <1>1, <2>1, <2>2
    DEF ClaimsInv, VictimsAreDisjoint, NeedsCleanup, VictimsOut
  <2>4. WorkClaims'
    BY <2>1, <2>2 DEF WorkClaims
  <2> QED
    BY <2>3, <2>4 DEF ClaimsInv
<1>4. ASSUME RecordInjection
      PROVE  ClaimsInv'
  <2> DEFINE w == work.run
             recorded == [runs[w] EXCEPT
               !.target = work.target.logicalName, !.injected = work.injected,
               !.before = Cardinality(work.target.taskManagers)]
  <2>1. work # NoWork /\ w \in Runs /\ runs[w] \in RunStatus /\ ghosts' = ghosts
    BY <1>4, Busy, WorkInProgress DEF RecordInjection
  <2>2. recorded.injected = work.injected /\ Update(w, recorded)
    BY <1>4, <2>1 DEF RecordInjection, RunStatus
  <2> HIDE DEF recorded
  <2>3. \A q \in Runs : runs'[q].injected = IF q = w THEN work.injected
                                                     ELSE runs[q].injected
    BY <2>1, <2>2 DEF Update, TypeOK
  <2>4. work' # NoWork /\ work'.run = w /\ work'.injected = work.injected
    <3>1. work' = [work EXCEPT !.step = "observe"]
      BY <1>4 DEF RecordInjection
    <3>2. work'.step = "observe" /\ work'.run = w /\ work'.injected = work.injected
      BY <2>1, <3>1, WorkInProgress
    <3> QED
      BY <3>2 DEF NoWork
  <2>5. \A q : Kills(q)' = Kills(q)
    BY <1>1 DEF Kills, NeedsCleanup
  <2>6. VictimsOut'
    BY <1>1, <2>1, <2>3, <2>5 DEF ClaimsInv, VictimsOut, WorkClaims
  <2>7. WorkClaims'
    BY <1>1, <2>1, <2>3, <2>4, <2>5 DEF ClaimsInv, WorkClaims
  <2>8. VictimsAreDisjoint'
    <3> SUFFICES ASSUME NEW q \in Runs, NEW s \in Runs, q # s, Kills(q), Kills(s)
                 PROVE  runs'[q].injected \cap runs'[s].injected \subseteq ghosts
      BY <1>1, <2>1 DEF VictimsAreDisjoint, Kills, NeedsCleanup
    <3>1. CASE w \in {q, s}
      BY <2>1, <2>3, <3>1 DEF ClaimsInv, WorkClaims
    <3>2. CASE w \notin {q, s}
      BY <2>3, <3>2 DEF ClaimsInv, VictimsAreDisjoint, Kills
    <3> QED
      BY <3>1, <3>2
  <2> QED
    BY <2>6, <2>7, <2>8 DEF ClaimsInv
<1>5. ASSUME RecordFailure \/ TransitionToObserving
      PROVE  ClaimsInv'
  <2> DEFINE w         == work.run
             failed    == [runs[w] EXCEPT !.phase = "Failed",
                                            !.target = work.target.logicalName]
             observing == [runs[w] EXCEPT !.phase = "Observing"]
  <2>1. w \in Runs /\ runs[w] \in RunStatus /\ work' = NoWork /\ ghosts' = ghosts
    BY <1>5, Busy, WorkInProgress DEF RecordFailure, TransitionToObserving
  <2>2. failed.injected = runs[w].injected /\ observing.injected = runs[w].injected
    BY <2>1 DEF RunStatus
  <2>3. Update(w, failed) \/ Update(w, observing)
    BY <1>5 DEF RecordFailure, TransitionToObserving
  <2> HIDE DEF failed, observing
  <2> QED
    BY <1>1, <2>1, <2>2, <2>3, SameVictimsOfOne
<1>6. ASSUME NEW r \in Runs,
             Reject(r) \/ ResumeObserving(r) \/ CleanedUp(r) \/ Abort(r)
      PROVE  ClaimsInv'
  <2>1. UNCHANGED <<work, ghosts>>
    BY <1>6 DEF Reject, ResumeObserving, CleanedUp, Abort
  <2>2. PICK phase : Update(r, [runs[r] EXCEPT !.phase = phase])
    BY <1>6 DEF Reject, ResumeObserving, CleanedUp, Abort
  <2>3. [runs[r] EXCEPT !.phase = phase].injected = runs[r].injected
    BY DEF TypeOK, RunStatus
  <2> QED
    BY <1>1, <2>1, <2>2, <2>3, SameVictimsOfOne
<1>7. ASSUME NEW r \in Runs, NEW status, Conclude(r, status),
             UNCHANGED <<work, ghosts>>, status.injected = runs[r].injected
      PROVE  ClaimsInv'
  <2> DEFINE next == [status EXCEPT
               !.phase = IF NeedsCleanup(spec[r]) THEN "CleaningUp" ELSE "Completed"]
  <2>1. next.injected = status.injected /\ Update(r, next)
    BY <1>7 DEF Conclude
  <2> HIDE DEF next
  <2> QED
    BY <1>1, <1>7, <2>1, SameVictimsOfOne
<1>8. ASSUME NEW r \in Runs, ObservationEnds(r)
      PROVE  ClaimsInv'
  BY <1>7, <1>8 DEF ObservationEnds
<1>9. ASSUME NEW r \in Runs, Poll(r)
      PROVE  ClaimsInv'
  <2>1. PICK flink \in FlinkAnswers :
          LET seen == Observe(spec[r], runCache[r], podCache, flink)
              now  == [runs[r] EXCEPT !.replacement = seen.replacement]
          IN  \/ Conclude(r, [now EXCEPT !.recovered = TRUE])
              \/ Update(r, now)
    BY <1>9 DEF Poll
  <2> DEFINE seen  == Observe(spec[r], runCache[r], podCache, flink)
             now   == [runs[r] EXCEPT !.replacement = seen.replacement]
             found == [now EXCEPT !.recovered = TRUE]
  <2>2. Conclude(r, found) \/ Update(r, now)
    BY <2>1
  <2> HIDE DEF seen
  <2>3. found.injected = runs[r].injected /\ now.injected = runs[r].injected
    BY DEF TypeOK, RunStatus
  <2>4. UNCHANGED <<work, ghosts>>
    BY <1>9 DEF Poll
  <2> HIDE DEF now, found
  <2> QED
    BY <1>1, <1>7, <2>2, <2>3, <2>4, SameVictimsOfOne
<1>10. ASSUME LoseRecord \/ UNCHANGED vars
       PROVE  ClaimsInv'
  BY <1>1, <1>10, SameVictims DEF LoseRecord, vars
<1>11. ASSUME NEW r \in Runs, RunEvent(r)
       PROVE  ClaimsInv'
  BY <1>1, <1>11, SameVictims DEF RunEvent
<1>12. ASSUME NEW p \in Pods,
              \/ PodEvent(p) \/ Replace(p) \/ PodReady(p)
       PROVE  ClaimsInv'
  BY <1>1, <1>12, SameVictims
  DEF PodEvent, Replace, PodReady
<1> QED
  BY <1>2, <1>3, <1>4, <1>5, <1>6, <1>8, <1>9, <1>10, <1>11, <1>12 DEF Next

\* However often injections are repeated, by how many runs, and however old the
\* statuses they read: a pod that is recorded as the victim of two kills is one
\* that a kill saw though it was on its way out (IsPodEligible).
THEOREM NoPodIsKilledTwice == Spec => []VictimsAreDisjoint
<1>1. Init => CacheFollows /\ ClaimsInv
  <2> SUFFICES ASSUME Init PROVE CacheFollows /\ ClaimsInv
    OBVIOUS
  <2>1. \A r \in Runs : runs[r].injected = {}
    BY DEF Init, NewRun
  <2>2. CacheFollows
    BY DEF Init, CacheFollows, Out
  <2> QED
    BY <2>1, <2>2 DEF Init, ClaimsInv, VictimsAreDisjoint, WorkClaims, VictimsOut
<1>2. TypeOK /\ CacheFollows /\ ClaimsInv /\ [Next]_vars => (CacheFollows /\ ClaimsInv)'
  BY PodsMoveOn, ClaimsInvInductive
<1>3. ClaimsInv => VictimsAreDisjoint
  BY DEF ClaimsInv
<1> QED
  BY <1>1, <1>2, <1>3, TypeCorrect, PTL DEF Spec
=============================================================================
