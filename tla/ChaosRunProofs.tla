---------------------------- MODULE ChaosRunProofs ----------------------------
(***************************************************************************)
(* What holds of the controller for every choice of the constants: any     *)
(* target, any set of specs, any lag of the cache, any number of faults    *)
(* and restarts.                                                           *)
(***************************************************************************)
EXTENDS ChaosRunProperties, TLAPS

-----------------------------------------------------------------------------
(* Lemmas about the operators. *)

\* What is left of a version when a merge patch has been applied is a version.
LEMMA MergeType ==
  ASSUME NEW base \in Run, NEW run \in Run, NEW current \in Run
  PROVE  MergeStatus(base, run, current) \in Run
<1>1. ASSUME NEW S, NEW b, NEW c \in S, NEW x \in S
      PROVE  Changed(b, c, x) \in S
  BY DEF Changed
<1>2. /\ Changed(base.phase, run.phase, current.phase) \in Phases
      /\ Changed(base.verdict, run.verdict, current.verdict) \in Verdicts
      /\ Changed(base.conditions, run.conditions, current.conditions)
           \in SUBSET ConditionTypes
      /\ Changed(base.startedAt, run.startedAt, current.startedAt) \in MaybeTime
      /\ Changed(base.observingAt, run.observingAt, current.observingAt)
           \in MaybeTime
      /\ Changed(base.injected, run.injected, current.injected) \in BOOLEAN
      /\ Changed(base.records, run.records, current.records) \in SUBSET Units
      /\ Changed(base.injectedAt, run.injectedAt, current.injectedAt) \in MaybeTime
      /\ Changed(base.replacement, run.replacement, current.replacement) \in BOOLEAN
      /\ Changed(base.recovered, run.recovered, current.recovered) \in BOOLEAN
  BY <1>1 DEF Run
<1> QED
  BY <1>2 DEF MergeStatus, Run

\* The helpers of phases.go keep a run a run.
LEMMA PhaseHelpersType ==
  ASSUME NEW run \in Run
  PROVE  /\ \A phase \in Phases : TransitionPhase(run, phase) \in Run
         /\ \A verdict \in Verdicts : FinalizeRun(run, verdict) \in Run
         /\ FailRun(run) \in Run
         /\ AbortRun(run) \in Run
         /\ \A type \in ConditionTypes : SetCondition(run, type) \in Run
         /\ \A type \in ConditionTypes : ClearCondition(run, type) \in Run
         /\ WithoutFinalizer(run) \in Run
<1>1. \A phase \in Phases : TransitionPhase(run, phase) \in Run
  BY DEF Run, TransitionPhase
<1>2. {"Completed", "Failed", "Aborted"} \subseteq Phases /\ "Failed" \in Verdicts
  BY DEF Phases, Terminal, Verdicts
<1>3. \A verdict \in Verdicts : FinalizeRun(run, verdict) \in Run
  BY <1>2 DEF Run, FinalizeRun
<1>4. FailRun(run) \in Run
  BY <1>2 DEF Run, FailRun
<1>5. \A type \in ConditionTypes :
        SetCondition(run, type) \in Run /\ ClearCondition(run, type) \in Run
  BY DEF Run, SetCondition, ClearCondition
<1>6. AbortRun(run) \in Run
  BY <1>2 DEF Run, AbortRun, Verdicts
<1>7. WithoutFinalizer(run) \in Run
  BY DEF Run, WithoutFinalizer
<1> QED
  BY <1>1, <1>3, <1>4, <1>5, <1>6, <1>7

\* A write leaves the written version with the server, and either appends it
\* or finds it there already.
LEMMA PushStore ==
  ASSUME store \in Seq(Run), store # <<>>, NEW run \in Run, store' = Push(run)
  PROVE  /\ store' \in Seq(Run) /\ store' # <<>>
         /\ API' = run
         /\ \/ Len(store') > 1
            \/ store' = store /\ run = API
BY DEF Push, API

\* The head and the last of the versions are versions.
LEMMA StoreEnds ==
  ASSUME store \in Seq(Run), store # <<>>
  PROVE  API \in Run /\ Cached \in Run
BY DEF API, Cached

\* A watch event brings the cache nearer to the server, which keeps its version.
LEMMA TailStore ==
  ASSUME store \in Seq(Run), Len(store) > 1, store' = Tail(store)
  PROVE  store' \in Seq(Run) /\ store' # <<>> /\ API' = API
<1>1. store' \in Seq(Run) /\ Len(store') = Len(store) - 1
  OBVIOUS
<1>2. \A i \in 1 .. Len(store) - 1 : store'[i] = store[i + 1]
  OBVIOUS
<1>3. Len(store) \in Nat /\ Len(store) - 1 \in 1 .. Len(store) - 1
  OBVIOUS
<1>4. store'[Len(store) - 1] = store[(Len(store) - 1) + 1]
  BY <1>2, <1>3
<1>5. store' # <<>>
  <2>1. Len(store') \in Nat /\ Len(store') > 0
    BY <1>1, <1>3
  <2> QED
    BY <2>1
<1>6. store'[Len(store')] = store[Len(store)]
  BY <1>1, <1>3, <1>4
<1> QED
  BY <1>1, <1>5, <1>6 DEF API

\* Deadlines are times.
LEMMA TimeType ==
  ASSUME now \in Time
  PROVE  /\ \A d \in Nat : After(d) \in Time
         /\ \A d \in Nat : RequeueAfter(d) \in MaybeTime
         /\ \A d \in Nat \ {0} : RequeueAfter(d) \in Time
         /\ \A t, u \in MaybeTime : Earliest(t, u) \in MaybeTime
         /\ \A t \in MaybeTime, u \in Time : Earliest(t, u) # NoTime
         /\ Time \subseteq MaybeTime /\ NoTime \in MaybeTime /\ NoTime \notin Time
BY MaxTimeAssumption DEF Time, MaybeTime, NoTime, After, RequeueAfter, Earliest

\* The times from which the rest of a held partition is computed.
LEMMA HeldTimes ==
  ASSUME TypeOK
  PROVE  mem.observingAt \in Int /\ now \in Int /\ spec.duration \in Int
<1>1. mem \in Run /\ spec \in RunSpec /\ now \in Time
  BY ConstantsAssumption DEF TypeOK
<1>2. mem.observingAt \in MaybeTime /\ spec.duration \in Nat
  BY <1>1 DEF Run, RunSpec
<1>3. \A t \in MaybeTime : t \in Int
  BY MaxTimeAssumption DEF Time, MaybeTime, NoTime
<1>4. Time \subseteq MaybeTime
  BY DEF MaybeTime
<1> QED
  BY <1>1, <1>2, <1>3, <1>4

LEMMA NewRunType == NewRun \in Run
BY DEF NewRun, Run, Phases, Verdicts, MaybeTime

-----------------------------------------------------------------------------
(* The steps of a reconcile. *)

\* What a call to the API server and the end of a reconcile change.
CallTypeOK ==
  /\ store \in Seq(Run) /\ store # <<>>
  /\ timer \in MaybeTime /\ pc \in Labels /\ mem \in Run
  /\ faults \in 0 .. MaxFaults

\* A reconcile that goes on or ends leaves its state well-typed, and a requeue
\* is not lost.
LEMMA ContinueType ==
  ASSUME TypeOK, NEW run \in Run, NEW next \in Labels, NEW wake \in MaybeTime,
         Continue(run, next, wake)
  PROVE  /\ timer' \in MaybeTime /\ pc' \in Labels /\ mem' \in Run
         /\ pc' = next
         /\ next # "idle" => mem' = run
         /\ wake # NoTime => timer' # NoTime
BY TimeType, NewRunType DEF Continue, TypeOK, MaybeTime

\* An error ends the reconcile and always requeues.
LEMMA FailType ==
  ASSUME TypeOK, Fail
  PROVE  /\ timer' \in MaybeTime /\ pc' \in Labels /\ mem' \in Run
         /\ pc' = "idle" /\ timer' # NoTime
<1>1. now \in MaybeTime /\ now # NoTime
  BY TimeType DEF TypeOK, NoTime
<1>2. "idle" \in Labels
  BY DEF Labels
<1> QED
  BY <1>1, <1>2, ContinueType, NewRunType DEF Fail

\* How a write can end: applied and the reconcile going on with the answer, or
\* an error that requeues, applied or not.
LEMMA WriteOutcome ==
  ASSUME TypeOK, NEW written \in Run, NEW next \in Labels, NEW wake \in MaybeTime,
         Write(written, next, wake)
  PROVE  /\ CallTypeOK'
         /\ \/ /\ API.exists /\ API' = written /\ pc' = next
               /\ next # "idle" => mem' = written
               /\ wake # NoTime => timer' # NoTime
               /\ Len(store') > 1 \/ written = API
            \/ /\ pc' = "idle" /\ timer' # NoTime
               /\ API' \in {API, written}
<1>1. CASE API.exists /\ store' = Push(written) /\ Continue(written, next, wake)
           /\ UNCHANGED faults
  BY <1>1, PushStore, ContinueType DEF TypeOK, CallTypeOK
<1>2. CASE ~API.exists /\ Fail /\ UNCHANGED <<store, faults>>
  BY <1>2, FailType DEF TypeOK, CallTypeOK, API
<1>3. CASE API.exists /\ faults < MaxFaults /\ faults' = faults + 1
           /\ store' \in {store, Push(written)} /\ Fail
  <2>1. faults' \in 0 .. MaxFaults
    BY <1>3, ConstantsAssumption DEF TypeOK
  <2>2. store' \in Seq(Run) /\ store' # <<>> /\ API' \in {API, written}
    BY <1>3, PushStore DEF TypeOK, API
  <2> QED
    BY <1>3, <2>1, <2>2, FailType DEF CallTypeOK
<1> QED
  BY <1>1, <1>2, <1>3 DEF Write

\* The same for a status patch.
LEMMA PatchOutcome ==
  ASSUME TypeOK, NEW run \in Run, NEW next \in Labels, NEW wake \in MaybeTime,
         PatchStatus(run, next, wake)
  PROVE  /\ CallTypeOK'
         /\ \/ /\ API.exists /\ API' = MergeStatus(mem, run, API) /\ pc' = next
               /\ next # "idle" => mem' = API'
               /\ wake # NoTime => timer' # NoTime
               /\ Len(store') > 1 \/ API' = API
            \/ /\ pc' = "idle" /\ timer' # NoTime
               /\ API' \in {API, MergeStatus(mem, run, API)}
<1>1. MergeStatus(mem, run, API) \in Run
  BY MergeType, StoreEnds DEF TypeOK
<1> QED
  BY <1>1, WriteOutcome DEF PatchStatus

\* Counting an end keeps the counter a number.
LEMMA FinishRunType ==
  ASSUME TypeOK, FinishRun
  PROVE  counted' \in Nat
BY DEF TypeOK, FinishRun

\* What a well-typed state offers to every step.
LEMMA TypeFacts ==
  ASSUME TypeOK
  PROVE  /\ spec \in RunSpec /\ API \in Run /\ Cached \in Run /\ mem \in Run
         /\ now \in MaybeTime /\ now # NoTime /\ NoTime \in MaybeTime
         /\ NoResult \in Result
BY StoreEnds, TimeType, ConstantsAssumption
DEF TypeOK, NoResult, Result, NoTime

\* A step of a reconcile that calls the API server, and keeps the rest typed.
LEMMA CallStepType ==
  ASSUME TypeOK, CallTypeOK', Untouched, result' \in Result,
         effect' \in [Units -> Time \cup {NoTime, Starting, Ended}],
         counted' \in Nat
  PROVE  TypeOK'
BY DEF TypeOK, CallTypeOK, Untouched, Result, Time

\* The same when the step changes nothing else.
LEMMA PureCallType ==
  ASSUME TypeOK, CallTypeOK', Untouched, UNCHANGED <<result, effect, counted>>
  PROVE  TypeOK'
BY CallStepType DEF TypeOK

\* Reading the run, aborting it, and everything before an injection.
LEMMA TypeEarlySteps ==
  ASSUME TypeOK,
         \/ ReconcileSkip \/ ReconcileDispatch \/ AbortViaCleaningUp \/ AbortNow
         \/ AbortCounted \/ ValidationFails \/ RecordStart \/ CheckpointStable
         \/ CheckpointCheckFails \/ CheckpointWaitTimeout
         \/ CheckpointNotStable \/ StartInjecting \/ InjectionRejected \/ DryRun
  PROVE  TypeOK'
<1> USE TypeFacts, PhaseHelpersType
<1>1. CASE ReconcileSkip
  BY <1>1 DEF ReconcileSkip, TypeOK
<1>2. CASE ReconcileDispatch
  <2>1. Handler(Cached) \in Labels
    BY <1>2 DEF ReconcileDispatch, Handler, IsTerminal, Run, Phases, Terminal, Labels
  <2>2. stale' \in 0 .. MaxStale
    BY <1>2, ConstantsAssumption DEF ReconcileDispatch, TypeOK
  <2> QED
    BY <1>2, <2>1, <2>2 DEF ReconcileDispatch, TypeOK
<1>3. CASE AbortViaCleaningUp
  <2>1. TransitionPhase(SetCondition(mem, "AbortRequested"), "CleaningUp") \in Run
    BY DEF ConditionTypes, Phases
  <2>2. CallTypeOK'
    BY <1>3, <2>1, PatchOutcome DEF AbortViaCleaningUp, Labels
  <2> QED
    BY <1>3, <2>2, PureCallType DEF AbortViaCleaningUp
<1>4. CASE AbortNow
  <2>1. AbortRun(SetCondition(mem, "AbortRequested")) \in Run
    BY DEF ConditionTypes
  <2>2. CallTypeOK'
    BY <1>4, <2>1, PatchOutcome DEF AbortNow, Labels
  <2> QED
    BY <1>4, <2>2, PureCallType DEF AbortNow
<1>5. CASE AbortCounted
  <2>1. counted' \in Nat
    BY <1>5, FinishRunType DEF AbortCounted
  <2>2. Continue(NewRun, "idle", NoTime) /\ "idle" \in Labels
    BY <1>5 DEF AbortCounted, Labels
  <2>3. timer' \in MaybeTime /\ pc' \in Labels /\ mem' \in Run
    BY <2>2, NewRunType, ContinueType
  <2> QED
    BY <1>5, <2>1, <2>3 DEF AbortCounted, Untouched, TypeOK
<1>6. CASE ValidationFails
  <2>1. CallTypeOK'
    BY <1>6, PatchOutcome DEF ValidationFails, Labels
  <2> QED
    BY <1>6, <2>1, PureCallType DEF ValidationFails
<1>7. CASE RecordStart
  <2>1. [mem EXCEPT !.startedAt = now] \in Run
    BY DEF Run
  <2>2. CallTypeOK'
    BY <1>7, <2>1, PatchOutcome DEF RecordStart, Labels
  <2> QED
    BY <1>7, <2>2, PureCallType DEF RecordStart
<1>8. CASE CheckpointStable
  <2>1. timer' \in MaybeTime /\ pc' \in Labels /\ mem' \in Run
    <3>1. PICK next \in Labels : Continue(mem, next, NoTime)
      BY <1>8 DEF CheckpointStable, Labels
    <3> QED
      BY <3>1, ContinueType
  <2> QED
    BY <1>8, <2>1 DEF CheckpointStable, Untouched, TypeOK
<1>9. CASE CheckpointCheckFails
  BY <1>9, FailType DEF CheckpointCheckFails, Untouched, TypeOK
<1>10. CASE CheckpointWaitTimeout
  <2>1. CallTypeOK'
    BY <1>10, PatchOutcome DEF CheckpointWaitTimeout, Labels
  <2> QED
    BY <1>10, <2>1, PureCallType DEF CheckpointWaitTimeout
<1>11. CASE CheckpointNotStable
  <2>1. RequeueAfter(spec.storedPoll) \in MaybeTime
    BY TimeType DEF TypeOK, RunSpec
  <2>2. CallTypeOK'
    BY <1>11, <2>1, PatchOutcome DEF CheckpointNotStable, Labels
  <2> QED
    BY <1>11, <2>2, PureCallType DEF CheckpointNotStable
<1>12. CASE StartInjecting
  <2>1. TransitionPhase(mem, "Injecting") \in Run
    BY DEF Phases
  <2>2. CallTypeOK'
    BY <1>12, <2>1, PatchOutcome DEF StartInjecting, Labels
  <2> QED
    BY <1>12, <2>2, PureCallType DEF StartInjecting
<1>13. CASE InjectionRejected
  <2>1. CallTypeOK'
    BY <1>13, PatchOutcome DEF InjectionRejected, Labels
  <2> QED
    BY <1>13, <2>1, PureCallType DEF InjectionRejected
<1>14. CASE DryRun
  <2>1. FinalizeRun(mem, "Inconclusive") \in Run
    BY DEF Verdicts
  <2>2. CallTypeOK'
    BY <1>14, <2>1, PatchOutcome DEF DryRun, Labels
  <2> QED
    BY <1>14, <2>2, PureCallType DEF DryRun
<1> QED
  BY <1>1, <1>2, <1>3, <1>4, <1>5, <1>6, <1>7, <1>8, <1>9, <1>10, <1>11, <1>12,
     <1>13, <1>14

Effects == [Units -> Time \cup {NoTime, Starting, Ended}]

\* A disruption begins now or is being started.
LEMMA DisruptType ==
  ASSUME TypeOK, NEW S, Disrupt(S)
  PROVE  effect' \in Effects
BY DEF TypeOK, Disrupt, Effects

\* The driver's Inject and the record of what it did.
LEMMA TypeInjectionSteps ==
  ASSUME TypeOK,
         \/ \E S \in SUBSET Units :
              Inject(S) \/ \E T, D \in SUBSET S : InjectFails(S, T, D)
         \/ RecordInjection \/ RecordFailure \/ AddFinalizer \/ TransitionToObserving
  PROVE  TypeOK'
<1> USE TypeFacts, PhaseHelpersType
<1>1. ASSUME NEW S \in SUBSET Units, Inject(S)
      PROVE  TypeOK'
  <2>1. effect' \in Effects
    BY <1>1, DisruptType DEF Inject, TypeOK, Effects
  <2>2. result' \in Result /\ pc' \in Labels
    BY <1>1 DEF Inject, Result, Labels, Run, TypeOK
  <2> QED
    BY <1>1, <2>1, <2>2 DEF Inject, Untouched, TypeOK, Effects
<1>2. ASSUME NEW S \in SUBSET Units, NEW T \in SUBSET S, NEW D \in SUBSET S,
             InjectFails(S, T, D)
      PROVE  TypeOK'
  <2>1. effect' \in Effects
    BY <1>2, DisruptType DEF InjectFails
  <2>2. result' \in Result /\ pc' \in Labels
    BY <1>2 DEF InjectFails, Result, Labels
  <2>3. faults' \in 0 .. MaxFaults
    BY <1>2, ConstantsAssumption DEF InjectFails, TypeOK
  <2> QED
    BY <1>2, <2>1, <2>2, <2>3 DEF InjectFails, Untouched, TypeOK, Effects
<1>3. CASE RecordInjection
  <2> DEFINE at == IF InContainers(spec.scenario) THEN result.at ELSE NoTime
             units == IF NeedsCleanup(spec.scenario) THEN result.units ELSE {}
  <2>1. at \in MaybeTime /\ units \in SUBSET Units
    BY DEF TypeOK, Result
  <2> HIDE DEF at, units
  <2>2. [mem EXCEPT !.injected = TRUE, !.records = units, !.injectedAt = at] \in Run
    BY <2>1 DEF Run
  <2>3. PatchStatus([mem EXCEPT !.injected = TRUE, !.records = units,
                                !.injectedAt = at], "addFinalizer", NoTime)
    BY <1>3 DEF RecordInjection, at, units
  <2>4. CallTypeOK'
    BY <2>2, <2>3, PatchOutcome DEF Labels
  <2> QED
    BY <1>3, <2>4, CallStepType DEF RecordInjection, TypeOK
<1>4. CASE RecordFailure
  <2> DEFINE partial == [mem EXCEPT !.records = result.units, !.injectedAt = result.at]
  <2>1. partial \in Run
    BY DEF TypeOK, Result, Run
  <2>2. FailRun(partial) \in Run /\ FailRun(mem) \in Run
    BY <2>1
  <2>3. \/ PatchStatus(FailRun(partial), "idle", NoTime)
        \/ PatchStatus(FailRun(mem), "idle", NoTime)
    BY <1>4 DEF RecordFailure
  <2>4. CallTypeOK'
    BY <2>2, <2>3, PatchOutcome DEF Labels
  <2> QED
    BY <1>4, <2>4, CallStepType DEF RecordFailure, TypeOK
<1>5. CASE AddFinalizer
  <2>1. [API EXCEPT !.finalizer = TRUE] \in Run
    BY DEF Run
  <2>2. CallTypeOK'
    BY <1>5, <2>1, WriteOutcome DEF AddFinalizer, Labels
  <2> QED
    BY <1>5, <2>2, PureCallType DEF AddFinalizer
<1>6. CASE TransitionToObserving
  <2>1. [TransitionPhase(mem, "Observing") EXCEPT !.observingAt = now] \in Run
    BY DEF Run, TransitionPhase, Phases
  <2>2. RequeueAfter(IF pc = "Injecting" THEN spec.poll ELSE spec.storedPoll)
          \in MaybeTime
    BY TimeType DEF TypeOK, RunSpec
  <2>3. CallTypeOK'
    BY <1>6, <2>1, <2>2, PatchOutcome DEF TransitionToObserving, Labels
  <2> QED
    BY <1>6, <2>3, PureCallType DEF TransitionToObserving
<1> QED
  BY <1>1, <1>2, <1>3, <1>4, <1>5, <1>6

\* Finishing a run, with or without a cleanup still to come.
LEMMA FinishType ==
  ASSUME TypeOK, NEW verdict \in Verdicts, NEW run \in Run
  PROVE  /\ Finish(verdict, run) => CallTypeOK' /\ counted' \in Nat
         /\ StartCleaningUp(run) => CallTypeOK'
<1>1. FinalizeRun(run, verdict) \in Run /\ TransitionPhase(run, "CleaningUp") \in Run
  BY PhaseHelpersType DEF Phases
<1>2. "idle" \in Labels /\ NoTime \in MaybeTime /\ now \in MaybeTime
  BY TypeFacts DEF Labels
<1> QED
  BY <1>1, <1>2, PatchOutcome, FinishRunType DEF Finish, StartCleaningUp

\* The observation.
LEMMA TypeObservationSteps ==
  ASSUME TypeOK,
         \/ ObservationDisabled \/ ObservationTimeout \/ PartitionElapsed
         \/ PartitionHeld \/ ObservationError
         \/ \E replacement \in BOOLEAN : NotRecovered(replacement)
         \/ RecoveryObserved
  PROVE  TypeOK'
<1> USE TypeFacts
<1>1. CASE ObservationDisabled
  <2>1. CallTypeOK' /\ counted' \in Nat
    BY <1>1, FinishType DEF ObservationDisabled, Verdicts, TypeOK
  <2> QED
    BY <1>1, <2>1, CallStepType DEF ObservationDisabled, TypeOK
<1>2. CASE ObservationTimeout
  <2>1. TimeoutVerdict \in Verdicts
    BY DEF TimeoutVerdict, Verdicts
  <2>2. [mem EXCEPT !.verdict = TimeoutVerdict] \in Run
    BY <2>1 DEF Run
  <2>3. CallTypeOK' /\ counted' \in Nat
    BY <1>2, <2>1, <2>2, FinishType DEF ObservationTimeout, TypeOK
  <2> QED
    BY <1>2, <2>3, CallStepType DEF ObservationTimeout, TypeOK
<1>3. CASE PartitionElapsed
  <2> DEFINE verdict == IF mem.replacement THEN "Passed" ELSE "Inconclusive"
  <2>1. verdict \in Verdicts
    BY DEF Verdicts
  <2>2. [mem EXCEPT !.verdict = verdict] \in Run
    BY <2>1 DEF Run
  <2>3. CallTypeOK'
    BY <1>3, <2>1, <2>2, FinishType DEF PartitionElapsed
  <2> QED
    BY <1>3, <2>3, PureCallType DEF PartitionElapsed
<1>4. CASE PartitionHeld
  <2> DEFINE rest == mem.observingAt + spec.duration - now
  <2>1. rest \in Nat
    <3>1. mem.observingAt \in Int /\ now \in Int /\ spec.duration \in Int
      BY HeldTimes
    <3>2. ~(now - mem.observingAt >= spec.duration)
      BY <1>4 DEF PartitionHeld, Over
    <3> QED
      BY <3>1, <3>2
  <2>2. RequeueAfter(rest) \in MaybeTime
    BY <2>1, TimeType DEF TypeOK
  <2>3. CallTypeOK'
    BY <1>4, <2>2, PatchOutcome DEF PartitionHeld, Labels
  <2> QED
    BY <1>4, <2>3, PureCallType DEF PartitionHeld
<1>5. CASE ObservationError
  <2>1. RequeueAfter(spec.poll) \in MaybeTime /\ "idle" \in Labels
    BY TimeType DEF TypeOK, RunSpec, Labels
  <2>2. timer' \in MaybeTime /\ pc' \in Labels /\ mem' \in Run
    BY <1>5, <2>1, ContinueType DEF ObservationError
  <2> QED
    BY <1>5, <2>2 DEF ObservationError, Untouched, TypeOK
<1>6. ASSUME NEW replacement \in BOOLEAN, NotRecovered(replacement)
      PROVE  TypeOK'
  <2>1. RequeueAfter(spec.poll) \in MaybeTime /\ "idle" \in Labels
    BY TimeType DEF TypeOK, RunSpec, Labels
  <2>2. [mem EXCEPT !.replacement = replacement] \in Run
    BY DEF Run
  <2>3. CallTypeOK'
    BY <1>6, <2>1, <2>2, PatchOutcome DEF NotRecovered
  <2> QED
    BY <1>6, <2>3, PureCallType DEF NotRecovered
<1>7. CASE RecoveryObserved
  <2> DEFINE seen == [mem EXCEPT !.replacement = TRUE, !.recovered = TRUE]
             run == SetCondition(seen, "RecoveryObserved")
  <2>1. seen \in Run
    BY DEF Run
  <2>2. run \in Run
    BY <2>1, PhaseHelpersType DEF ConditionTypes
  <2> HIDE DEF run
  <2>3. \/ StartCleaningUp(run) /\ UNCHANGED counted
        \/ Finish("Passed", run)
    BY <1>7 DEF RecoveryObserved, run
  <2>4. CallTypeOK' /\ counted' \in Nat
    BY <2>2, <2>3, FinishType DEF Verdicts, TypeOK
  <2> QED
    BY <1>7, <2>4, CallStepType DEF RecoveryObserved, TypeOK
<1> QED
  BY <1>1, <1>2, <1>3, <1>4, <1>5, <1>6, <1>7

\* A driver's Cleanup deletes policies or leaves the cluster as it is, and the
\* policies a list did not show are some of the run's.
LEMMA DriverCleanupType ==
  ASSUME TypeOK, NEW left, DriverCleanup(left) \/ DriverCleanupFails(left)
  PROVE  effect' \in Effects /\ unseen' \in SUBSET Units
BY DEF TypeOK, DriverCleanup, DriverCleanupFails, Delete, Effects, InEffect

\* The cleanup, in its own phase or of a run that is deleted.
LEMMA TypeCleanupSteps ==
  ASSUME TypeOK,
         \/ CleanupTimeout \/ Cleanup \/ CleanupRetry \/ CleanupDone
         \/ RemoveFinalizer \/ CleanupOnDelete \/ RemoveOnDelete
  PROVE  TypeOK'
<1> USE TypeFacts
<1>1. CASE CleanupTimeout
  <2>1. FailRun(ClearCondition(mem, "NetworkChaosCleanedUp")) \in Run
    BY PhaseHelpersType DEF ConditionTypes
  <2>2. CallTypeOK' /\ counted' \in Nat
    BY <1>1, <2>1, PatchOutcome, FinishRunType DEF CleanupTimeout, Labels
  <2> QED
    BY <1>1, <2>2, CallStepType DEF CleanupTimeout, TypeOK
<1>2. CASE Cleanup
  <2>1. PICK left \in SUBSET mem.records :
          /\ (DriverCleanup(left) /\ UNCHANGED faults) \/ DriverCleanupFails(left)
          /\ result' = [units |-> left, at |-> NoTime]
          /\ pc' \in {"cleanupDone", "cleanupRetry"}
    BY <1>2 DEF Cleanup
  <2>2. effect' \in Effects /\ unseen' \in SUBSET Units
    BY <2>1, DriverCleanupType
  <2>3. result' \in Result /\ pc' \in Labels
    BY <2>1 DEF Result, Labels, Run
  <2>4. faults' \in 0 .. MaxFaults
    BY <2>1, ConstantsAssumption DEF DriverCleanupFails, TypeOK
  <2> QED
    BY <1>2, <2>2, <2>3, <2>4 DEF Cleanup, TypeOK, Effects
<1>3. CASE CleanupRetry
  <2>1. [mem EXCEPT !.records = result.units] \in Run
    BY DEF TypeOK, Result, Run
  <2>2. RequeueAfter(spec.storedPoll) \in MaybeTime
    BY TimeType DEF TypeOK, RunSpec
  <2>3. CallTypeOK'
    BY <1>3, <2>1, <2>2, PatchOutcome DEF CleanupRetry, Labels
  <2> QED
    BY <1>3, <2>3, CallStepType DEF CleanupRetry, TypeOK
<1>4. CASE CleanupDone
  <2> DEFINE run == SetCondition([mem EXCEPT !.records = {}], "NetworkChaosCleanedUp")
             verdict == IF mem.verdict = "" THEN "Passed" ELSE mem.verdict
             ended == IF "AbortRequested" \in mem.conditions THEN AbortRun(run)
                      ELSE FinalizeRun(run, verdict)
  <2>1. [mem EXCEPT !.records = {}] \in Run /\ verdict \in Verdicts
    BY DEF Run, Verdicts
  <2>2. run \in Run
    BY <2>1, PhaseHelpersType DEF ConditionTypes
  <2>3. ended \in Run
    BY <2>1, <2>2, PhaseHelpersType
  <2>4. PatchStatus(ended, "removeFinalizer", NoTime)
    BY <1>4 DEF CleanupDone
  <2> HIDE DEF ended
  <2>5. CallTypeOK' /\ counted' \in Nat
    BY <1>4, <2>3, <2>4, PatchOutcome, FinishRunType DEF CleanupDone, Labels
  <2> QED
    BY <1>4, <2>5, CallStepType DEF CleanupDone, TypeOK
<1>5. CASE RemoveFinalizer
  <2>1. WithoutFinalizer(API) \in Run /\ "idle" \in Labels
    BY PhaseHelpersType DEF Labels
  <2>2. CASE Write(WithoutFinalizer(API), "idle", NoTime)
    BY <1>5, <2>1, <2>2, WriteOutcome, PureCallType DEF RemoveFinalizer
  <2>3. ASSUME NEW wake \in MaybeTime, Continue(mem, "idle", wake),
               UNCHANGED <<store, faults>>
        PROVE  TypeOK'
    <3>1. timer' \in MaybeTime /\ pc' \in Labels /\ mem' \in Run
      BY <2>1, <2>3, ContinueType
    <3> QED
      BY <1>5, <2>3, <3>1 DEF RemoveFinalizer, Untouched, TypeOK
  <2> QED
    BY <1>5, <2>2, <2>3 DEF RemoveFinalizer
<1>6. CASE CleanupOnDelete
  <2>1. PICK left \in SUBSET mem.records, next \in {"removeOnDelete", "idle"},
             wake \in {NoTime, RequeueAfter(1)} :
          /\ (DriverCleanup(left) /\ UNCHANGED faults) \/ DriverCleanupFails(left)
          /\ Continue(mem, next, wake)
    BY <1>6 DEF CleanupOnDelete
  <2>2. effect' \in Effects /\ unseen' \in SUBSET Units
    BY <2>1, DriverCleanupType
  <2>3. wake \in MaybeTime /\ next \in Labels
    BY TimeType DEF TypeOK, Labels
  <2>4. timer' \in MaybeTime /\ pc' \in Labels /\ mem' \in Run
    BY <2>1, <2>3, ContinueType
  <2>5. faults' \in 0 .. MaxFaults
    BY <2>1, ConstantsAssumption DEF DriverCleanupFails, TypeOK
  <2> QED
    BY <1>6, <2>2, <2>4, <2>5 DEF CleanupOnDelete, TypeOK, Effects
<1>7. CASE RemoveOnDelete
  <2>1. WithoutFinalizer(API) \in Run /\ "idle" \in Labels
    BY PhaseHelpersType DEF Labels
  <2> QED
    BY <1>7, <2>1, WriteOutcome, PureCallType DEF RemoveOnDelete
<1> QED
  BY <1>1, <1>2, <1>3, <1>4, <1>5, <1>6, <1>7

\* The work queue, restarts, users, containers and the clock.
LEMMA TypeEnvironmentSteps ==
  ASSUME TypeOK, Environment
  PROVE  TypeOK'
<1> USE TypeFacts
<1>1. CASE WatchEvent
  BY <1>1, TailStore DEF WatchEvent, ControllerUnchanged, TypeOK
<1>2. CASE TimerFires
  BY <1>2 DEF TimerFires, ControllerUnchanged, TypeOK
<1>3. CASE Restart
  <2>1. store' \in Seq(Run) /\ store' # <<>>
    BY <1>3 DEF Restart
  <2>2. crashes' \in 0 .. MaxCrashes
    BY <1>3, ConstantsAssumption DEF Restart, TypeOK
  <2> QED
    BY <1>3, <2>1, <2>2, NewRunType DEF Restart, TypeOK, Labels
<1>4. CASE UserAborts
  <2>1. [API EXCEPT !.abort = TRUE] \in Run
    BY DEF Run
  <2> QED
    BY <1>4, <2>1, PushStore DEF UserAborts, ControllerUnchanged, TypeOK
<1>5. CASE UserDeletes
  <2>1. [API EXCEPT !.deleting = TRUE, !.exists = API.finalizer] \in Run
    BY DEF Run
  <2> QED
    BY <1>5, <2>1, PushStore DEF UserDeletes, ControllerUnchanged, TypeOK
<1>6. ASSUME NEW u \in Units, ContainerStarts(u) \/ ContainerEnds(u)
      PROVE  TypeOK'
  BY <1>6 DEF ContainerStarts, ContainerEnds, ControllerUnchanged, TypeOK
<1>7. CASE Tick
  <2>1. now' \in Time
    BY <1>7, MaxTimeAssumption DEF Tick, TypeOK, Time
  <2> QED
    BY <1>7, <2>1 DEF Tick, ControllerUnchanged, TypeOK
<1> QED
  BY <1>1, <1>2, <1>3, <1>4, <1>5, <1>6, <1>7 DEF Environment

\* Type correctness: whatever is read late, lost, restarted, aborted or deleted,
\* the object, the queue and the reconcile keep their types.
THEOREM TypeCorrect == Spec => []TypeOK
<1>1. Init => TypeOK
  BY NewRunType, MaxTimeAssumption, ConstantsAssumption
  DEF Init, TypeOK, Labels, MaybeTime, Result, NoResult, Time
<1>2. TypeOK /\ [Next]_vars => TypeOK'
  <2> SUFFICES ASSUME TypeOK, [Next]_vars
               PROVE  TypeOK'
    OBVIOUS
  <2>1. CASE UNCHANGED vars
    BY <2>1 DEF vars, TypeOK
  <2>2. CASE Step
    BY <2>2, TypeEarlySteps, TypeInjectionSteps, TypeObservationSteps,
       TypeCleanupSteps DEF Step
  <2>3. CASE Environment
    BY <2>3, TypeEnvironmentSteps
  <2> QED
    BY <2>1, <2>2, <2>3 DEF Next
<1> QED
  BY <1>1, <1>2, PTL DEF Spec

-----------------------------------------------------------------------------
(***************************************************************************)
(* A run that is not finished is never forgotten.  NeverParked is not      *)
(* inductive: a handler that ends without a requeue relies on the phase it *)
(* was dispatched on, which is the phase in memory and not the server's.   *)
(***************************************************************************)

\* What a step knows of the phase when it is about to make its call.
PhaseInMemory ==
  /\ pc \in {"Pending", "Injecting", "Observing", "CleaningUp"} => mem.phase = pc
  /\ pc \in {"recordInjection", "recordFailure"} => mem.phase = "Injecting"
  /\ pc \in {"cleanupRetry", "cleanupDone"} => mem.phase = "CleaningUp"
  /\ pc = "abort" => ~IsTerminal(mem.phase)
  /\ pc = "checkpoint" => mem.phase = API.phase
  /\ pc \in {"counted", "removeFinalizer"} => IsTerminal(API.phase)

\* A deletion that some version shows is never taken back.
DeletionIsFinal ==
  /\ \A i \in 1 .. Len(store) : store[i].deleting => API.deleting
  /\ pc \in {"deleteCleanup", "removeOnDelete"} => API.deleting

Awake == NeverParked /\ PhaseInMemory /\ DeletionIsFinal

\* The interval that CleaningUp requeues with is positive after a patch too.
PollIsStored == \A s \in Specs : s.storedPoll > 0

\* A handler dispatched on a phase ends the run with this version.
Ends(run) ==
  IsTerminal(run.phase) /\ (run.phase # mem.phase \/ mem.phase = API.phase)

\* A write that keeps a deletion keeps it for all versions to come.
LEMMA DeletionWrite ==
  ASSUME TypeOK, DeletionIsFinal, NEW written \in Run,
         API.deleting => written.deleting,
         store' = store \/ store' = Push(written)
  PROVE  \A i \in 1 .. Len(store') : store'[i].deleting => API'.deleting
<1>1. CASE store' = store
  BY <1>1 DEF DeletionIsFinal, API
<1>2. CASE store' = Append(store, written)
  <2>1. store \in Seq(Run) /\ Len(store') = Len(store) + 1 /\ API' = written
    BY <1>2 DEF TypeOK, API
  <2>2. \A i \in 1 .. Len(store) : store'[i] = store[i]
    BY <1>2 DEF TypeOK
  <2>3. \A i \in 1 .. Len(store') : i \in 1 .. Len(store) \/ i = Len(store')
    BY <2>1
  <2> QED
    BY <2>1, <2>2, <2>3 DEF DeletionIsFinal, API
<1> QED
  BY <1>1, <1>2 DEF Push

\* The stores a write can leave.
LEMMA WriteStore ==
  ASSUME NEW written, NEW next, NEW wake, Write(written, next, wake)
  PROVE  store' = store \/ store' = Push(written)
BY DEF Write

\* A status patch keeps the run awake if it requeues or ends the run.
LEMMA AwakeAfterPatch ==
  ASSUME TypeOK, Awake, NEW run \in Run, NEW wake \in MaybeTime,
         NEW next \in {"idle", "counted", "checkpoint", "toInjecting",
                       "addFinalizer", "toObserving", "removeFinalizer"},
         PatchStatus(run, next, wake),
         next = "idle" => wake # NoTime \/ Ends(run),
         next \in {"counted", "removeFinalizer"} => Ends(run)
  PROVE  Awake'
<1> DEFINE written == MergeStatus(mem, run, API)
<1>1. next \in Labels
  BY DEF Labels
<1>2. written \in Run /\ written.deleting = API.deleting
      /\ (Ends(run) => IsTerminal(written.phase))
  <2>1. written \in Run
    BY MergeType, TypeFacts
  <2>2. written.deleting = API.deleting
        /\ written.phase = Changed(mem.phase, run.phase, API.phase)
    BY TypeFacts DEF MergeStatus, Run
  <2>3. Ends(run) => IsTerminal(written.phase)
    BY <2>2 DEF Ends, Changed
  <2> QED
    BY <2>1, <2>2, <2>3
<1> HIDE DEF written
<1>3. \/ /\ API' = written /\ pc' = next
         /\ next # "idle" => mem' = API'
         /\ wake # NoTime => timer' # NoTime
      \/ pc' = "idle" /\ timer' # NoTime
  BY <1>1, PatchOutcome DEF written
<1>4. NeverParked'
  BY <1>2, <1>3 DEF NeverParked, Parked, Live
<1>5. PhaseInMemory'
  BY <1>2, <1>3 DEF PhaseInMemory
<1>6. DeletionIsFinal'
  <2>1. store' = store \/ store' = Push(written)
    BY WriteStore DEF PatchStatus, written
  <2>2. pc' \notin {"deleteCleanup", "removeOnDelete"}
    BY <1>3
  <2> QED
    BY <1>2, <2>1, <2>2, DeletionWrite DEF DeletionIsFinal, Awake
<1> QED
  BY <1>4, <1>5, <1>6 DEF Awake

\* With the server's version unchanged, a deletion stays what it was.
LEMMA DeletionKept ==
  ASSUME DeletionIsFinal, UNCHANGED store
  PROVE  /\ API' = API
         /\ pc' \notin {"deleteCleanup", "removeOnDelete"} => DeletionIsFinal'
         /\ API.deleting => DeletionIsFinal'
BY DEF DeletionIsFinal, API

\* A reconcile that ends without a write, and requeues or leaves an ended run.
LEMMA AwakeAfterEnd ==
  ASSUME TypeOK, Awake, NEW run \in Run, NEW wake \in MaybeTime, UNCHANGED store,
         Continue(run, "idle", wake), wake # NoTime \/ ~Live(API)
  PROVE  Awake'
<1>1. "idle" \in Labels
  BY DEF Labels
<1>2. pc' = "idle" /\ (wake # NoTime => timer' # NoTime)
  BY <1>1, ContinueType
<1>3. API' = API /\ DeletionIsFinal'
  BY <1>2, DeletionKept DEF Awake
<1> QED
  BY <1>2, <1>3 DEF Awake, NeverParked, Parked, PhaseInMemory, Live

\* Reading the run, aborting it, and everything before an injection.
LEMMA AwakeEarlySteps ==
  ASSUME TypeOK, Awake, PollIsStored,
         \/ ReconcileSkip \/ ReconcileDispatch \/ AbortViaCleaningUp \/ AbortNow
         \/ AbortCounted \/ ValidationFails \/ RecordStart \/ CheckpointStable
         \/ CheckpointCheckFails \/ CheckpointWaitTimeout
         \/ CheckpointNotStable \/ StartInjecting \/ InjectionRejected \/ DryRun
  PROVE  Awake'
<1> USE TypeFacts, PhaseHelpersType
<1>1. CASE ReconcileSkip
  <2>1. ~Live(Cached) /\ UNCHANGED <<store, pc, mem>>
    BY <1>1 DEF ReconcileSkip, Live
  <2>2. Len(store) = 1 => API = Cached
    BY DEF API, Cached
  <2>3. DeletionIsFinal' /\ PhaseInMemory' /\ API' = API
    BY <2>1 DEF Awake, DeletionIsFinal, PhaseInMemory, API
  <2> QED
    BY <2>1, <2>2, <2>3 DEF Awake, NeverParked, Parked, Live
<1>2. CASE ReconcileDispatch
  <2>1. /\ pc' = Handler(Cached) /\ mem' = Cached /\ UNCHANGED store
        /\ ~IsTerminal(Cached.phase)
    BY <1>2 DEF ReconcileDispatch
  <2>2. \/ Handler(Cached) = "deleteCleanup" /\ Cached.deleting
        \/ Handler(Cached) = "abort"
        \/ Handler(Cached) = Cached.phase
             /\ Cached.phase \in {"Pending", "Injecting", "Observing", "CleaningUp"}
    BY <2>1 DEF Handler, IsTerminal, Run, Phases, Terminal
  <2>3. Cached.deleting => API.deleting
    <3>1. 1 \in 1 .. Len(store)
      BY DEF TypeOK
    <3> QED
      BY <3>1 DEF Awake, DeletionIsFinal, Cached
  <2>4. DeletionIsFinal'
    BY <2>1, <2>2, <2>3, DeletionKept DEF Awake
  <2>5. NeverParked' /\ PhaseInMemory'
    BY <2>1, <2>2 DEF NeverParked, Parked, PhaseInMemory
  <2> QED
    BY <2>4, <2>5 DEF Awake
<1>3. CASE AbortViaCleaningUp
  <2>1. TransitionPhase(SetCondition(mem, "AbortRequested"), "CleaningUp") \in Run
    BY DEF ConditionTypes, Phases
  <2> QED
    BY <1>3, <2>1, AwakeAfterPatch DEF AbortViaCleaningUp
<1>4. CASE AbortNow
  <2> DEFINE run == AbortRun(SetCondition(mem, "AbortRequested"))
  <2>1. run \in Run
    BY DEF ConditionTypes
  <2>2. Ends(run)
    <3>1. SetCondition(mem, "AbortRequested") \in Run
      BY DEF ConditionTypes
    <3>2. run.phase = "Aborted"
      BY <3>1 DEF AbortRun, Run
    <3> QED
      BY <1>4, <3>2 DEF AbortNow, Awake, PhaseInMemory, Ends, IsTerminal, Terminal
  <2>3. PatchStatus(run, "counted", NoTime)
    BY <1>4 DEF AbortNow
  <2> HIDE DEF run
  <2> QED
    BY <2>1, <2>2, <2>3, AwakeAfterPatch
<1>5. CASE AbortCounted
  <2>1. ~Live(API)
    BY <1>5 DEF AbortCounted, Awake, PhaseInMemory, Live
  <2> QED
    BY <1>5, <2>1, AwakeAfterEnd, NewRunType DEF AbortCounted
<1>6. ASSUME PatchStatus(FailRun(mem), "idle", NoTime),
             pc \in {"Pending", "Injecting"} \/ pc = "checkpoint"
      PROVE  Awake'
  <2>1. FailRun(mem).phase = "Failed"
    BY DEF FailRun, Run
  <2>2. Ends(FailRun(mem))
    BY <1>6, <2>1 DEF Awake, PhaseInMemory, Ends, IsTerminal, Terminal
  <2> QED
    BY <1>6, <2>2, AwakeAfterPatch
<1>7. CASE ValidationFails \/ CheckpointWaitTimeout \/ InjectionRejected
  BY <1>6, <1>7 DEF ValidationFails, CheckpointWaitTimeout, InjectionRejected
<1>8. CASE RecordStart
  <2>1. [mem EXCEPT !.startedAt = now] \in Run
    BY DEF Run
  <2> QED
    BY <1>8, <2>1, AwakeAfterPatch DEF RecordStart
<1>9. CASE CheckpointStable
  <2>1. CASE mem.phase = "Failed"
    <3>1. ~Live(API)
      BY <1>9, <2>1 DEF CheckpointStable, Awake, PhaseInMemory, Live, IsTerminal,
                        Terminal
    <3> QED
      BY <1>9, <2>1, <3>1, AwakeAfterEnd DEF CheckpointStable
  <2>2. CASE mem.phase # "Failed"
    <3>1. pc' = "toInjecting" /\ UNCHANGED store
      BY <1>9, <2>2 DEF CheckpointStable, Continue
    <3>2. DeletionIsFinal'
      BY <3>1, DeletionKept DEF Awake
    <3> QED
      BY <3>1, <3>2 DEF Awake, NeverParked, Parked, PhaseInMemory
  <2> QED
    BY <2>1, <2>2
<1>10. CASE CheckpointCheckFails
  BY <1>10, AwakeAfterEnd, NewRunType DEF CheckpointCheckFails, Fail
<1>11. CASE CheckpointNotStable
  <2>1. RequeueAfter(spec.storedPoll) \in Time
    BY TimeType DEF PollIsStored, TypeOK, RunSpec
  <2>2. RequeueAfter(spec.storedPoll) \in MaybeTime
        /\ RequeueAfter(spec.storedPoll) # NoTime
    BY <2>1, TimeType DEF TypeOK
  <2> QED
    BY <1>11, <2>2, AwakeAfterPatch DEF CheckpointNotStable
<1>12. CASE StartInjecting
  <2>1. TransitionPhase(mem, "Injecting") \in Run
    BY DEF Phases
  <2> QED
    BY <1>12, <2>1, AwakeAfterPatch DEF StartInjecting
<1>13. CASE DryRun
  <2>1. FinalizeRun(mem, "Inconclusive") \in Run
    BY DEF Verdicts
  <2>2. FinalizeRun(mem, "Inconclusive").phase = "Completed"
    BY DEF FinalizeRun, Run
  <2>3. Ends(FinalizeRun(mem, "Inconclusive"))
    BY <1>13, <2>2 DEF DryRun, Awake, PhaseInMemory, Ends, IsTerminal, Terminal
  <2> QED
    BY <1>13, <2>1, <2>3, AwakeAfterPatch DEF DryRun
<1> QED
  BY <1>1, <1>2, <1>3, <1>4, <1>5, <1>7, <1>8, <1>9, <1>10, <1>11, <1>12, <1>13

\* A step to another call of the same reconcile, the server being as it was.
LEMMA AwakeWithin ==
  ASSUME TypeOK, Awake, UNCHANGED <<store, mem>>,
         \/ pc' \in {"recordInjection", "recordFailure"} /\ mem.phase = "Injecting"
         \/ pc' \in {"cleanupRetry", "cleanupDone"} /\ mem.phase = "CleaningUp"
  PROVE  Awake'
<1>1. DeletionIsFinal'
  BY DeletionKept DEF Awake
<1> QED
  BY <1>1 DEF Awake, NeverParked, Parked, PhaseInMemory

\* The driver's Inject and the record of what it did.
LEMMA AwakeInjectionSteps ==
  ASSUME TypeOK, Awake, PollIsStored,
         \/ \E S \in SUBSET Units :
              Inject(S) \/ \E T, D \in SUBSET S : InjectFails(S, T, D)
         \/ RecordInjection \/ RecordFailure \/ AddFinalizer \/ TransitionToObserving
  PROVE  Awake'
<1> USE TypeFacts, PhaseHelpersType
<1>1. ASSUME NEW S \in SUBSET Units,
             Inject(S) \/ \E T, D \in SUBSET S : InjectFails(S, T, D)
      PROVE  Awake'
  <2>1. pc = "Injecting" /\ pc' \in {"recordInjection", "recordFailure"}
        /\ UNCHANGED <<store, mem>>
    BY <1>1 DEF Inject, InjectFails
  <2>2. mem.phase = "Injecting"
    BY <2>1 DEF Awake, PhaseInMemory
  <2> QED
    BY <2>1, <2>2, AwakeWithin
<1>2. CASE RecordInjection
  <2> DEFINE at == IF InContainers(spec.scenario) THEN result.at ELSE NoTime
             units == IF NeedsCleanup(spec.scenario) THEN result.units ELSE {}
  <2>1. at \in MaybeTime /\ units \in SUBSET Units
    BY DEF TypeOK, Result
  <2> HIDE DEF at, units
  <2>2. [mem EXCEPT !.injected = TRUE, !.records = units, !.injectedAt = at] \in Run
    BY <2>1 DEF Run
  <2>3. PatchStatus([mem EXCEPT !.injected = TRUE, !.records = units,
                                !.injectedAt = at], "addFinalizer", NoTime)
    BY <1>2 DEF RecordInjection, at, units
  <2> QED
    BY <2>2, <2>3, AwakeAfterPatch
<1>3. CASE RecordFailure
  <2> DEFINE partial == [mem EXCEPT !.records = result.units, !.injectedAt = result.at]
  <2>1. partial \in Run
    BY DEF TypeOK, Result, Run
  <2>2. PICK run \in {FailRun(partial), FailRun(mem)} : PatchStatus(run, "idle", NoTime)
    BY <1>3 DEF RecordFailure
  <2> HIDE DEF partial
  <2>3. run \in Run /\ run.phase = "Failed"
    <3>1. PICK failing \in Run : run = FailRun(failing)
      BY <2>1, <2>2
    <3> QED
      BY <3>1 DEF FailRun, Run
  <2>4. Ends(run)
    BY <1>3, <2>3 DEF RecordFailure, Awake, PhaseInMemory, Ends, IsTerminal, Terminal
  <2> QED
    BY <2>2, <2>3, <2>4, AwakeAfterPatch
<1>4. CASE AddFinalizer
  <2> DEFINE written == [API EXCEPT !.finalizer = TRUE]
  <2>1. written \in Run /\ written.deleting = API.deleting
    BY DEF Run
  <2>2. Write(written, "toObserving", NoTime) /\ "toObserving" \in Labels
    BY <1>4 DEF AddFinalizer, Labels
  <2>3. pc' = "toObserving" \/ (pc' = "idle" /\ timer' # NoTime)
    BY <2>1, <2>2, WriteOutcome
  <2>4. store' = store \/ store' = Push(written)
    BY <2>2, WriteStore
  <2>5. DeletionIsFinal'
    BY <2>1, <2>3, <2>4, DeletionWrite DEF Awake, DeletionIsFinal
  <2> QED
    BY <2>3, <2>5 DEF Awake, NeverParked, Parked, PhaseInMemory
<1>5. CASE TransitionToObserving
  <2> DEFINE poll == IF pc = "Injecting" THEN spec.poll ELSE spec.storedPoll
  <2>1. [TransitionPhase(mem, "Observing") EXCEPT !.observingAt = now] \in Run
    BY DEF Run, TransitionPhase, Phases
  <2>2. poll \in Nat \ {0}
    BY DEF PollIsStored, TypeOK, RunSpec
  <2>3. RequeueAfter(poll) \in MaybeTime /\ RequeueAfter(poll) # NoTime
    BY <2>2, TimeType DEF TypeOK
  <2> QED
    BY <1>5, <2>1, <2>3, AwakeAfterPatch DEF TransitionToObserving
<1> QED
  BY <1>1, <1>2, <1>3, <1>4, <1>5

\* A run that is being observed goes on to its end or to its cleanup.
LEMMA AwakeAfterFinish ==
  ASSUME TypeOK, Awake, pc = "Observing", NEW verdict \in Verdicts, NEW run \in Run,
         Finish(verdict, run) \/ StartCleaningUp(run)
  PROVE  Awake'
<1>1. FinalizeRun(run, verdict) \in Run /\ TransitionPhase(run, "CleaningUp") \in Run
  BY PhaseHelpersType DEF Phases
<1>2. FinalizeRun(run, verdict).phase = "Completed"
  BY DEF FinalizeRun, Run
<1>3. Ends(FinalizeRun(run, verdict))
  BY <1>2 DEF Awake, PhaseInMemory, Ends, IsTerminal, Terminal
<1>4. now \in MaybeTime /\ now # NoTime /\ NoTime \in MaybeTime
  BY TypeFacts
<1> QED
  BY <1>1, <1>3, <1>4, AwakeAfterPatch DEF Finish, StartCleaningUp

\* The observation.
LEMMA AwakeObservationSteps ==
  ASSUME TypeOK, Awake,
         \/ ObservationDisabled \/ ObservationTimeout \/ PartitionElapsed
         \/ PartitionHeld \/ ObservationError
         \/ \E replacement \in BOOLEAN : NotRecovered(replacement)
         \/ RecoveryObserved
  PROVE  Awake'
<1> USE TypeFacts
<1>1. CASE ObservationDisabled
  BY <1>1, AwakeAfterFinish DEF ObservationDisabled, Verdicts
<1>2. CASE ObservationTimeout
  <2>1. TimeoutVerdict \in Verdicts
    BY DEF TimeoutVerdict, Verdicts
  <2>2. [mem EXCEPT !.verdict = TimeoutVerdict] \in Run
    BY <2>1 DEF Run
  <2> QED
    BY <1>2, <2>1, <2>2, AwakeAfterFinish DEF ObservationTimeout
<1>3. CASE PartitionElapsed
  <2> DEFINE verdict == IF mem.replacement THEN "Passed" ELSE "Inconclusive"
  <2>1. verdict \in Verdicts
    BY DEF Verdicts
  <2>2. [mem EXCEPT !.verdict = verdict] \in Run
    BY <2>1 DEF Run
  <2> QED
    BY <1>3, <2>1, <2>2, AwakeAfterFinish DEF PartitionElapsed
<1>4. CASE PartitionHeld
  <2> DEFINE rest == mem.observingAt + spec.duration - now
  <2>1. rest \in Nat \ {0}
    <3>1. mem.observingAt \in Int /\ now \in Int /\ spec.duration \in Int
      BY HeldTimes
    <3>2. ~(now - mem.observingAt >= spec.duration)
      BY <1>4 DEF PartitionHeld, Over
    <3> QED
      BY <3>1, <3>2
  <2>2. RequeueAfter(rest) \in MaybeTime /\ RequeueAfter(rest) # NoTime
    BY <2>1, TimeType DEF TypeOK
  <2> QED
    BY <1>4, <2>2, AwakeAfterPatch DEF PartitionHeld
<1>5. RequeueAfter(spec.poll) \in MaybeTime /\ RequeueAfter(spec.poll) # NoTime
  <2>1. spec.poll \in Nat \ {0}
    BY DEF RunSpec
  <2> QED
    BY <2>1, TimeType DEF TypeOK
<1>6. CASE ObservationError
  BY <1>5, <1>6, AwakeAfterEnd DEF ObservationError
<1>7. ASSUME NEW replacement \in BOOLEAN, NotRecovered(replacement)
      PROVE  Awake'
  <2>1. [mem EXCEPT !.replacement = replacement] \in Run
    BY DEF Run
  <2> QED
    BY <1>5, <1>7, <2>1, AwakeAfterPatch DEF NotRecovered
<1>8. CASE RecoveryObserved
  <2> DEFINE seen == [mem EXCEPT !.replacement = TRUE, !.recovered = TRUE]
             run == SetCondition(seen, "RecoveryObserved")
  <2>1. seen \in Run
    BY DEF Run
  <2>2. run \in Run
    BY <2>1, PhaseHelpersType DEF ConditionTypes
  <2> HIDE DEF run
  <2>3. pc = "Observing" /\ (StartCleaningUp(run) \/ Finish("Passed", run))
    BY <1>8 DEF RecoveryObserved, Polls, run
  <2> QED
    BY <2>2, <2>3, AwakeAfterFinish DEF Verdicts
<1> QED
  BY <1>1, <1>2, <1>3, <1>4, <1>6, <1>7, <1>8

\* Taking the finalizer away changes neither phase nor deletion, and the object
\* goes if it is being deleted.
LEMMA WithoutFinalizerFacts ==
  ASSUME NEW run \in Run
  PROVE  /\ WithoutFinalizer(run) \in Run
         /\ WithoutFinalizer(run).phase = run.phase
         /\ WithoutFinalizer(run).deleting = run.deleting
         /\ run.deleting => ~WithoutFinalizer(run).exists
BY DEF WithoutFinalizer, Run

\* The cleanup, in its own phase or of a run that is deleted.
LEMMA AwakeCleanupSteps ==
  ASSUME TypeOK, Awake, PollIsStored,
         \/ CleanupTimeout \/ Cleanup \/ CleanupRetry \/ CleanupDone
         \/ RemoveFinalizer \/ CleanupOnDelete \/ RemoveOnDelete
  PROVE  Awake'
<1> USE TypeFacts
<1>1. CASE CleanupTimeout
  <2> DEFINE run == ClearCondition(mem, "NetworkChaosCleanedUp")
  <2>1. run \in Run /\ FailRun(run) \in Run
    BY PhaseHelpersType DEF ConditionTypes
  <2> HIDE DEF run
  <2>2. FailRun(run).phase = "Failed"
    BY <2>1 DEF FailRun, Run
  <2>3. Ends(FailRun(run))
    BY <1>1, <2>2 DEF CleanupTimeout, Awake, PhaseInMemory, Ends, IsTerminal, Terminal
  <2> QED
    BY <1>1, <2>1, <2>3, AwakeAfterPatch DEF CleanupTimeout, run
<1>2. CASE Cleanup
  <2>1. pc' \in {"cleanupRetry", "cleanupDone"} /\ UNCHANGED <<store, mem>>
        /\ mem.phase = "CleaningUp"
    BY <1>2 DEF Cleanup, Awake, PhaseInMemory
  <2> QED
    BY <2>1, AwakeWithin
<1>3. CASE CleanupRetry
  <2>1. [mem EXCEPT !.records = result.units] \in Run
    BY DEF TypeOK, Result, Run
  <2>2. spec.storedPoll \in Nat \ {0}
    BY DEF PollIsStored, TypeOK, RunSpec
  <2>3. RequeueAfter(spec.storedPoll) \in MaybeTime
        /\ RequeueAfter(spec.storedPoll) # NoTime
    BY <2>2, TimeType DEF TypeOK
  <2> QED
    BY <1>3, <2>1, <2>3, AwakeAfterPatch DEF CleanupRetry
<1>4. CASE CleanupDone
  <2> DEFINE run == SetCondition([mem EXCEPT !.records = {}], "NetworkChaosCleanedUp")
             verdict == IF mem.verdict = "" THEN "Passed" ELSE mem.verdict
             ended == IF "AbortRequested" \in mem.conditions THEN AbortRun(run)
                      ELSE FinalizeRun(run, verdict)
  <2>1. [mem EXCEPT !.records = {}] \in Run /\ verdict \in Verdicts
    BY DEF Run, Verdicts
  <2>2. run \in Run
    BY <2>1, PhaseHelpersType DEF ConditionTypes
  <2>3. PatchStatus(ended, "removeFinalizer", NoTime)
    BY <1>4 DEF CleanupDone
  <2> HIDE DEF run, verdict
  <2>4. ended \in Run /\ ended.phase \in {"Aborted", "Completed"}
    <3>1. AbortRun(run) \in Run /\ FinalizeRun(run, verdict) \in Run
      BY <2>1, <2>2, PhaseHelpersType
    <3>2. AbortRun(run).phase = "Aborted" /\ FinalizeRun(run, verdict).phase = "Completed"
      BY <2>2 DEF AbortRun, FinalizeRun, Run
    <3> QED
      BY <3>1, <3>2
  <2> HIDE DEF ended
  <2>5. Ends(ended)
    BY <1>4, <2>4 DEF CleanupDone, Awake, PhaseInMemory, Ends, IsTerminal, Terminal
  <2> QED
    BY <2>3, <2>4, <2>5, AwakeAfterPatch
<1>5. CASE RemoveFinalizer
  <2>1. IsTerminal(API.phase) /\ ~Live(API)
    BY <1>5 DEF RemoveFinalizer, Awake, PhaseInMemory, Live
  <2>2. CASE Write(WithoutFinalizer(API), "idle", NoTime)
    <3>1. /\ WithoutFinalizer(API) \in Run /\ "idle" \in Labels
          /\ WithoutFinalizer(API).deleting = API.deleting
          /\ WithoutFinalizer(API).phase = API.phase
      BY WithoutFinalizerFacts DEF Labels
    <3>2. pc' = "idle" /\ API' \in {API, WithoutFinalizer(API)}
      BY <2>2, <3>1, WriteOutcome
    <3>3. DeletionIsFinal'
      BY <2>2, <3>1, <3>2, WriteStore, DeletionWrite DEF Awake, DeletionIsFinal
    <3> QED
      BY <2>1, <3>1, <3>2, <3>3 DEF Awake, NeverParked, Live, PhaseInMemory
  <2>3. ASSUME NEW wake \in MaybeTime, Continue(mem, "idle", wake), UNCHANGED store
        PROVE  Awake'
    BY <2>1, <2>3, AwakeAfterEnd
  <2> QED
    BY <1>5, <2>2, <2>3 DEF RemoveFinalizer
<1>6. CASE CleanupOnDelete
  <2>1. API.deleting /\ UNCHANGED store
    BY <1>6 DEF CleanupOnDelete, Awake, DeletionIsFinal
  <2>2. CASE Continue(mem, "removeOnDelete", NoTime)
    <3>1. pc' = "removeOnDelete" /\ DeletionIsFinal'
      BY <2>1, <2>2, DeletionKept DEF Continue, Awake
    <3> QED
      BY <3>1 DEF Awake, NeverParked, Parked, PhaseInMemory
  <2>3. CASE Continue(mem, "idle", RequeueAfter(1))
    <3>1. RequeueAfter(1) \in MaybeTime /\ RequeueAfter(1) # NoTime
      BY TimeType DEF TypeOK
    <3> QED
      BY <2>1, <2>3, <3>1, AwakeAfterEnd
  <2> QED
    BY <1>6, <2>2, <2>3 DEF CleanupOnDelete
<1>7. CASE RemoveOnDelete
  <2> DEFINE written == WithoutFinalizer(API)
  <2>1. API.deleting /\ Write(written, "idle", NoTime) /\ "idle" \in Labels
    BY <1>7 DEF RemoveOnDelete, Awake, DeletionIsFinal, Labels
  <2>2. written \in Run /\ written.deleting = API.deleting /\ ~written.exists
    BY <2>1, WithoutFinalizerFacts
  <2>3. pc' = "idle" /\ (API' = written \/ timer' # NoTime)
    BY <2>1, <2>2, WriteOutcome
  <2>4. store' = store \/ store' = Push(written)
    BY <2>1, WriteStore
  <2> HIDE DEF written
  <2>5. DeletionIsFinal'
    BY <2>2, <2>3, <2>4, DeletionWrite DEF Awake, DeletionIsFinal
  <2> QED
    BY <2>2, <2>3, <2>5 DEF Awake, NeverParked, Parked, Live, PhaseInMemory
<1> QED
  BY <1>1, <1>2, <1>3, <1>4, <1>5, <1>6, <1>7

\* The work queue, restarts, users, containers and the clock.
LEMMA AwakeEnvironmentSteps ==
  ASSUME TypeOK, Awake, Environment
  PROVE  Awake'
<1> USE TypeFacts
<1>1. CASE WatchEvent
  <2>1. queued' = TRUE /\ API' = API /\ UNCHANGED <<pc, mem>>
    BY <1>1, TailStore DEF WatchEvent, ControllerUnchanged, TypeOK
  <2>2. \A i \in 1 .. Len(store') : i + 1 \in 1 .. Len(store) /\ store'[i] = store[i + 1]
    BY <1>1 DEF WatchEvent, TypeOK
  <2> QED
    BY <2>1, <2>2 DEF Awake, NeverParked, Parked, PhaseInMemory, DeletionIsFinal
<1>2. CASE TimerFires
  BY <1>2 DEF TimerFires, ControllerUnchanged, Awake, NeverParked, Parked,
              PhaseInMemory, DeletionIsFinal, API
<1>3. CASE Restart
  <2>1. queued' = TRUE /\ pc' = "idle" /\ store' = <<API>>
    BY <1>3 DEF Restart
  <2>2. API' = API /\ Len(store') = 1 /\ store'[1] = API
    BY <2>1 DEF API
  <2> QED
    BY <2>1, <2>2 DEF Awake, NeverParked, Parked, PhaseInMemory, DeletionIsFinal
<1>4. ASSUME NEW written \in Run, written # API, store' = Push(written),
             written.phase = API.phase, API.deleting => written.deleting,
             UNCHANGED <<pc, mem>>
      PROVE  Awake'
  <2>1. Len(store') > 1 /\ API' = written
    BY <1>4, PushStore DEF TypeOK
  <2>2. \A i \in 1 .. Len(store') : store'[i].deleting => API'.deleting
    BY <1>4, DeletionWrite DEF Awake
  <2> QED
    BY <1>4, <2>1, <2>2
    DEF Awake, NeverParked, Parked, PhaseInMemory, DeletionIsFinal
<1>5. CASE UserAborts
  <2> DEFINE written == [API EXCEPT !.abort = TRUE]
  <2>1. written \in Run /\ written.abort /\ ~API.abort
        /\ written.phase = API.phase /\ written.deleting = API.deleting
    BY <1>5 DEF UserAborts, Run
  <2>2. store' = Push(written) /\ UNCHANGED <<pc, mem>>
    BY <1>5 DEF UserAborts, ControllerUnchanged
  <2> HIDE DEF written
  <2> QED
    BY <1>4, <2>1, <2>2
<1>6. CASE UserDeletes
  <2> DEFINE written == [API EXCEPT !.deleting = TRUE, !.exists = API.finalizer]
  <2>1. written \in Run /\ written.deleting /\ ~API.deleting
        /\ written.phase = API.phase
    BY <1>6 DEF UserDeletes, Run
  <2>2. store' = Push(written) /\ UNCHANGED <<pc, mem>>
    BY <1>6 DEF UserDeletes, ControllerUnchanged
  <2> HIDE DEF written
  <2> QED
    BY <1>4, <2>1, <2>2
<1>7. CASE UNCHANGED <<store, queued, timer, pc, mem>>
  BY <1>7 DEF Awake, NeverParked, Parked, PhaseInMemory, DeletionIsFinal, API
<1>8. CASE Tick \/ \E u \in Units : ContainerStarts(u) \/ ContainerEnds(u)
  BY <1>7, <1>8 DEF Tick, ContainerStarts, ContainerEnds, ControllerUnchanged
<1> QED
  BY <1>1, <1>2, <1>3, <1>5, <1>6, <1>8 DEF Environment

\* However old the versions a reconcile reads, whatever calls fail, and however
\* often the controller restarts: as long as the stored poll interval is not
\* zero, the controller always comes back to a run that is not finished.
THEOREM RunsAreNeverForgotten ==
  ASSUME PollIsStored
  PROVE  Spec => []NeverParked
<1>1. Init => Awake
  <2> SUFFICES ASSUME Init
               PROVE  Awake
    OBVIOUS
  <2>1. NeverParked /\ PhaseInMemory
    BY DEF Init, NeverParked, Parked, PhaseInMemory
  <2>2. store = <<NewRun>> /\ Len(store) = 1 /\ API = NewRun
    BY DEF Init, API
  <2>3. DeletionIsFinal
    BY <2>2 DEF Init, DeletionIsFinal
  <2> QED
    BY <2>1, <2>3 DEF Awake
<1>2. TypeOK /\ Awake /\ [Next]_vars => Awake'
  <2> SUFFICES ASSUME TypeOK, Awake, [Next]_vars
               PROVE  Awake'
    OBVIOUS
  <2>1. CASE UNCHANGED vars
    BY <2>1 DEF vars, Awake, NeverParked, Parked, PhaseInMemory, DeletionIsFinal, API
  <2>2. CASE Step
    BY <2>2, PollIsStored, AwakeEarlySteps, AwakeInjectionSteps, AwakeObservationSteps,
       AwakeCleanupSteps DEF Step
  <2>3. CASE Environment
    BY <2>3, AwakeEnvironmentSteps
  <2> QED
    BY <2>1, <2>2, <2>3 DEF Next
<1>3. Awake => NeverParked
  BY DEF Awake
<1> QED
  BY <1>1, <1>2, <1>3, TypeCorrect, PTL DEF Spec

-----------------------------------------------------------------------------
(* The drivers' cleanup. *)

\* A driver's cleanup only takes policies away.  When it succeeds it leaves
\* those that its list did not show.
LEMMA CleanupEffects ==
  ASSUME TypeOK, NEW left, UNCHANGED spec,
         DriverCleanup(left) \/ DriverCleanupFails(left)
  PROVE  /\ NeedsCleanup(spec.scenario)
         /\ \/ UNCHANGED effect
            \/ \A u \in Units : effect'[u] \in {NoTime, effect[u]}
         /\ InEffect' \subseteq InEffect
         /\ DriverCleanup(left) /\ spec.scenario = "NetworkPartition"
            => InEffect' \subseteq unseen'
         /\ \/ UNCHANGED unseen
            \/ DriverCleanup(left) /\ spec.scenario = "NetworkPartition"
<1>1. NeedsCleanup(spec.scenario)
  BY DEF DriverCleanup, DriverCleanupFails, InContainers, NeedsCleanup
<1>2. \/ UNCHANGED effect
      \/ \A u \in Units : effect'[u] \in {NoTime, effect[u]}
  BY DEF DriverCleanup, DriverCleanupFails, Delete
<1>3. InEffect' \subseteq InEffect
  BY <1>2 DEF InEffect
<1>4. ASSUME DriverCleanup(left), spec.scenario = "NetworkPartition"
      PROVE  InEffect' \subseteq unseen'
  <2>1. PICK L \in Listings : Delete(L) /\ unseen' = InEffect \ L
    BY <1>4 DEF DriverCleanup, InContainers
  <2>2. \A u \in InEffect' : u \in InEffect /\ u \notin L
    BY <1>3, <2>1 DEF Delete, InEffect
  <2> QED
    BY <2>1, <2>2
<1>5. UNCHANGED unseen \/ (DriverCleanup(left) /\ spec.scenario = "NetworkPartition")
  BY DEF DriverCleanup, DriverCleanupFails
<1> QED
  BY <1>1, <1>2, <1>3, <1>4, <1>5
=============================================================================
