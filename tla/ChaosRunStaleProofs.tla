--------------------------- MODULE ChaosRunStaleProofs ---------------------------
(***************************************************************************)
(* What holds of the controller however old the versions are that its      *)
(* reconciles read, for every number of faults and restarts: a verdict     *)
(* Passed is never said of an observed run without a recovery; a run that  *)
(* ends Completed or Aborted has left no NetworkPolicy in place but those  *)
(* that the list of its cleanup did not show, and the finalizer goes only  *)
(* after such a cleanup; and how often a run is counted, and how many pods *)
(* it kills, is bounded by what was lost on the way.                       *)
(*                                                                         *)
(* The handlers decide on an old version and send differences to it, so    *)
(* the first proof needs what no write takes back: a recovery, a verdict,  *)
(* the start of the observation, and that something decides how a cleanup  *)
(* is to end.  The second needs what an old version says of the newer      *)
(* ones, since a cached version is never read again once a newer one was.  *)
(* The third keeps the books: each count and each selection beyond the     *)
(* first is made up for by a fault, a restart or an outdated version.      *)
(***************************************************************************)
EXTENDS ChaosRunProofs, FiniteSetTheorems

-----------------------------------------------------------------------------
(* Verdicts. *)

\* The runs whose verdict an observation has to justify.
Judged == spec.observe /\ spec.scenario # "ResourceExhaustion"

\* How the run is to end is known: by an abort, a verdict or a recovery.
Decided(run) ==
  "AbortRequested" \in run.conditions \/ run.verdict # "" \/ run.recovered

\* A version from which no handler concludes a recovery that was not seen.
Sound(scenario, run) ==
  /\ run.phase = "CleaningUp" => Decided(run)
  /\ run.phase = "Observing" => run.observingAt # NoTime
  /\ scenario = "NetworkPartition" => ~run.replacement
  /\ run.verdict = "Passed" => run.recovered

\* What a later version v still has of an earlier version u.
Grows(u, v) ==
  /\ u.recovered => v.recovered
  /\ u.verdict # "" => v.verdict # ""
  /\ u.observingAt # NoTime => v.observingAt # NoTime
  /\ Decided(u) => Decided(v)

\* What a handler may make of the version it read.  The conditions are sent as
\* a whole, and may take away those of a version that was not read.
Keeps(base, run) ==
  /\ Grows(base, run)
  /\ run.conditions # base.conditions => Decided(run)

Truthful ==
  /\ \A i \in 1 .. Len(store) :
       Sound(spec.scenario, store[i]) /\ Grows(store[i], API)
  /\ pc # "idle" => Sound(spec.scenario, mem) /\ Grows(mem, API)
  /\ pc = "Observing" => mem.phase = "Observing"
  /\ pc \in {"CleaningUp", "cleanupDone"} => mem.phase = "CleaningUp"

-----------------------------------------------------------------------------
(* Lemmas about versions. *)

\* Growing is reflexive and transitive.
LEMMA GrowsOrder ==
  /\ \A u : Grows(u, u)
  /\ \A u, v, w : Grows(u, v) /\ Grows(v, w) => Grows(u, w)
<1>1. \A u : Grows(u, u)
  BY DEF Grows
<1>2. ASSUME NEW u, NEW v, NEW w, Grows(u, v), Grows(v, w)
      PROVE  Grows(u, w)
  BY <1>2 DEF Grows
<1> QED
  BY <1>1, <1>2

\* A version with the same status is as sound, and has lost nothing.
LEMMA SameStatus ==
  ASSUME NEW scenario, NEW u \in Run, NEW v \in Run, Sound(scenario, u),
         v.phase = u.phase, v.verdict = u.verdict, v.conditions = u.conditions,
         v.observingAt = u.observingAt, v.replacement = u.replacement,
         v.recovered = u.recovered
  PROVE  Sound(scenario, v) /\ Grows(u, v)
BY DEF Sound, Grows, Decided

\* The merge patch: differences to an old version, applied to a newer one that
\* has lost nothing of it, yield a sound version that has lost nothing either.
LEMMA MergeKeeps ==
  ASSUME NEW scenario, NEW base \in Run, NEW run \in Run, NEW current \in Run,
         Keeps(base, run), Grows(base, current),
         Sound(scenario, run), Sound(scenario, current)
  PROVE  /\ Sound(scenario, MergeStatus(base, run, current))
         /\ Grows(current, MergeStatus(base, run, current))
<1> DEFINE w == MergeStatus(base, run, current)
<1>1. /\ w.phase = Changed(base.phase, run.phase, current.phase)
      /\ w.verdict = Changed(base.verdict, run.verdict, current.verdict)
      /\ w.conditions = Changed(base.conditions, run.conditions, current.conditions)
      /\ w.observingAt = Changed(base.observingAt, run.observingAt, current.observingAt)
      /\ w.replacement = Changed(base.replacement, run.replacement, current.replacement)
      /\ w.recovered = Changed(base.recovered, run.recovered, current.recovered)
  BY DEF MergeStatus, Run
<1>2. /\ base.recovered \in BOOLEAN /\ run.recovered \in BOOLEAN
      /\ current.recovered \in BOOLEAN
  BY DEF Run
<1> HIDE DEF w
<1>3. /\ current.recovered \/ run.recovered => w.recovered
      /\ current.verdict # "" \/ run.verdict # "" => w.verdict # ""
      /\ current.observingAt # NoTime \/ run.observingAt # NoTime
           => w.observingAt # NoTime
  BY <1>1, <1>2 DEF Changed, Keeps, Grows
<1>4. Decided(current) => Decided(w)
  BY <1>1, <1>3 DEF Decided, Changed, Keeps
<1>5. Decided(run) => Decided(w)
  BY <1>1, <1>3, <1>4 DEF Decided, Changed, Keeps, Grows
<1>6. Sound(scenario, w)
  <2>1. w.phase = "CleaningUp" => Decided(w)
    BY <1>1, <1>4, <1>5 DEF Sound, Changed
  <2>2. w.phase = "Observing" => w.observingAt # NoTime
    BY <1>1, <1>3 DEF Sound, Changed
  <2>3. scenario = "NetworkPartition" => ~w.replacement
    BY <1>1 DEF Sound, Changed
  <2>4. w.verdict = "Passed" => w.recovered
    BY <1>1, <1>3 DEF Sound, Changed
  <2> QED
    BY <2>1, <2>2, <2>3, <2>4 DEF Sound
<1>7. Grows(current, w)
  BY <1>3, <1>4 DEF Grows
<1> QED
  BY <1>6, <1>7 DEF w

-----------------------------------------------------------------------------
(* Lemmas about the store. *)

VersionsTruthful ==
  \A i \in 1 .. Len(store) :
    Sound(spec.scenario, store[i]) /\ Grows(store[i], API)

\* A write of a sound version that has lost nothing keeps all versions so.
LEMMA WriteKeepsVersions ==
  ASSUME TypeOK, VersionsTruthful, UNCHANGED spec, NEW written \in Run,
         Sound(spec.scenario, written), Grows(API, written),
         store' = store \/ store' = Push(written)
  PROVE  VersionsTruthful'
<1>1. CASE store' = store
  BY <1>1 DEF VersionsTruthful, API
<1>2. CASE store' = Append(store, written)
  <2>1. store \in Seq(Run) /\ Len(store') = Len(store) + 1 /\ API' = written
        /\ store'[Len(store')] = written
    BY <1>2 DEF TypeOK, API
  <2>2. \A i \in 1 .. Len(store) : store'[i] = store[i]
    BY <1>2 DEF TypeOK
  <2>3. \A i \in 1 .. Len(store') : i \in 1 .. Len(store) \/ i = Len(store')
    BY <2>1
  <2> QED
    BY <2>1, <2>2, <2>3, GrowsOrder DEF VersionsTruthful
<1> QED
  BY <1>1, <1>2 DEF Push

\* The server's version is one of them.
LEMMA ServerIsTruthful ==
  ASSUME TypeOK, VersionsTruthful
  PROVE  /\ Sound(spec.scenario, API)
         /\ Sound(spec.scenario, Cached) /\ Grows(Cached, API)
<1>1. 1 \in 1 .. Len(store) /\ Len(store) \in 1 .. Len(store)
  BY DEF TypeOK
<1> QED
  BY <1>1 DEF VersionsTruthful, API, Cached

\* The calls that are not the first of a handler decide nothing.
Followers == Labels \ {"Observing", "CleaningUp", "cleanupDone"}

\* A reconcile that goes on with the server's version in memory, or ends.
LEMMA TruthfulAfterWrite ==
  ASSUME TypeOK, Truthful, UNCHANGED spec, NEW written \in Run,
         NEW next \in Followers, NEW wake \in MaybeTime,
         Write(written, next, wake),
         Sound(spec.scenario, written), Grows(API, written)
  PROVE  Truthful'
<1>1. VersionsTruthful'
  BY WriteStore, WriteKeepsVersions DEF Truthful, VersionsTruthful
<1>2. next \in Labels
  BY DEF Followers
<1>3. \/ API' = written /\ pc' = next /\ (next # "idle" => mem' = written)
      \/ pc' = "idle"
  BY <1>2, WriteOutcome
<1>4. pc' # "idle" => Sound(spec.scenario, mem') /\ Grows(mem', API')
  BY <1>3, GrowsOrder
<1>5. pc' \notin {"Observing", "CleaningUp", "cleanupDone"}
  BY <1>3 DEF Followers
<1> QED
  BY <1>1, <1>4, <1>5 DEF Truthful, VersionsTruthful

\* A status patch of what a handler may make of the version it read.
LEMMA TruthfulAfterPatch ==
  ASSUME TypeOK, Truthful, pc # "idle", UNCHANGED spec, NEW run \in Run,
         NEW next \in Followers, NEW wake \in MaybeTime,
         PatchStatus(run, next, wake),
         Sound(spec.scenario, run), Keeps(mem, run)
  PROVE  Truthful'
<1>1. Sound(spec.scenario, API) /\ Grows(mem, API) /\ mem \in Run /\ API \in Run
  BY ServerIsTruthful, TypeFacts DEF Truthful, VersionsTruthful
<1>2. MergeStatus(mem, run, API) \in Run
  BY <1>1, MergeType
<1>3. /\ Sound(spec.scenario, MergeStatus(mem, run, API))
      /\ Grows(API, MergeStatus(mem, run, API))
  BY <1>1, MergeKeeps
<1> QED
  BY <1>2, <1>3, TruthfulAfterWrite DEF PatchStatus

\* A reconcile that goes on, or ends, without a write.
LEMMA TruthfulWithoutWrite ==
  ASSUME TypeOK, Truthful, pc # "idle", UNCHANGED <<spec, store>>,
         NEW run, NEW next \in Followers, NEW wake,
         Continue(run, next, wake), next = "idle" \/ run = mem
  PROVE  Truthful'
<1>1. pc' = next /\ (next # "idle" => mem' = mem)
  BY DEF Continue
<1>2. API' = API
  BY DEF API
<1> QED
  BY <1>1, <1>2 DEF Truthful, Followers

-----------------------------------------------------------------------------
(* The steps of a reconcile. *)

\* What a step of a handler knows of the version it read.
LEMMA ReadVersion ==
  ASSUME TypeOK, Truthful, pc # "idle"
  PROVE  mem \in Run /\ Sound(spec.scenario, mem) /\ API \in Run
BY TypeFacts DEF Truthful

\* The labels a step may continue with.
LEMMA FollowersLabels ==
  /\ {"idle", "counted", "checkpoint", "toInjecting", "addFinalizer",
      "toObserving", "removeFinalizer"} \subseteq Followers
  /\ NoTime \in MaybeTime
BY DEF Followers, Labels, MaybeTime

\* Ending a run as Failed, as Aborted or without a verdict that praises it.
LEMMA EndsTruthful ==
  ASSUME NEW scenario, NEW base \in Run, Sound(scenario, base)
  PROVE  /\ Sound(scenario, FailRun(base)) /\ Keeps(base, FailRun(base))
         /\ LET run == FailRun(ClearCondition(base, "NetworkChaosCleanedUp"))
            IN  run \in Run /\ Sound(scenario, run) /\ Keeps(base, run)
         /\ LET run == AbortRun(SetCondition(base, "AbortRequested"))
            IN  run \in Run /\ Sound(scenario, run) /\ Keeps(base, run)
         /\ \A verdict \in Verdicts \ {""} :
              (verdict = "Passed" => base.recovered)
              => /\ FinalizeRun(base, verdict) \in Run
                 /\ Sound(scenario, FinalizeRun(base, verdict))
                 /\ Keeps(base, FinalizeRun(base, verdict))
<1>1. /\ Sound(scenario, FailRun(base)) /\ Keeps(base, FailRun(base))
  BY DEF FailRun, Run, Sound, Keeps, Grows, Decided
<1>2. ASSUME NEW run, run = FailRun(ClearCondition(base, "NetworkChaosCleanedUp"))
      PROVE  run \in Run /\ Sound(scenario, run) /\ Keeps(base, run)
  <2>1. ClearCondition(base, "NetworkChaosCleanedUp") \in Run
    BY PhaseHelpersType DEF ConditionTypes
  <2>2. run \in Run
    BY <1>2, <2>1, PhaseHelpersType
  <2> QED
    BY <1>2, <2>2 DEF FailRun, ClearCondition, Run, Sound, Keeps, Grows, Decided
<1>3. ASSUME NEW run, run = AbortRun(SetCondition(base, "AbortRequested"))
      PROVE  run \in Run /\ Sound(scenario, run) /\ Keeps(base, run)
  <2>1. SetCondition(base, "AbortRequested") \in Run
    BY PhaseHelpersType DEF ConditionTypes
  <2>2. run \in Run
    BY <1>3, <2>1, PhaseHelpersType
  <2> QED
    BY <1>3, <2>2 DEF AbortRun, SetCondition, Run, Sound, Keeps, Grows, Decided
<1>4. ASSUME NEW verdict \in Verdicts \ {""}, verdict = "Passed" => base.recovered
      PROVE  /\ FinalizeRun(base, verdict) \in Run
             /\ Sound(scenario, FinalizeRun(base, verdict))
             /\ Keeps(base, FinalizeRun(base, verdict))
  <2>1. FinalizeRun(base, verdict) \in Run
    BY PhaseHelpersType
  <2> QED
    BY <1>4, <2>1 DEF FinalizeRun, Run, Sound, Keeps, Grows, Decided
<1> QED
  BY <1>1, <1>2, <1>3, <1>4

\* Reading the run, aborting it, and everything before an injection.
LEMMA TruthfulEarlySteps ==
  ASSUME TypeOK, Truthful,
         \/ ReconcileSkip \/ ReconcileDispatch \/ AbortViaCleaningUp \/ AbortNow
         \/ AbortCounted \/ ValidationFails \/ RecordStart \/ CheckpointStable
         \/ CheckpointCheckFails \/ CheckpointWaitTimeout
         \/ CheckpointNotStable \/ StartInjecting \/ InjectionRejected \/ DryRun
  PROVE  Truthful'
<1> USE FollowersLabels
<1>1. CASE ReconcileSkip
  BY <1>1 DEF ReconcileSkip, Truthful, API
<1>2. CASE ReconcileDispatch
  <2>1. mem' = Cached /\ pc' = Handler(Cached) /\ UNCHANGED <<spec, store>>
    BY <1>2 DEF ReconcileDispatch
  <2>2. API' = API
    BY <2>1 DEF API
  <2>3. pc' \in {"Observing", "CleaningUp", "cleanupDone"} => mem'.phase = pc'
    BY <2>1, TypeFacts DEF Handler, Run, Phases, Terminal
  <2>4. pc' # "cleanupDone"
    BY <2>1, TypeFacts DEF Handler, Run, Phases, Terminal
  <2>5. Sound(spec.scenario, mem') /\ Grows(mem', API)
    BY <2>1, ServerIsTruthful DEF Truthful, VersionsTruthful
  <2> QED
    BY <2>1, <2>2, <2>3, <2>4, <2>5 DEF Truthful
<1>3. CASE AbortViaCleaningUp
  <2> DEFINE run == TransitionPhase(SetCondition(mem, "AbortRequested"), "CleaningUp")
  <2>1. pc # "idle" /\ UNCHANGED spec /\ PatchStatus(run, "idle", now)
    BY <1>3 DEF AbortViaCleaningUp, Untouched
  <2>2. run \in Run
    BY <2>1, ReadVersion, PhaseHelpersType DEF ConditionTypes, Phases
  <2>3. Sound(spec.scenario, run) /\ Keeps(mem, run)
    BY <2>1, <2>2, ReadVersion
    DEF TransitionPhase, SetCondition, Run, Sound, Keeps, Grows, Decided
  <2> QED
    BY <2>1, <2>2, <2>3, TypeFacts, TruthfulAfterPatch
<1>4. CASE AbortNow
  <2> DEFINE run == AbortRun(SetCondition(mem, "AbortRequested"))
  <2>1. pc # "idle" /\ UNCHANGED spec /\ PatchStatus(run, "counted", NoTime)
    BY <1>4 DEF AbortNow, Untouched
  <2>2. run \in Run /\ Sound(spec.scenario, run) /\ Keeps(mem, run)
    BY <2>1, ReadVersion, EndsTruthful
  <2> QED
    BY <2>1, <2>2, TruthfulAfterPatch
<1>5. CASE AbortCounted
  BY <1>5, TruthfulWithoutWrite DEF AbortCounted, Untouched
<1>6. CASE ValidationFails \/ CheckpointWaitTimeout \/ InjectionRejected
  <2>1. pc # "idle" /\ UNCHANGED spec /\ PatchStatus(FailRun(mem), "idle", NoTime)
    BY <1>6 DEF ValidationFails, CheckpointWaitTimeout, InjectionRejected, Untouched
  <2>2. FailRun(mem) \in Run /\ Sound(spec.scenario, FailRun(mem))
        /\ Keeps(mem, FailRun(mem))
    BY <2>1, ReadVersion, EndsTruthful, PhaseHelpersType
  <2> QED
    BY <2>1, <2>2, TruthfulAfterPatch
<1>7. CASE RecordStart
  <2> DEFINE run == [mem EXCEPT !.startedAt = now]
  <2>1. pc # "idle" /\ UNCHANGED spec /\ mem \in Run
        /\ PatchStatus(run, IF spec.checkpoint THEN "checkpoint" ELSE "toInjecting",
                       NoTime)
    BY <1>7, TypeFacts DEF RecordStart, Untouched
  <2>2. run \in Run
    BY <2>1, TypeFacts DEF Run
  <2>3. Sound(spec.scenario, run) /\ Keeps(mem, run)
    BY <2>1, <2>2, ReadVersion, SameStatus DEF Keeps, Run
  <2> QED
    BY <2>1, <2>2, <2>3, TruthfulAfterPatch
<1>8. CASE CheckpointStable \/ CheckpointCheckFails
  BY <1>8, TruthfulWithoutWrite
  DEF CheckpointStable, CheckpointCheckFails, Fail, Untouched
<1>9. CASE CheckpointNotStable
  <2>1. pc # "idle" /\ UNCHANGED spec /\ spec \in RunSpec
        /\ PatchStatus(mem, "idle", RequeueAfter(spec.storedPoll))
    BY <1>9, TypeFacts DEF CheckpointNotStable, Untouched
  <2>2. RequeueAfter(spec.storedPoll) \in MaybeTime
    BY <2>1, TimeType DEF TypeOK, RunSpec
  <2>3. Keeps(mem, mem)
    BY GrowsOrder DEF Keeps
  <2> QED
    BY <2>1, <2>2, <2>3, ReadVersion, TruthfulAfterPatch
<1>10. CASE StartInjecting
  <2>1. pc # "idle" /\ UNCHANGED spec
        /\ PatchStatus(TransitionPhase(mem, "Injecting"), "idle", now)
    BY <1>10 DEF StartInjecting, Untouched
  <2>2. TransitionPhase(mem, "Injecting") \in Run
    BY <2>1, ReadVersion, PhaseHelpersType DEF Phases
  <2>3. /\ Sound(spec.scenario, TransitionPhase(mem, "Injecting"))
        /\ Keeps(mem, TransitionPhase(mem, "Injecting"))
    BY <2>1, ReadVersion DEF TransitionPhase, Run, Sound, Keeps, Grows, Decided
  <2> QED
    BY <2>1, <2>2, <2>3, TypeFacts, TruthfulAfterPatch
<1>11. CASE DryRun
  <2>1. pc # "idle" /\ UNCHANGED spec
        /\ PatchStatus(FinalizeRun(mem, "Inconclusive"), "idle", NoTime)
    BY <1>11 DEF DryRun, Untouched
  <2>2. /\ FinalizeRun(mem, "Inconclusive") \in Run
        /\ Sound(spec.scenario, FinalizeRun(mem, "Inconclusive"))
        /\ Keeps(mem, FinalizeRun(mem, "Inconclusive"))
    BY <2>1, ReadVersion, EndsTruthful DEF Verdicts
  <2> QED
    BY <2>1, <2>2, TruthfulAfterPatch
<1> QED
  BY <1>1, <1>2, <1>3, <1>4, <1>5, <1>6, <1>7, <1>8, <1>9, <1>10, <1>11

\* The injection, its record, the finalizer, and the start of the observation.
LEMMA TruthfulInjectionSteps ==
  ASSUME TypeOK, Truthful,
         \/ \E S \in SUBSET Units :
              Inject(S) \/ \E T, D \in SUBSET S : InjectFails(S, T, D)
         \/ RecordInjection \/ RecordFailure \/ AddFinalizer \/ TransitionToObserving
  PROVE  Truthful'
<1> USE FollowersLabels
<1>1. CASE \E S \in SUBSET Units :
            Inject(S) \/ \E T, D \in SUBSET S : InjectFails(S, T, D)
  <2>1. /\ pc # "idle" /\ UNCHANGED <<spec, store, mem>>
        /\ pc' \in {"recordInjection", "recordFailure"}
    BY <1>1 DEF Inject, InjectFails, Untouched
  <2> QED
    BY <2>1 DEF Truthful, API
<1>2. CASE RecordInjection
  <2>1. PICK run \in Run :
          /\ PatchStatus(run, "addFinalizer", NoTime)
          /\ run.phase = mem.phase /\ run.verdict = mem.verdict
          /\ run.conditions = mem.conditions /\ run.observingAt = mem.observingAt
          /\ run.replacement = mem.replacement /\ run.recovered = mem.recovered
    <3> DEFINE run == [mem EXCEPT
                   !.injected = TRUE,
                   !.records = IF NeedsCleanup(spec.scenario)
                               THEN result.units ELSE {},
                   !.injectedAt = IF InContainers(spec.scenario)
                                  THEN result.at ELSE NoTime]
    <3>1. run \in Run
      BY TypeFacts DEF Run, TypeOK, Result
    <3>2. PatchStatus(run, "addFinalizer", NoTime)
      BY <1>2 DEF RecordInjection
    <3>3. /\ run.phase = mem.phase /\ run.verdict = mem.verdict
          /\ run.conditions = mem.conditions /\ run.observingAt = mem.observingAt
          /\ run.replacement = mem.replacement /\ run.recovered = mem.recovered
      BY TypeFacts DEF Run
    <3> HIDE DEF run
    <3> QED
      BY <3>1, <3>2, <3>3
  <2>2. pc # "idle" /\ UNCHANGED spec
    BY <1>2 DEF RecordInjection, Untouched
  <2>3. Sound(spec.scenario, run) /\ Keeps(mem, run)
    BY <2>1, <2>2, ReadVersion, SameStatus DEF Keeps
  <2> QED
    BY <2>1, <2>2, <2>3, TruthfulAfterPatch
<1>3. CASE RecordFailure
  <2>1. PICK run \in Run :
          /\ PatchStatus(FailRun(run), "idle", NoTime)
          /\ run.phase = mem.phase /\ run.verdict = mem.verdict
          /\ run.conditions = mem.conditions /\ run.observingAt = mem.observingAt
          /\ run.replacement = mem.replacement /\ run.recovered = mem.recovered
    <3> DEFINE run == IF InContainers(spec.scenario) /\ result.units # {}
                      THEN [mem EXCEPT !.records = result.units,
                                       !.injectedAt = result.at]
                      ELSE mem
    <3>1. run \in Run
      BY TypeFacts DEF Run, TypeOK, Result
    <3>2. PatchStatus(FailRun(run), "idle", NoTime)
      BY <1>3 DEF RecordFailure
    <3>3. /\ run.phase = mem.phase /\ run.verdict = mem.verdict
          /\ run.conditions = mem.conditions /\ run.observingAt = mem.observingAt
          /\ run.replacement = mem.replacement /\ run.recovered = mem.recovered
      BY TypeFacts DEF Run
    <3> HIDE DEF run
    <3> QED
      BY <3>1, <3>2, <3>3
  <2>2. pc # "idle" /\ UNCHANGED spec
    BY <1>3 DEF RecordFailure, Untouched
  <2>3. Sound(spec.scenario, run) /\ mem \in Run
    BY <2>1, <2>2, ReadVersion, SameStatus
  <2>4. FailRun(run) \in Run /\ Sound(spec.scenario, FailRun(run))
        /\ Keeps(run, FailRun(run))
    BY <2>3, EndsTruthful, PhaseHelpersType
  <2>5. Keeps(mem, FailRun(run))
    BY <2>1, <2>4 DEF Keeps, Grows, Decided
  <2> QED
    BY <2>2, <2>1, <2>4, <2>5, TruthfulAfterPatch
<1>4. CASE AddFinalizer
  <2> DEFINE written == [API EXCEPT !.finalizer = TRUE]
  <2>1. UNCHANGED spec /\ Write(written, "toObserving", NoTime)
    BY <1>4 DEF AddFinalizer, Untouched
  <2>2. API \in Run /\ written \in Run
    BY TypeFacts DEF Run
  <2>3. Sound(spec.scenario, written) /\ Grows(API, written)
    BY <2>2, ServerIsTruthful, SameStatus DEF Truthful, VersionsTruthful, Run
  <2> QED
    BY <2>1, <2>2, <2>3, TruthfulAfterWrite
<1>5. CASE TransitionToObserving
  <2> DEFINE run == [TransitionPhase(mem, "Observing") EXCEPT !.observingAt = now]
             interval == IF pc = "Injecting" THEN spec.poll ELSE spec.storedPoll
  <2>1. pc # "idle" /\ UNCHANGED spec /\ spec \in RunSpec
        /\ PatchStatus(run, "idle", RequeueAfter(interval))
    BY <1>5, TypeFacts DEF TransitionToObserving, Untouched
  <2>2. RequeueAfter(interval) \in MaybeTime
    BY <2>1, TimeType DEF TypeOK, RunSpec
  <2>3. run \in Run
    BY TypeFacts DEF TransitionPhase, Run, Phases
  <2>4. Sound(spec.scenario, run) /\ Keeps(mem, run)
    BY <2>1, <2>3, ReadVersion, TypeFacts
    DEF TransitionPhase, Run, Sound, Keeps, Grows, Decided
  <2> HIDE DEF run, interval
  <2> QED
    BY <2>1, <2>2, <2>3, <2>4, TruthfulAfterPatch
<1> QED
  BY <1>1, <1>2, <1>3, <1>4, <1>5

\* An observation that is judged: its window, the partition's duration, a poll.
LEMMA TruthfulObservationSteps ==
  ASSUME TypeOK, Truthful, Judged,
         \/ ObservationDisabled \/ ObservationTimeout \/ PartitionElapsed
         \/ PartitionHeld \/ ObservationError
         \/ \E replacement \in BOOLEAN : NotRecovered(replacement)
         \/ RecoveryObserved
  PROVE  Truthful'
<1> USE FollowersLabels
<1>1. /\ pc = "Observing" /\ pc # "idle" /\ UNCHANGED spec
      /\ spec \in RunSpec /\ mem \in Run /\ Sound(spec.scenario, mem)
      /\ mem.phase = "Observing" /\ mem.observingAt # NoTime
      /\ now \in MaybeTime
  <2>1. pc = "Observing" /\ UNCHANGED spec
    BY DEF ObservationDisabled, ObservationTimeout, PartitionElapsed, PartitionHeld,
           ObservationError, NotRecovered, RecoveryObserved, Polls, Untouched
  <2> QED
    BY <2>1, ReadVersion, TypeFacts DEF Truthful, Sound
\* The end of an observation on this version: the cleanup, or the run's end.
<1>2. ASSUME NEW run \in Run, Sound(spec.scenario, TransitionPhase(run, "CleaningUp")),
             Keeps(mem, TransitionPhase(run, "CleaningUp")), StartCleaningUp(run)
      PROVE  Truthful'
  <2>1. TransitionPhase(run, "CleaningUp") \in Run
    BY PhaseHelpersType DEF Phases
  <2> QED
    BY <1>1, <1>2, <2>1, TruthfulAfterPatch DEF StartCleaningUp
<1>3. ASSUME NEW run \in Run, NEW verdict \in Verdicts, Finish(verdict, run),
             Sound(spec.scenario, FinalizeRun(run, verdict)),
             Keeps(mem, FinalizeRun(run, verdict))
      PROVE  Truthful'
  <2>1. FinalizeRun(run, verdict) \in Run
    BY PhaseHelpersType
  <2> QED
    BY <1>1, <1>3, <2>1, TruthfulAfterPatch DEF Finish
<1>4. CASE ObservationDisabled
  BY <1>4 DEF ObservationDisabled, Judged
<1>5. CASE ObservationTimeout
  <2>1. TimeoutVerdict \in Verdicts \ {""}
        /\ (TimeoutVerdict = "Passed" => mem.recovered)
    BY DEF TimeoutVerdict, Judged, Verdicts
  <2>2. CASE NeedsCleanup(spec.scenario)
    <3> DEFINE run == [mem EXCEPT !.verdict = TimeoutVerdict]
    <3>1. run \in Run
      BY <1>1, <2>1 DEF Run
    <3>2. /\ Sound(spec.scenario, TransitionPhase(run, "CleaningUp"))
          /\ Keeps(mem, TransitionPhase(run, "CleaningUp"))
      BY <1>1, <2>1 DEF TransitionPhase, Run, Sound, Keeps, Grows, Decided
    <3>3. StartCleaningUp(run)
      BY <1>5, <2>2 DEF ObservationTimeout
    <3> HIDE DEF run
    <3> QED
      BY <3>1, <3>2, <3>3, <1>2
  <2>3. CASE ~NeedsCleanup(spec.scenario)
    BY <1>1, <1>3, <1>5, <2>1, <2>3, EndsTruthful DEF ObservationTimeout
  <2> QED
    BY <2>2, <2>3
<1>6. CASE PartitionElapsed
  <2> DEFINE run == [mem EXCEPT !.verdict =
                       IF mem.replacement THEN "Passed" ELSE "Inconclusive"]
  <2>1. ~mem.replacement /\ StartCleaningUp(run)
    BY <1>1, <1>6 DEF PartitionElapsed, HoldsPartition, Sound
  <2>2. run \in Run
    BY <1>1, <2>1 DEF Run, Verdicts
  <2>3. /\ Sound(spec.scenario, TransitionPhase(run, "CleaningUp"))
        /\ Keeps(mem, TransitionPhase(run, "CleaningUp"))
    BY <1>1, <2>1 DEF TransitionPhase, Run, Sound, Keeps, Grows, Decided
  <2> HIDE DEF run
  <2> QED
    BY <2>1, <2>2, <2>3, <1>2
<1>7. CASE PartitionHeld
  <2> DEFINE remaining == mem.observingAt + spec.duration - now
  <2>1. PatchStatus(mem, "idle", RequeueAfter(remaining)) /\ remaining \in Nat
    BY <1>1, <1>7
    DEF PartitionHeld, HoldsPartition, Over, Run, RunSpec, MaybeTime, Time, TypeOK,
        NoTime
  <2>2. RequeueAfter(remaining) \in MaybeTime
    BY <2>1, TimeType DEF TypeOK
  <2>3. Keeps(mem, mem)
    BY GrowsOrder DEF Keeps
  <2> HIDE DEF remaining
  <2> QED
    BY <1>1, <2>1, <2>2, <2>3, TruthfulAfterPatch
<1>8. CASE ObservationError
  BY <1>1, <1>8, TruthfulWithoutWrite DEF ObservationError, Untouched
\* A partition with an observation start is held and never polled.
<1>9. Polls => spec.scenario # "NetworkPartition"
  BY <1>1 DEF Polls, HoldsPartition
<1>10. ASSUME NEW replacement \in BOOLEAN, NotRecovered(replacement)
       PROVE  Truthful'
  <2> DEFINE run == [mem EXCEPT !.replacement = replacement]
  <2>1. PatchStatus(run, "idle", RequeueAfter(spec.poll)) /\ Polls
    BY <1>10 DEF NotRecovered
  <2>2. RequeueAfter(spec.poll) \in MaybeTime
    BY <1>1, TimeType DEF TypeOK, RunSpec
  <2>3. run \in Run
    BY <1>1 DEF Run
  <2>4. Sound(spec.scenario, run) /\ Keeps(mem, run)
    BY <1>1, <1>9, <2>1, <2>3 DEF Run, Sound, Keeps, Grows, Decided
  <2> HIDE DEF run
  <2> QED
    BY <1>1, <2>1, <2>2, <2>3, <2>4, TruthfulAfterPatch
<1>11. CASE RecoveryObserved
  <2> DEFINE run == SetCondition([mem EXCEPT !.replacement = TRUE, !.recovered = TRUE],
                                 "RecoveryObserved")
  <2>1. Polls
    BY <1>11 DEF RecoveryObserved
  <2>2. run \in Run
    BY <1>1 DEF SetCondition, Run, ConditionTypes
  <2>3. CASE NeedsCleanup(spec.scenario)
    <3>1. /\ Sound(spec.scenario, TransitionPhase(run, "CleaningUp"))
          /\ Keeps(mem, TransitionPhase(run, "CleaningUp"))
      BY <1>1, <1>9, <2>1
      DEF TransitionPhase, SetCondition, Run, Sound, Keeps, Grows, Decided
    <3>2. StartCleaningUp(run)
      BY <1>11, <2>3 DEF RecoveryObserved
    <3> HIDE DEF run
    <3> QED
      BY <2>2, <3>1, <3>2, <1>2
  <2>4. CASE ~NeedsCleanup(spec.scenario)
    <3>1. /\ Sound(spec.scenario, FinalizeRun(run, "Passed"))
          /\ Keeps(mem, FinalizeRun(run, "Passed"))
      BY <1>1, <1>9, <2>1
      DEF FinalizeRun, SetCondition, Run, Sound, Keeps, Grows, Decided
    <3>2. Finish("Passed", run) /\ "Passed" \in Verdicts
      BY <1>11, <2>4 DEF RecoveryObserved, Verdicts
    <3> HIDE DEF run
    <3> QED
      BY <2>2, <3>1, <3>2, <1>3
  <2> QED
    BY <2>3, <2>4
<1> QED
  BY <1>4, <1>5, <1>6, <1>7, <1>8, <1>10, <1>11

\* The cleanup, in its own phase or of a run that is deleted.
LEMMA TruthfulCleanupSteps ==
  ASSUME TypeOK, Truthful, Judged,
         \/ CleanupTimeout \/ Cleanup \/ CleanupRetry \/ CleanupDone
         \/ RemoveFinalizer \/ CleanupOnDelete \/ RemoveOnDelete
  PROVE  Truthful'
<1> USE FollowersLabels
<1>1. CASE CleanupTimeout
  <2> DEFINE run == FailRun(ClearCondition(mem, "NetworkChaosCleanedUp"))
  <2>1. pc # "idle" /\ UNCHANGED spec /\ PatchStatus(run, "idle", NoTime)
    BY <1>1 DEF CleanupTimeout, Untouched
  <2>2. run \in Run /\ Sound(spec.scenario, run) /\ Keeps(mem, run)
    BY <2>1, ReadVersion, EndsTruthful
  <2> QED
    BY <2>1, <2>2, TruthfulAfterPatch
<1>2. CASE Cleanup
  <2>1. /\ pc = "CleaningUp" /\ pc' \in {"cleanupDone", "cleanupRetry"}
        /\ UNCHANGED <<spec, store, mem>>
    BY <1>2 DEF Cleanup
  <2> QED
    BY <2>1 DEF Truthful, API
<1>3. CASE CleanupRetry
  <2> DEFINE run == [mem EXCEPT !.records = result.units]
  <2>1. pc # "idle" /\ UNCHANGED spec /\ spec \in RunSpec
        /\ PatchStatus(run, "idle", RequeueAfter(spec.storedPoll))
    BY <1>3, TypeFacts DEF CleanupRetry, Untouched
  <2>2. RequeueAfter(spec.storedPoll) \in MaybeTime
    BY <2>1, TimeType DEF TypeOK, RunSpec
  <2>3. run \in Run
    BY TypeFacts DEF Run, TypeOK, Result
  <2>4. Sound(spec.scenario, run) /\ Keeps(mem, run)
    BY <2>1, <2>3, ReadVersion, SameStatus DEF Keeps, Run
  <2> HIDE DEF run
  <2> QED
    BY <2>1, <2>2, <2>3, <2>4, TruthfulAfterPatch
<1>4. CASE CleanupDone
  <2> DEFINE clean == SetCondition([mem EXCEPT !.records = {}],
                                   "NetworkChaosCleanedUp")
             run == IF "AbortRequested" \in mem.conditions THEN AbortRun(clean)
                    ELSE FinalizeRun(clean, IF mem.verdict = "" THEN "Passed"
                                            ELSE mem.verdict)
  <2>1. pc # "idle" /\ UNCHANGED spec /\ PatchStatus(run, "removeFinalizer", NoTime)
    BY <1>4 DEF CleanupDone, Untouched
  <2>2. mem \in Run /\ Sound(spec.scenario, mem) /\ Decided(mem)
    BY <1>4, ReadVersion DEF CleanupDone, Truthful, Sound
  <2>3. clean \in Run
    BY <2>2 DEF SetCondition, Run, ConditionTypes
  <2>4. run \in Run
    <3>1. (IF mem.verdict = "" THEN "Passed" ELSE mem.verdict) \in Verdicts
      BY <2>2 DEF Run, Verdicts
    <3> HIDE DEF clean
    <3> QED
      BY <2>3, <3>1, PhaseHelpersType
  <2>5. Sound(spec.scenario, run) /\ Keeps(mem, run)
    <3>1. CASE "AbortRequested" \in mem.conditions
      BY <2>2, <3>1
      DEF AbortRun, SetCondition, Run, Sound, Keeps, Grows, Decided
    \* No abort: what decides the end is a verdict or a recovery.
    <3>2. CASE "AbortRequested" \notin mem.conditions
      BY <2>2, <3>2
      DEF FinalizeRun, SetCondition, Run, Sound, Keeps, Grows, Decided
    <3> QED
      BY <3>1, <3>2
  <2> HIDE DEF run
  <2> QED
    BY <2>1, <2>4, <2>5, TruthfulAfterPatch
\* Taking the finalizer away changes nothing of the status.
<1>5. ASSUME Write(WithoutFinalizer(API), "idle", NoTime), UNCHANGED spec
      PROVE  Truthful'
  <2>1. API \in Run /\ WithoutFinalizer(API) \in Run
    BY TypeFacts, PhaseHelpersType
  <2>2. Sound(spec.scenario, API)
    BY ServerIsTruthful DEF Truthful, VersionsTruthful
  <2> DEFINE w == WithoutFinalizer(API)
  <2>3. /\ w.phase = API.phase /\ w.verdict = API.verdict
        /\ w.conditions = API.conditions /\ w.observingAt = API.observingAt
        /\ w.replacement = API.replacement /\ w.recovered = API.recovered
    BY <2>1 DEF WithoutFinalizer, Run
  <2> HIDE DEF w
  <2>4. Sound(spec.scenario, w) /\ Grows(API, w)
    BY <2>1, <2>2, <2>3, SameStatus DEF w
  <2> QED
    BY <1>5, <2>1, <2>4, TruthfulAfterWrite DEF w
<1>6. CASE RemoveFinalizer
  <2>1. CASE mem.finalizer /\ Cached.exists /\ Cached.finalizer
    BY <1>5, <1>6, <2>1 DEF RemoveFinalizer, Untouched
  <2>2. CASE ~(mem.finalizer /\ Cached.exists /\ Cached.finalizer)
    BY <1>6, <2>2, TruthfulWithoutWrite DEF RemoveFinalizer, Untouched
  <2> QED
    BY <2>1, <2>2
<1>7. CASE CleanupOnDelete
  <2>1. /\ pc # "idle" /\ UNCHANGED <<spec, store>>
        /\ pc' \in {"removeOnDelete", "idle"}
        /\ pc' # "idle" => mem' = mem
    BY <1>7 DEF CleanupOnDelete, Continue
  <2> QED
    BY <2>1 DEF Truthful, API
<1>8. CASE RemoveOnDelete
  BY <1>5, <1>8 DEF RemoveOnDelete, Untouched
<1> QED
  BY <1>1, <1>2, <1>3, <1>4, <1>6, <1>7, <1>8

\* Watch events, timers, restarts, users, containers and the clock.
LEMMA TruthfulEnvironmentSteps ==
  ASSUME TypeOK, Truthful, Environment
  PROVE  Truthful'
<1>1. CASE WatchEvent
  <2>1. /\ store' = Tail(store) /\ UNCHANGED <<spec, pc, mem>>
        /\ store \in Seq(Run) /\ Len(store) > 1
    BY <1>1 DEF WatchEvent, ControllerUnchanged, TypeOK
  <2>2. API' = API /\ Len(store') = Len(store) - 1
        /\ \A i \in 1 .. Len(store') : store'[i] = store[i + 1]
    BY <2>1, TailStore
  <2> QED
    BY <2>1, <2>2 DEF Truthful
<1>2. CASE Restart
  <2>1. store' = <<API>> /\ pc' = "idle" /\ UNCHANGED spec
    BY <1>2 DEF Restart
  <2>2. API' = API /\ Len(store') = 1 /\ store'[1] = API
    BY <2>1 DEF API
  <2>3. Sound(spec.scenario, API) /\ Grows(API, API)
    BY ServerIsTruthful, GrowsOrder DEF Truthful, VersionsTruthful
  <2> QED
    BY <2>1, <2>2, <2>3 DEF Truthful
\* What a user writes changes nothing of the status.
<1>3. ASSUME NEW written \in Run, store' = Push(written), UNCHANGED <<spec, pc, mem>>,
             written.phase = API.phase, written.verdict = API.verdict,
             written.conditions = API.conditions,
             written.observingAt = API.observingAt,
             written.replacement = API.replacement,
             written.recovered = API.recovered
      PROVE  Truthful'
  <2>1. API \in Run /\ Sound(spec.scenario, API)
    BY ServerIsTruthful, TypeFacts DEF Truthful, VersionsTruthful
  <2>2. Sound(spec.scenario, written) /\ Grows(API, written)
    BY <1>3, <2>1, SameStatus
  <2>3. VersionsTruthful' /\ API' = written
    BY <1>3, <2>2, WriteKeepsVersions, PushStore
    DEF Truthful, VersionsTruthful, TypeOK
  <2>4. pc # "idle" => Grows(mem, API')
    BY <2>2, <2>3, GrowsOrder DEF Truthful
  <2> QED
    BY <1>3, <2>3, <2>4 DEF Truthful, VersionsTruthful
<1>4. CASE UserAborts
  <2> DEFINE written == [API EXCEPT !.abort = TRUE]
  <2>1. /\ written \in Run
        /\ written.phase = API.phase /\ written.verdict = API.verdict
        /\ written.conditions = API.conditions
        /\ written.observingAt = API.observingAt
        /\ written.replacement = API.replacement
        /\ written.recovered = API.recovered
    BY TypeFacts DEF Run
  <2>2. store' = Push(written) /\ UNCHANGED <<spec, pc, mem>>
    BY <1>4 DEF UserAborts, ControllerUnchanged
  <2> HIDE DEF written
  <2> QED
    BY <1>3, <2>1, <2>2
<1>5. CASE UserDeletes
  <2> DEFINE written == [API EXCEPT !.deleting = TRUE, !.exists = API.finalizer]
  <2>1. /\ written \in Run
        /\ written.phase = API.phase /\ written.verdict = API.verdict
        /\ written.conditions = API.conditions
        /\ written.observingAt = API.observingAt
        /\ written.replacement = API.replacement
        /\ written.recovered = API.recovered
    BY TypeFacts DEF Run
  <2>2. store' = Push(written) /\ UNCHANGED <<spec, pc, mem>>
    BY <1>5 DEF UserDeletes, ControllerUnchanged
  <2> HIDE DEF written
  <2> QED
    BY <1>3, <2>1, <2>2
<1>6. CASE TimerFires \/ Tick \/ \E u \in Units : ContainerStarts(u) \/ ContainerEnds(u)
  <2>1. UNCHANGED <<spec, store, pc, mem>>
    BY <1>6 DEF TimerFires, Tick, ContainerStarts, ContainerEnds, ControllerUnchanged
  <2> QED
    BY <2>1 DEF Truthful, API
<1> QED
  BY <1>1, <1>2, <1>4, <1>5, <1>6 DEF Environment

\* However old the versions it reads, whatever calls fail, and however often it
\* restarts, the controller completes an observed run with Passed only when a
\* recovery has been observed; ResourceExhaustion passes without one.
THEOREM PassedRunsRecovered == Spec => []PassedMeansRecovered
<1>1. Init => (Judged => Truthful)
  <2> SUFFICES ASSUME Init
               PROVE  Truthful
    OBVIOUS
  <2>1. store = <<NewRun>> /\ Len(store) = 1 /\ store[1] = NewRun /\ API = NewRun
        /\ pc = "idle"
    BY DEF Init, API
  <2>2. Sound(spec.scenario, NewRun)
    BY DEF Sound, NewRun
  <2> QED
    BY <2>1, <2>2, GrowsOrder DEF Truthful
<1>2. TypeOK /\ (Judged => Truthful) /\ [Next]_vars => (Judged => Truthful)'
  <2> SUFFICES ASSUME TypeOK, Judged => Truthful, [Next]_vars, Judged'
               PROVE  Truthful'
    OBVIOUS
  <2>1. UNCHANGED spec
    BY DEF vars, Next, Step, Environment, Untouched, ControllerUnchanged,
       ReconcileSkip, ReconcileDispatch, AbortViaCleaningUp, AbortNow, AbortCounted,
       ValidationFails, RecordStart, CheckpointStable, CheckpointCheckFails,
       CheckpointWaitTimeout, CheckpointNotStable, StartInjecting, InjectionRejected,
       DryRun, Inject, InjectFails, RecordInjection, RecordFailure, AddFinalizer,
       TransitionToObserving, ObservationDisabled, ObservationTimeout,
       PartitionElapsed, PartitionHeld, ObservationError, NotRecovered,
       RecoveryObserved, CleanupTimeout, Cleanup, CleanupRetry, CleanupDone,
       RemoveFinalizer, CleanupOnDelete, RemoveOnDelete, WatchEvent, TimerFires,
       Restart, UserAborts, UserDeletes, ContainerStarts, ContainerEnds, Tick
  <2>2. Judged /\ Truthful
    BY <2>1 DEF Judged
  <2>3. CASE UNCHANGED vars
    BY <2>2, <2>3 DEF vars, Truthful, API
  <2>4. CASE Step
    BY <2>2, <2>4, TruthfulEarlySteps, TruthfulInjectionSteps,
       TruthfulObservationSteps, TruthfulCleanupSteps DEF Step
  <2>5. CASE Environment
    BY <2>2, <2>5, TruthfulEnvironmentSteps
  <2> QED
    BY <2>3, <2>4, <2>5 DEF Next
<1>3. TypeOK /\ (Judged => Truthful) => PassedMeansRecovered
  BY ServerIsTruthful
  DEF Judged, Truthful, VersionsTruthful, Sound, PassedMeansRecovered
<1> QED
  BY <1>1, <1>2, <1>3, TypeCorrect, PTL DEF Spec

-----------------------------------------------------------------------------
(* Policies. *)

Concluded == {"Completed", "Aborted"}

InjectCalls == {"Injecting", "recordInjection", "recordFailure", "addFinalizer",
                "toObserving"}
CleanupCalls == {"CleaningUp", "cleanupRetry", "cleanupDone"}

\* How a run may fail before it injects: only then is it Failed for a reader
\* that still finds it Pending.
FailsEarly(phase) == phase = "Failed" /\ (spec.checkpoint \/ ~spec.valid)

Starts(phase) == phase \in {"Pending", "Injecting"} \/ FailsEarly(phase)

\* What an earlier version u says of the abort and the phase of a later one.
Before(u, abort, phase) ==
  /\ u.abort => abort
  /\ u.phase # "Pending" => phase # "Pending"
  /\ u.phase = "CleaningUp" => phase # "Injecting"

\* The phases a run may have reached when a version u without an abort is still
\* to be read: a handler that reads u must not disrupt what has been concluded.
Reachable(u, phase) ==
  ~u.abort =>
    /\ u.phase = "Pending" => Starts(phase)
    /\ u.phase = "Injecting" => spec.dryRun \/ phase \notin Concluded

\* A version v that is still to be read when the reconcile has come to a call.
Unread(call, m, v) ==
  /\ call = "abort" => v.abort
  /\ call = "abort" /\ m.phase # "Pending" => v.phase # "Pending"
  /\ call \in InjectCalls \cup CleanupCalls \cup {"Observing"} => v.phase # "Pending"
  /\ call \in CleanupCalls => v.phase # "Injecting"

VersionsOrdered ==
  /\ \A i, j \in 1 .. Len(store) :
       i <= j => Before(store[i], store[j].abort, store[j].phase)
  /\ \A i \in 1 .. Len(store) :
       Reachable(store[i], API.phase) /\ Unread(pc, mem, store[i])

CallsOrdered ==
  /\ pc \in {"checkpoint", "toInjecting"} => mem.phase = API.phase
  /\ pc \in {"Pending", "checkpoint"} => Starts(API.phase)
  /\ pc = "checkpoint" => spec.checkpoint
  /\ pc = "toInjecting" => API.phase \in {"Pending", "Injecting"}
  /\ pc \in InjectCalls => spec.dryRun \/ API.phase \notin Concluded

\* Before the injection there are no policies, and after the cleanup none that
\* its list showed.
PoliciesOrdered ==
  /\ \A u \in Units : effect[u] = NoTime \/ effect[u] \in 0 .. now
  /\ \/ spec.dryRun
     \/ API.phase \in Concluded
     \/ pc \in {"cleanupDone", "removeOnDelete"}
     \/ pc = "abort" /\ mem.phase = "Pending"
     \/ \E i \in 1 .. Len(store) : store[i].phase = "Pending"
     => InEffect \subseteq unseen

Ordered == VersionsOrdered /\ CallsOrdered /\ PoliciesOrdered

\* The versions after a write: those before it and, if it was applied, the one
\* that was written.
LEMMA WrittenVersions ==
  ASSUME TypeOK, NEW written \in Run, store' = store \/ store' = Push(written)
  PROVE  \/ store' = store /\ API' = API
         \/ /\ API' = written /\ Len(store) \in Nat /\ Len(store') = Len(store) + 1
            /\ store'[Len(store')] = written
            /\ \A i \in 1 .. Len(store) : store'[i] = store[i]
            /\ \A i \in 1 .. Len(store') : i \in 1 .. Len(store) \/ i = Len(store')
<1>1. CASE store' = store
  BY <1>1 DEF API
<1>2. CASE store' = Append(store, written)
  <2>1. store \in Seq(Run) /\ Len(store') = Len(store) + 1 /\ API' = written
        /\ store'[Len(store')] = written
    BY <1>2 DEF TypeOK, API
  <2>2. \A i \in 1 .. Len(store) : store'[i] = store[i]
    BY <1>2 DEF TypeOK
  <2>3. \A i \in 1 .. Len(store') : i \in 1 .. Len(store) \/ i = Len(store')
    BY <2>1
  <2> QED
    BY <2>1, <2>2, <2>3
<1> QED
  BY <1>1, <1>2 DEF Push

\* The ends of the store are versions.
LEMMA EndsOfStore ==
  ASSUME TypeOK
  PROVE  /\ 1 \in 1 .. Len(store) /\ Len(store) \in 1 .. Len(store)
         /\ API = store[Len(store)] /\ Cached = store[1]
         /\ \A i \in 1 .. Len(store) : store[i] \in Run
BY DEF TypeOK, API, Cached

\* A phase a write may give to the run: the one it has, or one that every version
\* still to be read can live with.
MayBecome(phase) ==
  \/ phase = API.phase
  \/ /\ phase # "Pending" /\ (phase = "Injecting" => API.phase = "Pending")
     /\ phase \in Concluded => InEffect \subseteq unseen
     /\ \A i \in 1 .. Len(store) : Reachable(store[i], phase)

\* Such a write keeps the order, if the reconcile ends or comes to a call that
\* the version written allows.
LEMMA OrderedWrite ==
  ASSUME TypeOK, Ordered, UNCHANGED <<spec, effect, now, unseen>>,
         NEW written \in Run, store' = store \/ store' = Push(written),
         API.abort => written.abort, MayBecome(written.phase),
         \/ UNCHANGED <<pc, mem>> /\ written.phase = API.phase
         \/ pc' \in {"idle", "counted", "removeFinalizer"}
         \/ /\ pc' \in {"checkpoint", "toInjecting"} /\ mem' = API'
            /\ API'.phase = API.phase
            /\ pc' = "checkpoint" => spec.checkpoint /\ Starts(API.phase)
            /\ pc' = "toInjecting" => API.phase \in {"Pending", "Injecting"}
         \/ /\ pc \in InjectCalls /\ pc' \in {"addFinalizer", "toObserving"}
            /\ written.phase = API.phase
  PROVE  Ordered'
<1>1. \/ store' = store /\ API' = API
      \/ /\ API' = written /\ Len(store) \in Nat /\ Len(store') = Len(store) + 1
         /\ store'[Len(store')] = written
         /\ \A i \in 1 .. Len(store) : store'[i] = store[i]
         /\ \A i \in 1 .. Len(store') : i \in 1 .. Len(store) \/ i = Len(store')
  BY WrittenVersions
<1>2. Len(store) \in 1 .. Len(store) /\ API = store[Len(store)]
  BY EndsOfStore
<1>3. /\ \A u, phase : Reachable(u, phase)' = Reachable(u, phase)
      /\ \A phase : Starts(phase)' = Starts(phase)
  BY DEF Reachable, Starts, FailsEarly
<1>4. \A i \in 1 .. Len(store) :
        /\ Before(store[i], API.abort, API.phase)
        /\ Before(store[i], written.abort, written.phase)
        /\ Reachable(store[i], API.phase) /\ Reachable(store[i], written.phase)
  <2> SUFFICES ASSUME NEW i \in 1 .. Len(store)
               PROVE  /\ Before(store[i], API.abort, API.phase)
                      /\ Before(store[i], written.abort, written.phase)
                      /\ Reachable(store[i], API.phase)
                      /\ Reachable(store[i], written.phase)
    OBVIOUS
  <2>1. i <= Len(store)
    BY <1>2
  <2>2. Before(store[i], API.abort, API.phase) /\ Reachable(store[i], API.phase)
    BY <1>2, <2>1 DEF Ordered, VersionsOrdered
  <2>3. Reachable(store[i], written.phase)
    BY <2>2 DEF MayBecome
  <2>4. Before(store[i], written.abort, written.phase)
    BY <2>2 DEF MayBecome, Before
  <2> QED
    BY <2>2, <2>3, <2>4
<1>5. \A i, j \in 1 .. Len(store') :
        i <= j => Before(store'[i], store'[j].abort, store'[j].phase)
  <2>1. CASE store' = store
    BY <2>1 DEF Ordered, VersionsOrdered
  <2>2. CASE store' # store
    <3> SUFFICES ASSUME NEW i \in 1 .. Len(store'), NEW j \in 1 .. Len(store'), i <= j
                 PROVE  Before(store'[i], store'[j].abort, store'[j].phase)
      OBVIOUS
    <3>1. CASE j = Len(store') /\ i \in 1 .. Len(store)
      BY <1>1, <1>4, <2>2, <3>1
    <3>2. CASE j = Len(store') /\ i = Len(store')
      BY <1>1, <2>2, <3>2 DEF Before
    <3>3. CASE i \in 1 .. Len(store) /\ j \in 1 .. Len(store)
      BY <1>1, <2>2, <3>3 DEF Ordered, VersionsOrdered
    <3>4. i = Len(store') => j = Len(store')
      BY <1>1, <2>2
    <3> QED
      BY <1>1, <2>2, <3>1, <3>2, <3>3, <3>4
  <2> QED
    BY <2>1, <2>2
<1>6. \A i \in 1 .. Len(store') : Reachable(store'[i], API'.phase)
  <2>1. Reachable(written, written.phase)
    <3>1. written.phase = API.phase => Reachable(written, written.phase)
      BY <1>2 DEF Ordered, VersionsOrdered, Reachable
    <3>2. written.phase # API.phase => written.phase # "Pending"
      BY DEF MayBecome
    <3> QED
      BY <3>1, <3>2 DEF Reachable, Concluded
  <2> QED
    BY <1>1, <1>4, <2>1
<1>7. \A i \in 1 .. Len(store') : Unread(pc', mem', store'[i])
  <2>1. CASE pc' \in {"idle", "counted", "removeFinalizer", "checkpoint", "toInjecting"}
    BY <2>1 DEF Unread, InjectCalls, CleanupCalls
  <2>2. CASE UNCHANGED <<pc, mem>> /\ written.phase = API.phase
    <3>1. Unread(pc, mem, API) => Unread(pc, mem, written)
      BY <2>2 DEF Unread
    <3> QED
      BY <1>1, <1>2, <2>2, <3>1 DEF Ordered, VersionsOrdered
  <2>3. CASE /\ pc \in InjectCalls /\ pc' \in {"addFinalizer", "toObserving"}
             /\ written.phase = API.phase
    <3>1. \A v : Unread(pc, mem, v) => Unread(pc', mem', v)
      BY <2>3 DEF Unread, InjectCalls, CleanupCalls
    <3>2. Unread(pc, mem, API) => Unread(pc', mem', written)
      BY <2>3 DEF Unread, InjectCalls, CleanupCalls
    <3> QED
      BY <1>1, <1>2, <3>1, <3>2 DEF Ordered, VersionsOrdered
  <2> QED
    BY <2>1, <2>2, <2>3
<1>8. CallsOrdered'
  <2>1. API'.phase \in {API.phase, written.phase}
    BY <1>1
  <2> QED
    BY <1>3, <2>1 DEF Ordered, CallsOrdered, InjectCalls
<1>9. PoliciesOrdered'
  <2>1. InEffect' = InEffect
    BY DEF InEffect
  <2>2. (\E i \in 1 .. Len(store') : store'[i].phase = "Pending")
          => InEffect \subseteq unseen
    BY <1>1, <1>2 DEF Ordered, PoliciesOrdered, MayBecome
  <2>3. API'.phase \in Concluded => InEffect \subseteq unseen
    BY <1>1 DEF Ordered, PoliciesOrdered, MayBecome
  <2>4. pc' \in {"cleanupDone", "removeOnDelete", "abort"} => UNCHANGED <<pc, mem>>
    BY DEF InjectCalls
  <2> QED
    BY <2>1, <2>2, <2>3, <2>4 DEF Ordered, PoliciesOrdered
<1> QED
  BY <1>3, <1>5, <1>6, <1>7, <1>8, <1>9 DEF Ordered, VersionsOrdered

\* The same for a status patch: the phase it leaves is the server's or its own.
LEMMA OrderedPatch ==
  ASSUME TypeOK, Ordered, UNCHANGED <<spec, effect, now, unseen>>,
         NEW run \in Run, NEW next \in Labels, NEW wake \in MaybeTime,
         PatchStatus(run, next, wake), run.phase = mem.phase \/ MayBecome(run.phase),
         \/ next \in {"idle", "counted", "removeFinalizer"}
         \/ /\ next \in {"checkpoint", "toInjecting"} /\ run.phase = mem.phase
            /\ next = "checkpoint" => spec.checkpoint /\ Starts(API.phase)
            /\ next = "toInjecting" => API.phase \in {"Pending", "Injecting"}
         \/ /\ pc \in InjectCalls /\ next \in {"addFinalizer", "toObserving"}
            /\ run.phase = mem.phase
  PROVE  Ordered'
<1> DEFINE written == MergeStatus(mem, run, API)
<1>1. API \in Run /\ mem \in Run /\ written \in Run
  BY TypeFacts, MergeType
<1>2. Write(written, next, wake)
  BY DEF PatchStatus
<1>3. written.abort = API.abort /\ written.phase = Changed(mem.phase, run.phase, API.phase)
  BY <1>1 DEF MergeStatus, Run
<1> HIDE DEF written
<1>4. store' = store \/ store' = Push(written)
  BY <1>2, WriteStore
<1>5. MayBecome(written.phase) /\ (run.phase = mem.phase => written.phase = API.phase)
  BY <1>3 DEF Changed, MayBecome
<1>6. \/ pc' = next /\ API' = written /\ (next # "idle" => mem' = written)
      \/ pc' = "idle"
  BY <1>1, <1>2, WriteOutcome
<1>7. CASE pc' = "idle" \/ next \in {"idle", "counted", "removeFinalizer"}
  BY <1>1, <1>3, <1>4, <1>5, <1>6, <1>7, OrderedWrite
<1>8. CASE /\ pc' # "idle" /\ next \in {"checkpoint", "toInjecting"}
           /\ run.phase = mem.phase
           /\ next = "checkpoint" => spec.checkpoint /\ Starts(API.phase)
           /\ next = "toInjecting" => API.phase \in {"Pending", "Injecting"}
  BY <1>1, <1>3, <1>4, <1>5, <1>6, <1>8, OrderedWrite
<1>9. CASE /\ pc' # "idle" /\ pc \in InjectCalls
           /\ next \in {"addFinalizer", "toObserving"} /\ run.phase = mem.phase
  BY <1>1, <1>3, <1>4, <1>5, <1>6, <1>9, OrderedWrite
<1> QED
  BY <1>7, <1>8, <1>9

\* A step without a write keeps the order, if it adds policies only while it
\* injects, and comes to the end of a cleanup only when none is left that its list
\* showed.
LEMMA OrderedWithoutWrite ==
  ASSUME TypeOK, Ordered, UNCHANGED <<spec, store>>, now' \in {now, now + 1},
         \/ UNCHANGED effect
         \/ \A u \in Units : effect'[u] \in {NoTime, effect[u], now},
         \/ InEffect' \subseteq InEffect /\ unseen' = unseen
         \/ InEffect' \subseteq unseen'
         \/ /\ pc = "Injecting" /\ ~spec.dryRun
            /\ pc' \in {"recordInjection", "recordFailure"},
         \/ UNCHANGED <<pc, mem>>
         \/ pc' = "idle"
         \/ /\ pc = "checkpoint" /\ pc' = "toInjecting" /\ mem' = mem
            /\ mem.phase # "Failed"
         \/ pc = "Injecting" /\ pc' \in {"recordInjection", "recordFailure"}
         \/ pc = "CleaningUp" /\ pc' = "cleanupRetry"
         \/ pc = "CleaningUp" /\ pc' = "cleanupDone"
            /\ InEffect' \subseteq unseen'
         \/ pc' = "removeOnDelete" /\ InEffect' \subseteq unseen'
  PROVE  Ordered'
<1>1. API' = API
  BY DEF API
<1>2. /\ \A u, phase : Reachable(u, phase)' = Reachable(u, phase)
      /\ \A phase : Starts(phase)' = Starts(phase)
  BY DEF Reachable, Starts, FailsEarly
<1>3. \A v : Unread(pc, mem, v) => Unread(pc', mem', v)
  BY DEF Unread, InjectCalls, CleanupCalls
<1>4. VersionsOrdered'
  BY <1>1, <1>2, <1>3 DEF Ordered, VersionsOrdered
<1>5. CallsOrdered'
  <2>1. pc = "checkpoint" /\ mem.phase # "Failed" => API.phase \in {"Pending", "Injecting"}
    BY DEF Ordered, CallsOrdered, Starts, FailsEarly
  <2> QED
    BY <1>1, <1>2, <2>1 DEF Ordered, CallsOrdered, InjectCalls
<1>6. PoliciesOrdered'
  <2>1. \A u \in Units : effect'[u] = NoTime \/ effect'[u] \in 0 .. now'
    BY DEF Ordered, PoliciesOrdered, TypeOK, Time
  <2>2. CASE InEffect' \subseteq InEffect /\ unseen' = unseen
    BY <1>1, <2>1, <2>2 DEF Ordered, PoliciesOrdered
  <2>4. CASE InEffect' \subseteq unseen'
    BY <2>1, <2>4 DEF PoliciesOrdered
  <2>3. CASE /\ pc = "Injecting" /\ ~spec.dryRun
             /\ pc' \in {"recordInjection", "recordFailure"}
    <3>1. API.phase \notin Concluded
      BY <2>3 DEF Ordered, CallsOrdered, InjectCalls
    <3>2. \A i \in 1 .. Len(store) : store[i].phase # "Pending"
      BY <2>3 DEF Ordered, VersionsOrdered, Unread, InjectCalls
    <3> QED
      BY <1>1, <2>1, <2>3, <3>1, <3>2 DEF PoliciesOrdered
  <2> QED
    BY <2>2, <2>3, <2>4
<1> QED
  BY <1>4, <1>5, <1>6 DEF Ordered

\* What a reconcile makes of the version it reads.
LEMMA OrderedDispatch ==
  ASSUME TypeOK, Ordered, ReconcileDispatch
  PROVE  Ordered'
<1>1. /\ mem' = Cached /\ pc' = Handler(Cached)
      /\ UNCHANGED <<spec, store, effect, now, unseen>>
  BY DEF ReconcileDispatch
<1>2. API' = API /\ InEffect' = InEffect
  BY <1>1 DEF API, InEffect
<1>3. Cached \in Run /\ Cached = store[1] /\ 1 \in 1 .. Len(store)
  BY EndsOfStore, TypeFacts
<1>4. /\ \A i \in 1 .. Len(store) : Before(Cached, store[i].abort, store[i].phase)
      /\ Reachable(Cached, API.phase)
  BY <1>3 DEF Ordered, VersionsOrdered
<1>5. \/ pc' = "deleteCleanup"
      \/ pc' = "abort" /\ Cached.abort
      \/ pc' = "CleaningUp" /\ Cached.phase = "CleaningUp"
      \/ /\ pc' \in {"Pending", "Injecting", "Observing"} /\ pc' = Cached.phase
         /\ ~Cached.abort
  BY <1>1, <1>3 DEF ReconcileDispatch, Handler, IsTerminal, Run, Phases
<1>6. /\ \A u, phase : Reachable(u, phase)' = Reachable(u, phase)
      /\ \A phase : Starts(phase)' = Starts(phase)
  BY <1>1 DEF Reachable, Starts, FailsEarly
<1>7. \A i \in 1 .. Len(store) : Unread(pc', mem', store[i])
  BY <1>1, <1>4, <1>5 DEF Unread, Before, InjectCalls, CleanupCalls
<1>8. VersionsOrdered'
  BY <1>1, <1>2, <1>6, <1>7 DEF Ordered, VersionsOrdered
<1>9. CallsOrdered'
  BY <1>1, <1>2, <1>4, <1>5, <1>6 DEF CallsOrdered, Reachable, InjectCalls
<1>10. PoliciesOrdered'
  BY <1>1, <1>2, <1>3, <1>5 DEF Ordered, PoliciesOrdered
<1> QED
  BY <1>8, <1>9, <1>10 DEF Ordered

-----------------------------------------------------------------------------
(* The steps of a reconcile of a partition. *)

\* The phases a handler may write.
LEMMA MayEnd ==
  ASSUME Ordered, spec.scenario = "NetworkPartition"
  PROVE  /\ pc = "abort" => MayBecome("CleaningUp")
         /\ pc = "abort" /\ mem.phase = "Pending" => MayBecome("Aborted")
         /\ pc = "Pending" /\ ~spec.valid => MayBecome("Failed")
         /\ pc = "checkpoint" => MayBecome("Failed")
         /\ pc = "toInjecting" => MayBecome("Injecting")
         /\ pc \in InjectCalls \cup CleanupCalls => MayBecome("Failed")
         /\ pc \in InjectCalls /\ spec.dryRun => MayBecome("Completed")
         /\ pc \in InjectCalls => MayBecome("Observing")
         /\ pc = "Observing" => MayBecome("CleaningUp")
         /\ pc = "cleanupDone" => MayBecome("Completed") /\ MayBecome("Aborted")
<1>1. \A i \in 1 .. Len(store) : Unread(pc, mem, store[i])
  BY DEF Ordered, VersionsOrdered
<1>2. pc = "abort" => MayBecome("CleaningUp")
  BY <1>1 DEF MayBecome, Unread, Reachable, Concluded
<1>3. pc = "abort" /\ mem.phase = "Pending" => MayBecome("Aborted")
  BY <1>1 DEF MayBecome, Unread, Reachable, Ordered, PoliciesOrdered
<1>4. pc = "Pending" /\ ~spec.valid => MayBecome("Failed")
  BY DEF MayBecome, Reachable, Starts, FailsEarly, Concluded
<1>5. pc = "checkpoint" => MayBecome("Failed")
  BY DEF MayBecome, Reachable, Starts, FailsEarly, Concluded, Ordered, CallsOrdered
<1>6. pc = "toInjecting" => MayBecome("Injecting")
  BY DEF MayBecome, Reachable, Starts, Concluded, Ordered, CallsOrdered
<1>7. pc \in InjectCalls \cup CleanupCalls => MayBecome("Failed")
  BY <1>1 DEF MayBecome, Unread, Reachable, Concluded
<1>8. pc \in InjectCalls /\ spec.dryRun => MayBecome("Completed")
  BY <1>1 DEF MayBecome, Unread, Reachable, Ordered, PoliciesOrdered
<1>9. pc \in InjectCalls => MayBecome("Observing")
  BY <1>1 DEF MayBecome, Unread, Reachable, Concluded
<1>10. pc = "Observing" => MayBecome("CleaningUp")
  BY <1>1 DEF MayBecome, Unread, Reachable, Concluded
<1>11. pc = "cleanupDone" => MayBecome("Completed") /\ MayBecome("Aborted")
  BY <1>1 DEF MayBecome, Unread, Reachable, CleanupCalls, Ordered, PoliciesOrdered
<1> QED
  BY <1>2, <1>3, <1>4, <1>5, <1>6, <1>7, <1>8, <1>9, <1>10, <1>11

\* What a patch of a handler says of the phase.
LEMMA WrittenPhases ==
  ASSUME NEW run \in Run
  PROVE  /\ \A phase \in Phases : TransitionPhase(run, phase).phase = phase
         /\ FailRun(run).phase = "Failed" /\ AbortRun(run).phase = "Aborted"
         /\ \A verdict : FinalizeRun(run, verdict).phase = "Completed"
         /\ \A type : /\ SetCondition(run, type).phase = run.phase
                      /\ ClearCondition(run, type).phase = run.phase
BY DEF Run, TransitionPhase, FailRun, AbortRun, FinalizeRun, SetCondition,
       ClearCondition

\* The labels a partition's step may continue with, and the times it may ask for.
LEMMA CallLabels ==
  /\ {"idle", "counted", "checkpoint", "toInjecting", "addFinalizer",
      "toObserving", "removeFinalizer"} \subseteq Labels
  /\ NoTime \in MaybeTime
BY DEF Labels, MaybeTime

\* A patch that ends the reconcile and gives the run a phase it may have.
LEMMA OrderedEnd ==
  ASSUME TypeOK, Ordered, UNCHANGED <<spec, effect, now, unseen>>, NEW run \in Run,
         NEW next \in {"idle", "counted", "removeFinalizer"}, NEW wake \in MaybeTime,
         PatchStatus(run, next, wake), run.phase = mem.phase \/ MayBecome(run.phase)
  PROVE  Ordered'
BY OrderedPatch, CallLabels

\* Aborting a run, and everything before an injection.
LEMMA OrderedEarlySteps ==
  ASSUME TypeOK, Ordered, spec.scenario = "NetworkPartition",
         \/ ReconcileSkip \/ ReconcileDispatch \/ AbortViaCleaningUp \/ AbortNow
         \/ AbortCounted \/ ValidationFails \/ RecordStart \/ CheckpointStable
         \/ CheckpointCheckFails \/ CheckpointWaitTimeout
         \/ CheckpointNotStable \/ StartInjecting \/ InjectionRejected \/ DryRun
  PROVE  Ordered'
<1>1. mem \in Run /\ spec \in RunSpec /\ now \in MaybeTime /\ NoTime \in MaybeTime
  BY TypeFacts
<1>2. CASE ReconcileSkip \/ AbortCounted \/ CheckpointStable \/ CheckpointCheckFails
  <2>1. /\ UNCHANGED <<spec, store, effect, now, unseen>>
        /\ \/ UNCHANGED <<pc, mem>> \/ pc' = "idle"
           \/ /\ pc = "checkpoint" /\ pc' = "toInjecting" /\ mem' = mem
              /\ mem.phase # "Failed"
    BY <1>2 DEF ReconcileSkip, AbortCounted, CheckpointStable, CheckpointCheckFails,
       Fail, Continue, Untouched
  <2> QED
    BY <2>1, OrderedWithoutWrite DEF InEffect
<1>3. CASE ReconcileDispatch
  BY <1>3, OrderedDispatch
<1>4. CASE AbortViaCleaningUp
  <2> DEFINE run == TransitionPhase(SetCondition(mem, "AbortRequested"), "CleaningUp")
  <2>1. pc = "abort" /\ PatchStatus(run, "idle", now)
        /\ UNCHANGED <<spec, effect, now, unseen>>
    BY <1>4 DEF AbortViaCleaningUp, Untouched
  <2>2. run \in Run /\ run.phase = "CleaningUp"
    <3>1. SetCondition(mem, "AbortRequested") \in Run /\ "CleaningUp" \in Phases
      BY <1>1, PhaseHelpersType DEF ConditionTypes, Phases
    <3> QED
      BY <3>1, PhaseHelpersType, WrittenPhases
  <2> HIDE DEF run
  <2> QED
    BY <1>1, <2>1, <2>2, MayEnd, OrderedEnd
<1>5. CASE AbortNow
  <2> DEFINE run == AbortRun(SetCondition(mem, "AbortRequested"))
  <2>1. pc = "abort" /\ PatchStatus(run, "counted", NoTime) /\ mem.phase = "Pending"
        /\ UNCHANGED <<spec, effect, now, unseen>>
    BY <1>5 DEF AbortNow, Untouched, HasInjectedResources, NeedsCleanup
  <2>2. run \in Run /\ run.phase = "Aborted"
    <3>1. SetCondition(mem, "AbortRequested") \in Run
      BY <1>1, PhaseHelpersType DEF ConditionTypes
    <3> QED
      BY <3>1, PhaseHelpersType, WrittenPhases
  <2> HIDE DEF run
  <2> QED
    BY <1>1, <2>1, <2>2, MayEnd, OrderedEnd
<1>6. CASE ValidationFails \/ CheckpointWaitTimeout \/ InjectionRejected
  <2>1. /\ PatchStatus(FailRun(mem), "idle", NoTime)
        /\ UNCHANGED <<spec, effect, now, unseen>>
        /\ \/ pc = "Pending" /\ ~spec.valid
           \/ pc = "checkpoint"
           \/ pc \in InjectCalls
    BY <1>6 DEF ValidationFails, CheckpointWaitTimeout, InjectionRejected, Untouched,
       InjectCalls
  <2>2. FailRun(mem) \in Run /\ FailRun(mem).phase = "Failed"
    BY <1>1, PhaseHelpersType, WrittenPhases
  <2> QED
    BY <1>1, <2>1, <2>2, MayEnd, OrderedEnd
<1>7. CASE RecordStart
  <2> DEFINE run == [mem EXCEPT !.startedAt = now]
  <2>1. /\ pc = "Pending" /\ spec.valid /\ UNCHANGED <<spec, effect, now, unseen>>
        /\ PatchStatus(run, IF spec.checkpoint THEN "checkpoint" ELSE "toInjecting",
                       NoTime)
    BY <1>7 DEF RecordStart, Untouched
  <2>2. run \in Run /\ run.phase = mem.phase
    BY <1>1 DEF Run
  <2>3. Starts(API.phase)
    BY <2>1 DEF Ordered, CallsOrdered
  <2>4. ~spec.checkpoint => API.phase \in {"Pending", "Injecting"}
    BY <2>1, <2>3 DEF Starts, FailsEarly
  <2> HIDE DEF run
  <2>5. CASE spec.checkpoint
    BY <1>1, <2>1, <2>2, <2>3, <2>5, OrderedPatch, CallLabels
  <2>6. CASE ~spec.checkpoint
    BY <1>1, <2>1, <2>2, <2>4, <2>6, OrderedPatch, CallLabels
  <2> QED
    BY <2>5, <2>6
<1>8. CASE CheckpointNotStable
  <2>1. PatchStatus(mem, "idle", RequeueAfter(spec.storedPoll))
        /\ UNCHANGED <<spec, effect, now, unseen>>
    BY <1>8 DEF CheckpointNotStable, Untouched
  <2>2. RequeueAfter(spec.storedPoll) \in MaybeTime
    BY <1>1, TimeType DEF TypeOK, RunSpec
  <2> QED
    BY <1>1, <2>1, <2>2, OrderedEnd
<1>9. CASE StartInjecting
  <2>1. pc = "toInjecting" /\ PatchStatus(TransitionPhase(mem, "Injecting"), "idle", now)
        /\ UNCHANGED <<spec, effect, now, unseen>>
    BY <1>9 DEF StartInjecting, Untouched
  <2>2. /\ TransitionPhase(mem, "Injecting") \in Run
        /\ TransitionPhase(mem, "Injecting").phase = "Injecting"
    BY <1>1, PhaseHelpersType, WrittenPhases DEF Phases
  <2> QED
    BY <1>1, <2>1, <2>2, MayEnd, OrderedEnd
<1>10. CASE DryRun
  <2>1. /\ pc \in InjectCalls /\ spec.dryRun /\ UNCHANGED <<spec, effect, now, unseen>>
        /\ PatchStatus(FinalizeRun(mem, "Inconclusive"), "idle", NoTime)
    BY <1>10 DEF DryRun, Untouched, InjectCalls
  <2>2. /\ FinalizeRun(mem, "Inconclusive") \in Run
        /\ FinalizeRun(mem, "Inconclusive").phase = "Completed"
    BY <1>1, PhaseHelpersType, WrittenPhases DEF Verdicts
  <2> QED
    BY <1>1, <2>1, <2>2, MayEnd, OrderedEnd
<1> QED
  BY <1>2, <1>3, <1>4, <1>5, <1>6, <1>7, <1>8, <1>9, <1>10

\* The injection, its record, the finalizer, and the start of the observation.
LEMMA OrderedInjectionSteps ==
  ASSUME TypeOK, Ordered, spec.scenario = "NetworkPartition",
         \/ \E S \in SUBSET Units :
              Inject(S) \/ \E T, D \in SUBSET S : InjectFails(S, T, D)
         \/ RecordInjection \/ RecordFailure \/ AddFinalizer \/ TransitionToObserving
  PROVE  Ordered'
<1>1. mem \in Run /\ API \in Run /\ spec \in RunSpec /\ NoTime \in MaybeTime
  BY TypeFacts
<1>2. CASE \E S \in SUBSET Units :
            Inject(S) \/ \E T, D \in SUBSET S : InjectFails(S, T, D)
  <2>1. PICK S : Disrupt(S)
    BY <1>2 DEF Inject, InjectFails, AlreadyInjected, InContainers
  <2>2. \A u \in Units : effect'[u] \in {NoTime, effect[u], now}
    BY <2>1 DEF Disrupt, InContainers
  <2>3. /\ pc = "Injecting" /\ ~spec.dryRun
        /\ pc' \in {"recordInjection", "recordFailure"}
        /\ UNCHANGED <<spec, store, now>>
    BY <1>2 DEF Inject, InjectFails, Untouched
  <2> QED
    BY <2>2, <2>3, OrderedWithoutWrite
<1>3. CASE RecordInjection
  <2> DEFINE run == [mem EXCEPT
                 !.injected = TRUE,
                 !.records = IF NeedsCleanup(spec.scenario)
                             THEN result.units ELSE {},
                 !.injectedAt = IF InContainers(spec.scenario)
                                THEN result.at ELSE NoTime]
  <2>1. run \in Run /\ run.phase = mem.phase
    BY <1>1 DEF Run, TypeOK, Result
  <2>2. PatchStatus(run, "addFinalizer", NoTime) /\ pc \in InjectCalls
        /\ UNCHANGED <<spec, effect, now, unseen>>
    BY <1>3 DEF RecordInjection, Untouched, InjectCalls
  <2> HIDE DEF run
  <2> QED
    BY <1>1, <2>1, <2>2, OrderedPatch, CallLabels
<1>4. CASE RecordFailure
  <2>1. PatchStatus(FailRun(mem), "idle", NoTime) /\ pc \in InjectCalls
        /\ UNCHANGED <<spec, effect, now, unseen>>
    BY <1>4 DEF RecordFailure, Untouched, InjectCalls, InContainers
  <2>2. FailRun(mem) \in Run /\ FailRun(mem).phase = "Failed"
    BY <1>1, PhaseHelpersType, WrittenPhases
  <2> QED
    BY <1>1, <2>1, <2>2, MayEnd, OrderedEnd
<1>5. CASE AddFinalizer
  <2> DEFINE written == [API EXCEPT !.finalizer = TRUE]
  <2>1. Write(written, "toObserving", NoTime) /\ pc \in InjectCalls
        /\ UNCHANGED <<spec, effect, now, unseen>>
    BY <1>5 DEF AddFinalizer, Untouched, InjectCalls
  <2>2. written \in Run /\ written.abort = API.abort /\ written.phase = API.phase
    BY <1>1 DEF Run
  <2> HIDE DEF written
  <2>3. store' = store \/ store' = Push(written)
    BY <2>1, WriteStore
  <2>4. pc' \in {"idle", "toObserving"}
    BY <1>1, <2>1, <2>2, WriteOutcome, CallLabels
  <2> QED
    BY <2>1, <2>2, <2>3, <2>4, OrderedWrite DEF MayBecome
<1>6. CASE TransitionToObserving
  <2> DEFINE run == [TransitionPhase(mem, "Observing") EXCEPT !.observingAt = now]
             interval == IF pc = "Injecting" THEN spec.poll ELSE spec.storedPoll
  <2>1. pc \in InjectCalls /\ PatchStatus(run, "idle", RequeueAfter(interval))
        /\ UNCHANGED <<spec, effect, now, unseen>>
    BY <1>6 DEF TransitionToObserving, Untouched, InjectCalls
  <2>2. RequeueAfter(interval) \in MaybeTime
    BY <1>1, TimeType DEF TypeOK, RunSpec
  <2>3. run \in Run /\ run.phase = "Observing"
    BY <1>1, TypeFacts DEF TransitionPhase, Run, Phases
  <2> HIDE DEF run, interval
  <2> QED
    BY <1>1, <2>1, <2>2, <2>3, MayEnd, OrderedEnd
<1> QED
  BY <1>2, <1>3, <1>4, <1>5, <1>6

\* The end of the observation of a partition: its window, its duration, a poll.
LEMMA OrderedObservationSteps ==
  ASSUME TypeOK, Ordered, spec.scenario = "NetworkPartition",
         \/ ObservationDisabled \/ ObservationTimeout \/ PartitionElapsed
         \/ PartitionHeld \/ ObservationError
         \/ \E replacement \in BOOLEAN : NotRecovered(replacement)
         \/ RecoveryObserved
  PROVE  Ordered'
<1>1. mem \in Run /\ spec \in RunSpec /\ now \in MaybeTime
  BY TypeFacts
<1>2. ASSUME NEW run \in Run, StartCleaningUp(run), pc = "Observing",
             UNCHANGED <<spec, effect, now, unseen>>
      PROVE  Ordered'
  <2>1. /\ TransitionPhase(run, "CleaningUp") \in Run
        /\ TransitionPhase(run, "CleaningUp").phase = "CleaningUp"
    BY PhaseHelpersType, WrittenPhases DEF Phases
  <2> QED
    BY <1>1, <1>2, <2>1, MayEnd, OrderedEnd DEF StartCleaningUp
<1>3. CASE ObservationDisabled
  BY <1>1, <1>2, <1>3 DEF ObservationDisabled, NeedsCleanup, Untouched
<1>4. CASE ObservationTimeout
  <2>1. [mem EXCEPT !.verdict = TimeoutVerdict] \in Run
    BY <1>1 DEF Run, TimeoutVerdict, Verdicts
  <2> QED
    BY <1>2, <1>4, <2>1 DEF ObservationTimeout, NeedsCleanup, Untouched
<1>5. CASE PartitionElapsed
  <2> DEFINE verdict == IF mem.replacement THEN "Passed" ELSE "Inconclusive"
  <2>1. [mem EXCEPT !.verdict = verdict] \in Run
    BY <1>1 DEF Run, Verdicts
  <2> QED
    BY <1>2, <1>5, <2>1 DEF PartitionElapsed, Untouched
<1>6. CASE PartitionHeld
  <2> DEFINE rest == mem.observingAt + spec.duration - now
  <2>1. /\ PatchStatus(mem, "idle", RequeueAfter(rest))
        /\ UNCHANGED <<spec, effect, now, unseen>>
    BY <1>6 DEF PartitionHeld, Untouched
  <2>2. rest \in Nat
    <3>1. ~(now - mem.observingAt >= spec.duration)
      BY <1>6 DEF PartitionHeld, Over
    <3> QED
      BY <3>1, HeldTimes
  <2>3. RequeueAfter(rest) \in MaybeTime
    BY <2>2, TimeType DEF TypeOK
  <2> QED
    BY <1>1, <2>1, <2>3, OrderedEnd
<1>7. CASE ObservationError
  <2>1. UNCHANGED <<spec, store, effect, now, unseen>> /\ pc' = "idle"
    BY <1>7 DEF ObservationError, Continue, Untouched
  <2> QED
    BY <2>1, OrderedWithoutWrite DEF InEffect
<1>8. CASE \E replacement \in BOOLEAN : NotRecovered(replacement)
  <2>1. PICK replacement \in BOOLEAN : NotRecovered(replacement)
    BY <1>8
  <2> DEFINE run == [mem EXCEPT !.replacement = replacement]
  <2>2. PatchStatus(run, "idle", RequeueAfter(spec.poll))
        /\ UNCHANGED <<spec, effect, now, unseen>>
    BY <2>1 DEF NotRecovered, Untouched
  <2>3. run \in Run /\ run.phase = mem.phase
    BY <1>1 DEF Run
  <2>4. RequeueAfter(spec.poll) \in MaybeTime
    BY <1>1, TimeType DEF TypeOK, RunSpec
  <2> HIDE DEF run
  <2> QED
    BY <2>2, <2>3, <2>4, OrderedEnd
<1>9. CASE RecoveryObserved
  <2> DEFINE run == [mem EXCEPT !.replacement = TRUE, !.recovered = TRUE]
  <2>1. run \in Run
    BY <1>1 DEF Run
  <2>2. SetCondition(run, "RecoveryObserved") \in Run
    BY <2>1, PhaseHelpersType DEF ConditionTypes
  <2>3. StartCleaningUp(SetCondition(run, "RecoveryObserved")) /\ pc = "Observing"
        /\ UNCHANGED <<spec, effect, now, unseen>>
    BY <1>9 DEF RecoveryObserved, Polls, NeedsCleanup, Untouched
  <2> HIDE DEF run
  <2> QED
    BY <1>2, <2>2, <2>3
<1> QED
  BY <1>3, <1>4, <1>5, <1>6, <1>7, <1>8, <1>9

\* The cleanup, the end of the run and the removal of the finalizer.
LEMMA OrderedCleanupSteps ==
  ASSUME TypeOK, Ordered, spec.scenario = "NetworkPartition",
         \/ CleanupTimeout \/ Cleanup \/ CleanupRetry \/ CleanupDone
         \/ RemoveFinalizer \/ CleanupOnDelete \/ RemoveOnDelete
  PROVE  Ordered'
<1>1. mem \in Run /\ API \in Run /\ spec \in RunSpec /\ NoTime \in MaybeTime
  BY TypeFacts
<1>2. ASSUME NEW left, DriverCleanup(left) \/ DriverCleanupFails(left), UNCHANGED spec
      PROVE  /\ UNCHANGED effect
                \/ \A u \in Units : effect'[u] \in {NoTime, effect[u], now}
             /\ \/ InEffect' \subseteq InEffect /\ unseen' = unseen
                \/ InEffect' \subseteq unseen'
             /\ DriverCleanup(left) => InEffect' \subseteq unseen'
  BY <1>2, CleanupEffects
<1>3. CASE CleanupTimeout
  <2>1. ClearCondition(mem, "NetworkChaosCleanedUp") \in Run
    BY <1>1, PhaseHelpersType DEF ConditionTypes
  <2> DEFINE run == FailRun(ClearCondition(mem, "NetworkChaosCleanedUp"))
  <2>2. run \in Run /\ run.phase = "Failed"
    BY <2>1, PhaseHelpersType, WrittenPhases
  <2>3. PatchStatus(run, "idle", NoTime) /\ pc \in CleanupCalls
        /\ UNCHANGED <<spec, effect, now, unseen>>
    BY <1>3 DEF CleanupTimeout, Untouched, CleanupCalls
  <2> HIDE DEF run
  <2> QED
    BY <1>1, <2>2, <2>3, MayEnd, OrderedEnd
<1>4. CASE Cleanup
  <2>1. PICK left \in SUBSET mem.records :
          \/ DriverCleanup(left) /\ pc' \in {"cleanupDone", "cleanupRetry"}
          \/ DriverCleanupFails(left) /\ pc' = "cleanupRetry"
    BY <1>4 DEF Cleanup
  <2>2. pc = "CleaningUp" /\ UNCHANGED <<spec, store, now>>
    BY <1>4 DEF Cleanup
  <2>3. /\ UNCHANGED effect
           \/ \A u \in Units : effect'[u] \in {NoTime, effect[u], now}
        /\ \/ InEffect' \subseteq InEffect /\ unseen' = unseen
           \/ InEffect' \subseteq unseen'
        /\ DriverCleanup(left) => InEffect' \subseteq unseen'
    BY <1>2, <2>1, <2>2
  <2> QED
    BY <2>1, <2>2, <2>3, OrderedWithoutWrite
<1>5. CASE CleanupRetry
  <2> DEFINE run == [mem EXCEPT !.records = result.units]
  <2>1. run \in Run /\ run.phase = mem.phase
    BY <1>1 DEF Run, TypeOK, Result
  <2>2. PatchStatus(run, "idle", RequeueAfter(spec.storedPoll))
        /\ UNCHANGED <<spec, effect, now, unseen>>
    BY <1>5 DEF CleanupRetry, Untouched
  <2>3. RequeueAfter(spec.storedPoll) \in MaybeTime
    BY <1>1, TimeType DEF TypeOK, RunSpec
  <2> HIDE DEF run
  <2> QED
    BY <2>1, <2>2, <2>3, OrderedEnd
<1>6. CASE CleanupDone
  <2> DEFINE run == SetCondition([mem EXCEPT !.records = {}], "NetworkChaosCleanedUp")
             verdict == IF mem.verdict = "" THEN "Passed" ELSE mem.verdict
  <2>1. run \in Run
    <3>1. [mem EXCEPT !.records = {}] \in Run
      BY <1>1 DEF Run
    <3> QED
      BY <3>1, PhaseHelpersType DEF ConditionTypes
  <2>2. verdict \in Verdicts
    BY <1>1 DEF Run, Verdicts
  <2>3. /\ pc = "cleanupDone" /\ UNCHANGED <<spec, effect, now, unseen>>
        /\ PatchStatus(IF "AbortRequested" \in mem.conditions THEN AbortRun(run)
                       ELSE FinalizeRun(run, verdict), "removeFinalizer", NoTime)
    BY <1>6 DEF CleanupDone, Untouched
  <2> HIDE DEF run, verdict
  <2>4. /\ AbortRun(run) \in Run /\ AbortRun(run).phase = "Aborted"
        /\ FinalizeRun(run, verdict) \in Run
        /\ FinalizeRun(run, verdict).phase = "Completed"
    BY <2>1, <2>2, PhaseHelpersType, WrittenPhases
  <2> DEFINE ended == IF "AbortRequested" \in mem.conditions THEN AbortRun(run)
                      ELSE FinalizeRun(run, verdict)
  <2>5. ended \in Run /\ MayBecome(ended.phase)
        /\ PatchStatus(ended, "removeFinalizer", NoTime)
    BY <2>3, <2>4, MayEnd
  <2> HIDE DEF ended
  <2> QED
    BY <1>1, <2>3, <2>5, OrderedEnd
<1>7. ASSUME Write(WithoutFinalizer(API), "idle", NoTime),
             UNCHANGED <<spec, effect, now, unseen>>
      PROVE  Ordered'
  <2>1. /\ WithoutFinalizer(API) \in Run /\ WithoutFinalizer(API).abort = API.abort
        /\ WithoutFinalizer(API).phase = API.phase
    <3>1. WithoutFinalizer(API).abort = API.abort
      BY <1>1 DEF WithoutFinalizer, Run
    <3> QED
      BY <1>1, <3>1, WithoutFinalizerFacts
  <2>2. store' = store \/ store' = Push(WithoutFinalizer(API))
    BY <1>7, WriteStore
  <2>3. pc' = "idle"
    BY <1>1, <1>7, <2>1, WriteOutcome, CallLabels
  <2> QED
    BY <1>7, <2>1, <2>2, <2>3, OrderedWrite DEF MayBecome
<1>8. CASE RemoveFinalizer
  <2>1. UNCHANGED <<spec, effect, now, unseen>>
    BY <1>8 DEF RemoveFinalizer, Untouched
  <2>2. \/ Write(WithoutFinalizer(API), "idle", NoTime)
        \/ store' = store /\ pc' = "idle"
    BY <1>8 DEF RemoveFinalizer, Continue
  <2> QED
    BY <1>7, <2>1, <2>2, OrderedWithoutWrite DEF InEffect
<1>9. CASE CleanupOnDelete
  <2>1. PICK left \in SUBSET mem.records :
          \/ DriverCleanup(left) /\ pc' = "removeOnDelete"
          \/ DriverCleanupFails(left) /\ pc' = "idle"
    BY <1>9 DEF CleanupOnDelete, Continue
  <2>2. UNCHANGED <<spec, store, now>>
    BY <1>9 DEF CleanupOnDelete
  <2>3. /\ UNCHANGED effect
           \/ \A u \in Units : effect'[u] \in {NoTime, effect[u], now}
        /\ \/ InEffect' \subseteq InEffect /\ unseen' = unseen
           \/ InEffect' \subseteq unseen'
        /\ DriverCleanup(left) => InEffect' \subseteq unseen'
    BY <1>2, <2>1, <2>2
  <2> QED
    BY <2>1, <2>2, <2>3, OrderedWithoutWrite
<1>10. CASE RemoveOnDelete
  BY <1>7, <1>10 DEF RemoveOnDelete, Untouched
<1> QED
  BY <1>3, <1>4, <1>5, <1>6, <1>8, <1>9, <1>10

\* Watch events, timers, restarts, users and the clock.
LEMMA OrderedEnvironmentSteps ==
  ASSUME TypeOK, Ordered, spec.scenario = "NetworkPartition", Environment
  PROVE  Ordered'
<1>1. API \in Run /\ API = store[Len(store)] /\ Len(store) \in 1 .. Len(store)
  BY TypeFacts, EndsOfStore
<1>2. CASE WatchEvent
  <2>1. /\ store' = Tail(store) /\ UNCHANGED <<spec, pc, mem, effect, now, unseen>>
        /\ store \in Seq(Run) /\ Len(store) > 1
    BY <1>2 DEF WatchEvent, ControllerUnchanged, TypeOK
  <2>2. API' = API /\ Len(store') = Len(store) - 1 /\ Len(store) \in Nat
        /\ \A i \in 1 .. Len(store') : store'[i] = store[i + 1]
    BY <2>1, TailStore
  <2>3. \A i \in 1 .. Len(store') : i + 1 \in 1 .. Len(store)
    BY <2>2
  <2>4. /\ \A u, phase : Reachable(u, phase)' = Reachable(u, phase)
        /\ \A phase : Starts(phase)' = Starts(phase)
    BY <2>1 DEF Reachable, Starts, FailsEarly
  <2>5. \A i, j \in 1 .. Len(store') : i <= j => i + 1 <= j + 1
    BY <2>2
  <2>6. VersionsOrdered'
    BY <2>1, <2>2, <2>3, <2>4, <2>5 DEF Ordered, VersionsOrdered
  <2>7. CallsOrdered'
    BY <2>1, <2>2, <2>4 DEF Ordered, CallsOrdered
  <2>8. PoliciesOrdered'
    BY <2>1, <2>2, <2>3 DEF Ordered, PoliciesOrdered, InEffect
  <2> QED
    BY <2>6, <2>7, <2>8 DEF Ordered
<1>3. CASE Restart
  <2>1. store' = <<API>> /\ pc' = "idle" /\ UNCHANGED <<spec, effect, now, unseen>>
    BY <1>3 DEF Restart
  <2>2. API' = API /\ Len(store') = 1 /\ store'[1] = API
    BY <2>1 DEF API
  <2>3. /\ \A u, phase : Reachable(u, phase)' = Reachable(u, phase)
        /\ Reachable(API, API.phase) /\ Before(API, API.abort, API.phase)
    BY <1>1, <2>1 DEF Ordered, VersionsOrdered, Reachable, Starts, FailsEarly
  <2>4. VersionsOrdered'
    BY <2>1, <2>2, <2>3 DEF VersionsOrdered, Unread, InjectCalls, CleanupCalls
  <2>5. CallsOrdered'
    BY <2>1 DEF CallsOrdered, InjectCalls
  <2>6. PoliciesOrdered'
    BY <1>1, <2>1, <2>2 DEF Ordered, PoliciesOrdered, InEffect
  <2> QED
    BY <2>4, <2>5, <2>6 DEF Ordered
<1>4. CASE UserAborts
  <2> DEFINE written == [API EXCEPT !.abort = TRUE]
  <2>1. written \in Run /\ written.abort /\ written.phase = API.phase
    BY <1>1 DEF Run
  <2>2. store' = Push(written) /\ UNCHANGED <<spec, pc, mem, effect, now, unseen>>
    BY <1>4 DEF UserAborts, ControllerUnchanged
  <2> HIDE DEF written
  <2> QED
    BY <2>1, <2>2, OrderedWrite DEF MayBecome
<1>5. CASE UserDeletes
  <2> DEFINE written == [API EXCEPT !.deleting = TRUE, !.exists = API.finalizer]
  <2>1. written \in Run /\ written.abort = API.abort /\ written.phase = API.phase
    BY <1>1 DEF Run
  <2>2. store' = Push(written) /\ UNCHANGED <<spec, pc, mem, effect, now, unseen>>
    BY <1>5 DEF UserDeletes, ControllerUnchanged
  <2> HIDE DEF written
  <2> QED
    BY <2>1, <2>2, OrderedWrite DEF MayBecome
<1>6. CASE TimerFires \/ Tick
  <2>1. UNCHANGED <<spec, store, pc, mem, effect, unseen>> /\ now' \in {now, now + 1}
    BY <1>6 DEF TimerFires, Tick, ControllerUnchanged
  <2> QED
    BY <2>1, OrderedWithoutWrite DEF InEffect
<1>7. ~ \E u \in Units : ContainerStarts(u) \/ ContainerEnds(u)
  <2>1. 0 .. now \subseteq Nat
    BY DEF TypeOK, Time
  <2> QED
    BY <2>1 DEF ContainerStarts, ContainerEnds, InContainers, Ordered,
       PoliciesOrdered, Starting, NoTime
<1> QED
  BY <1>2, <1>3, <1>4, <1>5, <1>6, <1>7 DEF Environment

\* However old the versions it reads and the lists its drivers get, whatever
\* calls fail, and however often it restarts, the controller ends a partition as
\* Completed or Aborted only when no NetworkPolicy of it is left that the list
\* of its cleanup showed.
THEOREM PartitionsEndClean == Spec => []EndsWithoutPolicies
<1> DEFINE Partition == spec.scenario = "NetworkPartition"
<1>1. Init => (Partition => Ordered)
  <2> SUFFICES ASSUME Init
               PROVE  Ordered
    OBVIOUS
  <2>1. store = <<NewRun>> /\ Len(store) = 1 /\ store[1] = NewRun /\ API = NewRun
        /\ pc = "idle" /\ \A u \in Units : effect[u] = NoTime
    BY DEF Init, API
  <2>2. NewRun.phase = "Pending" /\ ~NewRun.abort
    BY DEF NewRun
  <2>3. VersionsOrdered /\ CallsOrdered
    BY <2>1, <2>2 DEF VersionsOrdered, CallsOrdered, Before, Reachable, Starts, Unread,
       InjectCalls, CleanupCalls
  <2>4. PoliciesOrdered
    BY <2>1 DEF PoliciesOrdered, InEffect
  <2> QED
    BY <2>3, <2>4 DEF Ordered
<1>2. TypeOK /\ (Partition => Ordered) /\ [Next]_vars => (Partition => Ordered)'
  <2> SUFFICES ASSUME TypeOK, Partition => Ordered, [Next]_vars, Partition'
               PROVE  Ordered'
    OBVIOUS
  <2>1. UNCHANGED spec
    BY DEF vars, Next, Step, Environment, Untouched, ControllerUnchanged,
       ReconcileSkip, ReconcileDispatch, AbortViaCleaningUp, AbortNow, AbortCounted,
       ValidationFails, RecordStart, CheckpointStable, CheckpointCheckFails,
       CheckpointWaitTimeout, CheckpointNotStable, StartInjecting, InjectionRejected,
       DryRun, Inject, InjectFails, RecordInjection, RecordFailure, AddFinalizer,
       TransitionToObserving, ObservationDisabled, ObservationTimeout,
       PartitionElapsed, PartitionHeld, ObservationError, NotRecovered,
       RecoveryObserved, CleanupTimeout, Cleanup, CleanupRetry, CleanupDone,
       RemoveFinalizer, CleanupOnDelete, RemoveOnDelete, WatchEvent, TimerFires,
       Restart, UserAborts, UserDeletes, ContainerStarts, ContainerEnds, Tick
  <2>2. Partition /\ Ordered
    BY <2>1
  <2>3. CASE UNCHANGED vars
    BY <2>2, <2>3, OrderedWithoutWrite DEF vars, InEffect
  <2>4. CASE Step
    BY <2>2, <2>4, OrderedEarlySteps, OrderedInjectionSteps,
       OrderedObservationSteps, OrderedCleanupSteps DEF Step
  <2>5. CASE Environment
    BY <2>2, <2>5, OrderedEnvironmentSteps
  <2> QED
    BY <2>3, <2>4, <2>5 DEF Next
<1>3. (Partition => Ordered) => EndsWithoutPolicies
  BY DEF Ordered, PoliciesOrdered, Concluded, EndsWithoutPolicies
<1> QED
  BY <1>1, <1>2, <1>3, TypeCorrect, PTL DEF Spec

-----------------------------------------------------------------------------
(***************************************************************************)
(* Tallies, and the finalizer.  The end of a run is counted, and its pods  *)
(* are selected, while the run is open for it; a step that opens it again  *)
(* is a fault, a restart or the reading of an outdated version.            *)
(***************************************************************************)

\* The run may still be counted.
Open == Live(API) \/ pc \notin {"idle", "removeFinalizer"}

\* The driver may still be called for pods.
MayKill ==
  \/ API.exists /\ ~API.injected /\ pc # "recordInjection"
  \/ pc \notin {"idle", "recordInjection"} /\ ~mem.injected

\* What a call knows of the version that was read, and of the cleanup before it.
CallsKnow ==
  /\ pc = "counted" => ~Live(API)
  /\ pc = "recordInjection" => ~mem.injected
  /\ pc = "abort" => ~IsTerminal(mem.phase)
  /\ pc = "Observing" => mem.phase = "Observing"
  /\ pc \in {"CleaningUp", "cleanupDone"} => mem.phase = "CleaningUp"
  /\ pc \in {"cleanupDone", "removeFinalizer", "removeOnDelete"}
       /\ spec.scenario = "NetworkPartition"
       => InEffect \subseteq unseen

\* As long as a run may be counted, each count so far is made up for.
CountsTallied ==
  /\ counted <= 1 + faults + stale
  /\ Open => counted <= faults + stale
  /\ API.phase = "Completed" /\ ~spec.dryRun => counted >= 1
  /\ API.phase = "Aborted" /\ pc # "counted" => counted + faults + crashes >= 1

Losses == faults + crashes + stale

\* As long as the driver may be called, each selection so far is made up for.
KillsTallied ==
  spec.scenario = "TaskManagerPodKill" =>
    /\ Cardinality(InEffect) <= spec.count * (Losses + 1)
    /\ MayKill => Cardinality(InEffect) <= spec.count * Losses

Tallied == CallsKnow /\ CountsTallied /\ KillsTallied

\* The finalizer of a partition goes only after its cleanup.
GuardedStep ==
  API.finalizer /\ ~API'.finalizer /\ spec.scenario = "NetworkPartition"
    => InEffect \subseteq unseen

\* Counts and quotas.
LEMMA Quota ==
  ASSUME NEW c \in Nat, NEW n \in Nat
  PROVE  /\ c * n \in Nat /\ c * (n + 1) = c * n + c
         /\ c * n <= c * (n + 1)
BY SMT

LEMMA InEffectFinite ==
  /\ IsFiniteSet(InEffect) /\ Cardinality(InEffect) \in Nat
  /\ IsFiniteSet(InEffect') /\ Cardinality(InEffect') \in Nat
<1>1. IsFiniteSet(InEffect) /\ IsFiniteSet(InEffect')
  BY UnitsAssumption, FS_Subset DEF InEffect
<1> QED
  BY <1>1, FS_CardinalityType

LEMMA LossesType ==
  ASSUME TypeOK
  PROVE  /\ faults \in Nat /\ crashes \in Nat /\ stale \in Nat /\ counted \in Nat
         /\ Losses \in Nat /\ spec.count \in Nat
BY TypeFacts, ConstantsAssumption DEF TypeOK, Losses, RunSpec

\* The kills stay within their quota when no pod is added, unless more of them
\* become possible, for which a fault, a restart or an old version raises it.
LEMMA KillsKept ==
  ASSUME TypeOK, TypeOK', KillsTallied, UNCHANGED spec,
         spec.scenario = "TaskManagerPodKill" => InEffect' \subseteq InEffect,
         \/ Losses' = Losses /\ (MayKill' => MayKill)
         \/ Losses' = Losses + 1
  PROVE  KillsTallied'
<1> SUFFICES ASSUME spec.scenario = "TaskManagerPodKill"
             PROVE  KillsTallied'
  BY DEF KillsTallied
<1>1. /\ spec.count \in Nat /\ Losses \in Nat
      /\ Cardinality(InEffect) \in Nat /\ Cardinality(InEffect') \in Nat
      /\ Cardinality(InEffect') <= Cardinality(InEffect)
  BY LossesType, InEffectFinite, FS_Subset
<1>2. /\ spec.count * Losses \in Nat
      /\ spec.count * (Losses + 1) \in Nat /\ spec.count * ((Losses + 1) + 1) \in Nat
      /\ spec.count * (Losses + 1) <= spec.count * ((Losses + 1) + 1)
  BY <1>1, Quota
<1>3. CASE Losses' = Losses /\ (MayKill' => MayKill)
  <2>1. /\ Cardinality(InEffect') <= spec.count * (Losses + 1)
        /\ MayKill => Cardinality(InEffect') <= spec.count * Losses
    BY <1>1, <1>2 DEF KillsTallied
  <2> QED
    BY <1>3, <2>1 DEF KillsTallied
<1>4. CASE Losses' = Losses + 1
  <2>1. /\ Cardinality(InEffect') <= spec.count * (Losses + 1)
        /\ Cardinality(InEffect') <= spec.count * ((Losses + 1) + 1)
    BY <1>1, <1>2 DEF KillsTallied
  <2> QED
    BY <1>4, <2>1 DEF KillsTallied
<1> QED
  BY <1>3, <1>4

\* A tally that does not grow stays under bounds that do not fall.
LEMMA TallyGrows ==
  \A c, f, g, s \in Nat :
    f <= g => /\ c <= 1 + f + s => c <= 1 + g + s
              /\ c <= f + s => c <= g + s
OBVIOUS

LEMMA BoundsKept ==
  ASSUME counted \in Nat, faults \in Nat, stale \in Nat, faults' \in Nat,
         faults <= faults', counted' = counted, stale' = stale, Open' => Open,
         counted <= 1 + faults + stale, Open => counted <= faults + stale
  PROVE  /\ counted' <= 1 + faults' + stale'
         /\ Open' => counted' <= faults' + stale'
<1>1. counted <= 1 + faults' + stale
  BY TallyGrows, Zenon
<1>2. Open => counted <= faults' + stale
  BY TallyGrows, Zenon
<1> QED
  BY <1>1, <1>2, Zenon

\* A step that writes nothing of phase or injection keeps the tallies.
LEMMA QuietTally ==
  ASSUME TypeOK, TypeOK', Tallied, UNCHANGED <<spec, counted, crashes, stale>>,
         faults' \in {faults, faults + 1},
         API'.exists => API.exists, API'.phase = API.phase,
         API'.injected = API.injected, API'.finalizer = API.finalizer,
         spec.scenario = "TaskManagerPodKill" => InEffect' \subseteq InEffect,
         \/ UNCHANGED <<pc, mem, unseen>> /\ InEffect' \subseteq InEffect
         \/ pc \notin {"counted", "recordInjection"} /\ pc' = "idle"
         \/ /\ pc \notin {"idle", "counted", "recordInjection", "removeFinalizer"}
            /\ pc' \in {"toInjecting", "recordFailure", "cleanupRetry", "cleanupDone",
                        "removeOnDelete"}
            /\ mem' = mem
            /\ pc' = "cleanupDone" => mem.phase = "CleaningUp"
            /\ pc' \in {"cleanupDone", "removeOnDelete"}
                 /\ spec.scenario = "NetworkPartition"
                 => InEffect' \subseteq unseen'
  PROVE  Tallied' /\ GuardedStep
<1>1. CallsKnow'
  BY DEF Tallied, CallsKnow, Live
<1>2. CountsTallied'
  <2>1. /\ faults \in Nat /\ crashes \in Nat /\ stale \in Nat /\ counted \in Nat
    BY LossesType
  <2>2. Open' => Open
    BY DEF Open, Live
  <2>3. API'.phase = "Aborted" /\ pc' # "counted" => API.phase = "Aborted" /\ pc # "counted"
    OBVIOUS
  <2>4. counted' = counted /\ stale' = stale /\ crashes' = crashes /\ faults <= faults'
        /\ faults' \in Nat
    BY <2>1
  <2>5. counted' <= 1 + faults' + stale' /\ (Open' => counted' <= faults' + stale')
    <3>1. counted <= 1 + faults + stale /\ (Open => counted <= faults + stale)
      BY DEF Tallied, CountsTallied
    <3> QED
      BY <2>1, <2>2, <2>4, <3>1, BoundsKept
  <2>6. /\ API'.phase = "Completed" /\ ~spec.dryRun => counted >= 1
        /\ API'.phase = "Aborted" /\ pc' # "counted" => counted + faults + crashes >= 1
    BY <2>3 DEF Tallied, CountsTallied
  <2>7. counted + faults + crashes >= 1 => counted' + faults' + crashes' >= 1
    BY <2>1, <2>4
  <2> QED
    BY <2>4, <2>5, <2>6, <2>7 DEF CountsTallied
<1>3. KillsTallied'
  <2>1. MayKill' => MayKill
    BY DEF MayKill
  <2>2. Losses' = Losses \/ Losses' = Losses + 1
    BY LossesType DEF Losses
  <2> QED
    BY <2>1, <2>2, KillsKept DEF Tallied
<1>4. GuardedStep
  BY DEF GuardedStep
<1> QED
  BY <1>1, <1>2, <1>3, <1>4 DEF Tallied

\* A write keeps the tallies: it counts what it ends, if it succeeds, and takes
\* back no injection.
LEMMA WriteTally ==
  ASSUME TypeOK, TypeOK', Tallied, Untouched, UNCHANGED effect,
         pc \notin {"idle", "counted"},
         NEW written \in Run, NEW next \in {"idle", "counted", "checkpoint", "toInjecting",
                                            "addFinalizer", "toObserving", "removeFinalizer"},
         NEW wake, Write(written, next, wake),
         written.exists => API.exists,
         \/ pc # "recordInjection" /\ written.injected = API.injected
         \/ written.injected,
         \/ written.finalizer \/ ~API.finalizer
         \/ pc \in {"removeFinalizer", "removeOnDelete"},
         next = "counted" => written.phase = "Aborted",
         next = "removeFinalizer" => pc = "cleanupDone",
         pc = "removeFinalizer" => next = "idle" /\ written.phase = API.phase,
         \/ /\ counted' = counted
            /\ written.phase = "Completed" => API.phase = "Completed" \/ spec.dryRun
            /\ written.phase = "Aborted" => API.phase = "Aborted" \/ next = "counted"
         \/ /\ counted' = counted + 1 /\ IsTerminal(written.phase)
            /\ next \in {"idle", "removeFinalizer"} /\ pc # "removeFinalizer"
  PROVE  Tallied' /\ GuardedStep
<1>1. \/ /\ API.exists /\ API' = written /\ pc' = next /\ faults' = faults
         /\ next # "idle" => mem' = written
      \/ ~API.exists /\ API' = API /\ pc' = "idle" /\ faults' = faults
      \/ API' \in {API, written} /\ pc' = "idle" /\ faults' = faults + 1
  <2>1. store \in Seq(Run) /\ store # <<>>
    BY DEF TypeOK
  <2>2. /\ store' = Push(written) => API' = written
        /\ store' = store => API' = API
    BY <2>1, PushStore DEF API
  <2> QED
    BY <2>2 DEF Write, Continue, Fail
<1>2. /\ faults \in Nat /\ crashes \in Nat /\ stale \in Nat /\ counted \in Nat
      /\ UNCHANGED <<spec, crashes, stale, unseen>> /\ InEffect' = InEffect
  BY LossesType DEF Untouched, InEffect
<1>3. CallsKnow'
  <2>1. pc' = "counted" => ~Live(API')
    BY <1>1 DEF Live, IsTerminal, Terminal
  <2>2. pc' = "removeFinalizer" /\ spec.scenario = "NetworkPartition"
          => InEffect \subseteq unseen
    BY <1>1 DEF Tallied, CallsKnow
  <2>3. pc' \in {"idle", "counted", "checkpoint", "toInjecting", "addFinalizer",
                 "toObserving", "removeFinalizer"}
    BY <1>1
  <2> QED
    BY <1>2, <2>1, <2>2, <2>3 DEF CallsKnow
<1>4. CountsTallied'
  <2>1. CASE faults' = faults + 1
    <3>1. API'.phase \in {API.phase, written.phase}
      BY <1>1, <2>1, <1>2
    <3>2. /\ counted <= 1 + faults + stale
          /\ counted' = counted \/ (counted' = counted + 1 /\ counted <= faults + stale)
      <4>1. counted' = counted \/ (counted' = counted + 1 /\ Open)
        BY DEF Open
      <4> QED
        BY <4>1 DEF Tallied, CountsTallied
    <3>3. counted' <= faults' + stale' /\ counted' <= 1 + faults' + stale'
      BY <1>2, <2>1, <3>2
    <3>4. counted' + faults' + crashes' >= 1
      BY <1>2, <2>1
    <3>5. API'.phase = "Completed" /\ ~spec.dryRun => counted' >= 1
      BY <1>2, <3>1 DEF Tallied, CountsTallied
    <3> QED
      BY <1>2, <3>3, <3>4, <3>5 DEF CountsTallied
  <2>2. CASE faults' = faults /\ counted' = counted
    <3>1. Open' => Open
      BY <1>1, <1>2, <2>2 DEF Open, Live
    <3>2. /\ API'.phase = "Completed" => API.phase = "Completed" \/ spec.dryRun
          /\ API'.phase = "Aborted" /\ pc' # "counted" => API.phase = "Aborted"
      BY <1>1, <1>2, <2>2
    <3> QED
      BY <1>2, <2>2, <3>1, <3>2 DEF Tallied, CountsTallied
  <2>3. CASE faults' = faults /\ counted' # counted
    <3>1. counted' = counted + 1 /\ Open /\ IsTerminal(written.phase)
          /\ next \in {"idle", "removeFinalizer"}
      BY <2>3 DEF Open
    <3>2. ~Open'
      BY <1>1, <1>2, <2>3, <3>1 DEF Open, Live
    <3>3. counted <= faults + stale
      BY <3>1 DEF Tallied, CountsTallied
    <3> QED
      BY <1>2, <2>3, <3>1, <3>2, <3>3 DEF CountsTallied
  <2> QED
    BY <1>1, <2>1, <2>2, <2>3
<1>5. KillsTallied'
  <2>1. CASE faults' = faults + 1
    <3>1. Losses' = Losses + 1
      BY <1>2, <2>1 DEF Losses
    <3> QED
      BY <1>2, <3>1, KillsKept DEF Tallied
  <2>2. CASE faults' = faults
    <3>1. Losses' = Losses
      BY <1>2, <2>2 DEF Losses
    <3>2. MayKill' => MayKill
      BY <1>1, <1>2, <2>2 DEF MayKill
    <3> QED
      BY <1>2, <3>1, <3>2, KillsKept DEF Tallied
  <2> QED
    BY <1>1, <2>1, <2>2
<1>6. GuardedStep
  <2>1. API'.finalizer \/ ~API.finalizer \/ pc \in {"removeFinalizer", "removeOnDelete"}
    BY <1>1
  <2> QED
    BY <2>1 DEF GuardedStep, Tallied, CallsKnow
<1> QED
  BY <1>3, <1>4, <1>5, <1>6 DEF Tallied

\* The same for a status patch: of phase and injection it sends what it changes.
LEMMA PatchTally ==
  ASSUME TypeOK, TypeOK', Tallied, Untouched, UNCHANGED effect,
         pc \notin {"idle", "counted", "removeFinalizer"},
         NEW run \in Run, NEW next \in {"idle", "counted", "checkpoint", "toInjecting",
                                        "addFinalizer", "removeFinalizer"},
         NEW wake, PatchStatus(run, next, wake),
         \/ pc # "recordInjection" /\ run.injected = mem.injected
         \/ pc = "recordInjection" /\ run.injected,
         next = "counted" => run.phase = "Aborted" /\ ~IsTerminal(mem.phase),
         next = "removeFinalizer" => pc = "cleanupDone",
         \/ /\ counted' = counted
            /\ run.phase = "Completed" => mem.phase = "Completed" \/ spec.dryRun
            /\ run.phase = "Aborted" => mem.phase = "Aborted" \/ next = "counted"
         \/ /\ counted' = counted + 1 /\ IsTerminal(run.phase) /\ ~IsTerminal(mem.phase)
            /\ next \in {"idle", "removeFinalizer"}
  PROVE  Tallied' /\ GuardedStep
<1> DEFINE written == MergeStatus(mem, run, API)
<1>1. /\ API \in Run /\ mem \in Run /\ written \in Run
  BY TypeFacts, MergeType
<1>2. /\ written.exists = API.exists /\ written.finalizer = API.finalizer
      /\ written.phase = Changed(mem.phase, run.phase, API.phase)
      /\ written.injected = Changed(mem.injected, run.injected, API.injected)
  BY <1>1 DEF MergeStatus, Run
<1>3. Write(written, next, wake)
  BY DEF PatchStatus
<1> HIDE DEF written
<1>4. \/ pc # "recordInjection" /\ written.injected = API.injected
      \/ written.injected
  BY <1>2 DEF Changed, Tallied, CallsKnow
<1>5. /\ written.phase = run.phase \/ (written.phase = API.phase /\ run.phase = mem.phase)
      /\ next = "counted" => written.phase = "Aborted"
  BY <1>2 DEF Changed, IsTerminal, Terminal
<1>6. CASE counted' = counted
  <2>1. /\ written.phase = "Completed" => API.phase = "Completed" \/ spec.dryRun
        /\ written.phase = "Aborted" => API.phase = "Aborted" \/ next = "counted"
    BY <1>2, <1>6, LossesType DEF Changed
  <2> QED
    BY <1>1, <1>2, <1>3, <1>4, <1>5, <1>6, <2>1, WriteTally
<1>7. CASE /\ counted' = counted + 1 /\ IsTerminal(run.phase) /\ ~IsTerminal(mem.phase)
           /\ next \in {"idle", "removeFinalizer"}
  <2>1. IsTerminal(written.phase)
    BY <1>5, <1>7
  <2> QED
    BY <1>1, <1>2, <1>3, <1>4, <1>5, <1>7, <2>1, WriteTally
<1> QED
  BY <1>6, <1>7

\* A selection is as large as the count says at most.
LEMMA SelectionSize ==
  ASSUME TypeOK, spec.scenario = "TaskManagerPodKill",
         NEW S \in SUBSET Units, S \in Selections, NEW D \in SUBSET S
  PROVE  Cardinality(D) \in Nat /\ Cardinality(D) <= spec.count
<1>1. IsFiniteSet(S) /\ Cardinality(D) <= Cardinality(S)
      /\ Cardinality(S) \in Nat /\ Cardinality(D) \in Nat
  BY UnitsAssumption, FS_Subset, FS_CardinalityType
<1>2. Cardinality(S) <= spec.count
  <2>1. Cardinality(S) = spec.count \/ Cardinality(S) < spec.count
    BY DEF Selections, NeedsCleanup
  <2> QED
    BY <1>1, <2>1, TypeFacts DEF RunSpec
<1> QED
  BY <1>1, <1>2, TypeFacts DEF RunSpec

\* Pods that are deleted come to those that were.
LEMMA DisruptKills ==
  ASSUME TypeOK, spec.scenario = "TaskManagerPodKill",
         NEW S \in SUBSET Units, Disrupt(S), Cardinality(S) \in Nat
  PROVE  Cardinality(InEffect') <= Cardinality(InEffect) + Cardinality(S)
<1>1. InEffect' = InEffect \cup S
  BY TypeFacts DEF InEffect, Disrupt, TypeOK, InContainers, Time, NoTime, Ended
<1>2. IsFiniteSet(InEffect) /\ IsFiniteSet(S)
  BY UnitsAssumption, FS_Subset DEF InEffect
<1>3. Cardinality(InEffect \cup S)
        = Cardinality(InEffect) + Cardinality(S) - Cardinality(InEffect \cap S)
  BY <1>2, FS_Union
<1>4. Cardinality(InEffect \cap S) \in Nat /\ Cardinality(InEffect) \in Nat
  BY <1>2, FS_Intersection, FS_CardinalityType
<1> QED
  BY <1>1, <1>3, <1>4

\* The call of a driver, successful or not.
LEMMA InjectTally ==
  ASSUME TypeOK, TypeOK', Tallied, pc = "Injecting", ~mem.injected,
         UNCHANGED <<spec, store, mem, crashes, stale, unseen, counted>>,
         NEW S \in SUBSET Units, S \in Selections, NEW D \in SUBSET S,
         \/ UNCHANGED effect /\ InContainers(spec.scenario)
         \/ Disrupt(D),
         \/ pc' = "recordInjection" /\ faults' = faults
         \/ pc' = "recordFailure" /\ faults' = faults + 1
         \/ pc' = "recordFailure" /\ faults' = faults /\ InContainers(spec.scenario)
  PROVE  Tallied' /\ GuardedStep
<1>1. API' = API
  BY DEF API
<1>2. CallsKnow'
  BY DEF CallsKnow
<1>3. CountsTallied'
  <2>1. /\ faults \in Nat /\ stale \in Nat /\ counted \in Nat /\ crashes \in Nat
        /\ faults' = faults \/ faults' = faults + 1
    BY LossesType
  <2>2. counted <= faults + stale
    BY DEF Tallied, CountsTallied, Open
  <2>3. /\ API.phase = "Completed" /\ ~spec.dryRun => counted >= 1
        /\ API.phase = "Aborted" => counted + faults + crashes >= 1
    BY DEF Tallied, CountsTallied
  <2>4. /\ counted' <= 1 + faults' + stale' /\ counted' <= faults' + stale'
        /\ counted >= 1 => counted' >= 1
        /\ counted + faults + crashes >= 1 => counted' + faults' + crashes' >= 1
    BY <2>1, <2>2
  <2> QED
    BY <1>1, <2>3, <2>4 DEF CountsTallied
<1>4. KillsTallied'
  <2> SUFFICES ASSUME spec.scenario = "TaskManagerPodKill"
               PROVE  KillsTallied'
    BY DEF KillsTallied
  <2>1. /\ spec.count \in Nat /\ Losses \in Nat /\ Cardinality(InEffect) \in Nat
        /\ Cardinality(InEffect') \in Nat
        /\ faults \in Nat /\ crashes \in Nat /\ stale \in Nat
    BY LossesType, InEffectFinite
  <2>2. Cardinality(InEffect) <= spec.count * Losses
    BY DEF Tallied, KillsTallied, MayKill
  <2>3. Disrupt(D) /\ ~InContainers(spec.scenario)
    BY DEF InContainers
  <2>4. Cardinality(D) \in Nat /\ Cardinality(D) <= spec.count
    BY SelectionSize
  <2>5. Cardinality(InEffect') <= Cardinality(InEffect) + Cardinality(D)
    BY <2>3, <2>4, DisruptKills
  <2>6. spec.count * (Losses + 1) = spec.count * Losses + spec.count
        /\ spec.count * Losses \in Nat /\ spec.count * (Losses + 1) \in Nat
        /\ spec.count * ((Losses + 1) + 1) \in Nat
        /\ spec.count * (Losses + 1) <= spec.count * ((Losses + 1) + 1)
    BY <2>1, Quota
  <2>7. Cardinality(InEffect') <= spec.count * (Losses + 1)
    <3>1. \A a, b, c, d, e \in Nat : a <= b + c /\ b <= d /\ c <= e => a <= d + e
      OBVIOUS
    <3> QED
      BY <2>1, <2>2, <2>4, <2>5, <2>6, <3>1
  <2>8. CASE pc' = "recordInjection" /\ faults' = faults
    <3>1. ~MayKill' /\ Losses' = Losses
      BY <2>8 DEF MayKill, Losses
    <3> QED
      BY <2>7, <3>1 DEF KillsTallied
  <2>9. CASE faults' = faults + 1
    <3>1. Losses' = Losses + 1
      BY <2>1, <2>9 DEF Losses
    <3>2. Cardinality(InEffect') <= spec.count * ((Losses + 1) + 1)
      BY <2>1, <2>6, <2>7
    <3> QED
      BY <2>7, <3>1, <3>2 DEF KillsTallied
  <2> QED
    BY <2>3, <2>8, <2>9
<1>5. GuardedStep
  BY <1>1 DEF GuardedStep
<1> QED
  BY <1>2, <1>3, <1>4, <1>5 DEF Tallied

\* Reading the run: an outdated version may open it again.
LEMMA DispatchTally ==
  ASSUME TypeOK, TypeOK', Tallied, ReconcileDispatch
  PROVE  Tallied' /\ GuardedStep
<1>1. /\ API' = API /\ pc = "idle" /\ pc' = Handler(Cached) /\ mem' = Cached
      /\ Cached \in Run /\ Live(Cached) /\ InEffect' = InEffect
      /\ UNCHANGED <<spec, counted, faults, crashes, unseen>>
  BY TypeFacts DEF ReconcileDispatch, API, InEffect, Live
<1>2. \/ stale' = stale /\ Cached = API
      \/ stale' = stale + 1
  BY DEF ReconcileDispatch, API, Cached
<1>3. CallsKnow'
  <2>1. /\ pc' \notin {"idle", "counted", "recordInjection", "cleanupDone",
                       "removeFinalizer", "removeOnDelete"}
        /\ pc' = "abort" => ~IsTerminal(Cached.phase)
        /\ pc' = "Observing" => Cached.phase = "Observing"
        /\ pc' = "CleaningUp" => Cached.phase = "CleaningUp"
    BY <1>1 DEF Handler, Live, IsTerminal, Terminal, Run, Phases
  <2> QED
    BY <1>1, <2>1 DEF CallsKnow
<1>4. CountsTallied'
  <2>1. /\ faults \in Nat /\ stale \in Nat /\ counted \in Nat
    BY LossesType
  <2>2. counted <= 1 + faults + stale /\ (Open => counted <= faults + stale)
    BY DEF Tallied, CountsTallied
  <2>3. stale' = stale => Open
    BY <1>1, <1>2, <2>1 DEF Open
  <2>4. counted' <= 1 + faults' + stale' /\ counted' <= faults' + stale'
    BY <1>1, <1>2, <2>1, <2>2, <2>3
  <2>5. /\ API.phase = "Completed" /\ ~spec.dryRun => counted >= 1
        /\ API.phase = "Aborted" => counted + faults + crashes >= 1
    BY <1>1 DEF Tallied, CountsTallied
  <2> QED
    BY <1>1, <2>4, <2>5 DEF CountsTallied
<1>5. KillsTallied'
  <2>1. CASE stale' = stale
    <3>1. Losses' = Losses /\ (MayKill' => MayKill)
      BY <1>1, <1>2, <2>1, LossesType DEF Losses, MayKill, Live
    <3> QED
      BY <1>1, <3>1, KillsKept DEF Tallied
  <2>2. CASE stale' = stale + 1
    <3>1. Losses' = Losses + 1
      BY <1>1, <2>2, LossesType DEF Losses
    <3> QED
      BY <1>1, <3>1, KillsKept DEF Tallied
  <2> QED
    BY <1>2, <2>1, <2>2
<1>6. GuardedStep
  BY <1>1 DEF GuardedStep
<1> QED
  BY <1>3, <1>4, <1>5, <1>6 DEF Tallied

\* Reading, aborting, and everything before the injection.
LEMMA TallyEarlySteps ==
  ASSUME TypeOK, TypeOK', Tallied,
         \/ ReconcileSkip \/ ReconcileDispatch
         \/ AbortViaCleaningUp \/ AbortNow \/ AbortCounted
         \/ ValidationFails \/ RecordStart \/ CheckpointStable
         \/ CheckpointCheckFails \/ CheckpointWaitTimeout
         \/ CheckpointNotStable \/ StartInjecting
  PROVE  Tallied' /\ GuardedStep
<1>1. mem \in Run
  BY TypeFacts
<1>2. CASE ReconcileSkip
  BY <1>2, QuietTally DEF ReconcileSkip, API, InEffect
<1>3. CASE ReconcileDispatch
  BY <1>3, DispatchTally
<1>4. CASE AbortViaCleaningUp
  <2> DEFINE run == TransitionPhase(SetCondition(mem, "AbortRequested"), "CleaningUp")
  <2>1. run \in Run /\ run.phase = "CleaningUp" /\ run.injected = mem.injected
    BY <1>1 DEF TransitionPhase, SetCondition, Run, Phases, ConditionTypes
  <2>2. pc = "abort" /\ PatchStatus(run, "idle", now) /\ Untouched
        /\ UNCHANGED <<effect, counted>>
    BY <1>4 DEF AbortViaCleaningUp
  <2> HIDE DEF run
  <2> QED
    BY <2>1, <2>2, PatchTally
<1>5. CASE AbortNow
  <2> DEFINE run == AbortRun(SetCondition(mem, "AbortRequested"))
  <2>1. run \in Run /\ run.phase = "Aborted" /\ run.injected = mem.injected
    BY <1>1 DEF AbortRun, SetCondition, Run, Phases, Terminal, Verdicts, ConditionTypes
  <2>2. pc = "abort" /\ PatchStatus(run, "counted", NoTime) /\ Untouched
        /\ UNCHANGED <<effect, counted>>
    BY <1>5 DEF AbortNow
  <2>3. ~IsTerminal(mem.phase)
    BY <2>2 DEF Tallied, CallsKnow
  <2> HIDE DEF run
  <2> QED
    BY <2>1, <2>2, <2>3, PatchTally
<1>6. CASE AbortCounted
  <2>1. /\ API' = API /\ pc = "counted" /\ pc' = "idle" /\ InEffect' = InEffect
        /\ counted' = counted + 1 /\ ~Live(API)
        /\ UNCHANGED <<spec, faults, crashes, stale>>
    BY <1>6 DEF AbortCounted, FinishRun, Continue, Untouched, API, InEffect, Tallied,
                CallsKnow
  <2>2. CallsKnow'
    BY <2>1 DEF CallsKnow
  <2>3. CountsTallied'
    <3>1. counted \in Nat /\ faults \in Nat /\ stale \in Nat /\ crashes \in Nat
      BY LossesType
    <3>2. counted <= faults + stale
      BY <2>1 DEF Tallied, CountsTallied, Open
    <3>3. counted' <= 1 + faults' + stale' /\ counted' >= 1
          /\ counted' + faults' + crashes' >= 1
      BY <2>1, <3>1, <3>2
    <3>4. ~Open'
      BY <2>1 DEF Open, Live
    <3> QED
      BY <3>3, <3>4 DEF CountsTallied
  <2>4. KillsTallied'
    <3>1. Losses' = Losses /\ (MayKill' => MayKill)
      BY <2>1 DEF Losses, MayKill
    <3> QED
      BY <2>1, <3>1, KillsKept DEF Tallied
  <2>5. GuardedStep
    BY <2>1 DEF GuardedStep
  <2> QED
    BY <2>2, <2>3, <2>4, <2>5 DEF Tallied
<1>7. CASE ValidationFails \/ CheckpointWaitTimeout
  <2>1. FailRun(mem) \in Run /\ FailRun(mem).phase = "Failed"
        /\ FailRun(mem).injected = mem.injected
    BY <1>1, PhaseHelpersType DEF FailRun, Run
  <2>2. pc \in {"Pending", "checkpoint"} /\ PatchStatus(FailRun(mem), "idle", NoTime)
        /\ Untouched /\ UNCHANGED <<effect, counted>>
    BY <1>7 DEF ValidationFails, CheckpointWaitTimeout
  <2> QED
    BY <2>1, <2>2, PatchTally
<1>8. CASE RecordStart
  <2> DEFINE run == [mem EXCEPT !.startedAt = now]
  <2>1. run \in Run /\ run.phase = mem.phase /\ run.injected = mem.injected
    BY <1>1, TypeFacts DEF Run
  <2>2. PICK next \in {"checkpoint", "toInjecting"} : PatchStatus(run, next, NoTime)
    BY <1>8 DEF RecordStart
  <2>3. pc = "Pending" /\ Untouched /\ UNCHANGED <<effect, counted>>
    BY <1>8 DEF RecordStart
  <2> HIDE DEF run
  <2> QED
    BY <2>1, <2>2, <2>3, PatchTally
<1>9. CASE CheckpointStable \/ CheckpointCheckFails
  <2>1. /\ pc = "checkpoint" /\ API' = API /\ InEffect' = InEffect
        /\ UNCHANGED <<spec, counted, crashes, stale, faults>>
        /\ pc' = "idle" \/ (pc' = "toInjecting" /\ mem' = mem)
    BY <1>9 DEF CheckpointStable, CheckpointCheckFails, Fail, Continue, Untouched, API,
                InEffect
  <2> QED
    BY <2>1, QuietTally
<1>10. CASE CheckpointNotStable
  <2>1. pc = "checkpoint" /\ PatchStatus(mem, "idle", RequeueAfter(spec.storedPoll))
        /\ Untouched /\ UNCHANGED <<effect, counted>>
    BY <1>10 DEF CheckpointNotStable
  <2> QED
    BY <1>1, <2>1, PatchTally
<1>11. CASE StartInjecting
  <2> DEFINE run == TransitionPhase(mem, "Injecting")
  <2>1. run \in Run /\ run.phase = "Injecting" /\ run.injected = mem.injected
    BY <1>1 DEF TransitionPhase, Run, Phases
  <2>2. pc = "toInjecting" /\ PatchStatus(run, "idle", now) /\ Untouched
        /\ UNCHANGED <<effect, counted>>
    BY <1>11 DEF StartInjecting
  <2> HIDE DEF run
  <2> QED
    BY <2>1, <2>2, PatchTally
<1> QED
  BY <1>2, <1>3, <1>4, <1>5, <1>6, <1>7, <1>8, <1>9, <1>10, <1>11

\* The injection, its record, and the finalizer.
LEMMA TallyInjectionSteps ==
  ASSUME TypeOK, TypeOK', Tallied,
         \/ InjectionRejected \/ DryRun
         \/ \E S \in SUBSET Units :
              Inject(S) \/ \E T, D \in SUBSET S : InjectFails(S, T, D)
         \/ RecordInjection \/ RecordFailure \/ AddFinalizer \/ TransitionToObserving
  PROVE  Tallied' /\ GuardedStep
<1>1. mem \in Run /\ API \in Run
  BY TypeFacts
<1>2. CASE InjectionRejected
  <2>1. FailRun(mem) \in Run /\ FailRun(mem).phase = "Failed"
        /\ FailRun(mem).injected = mem.injected
    BY <1>1, PhaseHelpersType DEF FailRun, Run
  <2>2. pc = "Injecting" /\ PatchStatus(FailRun(mem), "idle", NoTime)
        /\ Untouched /\ UNCHANGED <<effect, counted>>
    BY <1>2 DEF InjectionRejected
  <2> QED
    BY <2>1, <2>2, PatchTally
<1>3. CASE DryRun
  <2> DEFINE run == FinalizeRun(mem, "Inconclusive")
  <2>1. run \in Run /\ run.phase = "Completed" /\ run.injected = mem.injected
    BY <1>1 DEF FinalizeRun, Run, Phases, Terminal, Verdicts
  <2>2. pc = "Injecting" /\ spec.dryRun /\ PatchStatus(run, "idle", NoTime)
        /\ Untouched /\ UNCHANGED <<effect, counted>>
    BY <1>3 DEF DryRun
  <2> HIDE DEF run
  <2> QED
    BY <2>1, <2>2, PatchTally
<1>4. ASSUME NEW S \in SUBSET Units, Inject(S)
      PROVE  Tallied' /\ GuardedStep
  BY <1>4, InjectTally DEF Inject, Untouched, AlreadyInjected
<1>5. ASSUME NEW S \in SUBSET Units, NEW T \in SUBSET S, NEW D \in SUBSET S,
             InjectFails(S, T, D)
      PROVE  Tallied' /\ GuardedStep
  BY <1>5, InjectTally DEF InjectFails, Untouched
<1>6. CASE RecordInjection
  <2> DEFINE at == IF InContainers(spec.scenario) THEN result.at ELSE NoTime
             units == IF NeedsCleanup(spec.scenario) THEN result.units ELSE {}
  <2>1. at \in MaybeTime /\ units \in SUBSET Units
    BY TypeFacts DEF TypeOK, Result
  <2> HIDE DEF at, units
  <2> DEFINE run == [mem EXCEPT !.injected = TRUE, !.records = units,
                                !.injectedAt = at]
  <2>2. run \in Run /\ run.phase = mem.phase /\ run.injected
    BY <1>1, <2>1 DEF Run
  <2>3. PatchStatus(run, "addFinalizer", NoTime) /\ pc = "recordInjection"
        /\ Untouched /\ UNCHANGED <<effect, counted>>
    BY <1>6 DEF RecordInjection, at, units
  <2> HIDE DEF run
  <2> QED
    BY <2>2, <2>3, PatchTally
<1>7. CASE RecordFailure
  <2> DEFINE partial == [mem EXCEPT !.records = result.units, !.injectedAt = result.at]
  <2>1. partial \in Run /\ partial.injected = mem.injected
    BY <1>1 DEF TypeOK, Result, Run
  <2>2. PICK run \in {partial, mem} : PatchStatus(FailRun(run), "idle", NoTime)
    BY <1>7 DEF RecordFailure
  <2> HIDE DEF partial
  <2>3. run \in Run /\ run.injected = mem.injected
    BY <1>1, <2>1
  <2>4. FailRun(run) \in Run /\ FailRun(run).phase = "Failed"
        /\ FailRun(run).injected = mem.injected
    BY <2>3, PhaseHelpersType DEF FailRun, Run
  <2>5. pc = "recordFailure" /\ Untouched /\ UNCHANGED <<effect, counted>>
    BY <1>7 DEF RecordFailure
  <2> QED
    BY <2>2, <2>4, <2>5, PatchTally
<1>8. CASE AddFinalizer
  <2> DEFINE written == [API EXCEPT !.finalizer = TRUE]
  <2>1. written \in Run /\ written.phase = API.phase /\ written.exists = API.exists
        /\ written.injected = API.injected /\ written.finalizer
    BY <1>1 DEF Run
  <2>2. Write(written, "toObserving", NoTime) /\ pc = "addFinalizer"
        /\ Untouched /\ UNCHANGED <<effect, counted>>
    BY <1>8 DEF AddFinalizer
  <2> HIDE DEF written
  <2> QED
    BY <2>1, <2>2, WriteTally
<1>9. CASE TransitionToObserving
  <2> DEFINE run == [TransitionPhase(mem, "Observing") EXCEPT !.observingAt = now]
  <2>1. run \in Run /\ run.phase = "Observing" /\ run.injected = mem.injected
    BY <1>1, TypeFacts DEF Run, TransitionPhase, Phases
  <2>2. PICK wake : PatchStatus(run, "idle", wake)
    BY <1>9 DEF TransitionToObserving
  <2>3. pc \in {"toObserving", "addFinalizer", "Injecting"}
        /\ Untouched /\ UNCHANGED <<effect, counted>>
    BY <1>9 DEF TransitionToObserving
  <2> HIDE DEF run
  <2> QED
    BY <2>1, <2>2, <2>3, PatchTally
<1> QED
  BY <1>2, <1>3, <1>4, <1>5, <1>6, <1>7, <1>8, <1>9

\* The end of an observation: a cleanup, or for kills the end of the run.
LEMMA EndTally ==
  ASSUME TypeOK, TypeOK', Tallied, pc = "Observing", NEW run \in Run,
         run.injected = mem.injected, Untouched, UNCHANGED effect,
         \/ StartCleaningUp(run) /\ UNCHANGED counted
         \/ \E verdict \in Verdicts : Finish(verdict, run)
  PROVE  Tallied' /\ GuardedStep
<1>1. ~IsTerminal(mem.phase)
  BY DEF Tallied, CallsKnow, IsTerminal, Terminal
<1>2. CASE StartCleaningUp(run) /\ UNCHANGED counted
  <2>1. /\ TransitionPhase(run, "CleaningUp") \in Run
        /\ TransitionPhase(run, "CleaningUp").phase = "CleaningUp"
        /\ TransitionPhase(run, "CleaningUp").injected = mem.injected
    BY PhaseHelpersType DEF TransitionPhase, Run, Phases
  <2> QED
    BY <1>2, <2>1, PatchTally DEF StartCleaningUp
<1>3. ASSUME NEW verdict \in Verdicts, Finish(verdict, run)
      PROVE  Tallied' /\ GuardedStep
  <2> DEFINE ended == FinalizeRun(run, verdict)
  <2>1. ended \in Run /\ ended.phase = "Completed" /\ ended.injected = mem.injected
        /\ IsTerminal(ended.phase)
    BY PhaseHelpersType DEF FinalizeRun, Run, IsTerminal, Terminal
  <2>2. PatchStatus(ended, "idle", NoTime) /\ counted' = counted + 1
    BY <1>3 DEF Finish, FinishRun
  <2> HIDE DEF ended
  <2> QED
    BY <1>1, <2>1, <2>2, PatchTally
<1> QED
  BY <1>2, <1>3

\* The observation.
LEMMA TallyObservationSteps ==
  ASSUME TypeOK, TypeOK', Tallied,
         \/ ObservationDisabled \/ ObservationTimeout \/ PartitionElapsed
         \/ PartitionHeld \/ ObservationError
         \/ \E replacement \in BOOLEAN : NotRecovered(replacement)
         \/ RecoveryObserved
  PROVE  Tallied' /\ GuardedStep
<1>1. mem \in Run /\ TimeoutVerdict \in Verdicts /\ "Passed" \in Verdicts
  BY TypeFacts DEF TimeoutVerdict, Verdicts
<1>2. CASE ObservationDisabled
  BY <1>1, <1>2, EndTally DEF ObservationDisabled
<1>3. CASE ObservationTimeout
  <2> DEFINE judged == [mem EXCEPT !.verdict = TimeoutVerdict]
  <2>1. judged \in Run /\ judged.injected = mem.injected
    BY <1>1 DEF Run
  <2>2. \/ StartCleaningUp(judged) /\ UNCHANGED counted
        \/ Finish(TimeoutVerdict, mem)
    BY <1>3 DEF ObservationTimeout
  <2>3. pc = "Observing" /\ Untouched /\ UNCHANGED effect
    BY <1>3 DEF ObservationTimeout
  <2> HIDE DEF judged
  <2> QED
    BY <1>1, <2>1, <2>2, <2>3, EndTally
<1>4. CASE PartitionElapsed
  <2>1. PICK verdict \in {"Passed", "Inconclusive"} :
          StartCleaningUp([mem EXCEPT !.verdict = verdict])
    BY <1>4 DEF PartitionElapsed
  <2> DEFINE judged == [mem EXCEPT !.verdict = verdict]
  <2>2. judged \in Run /\ judged.injected = mem.injected
    BY <1>1 DEF Run, Verdicts
  <2>3. pc = "Observing" /\ Untouched /\ UNCHANGED <<effect, counted>>
    BY <1>4 DEF PartitionElapsed
  <2> QED
    BY <2>1, <2>2, <2>3, EndTally
<1>5. CASE PartitionHeld
  <2>1. PICK wake : PatchStatus(mem, "idle", wake)
    BY <1>5 DEF PartitionHeld
  <2>2. pc = "Observing" /\ Untouched /\ UNCHANGED <<effect, counted>>
    BY <1>5 DEF PartitionHeld
  <2> QED
    BY <1>1, <2>1, <2>2, PatchTally
<1>6. CASE ObservationError
  <2>1. /\ pc = "Observing" /\ API' = API /\ InEffect' = InEffect /\ pc' = "idle"
        /\ UNCHANGED <<spec, counted, crashes, stale, faults>>
    BY <1>6 DEF ObservationError, Polls, Continue, Untouched, API, InEffect
  <2> QED
    BY <2>1, QuietTally
<1>7. ASSUME NEW replacement \in BOOLEAN, NotRecovered(replacement)
      PROVE  Tallied' /\ GuardedStep
  <2> DEFINE run == [mem EXCEPT !.replacement = replacement]
  <2>1. run \in Run /\ run.phase = mem.phase /\ run.injected = mem.injected
    BY <1>1 DEF Run
  <2>2. pc = "Observing" /\ PatchStatus(run, "idle", RequeueAfter(spec.poll))
        /\ Untouched /\ UNCHANGED <<effect, counted>>
    BY <1>7 DEF NotRecovered, Polls
  <2> HIDE DEF run
  <2> QED
    BY <2>1, <2>2, PatchTally
<1>8. CASE RecoveryObserved
  <2> DEFINE seen == [mem EXCEPT !.replacement = TRUE, !.recovered = TRUE]
             run == SetCondition(seen, "RecoveryObserved")
  <2>1. seen \in Run /\ seen.injected = mem.injected
    BY <1>1 DEF Run
  <2> HIDE DEF seen
  <2>2. run \in Run /\ run.injected = mem.injected
    BY <2>1, PhaseHelpersType DEF SetCondition, Run, ConditionTypes
  <2>3. \/ StartCleaningUp(run) /\ UNCHANGED counted
        \/ Finish("Passed", run)
    BY <1>8 DEF RecoveryObserved, seen
  <2>4. pc = "Observing" /\ Untouched /\ UNCHANGED effect
    BY <1>8 DEF RecoveryObserved, Polls
  <2> HIDE DEF run
  <2> QED
    BY <1>1, <2>2, <2>3, <2>4, EndTally
<1> QED
  BY <1>2, <1>3, <1>4, <1>5, <1>6, <1>7, <1>8

\* The cleanup, and the finalizer.
LEMMA TallyCleanupSteps ==
  ASSUME TypeOK, TypeOK', Tallied,
         \/ CleanupTimeout \/ Cleanup \/ CleanupRetry \/ CleanupDone
         \/ RemoveFinalizer \/ CleanupOnDelete \/ RemoveOnDelete
  PROVE  Tallied' /\ GuardedStep
<1> DEFINE written == WithoutFinalizer(API)
<1>1. mem \in Run /\ API \in Run
  BY TypeFacts
<1>2. written \in Run /\ written.phase = API.phase /\ written.injected = API.injected
      /\ (written.exists => API.exists)
  BY <1>1 DEF WithoutFinalizer, Run
<1> HIDE DEF written
<1>3. CASE CleanupTimeout
  <2> DEFINE cleared == ClearCondition(mem, "NetworkChaosCleanedUp")
  <2>1. cleared \in Run /\ cleared.injected = mem.injected
    BY <1>1 DEF ClearCondition, Run
  <2>2. pc = "CleaningUp" /\ PatchStatus(FailRun(cleared), "idle", NoTime)
        /\ counted' = counted + 1 /\ Untouched /\ UNCHANGED effect
    BY <1>3 DEF CleanupTimeout, FinishRun
  <2> HIDE DEF cleared
  <2>3. FailRun(cleared) \in Run /\ FailRun(cleared).phase = "Failed"
        /\ FailRun(cleared).injected = mem.injected
    BY <2>1, PhaseHelpersType DEF FailRun, Run
  <2>4. ~IsTerminal(mem.phase) /\ IsTerminal("Failed")
    BY <2>2 DEF Tallied, CallsKnow, IsTerminal, Terminal
  <2> QED
    BY <2>2, <2>3, <2>4, PatchTally
<1>4. ASSUME NEW left, DriverCleanup(left) \/ DriverCleanupFails(left),
             pc \in {"CleaningUp", "deleteCleanup"},
             faults' \in {faults, faults + 1},
             UNCHANGED <<spec, store, counted, crashes, stale>>,
             \/ pc' = "idle"
             \/ mem' = mem /\ pc' = "cleanupRetry"
             \/ mem' = mem /\ pc' = "removeOnDelete" /\ DriverCleanup(left)
             \/ mem' = mem /\ pc' = "cleanupDone" /\ DriverCleanup(left)
                  /\ pc = "CleaningUp"
      PROVE  Tallied' /\ GuardedStep
  <2>1. API' = API /\ InEffect' \subseteq InEffect
    BY <1>4, CleanupEffects DEF API
  <2>2. pc' \in {"cleanupDone", "removeOnDelete"} /\ spec.scenario = "NetworkPartition"
          => InEffect' \subseteq unseen'
    BY <1>4, CleanupEffects
  <2>3. pc' = "cleanupDone" => mem.phase = "CleaningUp"
    BY <1>4 DEF Tallied, CallsKnow
  <2> QED
    BY <1>4, <2>1, <2>2, <2>3, QuietTally
<1>5. CASE Cleanup
  <2>1. /\ pc = "CleaningUp" /\ UNCHANGED <<spec, store, mem, counted, crashes, stale>>
        /\ \E left \in SUBSET mem.records :
             \/ DriverCleanup(left) /\ faults' = faults
                  /\ pc' \in {"cleanupDone", "cleanupRetry"}
             \/ DriverCleanupFails(left) /\ faults' = faults + 1 /\ pc' = "cleanupRetry"
    BY <1>5 DEF Cleanup, DriverCleanupFails
  <2> QED
    BY <1>4, <2>1
<1>6. CASE CleanupRetry
  <2> DEFINE run == [mem EXCEPT !.records = result.units]
  <2>1. run \in Run /\ run.phase = mem.phase /\ run.injected = mem.injected
    BY <1>1 DEF TypeOK, Result, Run
  <2>2. pc = "cleanupRetry" /\ Untouched /\ UNCHANGED <<effect, counted>>
        /\ PatchStatus(run, "idle", RequeueAfter(spec.storedPoll))
    BY <1>6 DEF CleanupRetry
  <2> HIDE DEF run
  <2> QED
    BY <2>1, <2>2, PatchTally
<1>7. CASE CleanupDone
  <2> DEFINE done == SetCondition([mem EXCEPT !.records = {}], "NetworkChaosCleanedUp")
             verdict == IF mem.verdict = "" THEN "Passed" ELSE mem.verdict
  <2>1. done \in Run /\ done.injected = mem.injected /\ verdict \in Verdicts
    BY <1>1 DEF SetCondition, Run, ConditionTypes, Verdicts
  <2>2. PICK run \in {AbortRun(done), FinalizeRun(done, verdict)} :
          PatchStatus(run, "removeFinalizer", NoTime)
    BY <1>7 DEF CleanupDone
  <2>3. pc = "cleanupDone" /\ counted' = counted + 1 /\ Untouched /\ UNCHANGED effect
    BY <1>7 DEF CleanupDone, FinishRun
  <2> HIDE DEF done, verdict
  <2>4. run \in Run /\ IsTerminal(run.phase) /\ run.injected = mem.injected
    <3>1. AbortRun(done) \in Run /\ FinalizeRun(done, verdict) \in Run
      BY <2>1, PhaseHelpersType
    <3>2. /\ AbortRun(done).phase = "Aborted" /\ AbortRun(done).injected = mem.injected
          /\ FinalizeRun(done, verdict).phase = "Completed"
          /\ FinalizeRun(done, verdict).injected = mem.injected
      BY <2>1 DEF AbortRun, FinalizeRun, Run
    <3> QED
      BY <2>2, <3>1, <3>2 DEF IsTerminal, Terminal
  <2>5. ~IsTerminal(mem.phase)
    BY <2>3 DEF Tallied, CallsKnow, IsTerminal, Terminal
  <2> QED
    BY <2>2, <2>3, <2>4, <2>5, PatchTally
<1>8. CASE RemoveFinalizer
  <2>1. CASE mem.finalizer /\ Cached.exists /\ Cached.finalizer
    <3>1. Write(written, "idle", NoTime) /\ pc = "removeFinalizer"
          /\ Untouched /\ UNCHANGED <<effect, counted>>
      BY <1>8, <2>1 DEF RemoveFinalizer, written
    <3> QED
      BY <1>2, <3>1, WriteTally
  <2>2. CASE ~(mem.finalizer /\ Cached.exists /\ Cached.finalizer)
    <3>1. API' = API /\ pc' = "idle" /\ pc = "removeFinalizer" /\ InEffect' = InEffect
          /\ UNCHANGED <<spec, faults, crashes, counted, stale>>
      BY <1>8, <2>2 DEF RemoveFinalizer, Continue, API, Untouched, InEffect
    <3> QED
      BY <3>1, QuietTally
  <2> QED
    BY <2>1, <2>2
<1>9. CASE CleanupOnDelete
  <2>1. PICK left \in SUBSET mem.records :
          \/ /\ DriverCleanup(left) /\ faults' = faults
             /\ Continue(mem, "removeOnDelete", NoTime)
          \/ DriverCleanupFails(left) /\ Continue(mem, "idle", RequeueAfter(1))
    BY <1>9 DEF CleanupOnDelete
  <2>2. faults' \in {faults, faults + 1}
    BY <2>1 DEF DriverCleanupFails
  <2>3. \/ pc' = "idle"
        \/ pc' = "removeOnDelete" /\ mem' = mem /\ DriverCleanup(left)
    BY <2>1 DEF Continue
  <2>4. pc = "deleteCleanup" /\ UNCHANGED <<spec, store, counted, crashes, stale>>
    BY <1>9 DEF CleanupOnDelete
  <2> QED
    BY <1>4, <2>1, <2>2, <2>3, <2>4
<1>10. CASE RemoveOnDelete
  <2>1. Write(written, "idle", NoTime) /\ pc = "removeOnDelete"
        /\ Untouched /\ UNCHANGED <<effect, counted>>
    BY <1>10 DEF RemoveOnDelete, written
  <2> QED
    BY <1>2, <2>1, WriteTally
<1> QED
  BY <1>3, <1>5, <1>6, <1>7, <1>8, <1>9, <1>10

\* Everything around the reconcile: a restart loses what was not recorded.
LEMMA TallyEnvironmentSteps ==
  ASSUME TypeOK, TypeOK', Tallied, Environment
  PROVE  Tallied' /\ GuardedStep
<1>1. CASE Restart
  <2>1. /\ API' = API /\ InEffect' = InEffect /\ pc' = "idle" /\ crashes' = crashes + 1
        /\ UNCHANGED <<spec, counted, faults, stale>>
    BY <1>1 DEF Restart, API, InEffect
  <2>2. CallsKnow'
    BY <2>1 DEF CallsKnow
  <2>3. CountsTallied'
    <3>1. counted \in Nat /\ faults \in Nat /\ stale \in Nat /\ crashes \in Nat
      BY LossesType
    <3>2. counted <= 1 + faults + stale /\ (Open' => counted <= faults + stale)
          /\ (API.phase = "Completed" /\ ~spec.dryRun => counted >= 1)
      BY <2>1 DEF Tallied, CountsTallied, Open, Live
    <3>3. counted' + faults' + crashes' >= 1
      BY <2>1, <3>1
    <3> QED
      BY <2>1, <3>2, <3>3 DEF CountsTallied
  <2>4. KillsTallied'
    <3>1. Losses' = Losses + 1
      BY <2>1, LossesType DEF Losses
    <3> QED
      BY <2>1, <3>1, KillsKept DEF Tallied
  <2>5. GuardedStep
    BY <2>1 DEF GuardedStep
  <2> QED
    BY <2>2, <2>3, <2>4, <2>5 DEF Tallied
<1>2. CASE WatchEvent \/ TimerFires \/ Tick
  <2>1. API' = API
    BY <1>2, TailStore DEF WatchEvent, TimerFires, Tick, TypeOK, API
  <2> QED
    BY <1>2, <2>1, QuietTally DEF WatchEvent, TimerFires, Tick, ControllerUnchanged, InEffect
<1>3. CASE UserAborts \/ UserDeletes
  <2> DEFINE aborted == [API EXCEPT !.abort = TRUE]
             deleted == [API EXCEPT !.deleting = TRUE, !.exists = API.finalizer]
  <2>1. aborted \in Run /\ deleted \in Run
        /\ \A v \in {aborted, deleted} :
             /\ v.phase = API.phase /\ v.injected = API.injected
             /\ v.finalizer = API.finalizer
    BY TypeFacts DEF Run
  <2>2. store' \in {Push(aborted), Push(deleted)} /\ API.exists
        /\ UNCHANGED <<spec, effect, counted, pc, mem, faults, crashes, stale, unseen>>
    BY <1>3 DEF UserAborts, UserDeletes, ControllerUnchanged
  <2> HIDE DEF aborted, deleted
  <2>3. API' \in {aborted, deleted}
    BY <2>1, <2>2, PushStore DEF TypeOK
  <2> QED
    BY <2>1, <2>2, <2>3, QuietTally DEF InEffect
<1>4. ASSUME NEW u \in Units, ContainerStarts(u) \/ ContainerEnds(u)
      PROVE  Tallied' /\ GuardedStep
  <2>1. InEffect' \subseteq InEffect /\ API' = API
        /\ UNCHANGED <<spec, counted, pc, mem, faults, crashes, stale, unseen>>
    BY <1>4
    DEF ContainerStarts, ContainerEnds, InEffect, TypeOK, NoTime, Starting, Ended,
        ControllerUnchanged, API
  <2> QED
    BY <2>1, QuietTally
<1> QED
  BY <1>1, <1>2, <1>3, <1>4 DEF Environment

LEMMA TalliedInit == Init => Tallied
<1> SUFFICES ASSUME Init
             PROVE  Tallied
  OBVIOUS
<1>1. API = NewRun /\ InEffect = {} /\ pc = "idle"
  BY DEF Init, API, InEffect
<1>2. CallsKnow
  BY <1>1 DEF CallsKnow
<1>3. CountsTallied
  <2>1. API.phase = "Pending"
    BY <1>1 DEF NewRun
  <2>2. counted = 0 /\ faults = 0 /\ stale = 0 /\ crashes = 0
    BY DEF Init
  <2> QED
    BY <2>1, <2>2 DEF CountsTallied
<1>4. KillsTallied
  <2>1. Cardinality(InEffect) = 0 /\ Losses = 0 /\ spec.count \in Nat
    BY <1>1, FS_EmptySet, ConstantsAssumption DEF Init, Losses, RunSpec
  <2> QED
    BY <2>1, Quota DEF KillsTallied
<1> QED
  BY <1>2, <1>3, <1>4 DEF Tallied

LEMMA TalliedNext ==
  ASSUME TypeOK, TypeOK', Tallied, [Next]_vars
  PROVE  Tallied' /\ GuardedStep
<1>1. CASE UNCHANGED vars
  BY <1>1, QuietTally DEF vars, API, InEffect
<1>2. CASE Step
  BY <1>2, TallyEarlySteps, TallyInjectionSteps, TallyObservationSteps,
     TallyCleanupSteps DEF Step
<1>3. CASE Environment
  BY <1>3, TallyEnvironmentSteps
<1> QED
  BY <1>1, <1>2, <1>3 DEF Next

LEMMA TalliedCorrect == Spec => []Tallied
<1>1. TypeOK /\ TypeOK' /\ Tallied /\ [Next]_vars => Tallied'
  BY TalliedNext
<1> QED
  BY <1>1, TalliedInit, TypeCorrect, PTL DEF Spec

\* RunsTotal counts the end of a run at most once, and once more for each call
\* that failed and each outdated version that was read; a run that ends
\* Completed, but for a dry run, is counted, and one that ends Aborted unless a
\* fault or a restart came between.
THEOREM RunsAreCountedOnce == Spec => []CountedOnce
<1>1. Tallied => CountedOnce
  BY DEF Tallied, CountsTallied, CountedOnce
<1> QED
  BY <1>1, TalliedCorrect, PTL

\* A run kills no more pods than it asks for, and as many again for each fault
\* or restart, which may lose the record of a kill, and for each outdated
\* version, which may not have it yet.
THEOREM KillsAreLimited == Spec => []KillsAtMostCount
<1>1. TypeOK /\ Tallied => KillsAtMostCount
  <2> SUFFICES ASSUME TypeOK, Tallied, spec.scenario = "TaskManagerPodKill"
               PROVE  KillsAtMostCount
    BY DEF KillsAtMostCount
  <2>1. Losses + 1 = 1 + faults + crashes + stale
    BY LossesType DEF Losses
  <2> QED
    BY <2>1 DEF Tallied, KillsTallied, KillsAtMostCount
<1> QED
  BY <1>1, TalliedCorrect, TypeCorrect, PTL

\* Whatever versions and lists it reads, the controller removes the finalizer of
\* a partition only after a cleanup that has left no policy it was shown.
THEOREM FinalizerGoesLast == Spec => FinalizerGuardsEffects
<1>1. TypeOK /\ TypeOK' /\ Tallied /\ [Next]_vars =>
        [API.finalizer /\ ~API'.finalizer /\ spec.scenario = "NetworkPartition"
           => InEffect \subseteq unseen]_vars
  BY TalliedNext DEF GuardedStep
<1> QED
  BY <1>1, TalliedCorrect, TypeCorrect, PTL DEF Spec, FinalizerGuardsEffects
=============================================================================
