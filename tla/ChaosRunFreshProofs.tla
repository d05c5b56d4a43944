-------------------------- MODULE ChaosRunFreshProofs --------------------------
(***************************************************************************)
(* What the controller promises until a reconcile first reads an outdated  *)
(* version: what "cleaned up" says of ephemeral containers, and that the   *)
(* life of a run is the one of ChaosRunLifecycle.  Nothing is assumed of   *)
(* the constants: any targets, specs, lags of the caches, faults and       *)
(* restarts; and every behaviour is covered as far as it has come.         *)
(*                                                                         *)
(* Until then the object in memory differs from the server's only in what  *)
(* users have changed meanwhile.  A patch then stores the status that was  *)
(* computed, and the call a reconcile makes next tells the phase.          *)
(***************************************************************************)
EXTENDS ChaosRunProofs

\* v is u, but for what users change: they abort and delete.
Agree(u, v) ==
  v = [u EXCEPT !.exists = v.exists, !.abort = v.abort, !.deleting = v.deleting]

\* The phase of a run when the reconcile has come to a label.
PhaseAt(label, phase) ==
  /\ label = "abort" => phase \notin Terminal \cup {"CleaningUp"}
  /\ label = "counted" => phase = "Aborted"
  /\ label \in {"Pending", "checkpoint", "toInjecting"} => phase = "Pending"
  /\ label \in {"Injecting", "recordInjection", "recordFailure", "addFinalizer",
                "toObserving"} => phase = "Injecting"
  /\ label = "Observing" => phase = "Observing"
  /\ label \in {"CleaningUp", "cleanupRetry", "cleanupDone"} => phase = "CleaningUp"
  /\ label = "removeFinalizer" => phase \in {"Completed", "Aborted"}
  /\ label \in {"deleteCleanup", "removeOnDelete"} => phase \notin Terminal

\* No verdict is given before the observation ends.
VerdictInTime(run) ==
  run.phase \in {"Pending", "Injecting", "Observing"} => run.verdict = ""

InStep ==
  /\ pc # "idle" => Agree(mem, API)
  /\ PhaseAt(pc, API.phase)
  /\ VerdictInTime(API)

\* Where there is no policy yet, or none any more that a cleanup was shown.
PoliciesAccounted ==
  /\ spec.scenario = "NetworkPartition"
  /\ \/ API.phase \in {"Pending", "Completed", "Aborted"}
     \/ spec.dryRun
     \/ pc \in {"cleanupDone", "removeOnDelete"}
  => InEffect \subseteq unseen

Accounts == InStep /\ PoliciesAccounted

Disrupted == spec.scenario = "NetworkPartition" /\ InEffect \ unseen # {}

\* How phase and verdict may go on, as ChaosRunLifecycle has it.
Moves(disrupted, u, v) ==
  \/ v.phase = u.phase /\ v.verdict = u.verdict
  \/ <<u.phase, v.phase>> \in {<<"Pending", "Injecting">>, <<"Injecting", "Observing">>,
                               <<"Injecting", "CleaningUp">>}
       /\ v.verdict = u.verdict
  \/ u.phase = "Observing" /\ v.phase = "CleaningUp"
  \/ /\ u.phase \in {"Injecting", "Observing", "CleaningUp"} /\ v.phase = "Completed"
     /\ v.verdict # "" /\ (u.verdict # "" => v.verdict = u.verdict) /\ ~disrupted
  \/ u.phase \notin Terminal /\ v.phase = "Aborted" /\ v.verdict = "Inconclusive"
       /\ ~disrupted
  \/ u.phase \notin Terminal \cup {"Observing"} /\ v.phase = "Failed"
       /\ v.verdict = "Failed"

Promised == [Lifecycle!Next]_(Lifecycle!vars)

-----------------------------------------------------------------------------
(* Lemmas about operators. *)

\* What is stored when run is written by a reconcile that is in step.
Stored(run) ==
  [run EXCEPT !.exists = API.exists, !.abort = API.abort, !.deleting = API.deleting]

LEMMA StoredFacts ==
  ASSUME API \in Run, NEW run \in Run
  PROVE  /\ Stored(run) \in Run /\ Agree(run, Stored(run))
         /\ Stored(run).exists = API.exists
         /\ Stored(run).phase = run.phase /\ Stored(run).verdict = run.verdict
         /\ Stored(run).injected = run.injected
         /\ Stored(run).finalizer = run.finalizer
BY DEF Stored, Agree, Run

\* What two versions have in common that differ in what users change.
LEMMA AgreeFacts ==
  ASSUME NEW u \in Run, NEW v \in Run, Agree(u, v)
  PROVE  /\ v.phase = u.phase /\ v.verdict = u.verdict
         /\ v.conditions = u.conditions /\ v.startedAt = u.startedAt
         /\ v.observingAt = u.observingAt /\ v.injected = u.injected
         /\ v.records = u.records /\ v.injectedAt = u.injectedAt
         /\ v.replacement = u.replacement /\ v.recovered = u.recovered
         /\ v.finalizer = u.finalizer
BY DEF Agree, Run

LEMMA AgreeReflexive == \A u \in Run : Agree(u, u)
BY DEF Agree, Run

\* A patch against a version with the server's status stores what was computed.
LEMMA MergeInStep ==
  ASSUME API \in Run, mem \in Run, NEW run \in Run, Agree(mem, API),
         run.finalizer = mem.finalizer
  PROVE  MergeStatus(mem, run, API) = Stored(run)
<1> DEFINE w == MergeStatus(mem, run, API)
<1>1. /\ w.exists = API.exists /\ w.abort = API.abort /\ w.deleting = API.deleting
      /\ w.finalizer = API.finalizer
      /\ w.phase = Changed(mem.phase, run.phase, API.phase)
      /\ w.verdict = Changed(mem.verdict, run.verdict, API.verdict)
      /\ w.conditions = Changed(mem.conditions, run.conditions, API.conditions)
      /\ w.startedAt = Changed(mem.startedAt, run.startedAt, API.startedAt)
      /\ w.observingAt = Changed(mem.observingAt, run.observingAt, API.observingAt)
      /\ w.injected = Changed(mem.injected, run.injected, API.injected)
      /\ w.records = Changed(mem.records, run.records, API.records)
      /\ w.injectedAt = Changed(mem.injectedAt, run.injectedAt, API.injectedAt)
      /\ w.replacement = Changed(mem.replacement, run.replacement, API.replacement)
      /\ w.recovered = Changed(mem.recovered, run.recovered, API.recovered)
  BY DEF MergeStatus, Run
<1>2. w \in Run
  BY MergeType
<1> HIDE DEF w
<1>3. \A b, c : Changed(b, c, b) = c
  BY DEF Changed
<1>4. /\ w.finalizer = run.finalizer /\ w.phase = run.phase /\ w.verdict = run.verdict
      /\ w.conditions = run.conditions /\ w.startedAt = run.startedAt
      /\ w.observingAt = run.observingAt /\ w.injected = run.injected
      /\ w.records = run.records /\ w.injectedAt = run.injectedAt
      /\ w.replacement = run.replacement /\ w.recovered = run.recovered
  BY <1>1, <1>3, AgreeFacts
<1>5. w = Stored(run)
  BY <1>1, <1>2, <1>4 DEF Stored, Run
<1> QED
  BY <1>5 DEF w

-----------------------------------------------------------------------------
(* Steps that leave the effects alone. *)

\* How a patch can end: stored and the reconcile going on with the answer, or
\* refused because the object is gone, or failed, stored or not.
LEMMA PatchInStep ==
  ASSUME TypeOK, Agree(mem, API), NEW run \in Run, run.finalizer = mem.finalizer,
         NEW next, NEW wake, PatchStatus(run, next, wake)
  PROVE  \/ /\ API.exists /\ API' = Stored(run) /\ pc' = next /\ faults' = faults
            /\ next # "idle" => mem' = API'
         \/ /\ ~API.exists /\ API' = API /\ pc' = "idle" /\ faults' = faults
         \/ /\ API.exists /\ API' \in {API, Stored(run)} /\ pc' = "idle"
            /\ faults' = faults + 1
<1>1. MergeStatus(mem, run, API) = Stored(run) /\ Stored(run) \in Run
  BY TypeFacts, MergeInStep, StoredFacts
<1>2. store \in Seq(Run) /\ store # <<>>
  BY DEF TypeOK
<1>3. store' = Push(Stored(run)) => API' = Stored(run)
  BY <1>1, <1>2, PushStore
<1>4. store' = store => API' = API
  BY DEF API
<1> QED
  BY <1>1, <1>3, <1>4 DEF PatchStatus, Write, Continue, Fail

\* Moving on within the promised life is a step of it.
LEMMA MovesRefine ==
  ASSUME TypeOK, TypeOK', UNCHANGED <<spec, effect, unseen>>,
         API.exists, API'.exists, Moves(Disrupted, API, API')
  PROVE  [Lifecycle!Next]_(Lifecycle!vars)
<1>1. API' \in Run /\ API'.verdict \in Verdicts /\ API'.phase \in Phases
  <2>1. API' \in Run
    BY DEF TypeOK, API
  <2> QED
    BY <2>1 DEF Run
<1>2. InEffect' = InEffect
  BY DEF InEffect
<1>3. API.phase # "Gone"
  BY TypeFacts DEF Run, Phases, Terminal
<1>4. CASE API'.phase = API.phase /\ API'.verdict = API.verdict
  BY <1>2, <1>4 DEF Lifecycle!vars
<1>5. CASE API.phase = "Pending" /\ API'.phase = "Injecting"
           /\ API'.verdict = API.verdict
  BY <1>2, <1>5 DEF Lifecycle!Next, Lifecycle!Start
<1>6. CASE API.phase = "Injecting" /\ API'.phase = "Observing"
           /\ API'.verdict = API.verdict
  BY <1>2, <1>6 DEF Lifecycle!Next, Lifecycle!Observe
<1>7. CASE API.phase = "Injecting" /\ API'.phase = "CleaningUp"
           /\ API'.verdict = API.verdict
  BY <1>2, <1>7 DEF Lifecycle!Next, Lifecycle!CleanUpAborted
<1>8. CASE API.phase = "Observing" /\ API'.phase = "CleaningUp"
  BY <1>1, <1>2, <1>8 DEF Lifecycle!Next, Lifecycle!CleanUp
<1>9. CASE /\ API.phase \in {"Injecting", "Observing", "CleaningUp"}
           /\ API'.phase = "Completed" /\ API'.verdict # ""
           /\ API.verdict # "" => API'.verdict = API.verdict
           /\ ~Disrupted
  BY <1>1, <1>2, <1>9 DEF Lifecycle!Next, Lifecycle!Complete, Disrupted
<1>10. CASE /\ API.phase \notin Terminal /\ API'.phase = "Aborted"
            /\ API'.verdict = "Inconclusive" /\ ~Disrupted
  BY <1>2, <1>3, <1>10 DEF Lifecycle!Next, Lifecycle!Abort, Disrupted
<1>11. CASE /\ API.phase \notin Terminal \cup {"Observing"}
            /\ API'.phase = "Failed" /\ API'.verdict = "Failed"
  BY <1>2, <1>3, <1>11 DEF Lifecycle!Next, Lifecycle!Fail
<1> QED
  BY <1>4, <1>5, <1>6, <1>7, <1>8, <1>9, <1>10, <1>11 DEF Moves

\* A step that changes neither the effects nor what the server holds of phase
\* and verdict is invisible in the run's life.
LEMMA StutterRefines ==
  ASSUME UNCHANGED <<spec, effect, unseen>>, API'.exists = API.exists,
         API'.phase = API.phase, API'.verdict = API.verdict
  PROVE  [Lifecycle!Next]_(Lifecycle!vars)
BY DEF Lifecycle!vars, InEffect

\* A run that goes, goes for good.
LEMMA DeleteRefines ==
  ASSUME TypeOK, UNCHANGED <<spec, effect, unseen>>, API.exists, ~API'.exists,
         API'.verdict = API.verdict
  PROVE  [Lifecycle!Next]_(Lifecycle!vars)
<1>1. API.phase # "Gone"
  BY TypeFacts DEF Run, Phases, Terminal
<1> QED
  BY <1>1 DEF Lifecycle!Next, Lifecycle!Delete, InEffect

\* Policies come while the run injects or when it has gone; they may be
\* removed at any time.
LEMMA EffectsRefine ==
  ASSUME UNCHANGED spec, API' = API,
         \/ API.exists => API.phase = "Injecting"
         \/ spec.scenario = "NetworkPartition"
              => \/ InEffect' \subseteq unseen'
                 \/ UNCHANGED unseen /\ InEffect' \subseteq InEffect
  PROVE  [Lifecycle!Next]_(Lifecycle!vars)
BY DEF Lifecycle!Next, Lifecycle!Disrupt, Lifecycle!Lift, Lifecycle!vars

\* No effect changes, and whatever says that there is none was said before.
LEMMA PoliciesKept ==
  ASSUME PoliciesAccounted, UNCHANGED <<spec, effect, unseen>>,
         Disrupted =>
           /\ API'.phase \notin {"Pending", "Completed", "Aborted"}
           /\ pc' \notin {"cleanupDone", "removeOnDelete"}
  PROVE  PoliciesAccounted'
BY DEF PoliciesAccounted, Disrupted, InEffect

\* A patch of a run that moves on as promised keeps the accounts.
LEMMA PatchStep ==
  ASSUME TypeOK, TypeOK', Accounts, pc \notin {"idle", "removeFinalizer"},
         NEW run \in Run, run.finalizer = mem.finalizer,
         NEW next \in {"idle", "counted", "checkpoint", "toInjecting",
                       "addFinalizer", "removeFinalizer"},
         NEW wake, PatchStatus(run, next, wake),
         Untouched, UNCHANGED effect,
         PhaseAt(next, run.phase), VerdictInTime(run),
         Moves(Disrupted, mem, run)
  PROVE  Accounts' /\ Promised
<1>1. mem \in Run /\ API \in Run /\ Agree(mem, API) /\ InStep
  BY TypeFacts DEF Accounts, InStep
<1>2. Stored(run) \in Run /\ Agree(run, Stored(run)) /\ Stored(run).phase = run.phase
      /\ Stored(run).verdict = run.verdict /\ Stored(run).exists = API.exists
      /\ Stored(run).injected = run.injected
      /\ Stored(run).finalizer = run.finalizer
  BY <1>1, StoredFacts
<1>3. API.phase = mem.phase /\ API.verdict = mem.verdict
      /\ API.injected = mem.injected /\ API.finalizer = mem.finalizer
  BY <1>1, AgreeFacts
<1>4. \/ /\ API.exists /\ API' = Stored(run) /\ pc' = next /\ faults' = faults
         /\ next # "idle" => mem' = API'
      \/ /\ ~API.exists /\ API' = API /\ pc' = "idle" /\ faults' = faults
      \/ /\ API.exists /\ API' \in {API, Stored(run)} /\ pc' = "idle"
         /\ faults' = faults + 1
  BY <1>1, PatchInStep
<1>5. API'.exists = API.exists /\ API'.finalizer = API.finalizer
      /\ \/ API' = API
         \/ API.exists /\ API' = Stored(run)
  <2>1. API' = API \/ (API.exists /\ API' = Stored(run))
    BY <1>4
  <2>2. Stored(run).exists = API.exists /\ Stored(run).finalizer = API.finalizer
    BY <1>2, <1>3
  <2> QED
    BY <2>1, <2>2
<1>6. InStep'
  <2>1. Agree(API', API')
    BY <1>1, <1>2, <1>5, AgreeReflexive
  <2>2. pc' # "idle" => Agree(mem', API')
    BY <1>4, <2>1
  <2>3. PhaseAt(pc', API'.phase)
    BY <1>2, <1>4 DEF PhaseAt
  <2>4. VerdictInTime(API')
    BY <1>1, <1>2, <1>5 DEF VerdictInTime, InStep
  <2> QED
    BY <2>2, <2>3, <2>4 DEF InStep
<1>7. PoliciesAccounted'
  <2> SUFFICES ASSUME Disrupted
               PROVE  /\ API'.phase \notin {"Pending", "Completed", "Aborted"}
                      /\ pc' \notin {"cleanupDone", "removeOnDelete"}
    BY PoliciesKept DEF Accounts, Untouched
  <2>1. API.phase \notin {"Pending", "Completed", "Aborted"}
    BY DEF Accounts, PoliciesAccounted, Disrupted
  <2>2. run.phase \notin {"Pending", "Completed", "Aborted"}
    BY <1>3, <2>1 DEF Moves
  <2> QED
    BY <1>2, <1>4, <1>5, <2>1, <2>2
<1>8. Promised
  <2>1. CASE API' = API
    BY <2>1, StutterRefines DEF Untouched, Promised
  <2>2. CASE API.exists /\ API' = Stored(run)
    <3>1. Moves(Disrupted, API, API')
      BY <1>2, <1>3, <2>2 DEF Moves
    <3> QED
      BY <1>5, <2>2, <3>1, MovesRefine DEF Untouched, Promised
  <2> QED
    BY <1>5, <2>1, <2>2
<1> QED
  BY <1>6, <1>7, <1>8 DEF Accounts

\* What a reconcile knows of the object it has in memory.
LEMMA MemoryFacts ==
  ASSUME TypeOK, Accounts, pc # "idle"
  PROVE  /\ mem \in Run /\ API \in Run /\ Agree(mem, API) /\ mem.phase = API.phase
         /\ mem.injected = API.injected /\ mem.finalizer = API.finalizer
         /\ mem.verdict = API.verdict
         /\ PhaseAt(pc, mem.phase) /\ VerdictInTime(mem)
         /\ Disrupted =>
              /\ mem.phase \notin {"Pending", "Completed", "Aborted"} /\ ~spec.dryRun
              /\ pc \notin {"cleanupDone", "removeOnDelete"}
<1>1. mem \in Run /\ API \in Run /\ Agree(mem, API)
  BY TypeFacts DEF Accounts, InStep
<1>2. mem.phase = API.phase /\ mem.verdict = API.verdict
      /\ mem.injected = API.injected /\ mem.finalizer = API.finalizer
  BY <1>1, AgreeFacts
<1>3. PhaseAt(pc, mem.phase) /\ VerdictInTime(mem)
  BY <1>2 DEF Accounts, InStep, VerdictInTime
<1> QED
  BY <1>1, <1>2, <1>3 DEF Accounts, PoliciesAccounted, Disrupted

\* Steps that write nothing keep the accounts.
LEMMA QuietStep ==
  ASSUME TypeOK, TypeOK', Accounts, API' = API, UNCHANGED <<spec, effect, unseen>>,
         \/ UNCHANGED <<pc, mem>>
         \/ pc' = "idle"
         \/ /\ pc # "idle" /\ mem' = mem /\ PhaseAt(pc', mem.phase)
            /\ pc' \notin {"cleanupDone", "removeOnDelete"}
  PROVE  Accounts' /\ Promised
<1>1. InStep'
  BY MemoryFacts DEF Accounts, InStep, PhaseAt
<1>2. PoliciesAccounted'
  BY PoliciesKept DEF Accounts, PoliciesAccounted, Disrupted
<1>3. Promised
  BY StutterRefines DEF Promised
<1> QED
  BY <1>1, <1>2, <1>3 DEF Accounts

\* Reading the run and aborting it.
LEMMA AccountsAbortSteps ==
  ASSUME TypeOK, TypeOK', Accounts, stale = 0, stale' = 0,
         \/ ReconcileSkip \/ ReconcileDispatch
         \/ AbortViaCleaningUp \/ AbortNow \/ AbortCounted
  PROVE  Accounts' /\ Promised
<1>1. CASE ReconcileSkip
  BY <1>1, QuietStep DEF ReconcileSkip, API
<1>2. CASE ReconcileDispatch
  <2>1. API' = API /\ Cached = API
    <3>1. stale' # stale + 1
      OBVIOUS
    <3> QED
      BY <1>2, <3>1 DEF ReconcileDispatch, API, Cached
  <2>2. API \in Run /\ mem' = API /\ pc' = Handler(API) /\ pc = "idle" /\ Live(API)
    BY <1>2, <2>1, TypeFacts DEF ReconcileDispatch, Live
  <2>3. PhaseAt(pc', API.phase) /\ pc' \notin {"cleanupDone", "removeOnDelete"}
        /\ pc' # "recordInjection"
    BY <2>2 DEF Handler, PhaseAt, Live, IsTerminal, Terminal, Run, Phases
  <2>4. InStep'
    BY <2>1, <2>2, <2>3 DEF Accounts, InStep, Agree, Run
  <2>5. PoliciesAccounted'
    BY <1>2, <2>1, <2>3, PoliciesKept
    DEF Accounts, PoliciesAccounted, Disrupted, ReconcileDispatch
  <2>6. Promised
    BY <1>2, <2>1, StutterRefines DEF Promised, ReconcileDispatch
  <2> QED
    BY <2>4, <2>5, <2>6 DEF Accounts
<1>3. CASE AbortViaCleaningUp
  <2> DEFINE run == TransitionPhase(SetCondition(mem, "AbortRequested"), "CleaningUp")
  <2>1. pc = "abort" /\ mem \in Run /\ mem.phase \in {"Injecting", "Observing"}
    BY <1>3, MemoryFacts
    DEF AbortViaCleaningUp, HasInjectedResources, PhaseAt, Run, Phases
  <2>2. run \in Run
    BY <2>1, PhaseHelpersType DEF ConditionTypes, Phases
  <2>3. run.phase = "CleaningUp" /\ run.verdict = mem.verdict
        /\ run.finalizer = mem.finalizer /\ run.injected = mem.injected
    BY <2>1 DEF TransitionPhase, SetCondition, Run
  <2>4. PatchStatus(run, "idle", now) /\ Untouched /\ UNCHANGED <<effect, counted>>
    BY <1>3 DEF AbortViaCleaningUp
  <2> HIDE DEF run
  <2> QED
    BY <2>1, <2>2, <2>3, <2>4, PatchStep DEF PhaseAt, VerdictInTime, Moves
<1>4. CASE AbortNow
  <2> DEFINE run == AbortRun(SetCondition(mem, "AbortRequested"))
  <2>1. pc = "abort" /\ mem \in Run /\ mem.phase \notin Terminal
    BY <1>4, MemoryFacts DEF AbortNow, PhaseAt
  <2>2. run \in Run
    BY <2>1, PhaseHelpersType DEF ConditionTypes
  <2>3. run.phase = "Aborted" /\ run.verdict = "Inconclusive"
        /\ run.finalizer = mem.finalizer /\ run.injected = mem.injected
    BY <2>1 DEF AbortRun, SetCondition, Run
  <2>4. PatchStatus(run, "counted", NoTime) /\ Untouched /\ UNCHANGED <<effect, counted>>
    BY <1>4 DEF AbortNow
  <2>5. ~Disrupted
    BY <1>4, MemoryFacts DEF AbortNow, HasInjectedResources, NeedsCleanup, Disrupted
  <2> HIDE DEF run
  <2> QED
    BY <2>1, <2>2, <2>3, <2>4, <2>5, PatchStep DEF PhaseAt, VerdictInTime, Moves
<1>5. CASE AbortCounted
  BY <1>5, QuietStep DEF AbortCounted, Continue, Untouched, API
<1> QED
  BY <1>1, <1>2, <1>3, <1>4, <1>5

\* A run that fails before or during its injection, or while it cleans up.
LEMMA FailStep ==
  ASSUME TypeOK, TypeOK', Accounts, pc \notin {"idle", "removeFinalizer"},
         mem.phase \notin Terminal \cup {"Observing"},
         NEW run \in Run, run.finalizer = mem.finalizer,
         NEW wake, PatchStatus(FailRun(run), "idle", wake), Untouched, UNCHANGED effect
  PROVE  Accounts' /\ Promised
<1>1. /\ FailRun(run) \in Run /\ FailRun(run).phase = "Failed"
      /\ FailRun(run).verdict = "Failed" /\ FailRun(run).finalizer = mem.finalizer
  BY PhaseHelpersType DEF FailRun, Run
<1> QED
  BY <1>1, PatchStep DEF PhaseAt, VerdictInTime, Moves

\* Everything before an injection.
LEMMA AccountsPendingSteps ==
  ASSUME TypeOK, TypeOK', Accounts,
         \/ ValidationFails \/ RecordStart \/ CheckpointStable
         \/ CheckpointCheckFails \/ CheckpointWaitTimeout
         \/ CheckpointNotStable \/ StartInjecting
  PROVE  Accounts' /\ Promised
<1>1. /\ pc \in {"Pending", "checkpoint", "toInjecting"} /\ mem.phase = "Pending"
      /\ mem \in Run /\ mem.verdict = ""
  <2>1. pc \in {"Pending", "checkpoint", "toInjecting"}
    BY DEF ValidationFails, RecordStart, CheckpointStable, CheckpointCheckFails,
           CheckpointWaitTimeout, CheckpointNotStable, StartInjecting
  <2> QED
    BY <2>1, MemoryFacts DEF PhaseAt, VerdictInTime
<1>2. CASE ValidationFails \/ CheckpointWaitTimeout
  BY <1>1, <1>2, FailStep DEF ValidationFails, CheckpointWaitTimeout, Terminal
<1>3. CASE RecordStart
  <2> DEFINE run == [mem EXCEPT !.startedAt = now]
  <2>1. run \in Run /\ run.phase = "Pending" /\ run.verdict = mem.verdict
        /\ run.finalizer = mem.finalizer /\ run.injected = mem.injected
    BY <1>1, TypeFacts DEF Run
  <2>2. PICK next \in {"checkpoint", "toInjecting"} : PatchStatus(run, next, NoTime)
    BY <1>3 DEF RecordStart
  <2> HIDE DEF run
  <2> QED
    BY <1>1, <1>3, <2>1, <2>2, PatchStep
    DEF RecordStart, PhaseAt, VerdictInTime, Moves
<1>4. CASE CheckpointStable
  <2>1. API' = API /\ pc' = "toInjecting" /\ mem' = mem
    BY <1>1, <1>4 DEF CheckpointStable, Continue, API
  <2> QED
    BY <1>1, <1>4, <2>1, QuietStep DEF CheckpointStable, Untouched, PhaseAt
<1>5. CASE CheckpointCheckFails
  <2>1. API' = API /\ pc' = "idle"
    BY <1>5 DEF CheckpointCheckFails, Fail, Continue, API
  <2> QED
    BY <1>1, <1>5, <2>1, QuietStep DEF CheckpointCheckFails, Untouched
<1>6. CASE CheckpointNotStable
  BY <1>1, <1>6, PatchStep DEF CheckpointNotStable, PhaseAt, VerdictInTime, Moves
<1>7. CASE StartInjecting
  <2> DEFINE run == TransitionPhase(mem, "Injecting")
  <2>1. run \in Run /\ run.phase = "Injecting" /\ run.verdict = mem.verdict
        /\ run.finalizer = mem.finalizer /\ run.injected = mem.injected
    BY <1>1, PhaseHelpersType DEF TransitionPhase, Run, Phases
  <2>2. PatchStatus(run, "idle", now)
    BY <1>7 DEF StartInjecting
  <2> HIDE DEF run
  <2> QED
    BY <1>1, <1>7, <2>1, <2>2, PatchStep
    DEF StartInjecting, PhaseAt, VerdictInTime, Moves
<1> QED
  BY <1>2, <1>3, <1>4, <1>5, <1>6, <1>7

\* The call of a driver, successful or not.
LEMMA InjectStep ==
  ASSUME TypeOK, TypeOK', Accounts, pc = "Injecting", ~spec.dryRun,
         UNCHANGED <<spec, store, mem, unseen>>,
         pc' \in {"recordInjection", "recordFailure"}
  PROVE  Accounts' /\ Promised
<1>1. API' = API /\ API.phase = "Injecting"
  BY MemoryFacts DEF API, PhaseAt
<1>2. InStep'
  BY <1>1 DEF Accounts, InStep, PhaseAt
<1>3. PoliciesAccounted'
  BY <1>1 DEF PoliciesAccounted
<1>4. Promised
  BY <1>1, EffectsRefine DEF Promised
<1> QED
  BY <1>2, <1>3, <1>4 DEF Accounts

\* Writes of the finalizer and the end of the object keep the accounts.
LEMMA FinalizerStep ==
  ASSUME TypeOK, TypeOK', Accounts, pc # "idle",
         NEW written \in Run, written.phase = API.phase,
         written.verdict = API.verdict,
         NEW next \in {"idle", "toObserving"}, PhaseAt(next, API.phase),
         NEW wake, Write(written, next, wake),
         Untouched, UNCHANGED effect
  PROVE  Accounts' /\ Promised
<1>1. store \in Seq(Run) /\ store # <<>>
  BY DEF TypeOK
<1>2. /\ store' = Push(written) => API' = written
      /\ store' = store => API' = API
  BY <1>1, PushStore DEF API
<1>3. \/ /\ API.exists /\ API' = written /\ pc' = next
         /\ next # "idle" => mem' = API'
      \/ API' = API /\ pc' = "idle"
      \/ API.exists /\ API' = written /\ pc' = "idle"
  BY <1>2 DEF Write, Continue, Fail
<1>4. API'.phase = API.phase /\ API'.verdict = API.verdict
      /\ (API'.exists => API.exists)
  BY <1>3
<1>5. InStep'
  <2>1. pc' # "idle" => Agree(mem', API')
    BY <1>3 DEF Agree, Run
  <2>2. PhaseAt(pc', API'.phase) /\ VerdictInTime(API')
    BY <1>3, <1>4 DEF Accounts, InStep, PhaseAt, VerdictInTime
  <2> QED
    BY <2>1, <2>2 DEF InStep
<1>6. PoliciesAccounted'
  BY <1>3, <1>4, PoliciesKept DEF Accounts, PoliciesAccounted, Disrupted, Untouched
<1>7. Promised
  <2>1. CASE API'.exists = API.exists
    BY <1>4, <2>1, StutterRefines DEF Untouched, Promised
  <2>2. CASE API.exists /\ ~API'.exists
    BY <1>4, <2>2, DeleteRefines DEF Untouched, Promised
  <2>3. API.exists \in BOOLEAN /\ API'.exists \in BOOLEAN
    BY <1>3, TypeFacts DEF Run
  <2> QED
    BY <1>4, <2>1, <2>2, <2>3
<1> QED
  BY <1>5, <1>6, <1>7 DEF Accounts

\* The injection and its record.
LEMMA AccountsInjectionSteps ==
  ASSUME TypeOK, TypeOK', Accounts,
         \/ InjectionRejected \/ DryRun
         \/ \E S \in SUBSET Units :
              Inject(S) \/ \E T, D \in SUBSET S : InjectFails(S, T, D)
         \/ RecordInjection \/ RecordFailure \/ AddFinalizer \/ TransitionToObserving
  PROVE  Accounts' /\ Promised
<1>1. /\ pc \in {"Injecting", "recordInjection", "recordFailure", "addFinalizer",
                 "toObserving"}
      /\ mem.phase = "Injecting" /\ API.phase = "Injecting" /\ mem.verdict = ""
      /\ mem \in Run /\ API \in Run
  <2>1. pc \in {"Injecting", "recordInjection", "recordFailure", "addFinalizer",
                "toObserving"}
    BY DEF InjectionRejected, DryRun, Inject, InjectFails, RecordInjection,
           RecordFailure, AddFinalizer, TransitionToObserving
  <2> QED
    BY <2>1, MemoryFacts DEF PhaseAt, VerdictInTime
<1>2. CASE InjectionRejected
  BY <1>1, <1>2, FailStep DEF InjectionRejected, Terminal
<1>3. CASE DryRun
  <2> DEFINE run == FinalizeRun(mem, "Inconclusive")
  <2>1. run \in Run /\ run.phase = "Completed" /\ run.verdict = "Inconclusive"
        /\ run.finalizer = mem.finalizer /\ run.injected = mem.injected
    <3>1. "Inconclusive" \in Verdicts
      BY DEF Verdicts
    <3>2. run \in Run
      BY <1>1, <3>1, PhaseHelpersType
    <3> QED
      BY <1>1, <3>2 DEF FinalizeRun, Run
  <2>2. PatchStatus(run, "idle", NoTime) /\ pc = "Injecting"
    BY <1>3 DEF DryRun
  <2>3. ~Disrupted
    BY <1>3, <2>2, MemoryFacts DEF DryRun
  <2> HIDE DEF run
  <2> QED
    BY <1>1, <1>3, <2>1, <2>2, <2>3, PatchStep
    DEF DryRun, PhaseAt, VerdictInTime, Moves
<1>4. ASSUME NEW S \in SUBSET Units, Inject(S)
      PROVE  Accounts' /\ Promised
  BY <1>4, InjectStep DEF Inject, Untouched
<1>5. ASSUME NEW S \in SUBSET Units, NEW T \in SUBSET S, NEW D \in SUBSET S,
             InjectFails(S, T, D)
      PROVE  Accounts' /\ Promised
  BY <1>5, InjectStep DEF InjectFails, Untouched
<1>6. CASE RecordInjection
  <2> DEFINE at == IF InContainers(spec.scenario) THEN result.at ELSE NoTime
             units == IF NeedsCleanup(spec.scenario) THEN result.units ELSE {}
  <2>1. at \in MaybeTime /\ units \in SUBSET Units
    BY TypeFacts DEF TypeOK, Result
  <2> HIDE DEF at, units
  <2> DEFINE run == [mem EXCEPT !.injected = TRUE, !.records = units,
                                !.injectedAt = at]
  <2>2. run \in Run /\ run.phase = mem.phase /\ run.verdict = mem.verdict
        /\ run.finalizer = mem.finalizer /\ run.injected
    BY <1>1, <2>1 DEF Run
  <2>3. PatchStatus(run, "addFinalizer", NoTime) /\ pc = "recordInjection"
    BY <1>6 DEF RecordInjection, at, units
  <2> HIDE DEF run
  <2> QED
    BY <1>1, <1>6, <2>2, <2>3, PatchStep
    DEF RecordInjection, PhaseAt, VerdictInTime, Moves
<1>7. CASE RecordFailure
  <2> DEFINE partial == [mem EXCEPT !.records = result.units, !.injectedAt = result.at]
  <2>1. partial \in Run /\ partial.finalizer = mem.finalizer
        /\ partial.injected = mem.injected
    BY <1>1 DEF TypeOK, Result, Run
  <2>2. \/ PatchStatus(FailRun(partial), "idle", NoTime)
        \/ PatchStatus(FailRun(mem), "idle", NoTime)
    BY <1>7 DEF RecordFailure
  <2> HIDE DEF partial
  <2> QED
    BY <1>1, <1>7, <2>1, <2>2, FailStep DEF RecordFailure, Terminal
<1>8. CASE AddFinalizer
  <2> DEFINE written == [API EXCEPT !.finalizer = TRUE]
  <2>1. written \in Run /\ written.phase = API.phase /\ written.verdict = API.verdict
        /\ written.injected = API.injected /\ written.finalizer
    BY <1>1 DEF Run
  <2>2. Write(written, "toObserving", NoTime) /\ pc = "addFinalizer"
    BY <1>8 DEF AddFinalizer
  <2> HIDE DEF written
  <2> QED
    BY <1>1, <1>8, <2>1, <2>2, FinalizerStep DEF AddFinalizer, PhaseAt
<1>9. CASE TransitionToObserving
  <2> DEFINE run == [TransitionPhase(mem, "Observing") EXCEPT !.observingAt = now]
  <2>1. run \in Run /\ run.phase = "Observing" /\ run.verdict = mem.verdict
        /\ run.finalizer = mem.finalizer /\ run.injected = mem.injected
    BY <1>1, TypeFacts DEF Run, TransitionPhase, Phases
  <2>2. /\ PatchStatus(run, "idle", RequeueAfter(IF pc = "Injecting" THEN spec.poll
                                                ELSE spec.storedPoll))
        /\ pc # "recordInjection"
    BY <1>9 DEF TransitionToObserving
  <2> HIDE DEF run
  <2> QED
    BY <1>1, <1>9, <2>1, <2>2, PatchStep
    DEF TransitionToObserving, PhaseAt, VerdictInTime, Moves
<1> QED
  BY <1>2, <1>3, <1>4, <1>5, <1>6, <1>7, <1>8, <1>9

\* The end of an observation: a cleanup, or for kills the end of the run.
LEMMA EndStep ==
  ASSUME TypeOK, TypeOK', Accounts, pc = "Observing", NEW run \in Run,
         run.phase = mem.phase, run.finalizer = mem.finalizer,
         Untouched, UNCHANGED effect,
         \/ StartCleaningUp(run) /\ UNCHANGED counted
         \/ /\ ~NeedsCleanup(spec.scenario)
            /\ \E verdict \in Verdicts \ {""} : Finish(verdict, run)
  PROVE  Accounts' /\ Promised
<1>1. mem \in Run /\ mem.phase = "Observing" /\ mem.verdict = ""
  BY MemoryFacts DEF PhaseAt, VerdictInTime
<1>2. CASE StartCleaningUp(run) /\ UNCHANGED counted
  <2> DEFINE cleaned == TransitionPhase(run, "CleaningUp")
  <2>1. cleaned \in Run /\ cleaned.phase = "CleaningUp"
        /\ cleaned.finalizer = mem.finalizer
    BY PhaseHelpersType DEF TransitionPhase, Run, Phases
  <2>2. PatchStatus(cleaned, "idle", now)
    BY <1>2 DEF StartCleaningUp
  <2> HIDE DEF cleaned
  <2> QED
    BY <1>1, <1>2, <2>1, <2>2, PatchStep DEF PhaseAt, VerdictInTime, Moves
<1>3. ASSUME NEW verdict \in Verdicts \ {""}, Finish(verdict, run),
             ~NeedsCleanup(spec.scenario)
      PROVE  Accounts' /\ Promised
  <2> DEFINE ended == FinalizeRun(run, verdict)
  <2>1. ended \in Run /\ ended.phase = "Completed" /\ ended.verdict = verdict
        /\ ended.finalizer = mem.finalizer
    BY PhaseHelpersType DEF FinalizeRun, Run
  <2>2. PatchStatus(ended, "idle", NoTime)
    BY <1>3 DEF Finish
  <2>3. ~Disrupted
    BY <1>3 DEF Disrupted, NeedsCleanup
  <2> HIDE DEF ended
  <2> QED
    BY <1>1, <2>1, <2>2, <2>3, PatchStep DEF PhaseAt, VerdictInTime, Moves
<1> QED
  BY <1>2, <1>3

\* The observation.
LEMMA AccountsObservationSteps ==
  ASSUME TypeOK, TypeOK', Accounts,
         \/ ObservationDisabled \/ ObservationTimeout \/ PartitionElapsed
         \/ PartitionHeld \/ ObservationError
         \/ \E replacement \in BOOLEAN : NotRecovered(replacement)
         \/ RecoveryObserved
  PROVE  Accounts' /\ Promised
<1>1. pc = "Observing" /\ mem \in Run /\ mem.phase = "Observing" /\ mem.verdict = ""
  <2>1. pc = "Observing"
    BY DEF ObservationDisabled, ObservationTimeout, PartitionElapsed, PartitionHeld,
           ObservationError, NotRecovered, RecoveryObserved, Polls
  <2> QED
    BY <2>1, MemoryFacts DEF PhaseAt, VerdictInTime
<1>2. CASE ObservationDisabled
  <2>1. \/ StartCleaningUp(mem) /\ UNCHANGED counted
        \/ ~NeedsCleanup(spec.scenario) /\ Finish("Passed", mem)
    BY <1>2 DEF ObservationDisabled
  <2>2. "Passed" \in Verdicts \ {""}
    BY DEF Verdicts
  <2> QED
    BY <1>1, <1>2, <2>1, <2>2, EndStep DEF ObservationDisabled
<1>3. CASE ObservationTimeout
  <2> DEFINE judged == [mem EXCEPT !.verdict = TimeoutVerdict]
  <2>1. TimeoutVerdict \in Verdicts \ {""}
    BY DEF TimeoutVerdict, Verdicts
  <2>2. judged \in Run /\ judged.phase = mem.phase
        /\ judged.finalizer = mem.finalizer /\ judged.injected = mem.injected
    BY <1>1, <2>1 DEF Run
  <2>3. \/ StartCleaningUp(judged) /\ UNCHANGED counted
        \/ ~NeedsCleanup(spec.scenario) /\ Finish(TimeoutVerdict, mem)
    BY <1>3 DEF ObservationTimeout
  <2> HIDE DEF judged
  <2> QED
    BY <1>1, <1>3, <2>1, <2>2, <2>3, EndStep DEF ObservationTimeout
<1>4. CASE PartitionElapsed
  <2>1. PICK verdict \in {"Passed", "Inconclusive"} :
          StartCleaningUp([mem EXCEPT !.verdict = verdict])
    BY <1>4 DEF PartitionElapsed
  <2> DEFINE judged == [mem EXCEPT !.verdict = verdict]
  <2>2. judged \in Run /\ judged.phase = mem.phase
        /\ judged.finalizer = mem.finalizer /\ judged.injected = mem.injected
    BY <1>1 DEF Run, Verdicts
  <2> HIDE DEF judged
  <2> QED
    BY <1>1, <1>4, <2>1, <2>2, EndStep DEF PartitionElapsed, judged
<1>5. CASE PartitionHeld
  BY <1>1, <1>5, PatchStep DEF PartitionHeld, PhaseAt, VerdictInTime, Moves
<1>6. CASE ObservationError
  <2>1. API' = API /\ pc' = "idle"
    BY <1>6 DEF ObservationError, Continue, API
  <2> QED
    BY <1>1, <1>6, <2>1, QuietStep DEF ObservationError, Untouched
<1>7. ASSUME NEW replacement \in BOOLEAN, NotRecovered(replacement)
      PROVE  Accounts' /\ Promised
  <2> DEFINE run == [mem EXCEPT !.replacement = replacement]
  <2>1. run \in Run /\ run.phase = mem.phase /\ run.verdict = mem.verdict
        /\ run.finalizer = mem.finalizer /\ run.injected = mem.injected
    BY <1>1 DEF Run
  <2>2. PatchStatus(run, "idle", RequeueAfter(spec.poll))
    BY <1>7 DEF NotRecovered
  <2> HIDE DEF run
  <2> QED
    BY <1>1, <1>7, <2>1, <2>2, PatchStep
    DEF NotRecovered, PhaseAt, VerdictInTime, Moves
<1>8. CASE RecoveryObserved
  <2> DEFINE seen == [mem EXCEPT !.replacement = TRUE, !.recovered = TRUE]
             run == SetCondition(seen, "RecoveryObserved")
  <2>1. seen \in Run /\ seen.phase = mem.phase
        /\ seen.finalizer = mem.finalizer /\ seen.injected = mem.injected
    BY <1>1 DEF Run
  <2> HIDE DEF seen
  <2>2. run \in Run /\ run.phase = mem.phase
        /\ run.finalizer = mem.finalizer /\ run.injected = mem.injected
    BY <2>1, PhaseHelpersType DEF SetCondition, Run, ConditionTypes
  <2>3. \/ StartCleaningUp(run) /\ UNCHANGED counted
        \/ ~NeedsCleanup(spec.scenario) /\ Finish("Passed", run)
    BY <1>8 DEF RecoveryObserved, seen
  <2>4. "Passed" \in Verdicts \ {""}
    BY DEF Verdicts
  <2> HIDE DEF run
  <2> QED
    BY <1>1, <1>8, <2>2, <2>3, <2>4, EndStep DEF RecoveryObserved
<1> QED
  BY <1>2, <1>3, <1>4, <1>5, <1>6, <1>7, <1>8

\* The call of a driver's cleanup, successful or not.
LEMMA CleanupStep ==
  ASSUME TypeOK, TypeOK', Accounts, pc \in {"CleaningUp", "deleteCleanup"},
         UNCHANGED <<spec, store>>,
         NEW left, DriverCleanup(left) \/ DriverCleanupFails(left),
         \/ pc' = "idle"
         \/ /\ mem' = mem /\ PhaseAt(pc', mem.phase)
            /\ \/ pc' = "cleanupRetry"
               \/ pc' \in {"cleanupDone", "removeOnDelete"} /\ DriverCleanup(left)
  PROVE  Accounts' /\ Promised
<1>1. /\ InEffect' \subseteq InEffect
      /\ spec.scenario = "NetworkPartition" =>
           /\ DriverCleanup(left) => InEffect' \subseteq unseen'
           /\ InEffect' \subseteq unseen' \/ UNCHANGED unseen
  BY CleanupEffects
<1>2. API' = API
  BY DEF API
<1>3. InStep'
  BY <1>2, MemoryFacts DEF Accounts, InStep, PhaseAt
<1>4. PoliciesAccounted'
  BY <1>1, <1>2 DEF Accounts, PoliciesAccounted
<1>5. Promised
  BY <1>1, <1>2, EffectsRefine DEF Promised
<1> QED
  BY <1>3, <1>4, <1>5 DEF Accounts

\* The cleanup, in its phase and on deletion.
LEMMA AccountsCleanupSteps ==
  ASSUME TypeOK, TypeOK', Accounts,
         \/ CleanupTimeout \/ Cleanup \/ CleanupRetry \/ CleanupDone
         \/ RemoveFinalizer \/ CleanupOnDelete \/ RemoveOnDelete
  PROVE  Accounts' /\ Promised
<1>1. /\ pc \in {"CleaningUp", "cleanupRetry", "cleanupDone", "removeFinalizer",
                 "deleteCleanup", "removeOnDelete"}
      /\ mem \in Run /\ API \in Run /\ mem.phase = API.phase /\ PhaseAt(pc, mem.phase)
  <2>1. pc \in {"CleaningUp", "cleanupRetry", "cleanupDone", "removeFinalizer",
                "deleteCleanup", "removeOnDelete"}
    BY DEF CleanupTimeout, Cleanup, CleanupRetry, CleanupDone, RemoveFinalizer,
           CleanupOnDelete, RemoveOnDelete
  <2> QED
    BY <2>1, MemoryFacts
<1> DEFINE written == WithoutFinalizer(API)
<1>2. written \in Run /\ written.phase = API.phase
      /\ written.verdict = API.verdict /\ written.injected = API.injected
  <2>1. written \in Run
    BY <1>1, PhaseHelpersType
  <2> QED
    BY <1>1, <2>1 DEF WithoutFinalizer, Run
<1> HIDE DEF written
<1>3. CASE CleanupTimeout
  <2> DEFINE run == ClearCondition(mem, "NetworkChaosCleanedUp")
  <2>1. run \in Run /\ run.finalizer = mem.finalizer /\ run.injected = mem.injected
    BY <1>1, PhaseHelpersType DEF ClearCondition, Run, ConditionTypes
  <2>2. PatchStatus(FailRun(run), "idle", NoTime) /\ pc = "CleaningUp"
        /\ mem.phase = "CleaningUp"
    BY <1>1, <1>3 DEF CleanupTimeout, PhaseAt
  <2> HIDE DEF run
  <2> QED
    BY <1>3, <2>1, <2>2, FailStep DEF CleanupTimeout, Terminal
<1>4. CASE Cleanup
  <2>1. PICK left \in SUBSET mem.records :
          \/ /\ DriverCleanup(left) /\ faults' = faults
             /\ pc' \in {"cleanupDone", "cleanupRetry"}
          \/ DriverCleanupFails(left) /\ pc' = "cleanupRetry"
    BY <1>4 DEF Cleanup
  <2>2. PhaseAt(pc', mem.phase)
    BY <1>1, <1>4, <2>1 DEF PhaseAt, Cleanup
  <2>3. pc = "CleaningUp" /\ mem' = mem /\ UNCHANGED <<spec, store>>
    BY <1>4 DEF Cleanup
  <2> QED
    BY <2>1, <2>2, <2>3, CleanupStep
<1>5. CASE CleanupRetry
  <2> DEFINE run == [mem EXCEPT !.records = result.units]
  <2>1. run \in Run /\ run.phase = mem.phase /\ run.verdict = mem.verdict
        /\ run.finalizer = mem.finalizer /\ run.injected = mem.injected
    BY <1>1 DEF Run, TypeOK, Result
  <2>2. PatchStatus(run, "idle", RequeueAfter(spec.storedPoll)) /\ pc = "cleanupRetry"
        /\ mem.phase = "CleaningUp"
    BY <1>1, <1>5 DEF CleanupRetry, PhaseAt
  <2> HIDE DEF run
  <2> QED
    BY <1>5, <2>1, <2>2, PatchStep
    DEF CleanupRetry, PhaseAt, VerdictInTime, Moves
<1>6. CASE CleanupDone
  <2> DEFINE cleared == [mem EXCEPT !.records = {}]
             run == SetCondition(cleared, "NetworkChaosCleanedUp")
             verdict == IF mem.verdict = "" THEN "Passed" ELSE mem.verdict
  <2>1. pc = "cleanupDone" /\ mem.phase = "CleaningUp"
    BY <1>1, <1>6 DEF CleanupDone, PhaseAt
  <2>2. cleared \in Run /\ cleared.finalizer = mem.finalizer
        /\ cleared.injected = mem.injected /\ cleared.phase = mem.phase
    BY <1>1 DEF Run
  <2> HIDE DEF cleared
  <2>3. run \in Run /\ run.finalizer = mem.finalizer /\ run.injected = mem.injected
    BY <2>2, PhaseHelpersType DEF SetCondition, Run, ConditionTypes
  <2>4. verdict \in Verdicts \ {""} /\ (mem.verdict # "" => verdict = mem.verdict)
    BY <1>1 DEF Run, Verdicts
  <2>5. PICK ended \in {AbortRun(run), FinalizeRun(run, verdict)} :
          PatchStatus(ended, "removeFinalizer", NoTime)
    BY <1>6 DEF CleanupDone, cleared
  <2> HIDE DEF run, verdict
  <2>6. /\ ended \in Run /\ ended.finalizer = mem.finalizer
        /\ ended.injected = mem.injected
        /\ \/ ended.phase = "Aborted" /\ ended.verdict = "Inconclusive"
           \/ ended.phase = "Completed" /\ ended.verdict = verdict
    <3>1. AbortRun(run) \in Run /\ FinalizeRun(run, verdict) \in Run
      BY <2>3, <2>4, PhaseHelpersType
    <3>2. /\ AbortRun(run).finalizer = run.finalizer
          /\ AbortRun(run).injected = run.injected
          /\ AbortRun(run).phase = "Aborted" /\ AbortRun(run).verdict = "Inconclusive"
      BY <2>3 DEF AbortRun, Run
    <3>3. /\ FinalizeRun(run, verdict).finalizer = run.finalizer
          /\ FinalizeRun(run, verdict).injected = run.injected
          /\ FinalizeRun(run, verdict).phase = "Completed"
          /\ FinalizeRun(run, verdict).verdict = verdict
      BY <2>3 DEF FinalizeRun, Run
    <3> QED
      BY <2>3, <2>5, <3>1, <3>2, <3>3
  <2>7. ~Disrupted
    BY <2>1, MemoryFacts
  <2>8. Moves(Disrupted, mem, ended)
    BY <2>1, <2>4, <2>6, <2>7 DEF Moves, Terminal
  <2>9. PhaseAt("removeFinalizer", ended.phase) /\ VerdictInTime(ended)
    BY <2>6 DEF PhaseAt, VerdictInTime
  <2>10. Untouched /\ UNCHANGED effect
    BY <1>6 DEF CleanupDone
  <2> QED
    BY <2>1, <2>5, <2>6, <2>8, <2>9, <2>10, PatchStep
<1>7. CASE RemoveFinalizer
  <2>1. CASE mem.finalizer /\ Cached.exists /\ Cached.finalizer
    <3>1. Write(written, "idle", NoTime) /\ pc = "removeFinalizer"
          /\ Untouched /\ UNCHANGED <<effect, counted>>
      BY <1>7, <2>1 DEF RemoveFinalizer, written
    <3> QED
      BY <1>2, <3>1, FinalizerStep DEF PhaseAt
  <2>2. CASE ~(mem.finalizer /\ Cached.exists /\ Cached.finalizer)
    <3>1. API' = API /\ pc' = "idle" /\ pc = "removeFinalizer"
          /\ UNCHANGED <<spec, effect, unseen>>
      BY <1>7, <2>2 DEF RemoveFinalizer, Continue, API, Untouched
    <3> QED
      BY <3>1, QuietStep
  <2> QED
    BY <2>1, <2>2
<1>8. CASE CleanupOnDelete
  <2>1. PICK left \in SUBSET mem.records :
          \/ /\ DriverCleanup(left) /\ faults' = faults
             /\ Continue(mem, "removeOnDelete", NoTime)
          \/ DriverCleanupFails(left) /\ Continue(mem, "idle", RequeueAfter(1))
    BY <1>8 DEF CleanupOnDelete
  <2>2. \/ pc' = "idle"
        \/ pc' = "removeOnDelete" /\ mem' = mem /\ DriverCleanup(left)
    BY <2>1 DEF Continue
  <2>3. /\ pc = "deleteCleanup" /\ PhaseAt("removeOnDelete", mem.phase)
        /\ UNCHANGED <<spec, store>>
    BY <1>1, <1>8 DEF CleanupOnDelete, PhaseAt
  <2> QED
    BY <2>1, <2>2, <2>3, CleanupStep
<1>9. CASE RemoveOnDelete
  <2>1. Write(written, "idle", NoTime) /\ pc = "removeOnDelete"
        /\ Untouched /\ UNCHANGED <<effect, counted>>
    BY <1>9 DEF RemoveOnDelete, written
  <2> QED
    BY <1>2, <2>1, FinalizerStep DEF PhaseAt
<1> QED
  BY <1>3, <1>4, <1>5, <1>6, <1>7, <1>8, <1>9

\* What users do to the object: they abort it, or delete it.
LEMMA UserStep ==
  ASSUME TypeOK, TypeOK', Accounts,
         UNCHANGED <<spec, pc, mem, effect, unseen>>,
         API.exists, Agree(API, API')
  PROVE  Accounts' /\ Promised
<1>1. API \in Run /\ mem \in Run /\ API' \in Run
  <2>1. API' \in Run
    BY DEF TypeOK, API
  <2> QED
    BY <2>1, TypeFacts
<1>2. API'.phase = API.phase /\ API'.verdict = API.verdict
      /\ API'.injected = API.injected /\ API'.finalizer = API.finalizer
  BY <1>1, AgreeFacts
<1>3. InStep'
  <2>1. Agree(mem, API) => Agree(mem, API')
    BY <1>1 DEF Agree, Run
  <2> QED
    BY <1>2, <2>1 DEF Accounts, InStep, VerdictInTime
<1>4. PoliciesAccounted'
  BY <1>2, PoliciesKept DEF Accounts, PoliciesAccounted, Disrupted
<1>5. Promised
  <2>1. CASE API'.exists
    BY <1>1, <1>2, <2>1, StutterRefines DEF Promised, Run
  <2>2. CASE ~API'.exists
    BY <1>2, <2>2, DeleteRefines DEF Promised
  <2> QED
    BY <2>1, <2>2
<1> QED
  BY <1>3, <1>4, <1>5 DEF Accounts

\* Everything around the reconcile.
LEMMA AccountsEnvironmentSteps ==
  ASSUME TypeOK, TypeOK', Accounts, Environment
  PROVE  Accounts' /\ Promised
<1>1. CASE WatchEvent
  <2>1. API' = API
    BY <1>1, TailStore DEF WatchEvent, TypeOK
  <2> QED
    BY <1>1, <2>1, QuietStep DEF WatchEvent, ControllerUnchanged
<1>2. CASE TimerFires
  BY <1>2, QuietStep DEF TimerFires, ControllerUnchanged, API
<1>3. CASE Tick
  BY <1>3, QuietStep DEF Tick, ControllerUnchanged, API
<1>4. CASE Restart
  BY <1>4, QuietStep DEF Restart, API
<1>5. CASE UserAborts
  <2> DEFINE written == [API EXCEPT !.abort = TRUE]
  <2>1. written \in Run /\ Agree(API, written) /\ API.exists
    BY <1>5, TypeFacts DEF UserAborts, Agree, Run
  <2>2. store' = Push(written)
        /\ UNCHANGED <<spec, pc, mem, effect, unseen>>
    BY <1>5 DEF UserAborts, ControllerUnchanged
  <2> HIDE DEF written
  <2>3. API' = written
    BY <2>1, <2>2, PushStore DEF TypeOK
  <2> QED
    BY <2>1, <2>2, <2>3, UserStep
<1>6. CASE UserDeletes
  <2> DEFINE written == [API EXCEPT !.deleting = TRUE, !.exists = API.finalizer]
  <2>1. written \in Run /\ Agree(API, written) /\ API.exists
    BY <1>6, TypeFacts DEF UserDeletes, Agree, Run
  <2>2. store' = Push(written)
        /\ UNCHANGED <<spec, pc, mem, effect, unseen>>
    BY <1>6 DEF UserDeletes, ControllerUnchanged
  <2> HIDE DEF written
  <2>3. API' = written
    BY <2>1, <2>2, PushStore DEF TypeOK
  <2> QED
    BY <2>1, <2>2, <2>3, UserStep
<1>7. ASSUME NEW u \in Units, ContainerStarts(u) \/ ContainerEnds(u)
      PROVE  Accounts' /\ Promised
  <2>1. API' = API /\ UNCHANGED <<spec, pc, mem, unseen>>
    BY <1>7 DEF ContainerStarts, ContainerEnds, ControllerUnchanged, API
  <2>2. InEffect' \subseteq InEffect
    BY <1>7
    DEF ContainerStarts, ContainerEnds, InEffect, TypeOK, Time, NoTime, Starting, Ended
  <2>3. InStep'
    BY <2>1 DEF Accounts, InStep
  <2>4. PoliciesAccounted'
    BY <2>1, <2>2 DEF Accounts, PoliciesAccounted
  <2>5. Promised
    BY <2>1, <2>2, EffectsRefine DEF Promised
  <2> QED
    BY <2>3, <2>4, <2>5 DEF Accounts
<1> QED
  BY <1>1, <1>2, <1>3, <1>4, <1>5, <1>6, <1>7 DEF Environment

LEMMA AccountsInit == Init => Accounts
<1> SUFFICES ASSUME Init
             PROVE  Accounts
  OBVIOUS
<1>1. API = NewRun /\ InEffect = {}
  BY DEF Init, API, InEffect
<1>2. InStep
  BY <1>1 DEF Init, InStep, PhaseAt, VerdictInTime, NewRun
<1>3. PoliciesAccounted
  BY <1>1 DEF PoliciesAccounted
<1> QED
  BY <1>2, <1>3 DEF Accounts

LEMMA AccountsNext ==
  ASSUME TypeOK, TypeOK', Accounts, stale = 0, stale' = 0, [Next]_vars
  PROVE  Accounts' /\ Promised
<1>1. CASE UNCHANGED vars
  <2>1. API' = API
    BY <1>1 DEF vars, API
  <2> QED
    BY <1>1, <2>1, QuietStep DEF vars
<1>2. CASE Step
  BY <1>2, AccountsAbortSteps, AccountsPendingSteps, AccountsInjectionSteps,
     AccountsObservationSteps, AccountsCleanupSteps DEF Step
<1>3. CASE Environment
  BY <1>3, AccountsEnvironmentSteps
<1> QED
  BY <1>1, <1>2, <1>3 DEF Next

\* What was never read outdated was not read so before.
LEMMA StaleGrows ==
  ASSUME TypeOK, [Next]_vars, stale' = 0
  PROVE  stale = 0
<1>1. stale \in Nat
  BY ConstantsAssumption DEF TypeOK
<1>2. stale' = stale \/ stale' = stale + 1
  BY DEF vars, Next, Step, Environment, Untouched, ControllerUnchanged,
     ReconcileSkip, ReconcileDispatch, AbortViaCleaningUp, AbortNow, AbortCounted,
     ValidationFails, RecordStart, CheckpointStable, CheckpointCheckFails,
     CheckpointWaitTimeout, CheckpointNotStable, StartInjecting, InjectionRejected,
     DryRun, Inject, InjectFails, RecordInjection, RecordFailure, AddFinalizer,
     TransitionToObserving, ObservationDisabled, ObservationTimeout,
     PartitionElapsed, PartitionHeld, ObservationError, NotRecovered,
     RecoveryObserved, CleanupTimeout, Cleanup, CleanupRetry, CleanupDone,
     RemoveFinalizer, CleanupOnDelete, RemoveOnDelete, WatchEvent, TimerFires,
     Restart, UserAborts, UserDeletes, ContainerStarts, ContainerEnds, Tick
<1> QED
  BY <1>1, <1>2

LEMMA AccountsCorrect == Spec => [](stale = 0 => Accounts)
<1>1. TypeOK /\ TypeOK' /\ (stale = 0 => Accounts) /\ [Next]_vars
        => (stale = 0 => Accounts)'
  BY AccountsNext, StaleGrows
<1> QED
  BY <1>1, AccountsInit, TypeCorrect, PTL DEF Spec

-----------------------------------------------------------------------------
(* Ephemeral containers. *)

CleanedUp == "NetworkChaosCleanedUp"

\* The active containers that are not in a record, while their time has not passed.
Uncovered(units) ==
  {u \in InEffect : u \notin units /\ ~Over(API.injectedAt, spec.duration)}

\* An injection on record covers every container until the driver has seen it
\* end, and nothing is called clean before.
ContainersAccounted ==
  InContainers(spec.scenario) =>
    /\ API.injected => API.injectedAt # NoTime /\ Uncovered(API.records) = {}
    /\ API.phase \in {"Pending", "Injecting"} /\ ~API.injected => API.records = {}
    /\ CleanedUp \in API.conditions => IsTerminal(API.phase) /\ API.records = {}
    /\ pc \in {"recordInjection", "recordFailure"} => ~API.injected
    /\ pc = "recordInjection" => result.units = Units /\ result.at # NoTime
    /\ pc \in {"cleanupRetry", "cleanupDone"} /\ API.injected
         => Uncovered(result.units) = {}
    /\ pc = "cleanupDone" => result.units = {}

\* The calls before which the driver has returned something.
Reports == {"recordInjection", "recordFailure", "cleanupRetry", "cleanupDone"}

\* What is covered, or over, stays so while no container is added.
LEMMA UncoveredStays ==
  ASSUME TypeOK, TypeOK', UNCHANGED spec, InEffect' \subseteq InEffect,
         now' = now \/ now' = now + 1, API'.injectedAt = API.injectedAt,
         NEW units, Uncovered(units) = {}
  PROVE  Uncovered(units)' = {}
<1>1. /\ now \in 0 .. MaxTime /\ now' \in 0 .. MaxTime /\ MaxTime \in Nat
      /\ API.injectedAt \in Int /\ spec.duration \in Int
  <2>1. API.injectedAt \in MaybeTime /\ spec.duration \in Nat
    BY TypeFacts DEF Run, RunSpec
  <2> QED
    BY <2>1, MaxTimeAssumption DEF TypeOK, Time, MaybeTime, NoTime
<1>2. Over(API.injectedAt, spec.duration) => Over(API.injectedAt, spec.duration)'
  BY <1>1 DEF Over
<1> QED
  BY <1>2 DEF Uncovered

\* A step that neither records nor reports anything keeps the account.
LEMMA ContainersKept ==
  ASSUME TypeOK, TypeOK', ContainersAccounted, UNCHANGED spec,
         InContainers(spec.scenario) => InEffect' \subseteq InEffect,
         now' = now \/ now' = now + 1,
         API'.injected = API.injected, API'.injectedAt = API.injectedAt,
         API'.records = API.records,
         CleanedUp \in API'.conditions => CleanedUp \in API.conditions,
         IsTerminal(API.phase) => IsTerminal(API'.phase),
         API'.phase \in {"Pending", "Injecting"} => API.phase \in {"Pending", "Injecting"},
         pc' \notin Reports \/ UNCHANGED <<pc, result>>
  PROVE  ContainersAccounted'
<1> SUFFICES ASSUME InContainers(spec.scenario)
             PROVE  ContainersAccounted'
  BY DEF ContainersAccounted
<1>1. \A units : Uncovered(units) = {} => Uncovered(units)' = {}
  BY UncoveredStays
<1>2. API'.injected => API'.injectedAt # NoTime /\ Uncovered(API.records)' = {}
  BY <1>1 DEF ContainersAccounted, Uncovered
<1>3. /\ API'.phase \in {"Pending", "Injecting"} /\ ~API'.injected => API'.records = {}
      /\ CleanedUp \in API'.conditions => IsTerminal(API'.phase) /\ API'.records = {}
  BY DEF ContainersAccounted
<1>4. CASE pc' \notin Reports
  BY <1>2, <1>3, <1>4 DEF ContainersAccounted, Reports
<1>5. CASE UNCHANGED <<pc, result>>
  <2>1. pc \in {"cleanupRetry", "cleanupDone"} /\ API.injected
          => Uncovered(result.units)' = {}
    BY <1>1, <1>5 DEF ContainersAccounted, Uncovered
  <2> QED
    BY <1>2, <1>3, <1>5, <2>1 DEF ContainersAccounted
<1> QED
  BY <1>4, <1>5

\* A run that is not finished has not been called clean.
LEMMA NotYetClean ==
  ASSUME TypeOK, Accounts, ContainersAccounted, InContainers(spec.scenario),
         pc \notin {"idle", "counted", "removeFinalizer"}
  PROVE  /\ ~IsTerminal(API.phase)
         /\ CleanedUp \notin API.conditions /\ CleanedUp \notin mem.conditions
         /\ mem.records = API.records /\ mem.injectedAt = API.injectedAt
<1>1. pc \in Labels
  BY DEF TypeOK
<1>2. ~IsTerminal(API.phase)
  BY <1>1 DEF Accounts, InStep, PhaseAt, IsTerminal, Terminal, Labels
<1> QED
  BY <1>2, MemoryFacts, AgreeFacts DEF ContainersAccounted

\* A patch of a run's phase, verdict and times keeps it.
LEMMA ContainersPatch ==
  ASSUME TypeOK, TypeOK', Accounts, ContainersAccounted,
         pc \notin {"idle", "counted", "removeFinalizer"},
         NEW run \in Run, run.finalizer = mem.finalizer,
         run.injected = mem.injected, run.injectedAt = mem.injectedAt,
         run.records = mem.records,
         run.conditions \subseteq mem.conditions \cup {"AbortRequested", "RecoveryObserved"},
         run.phase \in {"Pending", "Injecting"} => mem.phase \in {"Pending", "Injecting"},
         NEW next, next \notin Reports, NEW wake, PatchStatus(run, next, wake),
         UNCHANGED <<spec, effect, now>>
  PROVE  ContainersAccounted'
<1> SUFFICES ASSUME InContainers(spec.scenario)
             PROVE  ContainersAccounted'
  BY DEF ContainersAccounted
<1>1. API' \in {API, Stored(run)} /\ pc' \in {next, "idle"}
  BY MemoryFacts, PatchInStep
<1>2. /\ mem.injected = API.injected /\ mem.injectedAt = API.injectedAt
      /\ mem.records = API.records /\ mem.phase = API.phase
      /\ CleanedUp \notin mem.conditions /\ ~IsTerminal(API.phase)
  BY NotYetClean, MemoryFacts
<1>3. /\ Stored(run).injected = run.injected /\ Stored(run).injectedAt = run.injectedAt
      /\ Stored(run).records = run.records /\ Stored(run).phase = run.phase
      /\ Stored(run).conditions = run.conditions
  BY MemoryFacts, StoredFacts, AgreeFacts
<1>4. /\ API'.injected = API.injected /\ API'.injectedAt = API.injectedAt
      /\ API'.records = API.records
      /\ CleanedUp \in API'.conditions => CleanedUp \in API.conditions
      /\ API'.phase \in {"Pending", "Injecting"} => API.phase \in {"Pending", "Injecting"}
  BY <1>1, <1>2, <1>3 DEF CleanedUp
<1>5. pc' \notin Reports /\ InEffect' = InEffect
  BY <1>1 DEF Reports, InEffect
<1> QED
  BY <1>2, <1>4, <1>5, ContainersKept

\* A step that leaves the object alone, or changes only its finalizer.
LEMMA ContainersUntouched ==
  ASSUME TypeOK, TypeOK', ContainersAccounted, UNCHANGED spec,
         InContainers(spec.scenario) => InEffect' \subseteq InEffect,
         now' = now \/ now' = now + 1,
         API' \in {API, [API EXCEPT !.finalizer = TRUE], WithoutFinalizer(API)},
         pc' \notin Reports \/ UNCHANGED <<pc, result>>
  PROVE  ContainersAccounted'
<1>1. /\ API'.injected = API.injected /\ API'.injectedAt = API.injectedAt
      /\ API'.records = API.records /\ API'.conditions = API.conditions
      /\ API'.phase = API.phase
  BY TypeFacts DEF WithoutFinalizer, Run
<1> QED
  BY <1>1, ContainersKept

\* Reading, aborting, and everything before the injection.
LEMMA ContainersEarlySteps ==
  ASSUME TypeOK, TypeOK', Accounts, ContainersAccounted,
         \/ ReconcileSkip \/ ReconcileDispatch
         \/ AbortViaCleaningUp \/ AbortNow \/ AbortCounted
         \/ ValidationFails \/ RecordStart \/ CheckpointStable
         \/ CheckpointCheckFails \/ CheckpointWaitTimeout \/ CheckpointNotStable
         \/ StartInjecting \/ InjectionRejected \/ DryRun
  PROVE  ContainersAccounted'
<1>1. mem \in Run
  BY TypeFacts
<1>2. CASE \/ ReconcileSkip \/ AbortCounted \/ CheckpointStable
           \/ CheckpointCheckFails
  BY <1>2, ContainersUntouched
  DEF ReconcileSkip, AbortCounted, CheckpointStable, CheckpointCheckFails, Continue,
      Fail, Untouched, API, InEffect, Reports
<1>3. CASE ReconcileDispatch
  <2>1. Handler(Cached) \notin Reports
    BY TypeFacts DEF Handler, Reports, Run, Phases, Terminal
  <2> QED
    BY <1>3, <2>1, ContainersUntouched DEF ReconcileDispatch, API, InEffect
<1>4. CASE AbortViaCleaningUp \/ AbortNow
  <2> DEFINE marked == SetCondition(mem, "AbortRequested")
  <2>1. marked \in Run /\ marked.conditions = mem.conditions \cup {"AbortRequested"}
        /\ \A field \in {"finalizer", "injected", "injectedAt", "records"} :
             marked[field] = mem[field]
    BY <1>1, PhaseHelpersType DEF SetCondition, Run, ConditionTypes
  <2> HIDE DEF marked
  <2>2. TransitionPhase(marked, "CleaningUp") \in Run
        /\ TransitionPhase(marked, "CleaningUp").phase = "CleaningUp"
        /\ \A field \in {"finalizer", "injected", "injectedAt", "records", "conditions"} :
             TransitionPhase(marked, "CleaningUp")[field] = marked[field]
    BY <2>1, PhaseHelpersType DEF TransitionPhase, Run, Phases
  <2>3. AbortRun(marked) \in Run /\ AbortRun(marked).phase = "Aborted"
        /\ \A field \in {"finalizer", "injected", "injectedAt", "records", "conditions"} :
             AbortRun(marked)[field] = marked[field]
    BY <2>1, PhaseHelpersType DEF AbortRun, Run
  <2>4. pc = "abort" /\ UNCHANGED <<spec, effect, now>>
        /\ \/ PatchStatus(TransitionPhase(marked, "CleaningUp"), "idle", now)
           \/ PatchStatus(AbortRun(marked), "counted", NoTime)
    BY <1>4 DEF AbortViaCleaningUp, AbortNow, Untouched, marked
  <2>5. CASE PatchStatus(TransitionPhase(marked, "CleaningUp"), "idle", now)
    BY <2>1, <2>2, <2>4, <2>5, ContainersPatch DEF Reports
  <2>6. CASE PatchStatus(AbortRun(marked), "counted", NoTime)
    BY <2>1, <2>3, <2>4, <2>6, ContainersPatch DEF Reports
  <2> QED
    BY <2>4, <2>5, <2>6
<1>5. CASE ValidationFails \/ CheckpointWaitTimeout \/ InjectionRejected
  <2>1. FailRun(mem) \in Run /\ FailRun(mem).phase = "Failed"
        /\ \A field \in {"finalizer", "injected", "injectedAt", "records", "conditions"} :
             FailRun(mem)[field] = mem[field]
    BY <1>1, PhaseHelpersType DEF FailRun, Run
  <2> QED
    BY <1>5, <2>1, ContainersPatch
    DEF ValidationFails, CheckpointWaitTimeout, InjectionRejected, Untouched, Reports
<1>6. CASE RecordStart
  <2> DEFINE run == [mem EXCEPT !.startedAt = now]
  <2>1. run \in Run /\ run.phase = mem.phase
        /\ \A field \in {"finalizer", "injected", "injectedAt", "records", "conditions"} :
             run[field] = mem[field]
    BY <1>1, TypeFacts DEF Run
  <2> HIDE DEF run
  <2>2. pc = "Pending" /\ Untouched /\ UNCHANGED effect
        /\ PatchStatus(run, IF spec.checkpoint THEN "checkpoint" ELSE "toInjecting", NoTime)
    BY <1>6 DEF RecordStart, run
  <2> QED
    BY <2>1, <2>2, ContainersPatch DEF Untouched, Reports
<1>7. CASE CheckpointNotStable
  BY <1>1, <1>7, ContainersPatch DEF CheckpointNotStable, Untouched, Reports
<1>8. CASE StartInjecting
  <2>1. TransitionPhase(mem, "Injecting") \in Run
        /\ \A field \in {"finalizer", "injected", "injectedAt", "records", "conditions"} :
             TransitionPhase(mem, "Injecting")[field] = mem[field]
    BY <1>1, PhaseHelpersType DEF TransitionPhase, Run, Phases
  <2>2. mem.phase = "Pending"
    BY <1>8, MemoryFacts DEF StartInjecting, PhaseAt
  <2> QED
    BY <1>8, <2>1, <2>2, ContainersPatch DEF StartInjecting, Untouched, Reports
<1>9. CASE DryRun
  <2>1. FinalizeRun(mem, "Inconclusive") \in Run
        /\ FinalizeRun(mem, "Inconclusive").phase = "Completed"
        /\ \A field \in {"finalizer", "injected", "injectedAt", "records", "conditions"} :
             FinalizeRun(mem, "Inconclusive")[field] = mem[field]
    <3>1. FinalizeRun(mem, "Inconclusive") \in Run
      BY <1>1, PhaseHelpersType DEF Verdicts
    <3>2. /\ FinalizeRun(mem, "Inconclusive").phase = "Completed"
          /\ \A field \in {"finalizer", "injected", "injectedAt", "records", "conditions"} :
               FinalizeRun(mem, "Inconclusive")[field] = mem[field]
      BY <1>1 DEF FinalizeRun, Run
    <3> QED
      BY <3>1, <3>2
  <2> QED
    BY <1>9, <2>1, ContainersPatch DEF DryRun, Untouched, Reports
<1> QED
  BY <1>2, <1>3, <1>4, <1>5, <1>6, <1>7, <1>8, <1>9

\* The injection: what the driver has done is recorded as a whole.
LEMMA ContainersInjectionSteps ==
  ASSUME TypeOK, TypeOK', Accounts, ContainersAccounted,
         \/ \E S \in SUBSET Units :
              Inject(S) \/ \E T, D \in SUBSET S : InjectFails(S, T, D)
         \/ RecordInjection \/ RecordFailure \/ AddFinalizer \/ TransitionToObserving
  PROVE  ContainersAccounted'
<1> SUFFICES ASSUME InContainers(spec.scenario)
             PROVE  ContainersAccounted'
  <2>1. spec' = spec
    BY DEF Inject, InjectFails, RecordInjection, RecordFailure, AddFinalizer,
           TransitionToObserving, Untouched
  <2> QED
    BY <2>1 DEF ContainersAccounted
<1>1. mem \in Run /\ API \in Run /\ NeedsCleanup(spec.scenario) /\ now # NoTime
  BY TypeFacts DEF InContainers, NeedsCleanup
<1>2. ASSUME NEW S \in SUBSET Units,
             Inject(S) \/ \E T, D \in SUBSET S : InjectFails(S, T, D)
      PROVE  ContainersAccounted'
  <2>1. /\ pc = "Injecting" /\ ~mem.injected /\ API' = API /\ UNCHANGED spec
        /\ pc' \in {"recordInjection", "recordFailure"}
    BY <1>2 DEF Inject, InjectFails, Untouched, API
  <2>2. mem.records = {} /\ ~API.injected
    BY <2>1, MemoryFacts, AgreeFacts DEF ContainersAccounted, PhaseAt
  <2>3. pc' = "recordInjection" => result' = [units |-> Units, at |-> now]
    BY <1>1, <1>2, <2>2 DEF Inject, InjectFails, AlreadyInjected, Selections
  <2> QED
    BY <1>1, <2>1, <2>2, <2>3 DEF ContainersAccounted
<1>3. CASE RecordInjection
  <2> DEFINE run == [mem EXCEPT !.injected = TRUE,
                                !.records = IF NeedsCleanup(spec.scenario)
                                            THEN result.units ELSE {},
                                !.injectedAt = IF InContainers(spec.scenario)
                                               THEN result.at ELSE NoTime]
  <2>1. /\ pc = "recordInjection" /\ UNCHANGED <<spec, effect, now>>
        /\ PatchStatus(run, "addFinalizer", NoTime)
    BY <1>3 DEF RecordInjection, Untouched
  <2>2. result.units = Units /\ result.at # NoTime /\ result \in Result
    BY <2>1 DEF ContainersAccounted, TypeOK
  <2>3. /\ run \in Run /\ run.finalizer = mem.finalizer /\ run.phase = mem.phase
        /\ run.conditions = mem.conditions /\ run.injected
        /\ run.records = Units /\ run.injectedAt = result.at
    BY <1>1, <2>2 DEF Run, Result
  <2> HIDE DEF run
  <2>4. API' \in {API, Stored(run)} /\ pc' \in {"addFinalizer", "idle"}
    BY <2>1, <2>3, MemoryFacts, PatchInStep
  <2>5. CASE API' = API
    BY <2>1, <2>4, <2>5, ContainersUntouched DEF Reports, InEffect
  <2>6. CASE API' = Stored(run)
    <3>1. /\ API'.injected /\ API'.injectedAt # NoTime /\ API'.records = Units
          /\ API'.conditions = mem.conditions
      BY <1>1, <2>2, <2>3, <2>6, StoredFacts, AgreeFacts
    <3>2. CleanedUp \notin API'.conditions
      BY <2>1, <3>1, NotYetClean
    <3>3. Uncovered(API.records)' = {}
      BY <3>1 DEF Uncovered, InEffect
    <3> QED
      BY <2>4, <3>1, <3>2, <3>3 DEF ContainersAccounted
  <2> QED
    BY <2>4, <2>5, <2>6
<1>4. CASE RecordFailure
  <2> DEFINE partial == IF InContainers(spec.scenario) /\ result.units # {}
                        THEN [mem EXCEPT !.records = result.units,
                                         !.injectedAt = result.at]
                        ELSE mem
             run == FailRun(partial)
  <2>1. /\ pc = "recordFailure" /\ UNCHANGED <<spec, effect, now>>
        /\ PatchStatus(run, "idle", NoTime)
    BY <1>4 DEF RecordFailure, Untouched
  <2>2. /\ partial \in Run /\ partial.finalizer = mem.finalizer
        /\ partial.injected = mem.injected /\ partial.conditions = mem.conditions
    BY <1>1 DEF TypeOK, Run, Result
  <2> HIDE DEF partial
  <2>3. /\ run \in Run /\ run.finalizer = mem.finalizer /\ run.phase = "Failed"
        /\ run.conditions = mem.conditions /\ run.injected = mem.injected
    BY <2>2, PhaseHelpersType DEF FailRun, Run
  <2> HIDE DEF run
  <2>4. API' \in {API, Stored(run)} /\ pc' = "idle"
    BY <2>1, <2>3, MemoryFacts, PatchInStep
  <2>5. CASE API' = API
    BY <2>1, <2>4, <2>5, ContainersUntouched DEF Reports, InEffect
  <2>6. CASE API' = Stored(run)
    <3>1. ~mem.injected /\ CleanedUp \notin mem.conditions
      BY <2>1, MemoryFacts, NotYetClean DEF ContainersAccounted
    <3>2. /\ API'.injected = run.injected /\ API'.phase = "Failed"
          /\ API'.conditions = mem.conditions
      BY <1>1, <2>3, <2>6, StoredFacts, AgreeFacts
    <3> QED
      BY <2>3, <2>4, <3>1, <3>2 DEF ContainersAccounted
  <2> QED
    BY <2>4, <2>5, <2>6
<1>5. CASE AddFinalizer
  <2>1. Write([API EXCEPT !.finalizer = TRUE], "toObserving", NoTime)
        /\ UNCHANGED <<spec, effect, now>>
    BY <1>5 DEF AddFinalizer, Untouched
  <2>2. [API EXCEPT !.finalizer = TRUE] \in Run /\ "toObserving" \in Labels
        /\ NoTime \in MaybeTime
    BY <1>1, TypeFacts DEF Run, Labels
  <2>3. API' \in {API, [API EXCEPT !.finalizer = TRUE]} /\ pc' \in {"toObserving", "idle"}
    BY <2>1, <2>2, WriteOutcome
  <2> QED
    BY <2>1, <2>3, ContainersUntouched DEF Reports, InEffect
<1>6. CASE TransitionToObserving
  <2> DEFINE run == [TransitionPhase(mem, "Observing") EXCEPT !.observingAt = now]
  <2>1. run \in Run /\ run.phase = "Observing"
        /\ \A field \in {"finalizer", "injected", "injectedAt", "records", "conditions"} :
             run[field] = mem[field]
    BY <1>1, TypeFacts DEF TransitionPhase, Run, Phases
  <2> HIDE DEF run
  <2>2. PICK wake : PatchStatus(run, "idle", wake)
    BY <1>6 DEF TransitionToObserving, run
  <2>3. pc \notin {"idle", "counted", "removeFinalizer"} /\ UNCHANGED <<spec, effect, now>>
    BY <1>6 DEF TransitionToObserving, Untouched
  <2> QED
    BY <2>1, <2>2, <2>3, ContainersPatch DEF Reports
<1> QED
  BY <1>2, <1>3, <1>4, <1>5, <1>6

\* The observation never touches the records.
LEMMA ContainersObservationSteps ==
  ASSUME TypeOK, TypeOK', Accounts, ContainersAccounted,
         \/ ObservationDisabled \/ ObservationTimeout \/ PartitionElapsed
         \/ PartitionHeld \/ ObservationError
         \/ \E replacement \in BOOLEAN : NotRecovered(replacement)
         \/ RecoveryObserved
  PROVE  ContainersAccounted'
<1> SUFFICES ASSUME InContainers(spec.scenario)
             PROVE  ContainersAccounted'
  <2>1. spec' = spec
    BY DEF ObservationDisabled, ObservationTimeout, PartitionElapsed, PartitionHeld,
           ObservationError, NotRecovered, RecoveryObserved, Untouched
  <2> QED
    BY <2>1 DEF ContainersAccounted
<1>1. mem \in Run /\ NeedsCleanup(spec.scenario) /\ spec.scenario # "NetworkPartition"
  BY TypeFacts DEF InContainers, NeedsCleanup
<1>2. ~PartitionElapsed /\ ~PartitionHeld
  BY <1>1 DEF PartitionElapsed, PartitionHeld, HoldsPartition
<1>3. CASE ObservationError
  BY <1>3, ContainersUntouched
  DEF ObservationError, Continue, Untouched, API, InEffect, Reports
<1>4. ASSUME NEW replacement \in BOOLEAN, NotRecovered(replacement)
      PROVE  ContainersAccounted'
  <2> DEFINE run == [mem EXCEPT !.replacement = replacement]
  <2>1. run \in Run
        /\ \A field \in {"finalizer", "injected", "injectedAt", "records", "conditions",
                         "phase"} : run[field] = mem[field]
    BY <1>1 DEF Run
  <2> HIDE DEF run
  <2>2. pc = "Observing" /\ PatchStatus(run, "idle", RequeueAfter(spec.poll))
        /\ UNCHANGED <<spec, effect, now>>
    BY <1>4 DEF NotRecovered, Polls, Untouched, run
  <2> QED
    BY <2>1, <2>2, ContainersPatch DEF Reports
<1>5. ASSUME NEW run \in Run, StartCleaningUp(run), pc = "Observing",
             UNCHANGED <<spec, effect, now>>,
             \A field \in {"finalizer", "injected", "injectedAt", "records"} :
               run[field] = mem[field],
             run.conditions \subseteq mem.conditions \cup {"RecoveryObserved"}
      PROVE  ContainersAccounted'
  <2>1. TransitionPhase(run, "CleaningUp") \in Run
        /\ TransitionPhase(run, "CleaningUp").phase = "CleaningUp"
        /\ \A field \in {"finalizer", "injected", "injectedAt", "records", "conditions"} :
             TransitionPhase(run, "CleaningUp")[field] = run[field]
    BY <1>5, PhaseHelpersType DEF TransitionPhase, Run, Phases
  <2> QED
    BY <1>5, <2>1, ContainersPatch DEF StartCleaningUp, Reports
<1>6. CASE ObservationDisabled
  BY <1>1, <1>5, <1>6 DEF ObservationDisabled, Untouched
<1>7. CASE ObservationTimeout
  <2> DEFINE run == [mem EXCEPT !.verdict = TimeoutVerdict]
  <2>1. run \in Run
        /\ \A field \in {"finalizer", "injected", "injectedAt", "records", "conditions"} :
             run[field] = mem[field]
    BY <1>1 DEF Run, TimeoutVerdict, Verdicts
  <2>2. pc = "Observing" /\ UNCHANGED <<spec, effect, now>> /\ StartCleaningUp(run)
    BY <1>1, <1>7 DEF ObservationTimeout, Untouched
  <2> HIDE DEF run
  <2> QED
    BY <1>5, <2>1, <2>2
<1>8. CASE RecoveryObserved
  <2> DEFINE seen == [mem EXCEPT !.replacement = TRUE, !.recovered = TRUE]
             run == SetCondition(seen, "RecoveryObserved")
  <2>1. seen \in Run
        /\ \A field \in {"finalizer", "injected", "injectedAt", "records", "conditions"} :
             seen[field] = mem[field]
    BY <1>1 DEF Run
  <2>2. pc = "Observing" /\ UNCHANGED <<spec, effect, now>> /\ StartCleaningUp(run)
    BY <1>1, <1>8 DEF RecoveryObserved, Polls, Untouched
  <2> HIDE DEF seen
  <2>3. run \in Run /\ run.conditions = seen.conditions \cup {"RecoveryObserved"}
        /\ \A field \in {"finalizer", "injected", "injectedAt", "records"} :
             run[field] = seen[field]
    BY <2>1, PhaseHelpersType DEF SetCondition, Run, ConditionTypes
  <2> HIDE DEF run
  <2> QED
    BY <1>5, <2>1, <2>2, <2>3
<1> QED
  BY <1>2, <1>3, <1>4, <1>6, <1>7, <1>8

\* The cleanup: a container leaves the record when it has ended or its time is
\* over, and what is left is reported.
LEMMA ContainersCleanupSteps ==
  ASSUME TypeOK, TypeOK', Accounts, ContainersAccounted,
         \/ CleanupTimeout \/ Cleanup \/ CleanupRetry \/ CleanupDone
         \/ RemoveFinalizer \/ CleanupOnDelete \/ RemoveOnDelete
  PROVE  ContainersAccounted'
<1> SUFFICES ASSUME InContainers(spec.scenario)
             PROVE  ContainersAccounted'
  <2>1. spec' = spec
    BY DEF CleanupTimeout, Cleanup, CleanupRetry, CleanupDone, RemoveFinalizer,
           CleanupOnDelete, RemoveOnDelete, Untouched
  <2> QED
    BY <2>1 DEF ContainersAccounted
<1>1. mem \in Run /\ API \in Run /\ spec.scenario # "NetworkPartition"
      /\ WithoutFinalizer(API) \in Run /\ "idle" \in Labels /\ NoTime \in MaybeTime
  BY TypeFacts, PhaseHelpersType DEF InContainers, Labels
<1>2. CASE CleanupTimeout
  <2> DEFINE cleared == ClearCondition(mem, "NetworkChaosCleanedUp")
  <2>1. cleared \in Run /\ cleared.conditions \subseteq mem.conditions
        /\ \A field \in {"finalizer", "injected", "injectedAt", "records"} :
             cleared[field] = mem[field]
    BY <1>1, PhaseHelpersType DEF ClearCondition, Run, ConditionTypes
  <2>2. pc = "CleaningUp" /\ UNCHANGED <<spec, effect, now>>
        /\ PatchStatus(FailRun(cleared), "idle", NoTime)
    BY <1>2 DEF CleanupTimeout, Untouched
  <2> HIDE DEF cleared
  <2>3. FailRun(cleared) \in Run /\ FailRun(cleared).phase = "Failed"
        /\ \A field \in {"finalizer", "injected", "injectedAt", "records", "conditions"} :
             FailRun(cleared)[field] = cleared[field]
    BY <2>1, PhaseHelpersType DEF FailRun, Run
  <2> QED
    BY <2>1, <2>2, <2>3, ContainersPatch DEF Reports
<1>3. CASE Cleanup
  <2>1. /\ pc = "CleaningUp" /\ API' = API /\ UNCHANGED <<spec, effect, now>>
        /\ \E left \in SUBSET mem.records :
             /\ Unclean \subseteq left /\ result'.units = left
             /\ pc' = "cleanupRetry" \/ (pc' = "cleanupDone" /\ left = {})
    BY <1>1, <1>3
    DEF Cleanup, DriverCleanup, DriverCleanupFails, API
  <2>2. mem.records = API.records /\ mem.injectedAt = API.injectedAt
    BY <2>1, NotYetClean
  <2>3. API.injected => Uncovered(result.units)' = {}
    <3>1. \A u \in InEffect : effect[u] # Ended
      BY DEF InEffect
    <3>2. API.injected => \A u \in InEffect :
            u \in Unclean \/ Over(API.injectedAt, spec.duration)
      BY <2>2, <3>1 DEF ContainersAccounted, Uncovered, Unclean
    <3> QED
      BY <2>1, <3>2 DEF Uncovered, InEffect, Over
  <2>4. API.injected => Uncovered(API.records)' = {}
    BY <2>1 DEF ContainersAccounted, Uncovered, InEffect, Over
  <2> QED
    BY <2>1, <2>3, <2>4 DEF ContainersAccounted
<1>4. CASE CleanupRetry \/ CleanupDone
  <2> DEFINE kept == [mem EXCEPT !.records = result.units]
             done == SetCondition([mem EXCEPT !.records = {}], "NetworkChaosCleanedUp")
             end == IF "AbortRequested" \in mem.conditions THEN AbortRun(done)
                    ELSE FinalizeRun(done, IF mem.verdict = "" THEN "Passed"
                                           ELSE mem.verdict)
             run == IF pc = "cleanupRetry" THEN kept ELSE end
  <2>1. /\ pc \in {"cleanupRetry", "cleanupDone"} /\ UNCHANGED <<spec, effect, now>>
        /\ \E next \in {"idle", "removeFinalizer"} : \E wake : PatchStatus(run, next, wake)
    BY <1>4 DEF CleanupRetry, CleanupDone, Untouched
  <2>2. kept \in Run /\ kept.records = result.units
        /\ \A field \in {"finalizer", "injected", "injectedAt", "phase", "conditions"} :
             kept[field] = mem[field]
    BY <1>1 DEF TypeOK, Run, Result
  <2>3. /\ done \in Run /\ done.records = {}
        /\ \A field \in {"finalizer", "injected", "injectedAt"} : done[field] = mem[field]
    BY <1>1 DEF SetCondition, Run, ConditionTypes
  <2> HIDE DEF kept, done
  <2>4. /\ end \in Run /\ IsTerminal(end.phase)
        /\ \A field \in {"finalizer", "injected", "injectedAt", "records"} :
             end[field] = done[field]
    <3>1. mem.verdict \in Verdicts /\ "Passed" \in Verdicts
      BY <1>1 DEF Run, Verdicts
    <3> DEFINE verdict == IF mem.verdict = "" THEN "Passed" ELSE mem.verdict
    <3>2. verdict \in Verdicts
      BY <3>1
    <3> HIDE DEF verdict
    <3>3. /\ AbortRun(done) \in Run /\ AbortRun(done).phase = "Aborted"
          /\ \A field \in {"finalizer", "injected", "injectedAt", "records"} :
               AbortRun(done)[field] = done[field]
      BY <2>3, PhaseHelpersType DEF AbortRun, Run
    <3>4. /\ FinalizeRun(done, verdict) \in Run
          /\ FinalizeRun(done, verdict).phase = "Completed"
          /\ \A field \in {"finalizer", "injected", "injectedAt", "records"} :
               FinalizeRun(done, verdict)[field] = done[field]
      BY <2>3, <3>2, PhaseHelpersType DEF FinalizeRun, Run
    <3> QED
      BY <3>3, <3>4 DEF verdict, IsTerminal, Terminal
  <2> HIDE DEF end
  <2>5. /\ run \in Run /\ run.finalizer = mem.finalizer /\ run.injected = mem.injected
        /\ run.injectedAt = mem.injectedAt /\ run.records = result.units
        /\ \/ run.phase = mem.phase /\ run.conditions = mem.conditions
           \/ IsTerminal(run.phase) /\ run.records = {}
    <3>1. CASE pc = "cleanupRetry"
      BY <2>2, <3>1
    <3>2. CASE pc = "cleanupDone"
      <4>1. result.units = {} /\ run = end
        BY <3>2 DEF ContainersAccounted
      <4> QED
        BY <2>3, <2>4, <4>1
    <3> QED
      BY <2>1, <3>1, <3>2
  <2> HIDE DEF run
  <2>6. API' \in {API, Stored(run)} /\ pc' \in {"idle", "removeFinalizer"}
    BY <2>1, <2>5, MemoryFacts, PatchInStep
  <2>7. CASE API' = API
    BY <2>1, <2>6, <2>7, ContainersUntouched DEF Reports, InEffect
  <2>8. CASE API' = Stored(run)
    <3>1. /\ API'.injected = run.injected /\ API'.injectedAt = run.injectedAt
          /\ API'.records = run.records /\ API'.phase = run.phase
          /\ API'.conditions = run.conditions
      BY <1>1, <2>5, <2>8, StoredFacts, AgreeFacts
    <3>2. /\ mem.injected = API.injected /\ mem.injectedAt = API.injectedAt
          /\ mem.phase = "CleaningUp" /\ CleanedUp \notin mem.conditions
      BY <2>1, MemoryFacts, NotYetClean DEF PhaseAt
    <3>3. API'.injected => API'.injectedAt # NoTime /\ Uncovered(API.records)' = {}
      BY <2>1, <2>5, <3>1, <3>2 DEF ContainersAccounted, Uncovered, InEffect, Over
    <3>4. CleanedUp \in API'.conditions => IsTerminal(API'.phase) /\ API'.records = {}
      BY <2>5, <3>1, <3>2
    <3>5. API'.phase \notin {"Pending", "Injecting"}
      BY <2>5, <3>1, <3>2 DEF IsTerminal, Terminal
    <3> QED
      BY <2>6, <3>3, <3>4, <3>5 DEF ContainersAccounted
  <2> QED
    BY <2>6, <2>7, <2>8
<1>5. CASE RemoveFinalizer \/ RemoveOnDelete
  <2>1. UNCHANGED <<spec, effect, now>>
        /\ \/ Write(WithoutFinalizer(API), "idle", NoTime)
           \/ pc' = "idle" /\ API' = API
    BY <1>5 DEF RemoveFinalizer, RemoveOnDelete, Continue, Untouched, API
  <2>2. API' \in {API, WithoutFinalizer(API)} /\ pc' = "idle"
    BY <1>1, <2>1, WriteOutcome
  <2> QED
    BY <2>1, <2>2, ContainersUntouched DEF Reports, InEffect
<1>6. CASE CleanupOnDelete
  BY <1>1, <1>6, ContainersUntouched
  DEF CleanupOnDelete, DriverCleanup, DriverCleanupFails, Continue, Untouched, API,
      InEffect, Reports
<1> QED
  BY <1>2, <1>3, <1>4, <1>5, <1>6

\* Around the reconcile containers only end, and users do not touch the status.
LEMMA ContainersEnvironmentSteps ==
  ASSUME TypeOK, TypeOK', ContainersAccounted, Environment
  PROVE  ContainersAccounted'
<1>1. CASE WatchEvent
  <2>1. API' = API
    BY <1>1, TailStore DEF WatchEvent, TypeOK
  <2> QED
    BY <1>1, <2>1, ContainersUntouched DEF WatchEvent, ControllerUnchanged, InEffect
<1>2. CASE TimerFires \/ Tick
  BY <1>2, ContainersUntouched DEF TimerFires, Tick, ControllerUnchanged, API, InEffect
<1>3. CASE Restart
  BY <1>3, ContainersUntouched DEF Restart, API, InEffect, Reports
<1>4. CASE UserAborts \/ UserDeletes
  <2> DEFINE aborted == [API EXCEPT !.abort = TRUE]
             deleted == [API EXCEPT !.deleting = TRUE, !.exists = API.finalizer]
  <2>1. aborted \in Run /\ deleted \in Run
        /\ \A v \in {aborted, deleted} :
             /\ v.injected = API.injected /\ v.injectedAt = API.injectedAt
             /\ v.records = API.records /\ v.conditions = API.conditions
             /\ v.phase = API.phase
    BY TypeFacts DEF Run
  <2>2. store' \in {Push(aborted), Push(deleted)}
        /\ UNCHANGED <<spec, effect, now, pc, result>>
    BY <1>4 DEF UserAborts, UserDeletes, ControllerUnchanged
  <2> HIDE DEF aborted, deleted
  <2>3. API' \in {aborted, deleted}
    BY <2>1, <2>2, PushStore DEF TypeOK
  <2> QED
    BY <2>1, <2>2, <2>3, ContainersKept DEF InEffect
<1>5. ASSUME NEW u \in Units, ContainerStarts(u) \/ ContainerEnds(u)
      PROVE  ContainersAccounted'
  <2>1. InEffect' \subseteq InEffect
    BY <1>5
    DEF ContainerStarts, ContainerEnds, InEffect, TypeOK, NoTime, Starting, Ended
  <2> QED
    BY <1>5, <2>1, ContainersUntouched
    DEF ContainerStarts, ContainerEnds, ControllerUnchanged, API
<1> QED
  BY <1>1, <1>2, <1>3, <1>4, <1>5 DEF Environment

LEMMA ContainersCorrect == Spec => [](stale = 0 => ContainersAccounted)
<1>1. Init => ContainersAccounted
  <2> SUFFICES ASSUME Init
               PROVE  ContainersAccounted
    OBVIOUS
  <2>1. API = NewRun /\ pc = "idle"
    BY DEF Init, API
  <2>2. ~API.injected /\ API.records = {} /\ API.conditions = {}
    BY <2>1 DEF NewRun
  <2> QED
    BY <2>1, <2>2 DEF ContainersAccounted
<1>2. /\ TypeOK /\ TypeOK' /\ (stale = 0 => Accounts)
      /\ (stale = 0 => ContainersAccounted) /\ [Next]_vars
      => (stale = 0 => ContainersAccounted)'
  <2> SUFFICES ASSUME TypeOK, TypeOK', stale = 0 => Accounts,
                      stale = 0 => ContainersAccounted, [Next]_vars, stale' = 0
               PROVE  ContainersAccounted'
    OBVIOUS
  <2>0. Accounts /\ ContainersAccounted
    BY StaleGrows
  <2>1. CASE UNCHANGED vars
    BY <2>0, <2>1, ContainersUntouched DEF vars, API, InEffect
  <2>2. CASE Step
    BY <2>0, <2>2, ContainersEarlySteps, ContainersInjectionSteps, ContainersObservationSteps,
       ContainersCleanupSteps DEF Step
  <2>3. CASE Environment
    BY <2>0, <2>3, ContainersEnvironmentSteps
  <2> QED
    BY <2>1, <2>2, <2>3 DEF Next
<1> QED
  BY <1>1, <1>2, AccountsCorrect, TypeCorrect, PTL DEF Spec

-----------------------------------------------------------------------------
(* The theorems. *)

\* Until it reads an outdated version, the controller calls a run in ephemeral
\* containers whose injection is on record clean only when they have all ended,
\* or their time is over.
THEOREM CleanMeansEndedOrOver == Spec => []CleanedUpAfterDuration
<1>1. (stale = 0 => ContainersAccounted) => CleanedUpAfterDuration
  <2> SUFFICES ASSUME ContainersAccounted, InContainers(spec.scenario), API.injected,
                      CleanedUp \in API.conditions
               PROVE  InEffect = {} \/ (API.injectedAt # NoTime
                                          /\ Over(API.injectedAt, spec.duration))
    BY DEF CleanedUpAfterDuration, CleanedUp
  <2> QED
    BY DEF ContainersAccounted, Uncovered
<1> QED
  BY <1>1, ContainersCorrect, PTL

\* Until it reads an outdated version, the controller implements the life of a
\* run that ChaosRunLifecycle promises to the readers of its status.
THEOREM Implementation == Spec => RefinesLifecycle
<1>1. Init => Lifecycle!Init
  <2> SUFFICES ASSUME Init
               PROVE  Lifecycle!Init
    OBVIOUS
  <2>1. API = NewRun /\ InEffect = {}
    BY DEF Init, API, InEffect
  <2> QED
    BY <2>1 DEF Lifecycle!Init, NewRun
<1>2. TypeOK /\ TypeOK' /\ (stale = 0 => Accounts) /\ [Next]_vars
        => [stale' = 0 => [Lifecycle!Next]_(Lifecycle!vars)]_vars
  BY AccountsNext, StaleGrows DEF Promised
<1> QED
  BY <1>1, <1>2, AccountsCorrect, TypeCorrect, PTL DEF Spec, RefinesLifecycle
=============================================================================
