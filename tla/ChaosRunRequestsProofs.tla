------------------------ MODULE ChaosRunRequestsProofs ------------------------
(***************************************************************************)
(* What becomes of what a user asked for, proved for any namespaces, pods, *)
(* labels and requests: the consent to the loss of the last TaskManager,   *)
(* the cap on durations, the duration and the selector that were given,    *)
(* the address of an external target, and the TaskManagers the web UI      *)
(* shows.                                                                  *)
(*                                                                         *)
(* A spec goes through three hands: a front end writes it, the schema and  *)
(* SetDefaults fill it.  The first lemmas say of each which fields it      *)
(* changes; the invariant Progress says what a request that has come to a  *)
(* stage has passed; each theorem follows a few fields through both.       *)
(***************************************************************************)
EXTENDS ChaosRunRequests, TLAPS, FiniteSetTheorems

-----------------------------------------------------------------------------
(* Sets. *)

\* A finite set has a subset of every size up to its own.
LEMMA SubsetOfSize ==
  ASSUME NEW S, IsFiniteSet(S), NEW n \in Nat, n <= Cardinality(S)
  PROVE  \E T \in SUBSET S : Cardinality(T) = n
<1>1. PICK f : f \in Bijection(1 .. Cardinality(S), S)
  BY FS_CardinalityType DEF ExistsBijection
<1> DEFINE T == {f[i] : i \in 1 .. n}
<1>2. Cardinality(S) \in Nat
  BY FS_CardinalityType
<1>3. 1 .. n \subseteq 1 .. Cardinality(S)
  BY <1>2
<1>4. /\ f \in [1 .. Cardinality(S) -> S]
      /\ \A i, j \in 1 .. Cardinality(S) : f[i] = f[j] => i = j
  BY <1>1 DEF Bijection, Injection, IsInjective, Surjection
<1>5. T \in SUBSET S
  BY <1>3, <1>4
<1> DEFINE g == [i \in 1 .. n |-> f[i]]
<1>6. g \in Bijection(1 .. n, T)
  BY <1>3, <1>4 DEF Bijection, Injection, IsInjective, Surjection
<1>7. Cardinality(T) = n
  BY <1>6, FS_CountingElements DEF ExistsBijection
<1> QED
  BY <1>5, <1>7

\* What is chosen from a set of one is its element.
LEMMA TheOnlyOne ==
  ASSUME NEW S, IsFiniteSet(S), Cardinality(S) = 1
  PROVE  S = {CHOOSE v \in S : TRUE}
<1>1. PICK x : S = {x}
  BY FS_Singleton
<1> QED
  BY <1>1

\* The pods a target is resolved to can be counted.
LEMMA TMPodsFinite ==
  ASSUME NEW ns \in Namespaces, NEW t
  PROVE  IsFiniteSet(TMPods(ns, t)) /\ Cardinality(TMPods(ns, t)) \in Nat
<1>1. TMPods(ns, t) \in SUBSET PodsOf(ns)
  BY DEF TMPods, Resolved
<1> QED
  BY <1>1, RequestsAssumption, FS_Subset, FS_CardinalityType

-----------------------------------------------------------------------------
(* The hands a spec goes through. *)

LEMMA BlankWellFormed == WellFormed(Blank)
  BY DEF WellFormed, Blank, Unset

LEMMA AskedNumbers ==
  ASSUME NEW a, WellFormed(a)
  PROVE  /\ {a.count, a.duration, Positive(a.duration), MinTaskManagers(a)} \subseteq Int
         /\ a.timeout \in Nat
         /\ (IF a.duration > 0 THEN a.duration ELSE 0) \in Nat
BY DEF WellFormed, Positive, Unset, Or, MinTaskManagers

\* What the front ends write is a spec.
LEMMA FrontEndsWriteSpecs ==
  ASSUME NEW a, WellFormed(a),
         a.scenario \in {"TaskManagerPodKill", "ResourceExhaustion"} \cup NetworkScenarios
  PROVE  WellFormed(PluginSpec(a)) /\ WellFormed(UISpec(a))
<1>1. WellFormed(PluginBase(a)) /\ WellFormed(UIBase(a))
  <2>1. WellFormed(PluginBase(a))
    BY BlankWellFormed, AskedNumbers DEF PluginBase, WellFormed
  <2>2. DOMAIN UIBase(a) = DOMAIN Blank
    BY DEF UIBase
  <2>3. /\ UIBase(a).count = a.count /\ UIBase(a).duration = Blank.duration
        /\ UIBase(a).minTaskManagersRemaining = MinTaskManagers(a)
        /\ UIBase(a).maxDuration = Blank.maxDuration
        /\ UIBase(a).timeout = IF a.duration > 0 THEN a.duration ELSE 0
        /\ UIBase(a).pollInterval = Blank.pollInterval
    BY DEF UIBase, Blank
  <2>4. UIBase(a).observe = (a.duration > 0)
    BY DEF UIBase, Blank
  <2>5. UIBase(a).observe \in BOOLEAN
    BY <2>4
  <2> QED
    BY <2>2, <2>3, <2>5, <2>1, BlankWellFormed, AskedNumbers DEF WellFormed
<1>2. WellFormed(TMKill(a))
  BY <1>1, AskedNumbers DEF TMKill, WellFormed
<1>3. WellFormed(NetworkPartition(a))
  BY <1>1 DEF NetworkPartition, WellFormed
<1>4. WellFormed(NetworkChaos(a))
  BY <1>3, AskedNumbers DEF NetworkChaos, WellFormed
<1>5. WellFormed(ResourceExhaustion(a))
  BY <1>1, AskedNumbers DEF ResourceExhaustion, WellFormed
<1>6. WellFormed(UINetwork(a))
  BY <1>1, AskedNumbers DEF UINetwork, WellFormed
<1>7. WellFormed(UIResourceExhaustion(a))
  BY <1>1, AskedNumbers DEF UIResourceExhaustion, WellFormed
<1> QED
  BY <1>1, <1>2, <1>3, <1>4, <1>5, <1>6, <1>7 DEF NetworkScenarios, PluginSpec, UISpec

\* The schema fills the direction.
LEMMA SchemaFields ==
  ASSUME NEW s, WellFormed(s)
  PROVE  LET d == WithSchemaDefaults(s)
         IN  /\ WellFormed(d)
             /\ d.target = s.target /\ d.scenario = s.scenario /\ d.duration = s.duration
             /\ d.mode = s.mode /\ d.count = s.count /\ d.podNames = s.podNames
             /\ d.observe = s.observe /\ d.timeout = s.timeout
             /\ d.pollInterval = s.pollInterval
             /\ d.minTaskManagersRemaining = s.minTaskManagersRemaining
             /\ d.maxDuration = s.maxDuration
BY DEF WithSchemaDefaults, WellFormed

\* What SetDefaults leaves as it is, and what it fills.
LEMMA DefaultFields ==
  ASSUME NEW s, WellFormed(s), NEW d, d = SetDefaults(s)
  PROVE  /\ d.target = s.target /\ d.scenario = s.scenario
         /\ d.network = s.network /\ d.cidr = s.cidr /\ d.stressMode = s.stressMode
         /\ d.mode = "Explicit" <=> s.mode = "Explicit"
         /\ d.podNames = s.podNames
         /\ s.mode = "Explicit" => d.count = s.count
         /\ d.observe = Observed(s) /\ d.timeout = Or(s.timeout, 0, DefaultTimeout)
         /\ d.timeout \in Nat
         /\ d.duration =
              IF HasDuration(s) THEN Or(s.duration, Unset, DefaultDuration) ELSE s.duration
         /\ d.minTaskManagersRemaining = Or(s.minTaskManagersRemaining, Unset, 1)
         /\ d.maxDuration = Or(s.maxDuration, Unset, DefaultCap)
         /\ d.count \in Int
<1>1. /\ d.target = s.target /\ d.scenario = s.scenario
      /\ d.network = s.network /\ d.cidr = s.cidr /\ d.stressMode = s.stressMode
  BY DEF SetDefaults, WellFormed
<1>2. d.mode \in {s.mode, Or(s.mode, "", "Random")}
  BY DEF SetDefaults, WellFormed
<1>3. d.duration =
        IF HasDuration(s) THEN Or(s.duration, Unset, DefaultDuration) ELSE s.duration
  BY DEF SetDefaults, WellFormed
<1>4. /\ d.minTaskManagersRemaining = Or(s.minTaskManagersRemaining, Unset, 1)
      /\ d.maxDuration = Or(s.maxDuration, Unset, DefaultCap)
  BY DEF SetDefaults, WellFormed
<1>5. d.count \in {s.count, Or(s.count, 0, 1)}
  BY DEF SetDefaults, WellFormed
<1>6. s.count \in Int
  BY DEF WellFormed
<1>7. d.mode = "Explicit" <=> s.mode = "Explicit"
  BY <1>2 DEF Or
<1>9. d.podNames = s.podNames /\ (s.mode = "Explicit" => d.count = s.count)
  BY DEF SetDefaults, WellFormed
<1>10. d.observe = Observed(s) /\ d.timeout = Or(s.timeout, 0, DefaultTimeout)
  BY DEF SetDefaults, WellFormed
<1>11. d.timeout \in Nat
  BY <1>10 DEF WellFormed, Or, DefaultTimeout
<1>8. d.count \in Int
  BY <1>5, <1>6 DEF Or
<1> QED
  BY <1>1, <1>3, <1>4, <1>7, <1>8, <1>9, <1>10, <1>11

\* What each front end makes of the fields that the properties compare.
LEMMA WrittenFields ==
  ASSUME NEW ns \in Namespaces, NEW q \in Requests(ns)
  PROVE  /\ WellFormed(Written(q))
         /\ Written(q).scenario = q.ask.scenario
         /\ Written(q).maxDuration = q.ask.maxDuration
         /\ Written(q).minTaskManagersRemaining =
              IF q.via = "plugin" THEN Unset
              ELSE IF q.via = "ui" THEN MinTaskManagers(q.ask)
              ELSE q.ask.minTaskManagersRemaining
         /\ q.via = "plugin" => Written(q).target = PluginTarget(q.ask.target)
         /\ q.via = "ui" => Written(q).target = q.ask.target
         /\ q.ask.scenario # "TaskManagerPodKill" /\ q.ask.duration >= 2
              => /\ Written(q).duration = q.ask.duration
                 /\ q.via = "plugin" => q.ask.scenario # "NetworkPartition"
                 /\ q.via = "ui" => Written(q).observe /\ Written(q).timeout = q.ask.duration
         /\ q.via = "manifest" => Written(q) = q.ask
         /\ q.via \in {"plugin", "ui", "manifest"}
<1> DEFINE a == q.ask
<1>1. Askable(ns, q)
  BY RequestsAssumption
<1>2. /\ WellFormed(a)
      /\ a.scenario \in {"TaskManagerPodKill", "ResourceExhaustion"} \cup NetworkScenarios
      /\ q.via \in {"plugin", "ui", "manifest"}
      /\ q.via # "manifest" => a.maxDuration = Unset
      /\ q.via = "plugin" /\ a.scenario = "NetworkPartition" => a.duration = Unset
  BY <1>1 DEF Askable
<1>3. Positive(a.duration) = IF a.duration >= 2 THEN a.duration ELSE Positive(a.duration)
  BY <1>2 DEF Positive, WellFormed
<1>4. CASE q.via = "plugin"
  <2>1. /\ PluginSpec(a).scenario = a.scenario
        /\ PluginSpec(a).maxDuration = Unset
        /\ PluginSpec(a).minTaskManagersRemaining = Unset
        /\ PluginSpec(a).target = PluginTarget(a.target)
    BY <1>2 DEF NetworkScenarios, PluginSpec, TMKill, NetworkPartition, NetworkChaos,
                ResourceExhaustion, PluginBase, Blank
  <2>2. ASSUME a.scenario # "TaskManagerPodKill", a.duration >= 2
        PROVE  PluginSpec(a).duration = a.duration
    <3>1. CASE a.scenario = "ResourceExhaustion"
      BY <3>1 DEF PluginSpec, ResourceExhaustion, PluginBase, Blank
    <3>2. CASE a.scenario = "NetworkChaos"
      BY <1>3, <2>2, <3>2 DEF PluginSpec, NetworkChaos, NetworkPartition, PluginBase, Blank
    <3> QED
      BY <1>2, <1>4, <2>2, <3>1, <3>2 DEF NetworkScenarios, Unset
  <2> QED
    BY <1>2, <1>4, <2>1, <2>2, FrontEndsWriteSpecs DEF Written, Unset
<1>5. CASE q.via = "ui"
  <2>1. /\ UISpec(a).scenario = a.scenario
        /\ UISpec(a).maxDuration = Unset
        /\ UISpec(a).minTaskManagersRemaining = MinTaskManagers(a)
        /\ UISpec(a).target = a.target
    BY <1>2 DEF NetworkScenarios, UISpec, UINetwork, UIResourceExhaustion, UIBase, Blank
  <2>2. ASSUME a.scenario # "TaskManagerPodKill", a.duration >= 2
        PROVE  /\ UISpec(a).duration = a.duration
               /\ UISpec(a).observe /\ UISpec(a).timeout = a.duration
    <3>1. a.duration \in Int /\ a.duration > 0
      BY <1>2, <2>2 DEF WellFormed
    <3> QED
    BY <3>1, <1>2, <1>3, <2>2 DEF NetworkScenarios, UISpec, UINetwork, UIResourceExhaustion,
                            UIBase, Blank
  <2> QED
    BY <1>2, <1>5, <2>1, <2>2, FrontEndsWriteSpecs DEF Written
<1>6. CASE q.via \notin {"plugin", "ui"}
  BY <1>2, <1>6 DEF Written
<1> QED
  BY <1>4, <1>5, <1>6

-----------------------------------------------------------------------------
(* What a request that has come to a stage has passed. *)

Accepting == Accepted(request) /\ SchemaAccepts(Written(request))

\* What the driver did, or why it could not.
Outcome ==
  /\ stage = "injected" =>
       /\ tms = TMPods(w, Defaulted.target)
       /\ IF Defaulted.scenario = "TaskManagerPodKill"
          THEN killed \in Selections(Defaulted, tms) /\ lasts = 0
          ELSE killed = {} /\ lasts \in Lasts(Defaulted)
  /\ stage = "failed" =>
       \/ ~Drivable(Defaulted)
       \/ /\ Defaulted.scenario = "TaskManagerPodKill"
          /\ Selections(Defaulted, TMPods(w, Defaulted.target)) = {}

Progress ==
  /\ w \in Namespaces /\ request \in Requests(w)
  /\ stage \notin {"asked", "refused"} =>
       Accepting /\ stored = WithSchemaDefaults(Written(request))
  /\ stage \notin {"asked", "refused", "pending", "invalid"} => Validate(Defaulted)
  /\ stage \in {"injected", "failed"} => Admitted
  /\ stage # "injected" => killed = {} /\ lasts = 0
  /\ Outcome

LEMMA ProgressHolds == Spec => []Progress
<1>1. Init => Progress
  BY DEF Init, Progress, Outcome
<1>2. ASSUME Progress, [Next]_vars
      PROVE  Progress'
  <2>1. CASE Refuse
    BY <1>2, <2>1 DEF Refuse, Progress, Outcome
  <2>2. CASE Create
    BY <1>2, <2>2 DEF Create, Progress, Outcome, Accepting
  <2>3. CASE ReconcilePending
    BY <1>2, <2>3 DEF ReconcilePending, Progress, Outcome, Accepting, Defaulted
  <2>4. CASE Reject
    BY <1>2, <2>4 DEF Reject, Progress, Outcome, Accepting, Defaulted
  <2>5. CASE Kill
    BY <1>2, <2>5 DEF Kill, Progress, Outcome, Accepting, Defaulted, Admitted, Safe, Target
  <2>6. CASE Disrupt
    BY <1>2, <2>6 DEF Disrupt, Progress, Outcome, Accepting, Defaulted, Admitted, Safe, Target
  <2>7. CASE Fail
    BY <1>2, <2>7 DEF Fail, Progress, Outcome, Accepting, Defaulted, Admitted, Safe, Target
  <2>8. CASE UNCHANGED vars
    BY <1>2, <2>8 DEF vars, Progress, Outcome, Accepting, Defaulted, Admitted, Safe, Target
  <2> QED
    BY <1>2, <2>1, <2>2, <2>3, <2>4, <2>5, <2>6, <2>7, <2>8 DEF Next
<1> QED
  BY <1>1, <1>2, PTL DEF Spec


\* Both hands together: what is stored, and what the reconciler makes of it.
LEMMA StoredFields ==
  ASSUME Progress, stage \in {"injected", "failed"}
  PROVE  /\ stored.scenario = Ask.scenario /\ Defaulted.scenario = Ask.scenario
         /\ Ask.scenario \in {"TaskManagerPodKill", "ResourceExhaustion"} \cup NetworkScenarios
         /\ Defaulted.network = stored.network /\ Defaulted.cidr = stored.cidr
         /\ Defaulted.stressMode = stored.stressMode
         /\ Defaulted.target = Written(request).target
         /\ Defaulted.mode = "Explicit" <=> stored.mode = "Explicit"
         /\ Defaulted.podNames = stored.podNames
         /\ stored.mode = "Explicit" => Defaulted.count = stored.count
         /\ Defaulted.count \in Int
         /\ Defaulted.observe = Observed(Written(request))
         /\ Defaulted.timeout = Or(Written(request).timeout, 0, DefaultTimeout)
         /\ Defaulted.timeout \in Nat
         /\ Defaulted.duration =
              IF HasDuration(stored) THEN Or(stored.duration, Unset, DefaultDuration)
                                     ELSE stored.duration
         /\ stored.duration \in Int
         /\ Ask.scenario # "TaskManagerPodKill" /\ Ask.duration >= 2
              => stored.duration = Ask.duration
         /\ Ask.duration \in Int
         /\ Defaulted.maxDuration = Or(Ask.maxDuration, Unset, DefaultCap)
         /\ Defaulted.maxDuration \in Nat
         /\ Defaulted.minTaskManagersRemaining =
              Or(Written(request).minTaskManagersRemaining, Unset, 1)
         /\ Defaulted.minTaskManagersRemaining \in Nat
<1>1. /\ w \in Namespaces /\ request \in Requests(w)
      /\ SchemaAccepts(Written(request)) /\ stored = WithSchemaDefaults(Written(request))
  BY DEF Progress, Accepting
<1>2. /\ WellFormed(Ask)
      /\ Ask.scenario \in {"TaskManagerPodKill", "ResourceExhaustion"} \cup NetworkScenarios
      /\ Ask.maxDuration >= Unset
  BY <1>1, RequestsAssumption DEF Askable, Ask
<1>3. WellFormed(Written(request))
  BY <1>1, WrittenFields
<1>4. /\ WellFormed(stored)
      /\ stored.target = Written(request).target
      /\ stored.scenario = Written(request).scenario
      /\ stored.duration = Written(request).duration
      /\ stored.minTaskManagersRemaining = Written(request).minTaskManagersRemaining
      /\ stored.maxDuration = Written(request).maxDuration
      /\ stored.observe = Written(request).observe
      /\ stored.timeout = Written(request).timeout
      /\ stored.pollInterval = Written(request).pollInterval
  BY <1>1, <1>3, SchemaFields
<1>5. /\ stored.scenario = Ask.scenario
      /\ stored.maxDuration = Ask.maxDuration
      /\ Ask.scenario # "TaskManagerPodKill" /\ Ask.duration >= 2
           => stored.duration = Ask.duration
  BY <1>1, <1>4, WrittenFields DEF Ask
<1>6. /\ Or(Ask.maxDuration, Unset, DefaultCap) \in Nat
      /\ Or(Written(request).minTaskManagersRemaining, Unset, 1) \in Nat
  BY <1>1, <1>2, <1>3 DEF WellFormed, SchemaAccepts, Or, Unset, DefaultCap
<1>7. stored.duration \in Int /\ Ask.duration \in Int
  BY <1>2, <1>4 DEF WellFormed
<1>8. Observed(stored) = Observed(Written(request))
  BY <1>4 DEF Observed
<1> QED
  BY <1>2, <1>4, <1>5, <1>6, <1>7, <1>8, DefaultFields DEF Defaulted

\* The duration the driver is given.
LEMMA EffectiveDuration ==
  ASSUME Progress, stage = "injected", stored.scenario # "TaskManagerPodKill"
  PROVE  /\ Defaulted.duration = Or(stored.duration, Unset, DefaultDuration)
         /\ Defaulted.duration <= Defaulted.maxDuration
         /\ lasts \in Lasts(Defaulted)
<1>1. Validate(Defaulted) /\ Admitted /\ Outcome
  BY DEF Progress
<1>2. /\ Ask.scenario \in {"ResourceExhaustion"} \cup NetworkScenarios
      /\ Defaulted.scenario = Ask.scenario /\ stored.scenario = Ask.scenario
  BY StoredFields DEF NetworkScenarios
<1>3. HasDuration(stored)
  <2>1. CASE Ask.scenario \in NetworkScenarios
    <3>1. Defaulted.network # ""
      BY <1>1, <1>2, <2>1 DEF Validate, ValidNetwork, NetworkScenarios
    <3> QED
      BY <3>1, StoredFields DEF HasDuration
  <2>2. CASE Ask.scenario = "ResourceExhaustion"
    <3>1. Defaulted.stressMode \in {"CPU", "Memory"}
      BY <1>1, <1>2, <2>2 DEF Validate, NetworkScenarios
    <3> QED
      BY <1>2, <2>2, <3>1, StoredFields DEF HasDuration, Stresses
  <2> QED
    BY <1>2, <2>1, <2>2
<1>4. Defaulted.duration <= Defaulted.maxDuration
  BY <1>1, <1>2 DEF Admitted, Safe, Check, WithinDurationCap, NetworkScenarios
<1>5. lasts \in Lasts(Defaulted)
  BY <1>1, <1>2 DEF Outcome, NetworkScenarios
<1> QED
  BY <1>3, <1>4, <1>5, StoredFields

\* Truncated to seconds or rounded to them, it is a half of a second off at most.
LEMMA DriversRound ==
  ASSUME NEW d \in Int, d >= 2
  PROVE  /\ 2 * SleepSeconds(ResolvedDuration(d)) \in {d - 1, d}
         /\ StressTimeout(d) \in d - 1 .. d + 1
<1>1. ResolvedDuration(d) = d
  BY DEF ResolvedDuration
<1> DEFINE floor == d \div 2
           odd   == d % 2
<1>2. floor \in Int /\ odd \in 0 .. 1 /\ odd = d - 2 * floor
  OBVIOUS
<1>3. 2 * SleepSeconds(d) \in {d - 1, d}
  BY <1>2 DEF SleepSeconds
<1>4. RoundedSeconds(d) = IF odd = 0 \/ floor % 2 = 0 THEN floor ELSE floor + 1
  BY DEF RoundedSeconds
<1> HIDE DEF floor, odd
<1>5. RoundedSeconds(d) \in Int /\ RoundedSeconds(d) # 0
  BY <1>2, <1>4
<1>6. StressTimeout(d) = 2 * RoundedSeconds(d)
  BY <1>5 DEF StressTimeout
<1>7. 2 * RoundedSeconds(d) \in d - 1 .. d + 1
  BY <1>2, <1>4
<1> QED
  BY <1>1, <1>3, <1>6, <1>7

LEMMA LastsAsLongAs ==
  ASSUME Progress, stage = "injected", stored.scenario # "TaskManagerPodKill",
         NEW d, d = Defaulted.duration, d \in Int, d >= 2
  PROVE  /\ lasts \in Int /\ lasts <= d + 1
         /\ \/ lasts - d \in -1 .. 1
            \/ /\ stored.scenario = "NetworkPartition"
               /\ IF Defaulted.observe THEN lasts \in Defaulted.timeout .. d ELSE lasts = 0
<1>1. /\ Defaulted.scenario \in {"ResourceExhaustion"} \cup NetworkScenarios
      /\ Defaulted.scenario = stored.scenario
      /\ lasts \in Lasts(Defaulted)
      /\ Defaulted.timeout \in Nat
  BY StoredFields, EffectiveDuration
<1>2. CASE Defaulted.scenario = "NetworkPartition"
  <2>1. IF ~Defaulted.observe THEN lasts = 0
        ELSE IF Defaulted.timeout < d THEN lasts \in Defaulted.timeout .. d
        ELSE lasts = d
    BY <1>1, <1>2 DEF Lasts
  <2> QED
    BY <1>1, <1>2, <2>1
<1>3. CASE Defaulted.scenario = "NetworkChaos"
  <2>1. lasts = 2 * SleepSeconds(ResolvedDuration(d))
    BY <1>1, <1>3 DEF Lasts
  <2>2. lasts \in {d - 1, d}
    BY <2>1, DriversRound
  <2> QED
    BY <2>2
<1>4. CASE Defaulted.scenario = "ResourceExhaustion"
  <2>1. lasts = StressTimeout(d)
    BY <1>1, <1>4 DEF Lasts
  <2>2. lasts \in d - 1 .. d + 1
    BY <2>1, DriversRound
  <2> QED
    BY <2>2
<1> QED
  BY <1>1, <1>2, <1>3, <1>4 DEF NetworkScenarios

-----------------------------------------------------------------------------
(* The theorems. *)

\* Disruption is capped by what the request allows, or by SetDefaults' five
\* minutes, whatever front end, scenario and rounding
\* (checker.go:217, networkchaos/driver.go:235, stress/builder.go:56).
THEOREM CapHolds == Spec => []DisruptionWithinCap
<1>1. ASSUME Progress
      PROVE  DisruptionWithinCap
  <2> SUFFICES ASSUME stage = "injected", SensibleDuration
               PROVE  lasts <= Or(Ask.maxDuration, Unset, DefaultCap) + 1
    BY DEF DisruptionWithinCap
  <2>1. /\ Defaulted.maxDuration = Or(Ask.maxDuration, Unset, DefaultCap)
        /\ Defaulted.maxDuration \in Nat
    BY <1>1, StoredFields
  <2>2. CASE stored.scenario = "TaskManagerPodKill"
    <3>1. lasts = 0
      BY <1>1, <2>2, StoredFields DEF Progress, Outcome
    <3> QED
      BY <2>1, <3>1
  <2>3. CASE stored.scenario # "TaskManagerPodKill"
    <3>1. /\ Defaulted.duration = Or(stored.duration, Unset, DefaultDuration)
          /\ Defaulted.duration <= Defaulted.maxDuration
      BY <1>1, <2>3, EffectiveDuration
    <3>2. Defaulted.duration \in Int /\ Defaulted.duration >= 2
      BY <1>1, <3>1, StoredFields DEF SensibleDuration, Or, Unset, DefaultDuration
    <3>3. lasts \in Int /\ lasts <= Defaulted.duration + 1
      BY <1>1, <2>3, <3>2, LastsAsLongAs
    <3> QED
      BY <2>1, <3>1, <3>2, <3>3
  <2> QED
    BY <2>2, <2>3
<1> QED
  BY <1>1, ProgressHolds, PTL

\* The duration a user gives, of a second or more, is how long the disruption
\* holds, to the second: no front end, default or builder replaces it; only a
\* partition goes before, with the observation of a manifest that switched it off
\* or gave it a shorter timeout (handlers_chaos_write.go:127, tc/builder.go:118,
\* controller.go:509-515, :533-587).
THEOREM DurationIsKept == Spec => []AskedDurationIsUsed
<1>1. ASSUME Progress
      PROVE  AskedDurationIsUsed
  <2> SUFFICES ASSUME stage = "injected", stored.scenario # "TaskManagerPodKill",
                      Ask.duration >= 2
               PROVE  lasts - Ask.duration \in -1 .. 1 \/ EndedWithObservation
    BY DEF AskedDurationIsUsed
  <2>1. /\ stored.duration = Ask.duration /\ Ask.duration \in Int
        /\ stored.scenario = Ask.scenario
    BY <1>1, StoredFields
  <2>2. Defaulted.duration = Ask.duration
    BY <1>1, <2>1, EffectiveDuration DEF Or, Unset
  <2>3. \/ lasts - Ask.duration \in -1 .. 1
        \/ /\ stored.scenario = "NetworkPartition"
           /\ IF Defaulted.observe THEN lasts \in Defaulted.timeout .. Ask.duration
                                   ELSE lasts = 0
    BY <1>1, <2>1, <2>2, LastsAsLongAs
  <2>4. /\ Defaulted.observe = Observed(Written(request))
        /\ Defaulted.timeout = Or(Written(request).timeout, 0, DefaultTimeout)
    BY <1>1, StoredFields
  <2>5. w \in Namespaces /\ request \in Requests(w)
    BY <1>1 DEF Progress
  <2>6. CASE request.via = "manifest"
    <3>1. Written(request) = Ask
      BY <2>5, <2>6, WrittenFields DEF Ask
    <3> QED
      BY <2>3, <2>4, <2>6, <3>1 DEF EndedWithObservation
  <2>7. CASE request.via = "ui"
    <3>1. Written(request).observe /\ Written(request).timeout = Ask.duration
      BY <2>1, <2>5, <2>7, WrittenFields DEF Ask
    <3>2. Observed(Written(request))
      BY <3>1 DEF Observed
    <3>3. Defaulted.observe
      BY <2>4, <3>2
    <3>4. Defaulted.timeout = Ask.duration
      BY <2>1, <2>4, <3>1 DEF Or
    <3> QED
      BY <2>1, <2>3, <3>3, <3>4
  <2>8. CASE request.via = "plugin"
    <3>1. stored.scenario # "NetworkPartition"
      BY <2>1, <2>5, <2>8, WrittenFields DEF Ask
    <3> QED
      BY <2>3, <3>1
  <2> QED
    BY <2>5, <2>6, <2>7, <2>8, WrittenFields
<1> QED
  BY <1>1, ProgressHolds, PTL

\* No kill takes the last TaskManager of its target without an explicit 0, but
\* for a request that left the number out at the API server, and an explicit
\* selection of more names than the spec counts: the check deducts as many pods
\* as a random selection may take (checker.go:147, tmpodkill/driver.go:98,
\* handlers_chaos_write.go:360).
THEOREM ConsentIsNeeded == Spec => []LastTaskManagerNeedsConsent
<1>1. ASSUME Progress
      PROVE  LastTaskManagerNeedsConsent
  <2> SUFFICES ASSUME killed # {}, killed = tms,
                      ~(/\ stored.mode = "Explicit"
                        /\ Cardinality(stored.podNames) > SelectionCount(stored))
               PROVE  \/ Ask.minTaskManagersRemaining = 0
                      \/ request.via = "ui" /\ Ask.minTaskManagersRemaining = Unset
    BY DEF LastTaskManagerNeedsConsent
  <2> DEFINE d == Defaulted
  <2>1. stage = "injected"
    BY <1>1 DEF Progress
  <2>2. /\ w \in Namespaces /\ request \in Requests(w)
        /\ Admitted /\ Outcome
    BY <1>1, <2>1 DEF Progress
  <2>3. /\ tms = TMPods(w, d.target)
        /\ d.scenario = "TaskManagerPodKill"
        /\ killed \in Selections(d, tms)
    BY <2>1, <2>2 DEF Outcome
  <2>4. Cardinality(tms) <= SelectionCount(d)
    <3>1. /\ d.mode = "Explicit" <=> stored.mode = "Explicit"
          /\ d.podNames = stored.podNames
          /\ stored.mode = "Explicit" => d.count = stored.count
          /\ d.count \in Int
      BY <1>1, <2>1, StoredFields
    <3>2. SelectionCount(d) \in Int
      BY <3>1 DEF SelectionCount
    <3>3. Cardinality(tms) \in Nat
      BY <2>2, <2>3, TMPodsFinite
    <3>4. CASE d.mode = "Explicit"
      <4>1. tms = stored.podNames
        BY <2>3, <3>1, <3>4 DEF Selections
      <4>2. SelectionCount(d) = SelectionCount(stored)
        BY <3>1, <3>4 DEF SelectionCount
      <4> QED
        BY <3>1, <3>2, <3>3, <3>4, <4>1, <4>2
    <3>5. CASE d.mode # "Explicit"
      BY <2>3, <3>2, <3>3, <3>5 DEF Selections
    <3> QED
      BY <3>4, <3>5
  <2>5. Cardinality(tms) - SelectionCount(d) >= d.minTaskManagersRemaining
    BY <2>2, <2>3 DEF Admitted, Safe, Target, Check, EnoughTaskManagersRemain
  <2>6. /\ d.minTaskManagersRemaining = Or(Written(request).minTaskManagersRemaining, Unset, 1)
        /\ d.minTaskManagersRemaining \in Nat
    BY <1>1, <2>1, StoredFields
  <2>7. d.minTaskManagersRemaining = 0
    <3>1. SelectionCount(d) \in Int /\ Cardinality(tms) \in Nat
      BY <1>1, <2>1, <2>2, <2>3, StoredFields, TMPodsFinite DEF SelectionCount
    <3> HIDE DEF d
    <3> QED
      BY <2>4, <2>5, <2>6, <3>1
  <2>8. Written(request).minTaskManagersRemaining = 0
    BY <2>6, <2>7 DEF Or
  <2>9. request.via # "plugin"
    BY <2>2, <2>8, WrittenFields DEF Unset
  <2>10. CASE request.via = "ui"
    <3>1. MinTaskManagers(Ask) = 0
      BY <2>2, <2>8, <2>10, WrittenFields DEF Ask
    <3> QED
      BY <2>10, <3>1 DEF MinTaskManagers, Or
  <2>11. CASE request.via = "manifest"
    BY <2>2, <2>8, <2>11, WrittenFields DEF Ask
  <2> QED
    BY <2>2, <2>9, <2>10, <2>11, WrittenFields
<1> QED
  BY <1>1, ProgressHolds, PTL

\* What Validate and the safety checks let through fails for two reasons only, a
\* named pod that is not there and an address that nobody validates: a random
\* kill finds as many pods as it needs, and the address an external target needs
\* is there and is one the driver takes; a script for an internal target with an
\* unsafe address is not ruled out, and its builder panics
\* (chaosrun_validation.go:157, networkpartition/driver.go:170,
\* tc/builder.go:131-141).
THEOREM AdmissionSuffices == Spec => []AdmittedIsDrivable
<1>1. ASSUME Progress
      PROVE  AdmittedIsDrivable
  <2> SUFFICES ASSUME stage = "failed"
               PROVE  \/ /\ stored.scenario = "TaskManagerPodKill"
                         /\ stored.mode = "Explicit"
                         /\ ~(stored.podNames \subseteq TMPods(w, Defaulted.target))
                      \/ /\ stored.scenario = "NetworkChaos"
                         /\ stored.network \notin ExternTargets /\ stored.cidr = "malformed"
    BY DEF AdmittedIsDrivable
  <2> DEFINE d == Defaulted
  <2>1. w \in Namespaces /\ Admitted /\ Validate(d) /\ Outcome
    BY <1>1 DEF Progress
  <2>2. /\ stored.scenario = d.scenario /\ stored.network = d.network
        /\ stored.cidr = d.cidr /\ d.count \in Int
        /\ d.minTaskManagersRemaining \in Nat
    BY <1>1, StoredFields
  <2>3. /\ d.mode = "Explicit" <=> stored.mode = "Explicit"
        /\ d.podNames = stored.podNames
    BY <1>1, StoredFields
  <2>4. CASE ~Drivable(d)
    <3>1. d.scenario \in NetworkScenarios
      BY <2>4 DEF Drivable, NetworkScenarios
    <3>2. ValidNetwork(d)
      BY <2>1, <3>1 DEF Validate, NetworkScenarios
    <3>3. /\ d.scenario = "NetworkChaos"
          /\ d.network \notin ExternTargets /\ d.cidr = "malformed"
      BY <2>4, <3>1, <3>2 DEF Drivable, ValidNetwork, NetworkScenarios
    <3> QED
      BY <2>2, <3>3
  <2>5. CASE /\ d.scenario = "TaskManagerPodKill" /\ d.mode # "Explicit"
             /\ Selections(d, TMPods(w, d.target)) = {}
    <3> DEFINE pods == TMPods(w, d.target)
    <3>1. IsFiniteSet(pods) /\ Cardinality(pods) \in Nat
      BY <2>1, TMPodsFinite
    <3>2. SelectionCount(d) \in Nat
      <4>1. ValidSelection(d)
        BY <2>1, <2>5 DEF Validate, NetworkScenarios
      <4> QED
        BY <2>2, <2>5, <4>1 DEF ValidSelection, SelectionCount
    <3>3. Cardinality(pods) - SelectionCount(d) >= d.minTaskManagersRemaining
      BY <2>1, <2>5 DEF Admitted, Safe, Target, Check, EnoughTaskManagersRemain
    <3>4. SelectionCount(d) <= Cardinality(pods)
      BY <2>2, <3>1, <3>2, <3>3
    <3>5. \E chosen \in SUBSET pods : Cardinality(chosen) = SelectionCount(d)
      BY <3>1, <3>2, <3>4, SubsetOfSize
    <3> QED
      BY <2>5, <3>5 DEF Selections
  <2>6. CASE /\ d.scenario = "TaskManagerPodKill" /\ d.mode = "Explicit"
             /\ Selections(d, TMPods(w, d.target)) = {}
    BY <2>2, <2>3, <2>6 DEF Selections
  <2> QED
    BY <2>1, <2>2, <2>3, <2>4, <2>5, <2>6 DEF Outcome
<1> QED
  BY <1>1, ProgressHolds, PTL

\* A requirement that fits into matchLabels means there what it means on the
\* command line.
LEMMA ConvertedMeansTheSame ==
  ASSUME NEW ns, NEW p, NEW r, Convertible(r), IsFiniteSet(r.values)
  PROVE  Satisfies(ns, p, [key |-> r.key, op |-> "=",
                           values |-> {CHOOSE v \in r.values : TRUE}])
           <=> Satisfies(ns, p, r)
<1>1. r.values = {CHOOSE v \in r.values : TRUE}
  BY TheOnlyOne DEF Convertible
<1>2. r.op \in {"=", "==", "in"}
  BY DEF Convertible
<1> QED
  BY <1>1, <1>2 DEF Satisfies

\* Of a selector of equalities on a key each nothing is dropped.
LEMMA NothingDropped ==
  ASSUME NEW ns, NEW p, NEW requirements,
         \A i \in DOMAIN requirements :
           /\ Convertible(requirements[i]) /\ IsFiniteSet(requirements[i].values)
           /\ \A j \in DOMAIN requirements \ {i} : requirements[j].key # requirements[i].key,
         DOMAIN requirements \subseteq Int
  PROVE  MatchesSelector(ns, p, ParseSelector(requirements))
           <=> \A i \in DOMAIN requirements : Satisfies(ns, p, requirements[i])
<1> DEFINE Converted(r) ==
             [key |-> r.key, op |-> "=", values |-> {CHOOSE v \in r.values : TRUE}]
           kept == {i \in DOMAIN requirements : Convertible(requirements[i])}
           last == {i \in kept : \A j \in kept :
                      requirements[j].key = requirements[i].key => j <= i}
<1>1. kept = DOMAIN requirements
  OBVIOUS
<1>2. last = DOMAIN requirements
  BY <1>1
<1>3. ParseSelector(requirements) = {Converted(requirements[i]) : i \in DOMAIN requirements}
  BY <1>2 DEF ParseSelector
<1>4. \A i \in DOMAIN requirements :
        Satisfies(ns, p, Converted(requirements[i])) <=> Satisfies(ns, p, requirements[i])
  BY ConvertedMeansTheSame
<1> HIDE DEF Converted
<1> QED
  BY <1>3, <1>4 DEF MatchesSelector

\* A selector of equalities given to the plugin reaches exactly the pods it
\* matches, less those that are on their way out and the JobManagers
\* (main.go:74-95, podselector/resolver.go:94-120).
THEOREM SelectorIsHonoured == Spec => []SelectorMeansItsPods
<1>1. ASSUME Progress
      PROVE  SelectorMeansItsPods
  <2> DEFINE selector == Ask.target.selector
             target   == SelectorTarget(ParseSelector(selector))
  <2> SUFFICES ASSUME stage = "injected", SelectorAsked
               PROVE  tms = {p \in PodsOf(w) :
                               /\ \A i \in DOMAIN selector : Satisfies(w, p, selector[i])
                               /\ IsPodEligible(w, p) /\ ComponentRole(w, p) # "jobmanager"}
    BY DEF SelectorMeansItsPods
  <2>1. /\ w \in Namespaces /\ request \in Requests(w)
        /\ tms = TMPods(w, Defaulted.target)
    BY <1>1 DEF Progress, Outcome
  <2>2. request.via = "plugin" /\ Ask.target.type = "PodSelector"
    BY DEF SelectorAsked
  <2>3. Defaulted.target = target
    BY <1>1, <2>1, <2>2, StoredFields, WrittenFields DEF PluginTarget, Ask
  <2>4. /\ \A i \in DOMAIN selector : IsFiniteSet(selector[i].values)
        /\ DOMAIN selector \subseteq Int
    BY <2>1, <2>2, RequestsAssumption DEF Askable, Ask
  <2>5. \A i \in DOMAIN selector :
          /\ Convertible(selector[i])
          /\ \A j \in DOMAIN selector \ {i} : selector[j].key # selector[i].key
    BY DEF SelectorAsked, Convertible
  <2>6. \A p : MatchesSelector(w, p, ParseSelector(selector))
                <=> \A i \in DOMAIN selector : Satisfies(w, p, selector[i])
    BY <2>4, <2>5, NothingDropped
  <2>7. \A p : /\ Matches(w, p, target) <=> MatchesSelector(w, p, ParseSelector(selector))
               /\ IsTaskManager(w, p, target) <=> ComponentRole(w, p) # "jobmanager"
    BY DEF Matches, IsTaskManager, SelectorTarget
  <2> HIDE DEF selector, target
  <2> QED
    BY <2>1, <2>3, <2>6, <2>7 DEF TMPods, Resolved
<1> QED
  BY <1>1, ProgressHolds, PTL

\* A set all of whose members are one value.
LEMMA AtMostOne ==
  ASSUME NEW S, NEW v, \A x \in S : x = v
  PROVE  Cardinality(S) <= 1
<1>1. S = {} \/ S = {v}
  OBVIOUS
<1>2. Cardinality({}) = 0 /\ Cardinality({v}) = 1
  BY FS_EmptySet, FS_Singleton
<1>3. Cardinality(S) \in {0, 1}
  BY <1>1, <1>2
<1> QED
  BY <1>3

\* By convention the resolvers look at the labels the web UI looks at.
LEMMA PlainKeysDecide ==
  ASSUME NEW ns, LabelledByConvention(ns), NEW p \in PodsOf(ns)
  PROVE  /\ ComponentRole(ns, p) = Label(ns, p, "component")
         /\ \A v : v # "" /\ Labelled(ns, p, AppKeys, v) => Label(ns, p, "app") = v
         /\ \A v : v # "" /\ Labelled(ns, p, IdKeys, v) => Label(ns, p, "deploymentId") = v
<1>1. ComponentRole(ns, p) = Label(ns, p, "component")
  <2> DEFINE present == {i \in DOMAIN RoleKeys : RoleKeys[i] \in DOMAIN ns.labels[p]}
             first   == CHOOSE i \in present : \A j \in present : i <= j
  <2>1. DOMAIN RoleKeys = 1 .. 4 /\ RoleKeys[1] = "component"
    BY DEF RoleKeys
  <2>2. \A i \in 2 .. 4 : RoleKeys[i] # "component"
    BY DEF RoleKeys
  <2>3. present \subseteq {1}
    <3>1. ASSUME NEW i \in present
          PROVE  RoleKeys[i] = "component"
      BY DEF LabelledByConvention
    <3> QED
      BY <2>1, <2>2, <3>1
  <2>4. CASE present = {}
    <3>1. "component" \notin DOMAIN ns.labels[p]
      BY <2>1, <2>4
    <3> QED
      BY <2>4, <3>1 DEF ComponentRole, Label
  <2>5. CASE present = {1}
    <3>1. first = 1
      BY <2>5
    <3>2. "component" \in DOMAIN ns.labels[p]
      BY <2>1, <2>5
    <3>3. ComponentRole(ns, p) = ns.labels[p][RoleKeys[first]]
      BY <2>5 DEF ComponentRole
    <3> QED
      BY <2>1, <3>1, <3>2, <3>3 DEF Label
  <2> QED
    BY <2>3, <2>4, <2>5
<1>2. ASSUME NEW v, v # "", Labelled(ns, p, AppKeys, v)
      PROVE  Label(ns, p, "app") = v
  BY <1>2 DEF LabelledByConvention, Labelled, Label
<1>3. ASSUME NEW v, v # "", Labelled(ns, p, IdKeys, v)
      PROVE  Label(ns, p, "deploymentId") = v
  BY <1>3 DEF LabelledByConvention, Labelled, Label
<1> QED
  BY <1>1, <1>2, <1>3

\* Where pods are labelled by convention, a run started from the web UI reaches
\* no TaskManager the UI did not show under its deployment, and those of one
\* deployment only, whatever pods of that name there are
\* (handlers_topology.go:144-174, flinkdeployment/resolver.go:124,
\* ververica/resolver.go:159).
THEOREM UIIsTruthful ==
  ASSUME \A ns \in Namespaces : LabelledByConvention(ns)
  PROVE  Spec => []UIHitsWhatItShows
<1>1. ASSUME Progress
      PROVE  UIHitsWhatItShows
  <2> DEFINE name   == request.shown
             target == Ask.target
             ids    == {Label(w, p, "deploymentId") : p \in tms}
  <2> SUFFICES ASSUME stage = "injected", request.via = "ui"
               PROVE  /\ tms \subseteq ShownPods(w, "taskmanager", name)
                      /\ Cardinality(ids) <= 1
    BY DEF UIHitsWhatItShows
  <2>1. /\ w \in Namespaces /\ request \in Requests(w) /\ LabelledByConvention(w)
        /\ tms = TMPods(w, Defaulted.target)
        /\ Accepted(request)
    BY <1>1 DEF Progress, Outcome, Accepting
  <2>2. tms = TMPods(w, target)
    BY <1>1, <2>1, StoredFields, WrittenFields DEF Ask
  <2>3. target \in TopologyTargets(w, name)
    BY <2>1, RequestsAssumption DEF Askable, Ask
  <2>4. target.name # ""
    BY <2>1 DEF Accepted, UIAccepts, Ask
  <2>5. ASSUME NEW p \in tms, target.type # "PodSelector"
        PROVE  /\ p \in PodsOf(w) /\ Label(w, p, "component") = "taskmanager"
               /\ Matches(w, p, target)
    BY <2>1, <2>2, <2>5, PlainKeysDecide DEF TMPods, Resolved, IsTaskManager
  <2>6. CASE name \in w.flinkDeployments
    <3>1. target.type = "FlinkDeployment" /\ target.name = name
      BY <2>3, <2>6 DEF TopologyTargets, FlinkTarget
    <3>2. ASSUME NEW p \in tms
          PROVE  p \in ShownPods(w, "taskmanager", name) /\ Label(w, p, "deploymentId") = ""
      <4>1. Label(w, p, "app") = name
        BY <2>1, <2>4, <2>5, <3>1, PlainKeysDecide DEF Matches, MatchesDeployment
      <4> QED
        BY <2>1, <2>5, <2>6, <3>1, <4>1 DEF LabelledByConvention, ShownPods, ShownUnder
    <3> QED
      BY <3>2, AtMostOne
  <2>7. CASE name \notin w.flinkDeployments
    <3>1. PICK jm \in ShownPods(w, "jobmanager", name) :
            target = VervericaTarget(Label(w, jm, "deploymentId"),
                                     Label(w, jm, "deploymentName"),
                                     Label(w, jm, "vvpNamespace"))
      BY <2>3, <2>7 DEF TopologyTargets
    <3>2. /\ target.type = "VervericaDeployment"
          /\ target.id = Label(w, jm, "deploymentId")
          /\ target.name = Label(w, jm, "deploymentName")
          /\ jm \in PodsOf(w)
      BY <3>1 DEF VervericaTarget, ShownPods
    <3>3. target.id # "" /\ name = Label(w, jm, "deploymentName")
      BY <2>1, <2>4, <3>1, <3>2 DEF LabelledByConvention, ShownPods, ShownUnder
    <3>4. ASSUME NEW p \in tms
          PROVE  /\ p \in ShownPods(w, "taskmanager", name)
                 /\ Label(w, p, "deploymentId") = target.id
      <4>1. Label(w, p, "deploymentId") = target.id
        BY <2>1, <2>5, <3>2, <3>3, PlainKeysDecide DEF Matches, MatchesTarget
      <4>2. Label(w, p, "deploymentName") = name
        <5>1. Label(w, p, "deploymentId") = Label(w, jm, "deploymentId")
          BY <3>2, <4>1
        <5>2. Label(w, p, "deploymentName") = Label(w, jm, "deploymentName")
          BY <2>1, <2>5, <3>2, <5>1 DEF LabelledByConvention
        <5> QED
          BY <3>3, <5>2
      <4> QED
        BY <2>4, <2>5, <3>2, <3>3, <4>1, <4>2 DEF ShownPods, ShownUnder
    <3> QED
      BY <3>4, AtMostOne
  <2> QED
    BY <2>6, <2>7
<1> QED
  BY <1>1, ProgressHolds, PTL
=============================================================================
