--------------------------- MODULE ChaosRunRequests ---------------------------
(***************************************************************************)
(* From what a user asks for to what happens to the pods: the plugin, the  *)
(* API server behind the web UI, or a manifest write a ChaosRun; the       *)
(* schema of the resource, SetDefaults, Validate and the safety checks     *)
(* decide about it; and the driver turns its spec into a number of pods,   *)
(* a sleep or a timeout.                                                   *)
(*                                                                         *)
(* A spec is one flat record.  The network and the resource exhaustion     *)
(* block are absent when network and stressMode are empty; a pointer that  *)
(* is nil is Unset.  Durations are in halves of a second, so that what is  *)
(* shorter than a second, and what is rounded, can be told apart.          *)
(***************************************************************************)
EXTENDS SafetyChecker, TargetResolution

CONSTANTS
  Namespaces,  \* the namespaces to be considered, records of TargetResolution
  Requests(_)  \* the requests that may be made of each

Unset   == -1
Forever == 1000000

DefaultDuration == 120  \* 60s
DefaultTimeout  == 1200 \* 10m
DefaultPoll     == 10   \* 5s
DefaultCap      == 600  \* 5m

ExternTargets == {"TMtoCheckpoint", "TMtoExternal"}

VARIABLES
  w,        \* the namespace
  request,  \* [via, shown, ask]: ask is a spec, with the command line's selector
  stage,    \* how far the request has come
  stored,   \* the spec the API server holds
  tms,      \* the TaskManagers the target was resolved to
  killed,   \* the pods that are deleted
  lasts     \* how long the disruption will hold

vars == <<w, request, stage, stored, tms, killed, lasts>>

\* What a Go program leaves in a spec it does not fill.
Blank ==
  [target |-> FlinkTarget(""), namespace |-> "flink", scenario |-> "",
   mode |-> "", count |-> 0, podNames |-> {},
   network |-> "", direction |-> "", cidr |-> "", latency |-> Unset, jitter |-> Unset,
   loss |-> Unset, bandwidth |-> "", duration |-> Unset,
   stressMode |-> "", workers |-> 0, memoryPercent |-> 0,
   observe |-> FALSE, timeout |-> 0, pollInterval |-> 0,
   minTaskManagersRemaining |-> Unset, maxConcurrentRunsPerTarget |-> 0,
   maxDuration |-> Unset,
   allowSharedClusterImpact |-> FALSE, allowCheckpointStorageChaos |-> FALSE]

\* A spec has these fields; those that are compared are numbers.
WellFormed(s) ==
  /\ DOMAIN s = DOMAIN Blank
  /\ {s.count, s.duration, s.minTaskManagersRemaining, s.maxDuration} \subseteq Int
  /\ {s.timeout, s.pollInterval} \subseteq Nat
  /\ s.observe \in BOOLEAN

\* A front end asks for nothing it has no flag or field for, and the web UI for
\* the target the topology gave it.
Askable(ns, q) ==
  /\ WellFormed(q.ask)
  /\ q.via \in {"plugin", "ui", "manifest"}
  /\ q.ask.scenario \in {"TaskManagerPodKill", "ResourceExhaustion"} \cup NetworkScenarios
  /\ q.ask.maxDuration >= Unset
  /\ q.via # "manifest" => q.ask.maxDuration = Unset
  /\ q.via = "plugin" =>
       /\ q.ask.scenario = "NetworkPartition" => q.ask.duration = Unset
       /\ q.ask.target.type = "PodSelector" =>
            /\ q.ask.target.selector \in Seq([key: STRING, op: STRING, values: SUBSET STRING])
            /\ \A i \in DOMAIN q.ask.target.selector :
                 IsFiniteSet(q.ask.target.selector[i].values)
  /\ q.via = "ui" => q.ask.target \in TopologyTargets(ns, q.shown)

ASSUME RequestsAssumption ==
  \A ns \in Namespaces :
    IsFiniteSet(PodsOf(ns)) /\ \A q \in Requests(ns) : Askable(ns, q)

Positive(n) == IF n > 0 THEN n ELSE Unset
Or(value, zero, default) == IF value = zero THEN default ELSE value

-----------------------------------------------------------------------------
(* The kubectl plugin. *)

TargetGiven(t) ==
  CASE t.type = "FlinkDeployment"     -> t.name # ""
    [] t.type = "VervericaDeployment" -> t.id # "" \/ t.name # ""
    [] t.type = "PodSelector"         -> t.selector # <<>>

PluginAccepts(a) ==
  /\ TargetGiven(a.target)
  /\ (a.scenario = "NetworkPartition" /\ a.network \in ExternTargets) => a.cidr # ""
  /\ a.scenario = "ResourceExhaustion" => a.stressMode \in {"CPU", "Memory"}

PluginTarget(t) ==
  IF t.type = "PodSelector" THEN SelectorTarget(ParseSelector(t.selector)) ELSE t

\* Flags that were not given have their defaults.
PluginBase(a) ==
  [Blank EXCEPT !.target = PluginTarget(a.target), !.scenario = a.scenario,
                !.observe = TRUE, !.timeout = a.timeout]

TMKill(a) == [PluginBase(a) EXCEPT !.mode = "Random", !.count = a.count]

NetworkPartition(a) ==
  [PluginBase(a) EXCEPT !.network = a.network, !.direction = a.direction, !.cidr = a.cidr]

NetworkChaos(a) ==
  [NetworkPartition(a) EXCEPT
     !.latency = Positive(a.latency), !.jitter = Positive(a.jitter),
     !.loss = Positive(a.loss), !.bandwidth = a.bandwidth, !.duration = Positive(a.duration)]

ResourceExhaustion(a) ==
  [PluginBase(a) EXCEPT
     !.stressMode = a.stressMode, !.workers = a.workers, !.duration = a.duration,
     !.memoryPercent = IF a.stressMode = "Memory" THEN a.memoryPercent ELSE 0]

PluginSpec(a) ==
  CASE a.scenario = "TaskManagerPodKill" -> TMKill(a)
    [] a.scenario = "NetworkPartition"   -> NetworkPartition(a)
    [] a.scenario = "NetworkChaos"       -> NetworkChaos(a)
    [] a.scenario = "ResourceExhaustion" -> ResourceExhaustion(a)

-----------------------------------------------------------------------------
(* The API server. *)

UIAccepts(a) == a.target.name # "" /\ a.scenario # ""

\* A count of TaskManagers that is left out is sent as 0.
MinTaskManagers(a) == Or(a.minTaskManagersRemaining, Unset, 0)

\* The duration is the timeout of the observation as well, and switches it on.
UIBase(a) ==
  [Blank EXCEPT !.target = a.target, !.scenario = a.scenario,
                !.mode = a.mode, !.count = a.count, !.podNames = a.podNames,
                !.minTaskManagersRemaining = MinTaskManagers(a),
                !.observe = a.duration > 0,
                !.timeout = IF a.duration > 0 THEN a.duration ELSE 0]

UINetwork(a) ==
  [UIBase(a) EXCEPT
     !.network = Or(a.network, "", "TMtoJM"), !.direction = Or(a.direction, "", "Both"),
     !.cidr = a.cidr,
     !.latency = Positive(a.latency), !.jitter = Positive(a.jitter),
     !.loss = a.loss, !.bandwidth = a.bandwidth, !.duration = Positive(a.duration)]

UIResourceExhaustion(a) ==
  [UIBase(a) EXCEPT
     !.stressMode = Or(a.stressMode, "", "CPU"), !.workers = Or(a.workers, 0, 1),
     !.memoryPercent = Or(a.memoryPercent, 0, 80), !.duration = Positive(a.duration)]

UISpec(a) ==
  CASE a.scenario = "TaskManagerPodKill" -> UIBase(a)
    [] a.scenario \in NetworkScenarios   -> UINetwork(a)
    [] a.scenario = "ResourceExhaustion" -> UIResourceExhaustion(a)

-----------------------------------------------------------------------------
(* The resource: schema, defaults, validation. *)

SchemaAccepts(s) ==
  /\ s.count >= 0 /\ s.workers >= 0
  /\ s.loss \in {Unset} \cup 0 .. 100
  /\ s.memoryPercent \in 0 .. 100
  /\ s.minTaskManagersRemaining >= Unset

WithSchemaDefaults(s) ==
  [s EXCEPT !.direction = IF s.network # "" THEN Or(@, "", "Both") ELSE @]

Stresses(s) == s.scenario = "ResourceExhaustion" /\ s.stressMode # ""

HasDuration(s) == s.network # "" \/ Stresses(s)

\* A spec that says nothing of the observation is observed; one that gives a
\* timeout or a poll interval has to ask for it.
Observed(s) == s.observe \/ (s.timeout = 0 /\ s.pollInterval = 0)

\* Mistake: the duration the user gave is overwritten.
SetDefaults_Mutant(s) ==
  [s EXCEPT !.mode = Or(@, "", "Random"), !.count = Or(@, 0, 1),
            !.duration = IF HasDuration(s) THEN DefaultDuration ELSE @,
            !.observe = Observed(s),
            !.timeout = Or(@, 0, DefaultTimeout),
            !.pollInterval = Or(@, 0, DefaultPoll),
            !.minTaskManagersRemaining = Or(@, Unset, 1),
            !.maxConcurrentRunsPerTarget = Or(@, 0, 1),
            !.maxDuration = Or(@, Unset, DefaultCap)]

SetDefaults(s) ==
  LET kill == s.scenario = "TaskManagerPodKill"
  IN [s EXCEPT
        !.mode  = IF kill THEN Or(@, "", "Random") ELSE @,
        !.count = IF kill /\ s.mode # "Explicit" THEN Or(@, 0, 1) ELSE @,
        !.direction = IF s.network # "" THEN Or(@, "", "Both") ELSE @,
        !.duration  = IF HasDuration(s) THEN Or(@, Unset, DefaultDuration) ELSE @,
        !.workers   = IF Stresses(s) THEN Or(@, 0, 1) ELSE @,
        !.memoryPercent = IF Stresses(s) /\ s.stressMode = "Memory" THEN Or(@, 0, 80) ELSE @,
        !.observe = Observed(s),
        !.timeout = Or(@, 0, DefaultTimeout),
        !.pollInterval = Or(@, 0, DefaultPoll),
        !.minTaskManagersRemaining   = Or(@, Unset, 1),
        !.maxConcurrentRunsPerTarget = Or(@, 0, 1),
        !.maxDuration = Or(@, Unset, DefaultCap)]

ValidTarget(t) ==
  IF t.type = "PodSelector" THEN t.selector # {} ELSE TargetGiven(t)

ValidSelection(s) ==
  IF s.mode = "Explicit" THEN s.podNames # {} ELSE s.count >= 1

ValidImpairment(s) ==
  /\ s.latency # Unset \/ s.loss # Unset \/ s.bandwidth # ""
  /\ s.jitter # Unset => s.latency # Unset
  /\ s.bandwidth # "" => s.network = "TMtoExternal"

\* Mistake: an external partition may do without an address.
ValidNetwork_Mutant(s) ==
  /\ s.network # ""
  /\ s.scenario = "NetworkChaos" => ValidImpairment(s)
  /\ s.bandwidth \in {"", "10mbit"}

\* The endpoint is looked at for external targets only.
ValidNetwork(s) ==
  /\ s.network # ""
  /\ s.scenario = "NetworkChaos" => ValidImpairment(s)
  /\ s.bandwidth \in {"", "10mbit"}
  /\ s.network \in ExternTargets =>
       /\ s.cidr \notin {"", "malformed"}
       /\ s.scenario = "NetworkPartition" => s.cidr # "hostname"

Validate(s) ==
  /\ ValidTarget(s.target)
  /\ CASE s.scenario = "TaskManagerPodKill" -> ValidSelection(s)
       [] s.scenario \in NetworkScenarios   -> ValidNetwork(s)
       [] s.scenario = "ResourceExhaustion" ->
            /\ s.stressMode \in {"CPU", "Memory"}
            /\ s.stressMode = "Memory" => s.memoryPercent \in 0 .. 100
  /\ s.timeout >= s.pollInterval

-----------------------------------------------------------------------------
(* The drivers. *)

\* Neither an external partition without an address nor a script with an
\* address that is not safe in a shell can be made; of the latter the builder
\* panics.
Drivable(s) ==
  CASE s.scenario = "NetworkPartition" ->
         s.network \in ExternTargets => s.cidr \notin {"", "hostname"}
    [] s.scenario = "NetworkChaos" -> s.cidr # "malformed"
    [] OTHER -> TRUE

\* The pods a kill may take; none if a pod is named that is not there.
Selections(s, pods) ==
  IF s.mode = "Explicit" THEN {s.podNames} \cap SUBSET pods
  ELSE {chosen \in SUBSET pods :
          \/ Cardinality(chosen) = SelectionCount(s)
          \/ chosen = pods /\ Cardinality(pods) < SelectionCount(s)}

\* Whole seconds, at least one.
SleepSeconds(d) == IF d < 2 THEN 1 ELSE d \div 2

\* Formatted without decimals: a half goes to the even second.
RoundedSeconds(d) ==
  LET floor == d \div 2
  IN  IF d % 2 = 0 \/ floor % 2 = 0 THEN floor ELSE floor + 1

\* For stress-ng a timeout of 0 is none.
StressTimeout(d) == IF RoundedSeconds(d) = 0 THEN Forever ELSE 2 * RoundedSeconds(d)

ResolvedDuration(d) == IF d > 0 THEN d ELSE DefaultDuration

\* How long the disruption may hold.  Scripts end by themselves.  The policies of
\* a partition go with its observation: at once if there is none, and otherwise
\* at the first reconcile after its timeout or its duration.  One is due at the
\* end of the duration; before that, anything that queues the run will do.
Lasts(s) ==
  CASE s.scenario = "TaskManagerPodKill" -> {0}
    [] s.scenario = "NetworkPartition"   ->
         IF ~s.observe THEN {0}
         ELSE IF s.timeout < s.duration THEN s.timeout .. s.duration
         ELSE {s.duration}
    [] s.scenario = "NetworkChaos"       -> {2 * SleepSeconds(ResolvedDuration(s.duration))}
    [] s.scenario = "ResourceExhaustion" -> {StressTimeout(s.duration)}

-----------------------------------------------------------------------------
(* The way of a request. *)

Init ==
  /\ w \in Namespaces
  /\ request \in Requests(w)
  /\ stage = "asked"
  /\ stored = Blank
  /\ tms = {} /\ killed = {} /\ lasts = 0

Accepted(q) ==
  CASE q.via = "plugin" -> PluginAccepts(q.ask)
    [] q.via = "ui"     -> UIAccepts(q.ask)
    [] OTHER            -> TRUE

Written(q) ==
  CASE q.via = "plugin" -> PluginSpec(q.ask)
    [] q.via = "ui"     -> UISpec(q.ask)
    [] OTHER            -> q.ask

Refuse ==
  /\ stage = "asked"
  /\ ~(Accepted(request) /\ SchemaAccepts(Written(request)))
  /\ stage' = "refused"
  /\ UNCHANGED <<w, request, stored, tms, killed, lasts>>

Create ==
  /\ stage = "asked"
  /\ Accepted(request) /\ SchemaAccepts(Written(request))
  /\ stage' = "pending"
  /\ stored' = WithSchemaDefaults(Written(request))
  /\ UNCHANGED <<w, request, tms, killed, lasts>>

ReconcilePending ==
  /\ stage = "pending"
  /\ stage' = IF Validate(SetDefaults(stored)) THEN "injecting" ELSE "invalid"
  /\ UNCHANGED <<w, request, stored, tms, killed, lasts>>

\* The target of the safety checks; no other run is active.
Target(s) ==
  [logicalName |-> "", taskManagers |-> TMPods(w, s.target),
   sharedCluster |-> w.session /\ s.target.type # "PodSelector"]

Safe(s) == Check("", s, Target(s), <<>>)

\* The defaults are set anew at every reconcile: none of them is stored.
Defaulted == SetDefaults(stored)

Admitted == Resolves(w, Defaulted.target) /\ Safe(Defaulted)

Reject ==
  /\ stage = "injecting" /\ ~Admitted
  /\ stage' = "rejected"
  /\ UNCHANGED <<w, request, stored, tms, killed, lasts>>

Kill ==
  /\ stage = "injecting" /\ Admitted
  /\ Defaulted.scenario = "TaskManagerPodKill"
  /\ tms' = TMPods(w, Defaulted.target)
  /\ killed' \in Selections(Defaulted, tms')
  /\ stage' = "injected"
  /\ UNCHANGED <<w, request, stored, lasts>>

Disrupt ==
  /\ stage = "injecting" /\ Admitted
  /\ Defaulted.scenario # "TaskManagerPodKill" /\ Drivable(Defaulted)
  /\ tms' = TMPods(w, Defaulted.target)
  /\ lasts' \in Lasts(Defaulted)
  /\ stage' = "injected"
  /\ UNCHANGED <<w, request, stored, killed>>

\* The driver gives up: the run fails, or its reconciler panics.
Fail ==
  /\ stage = "injecting" /\ Admitted
  /\ \/ ~Drivable(Defaulted)
     \/ /\ Defaulted.scenario = "TaskManagerPodKill"
        /\ Selections(Defaulted, TMPods(w, Defaulted.target)) = {}
  /\ stage' = "failed"
  /\ UNCHANGED <<w, request, stored, tms, killed, lasts>>

Next == Refuse \/ Create \/ ReconcilePending \/ Reject \/ Kill \/ Disrupt \/ Fail

Spec == Init /\ [][Next]_vars

-----------------------------------------------------------------------------
(* What UIHitsWhatItShows rests on. *)

\* How the Flink operator and Ververica label their pods: with the plain keys;
\* the pods of a FlinkDeployment carry no Ververica deployment; a Ververica
\* deployment has an ID, which stands for one name.
LabelledByConvention(ns) ==
  /\ \A p \in PodsOf(ns) : \A key \in DOMAIN ns.labels[p] :
       /\ key \in AppKeys => key = "app"
       /\ key \in IdKeys => key = "deploymentId"
       /\ \A i \in DOMAIN RoleKeys : key = RoleKeys[i] => key = "component"
  /\ \A p \in PodsOf(ns) : Label(ns, p, "app") \in ns.flinkDeployments =>
       Label(ns, p, "deploymentName") = "" /\ Label(ns, p, "deploymentId") = ""
  /\ \A p \in PodsOf(ns) :
       Label(ns, p, "deploymentName") # "" => Label(ns, p, "deploymentId") # ""
  /\ \A p, q \in PodsOf(ns) :
       Label(ns, p, "deploymentId") = Label(ns, q, "deploymentId")
         => Label(ns, p, "deploymentName") = Label(ns, q, "deploymentName")

-----------------------------------------------------------------------------
(* Properties. *)

Ask == request.ask

\* A kill takes the last TaskManager of its target only if the one who asked
\* said that none has to remain, but for the two ways around that: the API
\* server takes a number that the request leaves out for a 0, where an object
\* without it has the default 1 (handlers_chaos_write.go:360-366,
\* api-reference.md:134), and the safety check deducts the count of an explicit
\* selection, not its names (checker.go:147, chaosrun_types.go:400-404).
LastTaskManagerNeedsConsent ==
  killed # {} /\ killed = tms =>
    \/ Ask.minTaskManagersRemaining = 0
    \/ request.via = "ui" /\ Ask.minTaskManagersRemaining = Unset
    \/ /\ stored.mode = "Explicit"
       /\ Cardinality(stored.podNames) > SelectionCount(stored)

\* For shorter ones the two builders do not agree with their drivers.
SensibleDuration == stored.duration = Unset \/ stored.duration >= 2

\* Whatever a driver makes of a duration of a second or more, by default,
\* rounding or truncation, it stays within the cap to the second
\* (checker.go:217, :288).
DisruptionWithinCap ==
  stage = "injected" /\ SensibleDuration
    => lasts <= Or(Ask.maxDuration, Unset, DefaultCap) + 1

\* The partition of a manifest whose observation is over before its duration:
\* there is none, although only a timeout or a poll interval was given and
\* "enabled" is documented to default to true (chaosrun_types.go:369-371), or
\* its timeout is shorter.
EndedWithObservation ==
  /\ request.via = "manifest" /\ stored.scenario = "NetworkPartition"
  /\ IF Observed(Ask) THEN lasts \in Or(Ask.timeout, 0, DefaultTimeout) .. Ask.duration
                      ELSE lasts = 0

\* A disruption whose duration was given, of a second or more, holds for that
\* long, to the second: neither the front end, the defaults nor the builders
\* replace it (networkchaos/driver.go:235, stress/builder.go:56,
\* tc/builder.go:118).  Only a partition ends before, and only with its
\* observation (controller.go:509-515, :533-587), although a duration is "how
\* long the disruption remains active before cleanup" (chaosrun_types.go:273).
AskedDurationIsUsed ==
  stage = "injected" /\ stored.scenario # "TaskManagerPodKill" /\ Ask.duration >= 2
    => lasts - Ask.duration \in -1 .. 1 \/ EndedWithObservation

\* An injection that Validate and the safety checks let through fails for two
\* reasons only: an explicit selection names a pod that is not there, or a script
\* has an address nobody looked at.  What they ask of the address of an external
\* target is what the drivers need (chaosrun_validation.go:157,
\* networkpartition/driver.go:170); for the other targets nothing is asked, the
\* address is written into the script all the same, and its builder panics:
\* "callers are expected to validate inputs" (tc/builder.go:131-141,
\* networkchaos/driver.go:226).
AdmittedIsDrivable ==
  stage = "failed" =>
    \/ /\ stored.scenario = "TaskManagerPodKill" /\ stored.mode = "Explicit"
       /\ ~(stored.podNames \subseteq TMPods(w, Defaulted.target))
    \/ /\ stored.scenario = "NetworkChaos"
       /\ stored.network \notin ExternTargets /\ stored.cidr = "malformed"

\* A selector of equalities, on a key each.
SelectorAsked ==
  /\ request.via = "plugin" /\ Ask.target.type = "PodSelector"
  /\ \A i \in DOMAIN Ask.target.selector :
       /\ Ask.target.selector[i].op \in {"=", "==", "in"}
       /\ Cardinality(Ask.target.selector[i].values) = 1
       /\ \A j \in DOMAIN Ask.target.selector \ {i} :
            Ask.target.selector[j].key # Ask.target.selector[i].key

\* A selector given to the plugin that consists of equalities reaches the pods
\* it matches and no others: also those that are terminating, or JobManagers,
\* are left out (main.go:74-95, podselector/resolver.go:94-120).
SelectorMeansItsPods ==
  stage = "injected" /\ SelectorAsked
    => tms = {p \in PodsOf(w) :
                /\ \A i \in DOMAIN Ask.target.selector : Satisfies(w, p, Ask.target.selector[i])
                /\ IsPodEligible(w, p) /\ ComponentRole(w, p) # "jobmanager"}

\* A run started from the web UI reaches no TaskManager that the UI did not
\* show under the deployment it was started for, nor those of another
\* deployment of that name (handlers_topology.go:144-174 against the
\* resolvers' discoverPods).
UIHitsWhatItShows ==
  stage = "injected" /\ request.via = "ui"
    => /\ tms \subseteq ShownPods(w, "taskmanager", request.shown)
       /\ Cardinality({Label(w, p, "deploymentId") : p \in tms}) <= 1
=============================================================================
