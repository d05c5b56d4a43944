-------------------------- MODULE MCChaosRunRequests --------------------------
(***************************************************************************)
(* Small namespaces and requests for ChaosRunRequests.  The requests are   *)
(* given scenario by scenario: the fields that scenario and front end do   *)
(* not look at keep their blank values.                                    *)
(***************************************************************************)
EXTENDS ChaosRunRequests

FlinkLabels(name, role) == [app |-> name, component |-> role]

VervericaLabels(id, vvpNamespace, role) ==
  [deploymentId |-> id, deploymentName |-> "audit", vvpNamespace |-> vvpNamespace,
   component |-> role]

\* Two FlinkDeployments; "orders" has three TaskManagers, one of which is being
\* replaced, and a pod without a role.
Operated ==
  [labels |-> [ordersJm   |-> FlinkLabels("orders", "jobmanager"),
               ordersTm1  |-> FlinkLabels("orders", "taskmanager"),
               ordersTm2  |-> FlinkLabels("orders", "taskmanager"),
               ordersTm3  |-> FlinkLabels("orders", "taskmanager"),
               ordersSync |-> [app |-> "orders"],
               salesJm    |-> FlinkLabels("sales", "jobmanager"),
               salesTm1   |-> FlinkLabels("sales", "taskmanager")],
   state |-> [ordersJm |-> "Running", ordersTm1 |-> "Running", ordersTm2 |-> "Pending",
              ordersTm3 |-> "Terminating", ordersSync |-> "Running",
              salesJm |-> "Running", salesTm1 |-> "Running"],
   flinkDeployments |-> {"orders", "sales"},
   session |-> FALSE]

\* Two Ververica deployments of one name.
Ververica ==
  [labels |-> [jmA  |-> VervericaLabels("id1", "a", "jobmanager"),
               tmA1 |-> VervericaLabels("id1", "a", "taskmanager"),
               tmA2 |-> VervericaLabels("id1", "a", "taskmanager"),
               jmB  |-> VervericaLabels("id2", "b", "jobmanager"),
               tmB1 |-> VervericaLabels("id2", "b", "taskmanager")],
   state |-> [jmA |-> "Running", tmA1 |-> "Running", tmA2 |-> "Running",
              jmB |-> "Running", tmB1 |-> "Running"],
   flinkDeployments |-> {},
   session |-> FALSE]

MCNamespaces == {Operated, Ververica, [Operated EXCEPT !.session = TRUE]}

Requirement(key, op, values) == [key |-> key, op |-> op, values |-> values]

CommandLineSelectors ==
  {<<>>,
   <<Requirement("app", "=", {"orders"})>>,
   <<Requirement("app", "in", {"orders"}), Requirement("component", "==", {"taskmanager"})>>,
   <<Requirement("app", "in", {"orders", "sales"}), Requirement("component", "=", {"taskmanager"})>>,
   <<Requirement("component", "exists", {})>>,
   <<Requirement("component", "=", {"jobmanager"})>>,
   <<Requirement("deploymentName", "=", {"audit"}), Requirement("vvpNamespace", "in", {"a"})>>}

PluginTargets ==
  {FlinkTarget(name) : name \in {"", "orders", "gone"}}
    \cup {VervericaTarget("", "", ""), VervericaTarget("id1", "", ""),
          VervericaTarget("", "audit", ""), VervericaTarget("", "audit", "b")}
    \cup {SelectorTarget(selector) : selector \in CommandLineSelectors}

Orders == [Blank EXCEPT !.target = FlinkTarget("orders"), !.timeout = DefaultTimeout]

NetworkTargets == {"TMtoTM", "TMtoJM", "TMtoCheckpoint", "TMtoExternal"}

PluginAsks ==
  {[Orders EXCEPT !.scenario = "TaskManagerPodKill", !.target = target, !.count = count,
                  !.timeout = timeout] :
     target \in PluginTargets, count \in 0 .. 3, timeout \in {8, DefaultTimeout}}
    \cup
  {[Orders EXCEPT !.scenario = "NetworkPartition", !.network = network,
                  !.direction = direction, !.cidr = cidr] :
     network \in NetworkTargets, direction \in {"Ingress", "Both"},
     cidr \in {"", "cidr", "malformed"}}
    \cup
  {[Orders EXCEPT !.scenario = "NetworkChaos", !.network = network, !.direction = "Both",
                  !.cidr = cidr, !.latency = latency, !.jitter = jitter,
                  !.bandwidth = bandwidth, !.duration = duration] :
     network \in {"TMtoJM", "TMtoCheckpoint", "TMtoExternal"}, cidr \in {"", "cidr", "malformed"},
     latency \in {0, 1}, jitter \in {0, 1}, bandwidth \in {"", "10mbit", "fast"},
     duration \in {0, 1, 3, 120, 700}}
    \cup
  {[Orders EXCEPT !.scenario = "ResourceExhaustion", !.stressMode = mode, !.workers = workers,
                  !.memoryPercent = percent, !.duration = duration] :
     mode \in {"CPU", "Memory", "Disk"}, workers \in {0, 1}, percent \in {0, 80, 101},
     duration \in {1, 3, 120, 601, 700}}

\* The wizard always sends the number of TaskManagers that have to remain; other
\* clients may leave it out.
UIAsks(ns, name) ==
  LET shown == [Blank EXCEPT !.minTaskManagersRemaining = 1]
  IN  UNION {
        {[shown EXCEPT !.target = target, !.scenario = "TaskManagerPodKill", !.mode = mode,
                       !.count = count, !.podNames = pods, !.duration = duration,
                       !.minTaskManagersRemaining = min] :
           mode \in {"", "Random", "Explicit"}, count \in 0 .. 3,
           pods \in {{}, ShownPods(ns, "taskmanager", name), TMPods(ns, target)},
           duration \in {0, 8, 120}, min \in {Unset, 0, 1}}
          \cup
        {[shown EXCEPT !.target = target, !.scenario = scenario, !.network = network,
                       !.direction = direction, !.cidr = cidr, !.loss = loss,
                       !.duration = duration] :
           scenario \in NetworkScenarios, network \in NetworkTargets \cup {""},
           direction \in {"", "Egress"}, cidr \in {"", "hostname", "cidr"},
           loss \in {Unset, 10, 101}, duration \in {0, 120, 700}}
          \cup
        {[shown EXCEPT !.target = target, !.scenario = "ResourceExhaustion",
                       !.stressMode = mode, !.workers = workers, !.duration = duration] :
           mode \in {"", "Memory"}, workers \in {0, 2}, duration \in {0, 120, 700}} :
        target \in TopologyTargets(ns, name)}

Manifests ==
  LET bare == [Blank EXCEPT !.target = FlinkTarget("orders")]
  IN  {[bare EXCEPT !.scenario = "TaskManagerPodKill", !.mode = mode, !.count = count,
                    !.podNames = pods, !.minTaskManagersRemaining = min, !.pollInterval = poll,
                    !.allowSharedClusterImpact = allow] :
         mode \in {"", "Random", "Explicit"}, count \in {-1, 0, 2},
         pods \in {{"ordersTm1"}, {"ordersTm3"}, {"ordersTm1", "ordersTm2"}},
         min \in {Unset, 0}, poll \in {0, 2000},
         allow \in BOOLEAN}
        \cup
      {[bare EXCEPT !.scenario = scenario, !.network = network, !.direction = direction,
                    !.cidr = "cidr", !.loss = 10, !.duration = duration, !.maxDuration = cap,
                    !.observe = observation.on, !.timeout = observation.timeout,
                    !.allowSharedClusterImpact = allow, !.allowCheckpointStorageChaos = ~allow] :
         scenario \in NetworkScenarios, network \in NetworkTargets,
         direction \in {"", "Both", "Egress"}, duration \in {Unset, 0, 120, 700},
         observation \in [on : BOOLEAN, timeout : {0, 100, 800}],
         cap \in {Unset, 60, 800}, allow \in BOOLEAN}
        \cup
      {[bare EXCEPT !.scenario = "ResourceExhaustion", !.stressMode = mode,
                    !.duration = duration, !.maxDuration = cap] :
         mode \in {"", "CPU"}, duration \in {Unset, 0, 2, 61}, cap \in {Unset, 60}}

MCRequests(ns) ==
  {[via |-> "plugin", shown |-> "", ask |-> ask] : ask \in PluginAsks}
    \cup {[via |-> "manifest", shown |-> "", ask |-> ask] : ask \in Manifests}
    \cup UNION {{[via |-> "ui", shown |-> name, ask |-> ask] : ask \in UIAsks(ns, name)} :
                  name \in DeploymentNames(ns)}

\* These namespaces are of the kind UIIsTruthful is about.
ASSUME ConventionsKept == \A ns \in MCNamespaces : LabelledByConvention(ns)
=============================================================================
