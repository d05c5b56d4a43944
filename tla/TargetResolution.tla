--------------------------- MODULE TargetResolution ---------------------------
(***************************************************************************)
(* Which pods a target stands for: the three resolvers of the controller,  *)
(* the selector the plugin makes of a command line, and the deployments    *)
(* and TaskManagers the web UI offers and shows.                           *)
(*                                                                         *)
(* A namespace w is a record: labels gives each pod a function from label  *)
(* keys to values, state says whether it runs, and flinkDeployments are    *)
(* the names of the FlinkDeployment resources.                             *)
(*                                                                         *)
(* w.session says that the FlinkDeployments, and the pods of Ververica,    *)
(* are session clusters.                                                   *)
(***************************************************************************)
EXTENDS Integers, FiniteSets, Sequences

AppKeys  == {"app", "app.kubernetes.io/name"}
IdKeys   == {"deploymentId", "flink.apache.org/deployment-id", "vvp.io/deployment-id"}
NameKeys == {"deploymentName", "flink.apache.org/deployment-name", "vvp.io/deployment-name"}
NamespaceKeys == {"vvpNamespace", "flink.apache.org/namespace", "vvp.io/namespace"}
RoleKeys == <<"component", "app.kubernetes.io/component",
              "flink.apache.org/component", "vvp.io/component">>

PodsOf(w) == DOMAIN w.labels

Label(w, p, key) ==
  IF key \in DOMAIN w.labels[p] THEN w.labels[p][key] ELSE ""

Labelled(w, p, keys, value) == \E key \in keys : Label(w, p, key) = value

\* The first key that is there decides.
ComponentRole(w, p) ==
  LET present == {i \in DOMAIN RoleKeys : RoleKeys[i] \in DOMAIN w.labels[p]}
      first   == CHOOSE i \in present : \A j \in present : i <= j
  IN  IF present = {} THEN "" ELSE w.labels[p][RoleKeys[first]]

IsPodEligible(w, p) == w.state[p] \in {"Running", "Pending"}

-----------------------------------------------------------------------------
(* Targets and resolvers. *)

FlinkTarget(name) == [type |-> "FlinkDeployment", name |-> name]

VervericaTarget(id, name, vvpNamespace) ==
  [type |-> "VervericaDeployment", id |-> id, name |-> name, vvpNamespace |-> vvpNamespace]

\* A selector is a set of requirements on label keys.
SelectorTarget(selector) == [type |-> "PodSelector", selector |-> selector]

MatchesDeployment(w, p, name) == Labelled(w, p, AppKeys, name)

\* Mistake: with an ID, the name is accepted as well.
MatchesTarget_Mutant(w, p, t) ==
  \/ t.id # "" /\ Labelled(w, p, IdKeys, t.id)
  \/ Labelled(w, p, NameKeys, t.name)

\* The ID alone decides when there is one.
MatchesTarget(w, p, t) ==
  IF t.id # "" THEN Labelled(w, p, IdKeys, t.id)
  ELSE /\ Labelled(w, p, NameKeys, t.name)
       /\ t.vvpNamespace = "" \/ Labelled(w, p, NamespaceKeys, t.vvpNamespace)

Satisfies(w, p, requirement) ==
  LET there == requirement.key \in DOMAIN w.labels[p]
      value == Label(w, p, requirement.key)
  IN  \/ requirement.op \in {"=", "==", "in"} /\ there /\ value \in requirement.values
      \/ requirement.op \in {"!=", "notin"} /\ ~(there /\ value \in requirement.values)
      \/ requirement.op = "exists" /\ there
      \/ requirement.op = "!" /\ ~there

MatchesSelector(w, p, selector) == \A r \in selector : Satisfies(w, p, r)

Matches(w, p, target) ==
  CASE target.type = "FlinkDeployment"     -> MatchesDeployment(w, p, target.name)
    [] target.type = "VervericaDeployment" -> MatchesTarget(w, p, target)
    [] target.type = "PodSelector"         -> MatchesSelector(w, p, target.selector)

\* A selected pod without a role is a TaskManager.
IsTaskManager(w, p, target) ==
  IF target.type = "PodSelector" THEN ComponentRole(w, p) # "jobmanager"
                                 ELSE ComponentRole(w, p) = "taskmanager"

Resolved(w, target) == {p \in PodsOf(w) : IsPodEligible(w, p) /\ Matches(w, p, target)}

TMPods(w, target) == {p \in Resolved(w, target) : IsTaskManager(w, p, target)}

Resolves(w, target) ==
  CASE target.type = "FlinkDeployment" ->
         target.name \in w.flinkDeployments /\ TMPods(w, target) # {}
    [] target.type = "VervericaDeployment" -> TMPods(w, target) # {}
    [] target.type = "PodSelector" -> Resolved(w, target) # {}

-----------------------------------------------------------------------------
(* The plugin's command line. *)

\* Mistake: a set of one value is not taken for an equality.
Convertible_Mutant(r) == r.op \in {"=", "=="} /\ Cardinality(r.values) = 1

Convertible(r) == r.op \in {"=", "==", "in"} /\ Cardinality(r.values) = 1

\* The requirements that fit into matchLabels; the others are dropped, and of
\* two on one key the later one stays.
ParseSelector(requirements) ==
  LET kept == {i \in DOMAIN requirements : Convertible(requirements[i])}
      last == {i \in kept : \A j \in kept : requirements[j].key = requirements[i].key => j <= i}
  IN  {[key |-> requirements[i].key, op |-> "=",
        values |-> {CHOOSE v \in requirements[i].values : TRUE}] : i \in last}

-----------------------------------------------------------------------------
(* What the web UI lists and shows. *)

RunningJobManagers(w) ==
  {p \in PodsOf(w) : Label(w, p, "component") = "jobmanager" /\ w.state[p] = "Running"}

\* The label a pod is shown under.
ShownUnder(w, p) ==
  IF Label(w, p, "deploymentName") # "" THEN Label(w, p, "deploymentName")
                                        ELSE Label(w, p, "app")

\* The badges of the job switcher.
DeploymentNames(w) == {ShownUnder(w, p) : p \in RunningJobManagers(w)} \ {""}

ShownPods(w, role, name) ==
  {p \in PodsOf(w) : Label(w, p, "component") = role /\ ShownUnder(w, p) = name}

\* The targets the topology may give for a name: a FlinkDeployment if there is
\* one, or what the labels of the first running JobManager say.
TopologyTargets(w, name) ==
  IF name \in w.flinkDeployments THEN {FlinkTarget(name)}
  ELSE {VervericaTarget(Label(w, p, "deploymentId"), Label(w, p, "deploymentName"),
                        Label(w, p, "vvpNamespace")) :
          p \in ShownPods(w, "jobmanager", name) \cap RunningJobManagers(w)}
=============================================================================
