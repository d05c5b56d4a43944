--------------------------- MODULE PartitionPolicies ---------------------------
(***************************************************************************)
(* NetworkPartition: the NetworkPolicies a run creates one by one, records *)
(* and removes, and the traffic they stop together.                        *)
(*                                                                         *)
(* A policy is what policy.Build makes of the run's network spec.  Whether *)
(* a connection passes is Kubernetes' own rule: a pod that no policy of a  *)
(* direction selects is open in that direction; a selected pod has what    *)
(* ANY of the policies that select it allows.  Policies of several runs    *)
(* therefore meet on the same pods, because they select by the component   *)
(* label alone.                                                            *)
(***************************************************************************)
EXTENDS Integers, Sequences

CONSTANTS
  Runs,        \* the ChaosRuns of the namespace
  Pods,        \* its pods
  Component,   \* [Pods -> STRING]: the label policies select by
  Addresses,   \* addresses outside the cluster; a CIDR is a set of them
  Ports,       \* destination ports
  Networks,    \* the functions from runs to network specs to be considered
  MaxFaults,   \* how many API calls may fail
  MaxRestarts  \* how often the controller may stop before it has recorded

NoPort == 0
NoCIDR == {}

Directions    == {"Ingress", "Egress", "Both"}
LabelTargets  == {"TMtoTM", "TMtoJM"}
ExternTargets == {"TMtoCheckpoint", "TMtoExternal"}

NetworkSpec ==
  [target : LabelTargets \cup ExternTargets, direction : Directions,
   cidr : SUBSET Addresses, port : Ports \cup {NoPort}]

ASSUME ConstantsAssumption ==
  /\ Component \in [Pods -> {"taskmanager", "jobmanager", ""}]
  /\ NoPort \notin Ports
  /\ \A n \in Networks : n \in [Runs -> NetworkSpec]
  /\ MaxFaults \in Nat /\ MaxRestarts \in Nat

VARIABLES
  network,   \* the network specs of the runs
  policies,  \* the NetworkPolicies that exist
  cached,    \* the NetworkPolicies the controller's informer cache shows
  pc,        \* how far each run is
  todo,      \* the directions a run still has to create a policy for
  created,   \* the directions it counts as created
  recorded,  \* Status.NetworkPolicies, by direction
  listed,    \* the policies its cleanup still has to delete
  missed,    \* history: the policies of a run its last cleanup did not see
  faults, restarts

vars ==
  <<network, policies, cached, pc, todo, created, recorded, listed, missed, faults, restarts>>

-----------------------------------------------------------------------------
(* policy.Build and resolvePartitionPeers. *)

\* With a port the rule allows that port alone.
AllowAllExcept(cidr, port) ==
  [except |-> cidr, ports |-> IF port = NoPort THEN {} ELSE {port}]

\* Mistake: the external block is left out of the policy.
Build_Mutant(run, labels, cidr, direction, port) ==
  [run |-> run, selects |-> labels, direction |-> direction, egress |-> {}]

\* Ingress rules are always the empty list, which allows nothing.
Build(run, labels, cidr, direction, port) ==
  [run |-> run, selects |-> labels, direction |-> direction,
   egress |-> IF direction = "Egress" /\ cidr # NoCIDR
              THEN {AllowAllExcept(cidr, port)} ELSE {}]

Resolvable(n) == n.target \in ExternTargets => n.cidr # NoCIDR

DestCIDR(n) == IF n.target \in ExternTargets THEN n.cidr ELSE NoCIDR

\* Mistake: the source and destination labels are not swapped.
SelectedLabels_Mutant(n) == "taskmanager"

\* A partition between pods is laid on the destination pods.
SelectedLabels(n) == IF n.target = "TMtoJM" THEN "jobmanager" ELSE "taskmanager"

\* Mistake: one policy for both directions.
ToCreate_Mutant(direction) == <<direction>>

\* One policy per direction, ingress first.
ToCreate(direction) ==
  IF direction = "Both" THEN <<"Ingress", "Egress">> ELSE <<direction>>

-----------------------------------------------------------------------------
(* What Kubernetes lets through. *)

Flows ==
  {f \in [from : Pods \cup Addresses, to : Pods \cup Addresses, port : Ports] :
     f.from # f.to /\ {f.from, f.to} \cap Pods # {}}

Selecting(pod, direction) ==
  {p \in policies : p.selects = Component[pod] /\ p.direction = direction}

Permits(rule, f) ==
  f.to \notin rule.except /\ (rule.ports = {} \/ f.port \in rule.ports)

MayLeave(f) ==
  f.from \in Pods =>
    LET selecting == Selecting(f.from, "Egress")
    IN  selecting = {} \/ \E p \in selecting : \E rule \in p.egress : Permits(rule, f)

MayEnter(f) == f.to \in Pods => Selecting(f.to, "Ingress") = {}

Passes(f) == MayLeave(f) /\ MayEnter(f)

-----------------------------------------------------------------------------
(* The driver. *)

Init ==
  /\ network \in Networks
  /\ policies = {} /\ cached = {}
  /\ pc = [r \in Runs |-> "pending"]
  /\ todo = [r \in Runs |-> <<>>]
  /\ created = [r \in Runs |-> {}]
  /\ recorded = [r \in Runs |-> {}]
  /\ listed = [r \in Runs |-> {}]
  /\ missed = [r \in Runs |-> {}]
  /\ faults = 0 /\ restarts = 0

Inject(r) ==
  /\ pc[r] = "pending"
  /\ IF Resolvable(network[r])
     THEN /\ pc' = [pc EXCEPT ![r] = "creating"]
          /\ todo' = [todo EXCEPT ![r] = ToCreate(network[r].direction)]
     ELSE /\ pc' = [pc EXCEPT ![r] = "failed"]
          /\ UNCHANGED todo
  /\ created' = [created EXCEPT ![r] = {}]
  /\ UNCHANGED <<network, policies, cached, recorded, listed, missed, faults, restarts>>

PolicyOf(r, direction) ==
  LET n == network[r]
  IN  Build(r, SelectedLabels(n), DestCIDR(n), direction, n.port)

\* Mistake: a policy left by an earlier attempt is skipped and not counted.
CountedIfNew_Mutant(r, direction) ==
  {direction} \ {p.direction : p \in {q \in policies : q.run = r}}

\* A policy of an earlier attempt is as good as a new one.
CountedIfNew(r, direction) == {direction}

\* A policy is named after its run and its direction: one that exists stays.
CreatePolicy(r) ==
  /\ pc[r] = "creating" /\ todo[r] # <<>>
  /\ LET d == Head(todo[r])
     IN  /\ policies' = IF \E p \in policies : p.run = r /\ p.direction = d
                        THEN policies ELSE policies \cup {PolicyOf(r, d)}
         /\ created' = [created EXCEPT ![r] = @ \cup CountedIfNew(r, d)]
  /\ todo' = [todo EXCEPT ![r] = Tail(@)]
  /\ UNCHANGED <<network, cached, pc, recorded, listed, missed, faults, restarts>>

\* The names created so far are dropped with the error, and the run fails.
CreateFails(r) ==
  /\ pc[r] = "creating" /\ todo[r] # <<>> /\ faults < MaxFaults
  /\ faults' = faults + 1
  /\ pc' = [pc EXCEPT ![r] = "failed"]
  /\ UNCHANGED <<network, policies, cached, todo, created, recorded, listed, missed, restarts>>

RecordInjection(r) ==
  /\ pc[r] = "creating" /\ todo[r] = <<>>
  /\ pc' = [pc EXCEPT ![r] = "active"]
  /\ recorded' = [recorded EXCEPT ![r] = created[r]]
  /\ UNCHANGED <<network, policies, cached, todo, created, listed, missed, faults, restarts>>

\* The controller comes back: the stored phase is all that is left, and its
\* caches are filled before it starts.
Restart ==
  /\ restarts < MaxRestarts
  /\ restarts' = restarts + 1
  /\ pc' = [r \in Runs |-> CASE pc[r] = "creating" -> "pending"
                             [] pc[r] = "cleaning" -> "unclean"
                             [] OTHER -> pc[r]]
  /\ cached' = policies
  /\ UNCHANGED <<network, policies, todo, created, recorded, listed, missed, faults>>

\* Between two of these the cache shows the policies of some earlier moment.
CacheCatchesUp ==
  /\ cached # policies
  /\ cached' = policies
  /\ UNCHANGED <<network, policies, pc, todo, created, recorded, listed, missed, faults,
                 restarts>>

PoliciesOf(r) == {p \in policies : p.run = r}

\* By the label that names the run, whatever the status says.
Listed(r) == {p \in cached : p.run = r}

Cleanup(r) ==
  /\ pc[r] \in {"active", "unclean"}
  /\ pc' = [pc EXCEPT ![r] = "cleaning"]
  /\ listed' = [listed EXCEPT ![r] = Listed(r)]
  /\ missed' = [missed EXCEPT ![r] = PoliciesOf(r) \ Listed(r)]
  /\ UNCHANGED <<network, policies, cached, todo, created, recorded, faults, restarts>>

\* One that is gone already is skipped.
DeletePolicy(r) ==
  /\ pc[r] = "cleaning"
  /\ \E p \in listed[r] :
       /\ policies' = policies \ {p}
       /\ listed' = [listed EXCEPT ![r] = @ \ {p}]
  /\ UNCHANGED <<network, cached, pc, todo, created, recorded, missed, faults, restarts>>

\* Mistake: any error is taken for "not found".
AfterDeleteError_Mutant(r, p) ==
  listed' = [listed EXCEPT ![r] = @ \ {p}] /\ UNCHANGED pc

\* The reconcile fails and a later one lists again.
AfterDeleteError(r, p) ==
  pc' = [pc EXCEPT ![r] = "unclean"] /\ UNCHANGED listed

DeleteFails(r) ==
  /\ pc[r] = "cleaning" /\ faults < MaxFaults
  /\ \E p \in listed[r] : AfterDeleteError(r, p)
  /\ faults' = faults + 1
  /\ UNCHANGED <<network, policies, cached, todo, created, recorded, missed, restarts>>

CleanupEnds(r) ==
  /\ pc[r] = "cleaning" /\ listed[r] = {}
  /\ pc' = [pc EXCEPT ![r] = "clean"]
  /\ recorded' = [recorded EXCEPT ![r] = {}]
  /\ UNCHANGED <<network, policies, cached, todo, created, listed, missed, faults, restarts>>

Next ==
  \/ Restart \/ CacheCatchesUp
  \/ \E r \in Runs :
       \/ Inject(r) \/ CreatePolicy(r) \/ CreateFails(r) \/ RecordInjection(r)
       \/ Cleanup(r) \/ DeletePolicy(r) \/ DeleteFails(r) \/ CleanupEnds(r)

Spec == Init /\ [][Next]_vars

-----------------------------------------------------------------------------
(* Properties. *)

Policy ==
  [run : Runs, selects : {"taskmanager", "jobmanager"},
   direction : {"Ingress", "Egress"},
   egress : SUBSET [except : SUBSET Addresses, ports : SUBSET Ports]]

Phase == {"pending", "creating", "active", "unclean", "cleaning", "clean", "failed"}

\* The state is well-formed: a policy has one direction, as its name says.
TypeOK ==
  /\ network \in Networks
  /\ policies \subseteq Policy /\ cached \subseteq Policy
  /\ pc \in [Runs -> Phase]
  /\ todo \in [Runs -> Seq({"Ingress", "Egress"})]
  /\ created \in [Runs -> SUBSET {"Ingress", "Egress"}]
  /\ recorded \in [Runs -> SUBSET {"Ingress", "Egress"}]
  /\ listed \in [Runs -> SUBSET Policy] /\ missed \in [Runs -> SUBSET Policy]
  /\ faults \in Nat /\ restarts \in Nat

TMs == {p \in Pods : Component[p] = "taskmanager"}
JMs == {p \in Pods : Component[p] = "jobmanager"}

\* The side the policies are laid on, and the other one.
Near(n) == IF n.target = "TMtoJM" THEN JMs ELSE TMs
Far(n)  == IF n.target \in LabelTargets THEN TMs ELSE n.cidr

\* What the target stands for; the source is always the TaskManagers.
TargetSide(n) == IF n.target = "TMtoJM" THEN JMs ELSE Far(n)

OnPort(n, f) == n.port = NoPort \/ f.port = n.port

\* The traffic a spec is documented to block (network-chaos.md:25-29):
\* "Ingress" what comes in to the target component, which for an address
\* outside is what comes in from there, "Egress" what leaves the TaskManagers
\* for the target, "Both" both directions.
Requested(n) ==
  {f \in Flows :
     \/ n.direction # "Egress"  /\ f.from \in Far(n)  /\ f.to \in Near(n)
     \/ n.direction # "Ingress" /\ f.from \in TMs     /\ f.to \in TargetSide(n) /\ OnPort(n, f)
     \/ n.direction = "Both"    /\ f.from \in Near(n) /\ f.to \in Far(n) /\ OnPort(n, f)}

\* The egress of a TMtoJM partition is laid on the JobManagers: what comes back
\* from them is stopped, and what leaves the TaskManagers is not
\* (driver.go:79-88, builder.go:28-30).
Reversed(n) == n.target = "TMtoJM" /\ n.direction = "Egress"

Backwards(f) == [from |-> f.to, to |-> f.from, port |-> f.port]

\* A partition that is recorded and whose cleanup has not begun stops the
\* traffic its spec is documented to block, whatever the other runs of the
\* namespace create and delete meanwhile and however often it was interrupted;
\* only of TMtoJM Egress it stops the opposite (driver.go:79-98).
PartitionInForce ==
  \A r \in Runs : pc[r] = "active" =>
    \A f \in Requested(network[r]) :
      ~Passes(IF Reversed(network[r]) THEN Backwards(f) ELSE f)

\* A partition that is in force blocks what network-chaos.md:25-29 says.
BlocksWhatIsDocumented ==
  \A r \in Runs : pc[r] = "active" => \A f \in Requested(network[r]) : ~Passes(f)

\* What the policies of a spec stop.  Laid on pods, they stop all traffic of
\* these in their direction, and not only that "between specified component
\* pairs" (network-chaos.md:11); only the egress to other addresses is left open,
\* and of that only the port, if the spec has one, which the port was to restrict
\* the policy to (builder.go:42, :76-102).
MayStop(n, f) ==
  \/ n.direction # "Egress"  /\ f.to \in Near(n)
  \/ /\ n.direction # "Ingress" /\ f.from \in Near(n)
     /\ n.target \in ExternTargets => f.to \in n.cidr \/ ~OnPort(n, f)

\* Traffic is only stopped by a run that has a policy in place, and only what
\* the policies of its spec account for: no other run's cleanup leaves anything
\* closed, whatever fails, and the egress of an external partition stays open to
\* other addresses on its port (builder.go:54-56, :102).
NothingElseCut ==
  \A f \in Flows : Passes(f) \/ \E r \in Runs : PoliciesOf(r) # {} /\ MayStop(network[r], f)

\* A run that reports its cleanup done has no policy left, after any failed
\* deletes and restarts, but those the informer cache did not show when the
\* cleanup listed them, although a partition "automatically removes the
\* NetworkPolicy during the CleaningUp phase" (network-chaos.md:12); and when
\* all runs are clean and none missed any, all traffic passes
\* (driver.go:137-153).
RestoredWhenClean ==
  /\ \A r \in Runs : pc[r] = "clean" => PoliciesOf(r) \subseteq missed[r]
  /\ (\A r \in Runs : pc[r] = "clean" /\ missed[r] = {}) => \A f \in Flows : Passes(f)

\* While a partition is active its status names exactly the policies it has,
\* those of an interrupted attempt included (driver.go:108-112, 217-224).
StatusNamesThePolicies ==
  \A r \in Runs : pc[r] = "active" =>
    recorded[r] = {p.direction : p \in {q \in policies : q.run = r}}
=============================================================================
