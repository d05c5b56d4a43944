-------------------------- MODULE MCPartitionPolicies --------------------------
(* Two partitions in a namespace with two TaskManagers and a JobManager. *)
EXTENDS PartitionPolicies

CONSTANTS r1, r2, tm1, tm2, jm, a1, a2

MCComponent ==
  [p \in {tm1, tm2, jm} |-> IF p = jm THEN "jobmanager" ELSE "taskmanager"]

Net(target, direction, cidr) ==
  [target |-> target, direction |-> direction, cidr |-> cidr, port |-> NoPort]

OnlyPort(n, port) == [n EXCEPT !.port = port]

NetworkSpecs ==
  {Net(t, d, NoCIDR) : t \in LabelTargets, d \in Directions}
    \cup {Net("TMtoExternal", d, {a1}) : d \in Directions}
    \cup {OnlyPort(Net("TMtoExternal", d, {a1}), 8081) : d \in {"Egress", "Both"}}
    \cup {Net("TMtoCheckpoint", "Egress", {a2}), Net("TMtoCheckpoint", "Both", NoCIDR)}

\* The egress of the TaskManagers.
LaidOnEgress(n) == n.direction # "Ingress" /\ n.target # "TMtoJM"

\* Two runs of which an external one shares the egress with the other.
Sharing(nw) ==
  /\ LaidOnEgress(nw[r1]) /\ LaidOnEgress(nw[r2])
  /\ DestCIDR(nw[r1]) # DestCIDR(nw[r2])

ApartNetworks == {nw \in [{r1, r2} -> NetworkSpecs] : ~Sharing(nw)}
SharedNetworks ==
  {nw \in [{r1, r2} -> NetworkSpecs] : \A r \in {r1, r2} : nw[r].target \in ExternTargets}
=============================================================================
