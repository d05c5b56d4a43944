------------------------ MODULE PartitionPoliciesProofs ------------------------
(***************************************************************************)
(* NetworkPartition for any runs, pods, addresses and specs, and a cache   *)
(* of any age: a partition in force stops what its spec names unless       *)
(* another one opens the same egress, what is stopped is what some spec's  *)
(* policies account for, the status names the policies there are, and a    *)
(* cleanup leaves none that it saw.                                        *)
(***************************************************************************)
EXTENDS PartitionPolicies, TLAPS

OneWay == {"Ingress", "Egress"}

\* The directions a run with this spec has policies for.
DirectionsOf(n) == {d \in OneWay : n.direction \in {d, "Both"}}

Elements(s) == {s[i] : i \in 1 .. Len(s)}

-----------------------------------------------------------------------------
(* The invariant. *)

\* Every policy is the one its run's spec asks for, so that two policies of a
\* run and a direction are one.
WellMade ==
  \A p \in policies :
    /\ p = PolicyOf(p.run, p.direction)
    /\ p.direction \in DirectionsOf(network[p.run])
    /\ Resolvable(network[p.run])

DirectionsInPlace(r) == {p.direction : p \in {q \in policies : q.run = r}}

\* What an injection has still to create and what it has created make up the
\* spec, and what it counts as created is there.
InjectionKnows(r) ==
  pc[r] = "creating" =>
    /\ Resolvable(network[r])
    /\ created[r] \cup Elements(todo[r]) = DirectionsOf(network[r])
    /\ created[r] \subseteq DirectionsInPlace(r)

\* An active run has all of its policies.
ActiveIsComplete(r) ==
  pc[r] = "active" =>
    /\ recorded[r] = DirectionsOf(network[r])
    /\ DirectionsInPlace(r) = DirectionsOf(network[r])

\* A cleanup has listed the policies that are left of its run, but for those it
\* missed, and none of other runs.
CleanupKnows(r) ==
  /\ pc[r] = "cleaning" => PoliciesOf(r) \subseteq listed[r] \cup missed[r]
  /\ \A p \in listed[r] : p.run = r

NothingLeft(r) == pc[r] = "clean" => PoliciesOf(r) \subseteq missed[r]

RunInv(r) ==
  InjectionKnows(r) /\ ActiveIsComplete(r) /\ CleanupKnows(r) /\ NothingLeft(r)

IInv == TypeOK /\ WellMade /\ (\A r \in Runs : RunInv(r))

-----------------------------------------------------------------------------
(* Lemmas. *)

\* Taking the head off a sequence of directions.
LEMMA HeadAndTail ==
  ASSUME NEW s \in Seq(OneWay), s # <<>>
  PROVE  /\ Head(s) \in OneWay /\ Tail(s) \in Seq(OneWay)
         /\ Elements(s) = {Head(s)} \cup Elements(Tail(s))
<1>1. Len(s) \in Nat \ {0} /\ Head(s) = s[1] /\ Tail(s) \in Seq(OneWay)
      /\ Len(Tail(s)) = Len(s) - 1
  OBVIOUS
<1>2. \A i \in 1 .. Len(Tail(s)) : Tail(s)[i] = s[i + 1]
  OBVIOUS
<1>3. \A i \in 1 .. Len(s) : s[i] \in OneWay
  OBVIOUS
<1>4. Elements(s) \subseteq {Head(s)} \cup Elements(Tail(s))
  <2> SUFFICES ASSUME NEW i \in 1 .. Len(s)
               PROVE  s[i] \in {Head(s)} \cup Elements(Tail(s))
    BY DEF Elements
  <2>1. CASE i = 1
    BY <1>1, <2>1
  <2>2. CASE i # 1
    <3>1. i - 1 \in 1 .. Len(Tail(s)) /\ (i - 1) + 1 = i
      BY <1>1, <2>2
    <3>2. Tail(s)[i - 1] = s[i]
      BY <1>2, <3>1
    <3> QED
      BY <3>1, <3>2 DEF Elements
  <2> QED
    BY <2>1, <2>2
<1>5. {Head(s)} \cup Elements(Tail(s)) \subseteq Elements(s)
  <2>1. Head(s) \in Elements(s)
    BY <1>1 DEF Elements
  <2>2. ASSUME NEW i \in 1 .. Len(Tail(s))
        PROVE  Tail(s)[i] \in Elements(s)
    <3>1. i + 1 \in 1 .. Len(s)
      BY <1>1
    <3> QED
      BY <1>2, <3>1 DEF Elements
  <2> QED
    BY <2>1, <2>2 DEF Elements
<1> QED
  BY <1>1, <1>3, <1>4, <1>5

\* The policies to create are those of the spec.
LEMMA ToCreateAll ==
  ASSUME NEW n \in NetworkSpec
  PROVE  /\ ToCreate(n.direction) \in Seq(OneWay)
         /\ Elements(ToCreate(n.direction)) = DirectionsOf(n)
<1>1. n.direction \in {"Ingress", "Egress", "Both"}
  BY DEF NetworkSpec, Directions
<1>2. CASE n.direction = "Both"
  <2>1. ToCreate(n.direction) = <<"Ingress", "Egress">>
    BY <1>2 DEF ToCreate
  <2>2. Elements(<<"Ingress", "Egress">>) = OneWay
    <3>1. Elements(<<"Ingress", "Egress">>) = {<<"Ingress", "Egress">>[i] : i \in 1 .. 2}
      BY DEF Elements
    <3>2. 1 .. 2 = {1, 2}
      OBVIOUS
    <3> QED
      BY <3>1, <3>2 DEF OneWay
  <2>3. DirectionsOf(n) = OneWay
    BY <1>2 DEF DirectionsOf, OneWay
  <2> QED
    BY <2>1, <2>2, <2>3 DEF OneWay
<1>3. CASE n.direction # "Both"
  <2>1. ToCreate(n.direction) = <<n.direction>> /\ n.direction \in OneWay
    BY <1>1, <1>3 DEF ToCreate, OneWay
  <2>2. Elements(<<n.direction>>) = {n.direction}
    BY DEF Elements
  <2>3. DirectionsOf(n) = {n.direction}
    BY <1>1, <1>3 DEF DirectionsOf, OneWay
  <2> QED
    BY <2>1, <2>2, <2>3
<1> QED
  BY <1>2, <1>3

\* What a spec that is considered looks like.
LEMMA SpecType ==
  ASSUME network \in Networks, NEW r \in Runs
  PROVE  /\ network[r] \in NetworkSpec
         /\ network[r].cidr \in SUBSET Addresses
         /\ network[r].port \in Ports \cup {NoPort}
<1>1. network \in [Runs -> NetworkSpec]
  BY ConstantsAssumption
<1> QED
  BY <1>1 DEF NetworkSpec

\* The policies a spec asks for are policies.
LEMMA PolicyType ==
  ASSUME network \in Networks, NEW r \in Runs, NEW d \in OneWay
  PROVE  /\ PolicyOf(r, d) \in Policy
         /\ PolicyOf(r, d).run = r /\ PolicyOf(r, d).direction = d
         /\ PolicyOf(r, d).selects = SelectedLabels(network[r])
<1>1. network[r].cidr \in SUBSET Addresses /\ network[r].port \in Ports \cup {NoPort}
  BY SpecType
<1>2. DestCIDR(network[r]) \in SUBSET Addresses
  BY <1>1 DEF DestCIDR, NoCIDR
<1>3. AllowAllExcept(DestCIDR(network[r]), network[r].port)
        \in [except : SUBSET Addresses, ports : SUBSET Ports]
  BY <1>1, <1>2 DEF AllowAllExcept
<1>4. SelectedLabels(network[r]) \in {"taskmanager", "jobmanager"}
  BY DEF SelectedLabels
<1> QED
  BY <1>3, <1>4 DEF PolicyOf, Build, Policy, OneWay

-----------------------------------------------------------------------------
(* The steps. *)

\* There are no policies at the start.
LEMMA InitHolds == Init => IInv
<1> SUFFICES ASSUME Init PROVE IInv
  OBVIOUS
<1>1. TypeOK
  BY DEF Init, TypeOK, Phase
<1>2. WellMade
  BY DEF Init, WellMade
<1>3. \A r \in Runs : RunInv(r)
  BY DEF Init, RunInv, InjectionKnows, ActiveIsComplete, CleanupKnows, NothingLeft
<1> QED
  BY <1>1, <1>2, <1>3 DEF IInv

\* A step of one run disturbs no other.
LEMMA OthersKeep ==
  ASSUME NEW r \in Runs, NEW q \in Runs \ {r}, RunInv(q),
         UNCHANGED network,
         pc'[q] = pc[q], todo'[q] = todo[q], created'[q] = created[q],
         recorded'[q] = recorded[q], listed'[q] = listed[q], missed'[q] = missed[q],
         \A p \in policies \cup policies' :
           p.run # r => (p \in policies <=> p \in policies')
  PROVE  RunInv(q)'
<1>1. PoliciesOf(q)' = PoliciesOf(q)
  BY DEF PoliciesOf
<1>2. DirectionsInPlace(q)' = DirectionsInPlace(q)
  BY <1>1 DEF DirectionsInPlace, PoliciesOf
<1> QED
  BY <1>1, <1>2 DEF RunInv, InjectionKnows, ActiveIsComplete, CleanupKnows, NothingLeft

\* When no policy is created, they are all still well made.
LEMMA FewerAreWellMade ==
  ASSUME WellMade, UNCHANGED network, policies' \subseteq policies
  PROVE  WellMade'
BY DEF WellMade, PolicyOf

\* The start of an injection.
LEMMA InjectStep ==
  ASSUME IInv, NEW r \in Runs, Inject(r)
  PROVE  IInv'
<1> USE DEF IInv, Inject
<1>1. network[r] \in NetworkSpec
  BY SpecType DEF TypeOK
<1>2. /\ ToCreate(network[r].direction) \in Seq(OneWay)
      /\ Elements(ToCreate(network[r].direction)) = DirectionsOf(network[r])
  BY <1>1, ToCreateAll
<1>3. TypeOK'
  <2>1. pc' \in [Runs -> Phase]
    BY DEF TypeOK, Phase
  <2>2. todo' \in [Runs -> Seq({"Ingress", "Egress"})]
    BY <1>2 DEF TypeOK, OneWay
  <2>3. created' \in [Runs -> SUBSET {"Ingress", "Egress"}]
    BY DEF TypeOK
  <2> QED
    BY <2>1, <2>2, <2>3 DEF TypeOK
<1>4. WellMade'
  BY FewerAreWellMade
<1>5. RunInv(r)'
  <2>1. /\ pc'[r] \in {"creating", "failed"} /\ created'[r] = {} /\ listed'[r] = listed[r] /\ missed'[r] = missed[r]
        /\ pc'[r] = "creating" => /\ Resolvable(network[r])
                                 /\ todo'[r] = ToCreate(network[r].direction)
    BY DEF TypeOK
  <2> QED
    BY <1>2, <2>1 DEF RunInv, InjectionKnows, ActiveIsComplete, CleanupKnows, NothingLeft
<1>6. ASSUME NEW q \in Runs \ {r} PROVE RunInv(q)'
  BY OthersKeep DEF TypeOK
<1> QED
  BY <1>3, <1>4, <1>5, <1>6

\* A policy is created, or was there.
LEMMA CreateStep ==
  ASSUME IInv, NEW r \in Runs, CreatePolicy(r)
  PROVE  IInv'
<1> USE DEF IInv, CreatePolicy
<1> DEFINE d == Head(todo[r])
<1>1. /\ d \in OneWay /\ Tail(todo[r]) \in Seq(OneWay)
      /\ Elements(todo[r]) = {d} \cup Elements(Tail(todo[r]))
  BY HeadAndTail DEF TypeOK, OneWay
<1>2. /\ PolicyOf(r, d) \in Policy
      /\ PolicyOf(r, d).run = r /\ PolicyOf(r, d).direction = d
  BY <1>1, PolicyType DEF TypeOK
<1>3. /\ created' = [created EXCEPT ![r] = @ \cup {d}]
      /\ policies \subseteq policies'
      /\ policies' \subseteq policies \cup {PolicyOf(r, d)}
      /\ \E p \in policies' : p.run = r /\ p.direction = d
      /\ UNCHANGED network
  BY <1>2 DEF CountedIfNew
<1>4. Resolvable(network[r]) /\ created[r] \cup Elements(todo[r]) = DirectionsOf(network[r])
      /\ created[r] \subseteq DirectionsInPlace(r)
  BY DEF RunInv, InjectionKnows
<1> HIDE DEF d
<1>5. TypeOK'
  <2>1. policies' \subseteq Policy
    BY <1>2, <1>3 DEF TypeOK
  <2>2. created' \in [Runs -> SUBSET OneWay]
    BY <1>1, <1>3 DEF TypeOK, OneWay
  <2>3. todo' \in [Runs -> Seq(OneWay)]
    BY <1>1 DEF TypeOK, OneWay
  <2> QED
    BY <2>1, <2>2, <2>3 DEF TypeOK, OneWay
<1>6. WellMade'
  <2> SUFFICES ASSUME NEW p \in policies'
               PROVE  /\ p = PolicyOf(p.run, p.direction)
                      /\ p.direction \in DirectionsOf(network[p.run])
                      /\ Resolvable(network[p.run])
    BY <1>3 DEF WellMade, PolicyOf
  <2>1. CASE p \in policies
    BY <2>1 DEF WellMade
  <2>2. CASE p = PolicyOf(r, d)
    BY <1>1, <1>2, <1>4, <2>2
  <2> QED
    BY <1>3, <2>1, <2>2
<1>7. RunInv(r)'
  <2>1. pc'[r] = "creating" /\ created'[r] = created[r] \cup {d} /\ todo'[r] = Tail(todo[r])
        /\ listed'[r] = listed[r] /\ missed'[r] = missed[r]
    BY <1>3 DEF TypeOK
  <2>2. created'[r] \cup Elements(todo'[r]) = DirectionsOf(network[r])
    BY <1>1, <1>4, <2>1
  <2>3. created'[r] \subseteq DirectionsInPlace(r)'
    BY <1>3, <1>4, <2>1 DEF DirectionsInPlace
  <2> QED
    BY <1>3, <1>4, <2>1, <2>2, <2>3
    DEF RunInv, InjectionKnows, ActiveIsComplete, CleanupKnows, NothingLeft
<1>8. ASSUME NEW q \in Runs \ {r} PROVE RunInv(q)'
  BY <1>2, <1>3, OthersKeep DEF TypeOK
<1> QED
  BY <1>5, <1>6, <1>7, <1>8

\* The end of an injection: what was counted is what there is.
LEMMA RecordStep ==
  ASSUME IInv, NEW r \in Runs, RecordInjection(r)
  PROVE  IInv'
<1> USE DEF IInv, RecordInjection
<1>1. TypeOK'
  BY DEF TypeOK, Phase
<1>2. WellMade'
  BY FewerAreWellMade
<1>3. RunInv(r)'
  <2>1. Elements(todo[r]) = {}
    BY DEF Elements
  <2>2. created[r] = DirectionsOf(network[r]) /\ created[r] \subseteq DirectionsInPlace(r)
    BY <2>1 DEF RunInv, InjectionKnows
  <2>3. DirectionsInPlace(r) \subseteq DirectionsOf(network[r])
    BY DEF DirectionsInPlace, WellMade
  <2>4. pc'[r] = "active" /\ recorded'[r] = created[r] /\ listed'[r] = listed[r] /\ missed'[r] = missed[r]
        /\ DirectionsInPlace(r)' = DirectionsInPlace(r)
    BY DEF TypeOK, DirectionsInPlace
  <2>5. ActiveIsComplete(r)'
    BY <2>2, <2>3, <2>4 DEF ActiveIsComplete, DirectionsInPlace
  <2>6. InjectionKnows(r)' /\ CleanupKnows(r)' /\ NothingLeft(r)'
    BY <2>4 DEF RunInv, InjectionKnows, CleanupKnows, NothingLeft
  <2> QED
    BY <2>5, <2>6 DEF RunInv
<1>4. ASSUME NEW q \in Runs \ {r} PROVE RunInv(q)'
  BY OthersKeep DEF TypeOK
<1> QED
  BY <1>1, <1>2, <1>3, <1>4

\* The steps of a cleanup.
LEMMA CleanupStep ==
  ASSUME IInv, NEW r \in Runs,
         Cleanup(r) \/ DeletePolicy(r) \/ DeleteFails(r) \/ CleanupEnds(r)
  PROVE  IInv'
<1> USE DEF IInv
<1>1. policies' \subseteq policies /\ UNCHANGED network
  BY DEF Cleanup, DeletePolicy, DeleteFails, CleanupEnds
<1>2. WellMade'
  BY <1>1, FewerAreWellMade
<1>3. TypeOK'
  <2>1. CASE Cleanup(r)
    BY <2>1 DEF TypeOK, Phase, Cleanup, PoliciesOf, Listed
  <2>2. CASE DeletePolicy(r)
    BY <2>2 DEF TypeOK, DeletePolicy
  <2>3. CASE DeleteFails(r)
    BY <2>3 DEF TypeOK, Phase, DeleteFails, AfterDeleteError
  <2>4. CASE CleanupEnds(r)
    BY <2>4 DEF TypeOK, Phase, CleanupEnds
  <2> QED
    BY <2>1, <2>2, <2>3, <2>4
<1>4. RunInv(r)'
  <2> USE DEF TypeOK, RunInv, InjectionKnows, ActiveIsComplete, CleanupKnows, NothingLeft,
              PoliciesOf
  <2>1. CASE Cleanup(r)
    BY <2>1 DEF Cleanup, Listed
  <2>2. CASE DeletePolicy(r)
    BY <2>2 DEF DeletePolicy
  <2>3. CASE DeleteFails(r)
    BY <2>3 DEF DeleteFails, AfterDeleteError
  <2>4. CASE CleanupEnds(r)
    BY <2>4 DEF CleanupEnds
  <2> QED
    BY <2>1, <2>2, <2>3, <2>4
<1>5. ASSUME NEW q \in Runs \ {r} PROVE RunInv(q)'
  <2>1. \A p \in policies \cup policies' : p.run # r => (p \in policies <=> p \in policies')
    BY DEF Cleanup, DeletePolicy, DeleteFails, CleanupEnds, RunInv, CleanupKnows
  <2>2. /\ pc'[q] = pc[q] /\ todo'[q] = todo[q] /\ created'[q] = created[q]
        /\ recorded'[q] = recorded[q] /\ listed'[q] = listed[q] /\ missed'[q] = missed[q]
    BY DEF TypeOK, Cleanup, DeletePolicy, DeleteFails, CleanupEnds, AfterDeleteError
  <2> QED
    BY <1>1, <2>1, <2>2, OthersKeep
<1> QED
  BY <1>2, <1>3, <1>4, <1>5

\* An error ends the injection, a restart the reconcile; the cache changes
\* nothing that was listed.
LEMMA InterruptedStep ==
  ASSUME IInv, Restart \/ CacheCatchesUp \/ \E r \in Runs : CreateFails(r)
  PROVE  IInv'
<1> USE DEF IInv
<1>1. /\ UNCHANGED <<network, policies, todo, created, recorded, listed, missed>>
      /\ cached' \in {cached, policies}
      /\ \A q \in Runs : pc'[q] \in {pc[q], "pending", "unclean", "failed"}
  BY DEF TypeOK, Restart, CacheCatchesUp, CreateFails
<1>2. TypeOK'
  <2>1. pc' \in [Runs -> Phase]
    BY DEF TypeOK, Phase, Restart, CacheCatchesUp, CreateFails
  <2>2. faults' \in Nat /\ restarts' \in Nat
    BY DEF TypeOK, Restart, CacheCatchesUp, CreateFails
  <2> QED
    BY <1>1, <2>1, <2>2 DEF TypeOK
<1>3. WellMade'
  BY <1>1, FewerAreWellMade
<1>4. ASSUME NEW q \in Runs PROVE RunInv(q)'
  BY <1>1 DEF RunInv, InjectionKnows, ActiveIsComplete, CleanupKnows, NothingLeft,
              DirectionsInPlace, PoliciesOf
<1> QED
  BY <1>2, <1>3, <1>4

\* All of this is an invariant.
LEMMA Invariance == Spec => []IInv
<1>1. IInv /\ [Next]_vars => IInv'
  <2> SUFFICES ASSUME IInv, [Next]_vars PROVE IInv'
    OBVIOUS
  <2>1. CASE UNCHANGED vars
    BY <2>1 DEF IInv, TypeOK, WellMade, RunInv, InjectionKnows, ActiveIsComplete, CleanupKnows,
                NothingLeft, DirectionsInPlace, PoliciesOf, PolicyOf, vars
  <2>2. CASE Next
    BY <2>2, InjectStep, CreateStep, RecordStep, CleanupStep, InterruptedStep DEF Next
  <2> QED
    BY <2>1, <2>2
<1> QED
  BY <1>1, InitHolds, PTL DEF Spec

-----------------------------------------------------------------------------
(* The theorems. *)

\* The state is well-formed for any runs and specs: the driver creates
\* policies of one direction only (driver.go:92-115).
THEOREM TypeCorrect == Spec => []TypeOK
<1>1. IInv => TypeOK
  BY DEF IInv
<1> QED
  BY <1>1, Invariance, PTL

\* The status of an active partition names its policies, however often its
\* injection was interrupted (driver.go:108-112, 217-224).
THEOREM StatusIsExact == Spec => []StatusNamesThePolicies
<1>1. IInv => StatusNamesThePolicies
  BY DEF IInv, RunInv, ActiveIsComplete, StatusNamesThePolicies, DirectionsInPlace
<1> QED
  BY <1>1, Invariance, PTL

\* A clean run has no policy left that its last cleanup saw, however far the
\* cache lagged behind, and when all runs are clean and none missed any, the
\* namespace is as open as it was (driver.go:137-153).
THEOREM CleanRunsRestore == Spec => []RestoredWhenClean
<1>1. IInv => RestoredWhenClean
  <2> SUFFICES ASSUME IInv PROVE RestoredWhenClean
    OBVIOUS
  <2>1. \A r \in Runs : pc[r] = "clean" => PoliciesOf(r) \subseteq missed[r]
    BY DEF IInv, RunInv, NothingLeft
  <2>2. ASSUME \A r \in Runs : pc[r] = "clean" /\ missed[r] = {}
        PROVE  \A f \in Flows : Passes(f)
    <3>1. \A p \in policies : p.run \in Runs
      BY DEF IInv, TypeOK, Policy
    <3>2. policies = {}
      BY <2>1, <2>2, <3>1 DEF PoliciesOf
    <3> QED
      BY <3>2 DEF Passes, MayLeave, MayEnter, Selecting
  <2> QED
    BY <2>1, <2>2 DEF RestoredWhenClean
<1> QED
  BY <1>1, Invariance, PTL

\* The egress of the TaskManagers.
LaidOnEgress(n) == n.direction # "Ingress" /\ n.target # "TMtoJM"

\* No two partitions that are laid on the egress of the TaskManagers differ in
\* the address they are to stop.
Apart ==
  \A nw \in Networks : \A r, q \in Runs :
    LaidOnEgress(nw[r]) /\ LaidOnEgress(nw[q]) => DestCIDR(nw[r]) = DestCIDR(nw[q])

\* A partition in force stops the traffic its spec is documented to block, but
\* for a TMtoJM Egress, which stops the opposite, if no other run of the
\* namespace opens the egress it closes (driver.go:79-98).
THEOREM PartitionsHold == ASSUME Apart PROVE Spec => []PartitionInForce
<1>1. IInv => PartitionInForce
  <2> SUFFICES ASSUME IInv, NEW r \in Runs, pc[r] = "active",
                      NEW g \in Requested(network[r]),
                      NEW f, f = IF Reversed(network[r]) THEN Backwards(g) ELSE g
               PROVE  ~Passes(f)
    BY DEF PartitionInForce
  <2> DEFINE n == network[r]
  <2>1. /\ n \in NetworkSpec /\ network \in Networks
        /\ n.target \in LabelTargets \cup ExternTargets /\ n.direction \in Directions
    BY SpecType DEF IInv, TypeOK, NetworkSpec
  <2>2. \A d \in DirectionsOf(n) : \E p \in policies : p.run = r /\ p.direction = d
    BY DEF IInv, RunInv, ActiveIsComplete, DirectionsInPlace
  <2>3. \A p \in policies :
          /\ p.run \in Runs /\ p.direction \in OneWay
          /\ p = PolicyOf(p.run, p.direction)
          /\ p.selects = SelectedLabels(network[p.run])
          /\ p.direction \in DirectionsOf(network[p.run])
          /\ Resolvable(network[p.run])
    BY <2>1, PolicyType DEF IInv, TypeOK, WellMade, Policy, OneWay
  <2>4. \A pod \in Near(n) : pod \in Pods /\ Component[pod] = SelectedLabels(n)
    BY DEF Near, TMs, JMs, SelectedLabels
  <2>5. CASE n.direction # "Egress" /\ f.to \in Near(n)
    <3>1. "Ingress" \in DirectionsOf(n)
      BY <2>1, <2>5 DEF DirectionsOf, OneWay, Directions
    <3>2. Selecting(f.to, "Ingress") # {}
      BY <2>2, <2>3, <2>4, <2>5, <3>1 DEF Selecting
    <3> QED
      BY <2>4, <2>5, <3>2 DEF Passes, MayEnter
  <2>6. CASE n.direction # "Ingress" /\ f.from \in Near(n) /\ f.to \in Far(n) /\ OnPort(n, f)
    <3>1. "Egress" \in DirectionsOf(n)
      BY <2>1, <2>6 DEF DirectionsOf, OneWay, Directions
    <3>2. Selecting(f.from, "Egress") # {}
      BY <2>2, <2>3, <2>4, <2>6, <3>1 DEF Selecting
    <3>3. ASSUME NEW p \in Selecting(f.from, "Egress"), NEW rule \in p.egress
          PROVE  ~Permits(rule, f)
      <4> DEFINE m == network[p.run]
      <4>1. /\ p \in policies /\ p.direction = "Egress" /\ p.run \in Runs
            /\ p = PolicyOf(p.run, "Egress")
            /\ SelectedLabels(m) = SelectedLabels(n)
            /\ "Egress" \in DirectionsOf(m)
        BY <2>3, <2>4, <2>6 DEF Selecting
      <4>2. DestCIDR(m) # NoCIDR /\ rule = AllowAllExcept(DestCIDR(m), m.port)
        BY <4>1 DEF PolicyOf, Build
      <4>3. m.target \in ExternTargets
        BY <4>2 DEF DestCIDR
      <4>4. n.target # "TMtoJM" /\ m.target # "TMtoJM"
        BY <4>1, <4>3 DEF SelectedLabels, ExternTargets
      <4>5. m.direction # "Ingress"
        BY <4>1 DEF DirectionsOf
      <4>6. DestCIDR(n) = DestCIDR(m)
        BY Apart, <2>1, <2>6, <4>1, <4>4, <4>5 DEF Apart, LaidOnEgress
      <4>7. n.target \in ExternTargets /\ DestCIDR(n) = n.cidr
        BY <4>2, <4>6 DEF DestCIDR
      <4>8. f.to \in n.cidr
        BY <2>6, <4>7 DEF Far, ExternTargets, LabelTargets
      <4> QED
        BY <4>2, <4>6, <4>7, <4>8 DEF Permits, AllowAllExcept
    <3> QED
      BY <2>4, <2>6, <3>2, <3>3 DEF Passes, MayLeave
  <2>7. \/ n.direction # "Egress" /\ f.to \in Near(n)
        \/ n.direction # "Ingress" /\ f.from \in Near(n) /\ f.to \in Far(n) /\ OnPort(n, f)
    <3>1. CASE Reversed(n)
      <4>1. n.target = "TMtoJM" /\ n.direction = "Egress" /\ f = Backwards(g)
        BY <3>1 DEF Reversed
      <4>2. g.from \in TMs /\ g.to \in JMs /\ OnPort(n, g)
        BY <4>1 DEF Requested, TargetSide
      <4>3. f.from = g.to /\ f.to = g.from /\ f.port = g.port
        BY <4>1 DEF Backwards
      <4> QED
        BY <4>1, <4>2, <4>3 DEF Near, Far, LabelTargets, OnPort
    <3>2. CASE ~Reversed(n)
      <4>1. f = g
        BY <3>2
      <4>2. CASE n.target = "TMtoJM"
        <5>1. n.direction # "Egress"
          BY <3>2, <4>2 DEF Reversed
        <5> QED
          BY <4>1, <4>2, <5>1 DEF Requested, Near, TargetSide
      <4>3. CASE n.target # "TMtoJM"
        BY <4>1, <4>3 DEF Requested, Near, TargetSide
      <4> QED
        BY <4>2, <4>3
    <3> QED
      BY <3>1, <3>2
  <2> QED
    BY <2>5, <2>6, <2>7
<1> QED
  BY <1>1, Invariance, PTL

\* What is stopped is what the policies of some spec account for, as long as its
\* run has a policy in place, with and without ports
\* (builder.go:42, 54-56, 102).
THEOREM NothingElseIsCut == Spec => []NothingElseCut
<1>1. IInv => NothingElseCut
  <2> SUFFICES ASSUME IInv, NEW f \in Flows, ~Passes(f)
               PROVE  \E r \in Runs : PoliciesOf(r) # {} /\ MayStop(network[r], f)
    BY DEF NothingElseCut
  <2>1. network \in Networks
    BY DEF IInv, TypeOK
  <2>2. \A p \in policies :
          /\ p.run \in Runs /\ PoliciesOf(p.run) # {}
          /\ network[p.run].target \in LabelTargets \cup ExternTargets
          /\ p = PolicyOf(p.run, p.direction)
          /\ p.selects = SelectedLabels(network[p.run])
          /\ p.direction \in DirectionsOf(network[p.run])
          /\ Resolvable(network[p.run])
    <3> SUFFICES ASSUME NEW p \in policies
                 PROVE  /\ p.run \in Runs /\ PoliciesOf(p.run) # {}
                        /\ network[p.run].target \in LabelTargets \cup ExternTargets
                        /\ p = PolicyOf(p.run, p.direction)
                        /\ p.selects = SelectedLabels(network[p.run])
                        /\ p.direction \in DirectionsOf(network[p.run])
                        /\ Resolvable(network[p.run])
      OBVIOUS
    <3>1. p.run \in Runs /\ p.direction \in OneWay
      BY DEF IInv, TypeOK, Policy, OneWay
    <3>2. network[p.run].target \in LabelTargets \cup ExternTargets
      BY <2>1, <3>1, SpecType DEF NetworkSpec
    <3> QED
      BY <2>1, <3>1, <3>2, PolicyType DEF IInv, WellMade, PoliciesOf
  <2>3. \A n \in NetworkSpec : \A pod \in Pods :
          Component[pod] = SelectedLabels(n) => pod \in Near(n)
    BY DEF Near, TMs, JMs, SelectedLabels
  <2>4. CASE ~MayEnter(f)
    <3>1. PICK p \in Selecting(f.to, "Ingress") : f.to \in Pods
      BY <2>4 DEF MayEnter
    <3>2. /\ p \in policies /\ p.direction = "Ingress"
          /\ Component[f.to] = SelectedLabels(network[p.run])
      BY <2>2, <3>1 DEF Selecting
    <3>3. network[p.run] \in NetworkSpec /\ network[p.run].direction # "Egress"
      BY <2>1, <2>2, <3>2, SpecType DEF DirectionsOf
    <3>4. f.to \in Near(network[p.run])
      BY <2>3, <3>1, <3>2, <3>3
    <3> QED
      BY <2>2, <3>2, <3>3, <3>4 DEF MayStop
  <2>5. CASE ~MayLeave(f)
    <3>1. PICK p \in Selecting(f.from, "Egress") :
            f.from \in Pods /\ \A rule \in p.egress : ~Permits(rule, f)
      BY <2>5 DEF MayLeave
    <3> DEFINE n == network[p.run]
    <3>2. /\ p \in policies /\ p.direction = "Egress" /\ p = PolicyOf(p.run, "Egress")
          /\ Component[f.from] = SelectedLabels(n)
      BY <2>2, <3>1 DEF Selecting
    <3>3. n \in NetworkSpec /\ n.direction # "Ingress"
      BY <2>1, <2>2, <3>2, SpecType DEF DirectionsOf
    <3>4. f.from \in Near(n)
      BY <2>3, <3>1, <3>2, <3>3
    <3>5. ASSUME n.target \in ExternTargets PROVE f.to \in n.cidr \/ ~OnPort(n, f)
      <4>1. DestCIDR(n) = n.cidr /\ n.cidr # NoCIDR
        BY <2>2, <3>2, <3>5 DEF DestCIDR, Resolvable
      <4>2. AllowAllExcept(n.cidr, n.port) \in p.egress
        BY <3>2, <4>1 DEF PolicyOf, Build
      <4>3. ~Permits(AllowAllExcept(n.cidr, n.port), f)
        BY <3>1, <4>2
      <4> QED
        BY <4>3 DEF Permits, AllowAllExcept, OnPort
    <3> QED
      BY <2>2, <3>2, <3>3, <3>4, <3>5 DEF MayStop
  <2> QED
    BY <2>4, <2>5 DEF Passes
<1> QED
  BY <1>1, Invariance, PTL
=============================================================================
