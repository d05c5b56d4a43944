-------------------------- MODULE InjectedContainers --------------------------
(***************************************************************************)
(* NetworkChaos and ResourceExhaustion: the ephemeral containers a run     *)
(* adds to the TaskManagers, the records it keeps of them, and what their  *)
(* scripts do to the pods.  Nobody stops a container: it ends by itself,   *)
(* and Cleanup only finds out, or assumes, that it has.                    *)
(*                                                                         *)
(* All containers of a pod share its network interface, which has one root *)
(* qdisc at most.  The tc script runs under "set -e".                      *)
(*                                                                         *)
(* Time passes in Ticks; what is due happens before the next one.  The     *)
(* start of a container takes up to StartDelay ticks, or never comes.      *)
(***************************************************************************)
EXTENDS Integers, Sequences, FiniteSets

CONSTANTS
  Runs,
  Pods,        \* the TaskManagers of the namespace
  ShortName,   \* [Runs -> names], a run's name cut to 20 characters
  Duration,    \* [Runs -> ticks]
  Specs,       \* the functions from runs to specs to be considered
  StartDelay,
  MaxFaults    \* how often an API call fails, the controller stops, a pod goes
               \* or a container does not start

\* target: the TaskManagers its target resolves to.
\* filtered: the script adds a filter for the address in the spec.
\* polled: a poll interval is stored, so that it survives a status patch.
ContainerSpec ==
  [scenario : {"NetworkChaos"}, filtered : BOOLEAN, target : SUBSET Pods, polled : BOOLEAN]
    \cup
  [scenario : {"ResourceExhaustion"}, filtered : {FALSE}, target : SUBSET Pods,
   polled : BOOLEAN]

ASSUME ConstantsAssumption ==
  /\ IsFiniteSet(Pods)
  /\ Duration \in [Runs -> Nat \ {0}]
  /\ \A s \in Specs : s \in [Runs -> ContainerSpec]
  /\ StartDelay \in Nat /\ MaxFaults \in Nat

VARIABLES
  spec,        \* the specs of the runs
  alive,       \* the pods that exist
  containers,  \* the ephemeral containers, a function of pod and name
  qdisc,       \* [Pods -> the container whose root qdisc is there, or NoQdisc]
  phase,       \* how far each run is
  todo,        \* the pods a run still has to add a container to
  records,     \* Status.EphemeralContainerInjections or its counterpart
  faults

vars == <<spec, alive, containers, qdisc, phase, todo, records, faults>>

\* The container's name: a prefix for the scenario, the cut name, an index.
ContainerName(r, index) == <<spec[r].scenario, ShortName[r], index>>

Keys == Pods \X ({"NetworkChaos", "ResourceExhaustion"}
                  \X {ShortName[r] : r \in Runs} \X (1 .. Cardinality(Pods)))

PodOf(k) == k[1]
NoQdisc == <<>>

-----------------------------------------------------------------------------
(* The containers. *)

With(k, state, left) ==
  [containers EXCEPT ![k].state = state, ![k].left = left]

UnchangedRuns == UNCHANGED <<spec, phase, todo, records>>

In(k, state) == k \in DOMAIN containers /\ containers[k].state = state

\* Mistake: without "set -e" the script goes on to sleep.
AfterAddError_Mutant(k) == With(k, "running", Duration[containers[k].run])

\* The script exits, without its cleanup.
AfterAddError(k) == With(k, "terminated", 0)

\* tc qdisc add: only one root qdisc fits.
StartTc(k) ==
  LET r == containers[k].run IN
  /\ In(k, "waiting") /\ spec[r].scenario = "NetworkChaos"
  /\ \/ /\ qdisc[PodOf(k)] = NoQdisc
        /\ qdisc' = [qdisc EXCEPT ![PodOf(k)] = k]
        /\ containers' = IF spec[r].filtered THEN With(k, "filtering", 0)
                                           ELSE With(k, "running", Duration[r])
     \/ /\ qdisc[PodOf(k)] # NoQdisc
        /\ containers' = AfterAddError(k)
        /\ UNCHANGED qdisc
  /\ UNCHANGED <<alive, faults>> /\ UnchangedRuns

\* tc filter add; when it fails the script ends there.
AddFilter(k) ==
  /\ In(k, "filtering")
  /\ containers' \in {With(k, "running", Duration[containers[k].run]),
                      With(k, "terminated", 0)}
  /\ UNCHANGED <<alive, qdisc, faults>> /\ UnchangedRuns

StartStress(k) ==
  LET r == containers[k].run IN
  /\ In(k, "waiting") /\ spec[r].scenario = "ResourceExhaustion"
  /\ containers' = With(k, "running", Duration[r])
  /\ UNCHANGED <<alive, qdisc, faults>> /\ UnchangedRuns

\* Its image cannot be had.
NeverStarts(k) ==
  /\ In(k, "waiting") /\ faults < MaxFaults
  /\ faults' = faults + 1
  /\ containers' = With(k, "stuck", 0)
  /\ UNCHANGED <<alive, qdisc>> /\ UnchangedRuns

\* Mistake: the script ends after its sleep.
AfterSleep_Mutant(pod) == qdisc

\* _cleanup deletes the root qdisc, whichever it is.
AfterSleep(pod) == [qdisc EXCEPT ![pod] = NoQdisc]

Finish(k) ==
  /\ In(k, "running") /\ containers[k].left = 0
  /\ containers' = With(k, "terminated", 0)
  /\ qdisc' = IF spec[containers[k].run].scenario = "NetworkChaos"
              THEN AfterSleep(PodOf(k)) ELSE qdisc
  /\ UNCHANGED <<alive, faults>> /\ UnchangedRuns

\* Mistake: the containers of the pod are thought to stay.
Surviving_Mutant(pod) == containers

Surviving(pod) == [k \in {j \in DOMAIN containers : PodOf(j) # pod} |-> containers[k]]

PodDies(pod) ==
  /\ pod \in alive /\ faults < MaxFaults
  /\ faults' = faults + 1
  /\ alive' = alive \ {pod}
  /\ containers' = Surviving(pod)
  /\ qdisc' = [qdisc EXCEPT ![pod] = NoQdisc]
  /\ UnchangedRuns

-----------------------------------------------------------------------------
(* The drivers. *)

Orders(pods) ==
  {order \in [1 .. Cardinality(pods) -> pods] :
     \A i, j \in DOMAIN order : i # j => order[i] # order[j]}

\* The pods come in any order: the cache does not sort them.
Inject(r) ==
  /\ phase[r] = "pending" /\ spec[r].target \cap alive # {}
  /\ phase' = [phase EXCEPT ![r] = "injecting"]
  /\ todo' \in {[todo EXCEPT ![r] = order] : order \in Orders(spec[r].target \cap alive)}
  /\ UNCHANGED <<spec, alive, containers, qdisc, records, faults>>

\* The target cannot be resolved any more.
NoTarget(r) ==
  /\ phase[r] = "pending" /\ spec[r].target \cap alive = {}
  /\ phase' = [phase EXCEPT ![r] = "failed"]
  /\ UNCHANGED <<spec, alive, containers, qdisc, todo, records, faults>>

\* The key of the next container; a record is kept of each that was added.
Next1(r) == <<Head(todo[r]), ContainerName(r, Len(records[r]) + 1)>>

Accepted(k) == PodOf(k) \in alive /\ k \notin DOMAIN containers

Created(r, k) ==
  [j \in DOMAIN containers \cup {k} |->
     IF j = k THEN [run |-> r, state |-> "waiting", left |-> StartDelay]
              ELSE containers[j]]

NewRecord(k) == [key |-> k, age |-> 0, cleanedUp |-> FALSE]

AddContainer(r) ==
  /\ phase[r] = "injecting" /\ todo[r] # <<>>
  /\ Accepted(Next1(r))
  /\ containers' = Created(r, Next1(r))
  /\ records' = [records EXCEPT ![r] = Append(@, NewRecord(Next1(r)))]
  /\ todo' = [todo EXCEPT ![r] = Tail(@)]
  /\ UNCHANGED <<spec, alive, qdisc, phase, faults>>

\* Mistake: the record is made before the call.
PartialRecords_Mutant(r) == Append(records[r], NewRecord(Next1(r)))

\* The status is saved with the records made so far.
PartialRecords(r) == records[r]

\* The API server refuses the container, or does not answer: the run fails.
AddFails(r) ==
  /\ phase[r] = "injecting" /\ todo[r] # <<>>
  /\ \/ /\ ~Accepted(Next1(r))
        /\ UNCHANGED <<containers, faults>>
     \/ /\ faults < MaxFaults
        /\ faults' = faults + 1
        /\ containers' \in {containers} \cup {Created(r, k) : k \in {j \in {Next1(r)} : Accepted(j)}}
  /\ phase' = [phase EXCEPT ![r] = "failed"]
  /\ records' = [records EXCEPT ![r] = PartialRecords(r)]
  /\ todo' = [todo EXCEPT ![r] = <<>>]
  /\ UNCHANGED <<spec, alive, qdisc>>

Injected(r) ==
  /\ phase[r] = "injecting" /\ todo[r] = <<>>
  /\ phase' = [phase EXCEPT ![r] = "active"]
  /\ UNCHANGED <<spec, alive, containers, qdisc, todo, records, faults>>

\* The controller stops, or cannot save the status, before it has.
Interrupted(r) ==
  /\ phase[r] = "injecting" /\ faults < MaxFaults
  /\ faults' = faults + 1
  /\ phase' = [phase EXCEPT ![r] = "pending"]
  /\ records' = [records EXCEPT ![r] = <<>>]
  /\ todo' = [todo EXCEPT ![r] = <<>>]
  /\ UNCHANGED <<spec, alive, containers, qdisc>>

\* The observation is over, or the run is aborted; an injection that was
\* interrupted may be aborted as well.
StartCleanup(r) ==
  /\ phase[r] \in {"pending", "active"}
  /\ phase' = [phase EXCEPT ![r] = "cleaning"]
  /\ UNCHANGED <<spec, alive, containers, qdisc, todo, records, faults>>

\* Mistake: off by one tick.
Elapsed_Mutant(r, rec) == rec.age >= Duration[r] - 1

Elapsed(r, rec) == rec.age >= Duration[r]

\* Mistake: only what is known to be gone counts.
Gone_Mutant(r, rec, seen) == rec.key \in seen

\* The pod or the container is seen to be gone, or its time is over.
Gone(r, rec, seen) == rec.key \in seen \/ Elapsed(r, rec)

\* What the cache may show to be over: it lags behind.
Ended == {k \in Keys : PodOf(k) \notin alive \/ In(k, "terminated")}

Marked(r, upTo, seen) ==
  [i \in DOMAIN records[r] |->
     LET rec == records[r][i] IN
     [rec EXCEPT !.cleanedUp = @ \/ (i <= upTo /\ Gone(r, rec, seen))]]

\* Cleanup and isCleanupComplete.
Cleanup(r) ==
  /\ phase[r] = "cleaning"
  /\ \E seen \in SUBSET (Ended \cap {records[r][i].key : i \in DOMAIN records[r]}) :
       LET marked == Marked(r, Len(records[r]), seen) IN
       /\ records' = [records EXCEPT ![r] = marked]
       /\ phase' = [phase EXCEPT ![r] =
                      IF \A i \in DOMAIN marked : marked[i].cleanedUp THEN "clean" ELSE @]
  /\ UNCHANGED <<spec, alive, containers, qdisc, todo, faults>>

\* A pod cannot be read: what was marked before is kept.
CleanupFails(r) ==
  /\ phase[r] = "cleaning" /\ faults < MaxFaults
  /\ faults' = faults + 1
  /\ \E upTo \in 0 .. Len(records[r]) - 1 :
       records' = [records EXCEPT ![r] = Marked(r, upTo, Ended)]
  /\ UNCHANGED <<spec, alive, containers, qdisc, phase, todo>>

-----------------------------------------------------------------------------
(* Time. *)

Timed == {"waiting", "running"}

\* Its age matters until it is marked, and up to the duration.
Older(r, rec) ==
  [rec EXCEPT !.age = IF ~rec.cleanedUp /\ @ < Duration[r] THEN @ + 1 ELSE @]

Tick ==
  /\ \A k \in DOMAIN containers :
       /\ containers[k].state # "filtering"
       /\ containers[k].state \in Timed => containers[k].left > 0
  /\ containers' = [k \in DOMAIN containers |->
       [containers[k] EXCEPT !.left = IF containers[k].state \in Timed THEN @ - 1 ELSE @]]
  /\ records' = [r \in Runs |-> [i \in DOMAIN records[r] |-> Older(r, records[r][i])]]
  /\ UNCHANGED <<spec, alive, qdisc, phase, todo, faults>>

-----------------------------------------------------------------------------
Init ==
  /\ spec \in Specs
  /\ alive = Pods
  /\ containers = [k \in {} |-> <<>>]
  /\ qdisc = [p \in Pods |-> NoQdisc]
  /\ phase = [r \in Runs |-> "pending"]
  /\ todo = [r \in Runs |-> <<>>]
  /\ records = [r \in Runs |-> <<>>]
  /\ faults = 0

Script(k) == StartTc(k) \/ AddFilter(k) \/ StartStress(k) \/ Finish(k)

Drive(r) ==
  \/ Inject(r) \/ NoTarget(r) \/ AddContainer(r) \/ AddFails(r) \/ Injected(r) \/ Interrupted(r)
  \/ StartCleanup(r) \/ Cleanup(r) \/ CleanupFails(r)

Next ==
  \/ Tick
  \/ \E k \in Keys : Script(k) \/ NeverStarts(k)
  \/ \E p \in Pods : PodDies(p)
  \/ \E r \in Runs : Drive(r)

Spec == Init /\ [][Next]_vars

\* Time passes, and the kubelets go on with the scripts.  A run that is cleaning
\* up is requeued after the poll interval read back from the API server, which is
\* 0 and means never for one created by the plugin, the web UI or another Go
\* client (controller.go:783, :795): only the others are fair.
Fairness ==
  /\ WF_vars(Tick)
  /\ WF_vars(\E k \in Keys : Script(k))
  /\ \A r \in Runs : WF_vars(spec[r].polled /\ Cleanup(r))

FairSpec == Spec /\ Fairness

-----------------------------------------------------------------------------
(* Properties. *)

Impairs(k) == In(k, "running") \/ \E p \in Pods : qdisc[p] = k

ContainerState == {"waiting", "stuck", "filtering", "running", "terminated"}
Container == [run : Runs, state : ContainerState, left : Nat]
Record == [key : Keys, age : Nat, cleanedUp : BOOLEAN]

\* The state is well-formed: there are containers in existing pods only, and
\* each has its own time left.
TypeOK ==
  /\ spec \in Specs
  /\ alive \subseteq Pods
  /\ DOMAIN containers \subseteq {k \in Keys : PodOf(k) \in alive}
  /\ containers \in [DOMAIN containers -> Container]
  /\ qdisc \in [Pods -> Keys \cup {NoQdisc}]
  /\ phase \in [Runs -> {"pending", "injecting", "active", "failed", "cleaning", "clean"}]
  /\ todo \in [Runs -> Seq(Pods)]
  /\ records \in [Runs -> Seq(Record)]
  /\ \A r \in Runs : \A i \in DOMAIN records[r] : records[r][i].age <= Duration[r]
  /\ faults \in 0 .. MaxFaults

\* A script that sleeps, and so will delete the root qdisc it finds, finds its
\* own: scripts of several runs, or of one that was interrupted, on one pod
\* never take each other's impairment away (tc/builder.go:147-172).
SleepsOnOwnQdisc ==
  \A k \in DOMAIN containers :
    /\ containers[k].state = "running" /\ spec[containers[k].run].scenario = "NetworkChaos"
    => qdisc[PodOf(k)] = k

\* A qdisc outlives the script that added it only if that script failed at its
\* filter (tc/builder.go:160-166).
LeftOnlyByFilter ==
  \A p \in Pods : qdisc[p] # NoQdisc =>
    /\ qdisc[p] \in DOMAIN containers
    /\ In(qdisc[p], "terminated") => spec[containers[qdisc[p]].run].filtered

\* A record that is marked clean belongs to a container that impairs nothing
\* any more, or for as long as it took to start; but for what a filter left
\* (networkchaos/driver.go:186-196, "the container's sleep has expired").
OutlivesByStartDelay ==
  \A r \in {q \in Runs : ~spec[q].filtered} : \A i \in DOMAIN records[r] :
    LET rec == records[r][i] IN
    rec.cleanedUp /\ rec.key \in DOMAIN containers /\ Impairs(rec.key)
      => containers[rec.key].left <= StartDelay

\* A record names a container of its own run, whose status Cleanup will read:
\* never that of a run whose name begins alike, and never one that was refused
\* (ephemeral.go:30-52, networkchaos/driver.go:124-142).
RecordsNameOwnContainers ==
  \A r \in Runs : \A i \in DOMAIN records[r] :
    LET k == records[r][i].key IN
    /\ k \in DOMAIN containers => containers[k].run = r
    /\ k \notin DOMAIN containers => PodOf(k) \notin alive

\* Whatever becomes of the controller and of its runs, there is always a time
\* to come at which nothing is impaired: each impairment ends by itself; but
\* for what a filter left (tc/builder.go:168-171, stress/builder.go:56).
DisruptionEnds ==
  []<>(\A k \in Keys : Impairs(k) => spec[containers[k].run].filtered)

\* The cleanup of a run that is requeued comes to an end, also for containers that
\* never start and for pods that are gone (networkchaos/driver.go:160-199).
CleanupConverges ==
  \A r \in Runs : []<>(spec[r].polled => phase[r] # "cleaning")
=============================================================================
