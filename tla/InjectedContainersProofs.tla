----------------------- MODULE InjectedContainersProofs -----------------------
(***************************************************************************)
(* The ephemeral containers for any runs, names, pods and durations: a     *)
(* script deletes its own qdisc only, one that is left over is a filter's, *)
(* records name containers of their run, and what they call clean outlives *)
(* it by no more than the delay of a start.                                *)
(***************************************************************************)
EXTENDS InjectedContainers, FiniteSetTheorems, TLAPS

Impairing(k) == spec[containers[k].run].scenario = "NetworkChaos"

-----------------------------------------------------------------------------
(* The invariant. *)

\* A run that has not begun has no records, and one that is at it has no more
\* records and pods to do than there are pods.
RecordsFit(r) ==
  /\ phase[r] = "pending" => records[r] = <<>>
  /\ phase[r] = "injecting" => Len(records[r]) + Len(todo[r]) <= Cardinality(Pods)

\* A script that has added its qdisc finds it there.
ScriptHasQdisc(k) ==
  /\ containers[k].state = "filtering" => Impairing(k) /\ spec[containers[k].run].filtered
  /\ containers[k].state \in {"filtering", "running"} /\ Impairing(k)
     => qdisc[PodOf(k)] = k

\* A qdisc belongs to a container of the pod that has added it.
QdiscHasScript(p) ==
  qdisc[p] # NoQdisc =>
    /\ qdisc[p] \in DOMAIN containers /\ PodOf(qdisc[p]) = p /\ Impairing(qdisc[p])
    /\ \/ containers[qdisc[p]].state \in {"filtering", "running"}
       \/ /\ containers[qdisc[p]].state = "terminated"
          /\ spec[containers[qdisc[p]].run].filtered

\* A record is of a container of its run, or of one that went with its pod.
RecordOwn(r, i) ==
  LET k == records[r][i].key IN
  /\ k \in DOMAIN containers => containers[k].run = r
  /\ k \notin DOMAIN containers => PodOf(k) \notin alive

\* A record and its container have the same age, but for the start; after it is
\* marked, what is left is no more than the start took.
RecordTime(r, i) ==
  LET rec == records[r][i]
      c == containers[rec.key]
  IN  /\ rec.key \in DOMAIN containers /\ c.state = "waiting" =>
           IF rec.cleanedUp THEN Duration[r] <= StartDelay ELSE rec.age + c.left <= StartDelay
      /\ rec.key \in DOMAIN containers /\ c.state = "running" =>
           IF rec.cleanedUp THEN c.left <= StartDelay
                            ELSE rec.age + c.left <= Duration[r] + StartDelay

RecordKept(r, i) == RecordOwn(r, i) /\ (~spec[r].filtered => RecordTime(r, i))

ScriptsKeepTheirQdisc == \A k \in DOMAIN containers : ScriptHasQdisc(k)
QdiscsAreOwned == \A p \in Pods : QdiscHasScript(p)
RecordsAreKept == \A r \in Runs : \A i \in DOMAIN records[r] : RecordKept(r, i)

IInv ==
  /\ TypeOK
  /\ \A r \in Runs : RecordsFit(r)
  /\ ScriptsKeepTheirQdisc
  /\ QdiscsAreOwned
  /\ RecordsAreKept

-----------------------------------------------------------------------------
(* Lemmas. *)

\* What the constants are.
LEMMA Constants ==
  /\ IsFiniteSet(Pods) /\ Cardinality(Pods) \in Nat /\ StartDelay \in Nat
  /\ \A r \in Runs : Duration[r] \in Nat \ {0}
<1>1. IsFiniteSet(Pods) /\ StartDelay \in Nat /\ Duration \in [Runs -> Nat \ {0}]
  BY ConstantsAssumption
<1> QED
  BY <1>1, FS_CardinalityType

\* A spec that is considered has one of the two scenarios.
LEMMA SpecType ==
  ASSUME spec \in Specs, NEW r \in Runs
  PROVE  /\ spec[r].scenario \in {"NetworkChaos", "ResourceExhaustion"}
         /\ spec[r].filtered \in BOOLEAN /\ spec[r].target \subseteq Pods
<1>1. spec \in [Runs -> ContainerSpec]
  BY ConstantsAssumption
<1> QED
  BY <1>1 DEF ContainerSpec

\* A key is never taken for the absence of one, and is of a pod.
LEMMA KeyType ==
  ASSUME NEW k \in Keys
  PROVE  k # NoQdisc /\ PodOf(k) \in Pods
BY DEF Keys, NoQdisc, PodOf

\* The change of one container.
LEMMA WithIs ==
  ASSUME containers \in [DOMAIN containers -> Container], NEW k \in DOMAIN containers,
         NEW state \in ContainerState, NEW left \in Nat
  PROVE  /\ With(k, state, left) \in [DOMAIN containers -> Container]
         /\ With(k, state, left)[k] = [run |-> containers[k].run, state |-> state, left |-> left]
         /\ \A j \in DOMAIN containers \ {k} : With(k, state, left)[j] = containers[j]
<1>1. containers[k] \in Container
  OBVIOUS
<1>2. ASSUME NEW c \in Container
      PROVE  [[c EXCEPT !.state = state] EXCEPT !.left = left]
               = [run |-> c.run, state |-> state, left |-> left]
  <2> DEFINE d == [c EXCEPT !.state = state]
  <2>1. d \in Container /\ d.run = c.run /\ d.state = state
    BY DEF Container
  <2> HIDE DEF d
  <2>2. [d EXCEPT !.left = left] = [run |-> d.run, state |-> d.state, left |-> left]
    BY <2>1 DEF Container
  <2> QED
    BY <2>1, <2>2 DEF d
<1>3. [run |-> containers[k].run, state |-> state, left |-> left] \in Container
  BY <1>1 DEF Container
<1>4. With(k, state, left) =
        [j \in DOMAIN containers |->
           IF j = k THEN [run |-> containers[k].run, state |-> state, left |-> left]
                    ELSE containers[j]]
  BY <1>1, <1>2 DEF With
<1> QED
  BY <1>3, <1>4

\* An order of pods is a sequence as long as they are many.
LEMMA OrderType ==
  ASSUME NEW pods \in SUBSET Pods, NEW order \in Orders(pods)
  PROVE  order \in Seq(Pods) /\ Len(order) \in Nat /\ Len(order) <= Cardinality(Pods)
<1>1. Cardinality(pods) \in Nat /\ Cardinality(pods) <= Cardinality(Pods)
  BY Constants, FS_Subset, FS_CardinalityType
<1>2. order \in [1 .. Cardinality(pods) -> pods]
  BY DEF Orders
<1>3. order \in Seq(Pods) /\ Len(order) = Cardinality(pods)
  BY <1>1, <1>2
<1> QED
  BY <1>1, <1>3

\* The next container has a key of its own pod.
LEMMA NextKey ==
  ASSUME IInv, NEW r \in Runs, phase[r] = "injecting", todo[r] # <<>>
  PROVE  /\ Next1(r) \in Keys /\ PodOf(Next1(r)) \in Pods
         /\ Tail(todo[r]) \in Seq(Pods) /\ Len(Tail(todo[r])) = Len(todo[r]) - 1
         /\ Len(todo[r]) \in Nat \ {0} /\ Len(records[r]) \in Nat
<1>1. todo[r] \in Seq(Pods) /\ records[r] \in Seq(Record)
  BY DEF IInv, TypeOK
<1>2. Head(todo[r]) \in Pods /\ Tail(todo[r]) \in Seq(Pods)
      /\ Len(Tail(todo[r])) = Len(todo[r]) - 1 /\ Len(todo[r]) \in Nat \ {0}
      /\ Len(records[r]) \in Nat
  BY <1>1
<1>3. Len(records[r]) + Len(todo[r]) <= Cardinality(Pods)
  BY DEF IInv, RecordsFit
<1>4. Len(records[r]) + 1 \in 1 .. Cardinality(Pods)
  <2>1. \A n, m, max \in Nat : m # 0 /\ n + m <= max => n + 1 \in 1 .. max
    OBVIOUS
  <2>2. Cardinality(Pods) \in Nat
    BY Constants
  <2> QED
    BY <1>2, <1>3, <2>1, <2>2
<1>5. spec[r].scenario \in {"NetworkChaos", "ResourceExhaustion"}
  BY SpecType DEF IInv, TypeOK
<1>6. ContainerName(r, Len(records[r]) + 1)
        \in {"NetworkChaos", "ResourceExhaustion"}
              \X {ShortName[q] : q \in Runs} \X (1 .. Cardinality(Pods))
  BY <1>4, <1>5 DEF ContainerName
<1>7. Next1(r) \in Keys
  BY <1>2, <1>6 DEF Next1, Keys
<1> QED
  BY <1>2, <1>7, KeyType

-----------------------------------------------------------------------------
(* The containers. *)

\* What happens to one container keeps the state well-formed, and the records
\* true.
LEMMA ContainerStep ==
  ASSUME IInv, NEW k \in DOMAIN containers, NEW s \in ContainerState, NEW l \in Nat,
         containers' = With(k, s, l), UNCHANGED <<spec, alive, phase, todo, records>>,
         qdisc' \in [Pods -> Keys \cup {NoQdisc}], faults' \in 0 .. MaxFaults,
         s # "waiting",
         s = "running" => /\ l = Duration[containers[k].run]
                          /\ containers[k].state \in {"waiting", "filtering"}
  PROVE  TypeOK' /\ (\A r \in Runs : RecordsFit(r)') /\ RecordsAreKept'
<1>1. /\ containers' \in [DOMAIN containers -> Container]
      /\ containers'[k] = [run |-> containers[k].run, state |-> s, left |-> l]
      /\ \A j \in DOMAIN containers \ {k} : containers'[j] = containers[j]
  BY WithIs DEF IInv, TypeOK
<1>2. DOMAIN containers' = DOMAIN containers
  BY <1>1
<1>3. TypeOK'
  BY <1>1, <1>2 DEF IInv, TypeOK
<1>4. \A r \in Runs : RecordsFit(r)'
  BY DEF IInv, RecordsFit
<1>5. ASSUME NEW r \in Runs, NEW i \in DOMAIN records'[r] PROVE RecordKept(r, i)'
  <2> DEFINE key == records[r][i].key
  <2>1. RecordKept(r, i) /\ records[r][i] \in Record
    BY DEF IInv, RecordsAreKept, TypeOK
  <2>2. RecordOwn(r, i)'
    BY <1>1, <1>2, <2>1 DEF RecordKept, RecordOwn
  <2>3. ASSUME ~spec[r].filtered PROVE RecordTime(r, i)'
    <3>1. RecordTime(r, i) /\ RecordOwn(r, i)
      BY <2>1, <2>3 DEF RecordKept
    <3>2. CASE key # k
      BY <1>1, <1>2, <3>1, <3>2 DEF RecordTime
    <3>3. CASE key = k /\ s = "running"
      <4>1. containers[k].run = r
        BY <3>1, <3>3 DEF RecordOwn
      <4>2. containers[k].state = "waiting"
        BY <2>3, <3>3, <4>1 DEF IInv, ScriptsKeepTheirQdisc, ScriptHasQdisc
      <4>3. containers[k].left \in Nat /\ records[r][i].age \in Nat
        BY <2>1 DEF IInv, TypeOK, Container, Record
      <4>4. IF records[r][i].cleanedUp THEN Duration[r] <= StartDelay
                                       ELSE records[r][i].age + containers[k].left <= StartDelay
        BY <3>1, <3>3, <4>2 DEF RecordTime
      <4>5. containers'[k].state = "running" /\ containers'[k].left = Duration[r]
        BY <1>1, <3>3, <4>1
      <4>6. Duration[r] \in Nat /\ StartDelay \in Nat
        BY Constants
      <4>7. IF records[r][i].cleanedUp
            THEN Duration[r] <= StartDelay
            ELSE records[r][i].age + Duration[r] <= Duration[r] + StartDelay
        BY <4>3, <4>4, <4>6
      <4> QED
        BY <1>2, <3>3, <4>5, <4>7 DEF RecordTime
    <3>4. CASE key = k /\ s # "running"
      BY <1>1, <3>4 DEF RecordTime
    <3> QED
      BY <3>2, <3>3, <3>4
  <2> QED
    BY <2>2, <2>3 DEF RecordKept
<1> QED
  BY <1>3, <1>4, <1>5 DEF RecordsAreKept

\* When its qdisc stays, a container that neither has one nor gets one disturbs
\* none.
LEMMA QdiscsStay ==
  ASSUME IInv, NEW k \in DOMAIN containers, NEW s \in ContainerState, NEW l \in Nat,
         containers' = With(k, s, l), UNCHANGED <<spec, qdisc>>,
         \/ containers[k].state = "waiting" /\ s # "filtering" /\ (s = "running" => ~Impairing(k))
         \/ containers[k].state = "running" /\ ~Impairing(k) /\ s = "terminated"
         \/ containers[k].state = "filtering" /\ s \in {"running", "terminated"}
  PROVE  ScriptsKeepTheirQdisc' /\ QdiscsAreOwned'
<1>1. /\ containers' \in [DOMAIN containers -> Container]
      /\ containers'[k] = [run |-> containers[k].run, state |-> s, left |-> l]
      /\ \A j \in DOMAIN containers \ {k} : containers'[j] = containers[j]
  BY WithIs DEF IInv, TypeOK
<1>2. DOMAIN containers' = DOMAIN containers
      /\ (\A j \in DOMAIN containers : Impairing(j)' <=> Impairing(j))
  BY <1>1 DEF Impairing
<1>3. ASSUME NEW j \in DOMAIN containers' PROVE ScriptHasQdisc(j)'
  BY <1>1, <1>2 DEF IInv, ScriptsKeepTheirQdisc, ScriptHasQdisc
<1>4. ASSUME NEW p \in Pods PROVE QdiscHasScript(p)'
  BY <1>1, <1>2 DEF IInv, QdiscsAreOwned, QdiscHasScript, ScriptsKeepTheirQdisc, ScriptHasQdisc
<1> QED
  BY <1>3, <1>4 DEF ScriptsKeepTheirQdisc, QdiscsAreOwned

\* A script starts: it adds the only qdisc, or ends.
LEMMA StartTcStep ==
  ASSUME IInv, NEW k \in Keys, StartTc(k)
  PROVE  IInv'
<1>1. k \in DOMAIN containers /\ containers[k] \in Container /\ containers[k].state = "waiting"
      /\ containers[k].run \in Runs /\ Impairing(k)
  BY DEF StartTc, In, IInv, TypeOK, Container, Impairing
<1>2. Duration[containers[k].run] \in Nat
  BY <1>1, Constants
<1>3. CASE qdisc[PodOf(k)] # NoQdisc
  <2>1. containers' = With(k, "terminated", 0) /\ UNCHANGED <<spec, qdisc, alive, faults, phase, todo, records>>
    BY <1>3 DEF StartTc, AfterAddError, UnchangedRuns
  <2>2. "terminated" \in ContainerState /\ 0 \in Nat
    BY DEF ContainerState
  <2>3. qdisc' \in [Pods -> Keys \cup {NoQdisc}] /\ faults' \in 0 .. MaxFaults
    BY <2>1 DEF IInv, TypeOK
  <2> QED
    BY <1>1, <2>1, <2>2, <2>3, ContainerStep, QdiscsStay DEF IInv
<1>4. CASE qdisc[PodOf(k)] = NoQdisc
  <2> DEFINE s == IF spec[containers[k].run].filtered THEN "filtering" ELSE "running"
             l == IF spec[containers[k].run].filtered THEN 0 ELSE Duration[containers[k].run]
  <2>1. /\ containers' = With(k, s, l)
        /\ qdisc' = [qdisc EXCEPT ![PodOf(k)] = k]
        /\ UNCHANGED <<spec, alive, faults, phase, todo, records>>
    BY <1>4 DEF StartTc, UnchangedRuns
  <2>2. s \in ContainerState /\ l \in Nat /\ s # "waiting" /\ s # "terminated"
        /\ (s = "running" => l = Duration[containers[k].run])
        /\ (s = "filtering" => spec[containers[k].run].filtered)
        /\ s \in {"filtering", "running"}
    BY <1>2 DEF ContainerState
  <2> HIDE DEF s, l
  <2>3. qdisc' \in [Pods -> Keys \cup {NoQdisc}] /\ faults' \in 0 .. MaxFaults
    BY <2>1 DEF IInv, TypeOK
  <2>4. TypeOK' /\ (\A r \in Runs : RecordsFit(r)') /\ RecordsAreKept'
    BY <1>1, <2>1, <2>2, <2>3, ContainerStep
  <2>5. /\ containers' \in [DOMAIN containers -> Container]
        /\ containers'[k] = [run |-> containers[k].run, state |-> s, left |-> l]
        /\ \A j \in DOMAIN containers \ {k} : containers'[j] = containers[j]
    BY <1>1, <2>1, <2>2, WithIs DEF IInv, TypeOK
  <2>6. DOMAIN containers' = DOMAIN containers
        /\ (\A j \in DOMAIN containers : Impairing(j)' <=> Impairing(j))
    BY <2>1, <2>5 DEF Impairing
  <2>7. PodOf(k) \in Pods /\ qdisc'[PodOf(k)] = k
        /\ (\A p \in Pods \ {PodOf(k)} : qdisc'[p] = qdisc[p])
    BY <2>1, KeyType DEF IInv, TypeOK
  <2>8. ASSUME NEW j \in DOMAIN containers' PROVE ScriptHasQdisc(j)'
    <3>1. CASE j = k
      BY <1>1, <2>1, <2>2, <2>5, <2>6, <2>7, <3>1 DEF ScriptHasQdisc
    <3>2. CASE j # k
      <4>1. ScriptHasQdisc(j) /\ j \in Keys
        BY <2>6 DEF IInv, TypeOK, ScriptsKeepTheirQdisc
      <4>2. j # NoQdisc /\ PodOf(j) \in Pods
        BY <4>1, KeyType
      <4> QED
        BY <1>4, <2>1, <2>5, <2>6, <2>7, <3>2, <4>1, <4>2 DEF ScriptHasQdisc
    <3> QED
      BY <3>1, <3>2
  <2>9. ASSUME NEW p \in Pods PROVE QdiscHasScript(p)'
    <3>1. CASE p = PodOf(k)
      BY <1>1, <2>1, <2>2, <2>5, <2>6, <2>7, <3>1 DEF QdiscHasScript
    <3>2. CASE p # PodOf(k)
      BY <2>1, <2>5, <2>6, <2>7, <3>2 DEF IInv, QdiscsAreOwned, QdiscHasScript
    <3> QED
      BY <3>1, <3>2
  <2> QED
    BY <2>4, <2>8, <2>9 DEF IInv, ScriptsKeepTheirQdisc, QdiscsAreOwned
<1> QED
  BY <1>3, <1>4

\* Steps of a container that leave the qdiscs alone.
LEMMA OtherScriptStep ==
  ASSUME IInv, NEW k \in Keys, AddFilter(k) \/ StartStress(k) \/ NeverStarts(k)
  PROVE  IInv'
<1>1. /\ k \in DOMAIN containers /\ containers[k] \in Container
      /\ containers[k].run \in Runs
      /\ UNCHANGED <<spec, qdisc, alive, phase, todo, records>>
  BY DEF AddFilter, StartStress, NeverStarts, In, IInv, TypeOK, Container, UnchangedRuns
<1>2. Duration[containers[k].run] \in Nat
  BY <1>1, Constants
<1>3. qdisc' \in [Pods -> Keys \cup {NoQdisc}] /\ faults' \in 0 .. MaxFaults
  <2>1. MaxFaults \in Nat
    BY ConstantsAssumption
  <2> QED
    BY <1>1, <2>1 DEF AddFilter, StartStress, NeverStarts, IInv, TypeOK
<1>4. {"running", "terminated", "stuck"} \subseteq ContainerState /\ 0 \in Nat
  BY DEF ContainerState
<1>5. CASE AddFilter(k)
  <2>1. containers[k].state = "filtering"
        /\ containers' \in {With(k, "running", Duration[containers[k].run]),
                            With(k, "terminated", 0)}
    BY <1>5 DEF AddFilter, In
  <2> QED
    BY <1>1, <1>2, <1>3, <1>4, <2>1, ContainerStep, QdiscsStay DEF IInv
<1>6. CASE StartStress(k)
  <2>1. /\ containers[k].state = "waiting" /\ ~Impairing(k)
        /\ containers' = With(k, "running", Duration[containers[k].run])
    BY <1>6 DEF StartStress, In, Impairing
  <2> QED
    BY <1>1, <1>2, <1>3, <1>4, <2>1, ContainerStep, QdiscsStay DEF IInv
<1>7. CASE NeverStarts(k)
  <2>1. containers[k].state = "waiting" /\ containers' = With(k, "stuck", 0)
    BY <1>7 DEF NeverStarts, In
  <2> QED
    BY <1>1, <1>3, <1>4, <2>1, ContainerStep, QdiscsStay DEF IInv
<1> QED
  BY <1>5, <1>6, <1>7

\* The end of a script: the qdisc it deletes is its own.
LEMMA FinishStep ==
  ASSUME IInv, NEW k \in Keys, Finish(k)
  PROVE  IInv'
<1>1. /\ k \in DOMAIN containers /\ containers[k] \in Container
      /\ containers[k].run \in Runs /\ containers[k].state = "running"
      /\ containers' = With(k, "terminated", 0)
      /\ UNCHANGED <<spec, alive, faults, phase, todo, records>>
  BY DEF Finish, In, IInv, TypeOK, Container, UnchangedRuns
<1>2. "terminated" \in ContainerState /\ 0 \in Nat
  BY DEF ContainerState
<1>3. faults' \in 0 .. MaxFaults
  BY <1>1 DEF IInv, TypeOK
<1>4. CASE ~Impairing(k)
  <2>1. qdisc' = qdisc
    BY <1>4 DEF Finish, Impairing
  <2>2. qdisc' \in [Pods -> Keys \cup {NoQdisc}]
    BY <2>1 DEF IInv, TypeOK
  <2> QED
    BY <1>1, <1>2, <1>3, <1>4, <2>1, <2>2, ContainerStep, QdiscsStay DEF IInv
<1>5. CASE Impairing(k)
  <2>1. qdisc' = [qdisc EXCEPT ![PodOf(k)] = NoQdisc]
    BY <1>5 DEF Finish, Impairing, AfterSleep
  <2>2. qdisc' \in [Pods -> Keys \cup {NoQdisc}]
    BY <2>1 DEF IInv, TypeOK
  <2>3. TypeOK' /\ (\A r \in Runs : RecordsFit(r)') /\ RecordsAreKept'
    BY <1>1, <1>2, <1>3, <2>2, ContainerStep
  <2>4. /\ containers' \in [DOMAIN containers -> Container]
        /\ containers'[k] = [run |-> containers[k].run, state |-> "terminated", left |-> 0]
        /\ \A j \in DOMAIN containers \ {k} : containers'[j] = containers[j]
    <3>1. containers \in [DOMAIN containers -> Container]
      BY DEF IInv, TypeOK
    <3> QED
      BY <1>1, <1>2, <3>1, WithIs
  <2>5. DOMAIN containers' = DOMAIN containers
        /\ (\A j \in DOMAIN containers : Impairing(j)' <=> Impairing(j))
    BY <1>1, <2>4 DEF Impairing
  <2>6. PodOf(k) \in Pods /\ qdisc'[PodOf(k)] = NoQdisc /\ qdisc[PodOf(k)] = k
        /\ (\A p \in Pods \ {PodOf(k)} : qdisc'[p] = qdisc[p])
    BY <1>1, <1>5, <2>1, KeyType DEF IInv, TypeOK, ScriptsKeepTheirQdisc, ScriptHasQdisc
  <2>7. ASSUME NEW j \in DOMAIN containers' PROVE ScriptHasQdisc(j)'
    <3>1. ScriptHasQdisc(j) /\ PodOf(j) \in Pods
      BY <2>5, KeyType DEF IInv, TypeOK, ScriptsKeepTheirQdisc
    <3> QED
      BY <1>1, <2>4, <2>5, <2>6, <3>1 DEF ScriptHasQdisc
  <2>8. ASSUME NEW p \in Pods PROVE QdiscHasScript(p)'
    <3>1. QdiscHasScript(p)
      BY DEF IInv, QdiscsAreOwned
    <3> QED
      BY <1>1, <2>4, <2>5, <2>6, <3>1 DEF QdiscHasScript
  <2> QED
    BY <2>3, <2>7, <2>8 DEF IInv, ScriptsKeepTheirQdisc, QdiscsAreOwned
<1> QED
  BY <1>4, <1>5

\* A pod takes its containers and its qdisc with it.
LEMMA PodDiesStep ==
  ASSUME IInv, NEW pod \in Pods, PodDies(pod)
  PROVE  IInv'
<1>1. /\ containers' = [k \in {j \in DOMAIN containers : PodOf(j) # pod} |-> containers[k]]
      /\ qdisc' = [qdisc EXCEPT ![pod] = NoQdisc]
      /\ alive' = alive \ {pod} /\ faults' = faults + 1 /\ faults < MaxFaults
      /\ UNCHANGED <<spec, phase, todo, records>>
  BY DEF PodDies, Surviving, UnchangedRuns
<1>2. DOMAIN containers' = {j \in DOMAIN containers : PodOf(j) # pod}
      /\ \A j \in DOMAIN containers' : containers'[j] = containers[j]
  BY <1>1
<1>3. \A j \in DOMAIN containers' : Impairing(j)' <=> Impairing(j)
  BY <1>1, <1>2 DEF Impairing
<1>4. TypeOK'
  <2>1. containers' \in [DOMAIN containers' -> Container]
    BY <1>1, <1>2 DEF IInv, TypeOK
  <2>2. DOMAIN containers' \subseteq {k \in Keys : PodOf(k) \in alive'}
    BY <1>1, <1>2 DEF IInv, TypeOK
  <2>3. faults' \in 0 .. MaxFaults
    BY <1>1, ConstantsAssumption DEF IInv, TypeOK
  <2> QED
    BY <1>1, <2>1, <2>2, <2>3 DEF IInv, TypeOK
<1>5. \A r \in Runs : RecordsFit(r)'
  BY <1>1 DEF IInv, RecordsFit
<1>6. ASSUME NEW j \in DOMAIN containers' PROVE ScriptHasQdisc(j)'
  <2>1. ScriptHasQdisc(j) /\ PodOf(j) \in Pods /\ PodOf(j) # pod
    BY <1>2, KeyType DEF IInv, TypeOK, ScriptsKeepTheirQdisc
  <2> QED
    BY <1>1, <1>2, <1>3, <2>1 DEF ScriptHasQdisc, IInv, TypeOK
<1>7. ASSUME NEW p \in Pods PROVE QdiscHasScript(p)'
  <2>1. QdiscHasScript(p)
    BY DEF IInv, QdiscsAreOwned
  <2> QED
    BY <1>1, <1>2, <1>3, <2>1 DEF QdiscHasScript, IInv, TypeOK
<1>8. ASSUME NEW r \in Runs, NEW i \in DOMAIN records'[r] PROVE RecordKept(r, i)'
  <2>1. RecordKept(r, i)
    BY <1>1 DEF IInv, RecordsAreKept
  <2> QED
    BY <1>1, <1>2, <2>1 DEF RecordKept, RecordOwn, RecordTime
<1> QED
  BY <1>4, <1>5, <1>6, <1>7, <1>8
  DEF IInv, ScriptsKeepTheirQdisc, QdiscsAreOwned, RecordsAreKept

-----------------------------------------------------------------------------
(* The drivers. *)

\* A new container is in nobody's way.
LEMMA ContainerAdded ==
  ASSUME IInv, NEW r \in Runs, NEW k \in Keys, Accepted(k),
         containers' = Created(r, k), UNCHANGED <<spec, qdisc, alive>>
  PROVE  /\ containers' \in [DOMAIN containers' -> Container]
         /\ DOMAIN containers' \subseteq {j \in Keys : PodOf(j) \in alive'}
         /\ k \in DOMAIN containers'
         /\ containers'[k] = [run |-> r, state |-> "waiting", left |-> StartDelay]
         /\ ScriptsKeepTheirQdisc' /\ QdiscsAreOwned'
         /\ \A q \in Runs : \A i \in DOMAIN records[q] :
              records'[q][i] = records[q][i] => RecordKept(q, i)'
<1>1. k \notin DOMAIN containers /\ PodOf(k) \in alive
  BY DEF Accepted
<1>2. [run |-> r, state |-> "waiting", left |-> StartDelay] \in Container
  BY Constants DEF Container, ContainerState
<1>3. /\ DOMAIN containers' = DOMAIN containers \cup {k}
      /\ containers'[k] = [run |-> r, state |-> "waiting", left |-> StartDelay]
      /\ \A j \in DOMAIN containers : containers'[j] = containers[j]
      /\ containers' = [j \in DOMAIN containers' |-> containers'[j]]
  BY <1>1 DEF Created
<1>4. containers' \in [DOMAIN containers' -> Container]
  <2>1. \A j \in DOMAIN containers' : containers'[j] \in Container
    BY <1>2, <1>3 DEF IInv, TypeOK
  <2> QED
    BY <1>3, <2>1
<1>5. DOMAIN containers' \subseteq {j \in Keys : PodOf(j) \in alive'}
  BY <1>1, <1>3 DEF IInv, TypeOK
<1>6. \A j \in DOMAIN containers : Impairing(j)' <=> Impairing(j)
  BY <1>3 DEF Impairing
<1>7. ASSUME NEW j \in DOMAIN containers' PROVE ScriptHasQdisc(j)'
  BY <1>3, <1>6 DEF ScriptHasQdisc, IInv, ScriptsKeepTheirQdisc
<1>8. ASSUME NEW p \in Pods PROVE QdiscHasScript(p)'
  BY <1>3, <1>6 DEF QdiscHasScript, IInv, QdiscsAreOwned
<1>9. ASSUME NEW q \in Runs, NEW i \in DOMAIN records[q], records'[q][i] = records[q][i]
      PROVE  RecordKept(q, i)'
  <2>1. RecordKept(q, i)
    BY DEF IInv, RecordsAreKept
  <2>2. records[q][i].key # k
    BY <1>1, <2>1 DEF RecordKept, RecordOwn
  <2> QED
    BY <1>3, <1>9, <2>1, <2>2 DEF RecordKept, RecordOwn, RecordTime
<1> QED
  BY <1>3, <1>4, <1>5, <1>7, <1>8, <1>9 DEF ScriptsKeepTheirQdisc, QdiscsAreOwned

\* Nothing happens to the containers, and records at most are dropped.
LEMMA RunsMove ==
  ASSUME IInv, UNCHANGED <<spec, alive, containers, qdisc>>,
         \A q \in Runs : records'[q] = records[q] \/ records'[q] = <<>>
  PROVE  ScriptsKeepTheirQdisc' /\ QdiscsAreOwned' /\ RecordsAreKept'
<1>1. ScriptsKeepTheirQdisc' /\ QdiscsAreOwned'
  BY DEF IInv, ScriptsKeepTheirQdisc, QdiscsAreOwned, ScriptHasQdisc, QdiscHasScript, Impairing
<1>2. ASSUME NEW q \in Runs, NEW i \in DOMAIN records'[q] PROVE RecordKept(q, i)'
  <2>1. records'[q] = records[q]
    BY <1>2
  <2>2. RecordKept(q, i)
    BY <2>1 DEF IInv, RecordsAreKept
  <2> QED
    BY <2>1, <2>2 DEF RecordKept, RecordOwn, RecordTime
<1> QED
  BY <1>1, <1>2 DEF RecordsAreKept

\* A run takes up its pods.
LEMMA InjectStep ==
  ASSUME IInv, NEW r \in Runs, Inject(r)
  PROVE  IInv'
<1>1. /\ phase[r] = "pending" /\ phase' = [phase EXCEPT ![r] = "injecting"]
      /\ UNCHANGED <<spec, alive, containers, qdisc, records, faults>>
  BY DEF Inject
<1>2. PICK order \in Orders(spec[r].target \cap alive) : todo' = [todo EXCEPT ![r] = order]
  BY DEF Inject
<1>3. order \in Seq(Pods) /\ Len(order) \in Nat /\ Len(order) <= Cardinality(Pods)
  <2>1. spec[r].target \cap alive \in SUBSET Pods
    BY DEF IInv, TypeOK
  <2> QED
    BY <1>2, <2>1, OrderType
<1>4. TypeOK'
  <2>1. todo' \in [Runs -> Seq(Pods)]
    BY <1>2, <1>3 DEF IInv, TypeOK
  <2> QED
    BY <1>1, <2>1 DEF IInv, TypeOK
<1>5. ASSUME NEW q \in Runs PROVE RecordsFit(q)'
  <2>1. CASE q = r
    <3>1. records[r] = <<>>
      BY <1>1 DEF IInv, RecordsFit
    <3>2. phase'[r] = "injecting" /\ todo'[r] = order /\ records'[r] = records[r]
      BY <1>1, <1>2 DEF IInv, TypeOK
    <3>3. Len(records[r]) + Len(order) <= Cardinality(Pods)
      BY <1>3, <3>1
    <3> QED
      BY <2>1, <3>2, <3>3 DEF RecordsFit
  <2>2. CASE q # r
    BY <1>1, <1>2, <2>2 DEF IInv, TypeOK, RecordsFit
  <2> QED
    BY <2>1, <2>2
<1> QED
  BY <1>1, <1>4, <1>5, RunsMove DEF IInv

\* The phase changes, and what was begun is dropped or done.
LEMMA PhaseStep ==
  ASSUME IInv, NEW r \in Runs,
         NoTarget(r) \/ Injected(r) \/ Interrupted(r) \/ StartCleanup(r)
  PROVE  IInv'
<1>1. MaxFaults \in Nat
  BY ConstantsAssumption
<1>2. TypeOK'
  <2>1. CASE NoTarget(r)
    BY <2>1 DEF NoTarget, IInv, TypeOK
  <2>2. CASE Injected(r)
    BY <2>2 DEF Injected, IInv, TypeOK
  <2>3. CASE Interrupted(r)
    <3>1. records' \in [Runs -> Seq(Record)] /\ todo' \in [Runs -> Seq(Pods)]
          /\ phase' \in [Runs -> {"pending", "injecting", "active", "failed", "cleaning", "clean"}]
      BY <2>3 DEF Interrupted, IInv, TypeOK
    <3>2. \A q \in Runs : \A i \in DOMAIN records'[q] : records'[q][i].age <= Duration[q]
      BY <2>3 DEF Interrupted, IInv, TypeOK
    <3>3. faults' \in 0 .. MaxFaults
      BY <1>1, <2>3 DEF Interrupted, IInv, TypeOK
    <3> QED
      BY <2>3, <3>1, <3>2, <3>3 DEF Interrupted, IInv, TypeOK
  <2>4. CASE StartCleanup(r)
    BY <2>4 DEF StartCleanup, IInv, TypeOK
  <2> QED
    BY <2>1, <2>2, <2>3, <2>4
<1>3. ASSUME NEW q \in Runs PROVE RecordsFit(q)'
  BY DEF NoTarget, Injected, Interrupted, StartCleanup, IInv, TypeOK, RecordsFit
<1>4. UNCHANGED <<spec, alive, containers, qdisc>>
      /\ \A q \in Runs : records'[q] = records[q] \/ records'[q] = <<>>
  BY DEF NoTarget, Injected, Interrupted, StartCleanup, IInv, TypeOK
<1> QED
  BY <1>2, <1>3, <1>4, RunsMove DEF IInv

\* A container is added and recorded.
LEMMA AddStep ==
  ASSUME IInv, NEW r \in Runs, AddContainer(r)
  PROVE  IInv'
<1> DEFINE k == Next1(r)
<1>1. /\ phase[r] = "injecting" /\ todo[r] # <<>> /\ Accepted(k)
      /\ containers' = Created(r, k)
      /\ records' = [records EXCEPT ![r] = Append(records[r], NewRecord(k))]
      /\ todo' = [todo EXCEPT ![r] = Tail(todo[r])]
      /\ UNCHANGED <<spec, alive, qdisc, phase, faults>>
  BY DEF AddContainer
<1>2. /\ k \in Keys /\ Tail(todo[r]) \in Seq(Pods) /\ Len(Tail(todo[r])) = Len(todo[r]) - 1
      /\ Len(todo[r]) \in Nat \ {0} /\ Len(records[r]) \in Nat
  BY <1>1, NextKey
<1> HIDE DEF k
<1>3. NewRecord(k) \in Record /\ NewRecord(k).age = 0 /\ NewRecord(k).key = k
      /\ NewRecord(k).cleanedUp = FALSE
  BY <1>2 DEF NewRecord, Record
<1>4. /\ containers' \in [DOMAIN containers' -> Container]
      /\ DOMAIN containers' \subseteq {j \in Keys : PodOf(j) \in alive'}
      /\ k \in DOMAIN containers'
      /\ containers'[k] = [run |-> r, state |-> "waiting", left |-> StartDelay]
      /\ ScriptsKeepTheirQdisc' /\ QdiscsAreOwned'
      /\ \A q \in Runs : \A i \in DOMAIN records[q] :
           records'[q][i] = records[q][i] => RecordKept(q, i)'
  BY <1>1, <1>2, ContainerAdded
<1>5. /\ records[r] \in Seq(Record)
      /\ records'[r] = Append(records[r], NewRecord(k))
      /\ \A q \in Runs \ {r} : records'[q] = records[q] /\ todo'[q] = todo[q]
      /\ todo'[r] = Tail(todo[r])
  BY <1>1 DEF IInv, TypeOK
<1>6. /\ records'[r] \in Seq(Record)
      /\ Len(records'[r]) = Len(records[r]) + 1
      /\ DOMAIN records'[r] = DOMAIN records[r] \cup {Len(records[r]) + 1}
      /\ records'[r][Len(records[r]) + 1] = NewRecord(k)
      /\ \A i \in DOMAIN records[r] : records'[r][i] = records[r][i]
  BY <1>2, <1>3, <1>5
<1>7. TypeOK'
  <2>1. records' \in [Runs -> Seq(Record)] /\ todo' \in [Runs -> Seq(Pods)]
    BY <1>1, <1>2, <1>5, <1>6 DEF IInv, TypeOK
  <2>2. ASSUME NEW q \in Runs, NEW i \in DOMAIN records'[q]
        PROVE  records'[q][i].age <= Duration[q]
    <3>1. Duration[q] \in Nat
      BY Constants
    <3>2. CASE q # r \/ i \in DOMAIN records[r]
      <4>1. i \in DOMAIN records[q] /\ records'[q][i] = records[q][i]
        BY <1>5, <1>6, <3>2
      <4> QED
        BY <4>1 DEF IInv, TypeOK
    <3>3. CASE q = r /\ i = Len(records[r]) + 1
      <4>1. records'[q][i].age = 0
        BY <1>3, <1>6, <3>3
      <4> QED
        BY <3>1, <4>1
    <3> QED
      BY <1>6, <3>2, <3>3
  <2> QED
    BY <1>1, <1>4, <2>1, <2>2 DEF IInv, TypeOK
<1>8. ASSUME NEW q \in Runs PROVE RecordsFit(q)'
  <2>1. CASE q = r
    <3>1. Len(records[r]) + Len(todo[r]) <= Cardinality(Pods)
      BY <1>1 DEF IInv, RecordsFit
    <3>2. Len(records'[r]) + Len(todo'[r]) = Len(records[r]) + Len(todo[r])
      <4>1. \A n, m \in Nat : (n + 1) + (m - 1) = n + m
        OBVIOUS
      <4>2. Len(records'[r]) = Len(records[r]) + 1 /\ Len(todo'[r]) = Len(todo[r]) - 1
        BY <1>2, <1>5, <1>6
      <4> QED
        BY <1>2, <4>1, <4>2
    <3> QED
      BY <1>1, <2>1, <3>1, <3>2 DEF RecordsFit
  <2>2. CASE q # r
    BY <1>1, <1>5, <2>2 DEF IInv, RecordsFit
  <2> QED
    BY <2>1, <2>2
<1>9. ASSUME NEW q \in Runs, NEW i \in DOMAIN records'[q] PROVE RecordKept(q, i)'
  <2>1. CASE q # r \/ i \in DOMAIN records[r]
    BY <1>4, <1>5, <1>6, <2>1
  <2>2. CASE q = r /\ i = Len(records[r]) + 1
    <3>1. records'[q][i] = NewRecord(k)
      BY <1>6, <2>2
    <3>2. RecordOwn(q, i)'
      BY <1>3, <1>4, <2>2, <3>1 DEF RecordOwn
    <3>3. RecordTime(q, i)'
      BY <1>3, <1>4, <3>1, Constants DEF RecordTime
    <3> QED
      BY <3>2, <3>3 DEF RecordKept
  <2> QED
    BY <1>6, <2>1, <2>2
<1> QED
  BY <1>4, <1>7, <1>8, <1>9 DEF IInv, RecordsAreKept

\* A container is refused, or added without the run being told.
LEMMA AddFailsStep ==
  ASSUME IInv, NEW r \in Runs, AddFails(r)
  PROVE  IInv'
<1>1. /\ phase[r] = "injecting" /\ todo[r] # <<>>
      /\ phase' = [phase EXCEPT ![r] = "failed"]
      /\ records' = [records EXCEPT ![r] = records[r]]
      /\ todo' = [todo EXCEPT ![r] = <<>>]
      /\ UNCHANGED <<spec, alive, qdisc>>
  BY DEF AddFails, PartialRecords
<1>2. records' = records
  BY <1>1 DEF IInv, TypeOK
<1>3. faults' \in 0 .. MaxFaults
  BY ConstantsAssumption DEF AddFails, IInv, TypeOK
<1>4. \/ containers' = containers
      \/ Accepted(Next1(r)) /\ containers' = Created(r, Next1(r))
  BY DEF AddFails
<1>5. phase' \in [Runs -> {"pending", "injecting", "active", "failed", "cleaning", "clean"}]
      /\ todo' \in [Runs -> Seq(Pods)]
  BY <1>1 DEF IInv, TypeOK
<1>6. \A q \in Runs : RecordsFit(q)'
  BY <1>1, <1>2 DEF IInv, TypeOK, RecordsFit
<1>7. CASE containers' = containers
  <2>1. TypeOK'
    BY <1>1, <1>2, <1>3, <1>5, <1>7 DEF IInv, TypeOK
  <2> QED
    BY <1>1, <1>2, <1>6, <1>7, <2>1, RunsMove DEF IInv
<1>8. CASE Accepted(Next1(r)) /\ containers' = Created(r, Next1(r))
  <2>1. Next1(r) \in Keys
    BY <1>1, NextKey
  <2>2. /\ containers' \in [DOMAIN containers' -> Container]
        /\ DOMAIN containers' \subseteq {j \in Keys : PodOf(j) \in alive'}
        /\ ScriptsKeepTheirQdisc' /\ QdiscsAreOwned'
        /\ \A q \in Runs : \A i \in DOMAIN records[q] :
             records'[q][i] = records[q][i] => RecordKept(q, i)'
    BY <1>1, <1>8, <2>1, ContainerAdded
  <2>3. TypeOK'
    BY <1>1, <1>2, <1>3, <1>5, <2>2 DEF IInv, TypeOK
  <2> QED
    BY <1>2, <1>6, <2>2, <2>3 DEF IInv, RecordsAreKept
<1> QED
  BY <1>4, <1>7, <1>8

\* What a cleanup makes of a record: the key and the age stay.
LEMMA MarkedIs ==
  ASSUME IInv, NEW r \in Runs, NEW upTo \in Nat, NEW seen
  PROVE  /\ Marked(r, upTo, seen) \in Seq(Record)
         /\ DOMAIN Marked(r, upTo, seen) = DOMAIN records[r]
         /\ \A i \in DOMAIN records[r] :
              LET rec == records[r][i]
                  new == Marked(r, upTo, seen)[i]
              IN  /\ new.key = rec.key /\ new.age = rec.age
                  /\ new.cleanedUp => rec.cleanedUp \/ Gone(r, rec, seen)
                  /\ rec.cleanedUp => new.cleanedUp
<1>1. records[r] \in Seq(Record) /\ Len(records[r]) \in Nat
      /\ DOMAIN records[r] = 1 .. Len(records[r])
  BY DEF IInv, TypeOK
<1>2. ASSUME NEW i \in DOMAIN records[r]
      PROVE  LET rec == records[r][i]
                 new == Marked(r, upTo, seen)[i]
             IN  /\ new \in Record
                 /\ new.key = rec.key /\ new.age = rec.age
                 /\ new.cleanedUp => rec.cleanedUp \/ Gone(r, rec, seen)
                 /\ rec.cleanedUp => new.cleanedUp
  <2> DEFINE rec == records[r][i]
             mark == rec.cleanedUp \/ (i <= upTo /\ Gone(r, rec, seen))
  <2>1. rec \in Record
    BY <1>1
  <2>2. Marked(r, upTo, seen)[i] = [rec EXCEPT !.cleanedUp = mark]
    BY DEF Marked
  <2>3. mark \in BOOLEAN /\ (mark => rec.cleanedUp \/ Gone(r, rec, seen)) /\ (rec.cleanedUp => mark)
    BY <2>1 DEF Record
  <2> HIDE DEF mark, rec
  <2>4. [rec EXCEPT !.cleanedUp = mark] = [key |-> rec.key, age |-> rec.age, cleanedUp |-> mark]
    BY <2>1 DEF Record
  <2>5. [key |-> rec.key, age |-> rec.age, cleanedUp |-> mark] \in Record
    BY <2>1, <2>3 DEF Record
  <2> QED
    BY <2>2, <2>3, <2>4, <2>5 DEF rec
<1>3. Marked(r, upTo, seen) = [i \in 1 .. Len(records[r]) |-> Marked(r, upTo, seen)[i]]
  BY <1>1 DEF Marked
<1>4. Marked(r, upTo, seen) \in Seq(Record) /\ DOMAIN Marked(r, upTo, seen) = 1 .. Len(records[r])
  <2>1. \A i \in 1 .. Len(records[r]) : Marked(r, upTo, seen)[i] \in Record
    BY <1>1, <1>2
  <2>2. Marked(r, upTo, seen) \in [1 .. Len(records[r]) -> Record]
    BY <1>3, <2>1
  <2> QED
    BY <1>1, <2>2
<1> QED
  BY <1>1, <1>2, <1>4

\* A cleanup marks what has ended, or what has had its time.
LEMMA MarkStep ==
  ASSUME IInv, NEW r \in Runs, Cleanup(r) \/ CleanupFails(r)
  PROVE  IInv'
<1>1. PICK upTo \in Nat, seen \in SUBSET Ended :
        records' = [records EXCEPT ![r] = Marked(r, upTo, seen)]
  <2>1. Len(records[r]) \in Nat
    BY DEF IInv, TypeOK
  <2>2. CASE Cleanup(r)
    BY <2>1, <2>2 DEF Cleanup
  <2>3. CASE CleanupFails(r)
    <3>1. PICK upTo \in 0 .. Len(records[r]) - 1 :
            records' = [records EXCEPT ![r] = Marked(r, upTo, Ended)]
      BY <2>3 DEF CleanupFails
    <3>2. upTo \in Nat
      BY <2>1, <3>1
    <3> QED
      BY <3>1, <3>2
  <2> QED
    BY <2>2, <2>3
<1>2. /\ UNCHANGED <<spec, alive, containers, qdisc, todo>>
      /\ phase[r] = "cleaning" /\ phase'[r] \in {"cleaning", "clean"}
      /\ \A q \in Runs \ {r} : phase'[q] = phase[q]
      /\ phase' \in [Runs -> {"pending", "injecting", "active", "failed", "cleaning", "clean"}]
  BY DEF Cleanup, CleanupFails, IInv, TypeOK
<1>3. faults' \in 0 .. MaxFaults
  BY ConstantsAssumption DEF Cleanup, CleanupFails, IInv, TypeOK
<1>4. /\ records'[r] = Marked(r, upTo, seen)
      /\ \A q \in Runs \ {r} : records'[q] = records[q]
      /\ records' \in [Runs -> Seq(Record)]
  BY <1>1, MarkedIs DEF IInv, TypeOK
<1>5. /\ DOMAIN records'[r] = DOMAIN records[r]
      /\ \A i \in DOMAIN records[r] :
           /\ records'[r][i].key = records[r][i].key /\ records'[r][i].age = records[r][i].age
           /\ records'[r][i].cleanedUp => records[r][i].cleanedUp \/ Gone(r, records[r][i], seen)
           /\ records[r][i].cleanedUp => records'[r][i].cleanedUp
  BY <1>4, MarkedIs
<1>6. TypeOK'
  <2>1. ASSUME NEW q \in Runs, NEW i \in DOMAIN records'[q]
        PROVE  records'[q][i].age <= Duration[q]
    BY <1>4, <1>5 DEF IInv, TypeOK
  <2> QED
    BY <1>2, <1>3, <1>4, <2>1 DEF IInv, TypeOK
<1>7. ASSUME NEW q \in Runs PROVE RecordsFit(q)'
  BY <1>2, <1>4 DEF IInv, RecordsFit
<1>8. ScriptsKeepTheirQdisc' /\ QdiscsAreOwned'
  BY <1>2 DEF IInv, ScriptsKeepTheirQdisc, QdiscsAreOwned, ScriptHasQdisc, QdiscHasScript,
              Impairing
<1>9. ASSUME NEW q \in Runs, NEW i \in DOMAIN records'[q] PROVE RecordKept(q, i)'
  <2>1. CASE q # r
    <3>1. RecordKept(q, i) /\ records'[q] = records[q]
      BY <1>4, <2>1 DEF IInv, RecordsAreKept
    <3> QED
      BY <1>2, <3>1 DEF RecordKept, RecordOwn, RecordTime
  <2>2. CASE q = r
    <3> DEFINE rec == records[r][i]
    <3>1. RecordKept(r, i) /\ i \in DOMAIN records[r] /\ rec \in Record
      BY <1>5, <2>2 DEF IInv, TypeOK, RecordsAreKept
    <3>2. RecordOwn(r, i)'
      BY <1>2, <1>5, <3>1 DEF RecordKept, RecordOwn
    <3>3. ASSUME ~spec[r].filtered PROVE RecordTime(r, i)'
      <4>1. RecordTime(r, i)
        BY <3>1, <3>3 DEF RecordKept
      <4>2. CASE records'[r][i].cleanedUp = rec.cleanedUp
        BY <1>2, <1>5, <3>1, <4>1, <4>2 DEF RecordTime
      <4>3. CASE records'[r][i].cleanedUp # rec.cleanedUp
        <5>1. records'[r][i].cleanedUp /\ ~rec.cleanedUp /\ Gone(r, rec, seen)
          <6>1. records'[r][i] \in Record
            BY <1>4, <2>2
          <6> QED
            BY <1>5, <3>1, <4>3, <6>1 DEF Record
        <5>2. CASE rec.key \in Ended
          <6>1. rec.key \in DOMAIN containers => containers[rec.key].state = "terminated"
            BY <5>2 DEF Ended, In, IInv, TypeOK
          <6> QED
            BY <1>2, <1>5, <3>1, <6>1 DEF RecordTime
        <5>3. CASE rec.age >= Duration[r]
          <6>1. rec.age \in Nat /\ Duration[r] \in Nat /\ StartDelay \in Nat
            BY <3>1, Constants DEF Record
          <6>2. rec.key \in DOMAIN containers => containers[rec.key].left \in Nat
            BY DEF IInv, TypeOK, Container
          <6>3. /\ rec.key \in DOMAIN containers /\ containers[rec.key].state = "waiting" =>
                     Duration[r] <= StartDelay
                /\ rec.key \in DOMAIN containers /\ containers[rec.key].state = "running" =>
                     containers[rec.key].left <= StartDelay
            BY <4>1, <5>1, <5>3, <6>1, <6>2 DEF RecordTime
          <6> QED
            BY <1>2, <1>5, <3>1, <5>1, <6>3 DEF RecordTime
        <5> QED
          BY <5>1, <5>2, <5>3 DEF Gone, Elapsed
      <4> QED
        BY <4>2, <4>3
    <3> QED
      BY <1>2, <2>2, <3>2, <3>3 DEF RecordKept
  <2> QED
    BY <2>1, <2>2
<1> QED
  BY <1>6, <1>7, <1>8, <1>9 DEF IInv, RecordsAreKept

-----------------------------------------------------------------------------
(* Time. *)

\* What a tick makes of a record.
LEMMA OlderIs ==
  ASSUME NEW r \in Runs, NEW rec \in Record, rec.age <= Duration[r]
  PROVE  /\ Older(r, rec) \in Record
         /\ Older(r, rec).key = rec.key /\ Older(r, rec).cleanedUp = rec.cleanedUp
         /\ Older(r, rec).age <= Duration[r] /\ Older(r, rec).age <= rec.age + 1
<1> DEFINE age == IF ~rec.cleanedUp /\ rec.age < Duration[r] THEN rec.age + 1 ELSE rec.age
<1>1. rec.age \in Nat /\ Duration[r] \in Nat
  BY Constants DEF Record
<1>2. age \in Nat /\ age <= Duration[r] /\ age <= rec.age + 1
  BY <1>1
<1>3. Older(r, rec) = [rec EXCEPT !.age = age]
  BY DEF Older
<1> HIDE DEF age
<1>4. [rec EXCEPT !.age = age] = [key |-> rec.key, age |-> age, cleanedUp |-> rec.cleanedUp]
  BY DEF Record
<1>5. [key |-> rec.key, age |-> age, cleanedUp |-> rec.cleanedUp] \in Record
  BY <1>2 DEF Record
<1> QED
  BY <1>2, <1>3, <1>4, <1>5

\* Time passes for all containers and records alike.
LEMMA TickStep == ASSUME IInv, Tick PROVE IInv'
<1>1. /\ UNCHANGED <<spec, alive, qdisc, phase, todo, faults>>
      /\ containers' = [k \in DOMAIN containers |->
           [containers[k] EXCEPT !.left =
              IF containers[k].state \in Timed THEN containers[k].left - 1 ELSE containers[k].left]]
      /\ records' = [r \in Runs |-> [i \in DOMAIN records[r] |-> Older(r, records[r][i])]]
      /\ \A k \in DOMAIN containers : containers[k].state \in Timed => containers[k].left > 0
  BY DEF Tick
<1>2. DOMAIN containers' = DOMAIN containers /\ containers' = [k \in DOMAIN containers |-> containers'[k]]
  BY <1>1
<1>3. ASSUME NEW k \in DOMAIN containers
      PROVE  /\ containers'[k] \in Container /\ containers'[k].run = containers[k].run
             /\ containers'[k].state = containers[k].state
             /\ containers[k].state \in Timed => containers'[k].left = containers[k].left - 1
  <2> DEFINE c == containers[k]
             left == IF c.state \in Timed THEN c.left - 1 ELSE c.left
  <2>1. c \in Container
    BY DEF IInv, TypeOK
  <2>2. c.left \in Nat /\ (c.state \in Timed => c.left > 0)
    BY <1>1, <2>1 DEF Container
  <2>3. left \in Nat /\ (c.state \in Timed => left = c.left - 1)
    BY <2>2
  <2>4. containers'[k] = [c EXCEPT !.left = left]
    BY <1>1
  <2> HIDE DEF c, left
  <2>5. [c EXCEPT !.left = left] = [run |-> c.run, state |-> c.state, left |-> left]
    BY <2>1 DEF Container
  <2>6. [run |-> c.run, state |-> c.state, left |-> left] \in Container
    BY <2>1, <2>3 DEF Container
  <2> QED
    BY <2>3, <2>4, <2>5, <2>6 DEF c
<1>4. ASSUME NEW r \in Runs
      PROVE  /\ records'[r] \in Seq(Record) /\ DOMAIN records'[r] = DOMAIN records[r]
             /\ Len(records'[r]) = Len(records[r])
             /\ \A i \in DOMAIN records[r] :
                  /\ records'[r][i].key = records[r][i].key
                  /\ records'[r][i].cleanedUp = records[r][i].cleanedUp
                  /\ records'[r][i].age <= Duration[r]
                  /\ records'[r][i].age <= records[r][i].age + 1
                  /\ records'[r][i].age \in Nat /\ records[r][i].age \in Nat
  <2>1. records[r] \in Seq(Record) /\ Len(records[r]) \in Nat
        /\ DOMAIN records[r] = 1 .. Len(records[r])
    BY DEF IInv, TypeOK
  <2>2. records'[r] = [i \in 1 .. Len(records[r]) |-> Older(r, records[r][i])]
    BY <1>1, <2>1
  <2>3. ASSUME NEW i \in 1 .. Len(records[r])
        PROVE  /\ records[r][i] \in Record /\ Older(r, records[r][i]) \in Record
               /\ Older(r, records[r][i]).key = records[r][i].key
               /\ Older(r, records[r][i]).cleanedUp = records[r][i].cleanedUp
               /\ Older(r, records[r][i]).age <= Duration[r]
               /\ Older(r, records[r][i]).age <= records[r][i].age + 1
    BY <2>1, OlderIs DEF IInv, TypeOK
  <2>4. records'[r] \in Seq(Record) /\ DOMAIN records'[r] = 1 .. Len(records[r])
        /\ Len(records'[r]) = Len(records[r])
    BY <2>1, <2>2, <2>3
  <2>5. \A rec \in Record : rec.age \in Nat
    BY DEF Record
  <2> QED
    BY <2>1, <2>2, <2>3, <2>4, <2>5
<1>5. TypeOK'
  <2>1. containers' \in [DOMAIN containers' -> Container]
    BY <1>2, <1>3
  <2>2. records' \in [Runs -> Seq(Record)]
    BY <1>1, <1>4
  <2>3. \A r \in Runs : \A i \in DOMAIN records'[r] : records'[r][i].age <= Duration[r]
    BY <1>4
  <2> QED
    BY <1>1, <1>2, <2>1, <2>2, <2>3 DEF IInv, TypeOK
<1>6. ASSUME NEW r \in Runs PROVE RecordsFit(r)'
  <2>1. phase[r] = "pending" => records'[r] = <<>>
    BY <1>4 DEF IInv, RecordsFit, TypeOK
  <2> QED
    BY <1>1, <1>4, <2>1 DEF IInv, RecordsFit
<1>7. \A k \in DOMAIN containers : Impairing(k)' <=> Impairing(k)
  BY <1>1, <1>3 DEF Impairing
<1>8. ASSUME NEW k \in DOMAIN containers' PROVE ScriptHasQdisc(k)'
  BY <1>1, <1>2, <1>3, <1>7 DEF IInv, ScriptsKeepTheirQdisc, ScriptHasQdisc
<1>9. ASSUME NEW p \in Pods PROVE QdiscHasScript(p)'
  BY <1>1, <1>2, <1>3, <1>7 DEF IInv, QdiscsAreOwned, QdiscHasScript
<1>10. ASSUME NEW r \in Runs, NEW i \in DOMAIN records'[r] PROVE RecordKept(r, i)'
  <2> DEFINE rec == records[r][i]
  <2>1. RecordKept(r, i) /\ i \in DOMAIN records[r]
    BY <1>4 DEF IInv, RecordsAreKept
  <2>2. RecordOwn(r, i)'
    <3>1. RecordOwn(r, i) /\ records'[r][i].key = rec.key
      BY <1>4, <2>1 DEF RecordKept
    <3> QED
      BY <1>1, <1>2, <1>3, <3>1 DEF RecordOwn
  <2>3. ASSUME ~spec[r].filtered PROVE RecordTime(r, i)'
    <3>1. RecordTime(r, i)
      BY <2>1, <2>3 DEF RecordKept
    <3>2. ASSUME rec.key \in DOMAIN containers, containers[rec.key].state \in Timed
          PROVE  /\ containers[rec.key].left \in Nat
                 /\ containers'[rec.key].left = containers[rec.key].left - 1
                 /\ records'[r][i].age + containers'[rec.key].left
                      <= rec.age + containers[rec.key].left
      <4>1. containers[rec.key].left \in Nat
        BY <3>2 DEF IInv, TypeOK, Container
      <4>2. containers'[rec.key].left = containers[rec.key].left - 1
        BY <1>3, <3>2
      <4>3. records'[r][i].age \in Nat /\ rec.age \in Nat /\ records'[r][i].age <= rec.age + 1
        BY <1>4, <2>1
      <4> QED
        BY <4>1, <4>2, <4>3
    <3>3. rec.key \in DOMAIN containers => containers'[rec.key].state = containers[rec.key].state
      BY <1>3
    <3>4. Duration[r] \in Nat /\ StartDelay \in Nat /\ rec.age \in Nat /\ records'[r][i].age \in Nat
          /\ records'[r][i].key = rec.key /\ records'[r][i].cleanedUp = rec.cleanedUp
      BY <1>4, <2>1, Constants
    <3>5. CASE rec.key \notin DOMAIN containers \/ containers[rec.key].state \notin Timed
      BY <1>2, <3>3, <3>4, <3>5 DEF RecordTime, Timed
    <3>6. CASE rec.key \in DOMAIN containers /\ containers[rec.key].state = "waiting"
      <4>1. IF rec.cleanedUp THEN Duration[r] <= StartDelay
                             ELSE records'[r][i].age + containers'[rec.key].left <= StartDelay
        BY <3>1, <3>2, <3>4, <3>6 DEF RecordTime, Timed
      <4> QED
        BY <1>2, <3>3, <3>4, <3>6, <4>1 DEF RecordTime
    <3>7. CASE rec.key \in DOMAIN containers /\ containers[rec.key].state = "running"
      <4>1. IF rec.cleanedUp THEN containers'[rec.key].left <= StartDelay
            ELSE records'[r][i].age + containers'[rec.key].left <= Duration[r] + StartDelay
        BY <3>1, <3>2, <3>4, <3>7 DEF RecordTime, Timed
      <4> QED
        BY <1>2, <3>3, <3>4, <3>7, <4>1 DEF RecordTime
    <3> QED
      BY <3>5, <3>6, <3>7 DEF Timed
  <2> QED
    BY <1>1, <2>2, <2>3 DEF RecordKept
<1> QED
  BY <1>5, <1>6, <1>8, <1>9, <1>10
  DEF IInv, ScriptsKeepTheirQdisc, QdiscsAreOwned, RecordsAreKept

-----------------------------------------------------------------------------
(* The theorems. *)

\* There are no containers at the start.
LEMMA InitHolds == Init => IInv
<1> SUFFICES ASSUME Init PROVE IInv
  OBVIOUS
<1>1. MaxFaults \in Nat
  BY ConstantsAssumption
<1>2. containers = [k \in {} |-> <<>>] /\ DOMAIN containers = {}
  BY DEF Init
<1>3. containers \in [DOMAIN containers -> Container]
  BY <1>2
<1>4. records \in [Runs -> Seq(Record)] /\ todo \in [Runs -> Seq(Pods)]
      /\ \A r \in Runs : records[r] = <<>>
  BY DEF Init
<1>5. TypeOK
  BY <1>1, <1>2, <1>3, <1>4 DEF Init, TypeOK
<1>6. \A r \in Runs : RecordsFit(r)
  BY DEF Init, RecordsFit
<1>7. ScriptsKeepTheirQdisc /\ QdiscsAreOwned
  BY <1>2 DEF Init, ScriptsKeepTheirQdisc, QdiscsAreOwned, QdiscHasScript
<1>8. RecordsAreKept
  BY <1>4 DEF RecordsAreKept
<1> QED
  BY <1>5, <1>6, <1>7, <1>8 DEF IInv

\* All of this is an invariant.
LEMMA Invariance == Spec => []IInv
<1>1. IInv /\ [Next]_vars => IInv'
  <2> SUFFICES ASSUME IInv, [Next]_vars PROVE IInv'
    OBVIOUS
  <2>1. CASE UNCHANGED vars
    <3>1. TypeOK' /\ \A r \in Runs : RecordsFit(r)'
      BY <2>1 DEF vars, IInv, TypeOK, RecordsFit
    <3> QED
      BY <2>1, <3>1, RunsMove DEF vars, IInv
  <2>2. CASE Tick
    BY <2>2, TickStep
  <2>3. ASSUME NEW k \in Keys, Script(k) \/ NeverStarts(k) PROVE IInv'
    BY <2>3, StartTcStep, OtherScriptStep, FinishStep DEF Script
  <2>4. ASSUME NEW p \in Pods, PodDies(p) PROVE IInv'
    BY <2>4, PodDiesStep
  <2>5. ASSUME NEW r \in Runs, Drive(r) PROVE IInv'
    BY <2>5, InjectStep, PhaseStep, AddStep, AddFailsStep, MarkStep DEF Drive
  <2> QED
    BY <2>1, <2>2, <2>3, <2>4, <2>5 DEF Next
<1> QED
  BY <1>1, InitHolds, PTL DEF Spec

\* The state is well-formed: no index exceeds the number of the pods, although
\* indices go on from the records there are (networkchaos/driver.go:120-142).
THEOREM TypeCorrect == Spec => []TypeOK
<1>1. IInv => TypeOK
  BY DEF IInv
<1> QED
  BY <1>1, Invariance, PTL

\* A script that will delete the root qdisc it finds finds its own
\* (tc/builder.go:147-172).
THEOREM ScriptsSleepOnTheirOwn == Spec => []SleepsOnOwnQdisc
<1>1. IInv => SleepsOnOwnQdisc
  BY DEF IInv, ScriptsKeepTheirQdisc, ScriptHasQdisc, Impairing, SleepsOnOwnQdisc
<1> QED
  BY <1>1, Invariance, PTL

\* A qdisc outlives its script only through a filter that failed
\* (tc/builder.go:160-166).
THEOREM OnlyFiltersLeaveQdiscs == Spec => []LeftOnlyByFilter
<1>1. IInv => LeftOnlyByFilter
  BY DEF IInv, QdiscsAreOwned, QdiscHasScript, LeftOnlyByFilter, In
<1> QED
  BY <1>1, Invariance, PTL

\* A record names a container of its own run, however alike the names of the
\* runs are (ephemeral.go:30-52).
THEOREM RecordsAreOwn == Spec => []RecordsNameOwnContainers
<1>1. IInv => RecordsNameOwnContainers
  BY DEF IInv, RecordsAreKept, RecordKept, RecordOwn, RecordsNameOwnContainers
<1> QED
  BY <1>1, Invariance, PTL

\* What is called clean impairs nothing any more, or for no longer than its
\* start took (networkchaos/driver.go:186-196).
THEOREM CleanOutlivesByItsStart == Spec => []OutlivesByStartDelay
<1>1. IInv => OutlivesByStartDelay
  <2> SUFFICES ASSUME IInv, NEW r \in Runs, ~spec[r].filtered, NEW i \in DOMAIN records[r],
                      records[r][i].cleanedUp, records[r][i].key \in DOMAIN containers,
                      Impairs(records[r][i].key)
               PROVE  containers[records[r][i].key].left <= StartDelay
    BY DEF OutlivesByStartDelay
  <2> DEFINE k == records[r][i].key
  <2>1. RecordOwn(r, i) /\ RecordTime(r, i)
    BY DEF IInv, RecordsAreKept, RecordKept
  <2>2. containers[k].run = r
    BY <2>1 DEF RecordOwn
  <2>3. containers[k].state # "filtering"
    BY <2>2 DEF IInv, ScriptsKeepTheirQdisc, ScriptHasQdisc
  <2>4. k # NoQdisc
    BY KeyType DEF IInv, TypeOK
  <2>5. containers[k].state = "running"
    <3>1. CASE In(k, "running")
      BY <3>1 DEF In
    <3>2. CASE \E p \in Pods : qdisc[p] = k
      <4>1. PICK p \in Pods : qdisc[p] = k
        BY <3>2
      <4> QED
        BY <2>2, <2>3, <2>4, <4>1 DEF IInv, QdiscsAreOwned, QdiscHasScript
    <3> QED
      BY <3>1, <3>2 DEF Impairs
  <2> QED
    BY <2>1, <2>5 DEF RecordTime
<1> QED
  BY <1>1, Invariance, PTL
=============================================================================
