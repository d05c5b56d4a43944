-------------------------- MODULE EventStreamsProofs --------------------------
(***************************************************************************)
(* The connection counter of the event streams, for any number of clients  *)
(* and any limit: it is exact, it keeps the limit, and no event is lost.   *)
(***************************************************************************)
EXTENDS EventStreams, FiniteSetTheorems, TLAPS

\* How the handlers that are counted change with one handler.
LEMMA CountedAfter ==
  ASSUME handler \in [Clients -> HandlerState],
         NEW c \in Clients, NEW s \in HandlerState,
         handler' = [handler EXCEPT ![c] = s]
  PROVE  /\ Cardinality(Counted) \in Nat
         /\ handler[c] = "none" /\ s # "none" => Cardinality(Counted') = Cardinality(Counted) + 1
         /\ handler[c] # "none" /\ s = "none" => Cardinality(Counted') = Cardinality(Counted) - 1
         /\ handler[c] # "none" /\ s # "none" => Counted' = Counted
<1>1. IsFiniteSet(Counted)
  <2>1. Counted \subseteq Clients
    BY DEF Counted
  <2> QED
    BY <2>1, ConstantsAssumption, FS_Subset
<1>2. Cardinality(Counted) \in Nat
  BY <1>1, FS_CardinalityType
<1>3. CASE handler[c] = "none" /\ s # "none"
  <2>1. Counted' = Counted \cup {c} /\ c \notin Counted
    BY <1>3 DEF Counted
  <2>2. Cardinality(Counted \cup {c}) = Cardinality(Counted) + 1
    BY <1>1, <2>1, FS_AddElement
  <2> QED
    BY <1>2, <1>3, <2>1, <2>2
<1>4. CASE handler[c] # "none" /\ s = "none"
  <2>1. Counted' = Counted \ {c} /\ c \in Counted
    BY <1>4 DEF Counted
  <2>2. Cardinality(Counted \ {c}) = Cardinality(Counted) - 1
    BY <1>1, <2>1, FS_RemoveElement
  <2> QED
    BY <1>2, <1>4, <2>1, <2>2
<1>5. CASE handler[c] # "none" /\ s # "none"
  <2>1. Counted' = Counted
    BY <1>5 DEF Counted
  <2> QED
    BY <1>2, <1>5, <2>1
<1>6. CASE handler[c] = "none" /\ s = "none"
  BY <1>2, <1>6
<1> QED
  BY <1>3, <1>4, <1>5, <1>6

\* The clients that are streamed to are some of those that are counted.
LEMMA StreamingAreCounted ==
  /\ IsFiniteSet(Streaming) /\ Cardinality(Streaming) \in Nat
  /\ Cardinality(Streaming) <= Cardinality(Counted)
<1>1. Counted \subseteq Clients /\ Streaming \subseteq Counted
  BY DEF Counted, Streaming
<1>2. IsFiniteSet(Counted)
  BY <1>1, ConstantsAssumption, FS_Subset
<1>3. IsFiniteSet(Streaming) /\ Cardinality(Streaming) <= Cardinality(Counted)
  BY <1>1, <1>2, FS_Subset
<1> QED
  BY <1>3, FS_CardinalityType

\* The limit is kept by a handler that is admitted, and by one that goes on.
LEMMA StreamingAfter ==
  ASSUME handler \in [Clients -> HandlerState], StreamsWithinLimit,
         NEW c \in Clients, NEW s \in HandlerState,
         handler' = [handler EXCEPT ![c] = s],
         \/ s \in {"none", "refusing"}
         \/ handler[c] \notin {"none", "refusing"}
         \/ Cardinality(Counted) + 1 <= MaxConnections
  PROVE  StreamsWithinLimit'
<1>1. /\ IsFiniteSet(Streaming) /\ Cardinality(Streaming) \in Nat
      /\ Cardinality(Streaming) <= Cardinality(Counted) /\ Cardinality(Counted) \in Nat
  BY StreamingAreCounted, CountedAfter
<1>2. MaxConnections \in Nat
  BY ConstantsAssumption
<1>3. CASE s \in {"none", "refusing"} \/ handler[c] \notin {"none", "refusing"}
  <2>1. Streaming' \subseteq Streaming
    BY <1>3 DEF Streaming
  <2>2. IsFiniteSet(Streaming') /\ Cardinality(Streaming') <= Cardinality(Streaming)
    BY <1>1, <2>1, FS_Subset
  <2>3. Cardinality(Streaming') \in Nat
    BY <2>2, FS_CardinalityType
  <2> QED
    BY <1>1, <1>2, <2>2, <2>3 DEF StreamsWithinLimit
<1>4. CASE Cardinality(Counted) + 1 <= MaxConnections
  <2>1. Streaming' \subseteq Streaming \cup {c}
    BY DEF Streaming
  <2>2. /\ IsFiniteSet(Streaming \cup {c})
        /\ Cardinality(Streaming \cup {c}) \in {Cardinality(Streaming), Cardinality(Streaming) + 1}
    BY <1>1, FS_AddElement
  <2>3. IsFiniteSet(Streaming') /\ Cardinality(Streaming') <= Cardinality(Streaming \cup {c})
    BY <2>1, <2>2, FS_Subset
  <2>4. Cardinality(Streaming') \in Nat
    BY <2>3, FS_CardinalityType
  <2> QED
    BY <1>1, <1>2, <1>4, <2>2, <2>3, <2>4 DEF StreamsWithinLimit
<1> QED
  BY <1>3, <1>4

-----------------------------------------------------------------------------
(* The invariant. *)

\* A handler that has not yet connected has written nothing: without it,
\* NothingSkipped is not inductive.
NothingYet ==
  \A c \in Clients : handler[c] = "connecting" => \A n \in RunNames : snapshot[c][n] = Absent

IInv == TypeOK /\ CounterIsExact /\ StreamsWithinLimit /\ NothingSkipped /\ NothingYet

\* Nobody is there at the start.
LEMMA InitHolds == Init => IInv
<1> SUFFICES ASSUME Init PROVE IInv
  OBVIOUS
<1>1. LastPhase \in Nat \ {0} /\ MaxConnections \in Nat
  BY ConstantsAssumption
<1>2. Nothing \in [RunNames -> Phases]
  BY <1>1 DEF Nothing, Phases, Absent
<1>3. TypeOK
  BY <1>2 DEF Init, TypeOK, ClientState, HandlerState
<1>4. Counted = {} /\ Streaming = {}
  BY DEF Init, Counted, Streaming
<1>5. CounterIsExact /\ StreamsWithinLimit
  BY <1>1, <1>4, FS_EmptySet DEF Init, CounterIsExact, StreamsWithinLimit
<1>6. NothingSkipped
  BY DEF Init, NothingSkipped
<1>7. NothingYet
  BY DEF Init, NothingYet
<1> QED
  BY <1>3, <1>5, <1>6, <1>7 DEF IInv

\* What a handler does keeps the counter and the limit.
LEMMA CountStep ==
  ASSUME IInv, Next
  PROVE  active' \in Nat /\ CounterIsExact' /\ StreamsWithinLimit'
<1>1. /\ handler \in [Clients -> HandlerState] /\ active \in Nat
      /\ active = Cardinality(Counted) /\ StreamsWithinLimit
  BY DEF IInv, TypeOK, CounterIsExact
<1>2. MaxConnections \in Nat
  BY ConstantsAssumption
<1>3. ASSUME UNCHANGED <<active, handler>>
      PROVE  active' \in Nat /\ CounterIsExact' /\ StreamsWithinLimit'
  <2>1. Counted' = Counted /\ Streaming' = Streaming
    BY <1>3 DEF Counted, Streaming
  <2> QED
    BY <1>1, <1>3, <2>1 DEF CounterIsExact, StreamsWithinLimit
<1>4. CASE \E n \in RunNames : RunChanges(n)
  BY <1>3, <1>4 DEF RunChanges
<1>5. ASSUME NEW c \in Clients,
             ClientChanges(c) \/ Enter(c) \/ Serve(c) \/ Notice(c)
      PROVE  active' \in Nat /\ CounterIsExact' /\ StreamsWithinLimit'
  <2>1. CASE ClientChanges(c)
    BY <1>3, <2>1 DEF ClientChanges
  <2>2. CASE Enter(c)
    <3>1. PICK s \in HandlerState : /\ handler' = [handler EXCEPT ![c] = s]
                                    /\ s = IF active + 1 <= MaxConnections THEN "connecting"
                                                                           ELSE "refusing"
      BY <2>2 DEF Enter, MayStream, HandlerState
    <3>2. handler[c] = "none" /\ s # "none" /\ active' = active + 1
      BY <2>2, <3>1 DEF Enter
    <3>3. Cardinality(Counted') = Cardinality(Counted) + 1
      BY <1>1, <3>1, <3>2, CountedAfter
    <3>4. StreamsWithinLimit'
      BY <1>1, <3>1, StreamingAfter
    <3> QED
      BY <1>1, <3>2, <3>3, <3>4 DEF CounterIsExact
  <2>3. CASE Refuse(c) \/ Leave(c)
    <3>1. /\ handler' = [handler EXCEPT ![c] = "none"] /\ "none" \in HandlerState
          /\ handler[c] # "none" /\ active' = active - 1
      BY <2>3 DEF Refuse, Leave, AfterRefusal, HandlerState
    <3>2. Cardinality(Counted') = Cardinality(Counted) - 1
      BY <1>1, <3>1, CountedAfter
    <3>3. StreamsWithinLimit'
      BY <1>1, <3>1, StreamingAfter
    <3>4. IsFiniteSet(Counted')
      <4>1. Counted' \subseteq Clients
        BY DEF Counted
      <4> QED
        BY <4>1, ConstantsAssumption, FS_Subset
    <3>5. Cardinality(Counted') \in Nat
      BY <3>4, FS_CardinalityType
    <3> QED
      BY <1>1, <3>1, <3>2, <3>3, <3>5 DEF CounterIsExact
  <2>4. CASE Connect(c) \/ Poll(c) \/ Send(c) \/ EndPoll(c) \/ Notice(c)
    <3>1. /\ active' = active
          /\ handler[c] \notin {"none", "refusing"}
          /\ \/ handler' = handler
             \/ \E s \in HandlerState \ {"none", "refusing"} : handler' = [handler EXCEPT ![c] = s]
      <4>1. CASE Connect(c)
        BY <4>1 DEF Connect, HandlerState
      <4>2. CASE Poll(c)
        BY <4>2 DEF Poll, HandlerState
      <4>3. CASE Send(c)
        BY <4>3 DEF Send, HandlerState
      <4>4. CASE EndPoll(c)
        BY <4>4 DEF EndPoll, HandlerState
      <4>5. CASE Notice(c)
        BY <4>5 DEF Notice, HandlerState
      <4> QED
        BY <2>4, <4>1, <4>2, <4>3, <4>4, <4>5
    <3>2. CASE handler' = handler
      BY <1>3, <3>1, <3>2
    <3>3. ASSUME NEW s \in HandlerState \ {"none", "refusing"},
                 handler' = [handler EXCEPT ![c] = s]
          PROVE  active' \in Nat /\ CounterIsExact' /\ StreamsWithinLimit'
      <4>1. Counted' = Counted
        BY <1>1, <3>1, <3>3, CountedAfter
      <4>2. StreamsWithinLimit'
        BY <1>1, <3>1, <3>3, StreamingAfter
      <4> QED
        BY <1>1, <3>1, <4>1, <4>2 DEF CounterIsExact
    <3> QED
      BY <3>1, <3>2, <3>3
  <2> QED
    BY <1>5, <2>1, <2>2, <2>3, <2>4 DEF Serve
<1> QED
  BY <1>4, <1>5 DEF Next

\* Every step keeps the state well-formed.
LEMMA TypeStep ==
  ASSUME IInv, Next
  PROVE  TypeOK'
<1>1. TypeOK
  BY DEF IInv
<1>2. active' \in Nat
  BY CountStep
<1>3. LastPhase \in Nat \ {0}
  BY ConstantsAssumption
<1>4. Nothing \in [RunNames -> Phases] /\ Absent \in Phases
  BY <1>3 DEF Nothing, Phases, Absent
<1>5. ASSUME NEW n \in RunNames, RunChanges(n) PROVE TypeOK'
  <2>1. /\ runs' \in [RunNames -> Phases] /\ recreated' \in Nat
    <3>1. /\ recreated' \in {recreated, recreated + 1}
          /\ \E phase \in {Absent, 1} \cup runs[n] + 1 .. LastPhase :
               runs' = [runs EXCEPT ![n] = phase]
      BY <1>5 DEF RunChanges
    <3>2. runs[n] \in Nat
      BY <1>1, <1>3 DEF TypeOK, Phases, Absent
    <3>3. {Absent, 1} \cup runs[n] + 1 .. LastPhase \subseteq Phases
      BY <1>3, <3>2 DEF Phases, Absent
    <3> QED
      BY <1>1, <3>1, <3>3 DEF TypeOK
  <2> QED
    BY <1>1, <1>2, <1>5, <2>1 DEF RunChanges, TypeOK
<1>6. ASSUME NEW c \in Clients, ClientChanges(c) \/ Enter(c) \/ Serve(c) \/ Notice(c)
      PROVE  TypeOK'
  <2>1. CASE ClientChanges(c)
    BY <1>1, <1>2, <2>1 DEF ClientChanges, TypeOK, ClientState
  <2>2. CASE Enter(c)
    BY <1>1, <1>2, <1>4, <2>2 DEF Enter, TypeOK, ClientState, HandlerState
  <2>3. CASE Refuse(c)
    BY <1>1, <1>2, <2>3 DEF Refuse, TypeOK, ClientState, HandlerState
  <2>4. CASE Connect(c)
    BY <1>1, <1>2, <2>4 DEF Connect, TypeOK, HandlerState
  <2>5. CASE Poll(c)
    <3>1. {n \in RunNames : Changed(snapshot[c][n], runs[n])} \in SUBSET RunNames
      OBVIOUS
    <3> QED
      BY <1>1, <1>2, <2>5, <3>1 DEF Poll, TypeOK, HandlerState
  <2>6. CASE Send(c)
    <3>1. PICK n \in unsent[c] :
            /\ unsent' = [unsent EXCEPT ![c] = @ \ {n}]
            /\ snapshot' = [snapshot EXCEPT ![c][n] = listed[c][n]]
            /\ told' \in {told, [told EXCEPT ![c][n] = listed[c][n]]}
      BY <2>6 DEF Send
    <3>2. n \in RunNames /\ listed[c][n] \in Phases
      BY <1>1 DEF TypeOK
    <3>3. /\ snapshot' \in [Clients -> [RunNames -> Phases]]
          /\ told' \in [Clients -> [RunNames -> Phases]]
          /\ unsent' \in [Clients -> SUBSET RunNames]
      <4>1. ASSUME NEW f \in [Clients -> [RunNames -> Phases]]
            PROVE  [f EXCEPT ![c][n] = listed[c][n]] \in [Clients -> [RunNames -> Phases]]
        <5>1. [f[c] EXCEPT ![n] = listed[c][n]] \in [RunNames -> Phases]
          BY <3>2
        <5> QED
          BY <5>1
      <4>2. unsent[c] \ {n} \in SUBSET RunNames
        BY <1>1 DEF TypeOK
      <4> QED
        BY <1>1, <3>1, <4>1, <4>2 DEF TypeOK
    <3>4. /\ handler' \in [Clients -> HandlerState]
          /\ UNCHANGED <<runs, recreated, client, active, listed>>
      BY <1>1, <2>6 DEF Send, TypeOK, HandlerState
    <3> QED
      BY <1>1, <3>3, <3>4 DEF TypeOK
  <2>7. CASE EndPoll(c)
    <3>1. AfterPoll(c) \in [RunNames -> Phases]
      BY <1>1, <1>4 DEF AfterPoll, TypeOK
    <3> QED
      BY <1>1, <1>2, <1>4, <2>7, <3>1 DEF EndPoll, TypeOK, HandlerState
  <2>8. CASE Notice(c)
    BY <1>1, <1>2, <2>8 DEF Notice, TypeOK, HandlerState
  <2>9. CASE Leave(c)
    BY <1>1, <1>2, <1>4, <2>9 DEF Leave, TypeOK, HandlerState
  <2> QED
    BY <1>6, <2>1, <2>2, <2>3, <2>4, <2>5, <2>6, <2>7, <2>8, <2>9 DEF Serve
<1> QED
  BY <1>5, <1>6 DEF Next

\* What is in a handler's snapshot has been read by its client.
LEMMA SkipStep ==
  ASSUME IInv, Next
  PROVE  NothingSkipped' /\ NothingYet'
<1>1. TypeOK /\ NothingSkipped /\ NothingYet
  BY DEF IInv
<1>2. ASSUME UNCHANGED <<handler, snapshot, told>>
      PROVE  NothingSkipped' /\ NothingYet'
  BY <1>1, <1>2 DEF NothingSkipped, NothingYet
<1>3. CASE \E n \in RunNames : RunChanges(n)
  BY <1>2, <1>3 DEF RunChanges
<1>4. ASSUME NEW c \in Clients, ClientChanges(c) \/ Enter(c) \/ Serve(c) \/ Notice(c)
      PROVE  NothingSkipped' /\ NothingYet'
  <2>1. CASE ClientChanges(c)
    BY <1>2, <2>1 DEF ClientChanges
  <2>2. CASE Enter(c)
    BY <1>1, <2>2 DEF Enter, TypeOK, NothingSkipped, NothingYet, Nothing, HandlerState
  <2>3. CASE Refuse(c) \/ Leave(c) \/ Notice(c) \/ Connect(c) \/ Poll(c)
    <3>1. /\ UNCHANGED <<snapshot, told>>
          /\ \A d \in Clients : handler'[d] # "connecting" \/ handler[d] = "connecting"
          /\ \A d \in Clients : handler'[d] \in {"streaming", "sending"} =>
                 handler[d] \in {"connecting", "streaming", "sending"}
      BY <1>1, <2>3 DEF Refuse, Leave, Notice, Connect, Poll, TypeOK, HandlerState
    <3> QED
      BY <1>1, <3>1 DEF NothingSkipped, NothingYet
  <2>4. CASE Send(c)
    <3>1. PICK n \in unsent[c] :
            /\ snapshot' = [snapshot EXCEPT ![c][n] = listed[c][n]]
            /\ \/ handler' = [handler EXCEPT ![c] = "leaving"] /\ told' = told
               \/ handler' = handler /\ told' = [told EXCEPT ![c][n] = listed[c][n]]
      BY <2>4 DEF Send
    <3>2. handler[c] = "sending" /\ n \in RunNames
      BY <1>1, <2>4 DEF Send, TypeOK
    <3>3. \A d \in Clients \ {c} : /\ handler'[d] = handler[d]
                                   /\ snapshot'[d] = snapshot[d] /\ told'[d] = told[d]
      BY <1>1, <3>1 DEF TypeOK
    <3>4. handler'[c] # "connecting"
      BY <1>1, <3>1, <3>2 DEF TypeOK
    <3>5. ASSUME handler'[c] \in {"streaming", "sending"}, NEW m \in RunNames,
                 snapshot'[c][m] # Absent
          PROVE  told'[c][m] = snapshot'[c][m]
      <4>1. handler' = handler /\ told' = [told EXCEPT ![c][n] = listed[c][n]]
        BY <1>1, <3>1, <3>5 DEF TypeOK
      <4>2. CASE m = n
        BY <1>1, <3>1, <3>2, <4>1, <4>2 DEF TypeOK
      <4>3. CASE m # n
        <5>1. snapshot'[c][m] = snapshot[c][m] /\ told'[c][m] = told[c][m]
          BY <1>1, <3>1, <3>2, <4>1, <4>3 DEF TypeOK
        <5> QED
          BY <1>1, <3>2, <3>5, <5>1 DEF NothingSkipped
      <4> QED
        BY <4>2, <4>3
    <3> QED
      BY <1>1, <3>3, <3>4, <3>5 DEF NothingSkipped, NothingYet
  <2>5. CASE EndPoll(c)
    <3>1. /\ told' = told /\ handler[c] = "sending" /\ handler'[c] = "streaming"
          /\ snapshot'[c] = AfterPoll(c)
      BY <1>1, <2>5 DEF EndPoll, TypeOK
    <3>2. \A d \in Clients \ {c} : handler'[d] = handler[d] /\ snapshot'[d] = snapshot[d]
      BY <1>1, <2>5 DEF EndPoll, TypeOK
    <3>3. \A m \in RunNames : snapshot'[c][m] \in {Absent, snapshot[c][m]}
      BY <3>1 DEF AfterPoll
    <3> QED
      BY <1>1, <3>1, <3>2, <3>3 DEF NothingSkipped, NothingYet
  <2> QED
    BY <1>4, <2>1, <2>2, <2>3, <2>4, <2>5 DEF Serve
<1> QED
  BY <1>3, <1>4 DEF Next

\* The invariant is kept by every step, and by one that changes nothing.
LEMMA StepHolds == IInv /\ [Next]_vars => IInv'
<1> SUFFICES ASSUME IInv, [Next]_vars PROVE IInv'
  OBVIOUS
<1>1. CASE Next
  BY <1>1, CountStep, TypeStep, SkipStep DEF IInv
<1>2. CASE UNCHANGED vars
  <2>1. TypeOK'
    BY <1>2 DEF IInv, TypeOK, vars
  <2>2. CounterIsExact' /\ StreamsWithinLimit'
    BY <1>2 DEF IInv, CounterIsExact, StreamsWithinLimit, Counted, Streaming, vars
  <2>3. NothingSkipped' /\ NothingYet'
    BY <1>2 DEF IInv, NothingSkipped, NothingYet, vars
  <2> QED
    BY <2>1, <2>2, <2>3 DEF IInv
<1> QED
  BY <1>1, <1>2

\* The invariant holds in every state that can be reached.
LEMMA Invariance == Spec => []IInv
BY InitHolds, StepHolds, PTL DEF Spec

\* The state is well-formed: whatever the order in which requests come and go,
\* the counter is never negative (handlers_sse.go:58-63).
THEOREM TypeCorrect == Spec => []TypeOK
<1>1. IInv => TypeOK
  BY DEF IInv
<1> QED
  BY <1>1, Invariance, PTL

\* The counter is the number of handlers that are between their Add(1) and
\* their one Add(-1) (handlers_sse.go:58-63).
THEOREM CounterCorrect == Spec => []CounterIsExact
<1>1. IInv => CounterIsExact
  BY DEF IInv
<1> QED
  BY <1>1, Invariance, PTL

\* No more than MaxConnections clients are streamed to (handlers_sse.go:58).
THEOREM LimitKept == Spec => []StreamsWithinLimit
<1>1. IInv => StreamsWithinLimit
  BY DEF IInv
<1> QED
  BY <1>1, Invariance, PTL

\* What a handler will not write again has been read (handlers_sse.go:110-127).
THEOREM NoEventSkipped == Spec => []NothingSkipped
<1>1. IInv => NothingSkipped
  BY DEF IInv
<1> QED
  BY <1>1, Invariance, PTL
=============================================================================
