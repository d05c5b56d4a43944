----------------------------- MODULE EventStreams -----------------------------
(***************************************************************************)
(* The API server's GET /api/events: concurrent handlers, one for each     *)
(* client, that share a counter of open connections and poll the ChaosRuns *)
(* for changes of their phases, which they tell their client.              *)
(*                                                                         *)
(* A poll that fails, a heartbeat that is read and a tick without a change *)
(* change nothing here.  A client that stalls blocks the handler's write:  *)
(* the server sets no write timeout.                                       *)
(***************************************************************************)
EXTENDS Integers, FiniteSets

CONSTANTS
  Clients,         \* each has a request open or not
  RunNames,
  LastPhase,       \* phases are numbered in the order of the lifecycle
  MaxConnections,
  MaxRecreated     \* how often a run is created anew under its name

ASSUME ConstantsAssumption ==
  /\ IsFiniteSet(Clients)
  /\ LastPhase \in Nat \ {0} /\ MaxConnections \in Nat /\ MaxRecreated \in Nat

VARIABLES
  runs,       \* [RunNames -> phases], Absent when there is no such run
  recreated,
  client,     \* [Clients -> "away", "here", "stalled", "gone"]
  active,     \* sseActiveConnections
  handler,    \* [Clients -> how far its handler is]
  listed,     \* what each handler's poll returned
  unsent,     \* the runs it still has to write an event for
  snapshot,   \* the phases it has written
  told        \* the phases the client has read

vars == <<runs, recreated, client, active, handler, listed, unsent, snapshot, told>>

Absent == 0

Nothing == [n \in RunNames |-> Absent]

-----------------------------------------------------------------------------
(* The runs and the clients. *)

\* A run is created, goes on by one or more phases, or is deleted.
RunChanges(n) ==
  /\ \/ /\ runs[n] = Absent /\ recreated < MaxRecreated
        /\ runs' = [runs EXCEPT ![n] = 1]
        /\ recreated' = recreated + 1
     \/ /\ runs[n] # Absent
        /\ \E phase \in {Absent} \cup runs[n] + 1 .. LastPhase :
             runs' = [runs EXCEPT ![n] = phase]
        /\ UNCHANGED recreated
  /\ UNCHANGED <<client, active, handler, listed, unsent, snapshot, told>>

ClientChanges(c) ==
  /\ \/ client[c] = "here"    /\ client' \in {[client EXCEPT ![c] = s] : s \in {"stalled", "gone"}}
     \/ client[c] = "stalled" /\ client' \in {[client EXCEPT ![c] = s] : s \in {"here", "gone"}}
  /\ UNCHANGED <<runs, recreated, active, handler, listed, unsent, snapshot, told>>

-----------------------------------------------------------------------------
(* The handlers. *)

\* Mistake: the number of connections before this one is compared.
MayStream_Mutant(n) == n - 1 <= MaxConnections

MayStream(n) == n <= MaxConnections

\* Add(1), and the comparison of what it returns.
Enter(c) ==
  /\ handler[c] = "none" /\ client[c] \in {"away", "gone"}
  /\ client' = [client EXCEPT ![c] = "here"]
  /\ active' = active + 1
  /\ handler' = [handler EXCEPT ![c] = IF MayStream(active') THEN "connecting" ELSE "refusing"]
  /\ snapshot' = [snapshot EXCEPT ![c] = Nothing]
  /\ told' = [told EXCEPT ![c] = Nothing]
  /\ UNCHANGED <<runs, recreated, listed, unsent>>

\* Mistake: the deferred Add(-1) comes before the comparison, and runs as well.
AfterRefusal_Mutant(n) == n - 2

\* Mistake: a refused connection stays counted.
AfterRefusal_Mutant2(n) == n

AfterRefusal(n) == n - 1

\* Add(-1), and the answer 429.
Refuse(c) ==
  /\ handler[c] = "refusing"
  /\ active' = AfterRefusal(active)
  /\ handler' = [handler EXCEPT ![c] = "none"]
  /\ client' = [client EXCEPT ![c] = "away"]
  /\ UNCHANGED <<runs, recreated, listed, unsent, snapshot, told>>

\* A write waits while the client stalls, and fails once it is gone.
CanWrite(c) == client[c] # "stalled"

\* The event "connected".
Connect(c) ==
  /\ handler[c] = "connecting" /\ CanWrite(c)
  /\ handler' = [handler EXCEPT ![c] = IF client[c] = "gone" THEN "leaving" ELSE "streaming"]
  /\ UNCHANGED <<runs, recreated, client, active, listed, unsent, snapshot, told>>

\* Mistake: only runs that are new count.
Changed_Mutant(before, phase) == before = Absent /\ phase # Absent

Changed(before, phase) == before # phase /\ phase # Absent

Poll(c) ==
  /\ handler[c] = "streaming"
  /\ handler' = [handler EXCEPT ![c] = "sending"]
  /\ listed' = [listed EXCEPT ![c] = runs]
  /\ unsent' = [unsent EXCEPT ![c] = {n \in RunNames : Changed(snapshot[c][n], runs[n])}]
  /\ UNCHANGED <<runs, recreated, client, active, snapshot, told>>

\* The snapshot is set before the event is written.
Send(c) ==
  /\ handler[c] = "sending" /\ CanWrite(c)
  /\ \E n \in unsent[c] :
       /\ unsent' = [unsent EXCEPT ![c] = @ \ {n}]
       /\ snapshot' = [snapshot EXCEPT ![c][n] = listed[c][n]]
       /\ \/ /\ client[c] = "gone"
             /\ handler' = [handler EXCEPT ![c] = "leaving"]
             /\ UNCHANGED told
          \/ /\ client[c] # "gone"
             /\ told' = [told EXCEPT ![c][n] = listed[c][n]]
             /\ UNCHANGED handler
  /\ UNCHANGED <<runs, recreated, client, active, listed>>

\* Mistake: the runs are looked at once more.
AfterPoll_Mutant(c) == runs

\* The runs that are no longer listed are forgotten.
AfterPoll(c) ==
  [n \in RunNames |-> IF listed[c][n] = Absent THEN Absent ELSE snapshot[c][n]]

EndPoll(c) ==
  /\ handler[c] = "sending" /\ unsent[c] = {}
  /\ snapshot' = [snapshot EXCEPT ![c] = AfterPoll(c)]
  /\ listed' = [listed EXCEPT ![c] = Nothing]
  /\ handler' = [handler EXCEPT ![c] = "streaming"]
  /\ UNCHANGED <<runs, recreated, client, active, unsent, told>>

\* Mistake: the request's context is not looked at.
Cancelled_Mutant(c) == FALSE

Cancelled(c) == client[c] = "gone"

\* The context is done, or a heartbeat cannot be written.
Notice(c) ==
  /\ handler[c] = "streaming" /\ Cancelled(c)
  /\ handler' = [handler EXCEPT ![c] = "leaving"]
  /\ UNCHANGED <<runs, recreated, client, active, listed, unsent, snapshot, told>>

\* The deferred Add(-1).
Leave(c) ==
  /\ handler[c] = "leaving"
  /\ active' = active - 1
  /\ handler' = [handler EXCEPT ![c] = "none"]
  /\ listed' = [listed EXCEPT ![c] = Nothing]
  /\ unsent' = [unsent EXCEPT ![c] = {}]
  /\ UNCHANGED <<runs, recreated, client, snapshot, told>>

-----------------------------------------------------------------------------
Init ==
  /\ runs = Nothing /\ recreated = 0
  /\ client = [c \in Clients |-> "away"]
  /\ active = 0
  /\ handler = [c \in Clients |-> "none"]
  /\ listed = [c \in Clients |-> Nothing]
  /\ unsent = [c \in Clients |-> {}]
  /\ snapshot = [c \in Clients |-> Nothing]
  /\ told = [c \in Clients |-> Nothing]

Serve(c) == Refuse(c) \/ Connect(c) \/ Poll(c) \/ Send(c) \/ EndPoll(c) \/ Leave(c)

Next ==
  \/ \E n \in RunNames : RunChanges(n)
  \/ \E c \in Clients : ClientChanges(c) \/ Enter(c) \/ Serve(c) \/ Notice(c)

Spec == Init /\ [][Next]_vars

\* A handler goes on; select chooses among its ready cases at random, so that a
\* cancelled context is not passed over for ever.
Fairness == \A c \in Clients : WF_vars(Serve(c)) /\ SF_vars(Notice(c))

FairSpec == Spec /\ Fairness

-----------------------------------------------------------------------------
(* Properties. *)

Phases == Absent .. LastPhase

ClientState == {"away", "here", "stalled", "gone"}

HandlerState == {"none", "refusing", "connecting", "streaming", "sending", "leaving"}

\* The state is well-formed; the counter is never negative.
TypeOK ==
  /\ runs \in [RunNames -> Phases] /\ recreated \in Nat
  /\ client \in [Clients -> ClientState]
  /\ active \in Nat
  /\ handler \in [Clients -> HandlerState]
  /\ listed \in [Clients -> [RunNames -> Phases]]
  /\ unsent \in [Clients -> SUBSET RunNames]
  /\ snapshot \in [Clients -> [RunNames -> Phases]]
  /\ told \in [Clients -> [RunNames -> Phases]]

Counted   == {c \in Clients : handler[c] # "none"}
Streaming == {c \in Clients : handler[c] \notin {"none", "refusing"}}

\* The counter is the number of handlers between their Add(1) and their one
\* Add(-1), on whichever way they leave (handlers_sse.go:58-63).
CounterIsExact == active = Cardinality(Counted)

\* However many requests arrive at once, no more than MaxConnections are
\* streamed to (handlers_sse.go:58).
StreamsWithinLimit == Cardinality(Streaming) <= MaxConnections

\* A phase the handler will not write again because it is in its snapshot was
\* read by the client, also when the run changed while events were written
\* (handlers_sse.go:110-127).
NothingSkipped ==
  \A c \in Clients : handler[c] \in {"streaming", "sending"} =>
    \A n \in RunNames : snapshot[c][n] # Absent => told[c][n] = snapshot[c][n]

\* A client that keeps its connection and reads it comes to know the phase
\* every run has come to (handlers_sse.go:110-127).
ClientsCatchUp ==
  \A c \in Clients :
    <>[](client[c] = "here" /\ handler[c] \in {"streaming", "sending"})
      => []<>(\A n \in RunNames : runs[n] # Absent => told[c][n] = runs[n])

\* A client that has gone does not hold a connection for ever, whatever its
\* handler was doing (handlers_sse.go:63, :93, :97).
SlotsAreReturned ==
  \A c \in Clients : client[c] = "gone" ~> (handler[c] = "none" \/ client[c] # "gone")
=============================================================================
