------------------------- MODULE ObservationHandler -------------------------
(***************************************************************************)
(* HandleK8sObservationService                                             *)
(* (internal/usecase/services/handle_k8s_observation.go) against its       *)
(* ports.  The service starts one goroutine per signal source; each calls  *)
(* handleSignal for one observation after another.  A call reads the       *)
(* lifecycle state of the request under the mutex, releases it, evaluates, *)
(* stores the next state under the mutex again and then publishes.  The    *)
(* steps of the calls of different sources interleave.                     *)
(***************************************************************************)
EXTENDS StatusEngine, SequencesExt, FiniteSets

CONSTANTS
    Requests,            \* the scan requests observed
    NoRequest,           \* the empty RequestUUID
    Sources,             \* the goroutines that call handleSignal
    Feeds,               \* Feeds[s]: the requests source s reports on
    Observations,        \* the observations a source can make
    MaxSignals,          \* bound: calls of handleSignal
    MaxPublishFailures,  \* bound: calls of the publisher that return an error
    MaxRestarts          \* bound: restarts of the process

ASSUME RequestsAssumption == NoRequest \notin Requests

ASSUME FeedsAssumption == Feeds \in [Sources -> SUBSET Requests]

ASSUME ObservationsAssumption == Observations \subseteq Observation

ASSUME BoundsAssumption ==
    /\ MaxSignals \in Nat
    /\ MaxPublishFailures \in Nat
    /\ MaxRestarts \in Nat

VARIABLES
    states,     \* states[r]: the service's map, ZeroState where it has no entry
    pc,         \* pc[s]: how far source s is in its current call
    request,    \* request[s]: signal.RequestUUID of that call
    signal,     \* signal[s]: the rest of its signal
    seen,       \* seen[s]: the local variable "state" of that call
    topic,      \* topic[r]: the events of r on the status topic
    dropped,    \* dropped[r]: the events the publisher refused
    signals, failures, restarts      \* what the bounds count

locals == <<pc, request, signal, seen>>
counters == <<signals, failures, restarts>>
vars == <<states, locals, topic, dropped, counters>>

-----------------------------------------------------------------------------
\* The map of a process that has just started has no entries.
NewMap == [r \in Requests |-> ZeroState]

\* The zero WatchSignal: what the locals are reset to when a call returns.
NoSignal == [type |-> "stage", stage |-> NoStage, error |-> NoError]

Init ==
    /\ states = NewMap
    /\ pc = [s \in Sources |-> "idle"]
    /\ request = [s \in Sources |-> NoRequest]
    /\ signal = [s \in Sources |-> NoSignal]
    /\ seen = [s \in Sources |-> ZeroState]
    /\ topic = [r \in Requests |-> <<>>]
    /\ dropped = [r \in Requests |-> {}]
    /\ signals = 0 /\ failures = 0 /\ restarts = 0

\* The pair (evaluation, nextState) of the call source s is in.
Evaluation(s) == Evaluate(seen[s], signal[s])

\* handleSignal returns: its locals are gone.
Return(s) ==
    /\ pc' = [pc EXCEPT ![s] = "idle"]
    /\ request' = [request EXCEPT ![s] = NoRequest]
    /\ signal' = [signal EXCEPT ![s] = NoSignal]
    /\ seen' = [seen EXCEPT ![s] = ZeroState]

\* Source s calls handleSignal with observation o of request r; the call locks
\* the mutex, reads the entry of r and unlocks.
ReadState(s, r, o) ==
    /\ pc[s] = "idle"
    /\ signals < MaxSignals
    /\ pc' = [pc EXCEPT ![s] = "read"]
    /\ request' = [request EXCEPT ![s] = r]
    /\ signal' = [signal EXCEPT ![s] = o]
    /\ seen' = [seen EXCEPT ![s] = states[r]]
    /\ signals' = signals + 1
    /\ UNCHANGED <<states, topic, dropped, failures, restarts>>

\* The evaluation carries no event: the call returns nil.
Ignore(s) ==
    /\ pc[s] = "read"
    /\ ~Evaluation(s).publish
    /\ Return(s)
    /\ UNCHANGED <<states, topic, dropped, counters>>

\* storeState: the next state replaces the entry, whatever it is by now.
StoreState(s) ==
    /\ pc[s] = "read"
    /\ Evaluation(s).publish
    /\ states' = [states EXCEPT ![request[s]] = Evaluation(s).state]
    /\ pc' = [pc EXCEPT ![s] = "stored"]
    /\ UNCHANGED <<request, signal, seen, topic, dropped, counters>>

AppendToTopic(s) ==
    topic' = [topic EXCEPT ![request[s]] = Append(@, Evaluation(s).event)]

\* A publish that reports success and writes nothing.
PublishLost(s) ==
    /\ pc[s] = "stored"
    /\ Return(s)
    /\ UNCHANGED <<states, topic, dropped, counters>>

\* statusPublisher.Execute or errorPublisher.Execute succeeds.
Publish(s) ==
    /\ pc[s] = "stored"
    /\ AppendToTopic(s)
    /\ Return(s)
    /\ UNCHANGED <<states, dropped, counters>>

\* The publisher returns an error, which handleSignal hands to its source.  The
\* event was not written, or was written and only the answer was lost.
PublishFails(s) ==
    /\ pc[s] = "stored"
    /\ failures < MaxPublishFailures
    /\ \/ /\ dropped' = [dropped EXCEPT ![request[s]] = @ \cup {Evaluation(s).event}]
          /\ UNCHANGED topic
       \/ AppendToTopic(s) /\ UNCHANGED dropped
    /\ Return(s)
    /\ failures' = failures + 1
    /\ UNCHANGED <<states, signals, restarts>>

\* The process dies and a new one starts: the map is in memory only.
Restart ==
    /\ restarts < MaxRestarts
    /\ states' = NewMap
    /\ pc' = [s \in Sources |-> "idle"]
    /\ request' = [s \in Sources |-> NoRequest]
    /\ signal' = [s \in Sources |-> NoSignal]
    /\ seen' = [s \in Sources |-> ZeroState]
    /\ restarts' = restarts + 1
    /\ UNCHANGED <<topic, dropped, signals, failures>>

HandleSignal(s) ==
    \/ \E r \in Feeds[s], o \in Observations : ReadState(s, r, o)
    \/ Ignore(s)
    \/ StoreState(s)
    \/ Publish(s)
    \/ PublishFails(s)

Next == (\E s \in Sources : HandleSignal(s)) \/ Restart

Spec == Init /\ [][Next]_vars

\* A goroutine that is inside handleSignal is scheduled again and the Kafka
\* writer answers; nothing obliges a source to make another observation.
Progress(s) == Ignore(s) \/ StoreState(s) \/ Publish(s)

FairSpec == Spec /\ \A s \in Sources : WF_vars(Progress(s))

-----------------------------------------------------------------------------
(***************************************************************************)
(* Properties.                                                             *)
(***************************************************************************)
Counters ==
    /\ signals \in 0 .. MaxSignals
    /\ failures \in 0 .. MaxPublishFailures
    /\ restarts \in 0 .. MaxRestarts

\* The state keeps its types, and a source that is inside handleSignal holds
\* the signal of a request it feeds.
TypeOK ==
    /\ states \in [Requests -> StatusState]
    /\ pc \in [Sources -> {"idle", "read", "stored"}]
    /\ request \in [Sources -> Requests \cup {NoRequest}]
    /\ signal \in [Sources -> Observation]
    /\ seen \in [Sources -> StatusState]
    /\ topic \in [Requests -> Seq(Event)]
    /\ dropped \in [Requests -> SUBSET Event]
    /\ Counters
    /\ \A s \in Sources : pc[s] # "idle" => request[s] \in Feeds[s]

InCall(s, r) == pc[s] # "idle" /\ request[s] = r

\* Source s has stored a decision about r that it has not published yet.
Announcing(s, r) == pc[s] = "stored" /\ request[s] = r

HasFinalEvent(events) == \E e \in events : e.terminal

\* What has become, or is about to become, of the final event of r.
FinalEventAccounted(r) ==
    \/ HasFinalEvent(ToSet(topic[r]))
    \/ HasFinalEvent(dropped[r])
    \/ \E s \in Sources : Announcing(s, r) /\ Evaluation(s).event.terminal

\* A request the map holds as closed has its final event on the topic, in the
\* hands of a call that is about to publish it, or refused by Kafka: however
\* the calls of the sources interleave, and across restarts, a closed request
\* never silences the observation that would have announced its end
\* (handle_k8s_observation.go:56-63, engine.go:25-28 and 48-50).
ClosedMeansAnnounced ==
    \A r \in Requests : states[r].terminal => FinalEventAccounted(r)

\* A request that is closed while no call holds an older, open state of it
\* stays as it is: engine.go:26 and :48 stop every later transition, and only
\* the window between the two locks of handleSignal can reopen a request.
StaleReader(s, r) == pc[s] = "read" /\ request[s] = r /\ ~seen[s].terminal

ClosedStaysClosed ==
    [][\A r \in Requests :
          /\ states[r].terminal
          /\ \A s \in Sources : ~StaleReader(s, r)
          /\ restarts' = restarts
          => states'[r] = states[r]]_vars

\* The requests that no two sources report on.
Owned ==
    {r \in Requests : \A s1, s2 \in Sources : r \in Feeds[s1] \cap Feeds[s2] => s1 = s2}

\* The state a map entry would have if the last event of past had just been stored.
StateAfter(past) ==
    IF past = <<>> THEN ZeroState
    ELSE [current |-> Last(past).stage, terminal |-> Last(past).terminal]

\* Until the process restarts, the map and the last event of the topic tell the
\* same story of a request that one source reports on, whenever nothing of it is in
\* flight and Kafka has refused none of its events: whatever the other sources do to
\* other requests and whichever publishes of theirs fail.
MapMatchesTopic ==
    restarts = 0 =>
        \A r \in Owned :
            /\ \A s \in Sources : ~Announcing(s, r)
            /\ dropped[r] = {}
            => states[r] = StateAfter(topic[r])

\* The topic is a stream the lifecycle allows (README.md:28, FEATURES.md:242-245):
\* stages only move forward, and nothing follows a terminal event.
Lifecycle == INSTANCE ScanLifecycle WITH stream <- topic
LifecycleOrder == Lifecycle!Spec

\* What the handler makes of that promise: the streams of the requests that one
\* source reports on are as the lifecycle allows until the process restarts, even
\* when publishes fail and while other requests have sources that race.
OwnedTopic == [r \in Owned |-> topic[r]]
OwnedLifecycle == INSTANCE ScanLifecycle WITH Requests <- Owned, stream <- OwnedTopic
OwnedLifecycleOrder ==
    OwnedLifecycle!Init /\ [][OwnedLifecycle!Next \/ restarts > 0]_OwnedTopic

\* The strengthening behind these two.  It relates, for each request with one source,
\* the topic to the state the next decision will be made from: the entry of the map,
\* or, between the store and the publish of a call, what that call has seen.
NotBehind(past, state) ==
    \/ past = <<>>
    \/ state.terminal
    \/ /\ ~Last(past).terminal
       /\ state.current # NoStage
       /\ Rank(Last(past).stage) <= Rank(state.current)

Tracks(r, state) ==
    /\ NotBehind(topic[r], state)
    /\ dropped[r] = {} => state = StateAfter(topic[r])

ReadIsCurrent ==
    \A s \in Sources :
        pc[s] = "read" /\ request[s] \in Owned => seen[s] = states[request[s]]

StoredIsDecided ==
    \A s \in Sources : pc[s] = "stored" /\ request[s] \in Owned =>
        /\ Evaluation(s).publish
        /\ states[request[s]] = Evaluation(s).state
        /\ Tracks(request[s], seen[s])

QuietIsTracked ==
    \A r \in Owned : (\A s \in Sources : ~Announcing(s, r)) => Tracks(r, states[r])

InStep == ReadIsCurrent /\ StoredIsDecided /\ QuietIsTracked

OwnedInv == TypeOK /\ (restarts = 0 => InStep)

\* A call that is deciding about the failure or the findings of r.
Closing(s, r) ==
    /\ pc[s] = "read"
    /\ request[s] = r
    /\ IsFailure(signal[s]) \/ signal[s].type = "findings"

\* The observation of a failure, or of the findings, of a request leads to a
\* terminal event on the topic, whatever the other sources do meanwhile, unless
\* the publisher refuses that event or the process dies first (FEATURES.md:704
\* "surface failures consistently").
EndSurfaces ==
    \A r \in Requests, k \in 0 .. MaxRestarts :
        (restarts = k /\ \E s \in Sources : Closing(s, r)) ~>
            \/ HasFinalEvent(ToSet(topic[r]))
            \/ HasFinalEvent(dropped[r])
            \/ restarts > k

=============================================================================
