---------------------- MODULE ObservationHandlerProofs ----------------------
(***************************************************************************)
(* Theorems about ObservationHandler, for every set of requests, sources   *)
(* and observations and every value of the bounds.                         *)
(***************************************************************************)
EXTENDS ObservationHandler, TLAPS

-----------------------------------------------------------------------------
(***************************************************************************)
(* The stages and the engine.                                              *)
(***************************************************************************)

\* The valid texts are the six stages.
LEMMA ValidStages == \A stage : IsValid(stage) <=> stage \in Stages
  BY DEF IsValid, OrderedStages, Stages

\* Every text has an integer rank (scan_stage.go:38-45).
LEMMA RankType == \A stage : Rank(stage) \in Int
<1> SUFFICES ASSUME NEW stage PROVE Rank(stage) \in Int
  OBVIOUS
<1>1. CASE IsValid(stage)
  <2>1. PICK i \in 1 .. 6 : OrderedStages[i] = stage
    BY <1>1 DEF IsValid
  <2> DEFINE position == CHOOSE j \in 1 .. 6 : OrderedStages[j] = stage
  <2>2. position \in 1 .. 6
    BY <2>1
  <2>3. Rank(stage) = position - 1
    BY <1>1 DEF Rank
  <2> HIDE DEF position
  <2> QED
    BY <2>2, <2>3
<1>2. CASE ~IsValid(stage)
  BY <1>2 DEF Rank
<1> QED
  BY <1>1, <1>2

\* The stage of a failure event is always a stage (engine.go:52-58).
LEMMA FailureStageType ==
  ASSUME NEW state \in StatusState, NEW error
  PROVE  FailureStage(state, error) \in Stages
  BY ValidStages DEF FailureStage, Stages

\* Evaluate answers with an event and a state of the right shape.
LEMMA EvaluateType ==
  ASSUME NEW state \in StatusState, NEW o \in Observation
  PROVE  /\ Evaluate(state, o).publish \in BOOLEAN
         /\ Evaluate(state, o).event \in Event
         /\ Evaluate(state, o).state \in StatusState
<1>1. CASE IsFailure(o)
  <2>1. FailureStage(state, o.error) \in Stages
    BY FailureStageType
  <2>2. Evaluate(state, o) = Fail(state, o.error)
    BY <1>1 DEF Evaluate
  <2> QED
    BY <2>1, <2>2 DEF Fail, Suppressed, Decision, Event, StatusState, Stages
<1>2. CASE ~IsFailure(o)
  <2>1. Evaluate(state, o) = Advance(state, Candidate(o))
    BY <1>2 DEF Evaluate
  <2>2. CASE IsForward(state, Candidate(o).stage)
    <3>1. Candidate(o).stage \in Stages
      BY <2>2, ValidStages DEF IsForward
    <3>2. Candidate(o) \in Event
      BY <3>1 DEF Candidate, Event
    <3> QED
      BY <2>1, <2>2, <3>1, <3>2 DEF Advance, Decision, StatusState, Event
  <2>3. CASE ~IsForward(state, Candidate(o).stage)
    BY <2>1, <2>3 DEF Advance, Suppressed, Decision, Event, Stages
  <2> QED
    BY <2>2, <2>3
<1> QED
  BY <1>1, <1>2

\* The abstract specification talks about the same events and the same ranks.
LEMMA SameEvents == Lifecycle!Event = Event
  BY DEF Lifecycle!Event, Event, Lifecycle!Stages, Stages

\* The abstract specification ranks the stages in the same way.
LEMMA SameRank == \A stage : Lifecycle!Rank(stage) = Rank(stage)
  BY DEF Lifecycle!Rank, Rank, Lifecycle!IsValid, IsValid,
         Lifecycle!OrderedStages, OrderedStages

\* What a decision to publish means: the request was open, the event is one the
\* lifecycle allows and either a failure or ahead of the state, and the next
\* state is the event's stage and finality.
LEMMA EvaluatePublishes ==
  ASSUME NEW state \in StatusState, NEW o \in Observation,
         Evaluate(state, o).publish
  PROVE  /\ ~state.terminal
         /\ Lifecycle!WellFormed(Evaluate(state, o).event)
         /\ Evaluate(state, o).state =
              [current  |-> Evaluate(state, o).event.stage,
               terminal |-> Evaluate(state, o).event.terminal]
         /\ \/ /\ Evaluate(state, o).event.status = "failed"
               /\ Evaluate(state, o).event.terminal
            \/ state.current = NoStage
            \/ Rank(Evaluate(state, o).event.stage) > Rank(state.current)
<1>0. Evaluate(state, o).event \in Event
  BY EvaluateType
<1>1. CASE IsFailure(o)
  <2>1. Evaluate(state, o) = Fail(state, o.error)
    BY <1>1 DEF Evaluate
  <2>2. ~state.terminal
    BY <2>1 DEF Fail, Suppressed, Decision
  <2>3. Evaluate(state, o).event.status = "failed" /\ Evaluate(state, o).event.terminal
    BY <2>1, <2>2 DEF Fail, Decision
  <2>4. Lifecycle!WellFormed(Evaluate(state, o).event)
    BY <1>0, <2>3, SameEvents DEF Lifecycle!WellFormed
  <2>5. Evaluate(state, o).state = [current  |-> Evaluate(state, o).event.stage,
                                    terminal |-> TRUE]
    <3> DEFINE stage == FailureStage(state, o.error)
    <3>1. Evaluate(state, o) =
            [publish |-> TRUE,
             event   |-> [stage |-> stage, status |-> "failed", terminal |-> TRUE],
             state   |-> [current |-> stage, terminal |-> TRUE]]
      BY <2>1, <2>2, Zenon DEF Fail, Decision
    <3> HIDE DEF stage
    <3>2. Evaluate(state, o).event.stage = stage
      BY <3>1
    <3>3. Evaluate(state, o).state = [current |-> stage, terminal |-> TRUE]
      BY <3>1
    <3> QED
      BY <3>2, <3>3
  <2>6. Evaluate(state, o).event.terminal = TRUE
    BY <2>1, <2>2 DEF Fail, Decision
  <2> QED
    BY <2>2, <2>3, <2>4, <2>5, <2>6
<1>2. CASE ~IsFailure(o)
  <2>1. Evaluate(state, o) = Advance(state, Candidate(o))
    BY <1>2 DEF Evaluate
  <2>2. IsForward(state, Candidate(o).stage)
    BY <2>1 DEF Advance, Suppressed, Decision
  <2>3. Evaluate(state, o) = Decision(TRUE, Candidate(o),
            [current |-> Candidate(o).stage, terminal |-> Candidate(o).terminal])
    BY <2>1, <2>2 DEF Advance
  <2>4. Evaluate(state, o).event = Candidate(o)
    BY <2>3 DEF Decision
  <2>5. Lifecycle!WellFormed(Candidate(o))
    <3>0. Candidate(o) \in Event
      BY <1>0, <2>4
    <3>1. CASE ObservedStage(o) = "results"
      <4>1. Candidate(o) =
              [stage |-> "results", status |-> "completed", terminal |-> TRUE]
        BY <3>1, Zenon DEF Candidate
      <4> QED
        BY <3>0, <4>1, SameEvents DEF Lifecycle!WellFormed
    <3>2. CASE ObservedStage(o) # "results"
      <4>1. Candidate(o) =
              [stage |-> ObservedStage(o), status |-> "running", terminal |-> FALSE]
        BY <3>2, Zenon DEF Candidate
      <4> QED
        BY <3>0, <3>2, <4>1, SameEvents DEF Lifecycle!WellFormed
    <3> QED
      BY <3>1, <3>2
  <2> QED
    BY <2>2, <2>3, <2>4, <2>5 DEF IsForward, Decision, Candidate
<1> QED
  BY <1>1, <1>2

-----------------------------------------------------------------------------
(***************************************************************************)
(* Streams.                                                                *)
(***************************************************************************)

\* What appending one event does to the events and to the last event.
LEMMA AppendEvent ==
  ASSUME NEW past \in Seq(Event), NEW e \in Event
  PROVE  /\ Append(past, e) \in Seq(Event)
         /\ Append(past, e) # <<>>
         /\ Last(Append(past, e)) = e
         /\ ToSet(Append(past, e)) = ToSet(past) \cup {e}
<1>1. Append(past, e) \in Seq(Event) /\ Append(past, e) # <<>>
  OBVIOUS
<1>2. Last(Append(past, e)) = e
  BY DEF Last
<1>3. ToSet(Append(past, e)) = ToSet(past) \cup {e}
  <2>1. /\ DOMAIN past = 1 .. Len(past)
        /\ DOMAIN Append(past, e) = 1 .. Len(past) + 1
        /\ Len(past) \in Nat
        /\ \A i \in 1 .. Len(past) : Append(past, e)[i] = past[i]
        /\ Append(past, e)[Len(past) + 1] = e
    OBVIOUS
  <2>2. \A i \in DOMAIN Append(past, e) : Append(past, e)[i] \in ToSet(past) \cup {e}
    BY <2>1 DEF ToSet
  <2>3. \A i \in DOMAIN past : past[i] \in ToSet(Append(past, e))
    BY <2>1 DEF ToSet
  <2>4. e \in ToSet(Append(past, e))
    BY <2>1 DEF ToSet
  <2> QED
    BY <2>2, <2>3, <2>4 DEF ToSet
<1> QED
  BY <1>1, <1>2, <1>3

-----------------------------------------------------------------------------
(***************************************************************************)
(* Type correctness.                                                       *)
(***************************************************************************)

\* What a call holds: an observation and a state of the right shape, so that
\* its evaluation has the right shape too.
LEMMA CallType ==
  ASSUME TypeOK, NEW s \in Sources
  PROVE  /\ seen[s] \in StatusState
         /\ signal[s] \in Observation
         /\ Evaluation(s).publish \in BOOLEAN
         /\ Evaluation(s).event \in Event
         /\ Evaluation(s).state \in StatusState
         /\ pc[s] # "idle" => request[s] \in Requests
<1>1. seen[s] \in StatusState /\ signal[s] \in Observation
  BY DEF TypeOK
<1>2. pc[s] # "idle" => request[s] \in Requests
  BY FeedsAssumption DEF TypeOK
<1> QED
  BY <1>1, <1>2, EvaluateType DEF Evaluation

\* The zero values are of the right shape.
LEMMA ZeroTypes ==
  /\ ZeroState \in StatusState
  /\ NoSignal \in Observation
  BY DEF ZeroState, StatusState, NoSignal, Observation, SignalTypes, StageTexts

\* The initial state has the types.
LEMMA TypeInit == Init => TypeOK
  BY ZeroTypes, BoundsAssumption DEF Init, TypeOK, NewMap, Counters

\* Returning from handleSignal keeps the types of the locals.
LEMMA ReturnType ==
  ASSUME TypeOK, NEW s \in Sources, Return(s)
  PROVE  /\ pc' \in [Sources -> {"idle", "read", "stored"}]
         /\ request' \in [Sources -> Requests \cup {NoRequest}]
         /\ signal' \in [Sources -> Observation]
         /\ seen' \in [Sources -> StatusState]
         /\ \A t \in Sources : pc'[t] # "idle" => request'[t] \in Feeds[t]
  BY ZeroTypes DEF TypeOK, Return

\* Every step keeps the types.
LEMMA TypeStep == TypeOK /\ [Next]_vars => TypeOK'
<1> SUFFICES ASSUME TypeOK, [Next]_vars PROVE TypeOK'
  OBVIOUS
<1>1. ASSUME NEW s \in Sources, NEW r \in Feeds[s], NEW o \in Observations,
             ReadState(s, r, o)
      PROVE  TypeOK'
  <2>1. r \in Requests /\ o \in Observation
    BY FeedsAssumption, ObservationsAssumption
  <2>2. states[r] \in StatusState
    BY <2>1 DEF TypeOK
  <2>3. Counters'
    BY <1>1, BoundsAssumption DEF TypeOK, Counters, ReadState
  <2> QED
    BY <1>1, <2>1, <2>2, <2>3 DEF TypeOK, ReadState
<1>2. ASSUME NEW s \in Sources, Ignore(s)
      PROVE  TypeOK'
  BY <1>2, ReturnType DEF TypeOK, Ignore, Counters, counters
<1>3. ASSUME NEW s \in Sources, StoreState(s)
      PROVE  TypeOK'
  BY <1>3, CallType DEF TypeOK, StoreState, Counters, counters
<1>4. ASSUME NEW s \in Sources, Publish(s)
      PROVE  TypeOK'
  <2>1. topic' \in [Requests -> Seq(Event)]
    BY <1>4, CallType, AppendEvent DEF TypeOK, Publish, AppendToTopic
  <2> QED
    BY <1>4, <2>1, ReturnType DEF TypeOK, Publish, Counters, counters
<1>5. ASSUME NEW s \in Sources, PublishFails(s)
      PROVE  TypeOK'
  <2>0. request[s] \in Requests /\ Evaluation(s).event \in Event
    BY <1>5, CallType DEF PublishFails
  <2>1. topic' \in [Requests -> Seq(Event)]
    <3>1. CASE UNCHANGED topic
      BY <3>1 DEF TypeOK
    <3>2. CASE AppendToTopic(s)
      BY <3>2, <2>0, AppendEvent DEF TypeOK, AppendToTopic
    <3> QED
      BY <1>5, <3>1, <3>2 DEF PublishFails
  <2>2. dropped' \in [Requests -> SUBSET Event]
    <3>1. CASE dropped' = [dropped EXCEPT ![request[s]] = @ \cup {Evaluation(s).event}]
      BY <3>1, <2>0 DEF TypeOK
    <3>2. CASE UNCHANGED dropped
      BY <3>2 DEF TypeOK
    <3> QED
      BY <1>5, <3>1, <3>2 DEF PublishFails
  <2>3. Counters'
    BY <1>5, BoundsAssumption DEF TypeOK, Counters, PublishFails
  <2> QED
    BY <1>5, <2>1, <2>2, <2>3, ReturnType DEF TypeOK, PublishFails
<1>6. ASSUME Restart
      PROVE  TypeOK'
  <2>1. Counters'
    BY <1>6, BoundsAssumption DEF TypeOK, Counters, Restart
  <2> QED
    BY <1>6, <2>1, ZeroTypes DEF TypeOK, Restart, NewMap
<1>7. ASSUME UNCHANGED vars
      PROVE  TypeOK'
  BY <1>7 DEF TypeOK, vars, locals, counters, Counters
<1> QED
  BY <1>1, <1>2, <1>3, <1>4, <1>5, <1>6, <1>7 DEF Next, HandleSignal

\* The variables keep their types, whatever the sources, the feeds and the
\* bounds, and a source inside handleSignal holds a request it feeds.
THEOREM TypeCorrect == Spec => []TypeOK
  BY TypeInit, TypeStep, PTL DEF Spec

-----------------------------------------------------------------------------
(***************************************************************************)
(* A closed request has its final event accounted for.                     *)
(***************************************************************************)

\* A stored decision that closes its request carries the final event.
LEMMA ClosingDecision ==
  ASSUME TypeOK, NEW s \in Sources, Evaluation(s).publish, Evaluation(s).state.terminal
  PROVE  Evaluation(s).event.terminal
<1>1. seen[s] \in StatusState /\ signal[s] \in Observation
  BY CallType
<1>2. Evaluation(s).state = [current  |-> Evaluation(s).event.stage,
                             terminal |-> Evaluation(s).event.terminal]
  BY <1>1, EvaluatePublishes DEF Evaluation
<1> QED
  BY <1>2

\* A call of another source that is about to publish the end of r stays so.
LEMMA OthersKeepAnnouncing ==
  ASSUME NEW s \in Sources, NEW t \in Sources, t # s, NEW r \in Requests, TypeOK,
         Return(s), Announcing(t, r), Evaluation(t).event.terminal
  PROVE  Announcing(t, r)' /\ Evaluation(t)'.event.terminal
  BY DEF TypeOK, Return, Announcing, Evaluation

\* No step loses the final event of a closed request.
LEMMA ClosedStep == TypeOK /\ ClosedMeansAnnounced /\ [Next]_vars => ClosedMeansAnnounced'
<1> SUFFICES ASSUME TypeOK, ClosedMeansAnnounced, [Next]_vars,
                    NEW r \in Requests, states'[r].terminal
             PROVE  FinalEventAccounted(r)'
  BY DEF ClosedMeansAnnounced
<1>1. ASSUME NEW s \in Sources, NEW q \in Feeds[s], NEW o \in Observations,
             ReadState(s, q, o)
      PROVE  FinalEventAccounted(r)'
  <2>1. FinalEventAccounted(r)
    BY <1>1 DEF ReadState, ClosedMeansAnnounced
  <2>2. \A t \in Sources : Announcing(t, r) => Announcing(t, r)' /\ Evaluation(t)' = Evaluation(t)
    BY <1>1 DEF ReadState, Announcing, Evaluation, TypeOK
  <2> QED
    BY <1>1, <2>1, <2>2 DEF FinalEventAccounted, ReadState
<1>2. ASSUME NEW s \in Sources, Ignore(s)
      PROVE  FinalEventAccounted(r)'
  <2>1. FinalEventAccounted(r)
    BY <1>2 DEF Ignore, ClosedMeansAnnounced
  <2>2. ~Announcing(s, r)
    BY <1>2 DEF Ignore, Announcing
  <2> QED
    BY <1>2, <2>1, <2>2, OthersKeepAnnouncing DEF FinalEventAccounted, Ignore
<1>3. ASSUME NEW s \in Sources, StoreState(s)
      PROVE  FinalEventAccounted(r)'
  <2>1. \A t \in Sources : Evaluation(t)' = Evaluation(t)
    BY <1>3 DEF StoreState, Evaluation
  <2>2. CASE request[s] = r
    <3>1. states'[r] = Evaluation(s).state
      BY <1>3, <2>2 DEF StoreState, TypeOK
    <3>2. Evaluation(s).event.terminal
      BY <1>3, <3>1, ClosingDecision DEF StoreState
    <3>3. Announcing(s, r)'
      BY <1>3, <2>2 DEF StoreState, Announcing, TypeOK
    <3> QED
      BY <2>1, <3>2, <3>3 DEF FinalEventAccounted
  <2>3. CASE request[s] # r
    <3>1. states'[r] = states[r]
      BY <1>3, <2>3, CallType DEF StoreState, TypeOK
    <3>2. FinalEventAccounted(r)
      BY <3>1 DEF ClosedMeansAnnounced
    <3>3. \A t \in Sources : Announcing(t, r) => Announcing(t, r)'
      BY <1>3 DEF StoreState, Announcing, TypeOK
    <3> QED
      BY <1>3, <2>1, <3>2, <3>3 DEF FinalEventAccounted, StoreState
  <2> QED
    BY <2>2, <2>3
<1>4. ASSUME NEW s \in Sources, pc[s] = "stored", Return(s), states' = states,
             \/ AppendToTopic(s) /\ dropped' = dropped
             \/ /\ dropped' = [dropped EXCEPT ![request[s]] = @ \cup {Evaluation(s).event}]
                /\ topic' = topic
      PROVE  FinalEventAccounted(r)'
  <2>1. FinalEventAccounted(r)
    BY <1>4 DEF ClosedMeansAnnounced
  <2>2. request[s] \in Requests /\ Evaluation(s).event \in Event
    BY <1>4, CallType
  <2>3. topic[request[s]] \in Seq(Event)
    BY <2>2 DEF TypeOK
  <2>4. ToSet(topic[r]) \subseteq ToSet(topic'[r]) /\ dropped[r] \subseteq dropped'[r]
    <3>1. CASE AppendToTopic(s) /\ dropped' = dropped
      <4>1. CASE request[s] = r
        <5>1. topic'[r] = Append(topic[r], Evaluation(s).event)
          BY <3>1, <4>1 DEF AppendToTopic, TypeOK
        <5> QED
          BY <2>2, <2>3, <3>1, <4>1, <5>1, AppendEvent
      <4>2. CASE request[s] # r
        BY <3>1, <4>2 DEF AppendToTopic, TypeOK
      <4> QED
        BY <4>1, <4>2
    <3>2. CASE /\ dropped' = [dropped EXCEPT ![request[s]] = @ \cup {Evaluation(s).event}]
               /\ topic' = topic
      BY <3>2 DEF TypeOK
    <3> QED
      BY <1>4, <3>1, <3>2
  <2>5. CASE Announcing(s, r) /\ Evaluation(s).event.terminal
    <3>1. Evaluation(s).event \in ToSet(topic'[r]) \cup dropped'[r]
      <4>1. CASE AppendToTopic(s) /\ dropped' = dropped
        <5>1. topic'[r] = Append(topic[r], Evaluation(s).event)
          BY <2>5, <4>1 DEF AppendToTopic, TypeOK, Announcing
        <5> QED
          BY <2>2, <2>3, <2>5, <5>1, AppendEvent DEF Announcing
      <4>2. CASE /\ dropped' = [dropped EXCEPT ![request[s]] = @ \cup {Evaluation(s).event}]
                 /\ topic' = topic
        BY <2>5, <4>2 DEF TypeOK, Announcing
      <4> QED
        BY <1>4, <4>1, <4>2
    <3> QED
      BY <2>5, <3>1 DEF FinalEventAccounted, HasFinalEvent
  <2>6. CASE ~(Announcing(s, r) /\ Evaluation(s).event.terminal)
    BY <1>4, <2>1, <2>4, <2>6, OthersKeepAnnouncing DEF FinalEventAccounted, HasFinalEvent
  <2> QED
    BY <2>5, <2>6
<1>5. ASSUME NEW s \in Sources, Publish(s)
      PROVE  FinalEventAccounted(r)'
  BY <1>4, <1>5 DEF Publish
<1>6. ASSUME NEW s \in Sources, PublishFails(s)
      PROVE  FinalEventAccounted(r)'
  BY <1>4, <1>6 DEF PublishFails
<1>7. ASSUME Restart
      PROVE  FinalEventAccounted(r)'
  BY <1>7 DEF Restart, NewMap, ZeroState
<1>8. ASSUME UNCHANGED vars
      PROVE  FinalEventAccounted(r)'
  BY <1>8 DEF vars, locals, ClosedMeansAnnounced, FinalEventAccounted, Announcing, Evaluation
<1> QED
  BY <1>1, <1>2, <1>3, <1>5, <1>6, <1>7, <1>8 DEF Next, HandleSignal

\* However the calls of any number of sources interleave, fail and restart, a
\* request the map holds as closed has its final event on the topic, in a call
\* that is about to publish it, or among the events Kafka refused.
THEOREM ClosedRequestsAnnounced == Spec => []ClosedMeansAnnounced
<1>1. Init => ClosedMeansAnnounced
  BY DEF Init, NewMap, ZeroState, ClosedMeansAnnounced
<1>2. TypeOK /\ ClosedMeansAnnounced /\ [Next]_vars => ClosedMeansAnnounced'
  BY ClosedStep
<1> QED
  BY <1>1, <1>2, TypeCorrect, PTL DEF Spec

-----------------------------------------------------------------------------
(***************************************************************************)
(* Only a stale reader reopens a closed request.                           *)
(***************************************************************************)

\* A call that has seen its request closed stores nothing (engine.go:26, :48).
LEMMA ClosedIsSuppressed ==
  ASSUME TypeOK, NEW s \in Sources, Evaluation(s).publish
  PROVE  ~seen[s].terminal
<1>1. seen[s] \in StatusState /\ signal[s] \in Observation
  BY CallType
<1> QED
  BY <1>1, EvaluatePublishes DEF Evaluation

\* What ClosedStaysClosed says of a step.
Kept ==
    \A r \in Requests :
        /\ states[r].terminal
        /\ \A s \in Sources : ~StaleReader(s, r)
        /\ restarts' = restarts
        => states'[r] = states[r]

\* Only a call that has seen an older open state stores one over a closed entry.
LEMMA KeptStep == TypeOK /\ [Next]_vars => [Kept]_vars
<1> SUFFICES ASSUME TypeOK, Next, NEW r \in Requests,
                    states[r].terminal,
                    \A s \in Sources : ~StaleReader(s, r),
                    restarts' = restarts
             PROVE  states'[r] = states[r]
  BY DEF Kept
<1>1. ASSUME NEW s \in Sources, StoreState(s)
      PROVE  states'[r] = states[r]
  <2>1. ~seen[s].terminal
    BY <1>1, ClosedIsSuppressed DEF StoreState
  <2>2. request[s] # r
    BY <1>1, <2>1 DEF StoreState, StaleReader
  <2> QED
    BY <1>1, <2>2, CallType DEF StoreState, TypeOK
<1>2. ~Restart
  BY BoundsAssumption DEF Restart, TypeOK, Counters
<1> QED
  BY <1>1, <1>2 DEF Next, HandleSignal, ReadState, Ignore, Publish, PublishFails

\* For any sources and any interleaving, a closed request of which no call holds
\* an older open state keeps its entry as it is until the process restarts.
THEOREM ClosedRequestsStayClosed == Spec => ClosedStaysClosed
<1>1. Spec => [][Kept]_vars
  BY KeptStep, TypeCorrect, PTL DEF Spec
<1> QED
  BY <1>1 DEF ClosedStaysClosed, Kept

-----------------------------------------------------------------------------
(***************************************************************************)
(* A request with one source, until the restart: its topic is a lifecycle. *)
(***************************************************************************)

\* Two calls that hold the same owned request are calls of one source.
LEMMA OneCallPerRequest ==
  ASSUME TypeOK, NEW s \in Sources, NEW t \in Sources, request[s] \in Owned,
         pc[s] # "idle", pc[t] # "idle", request[s] = request[t]
  PROVE  s = t
  BY DEF TypeOK, Owned

\* The engine's next state is ahead of whatever the state it was given was.
LEMMA DecisionNotBehind ==
  ASSUME TypeOK, NEW s \in Sources, Evaluation(s).publish,
         NEW past \in Seq(Event), NotBehind(past, seen[s])
  PROVE  /\ Lifecycle!MayFollow(past, Evaluation(s).event)
         /\ Lifecycle!WellFormed(Evaluation(s).event)
         /\ NotBehind(past, Evaluation(s).state)
         /\ NotBehind(Append(past, Evaluation(s).event), Evaluation(s).state)
         /\ Evaluation(s).state = StateAfter(Append(past, Evaluation(s).event))
<1> DEFINE e == Evaluation(s).event
<1>1. /\ seen[s] \in StatusState
      /\ signal[s] \in Observation
      /\ e \in Event
      /\ Evaluation(s).state \in StatusState
  BY CallType
<1>2. /\ ~seen[s].terminal
      /\ Lifecycle!WellFormed(e)
      /\ Evaluation(s).state = [current |-> e.stage, terminal |-> e.terminal]
      /\ \/ e.status = "failed" /\ e.terminal
         \/ seen[s].current = NoStage
         \/ Rank(e.stage) > Rank(seen[s].current)
  BY <1>1, EvaluatePublishes DEF Evaluation
<1>3. e.stage \in Stages /\ e.stage # NoStage
  BY <1>1 DEF Event, Stages, NoStage
<1> HIDE DEF e
<1>4. /\ Append(past, e) # <<>>
      /\ Last(Append(past, e)) = e
  BY <1>1, AppendEvent
<1>5. Rank(e.stage) \in Int /\ Rank(seen[s].current) \in Int /\ Rank(Last(past).stage) \in Int
  BY RankType
<1>6. \/ past = <<>>
      \/ /\ ~Last(past).terminal
         /\ \/ e.status = "failed" /\ e.terminal
            \/ Rank(e.stage) > Rank(Last(past).stage)
  BY <1>2, <1>5 DEF NotBehind
<1>7. Lifecycle!MayFollow(past, e)
  BY <1>6, SameRank DEF Lifecycle!MayFollow, Lifecycle!Last, Last
<1>8. NotBehind(past, [current |-> e.stage, terminal |-> e.terminal])
  BY <1>3, <1>5, <1>6 DEF NotBehind
<1>9. NotBehind(Append(past, e), [current |-> e.stage, terminal |-> e.terminal])
  BY <1>3, <1>4, <1>5 DEF NotBehind
<1>10. StateAfter(Append(past, e)) = [current |-> e.stage, terminal |-> e.terminal]
  BY <1>4 DEF StateAfter
<1> QED
  BY <1>2, <1>7, <1>8, <1>9, <1>10 DEF e

\* Before the first signal the topic and the map are both empty.
LEMMA OwnedInit == Init => OwnedInv
<1> SUFFICES ASSUME Init PROVE OwnedInv
  OBVIOUS
<1>1. TypeOK
  BY TypeInit
<1>2. \A r \in Owned : Tracks(r, states[r])
  BY DEF Init, NewMap, Tracks, NotBehind, StateAfter, Owned
<1> QED
  BY <1>1, <1>2 DEF Init, OwnedInv, InStep, ReadIsCurrent, StoredIsDecided, QuietIsTracked

\* A publish, or the refusal of one, by source s.
LEMMA OwnedPublish ==
  ASSUME TypeOK, InStep,
         NEW s \in Sources, NEW r \in Requests, request[s] = r,
         pc[s] = "stored", Return(s), states' = states,
         \/ AppendToTopic(s) /\ dropped' = dropped
         \/ /\ dropped' = [dropped EXCEPT ![request[s]] = @ \cup {Evaluation(s).event}]
            /\ topic' = topic
  PROVE  InStep'
<1>1. /\ topic[r] \in Seq(Event)
      /\ r \in Owned =>
           /\ Evaluation(s).publish
           /\ states[r] = Evaluation(s).state
           /\ Tracks(r, seen[s])
  BY DEF InStep, StoredIsDecided, TypeOK
<1>2. \A t \in Sources : t # s =>
         /\ pc'[t] = pc[t]
         /\ request'[t] = request[t]
         /\ seen'[t] = seen[t]
         /\ Evaluation(t)' = Evaluation(t)
  BY DEF Return, TypeOK, Evaluation
<1>3. pc'[s] = "idle"
  BY DEF Return, TypeOK
<1>4. \A q \in Requests : q # r => topic'[q] = topic[q] /\ dropped'[q] = dropped[q]
  BY DEF AppendToTopic, TypeOK
<1>5. ReadIsCurrent'
  BY <1>2, <1>3 DEF ReadIsCurrent, InStep
<1>6. \A t \in Sources :
         t # s /\ pc[t] # "idle" /\ request[t] \in Owned => request[t] # r /\ request[t] \in Requests
  BY OneCallPerRequest, CallType
<1>7. StoredIsDecided'
  BY <1>2, <1>3, <1>4, <1>6 DEF StoredIsDecided, InStep, Tracks
<1>8. r \in Owned => Tracks(r, states[r])'
  <2> SUFFICES ASSUME r \in Owned PROVE Tracks(r, states[r])'
    OBVIOUS
  <2>1. CASE AppendToTopic(s) /\ dropped' = dropped
    <3>1. topic'[r] = Append(topic[r], Evaluation(s).event)
      BY <2>1, <1>1 DEF AppendToTopic, TypeOK
    <3> QED
      BY <1>1, <3>1, DecisionNotBehind DEF Tracks
  <2>2. CASE /\ dropped' = [dropped EXCEPT ![request[s]] = @ \cup {Evaluation(s).event}]
             /\ topic' = topic
    <3>1. dropped'[r] # {}
      BY <2>2, <1>1 DEF TypeOK
    <3> QED
      BY <1>1, <2>2, <3>1, DecisionNotBehind DEF Tracks
  <2> QED
    BY <2>1, <2>2
<1>9. QuietIsTracked'
  <2> SUFFICES ASSUME NEW q \in Owned, \A t \in Sources : ~Announcing(t, q)'
               PROVE  Tracks(q, states[q])'
    BY DEF QuietIsTracked
  <2>1. CASE q = r
    BY <1>8, <2>1
  <2>2. CASE q # r
    <3>1. \A t \in Sources : ~Announcing(t, q)
      BY <1>2, <2>2 DEF Announcing
    <3>2. q \in Requests
      BY DEF Owned
    <3> QED
      BY <1>4, <2>2, <3>1, <3>2 DEF InStep, QuietIsTracked, Tracks
  <2> QED
    BY <2>1, <2>2
<1> QED
  BY <1>5, <1>7, <1>9 DEF InStep

\* Until the process restarts, every step keeps the topic of an owned request and
\* the next decision about it together.
LEMMA OwnedStep == OwnedInv /\ [Next]_vars => OwnedInv'
<1> SUFFICES ASSUME OwnedInv, [Next]_vars PROVE OwnedInv'
  OBVIOUS
<1>t. TypeOK /\ TypeOK'
  BY TypeStep DEF OwnedInv
<1> SUFFICES ASSUME restarts' = 0 PROVE InStep'
  BY <1>t DEF OwnedInv
<1>6. ~Restart
  BY <1>t DEF Restart, TypeOK, Counters
<1>0. InStep
  BY <1>6, <1>t DEF OwnedInv, Next, HandleSignal, ReadState, Ignore, StoreState, Publish,
     PublishFails, vars, counters
<1>1. ASSUME NEW s \in Sources, NEW r \in Feeds[s], NEW o \in Observations,
             ReadState(s, r, o)
      PROVE  InStep'
  <2>1. \A t \in Sources : t # s =>
           /\ pc'[t] = pc[t]
           /\ request'[t] = request[t]
           /\ seen'[t] = seen[t]
           /\ Evaluation(t)' = Evaluation(t)
    BY <1>1, <1>t DEF ReadState, TypeOK, Evaluation
  <2>2. pc'[s] = "read" /\ seen'[s] = states'[request'[s]]
    BY <1>1, <1>t DEF ReadState, TypeOK
  <2>3. \A q : Announcing(s, q) = FALSE /\ Announcing(s, q)' = FALSE
    BY <1>1, <2>2 DEF ReadState, Announcing
  <2>4. ReadIsCurrent'
    BY <1>0, <1>1, <2>1, <2>2 DEF ReadIsCurrent, InStep, ReadState
  <2>5. StoredIsDecided'
    BY <1>0, <1>1, <2>1, <2>2 DEF StoredIsDecided, InStep, ReadState, Tracks
  <2>6. QuietIsTracked'
    <3> SUFFICES ASSUME NEW q \in Owned, \A t \in Sources : ~Announcing(t, q)'
                 PROVE  Tracks(q, states[q])'
      BY DEF QuietIsTracked
    <3>1. \A t \in Sources : ~Announcing(t, q)
      BY <2>1, <2>3 DEF Announcing
    <3> QED
      BY <1>0, <1>1, <3>1 DEF InStep, QuietIsTracked, Tracks, ReadState
  <2> QED
    BY <1>0, <2>4, <2>5, <2>6 DEF InStep
<1>2. ASSUME NEW s \in Sources, Ignore(s)
      PROVE  InStep'
  <2>1. \A t \in Sources : t # s =>
           /\ pc'[t] = pc[t]
           /\ request'[t] = request[t]
           /\ seen'[t] = seen[t]
           /\ Evaluation(t)' = Evaluation(t)
    BY <1>2, <1>t DEF Ignore, Return, TypeOK, Evaluation
  <2>2. pc'[s] = "idle" /\ pc[s] = "read"
    BY <1>2, <1>t DEF Ignore, Return, TypeOK
  <2>3. ReadIsCurrent'
    BY <1>0, <1>2, <2>1, <2>2 DEF ReadIsCurrent, InStep, Ignore
  <2>4. StoredIsDecided'
    BY <1>0, <1>2, <2>1, <2>2 DEF StoredIsDecided, InStep, Ignore, Tracks
  <2>5. QuietIsTracked'
    <3> SUFFICES ASSUME NEW q \in Owned, \A t \in Sources : ~Announcing(t, q)'
                 PROVE  Tracks(q, states[q])'
      BY DEF QuietIsTracked
    <3>1. \A t \in Sources : ~Announcing(t, q)
      BY <2>1, <2>2 DEF Announcing
    <3> QED
      BY <1>0, <1>2, <3>1 DEF InStep, QuietIsTracked, Tracks, Ignore
  <2> QED
    BY <1>0, <2>3, <2>4, <2>5 DEF InStep
<1>3. ASSUME NEW s \in Sources, StoreState(s)
      PROVE  InStep'
  <2> DEFINE r == request[s]
  <2>1. r \in Requests /\ Evaluation(s).publish /\ pc[s] = "read" /\ pc'[s] = "stored"
    BY <1>3, <1>t, CallType DEF StoreState, TypeOK
  <2>2. \A t \in Sources : Evaluation(t)' = Evaluation(t)
    BY <1>3 DEF StoreState, Evaluation
  <2>3. /\ states'[r] = Evaluation(s).state
        /\ \A q \in Requests : q # r => states'[q] = states[q]
    BY <1>3, <2>1, <1>t DEF StoreState, TypeOK
  <2>4. \A t \in Sources :
           t # s /\ pc[t] # "idle" /\ request[t] \in Owned => request[t] # r /\ request[t] \in Requests
    BY <1>t, <2>1, OneCallPerRequest, CallType
  <2>5. \A t \in Sources : t # s => pc'[t] = pc[t]
    BY <1>3, <1>t DEF StoreState, TypeOK
  <2>6. ReadIsCurrent'
    BY <1>0, <1>3, <2>1, <2>3, <2>4, <2>5 DEF ReadIsCurrent, InStep, StoreState
  <2>7. r \in Owned => \A t \in Sources : ~Announcing(t, r)
    BY <2>1, <2>4 DEF Announcing
  <2>8. r \in Owned => Tracks(r, seen[s])
    BY <1>0, <2>1, <2>7 DEF InStep, ReadIsCurrent, QuietIsTracked
  <2>9. StoredIsDecided'
    <3> SUFFICES ASSUME NEW t \in Sources, pc'[t] = "stored", request'[t] \in Owned
                 PROVE  /\ Evaluation(t)'.publish
                        /\ states'[request'[t]] = Evaluation(t)'.state
                        /\ Tracks(request[t], seen[t])'
      BY DEF StoredIsDecided
    <3>1. CASE t = s
      BY <1>3, <2>1, <2>2, <2>3, <2>8, <3>1 DEF StoreState, Tracks
    <3>2. CASE t # s
      BY <1>0, <1>3, <2>2, <2>3, <2>4, <2>5, <3>2 DEF StoreState, Tracks, InStep, StoredIsDecided
    <3> QED
      BY <3>1, <3>2
  <2>10. QuietIsTracked'
    <3> SUFFICES ASSUME NEW q \in Owned, \A t \in Sources : ~Announcing(t, q)'
                 PROVE  Tracks(q, states[q])'
      BY DEF QuietIsTracked
    <3>1. q # r
      BY <1>3, <2>1 DEF Announcing, StoreState
    <3>2. \A t \in Sources : ~Announcing(t, q)
      BY <1>3, <2>1, <2>5 DEF Announcing, StoreState
    <3>3. q \in Requests
      BY DEF Owned
    <3> QED
      BY <1>0, <1>3, <2>3, <3>1, <3>2, <3>3 DEF InStep, QuietIsTracked, Tracks, StoreState
  <2> QED
    BY <1>0, <2>6, <2>9, <2>10 DEF InStep
<1>4. ASSUME NEW s \in Sources, Publish(s)
      PROVE  InStep'
  <2>1. request[s] \in Requests
    BY <1>4, <1>t, CallType DEF Publish
  <2> QED
    BY <1>0, <1>4, <1>t, <2>1, OwnedPublish DEF Publish
<1>5. ASSUME NEW s \in Sources, PublishFails(s)
      PROVE  InStep'
  <2>1. request[s] \in Requests
    BY <1>5, <1>t, CallType DEF PublishFails
  <2> QED
    BY <1>0, <1>5, <1>t, <2>1, OwnedPublish DEF PublishFails
<1>7. ASSUME UNCHANGED vars
      PROVE  InStep'
  BY <1>0, <1>7, <1>t DEF vars, locals, InStep, ReadIsCurrent, StoredIsDecided,
     QuietIsTracked, Tracks, Announcing, Evaluation
<1> QED
  BY <1>1, <1>2, <1>3, <1>4, <1>5, <1>6, <1>7 DEF Next, HandleSignal

\* The strengthening holds of every run.
LEMMA OwnedInvariant == Spec => []OwnedInv
  BY OwnedInit, OwnedStep, PTL DEF Spec

\* Until the process restarts, the map and the topic agree on every request that one
\* source reports on, that is not in flight and of which Kafka has refused nothing,
\* however the sources race about other requests.
THEOREM MapAgreesWithTopic == Spec => []MapMatchesTopic
<1>1. OwnedInv => MapMatchesTopic
  BY DEF OwnedInv, InStep, QuietIsTracked, Tracks, MapMatchesTopic
<1> QED
  BY <1>1, OwnedInvariant, PTL

\* A step that changes the topic appends the event of one call, which the lifecycle
\* allows when its request is owned and the process has not restarted.
LEMMA TopicStep ==
  ASSUME OwnedInv, Next, topic' # topic
  PROVE  \E s \in Sources :
           /\ AppendToTopic(s) /\ request[s] \in Requests
           /\ restarts = 0 /\ request[s] \in Owned =>
                /\ Lifecycle!WellFormed(Evaluation(s).event)
                /\ Lifecycle!MayFollow(topic[request[s]], Evaluation(s).event)
<1>1. PICK s \in Sources : pc[s] = "stored" /\ AppendToTopic(s)
  BY DEF Next, HandleSignal, ReadState, Ignore, StoreState, Publish, PublishFails, Restart
<1>2. request[s] \in Requests /\ topic[request[s]] \in Seq(Event)
  BY <1>1, CallType DEF OwnedInv, TypeOK
<1>3. CASE restarts = 0 /\ request[s] \in Owned
  <2>1. Evaluation(s).publish /\ NotBehind(topic[request[s]], seen[s])
    BY <1>1, <1>3 DEF OwnedInv, InStep, StoredIsDecided, Tracks
  <2> QED
    BY <1>1, <1>2, <2>1, DecisionNotBehind DEF OwnedInv
<1>4. CASE ~(restarts = 0 /\ request[s] \in Owned)
  BY <1>1, <1>2, <1>4
<1> QED
  BY <1>3, <1>4

\* When no two sources report on one request and the process does not restart,
\* the service implements the lifecycle: the stages on the topic only move
\* forward, a failure may end a stream at any point, and nothing follows a
\* terminal event, even when publishes fail.
THEOREM HandlerImplementsLifecycle ==
  ASSUME Owned = Requests, MaxRestarts = 0
  PROVE  Spec => LifecycleOrder
<1>1. Init => Lifecycle!Init
  BY DEF Init, Lifecycle!Init
<1>2. OwnedInv /\ [Next]_vars => [Lifecycle!Next]_topic
  <2> SUFFICES ASSUME OwnedInv, Next, topic' # topic PROVE Lifecycle!Next
    BY DEF vars
  <2>1. restarts = 0
    BY DEF OwnedInv, TypeOK, Counters
  <2>2. PICK s \in Sources :
           /\ AppendToTopic(s) /\ request[s] \in Requests
           /\ Lifecycle!WellFormed(Evaluation(s).event)
           /\ Lifecycle!MayFollow(topic[request[s]], Evaluation(s).event)
    BY <2>1, TopicStep
  <2>3. Lifecycle!Announce(request[s], Evaluation(s).event)
    BY <2>2 DEF Lifecycle!Announce, AppendToTopic
  <2> QED
    BY <2>2, <2>3 DEF Lifecycle!Next, Lifecycle!WellFormed
<1> QED
  BY <1>1, <1>2, OwnedInvariant, PTL DEF Spec, LifecycleOrder, Lifecycle!Spec

\* The rules about one stream do not depend on which streams there are.
LEMMA SameRules ==
  /\ \A e : OwnedLifecycle!WellFormed(e) <=> Lifecycle!WellFormed(e)
  /\ \A past, e : OwnedLifecycle!MayFollow(past, e) <=> Lifecycle!MayFollow(past, e)
<1>1. OwnedLifecycle!Event = Lifecycle!Event
  BY DEF OwnedLifecycle!Event, OwnedLifecycle!Stages, Lifecycle!Event, Lifecycle!Stages
<1>2. \A stage : OwnedLifecycle!Rank(stage) = Lifecycle!Rank(stage)
  BY DEF OwnedLifecycle!Rank, OwnedLifecycle!IsValid, OwnedLifecycle!OrderedStages,
     Lifecycle!Rank, Lifecycle!IsValid, Lifecycle!OrderedStages
<1>3. \A past : OwnedLifecycle!Last(past) = Lifecycle!Last(past)
  BY DEF OwnedLifecycle!Last, Lifecycle!Last
<1>4. \A e : OwnedLifecycle!WellFormed(e) <=> Lifecycle!WellFormed(e)
  BY <1>1 DEF OwnedLifecycle!WellFormed, Lifecycle!WellFormed
<1>5. \A past, e : OwnedLifecycle!MayFollow(past, e) <=> Lifecycle!MayFollow(past, e)
  BY <1>2, <1>3 DEF OwnedLifecycle!MayFollow, Lifecycle!MayFollow
<1> QED
  BY <1>4, <1>5

\* And for any sources: until the process restarts, the streams of the requests that
\* one source reports on implement the lifecycle, whatever races there are about
\* the others and whichever publishes fail.
THEOREM OwnedStreamsFollow == Spec => OwnedLifecycleOrder
<1>1. Init => OwnedLifecycle!Init
  BY DEF Init, OwnedLifecycle!Init, OwnedTopic, Owned
<1>2. OwnedInv /\ [Next]_vars => [OwnedLifecycle!Next \/ restarts > 0]_OwnedTopic
  <2> SUFFICES ASSUME OwnedInv, Next, ~(restarts > 0), OwnedTopic' # OwnedTopic
               PROVE  OwnedLifecycle!Next
    BY DEF vars, OwnedTopic
  <2>1. restarts = 0 /\ topic \in [Requests -> Seq(Event)]
    BY DEF OwnedInv, TypeOK, Counters
  <2>2. PICK s \in Sources :
           /\ AppendToTopic(s) /\ request[s] \in Requests
           /\ request[s] \in Owned =>
                /\ Lifecycle!WellFormed(Evaluation(s).event)
                /\ Lifecycle!MayFollow(topic[request[s]], Evaluation(s).event)
    BY <2>1, TopicStep DEF OwnedTopic
  <2> DEFINE r == request[s]
             e == Evaluation(s).event
  <2>3. \A q \in Requests : topic'[q] = IF q = r THEN Append(topic[r], e) ELSE topic[q]
    BY <2>1, <2>2 DEF AppendToTopic
  <2>4. Owned \subseteq Requests
    BY DEF Owned
  <2>5. r \in Owned
    BY <2>3, <2>4 DEF OwnedTopic
  <2>6. OwnedTopic' = [OwnedTopic EXCEPT ![r] = Append(@, e)] /\ OwnedTopic[r] = topic[r]
    BY <2>3, <2>4, <2>5 DEF OwnedTopic
  <2>7. OwnedLifecycle!WellFormed(e) /\ OwnedLifecycle!MayFollow(OwnedTopic[r], e)
    BY <2>2, <2>5, <2>6, SameRules
  <2>8. OwnedLifecycle!Announce(r, e)
    BY <2>6, <2>7 DEF OwnedLifecycle!Announce
  <2> QED
    BY <2>5, <2>7, <2>8 DEF OwnedLifecycle!Next, OwnedLifecycle!WellFormed
<1> QED
  BY <1>1, <1>2, OwnedInvariant, PTL DEF Spec, OwnedLifecycleOrder

=============================================================================
