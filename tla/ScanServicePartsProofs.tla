------------------------ MODULE ScanServicePartsProofs ------------------------
(***************************************************************************)
(* What is proved of the parts of the service holds of them in the         *)
(* service.  ProcessScanRequest and ObservationHandler are theorems about  *)
(* one component with a topic of its own; here workers and goroutines      *)
(* share the topic, its faults and the end of the process, and a worker    *)
(* may give a delivery up.                                                 *)
(***************************************************************************)
EXTENDS ScanServiceProofs

\* What is proved of the handler and of the deliveries alone.
Handler == INSTANCE ObservationHandlerProofs
             WITH Requests <- Scans, Feeds <- [s \in Sources |-> Scans],
                  pc <- call, restarts <- C!Ends, MaxRestarts <- MaxEnds

Request == INSTANCE ProcessScanRequestProofs
             WITH Scan <- [a \in Attempts |-> Carries[a[1]]],
                  pc <- at, crashes <- C!Ends, MaxCrashes <- MaxEnds

\* What ObservationHandler and ProcessScanRequest assume of their constants.
HandlerAssumptions ==
    /\ Handler!RequestsAssumption
    /\ Handler!ObservationsAssumption
    /\ Handler!BoundsAssumption

RequestAssumptions ==
    /\ Request!PodChecksAssumption
    /\ Request!BoundsAssumption

\* The service assumes it too.
LEMMA HandlerAssumed == HandlerAssumptions
<1>1. H!Observation = Handler!Observation
  BY DEF H!Observation, Handler!Observation, H!SignalTypes, Handler!SignalTypes,
     H!StageTexts, Handler!StageTexts, H!Stages, Handler!Stages, H!NoStage, Handler!NoStage,
     H!UnknownStage, Handler!UnknownStage, H!NoError, Handler!NoError
<1> QED
  BY <1>1, PartsAssumption DEF HandlerAssumptions, H!RequestsAssumption,
     H!ObservationsAssumption, H!BoundsAssumption, Handler!RequestsAssumption,
     Handler!ObservationsAssumption, Handler!BoundsAssumption

\* And the bounds of the deliveries.
LEMMA RequestBoundsAssumed == RequestAssumptions
  BY PartsAssumption DEF RequestAssumptions, P!PodChecksAssumption, P!BoundsAssumption,
     Request!PodChecksAssumption, Request!BoundsAssumption

\* The requests that sources report on and messages carry are requests of the service.
LEMMA FeedsAndScans == Handler!FeedsAssumption /\ Request!ScanAssumption
<1>1. Handler!FeedsAssumption
  BY DEF Handler!FeedsAssumption
<1>2. \A a \in Attempts : Carries[a[1]] \in Scans
  BY CarriesAssumption DEF Attempts
<1> QED
  BY <1>1, <1>2 DEF Request!ScanAssumption

-----------------------------------------------------------------------------
(***************************************************************************)
(* The ends of processes, which both components count.                     *)
(***************************************************************************)
StopsType == cancels \in Nat /\ crashes \in Nat

\* Ends and crashes are only ever counted up.
LEMMA StopsStep == StopsType /\ [Next]_service => StopsType'
<1> SUFFICES ASSUME StopsType, [Next]_service PROVE StopsType'
  OBVIOUS
<1>1. [C!Next]_C!vars
  BY ConsumerStep
<1>2. \/ UNCHANGED <<cancels, crashes>>
      \/ cancels' = cancels + 1 /\ UNCHANGED crashes
      \/ crashes' = crashes + 1 /\ UNCHANGED cancels
  BY <1>1 DEF C!Next, C!vars, C!Poll, C!FetchMessage, C!FetchCancelled, C!Enqueue,
     C!EnqueueCancelled, C!Rebalance, C!Cancel, C!MainReturns, C!Crash, C!Work, C!Take,
     C!WorkerStops, C!HandleRequest, C!HandleInterrupted, C!Commit, C!CommitLost, C!stops
<1> QED
  BY <1>2 DEF StopsType

\* Nothing but a restart counts as the end of a process.
LEMMA EndsStay ==
  ASSUME StopsType, [Next]_service, ~Restart
  PROVE  UNCHANGED C!Ends
<1>1. CASE Cancel
  BY <1>1 DEF Cancel, C!Cancel, C!Ends, StopsType
<1>2. CASE UNCHANGED <<cancels, crashes, cancelled>>
  BY <1>2 DEF C!Ends
<1>3. CASE Poll
  BY <1>2, <1>3 DEF Poll, C!Poll, C!FetchMessage, C!FetchCancelled, C!Enqueue,
     C!EnqueueCancelled, C!Rebalance, C!stops
<1>4. ASSUME NEW w \in Workers, Work(w) PROVE UNCHANGED <<cancels, crashes, cancelled>>
  BY <1>4 DEF Work, Take, Execute, Handled, Interrupted, Finish, consumer, C!Take,
     C!WorkerStops, C!HandleRequest, C!HandleInterrupted, C!Commit, C!CommitLost, C!stops
<1>5. CASE Kubernetes \/ (\E s \in Sources : Observe(s)) \/ UNCHANGED service
  BY <1>2, <1>5 DEF Kubernetes, Observe, service, consumer
<1> QED
  BY <1>1, <1>2, <1>3, <1>4, <1>5 DEF Next

-----------------------------------------------------------------------------
(***************************************************************************)
(* The steps of the service, to the handler.                               *)
(***************************************************************************)

\* The events of Execute are events.
LEMMA ExecuteEvents ==
  P!AcceptedEvent \in Event /\ P!RunningEvent \in Event /\ P!FailedEvent \in Event
  BY DEF P!AcceptedEvent, P!RunningEvent, P!FailedEvent, Event, Stages

\* A publish of Execute is another's to the handler.
LEMMA PublishIsOther ==
  ASSUME NEW a \in Attempts, NEW from, NEW e \in Event, NEW label, P!Publish(a, from, e, label)
  PROVE  OtherPublish
<1>1. Carries[a[1]] \in Scans
  BY CarriesAssumption DEF Attempts
<1>2. P!Say(a, e) => topic' = [topic EXCEPT ![Carries[a[1]]] = Append(@, e)]
  BY DEF P!Say
<1> QED
  BY <1>1, <1>2 DEF P!Publish, P!events, OtherPublish

\* So is every other step of Execute.
LEMMA ExecuteIsOther ==
  ASSUME NEW a \in Attempts, P!Execute(a)
  PROVE  OtherPublish
<1>1. CASE P!PublishAccepted(a) \/ P!PublishRunning(a) \/ P!PublishFailure(a)
  BY <1>1, ExecuteEvents, PublishIsOther
     DEF P!PublishAccepted, P!PublishRunning, P!PublishFailure
<1>2. CASE ~(P!PublishAccepted(a) \/ P!PublishRunning(a) \/ P!PublishFailure(a))
  <2>1. UNCHANGED <<topic, failures>>
    BY <1>2 DEF P!Execute, P!Admit, P!CheckPods, P!Decrypt, P!Verify, P!Build, P!Create,
       P!GetExisting, P!Update, P!Answer, P!Write, P!events, P!counters
  <2> QED
    BY <2>1 DEF OtherPublish
<1> QED
  BY <1>1, <1>2

\* Every step of the service is one of the handler, or one it meets.
LEMMA HandlerStep ==
  ASSUME PoolPlaced, StopsType, [Next]_service
  PROVE  [H!Next \/ AroundHandler]_H!vars
<1>1. ASSUME UNCHANGED <<handler, publisher>>, ~Restart PROVE UNCHANGED H!vars
  BY <1>1, EndsStay DEF handler, publisher, H!vars, H!locals, H!counters
<1>2. CASE Poll \/ Cancel \/ Kubernetes \/ UNCHANGED service
  <2>1. UNCHANGED <<handler, publisher>>
    BY <1>2 DEF Poll, Cancel, Idle, Kubernetes, P!OperatorActs, P!Delete, P!events,
       P!counters, publisher, service
  <2>2. CASE Restart
    BY <2>2 DEF Restart, H!Next
  <2> QED
    BY <1>1, <2>1, <2>2
<1>3. ASSUME NEW w \in Workers, Take(w) \/ Handled(w) \/ Interrupted(w) \/ Finish(w)
      PROVE  [H!Next \/ AroundHandler]_H!vars
  <2>1. UNCHANGED <<handler, publisher>>
    BY <1>3 DEF Take, Handled, Interrupted, Finish, Idle
  <2>2. CASE Restart
    BY <2>2 DEF Restart, H!Next
  <2> QED
    BY <1>1, <2>1, <2>2
<1>4. ASSUME NEW w \in Workers, Execute(w)
      PROVE  AroundHandler
  <2>1. attempt[w] \in Attempts
    BY <1>4 DEF Execute, PoolPlaced, OnAttempt
  <2>2. OtherPublish
    BY <1>4, <2>1, ExecuteIsOther DEF Execute
  <2>3. UNCHANGED <<states, H!locals, dropped, signals>>
    BY <1>4 DEF Execute, handler, H!locals
  <2>4. UNCHANGED C!Ends
    BY <1>4 DEF Execute, consumer, C!Ends
  <2> QED
    BY <2>2, <2>3, <2>4 DEF AroundHandler
<1>5. ASSUME NEW s \in Sources, Observe(s)
      PROVE  H!Next
  BY <1>5 DEF Observe, H!Next
<1>6. CASE Restart
  BY <1>6 DEF Restart, H!Next
<1> QED
  BY <1>2, <1>3, <1>4, <1>5, <1>6 DEF Next, Work

\* The service, to the handler: it does what handleSignal does, and the workers
\* publish on the topic or are refused there.
THEOREM ServiceImplementsHandler == Spec => ImplementsHandler
<1>1. Init => PoolPlaced /\ StopsType /\ H!Init
  BY ServiceInit DEF Init, C!Init, StopsType
<1>2. (PoolPlaced /\ StopsType) /\ [Next]_service =>
        (PoolPlaced /\ StopsType)' /\ [H!Next \/ AroundHandler]_H!vars
  BY PoolStep, StopsStep, HandlerStep
<1> QED
  BY <1>1, <1>2, PTL DEF Spec, ImplementsHandler

-----------------------------------------------------------------------------
(***************************************************************************)
(* The handler in the service.                                             *)
(***************************************************************************)

\* The handler's own specification, in the words of its theorems.
LEMMA SameEvaluation == \A s : H!Evaluation(s) = Handler!Evaluation(s)
  BY DEF H!Evaluation, Handler!Evaluation, H!Evaluate, Handler!Evaluate,
     H!IsFailure, Handler!IsFailure, H!NoError, Handler!NoError, H!Fail, Handler!Fail,
     H!Suppressed, Handler!Suppressed, H!Decision, Handler!Decision,
     H!FailureStage, Handler!FailureStage, H!NoStage, Handler!NoStage, H!IsValid,
     Handler!IsValid, H!OrderedStages, Handler!OrderedStages, H!Advance, Handler!Advance,
     H!Candidate, Handler!Candidate, H!ObservedStage, Handler!ObservedStage,
     H!IsForward, Handler!IsForward, H!Rank, Handler!Rank

\* ... and so a step of it in one is a step of it in the other.
LEMMA SameHandler == [H!Next]_H!vars => [Handler!Next]_Handler!vars
<1> SUFFICES ASSUME [H!Next]_H!vars PROVE [Handler!Next]_Handler!vars
  OBVIOUS
<1>e. \A s : H!Evaluation(s) = Handler!Evaluation(s)
  BY SameEvaluation
<1>1. ASSUME NEW s \in Sources, H!HandleSignal(s) PROVE Handler!HandleSignal(s)
  <2>r. H!Return(s) => Handler!Return(s)
    BY DEF H!Return, Handler!Return, H!NoSignal, Handler!NoSignal, H!ZeroState,
       Handler!ZeroState, H!NoStage, Handler!NoStage, H!NoError, Handler!NoError
  <2>1. ASSUME NEW r \in Scans, NEW o \in Observations, H!ReadState(s, r, o)
        PROVE  Handler!ReadState(s, r, o)
    BY <2>1 DEF H!ReadState, Handler!ReadState
  <2>2. H!Ignore(s) => Handler!Ignore(s)
    BY <1>e, <2>r DEF H!Ignore, Handler!Ignore, H!counters, Handler!counters
  <2>3. H!StoreState(s) => Handler!StoreState(s)
    BY <1>e DEF H!StoreState, Handler!StoreState, H!counters, Handler!counters
  <2>4. H!Publish(s) => Handler!Publish(s)
    BY <1>e, <2>r DEF H!Publish, Handler!Publish, H!AppendToTopic, Handler!AppendToTopic,
       H!counters, Handler!counters
  <2>5. H!PublishFails(s) => Handler!PublishFails(s)
    BY <1>e, <2>r DEF H!PublishFails, Handler!PublishFails, H!AppendToTopic,
       Handler!AppendToTopic
  <2> QED
    BY <1>1, <2>1, <2>2, <2>3, <2>4, <2>5 DEF H!HandleSignal, Handler!HandleSignal
<1>2. H!Restart => Handler!Restart
  BY DEF H!Restart, Handler!Restart, H!NewMap, Handler!NewMap, H!NoSignal, Handler!NoSignal,
     H!ZeroState, Handler!ZeroState, H!NoStage, Handler!NoStage, H!NoError, Handler!NoError
<1>3. UNCHANGED H!vars => UNCHANGED Handler!vars
  BY DEF H!vars, Handler!vars, H!locals, Handler!locals, H!counters, Handler!counters
<1> QED
  BY <1>1, <1>2, <1>3 DEF H!Next, Handler!Next

\* What the handler's theorems need of its state, and that others keep it.
LEMMA AroundType ==
  ASSUME HandlerAssumptions, Handler!TypeOK, AroundHandler
  PROVE  Handler!TypeOK'
<1>1. topic' \in [Scans -> Seq(Handler!Event)]
  <2>1. CASE UNCHANGED topic
    BY <2>1 DEF Handler!TypeOK
  <2>2. ASSUME NEW u \in Scans, NEW e \in Event, topic' = [topic EXCEPT ![u] = Append(@, e)]
        PROVE  topic' \in [Scans -> Seq(Handler!Event)]
    <3>1. e \in Handler!Event
      BY DEF Event, Stages, Handler!Event, Handler!Stages
    <3>2. topic \in [Scans -> Seq(Handler!Event)] /\ Append(topic[u], e) \in Seq(Handler!Event)
      BY <3>1 DEF Handler!TypeOK
    <3> QED
      BY <2>2, <3>2
  <2> QED
    BY <2>1, <2>2 DEF AroundHandler, OtherPublish
<1>2. Handler!Counters'
  BY DEF Handler!TypeOK, Handler!Counters, AroundHandler, OtherPublish, HandlerAssumptions,
     Handler!BoundsAssumption
<1> QED
  BY <1>1, <1>2 DEF Handler!TypeOK, AroundHandler, H!locals

\* What others publish takes no event off the topic.
LEMMA AroundClosed ==
  ASSUME HandlerAssumptions, Handler!TypeOK, Handler!ClosedMeansAnnounced, AroundHandler
  PROVE  Handler!ClosedMeansAnnounced'
<1> SUFFICES ASSUME NEW r \in Scans, states'[r].terminal
             PROVE  Handler!FinalEventAccounted(r)'
  BY DEF Handler!ClosedMeansAnnounced
<1>1. Handler!FinalEventAccounted(r)
  BY DEF AroundHandler, Handler!ClosedMeansAnnounced
<1>2. Handler!ToSet(topic[r]) \subseteq Handler!ToSet(topic'[r])
  <2>1. CASE topic'[r] = topic[r]
    BY <2>1
  <2>2. ASSUME NEW e \in Event, topic'[r] = Append(topic[r], e)
        PROVE  Handler!ToSet(topic[r]) \subseteq Handler!ToSet(topic'[r])
    <3>1. e \in Handler!Event /\ topic[r] \in Seq(Handler!Event)
      BY DEF Event, Stages, Handler!Event, Handler!Stages, Handler!TypeOK
    <3> QED
      BY <2>2, <3>1, FeedsAndScans, Handler!AppendEvent DEF HandlerAssumptions
  <2>3. topic = [u \in Scans |-> topic[u]]
    BY DEF Handler!TypeOK
  <2> QED
    BY <2>1, <2>2, <2>3 DEF AroundHandler, OtherPublish
<1>3. \A s \in Sources : /\ Handler!Announcing(s, r)' <=> Handler!Announcing(s, r)
                         /\ Handler!Evaluation(s)' = Handler!Evaluation(s)
  BY DEF AroundHandler, H!locals, Handler!Announcing, Handler!Evaluation
<1>4. Handler!HasFinalEvent(Handler!ToSet(topic[r])) => Handler!HasFinalEvent(Handler!ToSet(topic'[r]))
  BY <1>2 DEF Handler!HasFinalEvent
<1> QED
  BY <1>1, <1>3, <1>4 DEF AroundHandler, Handler!FinalEventAccounted

\* The handler's part of the state, in the service.
HandlerInv == Handler!TypeOK /\ Handler!ClosedMeansAnnounced

\* The handler keeps the invariant, and so does what happens around it.
LEMMA HandlerInvStep ==
  ASSUME HandlerAssumptions, HandlerInv, [H!Next \/ AroundHandler]_H!vars
  PROVE  HandlerInv'
<1>a. /\ Handler!RequestsAssumption /\ Handler!FeedsAssumption
      /\ Handler!ObservationsAssumption /\ Handler!BoundsAssumption
  BY FeedsAndScans DEF HandlerAssumptions
<1>1. CASE AroundHandler
  BY <1>1, AroundType, AroundClosed DEF HandlerInv
<1>2. CASE [H!Next]_H!vars
  <2>1. [Handler!Next]_Handler!vars
    BY <1>2, SameHandler
  <2>2. Handler!TypeOK'
    BY <1>a, <2>1, Handler!TypeStep DEF HandlerInv
  <2>3. Handler!ClosedMeansAnnounced'
    BY <1>a, <2>1, Handler!ClosedStep DEF HandlerInv
  <2> QED
    BY <2>2, <2>3 DEF HandlerInv
<1> QED
  BY <1>1, <1>2

\* It therefore holds in the service, whatever else the process does.
LEMMA HandlerInvariant ==
  ASSUME HandlerAssumptions
  PROVE  ImplementsHandler => []HandlerInv
<1>a. /\ Handler!RequestsAssumption /\ Handler!FeedsAssumption
      /\ Handler!ObservationsAssumption /\ Handler!BoundsAssumption
  BY FeedsAndScans DEF HandlerAssumptions
<1>1. H!Init => Handler!Init
  BY DEF H!Init, Handler!Init, H!NewMap, Handler!NewMap, H!NoSignal, Handler!NoSignal,
     H!ZeroState, Handler!ZeroState, H!NoStage, Handler!NoStage, H!NoError, Handler!NoError
<1>2. Handler!Init => HandlerInv
  BY <1>a, Handler!TypeInit
     DEF HandlerInv, Handler!ClosedMeansAnnounced, Handler!Init, Handler!NewMap,
         Handler!ZeroState
<1>3. HandlerInv /\ [H!Next \/ AroundHandler]_H!vars => HandlerInv'
  BY HandlerInvStep
<1> QED
  BY <1>1, <1>2, <1>3, PTL DEF ImplementsHandler

\* In the service, too, a request that the handler holds as closed has its final event
\* on the topic, in a call that is about to publish it, or among those refused.
THEOREM ClosedRequestsAnnouncedInService == Spec => []ClosedAnnounced
<1> USE HandlerAssumed
<1>1. HandlerInv => ClosedAnnounced
  <2> SUFFICES ASSUME HandlerInv, NEW r \in Scans, states[r].terminal
               PROVE  H!FinalEventAccounted(r)
    BY DEF ClosedAnnounced, H!ClosedMeansAnnounced
  <2>1. Handler!FinalEventAccounted(r)
    BY DEF HandlerInv, Handler!ClosedMeansAnnounced
  <2>2. \A q : H!ToSet(q) = Handler!ToSet(q)
    BY DEF H!ToSet, Handler!ToSet
  <2> QED
    BY <2>1, <2>2, SameEvaluation
       DEF H!FinalEventAccounted, Handler!FinalEventAccounted, H!HasFinalEvent,
           Handler!HasFinalEvent, H!Announcing, Handler!Announcing
<1> QED
  BY <1>1, ServiceImplementsHandler, HandlerInvariant, PTL

\* And only a stale reader reopens it: no worker, and no fault of a worker's publish,
\* changes what the handler has stored.
THEOREM ClosedRequestsStayClosedInService == Spec => H!ClosedStaysClosed
<1> USE HandlerAssumed
<1>a. /\ Handler!RequestsAssumption /\ Handler!FeedsAssumption
      /\ Handler!ObservationsAssumption /\ Handler!BoundsAssumption
  BY FeedsAndScans DEF HandlerAssumptions
<1> DEFINE Stays ==
      \A r \in Scans :
          /\ states[r].terminal
          /\ \A s \in Sources : ~H!StaleReader(s, r)
          /\ C!Ends' = C!Ends
          => states'[r] = states[r]
<1>1. HandlerInv /\ [H!Next \/ AroundHandler]_H!vars => [Stays]_H!vars
  <2> SUFFICES ASSUME HandlerInv, H!Next \/ AroundHandler PROVE Stays \/ UNCHANGED H!vars
    OBVIOUS
  <2>1. CASE AroundHandler
    BY <2>1 DEF AroundHandler
  <2>2. CASE H!Next
    <3>1. [Handler!Next]_Handler!vars
      BY <2>2, SameHandler
    <3>2. Handler!Kept \/ UNCHANGED Handler!vars
      BY <1>a, <3>1, Handler!KeptStep DEF HandlerInv
    <3>3. UNCHANGED Handler!vars => UNCHANGED H!vars
      BY DEF H!vars, Handler!vars, H!locals, Handler!locals, H!counters, Handler!counters
    <3>4. Handler!Kept => Stays
      BY DEF Handler!Kept, Handler!StaleReader, H!StaleReader
    <3> QED
      BY <3>2, <3>3, <3>4
  <2> QED
    BY <2>1, <2>2
<1> HIDE DEF Stays
<1>2. Spec => [][Stays]_H!vars
  BY <1>1, ServiceImplementsHandler, HandlerInvariant, PTL DEF ImplementsHandler
<1> QED
  BY <1>2 DEF H!ClosedStaysClosed, Stays

-----------------------------------------------------------------------------
(***************************************************************************)
(* The steps of the service, to the deliveries.                            *)
(***************************************************************************)

\* A goroutine of the handler publishes an event on the topic, or has it refused.
LEMMA HandleIsOther ==
  ASSUME HandlerAssumptions, Handler!TypeOK, NEW s \in Sources, H!HandleSignal(s)
  PROVE  OtherPublish
<1>a. /\ Handler!RequestsAssumption /\ Handler!FeedsAssumption
      /\ Handler!ObservationsAssumption /\ Handler!BoundsAssumption
  BY FeedsAndScans DEF HandlerAssumptions
<1>1. CASE UNCHANGED <<topic, failures>>
  BY <1>1 DEF OtherPublish
<1>2. CASE H!Publish(s) \/ H!PublishFails(s)
  <2>1. call[s] = "stored"
    BY <1>2 DEF H!Publish, H!PublishFails
  <2>2. Handler!Evaluation(s).event \in Handler!Event /\ request[s] \in Scans
    BY <1>a, <2>1, Handler!CallType
  <2>3. H!Evaluation(s).event \in Event
    BY <2>2, SameEvaluation DEF Event, Stages, Handler!Event, Handler!Stages
  <2> QED
    BY <1>2, <2>2, <2>3 DEF H!Publish, H!PublishFails, H!AppendToTopic, H!counters, OtherPublish
<1>3. CASE ~(H!Publish(s) \/ H!PublishFails(s))
  BY <1>1, <1>3 DEF H!HandleSignal, H!ReadState, H!Ignore, H!StoreState, H!counters
<1> QED
  BY <1>2, <1>3

\* Every step of the service is one of a delivery, the operator or the end of a
\* process, or one they meet.
LEMMA RequestStep ==
  ASSUME HandlerAssumptions, Handler!TypeOK, PoolPlaced, StopsType, [Next]_service
  PROVE  [P!Next \/ AmongRequests]_P!vars
<1>1. CASE Restart
  BY <1>1 DEF Restart, P!Next
<1>2. ASSUME UNCHANGED <<requests, publisher>>, ~Restart PROVE UNCHANGED P!vars
  BY <1>2, EndsStay
     DEF requests, publisher, P!vars, P!cluster, P!events, P!counters
<1>3. CASE ~Restart /\ (Poll \/ Cancel \/ UNCHANGED service)
  <2>1. UNCHANGED <<requests, publisher>>
    BY <1>3 DEF Poll, Cancel, Idle, service
  <2> QED
    BY <1>2, <1>3, <2>1
<1>4. ASSUME ~Restart, NEW w \in Workers, Take(w) \/ Handled(w) \/ Finish(w)
      PROVE  UNCHANGED P!vars
  BY <1>2, <1>4 DEF Take, Handled, Finish, Idle
<1>5. ASSUME NEW w \in Workers, Execute(w)
      PROVE  P!Next
  <2>1. attempt[w] \in Attempts
    BY <1>5 DEF Execute, PoolPlaced, OnAttempt
  <2> QED
    BY <1>5, <2>1 DEF Execute, P!Next
<1>6. ASSUME ~Restart, NEW w \in Workers, Interrupted(w)
      PROVE  AmongRequests
  <2>1. attempt[w] \in Attempts
    BY <1>6 DEF Interrupted, C!HandleInterrupted, PoolPlaced, OnAttempt
  <2>2. UNCHANGED C!Ends
    BY <1>6, EndsStay
  <2>3. GiveUp(attempt[w])
    BY <1>6, <2>2 DEF Interrupted, GiveUp, publisher, P!cluster, P!events, P!counters
  <2> QED
    BY <2>1, <2>3 DEF AmongRequests
<1>7. CASE Kubernetes
  BY <1>7 DEF Kubernetes, P!Next
<1>8. ASSUME ~Restart, NEW s \in Sources, Observe(s)
      PROVE  AmongRequests
  <2>1. OtherPublish
    BY <1>8, HandleIsOther DEF Observe
  <2>2. UNCHANGED C!Ends
    BY <1>8, EndsStay
  <2> QED
    BY <1>8, <2>1, <2>2 DEF Observe, requests, AmongRequests, P!cluster
<1> QED
  BY <1>1, <1>3, <1>4, <1>5, <1>6, <1>7, <1>8 DEF Next, Work

\* The service, to the deliveries: they go the ways of ProcessScanRequest, the handler
\* publishes on their topic or is refused there, and workers give some of them up.
THEOREM ServiceImplementsRequests == Spec => ImplementsRequests
<1> USE HandlerAssumed
<1>1. Init => PoolPlaced /\ StopsType /\ P!Init
  BY ServiceInit DEF Init, C!Init, StopsType
<1>2. HandlerInv /\ (PoolPlaced /\ StopsType) /\ [Next]_service =>
        (PoolPlaced /\ StopsType)' /\ [P!Next \/ AmongRequests]_P!vars
  BY PoolStep, StopsStep, RequestStep DEF HandlerInv
<1>3. Spec => []HandlerInv
  BY ServiceImplementsHandler, HandlerInvariant, PTL
<1> QED
  BY <1>1, <1>2, <1>3, PTL DEF Spec, ImplementsRequests

-----------------------------------------------------------------------------
(***************************************************************************)
(* The deliveries in the service.                                          *)
(***************************************************************************)

\* The specification of the deliveries, in the words of its theorems.
LEMMA SameEventsOfExecute ==
  /\ P!AcceptedEvent = Request!AcceptedEvent
  /\ P!RunningEvent = Request!RunningEvent
  /\ P!FailedEvent = Request!FailedEvent
  BY DEF P!AcceptedEvent, Request!AcceptedEvent, P!RunningEvent, Request!RunningEvent,
     P!FailedEvent, Request!FailedEvent

\* The calls a delivery makes are the same in both.
LEMMA SameCalls ==
  /\ \A a, from, label : P!Answer(a, from, label) => Request!Answer(a, from, label)
  /\ \A a, from, e, label : P!Publish(a, from, e, label) => Request!Publish(a, from, e, label)
  /\ \A a : P!Write(a) => Request!Write(a)
<1>1. ASSUME NEW a, NEW from, NEW label, P!Answer(a, from, label)
      PROVE  Request!Answer(a, from, label)
  BY <1>1 DEF P!Answer, Request!Answer, P!Goto, Request!Goto, P!cluster, Request!cluster,
     P!events, Request!events, P!counters, Request!counters
<1>2. ASSUME NEW a, NEW from, NEW e, NEW label, P!Publish(a, from, e, label)
      PROVE  Request!Publish(a, from, e, label)
  BY <1>2 DEF P!Publish, Request!Publish, P!Say, Request!Say, P!Goto, Request!Goto,
     P!cluster, Request!cluster, P!events, Request!events
<1>3. ASSUME NEW a, P!Write(a)
      PROVE  Request!Write(a)
  BY <1>3 DEF P!Write, Request!Write, P!NewVersion, Request!NewVersion, P!Goto,
     Request!Goto, P!events, Request!events
<1> QED
  BY <1>1, <1>2, <1>3

\* And so are its steps, and those of the operator.
LEMMA SameRequests == [P!Next]_P!vars => [Request!Next]_Request!vars
<1> SUFFICES ASSUME [P!Next]_P!vars PROVE [Request!Next]_Request!vars
  OBVIOUS
<1>1. ASSUME NEW a \in Attempts, P!Execute(a) PROVE Request!Execute(a)
  <2>1. P!Admit(a) => Request!Admit(a)
    BY SameCalls DEF P!Admit, Request!Admit
  <2>2. P!CheckPods(a) => Request!CheckPods(a)
    BY SameCalls DEF P!CheckPods, Request!CheckPods
  <2>3. P!PublishAccepted(a) => Request!PublishAccepted(a)
    BY SameCalls, SameEventsOfExecute DEF P!PublishAccepted, Request!PublishAccepted
  <2>4. P!Decrypt(a) => Request!Decrypt(a)
    BY SameCalls DEF P!Decrypt, Request!Decrypt
  <2>5. P!Verify(a) => Request!Verify(a)
    BY SameCalls DEF P!Verify, Request!Verify
  <2>6. P!Build(a) => Request!Build(a)
    BY SameCalls DEF P!Build, Request!Build
  <2>7. P!Create(a) => Request!Create(a)
    BY SameCalls DEF P!Create, Request!Create
  <2>8. P!GetExisting(a) => Request!GetExisting(a)
    BY SameCalls DEF P!GetExisting, Request!GetExisting, P!Goto, Request!Goto, P!cluster,
       Request!cluster, P!events, Request!events, P!counters, Request!counters
  <2>9. P!Update(a) => Request!Update(a)
    BY SameCalls DEF P!Update, Request!Update
  <2>10. P!PublishRunning(a) => Request!PublishRunning(a)
    BY SameCalls, SameEventsOfExecute DEF P!PublishRunning, Request!PublishRunning
  <2>11. P!PublishFailure(a) => Request!PublishFailure(a)
    BY SameCalls, SameEventsOfExecute DEF P!PublishFailure, Request!PublishFailure
  <2> QED
    BY <1>1, <2>1, <2>2, <2>3, <2>4, <2>5, <2>6, <2>7, <2>8, <2>9, <2>10, <2>11
       DEF P!Execute, Request!Execute
<1>2. ASSUME NEW u \in Scans, P!OperatorActs(u) \/ P!Delete(u)
      PROVE  Request!OperatorActs(u) \/ Request!Delete(u)
  BY <1>2 DEF P!OperatorActs, Request!OperatorActs, P!Delete, Request!Delete,
     P!NewVersion, Request!NewVersion, P!events, Request!events, P!counters, Request!counters
<1>3. P!Crash => Request!Crash
  BY DEF P!Crash, Request!Crash, P!cluster, Request!cluster, P!events, Request!events
<1>4. UNCHANGED P!vars => UNCHANGED Request!vars
  BY DEF P!vars, Request!vars, P!cluster, Request!cluster, P!events, Request!events,
     P!counters, Request!counters
<1> QED
  BY <1>1, <1>2, <1>3, <1>4 DEF P!Next, Request!Next

\* What the theorems about the deliveries assume.
LEMMA RequestAssumed ==
  ASSUME RequestAssumptions
  PROVE  /\ Request!ScanAssumption /\ Request!PodChecksAssumption
         /\ Request!BoundsAssumption
  BY FeedsAndScans DEF RequestAssumptions

\* What others do keeps the types of the deliveries ...
LEMMA AmongType ==
  ASSUME RequestAssumptions, Request!TypeOK, AmongRequests
  PROVE  Request!TypeOK'
<1>1. ASSUME NEW a \in Attempts, GiveUp(a)
      PROVE  Request!TypeOK'
  <2>1. at' \in [Attempts -> Request!Labels]
    BY <1>1 DEF GiveUp, Request!TypeOK, Request!Labels
  <2> QED
    BY <1>1, <2>1 DEF GiveUp, Request!TypeOK, P!cluster, P!events, P!counters
<1>2. ASSUME OtherPublish, UNCHANGED <<kind, at, read, P!cluster, said, lost, C!Ends>>
      PROVE  Request!TypeOK'
  <2>1. topic' \in [Scans -> Seq(Request!Event)]
    <3>1. CASE UNCHANGED topic
      BY <3>1 DEF Request!TypeOK
    <3>2. ASSUME NEW u \in Scans, NEW e \in Event,
                 topic' = [topic EXCEPT ![u] = Append(@, e)]
          PROVE  topic' \in [Scans -> Seq(Request!Event)]
      <4>1. e \in Request!Event
        BY DEF Event, Stages, Request!Event, Request!Stages
      <4>2. /\ topic \in [Scans -> Seq(Request!Event)]
            /\ Append(topic[u], e) \in Seq(Request!Event)
        BY <4>1 DEF Request!TypeOK
      <4> QED
        BY <3>2, <4>2
    <3> QED
      BY <1>2, <3>1, <3>2 DEF OtherPublish
  <2>2. failures' \in 0 .. MaxPublishFailures
    BY <1>2 DEF OtherPublish, Request!TypeOK, RequestAssumptions, Request!BoundsAssumption
  <2> QED
    BY <1>2, <2>1, <2>2 DEF Request!TypeOK, P!cluster
<1> QED
  BY <1>1, <1>2 DEF AmongRequests

\* ... ends none of them but in the middle, and speaks for none of them.
LEMMA AmongEffect ==
  ASSUME RequestAssumptions, Request!TypeOK, AmongRequests
  PROVE  /\ UNCHANGED <<said, applied, lost>>
         /\ failures' = failures \/ failures' = failures + 1
         /\ \A b \in Attempts : at'[b] = at[b] \/ at'[b] = "dead"
  BY DEF AmongRequests, GiveUp, OtherPublish, Request!TypeOK, P!cluster, P!events, P!counters

\* The deliveries' part of the state, in the service.
RequestInv == Request!TypeOK /\ Request!CourseInv /\ Request!AccountInv

\* What happens among the deliveries keeps their invariant,
LEMMA AmongCourse ==
  ASSUME RequestAssumptions, RequestInv, AmongRequests
  PROVE  RequestInv'
<1>a. /\ Request!ScanAssumption /\ Request!PodChecksAssumption
      /\ Request!BoundsAssumption
  BY RequestAssumed
<1>1. /\ UNCHANGED <<said, applied, lost>>
      /\ failures' = failures \/ failures' = failures + 1
      /\ \A b \in Attempts : at'[b] = at[b] \/ at'[b] = "dead"
  BY AmongEffect DEF RequestInv
<1>2. \A b \in Attempts :
         /\ Request!Course(b)'
         /\ Request!Truthful(b) => Request!Truthful(b)'
  <2> SUFFICES ASSUME NEW b \in Attempts
               PROVE  Request!Course(b)' /\ (Request!Truthful(b) => Request!Truthful(b)')
    OBVIOUS
  <2>1. Request!TypeOK /\ Request!Course(b)
    BY DEF RequestInv, Request!CourseInv
  <2>2. said'[b] = said[b] /\ applied'[b] = applied[b] /\ (at'[b] = at[b] \/ at'[b] = "dead")
    BY <1>1
  <2> QED
    BY <1>a, <2>1, <2>2, Request!EndedCourse
<1>3. Request!CourseInv'
  BY <1>2 DEF Request!CourseInv
<1>4. Request!AccountInv'
  <2>1. Request!Untruthful' \subseteq Request!Untruthful
    BY <1>2 DEF Request!Untruthful
  <2>2. /\ IsFiniteSet(Request!Untruthful)
        /\ Cardinality(Request!Untruthful) <= failures + lost
    BY DEF RequestInv, Request!AccountInv, IsFiniteSet, Cardinality, Request!IsFiniteSet,
       Request!Cardinality
  <2>3. /\ IsFiniteSet(Request!Untruthful')
        /\ Cardinality(Request!Untruthful') <= Cardinality(Request!Untruthful)
    BY <2>1, <2>2, FS_Subset
  <2>4. /\ Cardinality(Request!Untruthful') \in Nat
        /\ Cardinality(Request!Untruthful) \in Nat
    BY <2>2, <2>3, FS_CardinalityType
  <2>5. failures \in Int /\ lost \in Int
    BY DEF RequestInv, Request!TypeOK
  <2>6. Cardinality(Request!Untruthful') <= failures' + lost'
    BY <1>1, <2>2, <2>3, <2>4, <2>5
  <2> QED
    BY <2>3, <2>6 DEF Request!AccountInv, IsFiniteSet, Cardinality, Request!IsFiniteSet,
       Request!Cardinality
<1> QED
  BY <1>3, <1>4, AmongType DEF RequestInv

\* as their own steps do:
LEMMA RequestInvStep ==
  ASSUME RequestAssumptions, RequestInv, [P!Next \/ AmongRequests]_P!vars
  PROVE  RequestInv'
<1>a. /\ Request!ScanAssumption /\ Request!PodChecksAssumption
      /\ Request!BoundsAssumption
  BY RequestAssumed
<1>1. CASE AmongRequests
  BY <1>1, AmongCourse
<1>2. CASE [P!Next]_P!vars
  <2>1. [Request!Next]_Request!vars
    BY <1>2, SameRequests
  <2>2. Request!TypeOK'
    BY <1>a, <2>1, Request!TypeStep DEF RequestInv
  <2>3. Request!CourseInv'
    BY <1>a, <2>1, Request!CourseStep DEF RequestInv
  <2>4. Request!AccountInv'
    BY <1>a, <2>1, Request!AccountStep DEF RequestInv
  <2> QED
    BY <2>2, <2>3, <2>4 DEF RequestInv
<1> QED
  BY <1>1, <1>2

\* it holds in the service.
LEMMA RequestInvariant ==
  ASSUME RequestAssumptions
  PROVE  ImplementsRequests => []RequestInv
<1>a. /\ Request!ScanAssumption /\ Request!PodChecksAssumption
      /\ Request!BoundsAssumption
  BY RequestAssumed
<1>1. P!Init => Request!Init
  BY DEF P!Init, Request!Init, P!Kinds, Request!Kinds
<1>2. Request!Init => RequestInv
  BY <1>a, Request!TypeInit, Request!CourseInit DEF RequestInv
<1>3. RequestInv /\ [P!Next \/ AmongRequests]_P!vars => RequestInv'
  BY RequestInvStep
<1> QED
  BY <1>1, <1>2, <1>3, PTL DEF ImplementsRequests

\* In the service, too, running is said only of a scan that Kubernetes stored for this
\* delivery, and only behind its accepted event.
THEOREM RunningEventsFoundedInService == Spec => []P!RunningIsFounded
<1> USE HandlerAssumed, RequestBoundsAssumed
<1>a. /\ Request!ScanAssumption /\ Request!PodChecksAssumption
      /\ Request!BoundsAssumption
  BY RequestAssumed
<1>1. RequestInv => Request!RunningIsFounded
  BY <1>a, Request!CourseIsFounded DEF RequestInv
<1>2. Request!RunningIsFounded => P!RunningIsFounded
  BY SameEventsOfExecute
     DEF P!RunningIsFounded, Request!RunningIsFounded, P!SaidRunning, Request!SaidRunning
<1> QED
  BY <1>1, <1>2, ServiceImplementsRequests, RequestInvariant, PTL

\* The faults of the ports account for the deliveries that are left untold, although
\* the handler has publishes refused as well and workers give deliveries up.
THEOREM FaultsAccountInService == Spec => []P!FaultsAccountForUntold
<1> USE HandlerAssumed, RequestBoundsAssumed
<1>a. /\ Request!ScanAssumption /\ Request!PodChecksAssumption
      /\ Request!BoundsAssumption
  BY RequestAssumed
<1>1. RequestInv => Request!FaultsAccountForUntold
  BY <1>a, Request!AccountCovers DEF RequestInv
<1>2. Request!FaultsAccountForUntold => P!FaultsAccountForUntold
  <2>1. \A a : P!Told(a) <=> Request!Told(a)
    BY SameEventsOfExecute DEF P!Told, Request!Told
  <2>2. P!Untold = Request!Untold
    BY <2>1 DEF P!Untold, Request!Untold
  <2> QED
    BY <2>2 DEF P!FaultsAccountForUntold, Request!FaultsAccountForUntold, P!Cardinality,
       Request!Cardinality
<1> QED
  BY <1>1, <1>2, ServiceImplementsRequests, RequestInvariant, PTL

\* And each delivery keeps to the lifecycle, also when its worker gives it up.
THEOREM DeliveriesFollowInService == Spec => DeliveriesFollow
<1> USE HandlerAssumed, RequestBoundsAssumed
<1>a. /\ Request!ScanAssumption /\ Request!PodChecksAssumption
      /\ Request!BoundsAssumption
  BY RequestAssumed
<1>1. P!Init => P!Attempt!Init
  BY DEF P!Init, P!Attempt!Init
<1>2. RequestInv /\ [P!Next \/ AmongRequests]_P!vars => [P!Attempt!Next]_said
  <2> SUFFICES ASSUME RequestInv, [P!Next \/ AmongRequests]_P!vars
               PROVE  [P!Attempt!Next]_said
    OBVIOUS
  <2>1. CASE AmongRequests
    BY <2>1, AmongEffect DEF RequestInv
  <2>2. CASE [P!Next]_P!vars
    <3>1. [Request!Attempt!Next]_said
      BY <1>a, <2>2, SameRequests, Request!LifecycleStep DEF RequestInv
    <3>2. Request!Attempt!Next => P!Attempt!Next
      BY DEF Request!Attempt!Next, P!Attempt!Next, Request!Attempt!Announce,
         P!Attempt!Announce, Request!Attempt!MayFollow, P!Attempt!MayFollow,
         Request!Attempt!WellFormed, P!Attempt!WellFormed, Request!Attempt!Event,
         P!Attempt!Event, Request!Attempt!Stages, P!Attempt!Stages, Request!Attempt!Last,
         P!Attempt!Last, Request!Attempt!Rank, P!Attempt!Rank, Request!Attempt!IsValid,
         P!Attempt!IsValid, Request!Attempt!OrderedStages, P!Attempt!OrderedStages
    <3> QED
      BY <3>1, <3>2
  <2> QED
    BY <2>1, <2>2
<1>3. Spec => []RequestInv
  BY ServiceImplementsRequests, RequestInvariant, PTL
<1> QED
  BY <1>1, <1>2, <1>3, ServiceImplementsRequests, PTL
     DEF ImplementsRequests, DeliveriesFollow, P!AttemptLifecycle, P!Attempt!Spec
=============================================================================
