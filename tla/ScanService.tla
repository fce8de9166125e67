----------------------------- MODULE ScanService -----------------------------
(***************************************************************************)
(* The service end to end: the pool of RequestConsumer hands each request  *)
(* to ProcessScanRequest, which stores Scan resources that the goroutines  *)
(* of ObservationHandler then observe.  Execute and handleSignal publish   *)
(* to one status topic through the same writer, one process holds the      *)
(* channel, the attempts and the lifecycle map, and takes all of them with *)
(* it when it ends; the partition, the resources and the topic stay.       *)
(***************************************************************************)
EXTENDS StatusEngine, SequencesExt, FiniteSets

CONSTANTS
    Workers, Messages, Payload,               \* of RequestConsumer
    MaxCancels, MaxCrashes, MaxRebalances,
    Scans, PodChecks,                         \* of ProcessScanRequest
    MaxRevisions, MaxPublishFailures, MaxLostAnswers,
    NoRequest, Sources, Observations, MaxSignals,   \* of ObservationHandler
    Carries      \* Carries[o]: the requestUUID in the message at offset o

Offsets == 0 .. Messages - 1

ASSUME CarriesAssumption == Carries \in [Offsets -> Scans]

MaxEnds == MaxCancels + MaxCrashes

\* bound: times a message is taken off the channel.  The end of a process or a
\* rebalance gives it out once more, so that this bound holds no worker up.
MaxDeliveries == MaxEnds + MaxRebalances + 1

Attempts == Offsets \X (1 .. MaxDeliveries)

VARIABLES
    committed, start, position, polled, queue, closed, cancelled,  \* the consumer
    pc, held, runs, cancels, crashes, rebalances,
    kind, at, read, version, revision, pods, applied, said,        \* the attempts
    failures, lost,
    states, call, request, signal, seen, dropped, signals,         \* the handler
    topic,        \* topic[u]: what both have published about request u
    attempt,      \* attempt[w]: the attempt worker w is on
    deliveries    \* deliveries[o]: how often message o was taken off the channel

consumer == <<committed, start, position, polled, queue, closed, cancelled,
              pc, held, runs, cancels, crashes, rebalances>>
requests == <<kind, at, read, version, revision, pods, applied, said, lost>>
handler == <<states, call, request, signal, seen, dropped, signals>>
publisher == <<topic, failures>>
service == <<consumer, requests, handler, publisher, attempt, deliveries>>

C == INSTANCE RequestConsumer

P == INSTANCE ProcessScanRequest
       WITH Scan <- [a \in Attempts |-> Carries[a[1]]],
            pc <- at, crashes <- C!Ends, MaxCrashes <- MaxEnds

\* Both sources of the handler may report on every scan.
H == INSTANCE ObservationHandler
       WITH Requests <- Scans, Feeds <- [s \in Sources |-> Scans],
            pc <- call, restarts <- C!Ends, MaxRestarts <- MaxEnds

\* The constants are what each of the three takes them to be.
ASSUME PartsAssumption ==
    /\ C!WorkersAssumption /\ C!MessagesAssumption /\ C!StopsAssumption
    /\ P!PodChecksAssumption /\ P!BoundsAssumption
    /\ H!RequestsAssumption /\ H!ObservationsAssumption /\ H!BoundsAssumption

-----------------------------------------------------------------------------
NoAttempt == <<-1, 0>>

Init ==
    /\ C!Init /\ P!Init /\ H!Init
    /\ attempt = [w \in Workers |-> NoAttempt]
    /\ deliveries = [o \in Offsets |-> 0]

Idle == UNCHANGED <<requests, handler, publisher, attempt, deliveries>>

\* The poll loop and the group it reads in.
Poll == (C!Poll \/ C!Rebalance) /\ Idle

\* A request that is taken off the channel is an attempt of its own.
Take(w) ==
    /\ C!Take(w)
    /\ LET a == <<Head(queue), deliveries[Head(queue)] + 1>> IN
         /\ a \in Attempts
         /\ attempt' = [attempt EXCEPT ![w] = a]
    /\ deliveries' = [deliveries EXCEPT ![Head(queue)] = @ + 1]
    /\ UNCHANGED <<requests, handler, publisher>>

\* A step of the handler the worker is in.
Execute(w) ==
    /\ pc[w] = "taken"
    /\ Payload[held[w]] = "request"
    /\ UNCHANGED <<consumer, handler, attempt, deliveries>>
    /\ P!Execute(attempt[w])

\* Handled that does not wait for Execute.
HandledEarly(w) == C!HandleRequest(w) /\ Idle

\* Execute returns.
Handled(w) ==
    /\ C!HandleRequest(w)
    /\ at[attempt[w]] = "done"
    /\ Idle

\* Every further call of the attempt fails because ctx is done.
Interrupted(w) ==
    /\ C!HandleInterrupted(w)
    /\ at[attempt[w]] # "done"
    /\ at' = [at EXCEPT ![attempt[w]] = "dead"]
    /\ UNCHANGED <<kind, read, version, revision, pods, applied, said, lost, handler,
                   publisher, attempt, deliveries>>

\* The worker goes on to its next message, or ends.
Finish(w) ==
    /\ C!Commit(w) \/ C!CommitLost(w) \/ C!WorkerStops(w)
    /\ attempt' = [attempt EXCEPT ![w] = NoAttempt]
    /\ UNCHANGED <<requests, handler, publisher, deliveries>>

Work(w) == Take(w) \/ Execute(w) \/ Handled(w) \/ Interrupted(w) \/ Finish(w)

\* The operator, and whoever deletes Scan resources.
Kubernetes ==
    /\ UNCHANGED <<consumer, handler, attempt, deliveries>>
    /\ \E u \in Scans : P!OperatorActs(u) \/ P!Delete(u)

\* A source observes a scan only while Kubernetes has it.
Observe(s) ==
    /\ UNCHANGED <<consumer, requests, attempt, deliveries>>
    /\ H!HandleSignal(s)
    /\ call[s] = "idle" => version[request'[s]] > 0

Cancel == C!Cancel /\ Idle

\* The process ends, by itself or not, and the next one starts.
Restart ==
    /\ C!MainReturns \/ C!Crash
    /\ P!Crash
    /\ H!Restart
    /\ attempt' = [w \in Workers |-> NoAttempt]
    /\ UNCHANGED deliveries

Next ==
    \/ Poll
    \/ \E w \in Workers : Work(w)
    \/ Kubernetes
    \/ \E s \in Sources : Observe(s)
    \/ Cancel
    \/ Restart

Spec == Init /\ [][Next]_service

\* The goroutines are scheduled and the ports answer; a process that is told to
\* stop ends.
FairSpec ==
    /\ Spec
    /\ WF_service(C!Poll /\ Poll)
    /\ \A w \in Workers : WF_service(Work(w))
    /\ WF_service(cancelled /\ Restart)

-----------------------------------------------------------------------------
(***************************************************************************)
(* Properties.                                                             *)
(***************************************************************************)
Published(u, event) == \E i \in 1 .. Len(topic[u]) : topic[u][i] = event

\* What Execute says last of a request that was given to it.
HasOutcome(u) == Published(u, P!RunningEvent) \/ Published(u, P!FailedEvent)

\* Nothing is written about a scan, and Kubernetes does not have one, before it was
\* written that its request is accepted or refused: not even when the observation of
\* the scan overtakes the worker that submitted it.  This is the order in which the
\* status writer took the events.  It assumes that an event taken without an error is
\* on the topic, although RequiredAcks is unset (adapters.go:288-292), and says nothing
\* of what a reader of several partitions hears first, since the LeastBytes balancer
\* (adapters.go:291) spreads the events of a request over them.
AnnouncedFirst ==
    \A u \in Scans :
        /\ version[u] > 0 => Published(u, P!AcceptedEvent)
        /\ topic[u] # <<>> => topic[u][1] \in {P!AcceptedEvent, P!FailedEvent}

\* Kubernetes has stored the scan of u for a delivery of its request.
Stored(u) == \E a \in Attempts : Carries[a[1]] = u /\ applied[a]

\* Nobody reads that a scan runs, has reached a stage or has completed, but of one
\* that this service submitted: not from a worker whose submission was refused,
\* and not from an observation that outlives the deletion of the resource
\* (process_scan_request.go:144-183, handle_k8s_observation.go:50-66).
ProgressIsFounded ==
    \A u \in Scans :
        (\E i \in 1 .. Len(topic[u]) :
             topic[u][i] \notin {P!AcceptedEvent, P!FailedEvent})
        => Stored(u)

\* A message is given to a worker once, and once more at most for each process that
\* ended and each rebalance: neither the bounded channel nor the offset that commits
\* move back hands it out again, and a worker that gave it up does not get it back
\* (adapters.go:80-138).
StartedOncePerDelivery ==
    \A o \in Offsets : deliveries[o] <= C!Ends + rebalances + 1

\* A request the group's offset has passed was answered on the topic, or was never
\* processed and is among those a process that ends takes with it: a commit never
\* covers up a request that was processed and that nobody was told about, unless
\* the topic refused an event (adapters.go:191-200).
CommittedIsAnswered ==
    failures = 0 =>
        \A o \in C!Requests :
            o < committed => HasOutcome(Carries[o]) \/ o \in C!AtRisk \/ o \in C!Lost

\* Every request is answered on the topic in the end, unless it is passed over
\* when a process ends or the topic refuses an event.
EveryRequestAnswered ==
    \A o \in C!Requests :
        <>(HasOutcome(Carries[o]) \/ o \in C!Lost \/ failures > 0)

\* The topic of a request is a stream the lifecycle allows: "Stage messages are
\* emitted in order" (FEATURES.md:581).
Stream == INSTANCE ScanLifecycle WITH Requests <- Scans, stream <- topic
StreamLifecycle == Stream!Spec

\* The strengthening behind AnnouncedFirst: who may speak of a request, and who may
\* store its scan, knows that it was announced.
Announced == {"accepted", "decrypted", "verified", "built", "conflict", "fetched", "submitted"}

AnnounceInv ==
    /\ \A a \in Attempts :
          at[a] \in Announced => Published(Carries[a[1]], P!AcceptedEvent)
    /\ \A s \in Sources :
          call[s] # "idle" =>
              request[s] \in Scans /\ Published(request[s], P!AcceptedEvent)
    /\ AnnouncedFirst

\* A worker that is in processMessage is on an attempt at the message it holds.
OnAttempt ==
    \A w \in Workers :
        pc[w] \in {"taken", "processed"} =>
            attempt[w] \in Attempts /\ attempt[w][1] = held[w]

\* The strengthening behind CommittedIsAnswered.
OutcomeInv ==
    failures = 0 =>
        /\ \A a \in Attempts : at[a] = "done" => HasOutcome(Carries[a[1]])
        /\ \A o \in C!Handled : HasOutcome(Carries[o])

\* Each delivery keeps to the lifecycle in the service as it does alone, also when
\* its worker gives it up (process_scan_request.go:104-183, adapters.go:190).
DeliveriesFollow == P!AttemptLifecycle

\* And a request that the handler holds as closed has its final event accounted for,
\* although the workers publish to the same topic, have publishes refused there and
\* end with the process (handle_k8s_observation.go:56-63).  A failure that a delivery
\* announced is a final event too: a reader cannot tell them apart.
ClosedAnnounced == H!ClosedMeansAnnounced

\* What each component meets in the service besides its own steps: others publish on
\* the topic it publishes on, or have a publish refused ...
OtherPublish ==
    /\ \/ UNCHANGED topic
       \/ \E u \in Scans, event \in Event :
              topic' = [topic EXCEPT ![u] = Append(@, event)]
    /\ \/ UNCHANGED failures
       \/ failures < MaxPublishFailures /\ failures' = failures + 1

\* ... and a worker gives up the delivery it is on.
GiveUp(a) ==
    /\ at[a] # "done"
    /\ at' = [at EXCEPT ![a] = "dead"]
    /\ UNCHANGED <<kind, read, P!cluster, P!events, P!counters>>

AmongRequests ==
    \/ \E a \in Attempts : GiveUp(a)
    \/ OtherPublish /\ UNCHANGED <<kind, at, read, P!cluster, said, lost, C!Ends>>

AroundHandler ==
    OtherPublish /\ UNCHANGED <<states, H!locals, dropped, signals, C!Ends>>

\* In that environment the service is what ProcessScanRequest and ObservationHandler
\* are alone.
ImplementsRequests == P!Init /\ [][P!Next \/ AmongRequests]_P!vars
ImplementsHandler == H!Init /\ [][H!Next \/ AroundHandler]_H!vars

\* The strengthening behind ProgressIsFounded: a scan that can be observed, is being
\* observed, or whose submission is about to be announced was stored.
FoundedInv ==
    /\ \A u \in Scans : version[u] > 0 => Stored(u)
    /\ \A a \in Attempts : at[a] = "submitted" => applied[a]
    /\ \A s \in Sources : call[s] # "idle" => request[s] \in Scans /\ Stored(request[s])
    /\ ProgressIsFounded

\* The strengthening behind StartedOncePerDelivery: how often message o was given to
\* a worker, is on its way to one, or is still to be fetched.
Given(o) ==
    deliveries[o] + Cardinality(C!QueuedAt(o)) + C!OneIf(polled = o)
                  + C!OneIf(o >= position)

GivenInv == \A o \in Offsets : Given(o) <= C!Ends + rebalances + 1
=============================================================================
