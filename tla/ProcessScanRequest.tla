------------------------- MODULE ProcessScanRequest -------------------------
(***************************************************************************)
(* ProcessScanRequestService.Execute                                       *)
(* (internal/usecase/services/process_scan_request.go) with the            *)
(* Kubernetes submitter behind it (internal/infrastructure/k8s/            *)
(* submitter.go).  An attempt is one delivery of a scan request to a       *)
(* worker; the workers of the pool run attempts concurrently, and Kafka    *)
(* may deliver one request more than once.  The attempts share the Scan    *)
(* resources in Kubernetes and the status topic.  Every port may answer    *)
(* with an error.  cmd/controller always wires a pod checker and a         *)
(* submitter, so the branches for a nil one are left out.                  *)
(***************************************************************************)
EXTENDS StatusEngine, FiniteSets

CONSTANTS
    Attempts,            \* deliveries of requests to the handler
    Scans,               \* requestUUIDs; one Scan resource name each
    Scan,                \* Scan[a]: the requestUUID attempt a carries
    PodChecks,           \* what ExistingScanPods is: "placeholder" or "pods"
    MaxRevisions,        \* bound: writes to the Scan resources
    MaxPublishFailures,  \* bound: calls of the publisher that return an error
    MaxLostAnswers,      \* bound: Kubernetes calls that apply and return an error
    MaxCrashes           \* bound: times the process dies

ASSUME ScanAssumption == Scan \in [Attempts -> Scans]

ASSUME PodChecksAssumption == PodChecks \in {"placeholder", "pods"}

ASSUME BoundsAssumption ==
    /\ MaxRevisions \in Nat
    /\ MaxPublishFailures \in Nat
    /\ MaxLostAnswers \in Nat
    /\ MaxCrashes \in Nat

VARIABLES
    kind,        \* kind[u]: what the request is to the registry and to Validate
    pc,          \* pc[a]: the next call of attempt a
    read,        \* read[a]: the resourceVersion attempt a read for its update
    version,     \* version[u]: resourceVersion of the Scan resource, 0: absent
    revision,    \* the latest resourceVersion the API server gave
    pods,        \* pods[u]: the operator has pods running for the resource
    applied,     \* applied[a]: Kubernetes carried out a create or update of a
    said,        \* said[a]: the events of attempt a on the status topic
    topic,       \* topic[u]: the events of request u on the status topic
    failures, lost, crashes      \* what the bounds count

cluster == <<version, revision, pods, applied>>
events == <<said, topic>>
counters == <<failures, lost, crashes>>
vars == <<kind, pc, read, cluster, events, counters>>

\* "open" requests need no authentication, "private" ones have their token
\* decrypted; the others are refused by Resolve, or by Normalize and Validate.
Kinds == {"unknown scanner", "invalid", "open", "private"}

Labels ==
    {"delivered", "resolved", "checked", "accepted", "decrypted", "verified",
     "built", "conflict", "fetched", "submitted", "duplicate", "failing", "done",
     "dead"}

-----------------------------------------------------------------------------
Init ==
    /\ kind \in [Scans -> Kinds]
    /\ pc = [a \in Attempts |-> "delivered"]
    /\ read = [a \in Attempts |-> 0]
    /\ version = [u \in Scans |-> 0]
    /\ revision = 0
    /\ pods = [u \in Scans |-> FALSE]
    /\ applied = [a \in Attempts |-> FALSE]
    /\ said = [a \in Attempts |-> <<>>]
    /\ topic = [u \in Scans |-> <<>>]
    /\ failures = 0 /\ lost = 0 /\ crashes = 0

Goto(a, label) == pc' = [pc EXCEPT ![a] = label]

\* A call without effect outside the attempt.
Answer(a, from, label) ==
    /\ pc[a] = from
    /\ Goto(a, label)
    /\ UNCHANGED <<kind, read, cluster, events, counters>>

Say(a, event) ==
    /\ said' = [said EXCEPT ![a] = Append(@, event)]
    /\ topic' = [topic EXCEPT ![Scan[a]] = Append(@, event)]

\* The publisher accepts the event, or returns an error, which ends Execute
\* whatever the event was; the event may have been written all the same.
Publish(a, from, event, label) ==
    /\ pc[a] = from
    /\ \/ Say(a, event) /\ Goto(a, label) /\ UNCHANGED failures
       \/ /\ failures < MaxPublishFailures
          /\ failures' = failures + 1
          /\ Say(a, event) \/ UNCHANGED events
          /\ Goto(a, "done")
    /\ UNCHANGED <<kind, read, cluster, lost, crashes>>

\* A second event that repeats the stage of the first.
RunningEventRepeats == [stage |-> "initializing", status |-> "running", terminal |-> FALSE]

\* An accepted event whose Stage field is left out.
AcceptedUnstaged == [stage |-> NoStage, status |-> "accepted", terminal |-> FALSE]

AcceptedEvent == [stage |-> "initializing", status |-> "accepted", terminal |-> FALSE]
RunningEvent  == [stage |-> "cloning", status |-> "running", terminal |-> FALSE]
FailedEvent   == [stage |-> "initializing", status |-> "failed", terminal |-> TRUE]

-----------------------------------------------------------------------------
\* Admit that drops what it refuses.
AdmitSilently(a) ==
    LET admitted == kind[Scan[a]] \in {"open", "private"} IN
    Answer(a, "delivered", IF admitted THEN "resolved" ELSE "done")

\* Resolve, Normalize and Validate decide by the request alone.
Admit(a) ==
    LET admitted == kind[Scan[a]] \in {"open", "private"} IN
    Answer(a, "delivered", IF admitted THEN "resolved" ELSE "failing")

\* ExistingScanPods finds no pods, or its error is logged and counts as none; or
\* it finds pods, which the submitter's own placeholder never does.
CheckPods(a) ==
    \/ Answer(a, "resolved", "checked")
    \/ PodChecks = "pods" /\ pods[Scan[a]] /\ Answer(a, "resolved", "duplicate")

\* PublishAccepted that goes on after an error of the publisher.
PublishAcceptedAnyway(a) ==
    \/ Publish(a, "checked", AcceptedEvent, "accepted")
    \/ failures < MaxPublishFailures /\ Answer(a, "checked", "accepted")

PublishAccepted(a) == Publish(a, "checked", AcceptedEvent, "accepted")

\* RequiresAuth; the token of a private request is decrypted, or cannot be.
Decrypt(a) ==
    \/ Answer(a, "accepted", "decrypted")
    \/ kind[Scan[a]] = "private" /\ Answer(a, "accepted", "failing")

\* The target is accepted, or it is rejected or the verifier errs.
Verify(a) == Answer(a, "decrypted", "verified") \/ Answer(a, "decrypted", "failing")

Build(a) == Answer(a, "verified", "built") \/ Answer(a, "verified", "failing")

\* The API server stores a new version of the resource of u.
NewVersion(u) ==
    /\ revision < MaxRevisions
    /\ revision' = revision + 1
    /\ version' = [version EXCEPT ![u] = revision + 1]

\* A write of the submitter reaches the API server: it is answered, or the
\* answer is lost and the submitter takes it for an error.
Write(a) ==
    /\ NewVersion(Scan[a])
    /\ applied' = [applied EXCEPT ![a] = TRUE]
    /\ \/ Goto(a, "submitted") /\ UNCHANGED lost
       \/ lost < MaxLostAnswers /\ lost' = lost + 1 /\ Goto(a, "failing")
    /\ UNCHANGED <<kind, read, pods, events, failures, crashes>>

\* Create that takes every answer for a success.
CreateUnchecked(a) ==
    \/ pc[a] = "built" /\ version[Scan[a]] = 0 /\ Write(a)
    \/ version[Scan[a]] > 0 /\ Answer(a, "built", "conflict")
    \/ Answer(a, "built", "submitted")

\* Create succeeds on a free name, answers AlreadyExists, or fails.
Create(a) ==
    \/ pc[a] = "built" /\ version[Scan[a]] = 0 /\ Write(a)
    \/ version[Scan[a]] > 0 /\ Answer(a, "built", "conflict")
    \/ Answer(a, "built", "failing")

\* Get that is repeated until it finds the resource.
GetUntilFound(a) ==
    /\ pc[a] = "conflict"
    /\ version[Scan[a]] > 0
    /\ read' = [read EXCEPT ![a] = version[Scan[a]]]
    /\ Goto(a, "fetched")
    /\ UNCHANGED <<kind, cluster, events, counters>>

\* Get finds the resource and its version, or fails: it may be gone by now.
GetExisting(a) ==
    \/ /\ pc[a] = "conflict"
       /\ version[Scan[a]] > 0
       /\ read' = [read EXCEPT ![a] = version[Scan[a]]]
       /\ Goto(a, "fetched")
       /\ UNCHANGED <<kind, cluster, events, counters>>
    \/ Answer(a, "conflict", "failing")

\* Update whose success falls through to the error return.
UpdateFallsThrough(a) ==
    \/ /\ pc[a] = "fetched"
       /\ version[Scan[a]] = read[a]
       /\ NewVersion(Scan[a])
       /\ applied' = [applied EXCEPT ![a] = TRUE]
       /\ Goto(a, "failing")
       /\ UNCHANGED <<kind, read, pods, events, counters>>
    \/ Answer(a, "fetched", "failing")

\* Update is refused unless the resource still has the version that was read.
Update(a) ==
    \/ /\ pc[a] = "fetched"
       /\ version[Scan[a]] = read[a]
       /\ Write(a)
    \/ Answer(a, "fetched", "failing")

PublishRunning(a) == Publish(a, "submitted", RunningEvent, "done")

\* publishFailure and the return that follows it.
PublishFailure(a) ==
    \/ Publish(a, "failing", FailedEvent, "done")
    \/ Publish(a, "duplicate", FailedEvent, "done")

\* The operator starts the pods of a resource and records that in its status.
OperatorActs(u) ==
    /\ version[u] > 0
    /\ NewVersion(u)
    /\ pods' = [pods EXCEPT ![u] = TRUE]
    /\ UNCHANGED <<kind, pc, read, applied, events, counters>>

\* The resource is deleted, and its pods with it.
Delete(u) ==
    /\ version[u] > 0
    /\ version' = [version EXCEPT ![u] = 0]
    /\ pods' = [pods EXCEPT ![u] = FALSE]
    /\ UNCHANGED <<kind, pc, read, revision, applied, events, counters>>

\* The process dies with every attempt that is under way.  (An attempt that is
\* still "delivered" may be the redelivery to the next process.)
Crash ==
    /\ crashes < MaxCrashes
    /\ crashes' = crashes + 1
    /\ pc' = [a \in Attempts |-> IF pc[a] \in {"delivered", "done"} THEN pc[a] ELSE "dead"]
    /\ UNCHANGED <<kind, read, cluster, events, failures, lost>>

Execute(a) ==
    \/ Admit(a)
    \/ CheckPods(a)
    \/ PublishAccepted(a)
    \/ Decrypt(a)
    \/ Verify(a)
    \/ Build(a)
    \/ Create(a)
    \/ GetExisting(a)
    \/ Update(a)
    \/ PublishRunning(a)
    \/ PublishFailure(a)

Next ==
    \/ \E a \in Attempts : Execute(a)
    \/ \E u \in Scans : OperatorActs(u) \/ Delete(u)
    \/ Crash

Spec == Init /\ [][Next]_vars

\* A worker that has taken a request runs it to the end, as long as the ports
\* answer.
FairSpec == Spec /\ \A a \in Attempts : WF_vars(Execute(a))

-----------------------------------------------------------------------------
(***************************************************************************)
(* Properties.                                                             *)
(***************************************************************************)
\* The state keeps its types.
TypeOK ==
    /\ kind \in [Scans -> Kinds]
    /\ pc \in [Attempts -> Labels]
    /\ read \in [Attempts -> Nat]
    /\ version \in [Scans -> Nat]
    /\ revision \in 0 .. MaxRevisions
    /\ pods \in [Scans -> BOOLEAN]
    /\ applied \in [Attempts -> BOOLEAN]
    /\ said \in [Attempts -> Seq(Event)]
    /\ topic \in [Scans -> Seq(Event)]
    /\ failures \in 0 .. MaxPublishFailures
    /\ lost \in 0 .. MaxLostAnswers
    /\ crashes \in 0 .. MaxCrashes

\* What one delivery puts on the topic is a stream the lifecycle allows
\* (FEATURES.md:242-245), whichever port errs, at whatever point the process
\* dies and however other deliveries interleave with it.
Attempt == INSTANCE ScanLifecycle WITH Requests <- Attempts, stream <- said
AttemptLifecycle == Attempt!Spec

SaidRunning(a) == \E i \in 1 .. Len(said[a]) : said[a][i] = RunningEvent

\* "Scan submitted to kubernetes" (process_scan_request.go:177-183) is never
\* said of a scan that Kubernetes did not store for this very delivery, nor
\* before the request was announced as accepted, although another delivery, the
\* operator and the cleanup change the same resource between the submitter's
\* Create, Get and Update.  Said is what the writer took without an error: it leaves
\* RequiredAcks unset (adapters.go:288-292) and does not wait for the broker, so
\* that the announcement is assumed to stay, and may still be missing for a reader.
RunningIsFounded ==
    \A a \in Attempts : SaidRunning(a) => applied[a] /\ said[a] = <<AcceptedEvent, RunningEvent>>

\* What a delivery that has come to its end has said is what became of its scan.
Told(a) ==
    IF applied[a] THEN said[a] = <<AcceptedEvent, RunningEvent>>
    ELSE said[a] # <<>> /\ said[a][Len(said[a])] = FailedEvent

\* The deliveries that came to their end and left the topic saying something else.
Untold == {a \in Attempts : pc[a] = "done" /\ ~Told(a)}

\* Each refused publish and each lost answer leaves at most one delivery behind
\* that told nothing, or something else than what became of its scan, however the
\* deliveries compete for it (process_scan_request.go:110, :180 and :186-215,
\* submitter.go:80-117): one fault never spreads to another delivery.
FaultsAccountForUntold == Cardinality(Untold) <= failures + lost

\* The strengthening behind AttemptLifecycle and RunningIsFounded: what an
\* attempt has said, and whether Kubernetes has stored its scan, by how far it is.
Silent   == {"delivered", "resolved", "checked", "duplicate"}
UnderWay == {"accepted", "decrypted", "verified", "built", "conflict", "fetched"}

Success == <<AcceptedEvent, RunningEvent>>

Course(a) ==
    /\ pc[a] \in Silent => said[a] = <<>> /\ ~applied[a]
    /\ pc[a] \in UnderWay => said[a] = <<AcceptedEvent>> /\ ~applied[a]
    /\ pc[a] = "submitted" => said[a] = <<AcceptedEvent>> /\ applied[a]
    /\ pc[a] = "failing" => said[a] \in {<<>>, <<AcceptedEvent>>}
    /\ pc[a] \in {"done", "dead"} =>
         \/ said[a] \in {<<>>, <<AcceptedEvent>>, <<FailedEvent>>, <<AcceptedEvent, FailedEvent>>}
         \/ said[a] = Success /\ applied[a]

CourseInv == \A a \in Attempts : Course(a)

\* The strengthening behind FaultsAccountForUntold: a delivery that has lost the
\* answer to its write is counted before it tells of a failure.
Truthful(a) ==
    /\ pc[a] = "failing" => ~applied[a]
    /\ pc[a] = "done" =>
         IF applied[a] THEN said[a] = Success
         ELSE said[a] \in {<<FailedEvent>>, <<AcceptedEvent, FailedEvent>>}

Untruthful == {a \in Attempts : ~Truthful(a)}

AccountInv == IsFiniteSet(Untruthful) /\ Cardinality(Untruthful) <= failures + lost

\* Every delivery comes to an end, or dies with its process: no answer of a port
\* leaves a worker waiting in the middle of a request.
AttemptsEnd == \A a \in Attempts : <>(pc[a] \in {"done", "dead"})

=============================================================================
