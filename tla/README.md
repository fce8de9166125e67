# A TLA+ model of scb-core-v2

scb-core-v2 takes scan requests from a Kafka topic, turns each into a SecureCodeBox
`Scan` resource in Kubernetes, and reports what becomes of it on a Kafka status
topic. This directory holds TLA+ modules that model the parts of it in which order,
concurrency and failure matter, the TLC configurations that check them on small
instances, and theorems about them that TLAPS checks for every value of the
constants. Paths below are relative to the root of the Go module;
`PROJECT.json` names the source lines of every definition.

## The system

| Component | State it keeps | Operations | What makes it correct |
|---|---|---|---|
| Status engine and evaluator (`internal/status`) | none | `Advance`, `Fail`, `Evaluate` | stages only move forward, nothing after a terminal state, a failure always has a stage |
| Observation handler (`usecase/services/handle_k8s_observation.go`) | map of lifecycle states behind a mutex | `handleSignal`, called by one goroutine per source | the topic shows the lifecycle, a closed request was announced as closed |
| Request consumer (`infrastructure/kafka/adapters.go`) | channel, workers, the group's offset at the broker | `Start`, `processMessage` | no message is passed over, none is given to the handler twice but for a stop, a crash or a rebalance |
| Request processing (`usecase/services/process_scan_request.go`) | none of its own; topic and cluster are shared | `Execute`, run by every worker | what is said of a request is true of its scan |
| Submitter, pod check (`infrastructure/k8s/submitter.go`) | the `Scan` resources in Kubernetes | `SubmitScan`, `ExistingScanPods` | a reported success is a stored resource |
| Registry, validation, verifiers, decryptor | none | `Resolve`, `Normalize`, `Validate`, `RequiresAuth`, the verifiers, `Decrypt` | the rules look at the same field; no token gets past a decryptor that has a key |
| Builders and renderer (`infrastructure/templates`) | none | `RenderManifest` | name, target, credential and commit of a manifest are those of the request |
| Status publisher and presenter | Kafka writer | `PublishStatusEvent`, `PublishErrorEvent` | an event the writer took without an error is on the topic (assumed, see below) |
| Cleanup (`infrastructure/scheduler`, `cleanup_scans.go`) | ticker | `Start`, `Execute` | no scan is deleted before its time, every finished one is put to the repository when it is past it |
| Configuration (`infrastructure/config`) | environment | `Load`, `readEnv`, `readEnvInt`, `buildCleanupPolicy` | a number that is accepted means what was asked for |
| Wiring (`cmd/controller/main.go`) | context, error channel | `main` | a stop ends the process; any other end is a crash and nothing worse |
| Watcher, findings consumer, cleanup repository | none: placeholders that wait or return nothing | `Start`, `DeleteCompleted...`, `DeleteFailed...` | - |
| Logging, kubeconfig, in-memory store, local test mode | log, files; a map nobody uses | - | - |

How they interact: `main` starts the consumer, the observation handler and the
cleanup scheduler as goroutines that share one context and report on one channel; the
first report, or a signal, ends the process. The consumer's workers call the
controller, which calls `Execute`; `Execute` calls its ports in order and publishes
through two status publishers. The observation handler publishes through the same two,
so deliveries and observations of one request meet on the status topic and nowhere
else: `Execute` never looks at the handler's map. Deliveries meet each other, the
operator and the cleanup on the `Scan` resource.

Hard behaviours: the two critical sections of `handleSignal` with the publish after
them; commits in the order workers finish; a rebalance that sends messages again which
workers still hold; a stop that waits for nobody, and errors of one goroutine that
take the others with them; deliveries of one request competing in Create/Get/Update;
calls that took effect but answer with an error; two writers of one request's stream;
everything that is forgotten at a restart; durations that do not fit their word.
`PROJECT.json` lists them as hazards, each at its line with the properties that cover
it.

## The modules

| Module | Models |
|---|---|
| `ScanStage` | the ordered stages, `IsValid`, `Rank` |
| `StatusEngine` | `Engine` and `Evaluator`, as pure operators |
| `ScanLifecycle` | abstract specification: what a reader of the topic is promised about the events of a request |
| `ObservationHandler` | the handler against any number of sources |
| `RequestConsumer` | poll loop, channel, pool, commits, rebalances, stop and restart, on one partition |
| `ProcessScanRequest` | concurrent deliveries through `Execute` and `SubmitScan`, every port free to fail |
| `ScanRequestRules` | the rules on the fields of a request and of its manifest, as pure operators |
| `ScanAdmission` | one delivery through `Execute` with the wired collaborators deciding by the rules |
| `Configuration` | what `Load`, `buildCleanupPolicy` and `NewConsumer` make of the environment, as pure operators |
| `ControllerProcess` | `main`, its three goroutines, the cleanup scheduler and service, the restart of the container |
| `ScanService` | consumer, request processing and observation handler composed on one status topic |
| `MC*` | small instances |
| `*Proofs` | theorems and proofs |

How they are put together:

- `ScanLifecycle` is the promise. `ObservationHandler` implements it for each request one
  source reports on, until a restart,
  `ProcessScanRequest` for each delivery, both by `INSTANCE` with a refinement mapping.
- `ScanAdmission`, the wired pipeline, implements `ProcessScanRequest`, the pipeline
  whose ports may answer anything.
- `ControllerProcess` EXTENDS `RequestConsumer` and `Configuration`; its property
  `ImplementsConsumer` is the consumer's `Spec`, so that what holds of the consumer
  alone holds of it in the whole process.
- `ScanService` instantiates `RequestConsumer`, `ProcessScanRequest` and
  `ObservationHandler`, each with its own variables but for the shared topic, and
  takes its steps from theirs. A step of the pipeline is a step of the worker that is
  on that attempt; a restart takes a step of all three. It implements the consumer as it
  stands, and each of the other two in an environment (`ImplementsRequests`,
  `ImplementsHandler`): others publish on the topic they publish on or use up its faults
  (`OtherPublish`), and a worker gives up the delivery it is on (`GiveUp`).

**ObservationHandler.** `states` is the Go map (an absent entry is the zero state, as
Go's lookup gives it). A call of `handleSignal` has three steps: `ReadState` (first
critical section), `StoreState` or `Ignore` (evaluation and second section),
`Publish` or `PublishFails`. `pc`, `request`, `signal` and `seen` are its locals. The
evaluation is a pure function of the locals, so it is not stored. A refused publish
either left nothing on the topic or left the event and lost the answer. `Restart`
empties the map. `Feeds` says which requests a source reports on: the wiring lets the
watcher and the findings consumer report on the same ones. The topic is one sequence
per request, in the order the status writer took the events. This assumes that an event
taken without an error is on the topic, although the writer leaves `RequiredAcks` unset
(`adapters.go:288-292`), with which this version of the client does not wait for the
broker; and it is an order of writing only, since the writer's LeastBytes balancer
spreads the events of a request over partitions that have no common order. Every
statement about what is announced, or announced first, is meant so. `Owned` are the
requests no two sources report on: of these, and until the process restarts,
the handler keeps the lifecycle (`OwnedLifecycleOrder`).

**RequestConsumer.** `position`, `polled`, `queue` and `closed` are the poll loop and
`msgCh`; a worker is idle, has taken a message, has processed it, or has stopped.
`Commit` sets the group's offset to one behind the worker's message, forward or back,
as the broker does. `HandleInterrupted` is a handler that gives up because the context
is done. `Rebalance` hands the partition out anew: the reader goes on at the committed
offset, while the poll loop, the channel and the workers keep what they hold and may
still commit it. `MainReturns` and `Crash` end the process at any step and start the
next at the committed offset. The handler is one step: what it does is
`ProcessScanRequest`, and `ScanService` puts the two together.

**ProcessScanRequest.** One label of `pc` before each call of `Execute`. A Kubernetes
resource has a `resourceVersion` that the operator, other deliveries and deletions
change, an `Update` succeeds only on the version that was read, and a write may apply
and still be answered with an error. `PodChecks` is "placeholder" for the wired
`ExistingScanPods`, which never finds any, and "pods" for the check the port promises.
`said[a]` records the events of one delivery, `topic[u]` those of one request.
`Admit` stands for `Resolve`, `Normalize` and `Validate`, which depend on the request
alone; `kind` is what they make of it.

**ScanAdmission.** The decisions `ProcessScanRequest` leaves open, taken by
`ScanRequestRules`, up to the manifest: the template, the name of the resource, the
target, the credential, and the commit scan with its baseline. A text is empty, blank
or other, the three cases the rules tell apart; an alias is given in lower case since
every use folds its case.

**Configuration.** A variable is unset, text that is no number, or a number. `Load`
never refuses one: `readEnvInt` falls back to the default, `readEnv` passes the text on
and `buildCleanupPolicy` makes `main` panic. A `time.Duration` is a word of 2 × `Half`
values and a product wraps in it. `ControllerProcess` assumes `Half`, `Minute` and
`Day` to be positive and nothing else of them, so that the 64-bit nanoseconds of Go
are one value of these constants.

**ControllerProcess.** `phase` is where `main` is, `errCh` the channel of three places,
`scheduler` where `CleanupScheduler.Start` and the `CleanupScansService.Execute` it
calls are, `due` and `tick` the ticker. `MainReceives` ends the process on the first
report, without a crash when it is the context's error and as `os.Exit(1)` otherwise;
`MainStops` is the other case of the `select`, and either may be taken when both are
there. A panic, of `buildCleanupPolicy` or of `NewTicker` in its goroutine, ends the
process too. `ProcessEnds` is the restart of the container. The Scan resources and their
ages outlive the process. The repository that is wired deletes nothing yet and compares
no age. The model gives a repository what its port gives it leave to do: `Stale` are
the scans of the port's "olderThan", and a call deletes any of them, none included, or
fails after it deleted some. So the wired one is among the repositories that the
properties hold for, and no property says that a scan is ever deleted: `CleanupGoesOn`
says that it is put to the repository, and again for as long as it is kept.

**ScanService.** `attempt[w]` ties a worker to the delivery it runs: `Take` starts one
for every message taken off the channel, `Handled` waits for its end, `Interrupted`
gives it up in the middle. The service assumes of its constants what the three do
(`PartsAssumption`). A source observes a scan only while Kubernetes has it.

## The runs

Every bound is a CONSTANT of the module and is enforced by a guard, so that the state
space is finite without constraints that would disturb liveness. Deadlock is checked in
`ControllerProcess`, where time passes for ever. It is not checked in the others: in
each of them the work ends (all observations made, all messages handled, all deliveries
done) and the system rests.

| Run | Shows | Instance |
|---|---|---|
| `ObservationHandlerFaults` | types; a closed request is accounted for; only a stale reader reopens it; an observed end surfaces; a request with one source follows the lifecycle and agrees with the map until a restart | 2 sources on one request, one of them alone on another, 3 calls, 1 refusal, 1 restart |
| `RequestConsumerPool` | bounded loss, of one process and of all together; no fall below the start, one handling per delivery | 3 workers, 4 messages, 1 stop, 2 crashes, 1 rebalance, workers symmetric |
| `RequestConsumerSingle` | one worker: nothing lost but to stops, ordered commits, nothing waits for ever | 6 messages with each malformed kind, 1 stop, 1 crash, 1 rebalance |
| `ProcessScanRequestFaults` | types; running is founded; faults account for what stays untold; each delivery follows the lifecycle and ends | 2 deliveries of 1 request, 5 writes, 1 publish error, 1 lost answer, 1 crash |
| `ScanAdmissionWired` | the rules agree, no token bypasses a decryptor with a key, names separate scanners, the manifest is what was asked for, refinement | every registered alias and four more, with each kind of target, token, commit and key |
| `ControllerProcess` | types; the process implements the consumer; scans are kept as long as asked and then put to the repository; a stop ends it; requests get through | 1 worker, 1 message, 1 scan, 1 stop, 1 crash, a Duration of six values, six environments |
| `ScanService` | the announcement comes first, commits cover up nothing, progress is of stored scans, a message goes to one worker per delivery, every request is answered | 2 workers, a request and a blank message, 1 stop, 1 refused publish, 1 observation of a stage |

Why the bounds suffice: a race of `handleSignal` needs two overlapping calls, and
a third meets what they left, or goes on beside them about the request that only one
source reports on; `AllObservations` has each outcome of evaluator and engine. A pool of three has a worker in front of, one behind and one beside a commit,
and a rebalance can hand out again what the channel and two workers hold; the second
crash shows that the losses of two processes add up and no more;
with one worker and six messages poll loop, channel and worker are all full. Two
deliveries are what one resource is raced for; five writes allow a create, an
operator's write, a re-creation and updates of both. In a Duration of six values with
a day of two minutes a product of the policy fits, wraps to a negative number, or is
an interval of zero, and the environments choose among these and text for each
variable. The blank message of `ScanService` is the one that
can commit past the request. The theorems below remove the bounds for most of these
properties.

Further runs end in a counterexample. Each checks one statement of a document, comment
or test against the code, and `PROJECT.json` quotes it under findings.

| Run | Counterexample in words |
|---|---|
| `ObservationHandlerRace` | two sources read the same old state; both publish, in either order |
| `RequestConsumerLoss` | worker 2 commits past the message of worker 1; a crash loses that one |
| `RequestConsumerDrain` | `main` returns before the channel is drained |
| `ScanAdmissionCommit` | an `FS_CODE_COMMIT` request without a commit is scanned by commits; an `FS_CODE` request with one is not |
| `ScanServiceStream` | the handler publishes the scanning stage of a scan before the worker that submitted it publishes cloning; nothing fails |

The runs `ObservationHandlerRace` and `ScanServiceStream` refute the safety part of the
abstract specification, `RequestConsumerLoss` and `ScanAdmissionCommit` an invariant and
`RequestConsumerDrain` an action property; they need no fairness. The repository has two
rules for commit scans: FEATURES.md goes by the alias, as the builders do
(`ScansWhatWasAsked`, which holds), the comments of the code by the commit
(`CommitScanByCommit`, which does not).

Other points met while modelling, which the models show with the same properties under
other constants or which need no model:

- a restart makes the handler announce stages again (`LifecycleOrder` with
  `MaxRestarts = 1`);
- without a key the decryptor returns every token as it came (`decryptor.go:21-23`), so
  that an encrypted one reaches the manifest in a field that `renderer.go:32` calls
  decrypted; with a key it refuses every token that is not blank, and nothing is ever
  decrypted (`Decrypt`; `NoTokenBypassesDecryptor` is about the second case only);
- a refused final event closes its request silently, since the handler has stored the
  terminal state by then and drops every later observation (`PublishFails`);
- a redelivered request is announced again, accepted and running, and may be reported
  as failed while the scan of its first delivery runs (two attempts of
  `ProcessScanRequest` on one scan);
- with one worker and a stop, `AtLeastOnce` fails because a handler cut off by the
  context is committed (`MaxCancels = 1`);
- a rebalance while messages are in work moves the group's offset back when their old
  commits arrive (`CommitNeverRewinds` without its condition);
- a delivery that finds pods announces a terminal failure for the running scan
  (`CheckPods`, `PublishFailure`);
- a publish error on the accepted event ends a request unheard (`PublishAccepted`);
- nuclei, which FEATURES.md:342-347 lists, is accepted and has no template, so that
  every such request fails after it was announced (`ScanAdmission`, `Build`);
- the resource of an `FS_IAC` scan is named `fs_iac-scan-...` (`NormalizeScannerName`);
- a retention whose product does not fit 64 bits is accepted and becomes another one,
  or a negative one that makes every finished scan stale (`KeptAsLongAsAsked` without
  its condition `asked < Half`);
- an interval of zero minutes is accepted and lets `NewTicker` panic in its goroutine at
  every start (`TickerPanics`).

Each property of a passing run has a mutant in `PROJECT.json`: a definition of the
module changed as a plausible bug would change the code, with which TLC finds the
property violated. The mutants stand beside the definitions they replace.

## Fairness

- `ObservationHandler!FairSpec`: weak fairness on each goroutine that is inside
  `handleSignal`. The Go scheduler runs it, the mutex is held for one map access, and
  the Kafka writer answers. No source is obliged to observe anything. `EndSurfaces`
  excepts a refused event and a process that died.
- `RequestConsumer!FairSpec`: weak fairness on the poll loop, on each worker and on the
  return of `main` after a stop. A worker that is idle is woken by the channel; the
  handler ends (`AttemptsEnd` says so of `Execute`). Commits get no fairness of their
  own: `CommitLost` may be taken each time. Nothing obliges the broker to rebalance.
- `ProcessScanRequest!FairSpec`: weak fairness on each delivery. Its ports answer, with
  whatever answer. A delivery that dies with its process never ends; what the next
  process does with the request is `RequestConsumer`.
- `ControllerProcess!FairProcessSpec`: weak fairness on the poll loop and each worker as
  before, on the scheduler's goroutine, on `main` once it can end, on the restart of the
  container (`Boot`) and on the clock. No error, signal or crash is obliged to happen,
  and the goroutines that report the context's error get none: `EndsWhenTold` needs only
  `main`.
- `ScanService!FairSpec`: weak fairness on the poll loop, on each worker with the attempt
  it is on, and on the end of a process that was told to stop. The operator and the
  observation handler get none, so that no property leans on an observation.

## What is proved

The proof modules need no bound on processes, messages or failures beyond the named
assumptions of each module.

- **ScanLifecycleProofs.** The stages are a chain and `LifecycleIsRecoverable`: two
  events of a stream the lifecycle allows are always ordered by stage and finality.
- **ObservationHandlerProofs.** `TypeCorrect`; `ClosedRequestsAnnounced`, inductive with
  the types: a state becomes terminal only in `StoreState` with a terminal event, which
  the same call then publishes or has refused, and neither the topic nor `dropped`
  shrinks. `ClosedRequestsStayClosed` from the three early returns of the engine. For
  the requests that one source reports on, whatever other sources do to others,
  and until the process restarts, `MapAgreesWithTopic` and `OwnedStreamsFollow`; if no
  request has two sources and there is no restart,
  `HandlerImplementsLifecycle`, a case of it, for the whole topic. They
  rest on `OwnedInv`, which says of these requests until a restart: what a call
  read is still the entry, the stored entry is what the call decided, and a request no
  call is publishing for has an entry that is not behind its topic (`Tracks`). The
  invariant is needed because the topic lags behind the map between store and publish,
  and stays behind after a refused event. The run Race shows that the
  first restriction is needed; so is the second (see above).
- **RequestConsumerProofs.** `TypeCorrect`; `CommitsStayAboveStart` and
  `CrashLossBounded` from `PoolInv`. A rebalance breaks the plain order of the channel,
  so the invariant (`NotOvertaken`) says of each request: on the way from the reader to
  a worker and among the commits, nothing behind it is ahead of every copy of it unless
  it was handled or is held. The map from requests at risk to the workers that hold
  them, of which the one that committed furthest is none, then bounds their number by
  one less than the pool. `CrashLossesBounded` adds this up over the processes: as
  long as nothing was told to stop, what is lost is at most `Workers - 1` for each crash
  (`BudgetStep`). A restart is the only step that adds to `Lost`, and it adds what was
  `AtRisk`; the induction needs that a context that is done means a counted stop
  (`StopIsCounted`), since a process that is going down has no bound on what it risks.
  `SingleWorkerAtLeastOnce` is the case of one worker: zero for each crash.
  `DeliveredOnce` counts: the handlings of a message, its copies on the channel and in
  work, and the one still to be fetched are together never more than the processes
  that ended, the rebalances, and one. `SingleWorkerCommitsInOrder` needs that with
  one worker and no rebalance channel, poll loop and worker hold ascending offsets,
  none below the committed one.
- **ProcessScanRequestProofs.** `TypeCorrect`; `RunningEventsFounded` and
  `DeliveriesImplementLifecycle` from `CourseInv`, which says for each label what was
  published and whether the scan is stored. `FaultsAccount` from `AccountInv`, for any
  number of deliveries: those whose last event is not true of their scan, or that a
  lost answer has already bound to end so, are finitely many and
  no more than the faults so far. The invariant counts the ones in the middle
  (`Untruthful`), since a delivery is untold only later than the call that failed.
  Without faults, no delivery is left untold.
- **ScanAdmissionProofs.** `AcceptedRequestsVerify`, `TokensMeetDecryptor` (of a
  configured key; without one it says nothing) and `ManifestIsWhatWasAsked` from `RulesInv`, for any set of messages; `ScannersHaveOwnNames`
  by the table of aliases. `WiredDeliveryImplements` is the refinement: `RulesInv` ties the
  request to the kind that the mapping gives it, and with it each decision of the rules
  is one that `ProcessScanRequest` allows for that kind.
- **ControllerProcessProofs.** `ProcessTypeCorrect`: each goroutine reports at most once
  (`Told`), which is why `errCh` never lacks room. `ProcessImplementsConsumer`: every
  step is a step of the consumer or leaves it alone, whatever ends the process; with it
  `ProcessLossBounded`, the consumer's bound for the whole process. `ScansAreKept`: a
  retention wraps to a smaller one only when it does not fit a Duration, for every
  width of the word.
- **ScanServiceProofs.** For any pool, partition, scans, sources and bounds, from the
  assumption that every message carries a request. `RequestsAreAnnouncedFirst` from
  `AnnounceInv`: an attempt past its announcement, and a source that speaks of a
  request, find the announcement on the topic, which never shrinks; a source can speak
  only of a scan that Kubernetes has. `CommitsAreAnswered` from `OutcomeInv` and
  `OnAttempt`: an attempt that is done has published its outcome as long as the topic
  refused nothing, and a request counts as handled only with the attempt of the worker
  that held it. `ProgressFounded` from `FoundedInv`: a worker past its
  submission without an error, Kubernetes having the scan, a source in the middle of a
  call and a state the handler remembers each mean that a delivery stored it, and no
  step takes that back; the deletion of the resource does not.
  `ServiceImplementsConsumer` maps every step to one of the consumer or to
  a stutter, and `ServiceLossBounded` and `ServiceLossesBounded` carry the consumer's
  bounds over to the service. `StartedOnce` from `GivenInv`, which counts as
  `DeliveredOnce` does, but the starts of a message and not its handlings: a message
  that a worker gave up is not started again. These last three
  cite the theorems of the consumer's module through `INSTANCE`; what that module
  assumes of its constants follows from `PartsAssumption` (`ConsumerAssumed`).
- **ScanServicePartsProofs.** What the theorems about the deliveries and about the
  handler say of one component with a topic of its own, said of the service.
  `ServiceImplementsHandler` and `ServiceImplementsRequests` are the refinements: every
  step of the service is one of the component or one of its environment. A step of
  another worker, of the consumer or of the operator leaves the component alone; a
  restart is a step of the component too, since all of them count the same ends
  (`EndsStay`). A worker at work is on an attempt of the message it
  holds (`PoolPlaced`), and one whose attempt has returned does not give it up. The components' invariants
  then hold in the service if the environment keeps them. `HandlerInv` survives because
  others only ever append to the topic (`AroundClosed`); `RequestInv` because others
  write neither `said` nor `applied`, take back no fault that was counted, and end a
  delivery only as "dead" (`AmongCourse`). From these `ClosedRequestsAnnouncedInService`,
  `ClosedRequestsStayClosedInService`, `RunningEventsFoundedInService`,
  `FaultsAccountInService`, and `DeliveriesFollowInService`: each delivery implements
  the abstract lifecycle also when it is cut off. The components' own step lemmas are
  cited through `INSTANCE`, none is proved again.

Model-checked only: liveness and everything else under fairness, which is out of the
prover's reach (`EndSurfaces`, `HandledOrLost`, `AttemptsEnd`, `EndsWhenTold`,
`CleanupGoesOn`, `UsableHandlesAll`, `EveryRequestAnswered`).
Every invariant, action property and refinement the passing runs check is proved.
Some theorems are not properties of a run: on the instance of `ScanService`, TLC takes
longer over `ImplementsRequests`, `ImplementsHandler` and `DeliveriesFollow` than a run
should, and the theorems do not depend on an instance.

## Not modelled

- The partitions and the acknowledgements of the status topic: an event is appended to
  the one sequence of its request. What an unset `RequiredAcks` loses after a publish
  returned, and what order a reader of several partitions sees, is not said. The
  stages of the events do not restore that order: `LifecycleIsRecoverable` holds of one
  stream of the lifecycle, while `Execute` and the handler may say the same stage.
- More than one partition of the request topic, and more than one process of the group
  at a time: partitions share nothing but the pool, and a rebalance that gives the
  partition back is `Rebalance`.
- Fetch errors that are not the context's: the poll loop logs them and tries again.
- The retries inside the Kafka and Kubernetes clients. A retried write that arrives
  twice would repeat an event on the topic.
- The watcher and the findings consumer, which are placeholders in the source: the
  sources of `ObservationHandler` are what their ports allow. The cleanup repository is
  one too (see `ControllerProcess`); what a first deletion that fails for ever does to
  the second one is not said, since errors are bounded by `MaxCrashes`.
- Encryption: a token is a text, and whether it is encrypted is not in the model.
- The branches of `Execute` for a nil pod checker or submitter, which `main` never wires.
- The construction of clients and services in `main`, and the addresses, topics and
  namespaces of the configuration: no decision depends on them.
- Texts: messages, log lines, YAML, URL escaping, the debug files and the resolver of
  local test mode.
- The kubeconfig, logging, and the in-memory store that nothing uses.
- The growth of the handler's map, from which no entry is removed: a finite instance
  has nothing to say about it.

## Plan

Done: the decision layer and the handler; the consumer with rebalances; the pipeline and
the submitter; the rules and the manifest; the configuration, the process and the
cleanup; the composed service; the theorems above.

What is left, in the order of use:

1. Larger instances of `ScanService`: two requests, a redelivery, and the handler under
   fairness, once the watcher is more than a placeholder and says what it reports.
2. A state for the partitions of the status topic, if a consumer of it is added.
3. What the handler says of a request that an earlier process announced: after a
   restart its map is empty, and `MapAgreesWithTopic` and `OwnedStreamsFollow`
   hold for the first process only. A statement about the events of each process apart would
   say what is left of them.

## Running

    tlc -workers 2 -config ObservationHandlerFaults.cfg MCObservationHandler
    tlapm ObservationHandlerProofs.tla

Each run is named after its `.cfg`; the module in front of it is the `MC` module of the
component.
