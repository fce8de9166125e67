--------------------------- MODULE RequestConsumer ---------------------------
(***************************************************************************)
(* Consumer.Start and processMessage                                       *)
(* (internal/infrastructure/kafka/adapters.go): a poll loop fetches the    *)
(* messages of a partition in order and puts them on a bounded channel; a  *)
(* pool of workers takes them off, calls the handler and then commits.     *)
(* Several workers finish in any order, and a commit moves the group's     *)
(* offset to just behind the committed message whatever happened to the    *)
(* messages before it.  The partition outlives the process, which can be   *)
(* told to stop or die at any step and is started again, and which the     *)
(* broker can make read the partition again from the group's offset while  *)
(* the workers are busy with it.                                           *)
(***************************************************************************)
EXTENDS Integers, Sequences, FiniteSets

CONSTANTS
    Workers,     \* the goroutines of the pool
    Messages,    \* bound: the messages in the partition, offsets 0 .. Messages - 1
    Payload,     \* Payload[o]: what the value of the message at offset o is
    MaxCancels,  \* bound: times the process is told to stop
    MaxCrashes,  \* bound: times the process dies
    MaxRebalances   \* bound: rebalances of the consumer group

Offsets == 0 .. Messages - 1

\* Blank, not an object, not decodable: skipped by one early return each.
Malformed == {"blank", "fragment", "undecodable"}

\* NewConsumer replaces a pool size below 1 by 10.
ASSUME WorkersAssumption == IsFiniteSet(Workers) /\ Workers # {}

ASSUME MessagesAssumption ==
    /\ Messages \in Nat
    /\ Payload \in [Offsets -> Malformed \cup {"request"}]

ASSUME StopsAssumption ==
    MaxCancels \in Nat /\ MaxCrashes \in Nat /\ MaxRebalances \in Nat

VARIABLES
    committed,   \* the group's offset at the broker
    start,       \* the offset this process was given when it joined the group
    position,    \* the offset FetchMessage returns next
    polled,      \* the message the poll loop holds, or None
    queue,       \* msgCh: offsets of the messages in the channel
    closed,      \* msgCh is closed, and Start has returned
    cancelled,   \* ctx is done: SIGINT or SIGTERM arrived
    pc,          \* pc[w]: where worker w is in processMessage
    held,        \* held[w]: the offset of the message worker w is processing
    runs,        \* runs[o]: how often the handler has gone through message o
    cancels, crashes, rebalances     \* what the bounds count

vars == <<committed, start, position, polled, queue, closed, cancelled,
          pc, held, runs, cancels, crashes, rebalances>>

stops == <<cancels, crashes, rebalances>>

None == -1

Capacity == Cardinality(Workers)     \* cap(msgCh) = workerPoolSize

-----------------------------------------------------------------------------
Init ==
    /\ committed = 0                 \* StartOffset: FirstOffset
    /\ start = 0
    /\ position = 0
    /\ polled = None
    /\ queue = <<>>
    /\ closed = FALSE
    /\ cancelled = FALSE
    /\ pc = [w \in Workers |-> "idle"]
    /\ held = [w \in Workers |-> None]
    /\ runs = [o \in Offsets |-> 0]
    /\ cancels = 0 /\ crashes = 0 /\ rebalances = 0

\* FetchMessage returns a message.  When ctx is done it still may.
FetchMessage ==
    /\ ~closed
    /\ polled = None
    /\ position < Messages
    /\ polled' = position
    /\ position' = position + 1
    /\ UNCHANGED <<committed, start, queue, closed, cancelled, pc, held, runs, stops>>

\* FetchMessage returns context.Canceled: the channel is closed, Start returns.
FetchCancelled ==
    /\ ~closed
    /\ polled = None
    /\ cancelled
    /\ closed' = TRUE
    /\ UNCHANGED <<committed, start, position, polled, queue, cancelled, pc, held, runs, stops>>

\* The channel has room.
Enqueue ==
    /\ polled # None
    /\ Len(queue) < Capacity
    /\ queue' = Append(queue, polled)
    /\ polled' = None
    /\ UNCHANGED <<committed, start, position, closed, cancelled, pc, held, runs, stops>>

\* ctx is done while the message waits for room: it is dropped, uncommitted.
EnqueueCancelled ==
    /\ polled # None
    /\ cancelled
    /\ polled' = None
    /\ closed' = TRUE
    /\ UNCHANGED <<committed, start, position, queue, cancelled, pc, held, runs, stops>>

\* The group is rebalanced and this process given the partition again: the
\* reader goes on at the group's offset.  What the poll loop, the channel and the
\* workers hold they keep, and its commits the broker still accepts.
Rebalance ==
    /\ ~closed
    /\ rebalances < MaxRebalances
    /\ rebalances' = rebalances + 1
    /\ position' = committed
    /\ UNCHANGED <<committed, start, polled, queue, closed, cancelled, pc, held, runs,
                   cancels, crashes>>

Poll == FetchMessage \/ FetchCancelled \/ Enqueue \/ EnqueueCancelled

\* Take that leaves the message on the channel.
TakeCopy(w) ==
    /\ pc[w] = "idle"
    /\ queue # <<>>
    /\ held' = [held EXCEPT ![w] = Head(queue)]
    /\ pc' = [pc EXCEPT ![w] = "taken"]
    /\ UNCHANGED <<queue, committed, start, position, polled, closed, cancelled, runs, stops>>

\* Take that commits before the message is processed.
TakeAndCommit(w) ==
    /\ pc[w] = "idle"
    /\ queue # <<>>
    /\ held' = [held EXCEPT ![w] = Head(queue)]
    /\ queue' = Tail(queue)
    /\ pc' = [pc EXCEPT ![w] = "taken"]
    /\ committed' = Head(queue) + 1
    /\ UNCHANGED <<start, position, polled, closed, cancelled, runs, stops>>

\* Worker w receives from the channel, which it may still do once it is closed.
Take(w) ==
    /\ pc[w] = "idle"
    /\ queue # <<>>
    /\ held' = [held EXCEPT ![w] = Head(queue)]
    /\ queue' = Tail(queue)
    /\ pc' = [pc EXCEPT ![w] = "taken"]
    /\ UNCHANGED <<committed, start, position, polled, closed, cancelled, runs, stops>>

\* The channel is closed and drained: the worker's range loop ends.
WorkerStops(w) ==
    /\ pc[w] = "idle"
    /\ queue = <<>>
    /\ closed
    /\ pc' = [pc EXCEPT ![w] = "stopped"]
    /\ UNCHANGED <<committed, start, position, polled, queue, closed, cancelled, held, runs, stops>>

\* The handler goes through the request and returns; an error is only logged.
HandleRequest(w) ==
    /\ pc[w] = "taken"
    /\ Payload[held[w]] = "request"
    /\ runs' = [runs EXCEPT ![held[w]] = @ + 1]
    /\ pc' = [pc EXCEPT ![w] = "processed"]
    /\ UNCHANGED <<committed, start, position, polled, queue, closed, cancelled, held, stops>>

\* The handler gives the request up because ctx is done: the Kafka writer and
\* the Kubernetes client return its error.  processMessage goes on all the same.
HandleInterrupted(w) ==
    /\ pc[w] = "taken"
    /\ Payload[held[w]] = "request"
    /\ cancelled
    /\ pc' = [pc EXCEPT ![w] = "processed"]
    /\ UNCHANGED <<committed, start, position, polled, queue, closed, cancelled, held, runs, stops>>

\* Every return of processMessage comes right after CommitMessages.
ReadyToCommit(w) ==
    \/ pc[w] = "processed"
    \/ pc[w] = "taken" /\ Payload[held[w]] \in Malformed

NextMessage(w) ==
    /\ pc' = [pc EXCEPT ![w] = "idle"]
    /\ held' = [held EXCEPT ![w] = None]

\* Commit that goes one message too far.
CommitOneTooFar(w) ==
    /\ ReadyToCommit(w)
    /\ committed' = held[w] + 2
    /\ NextMessage(w)
    /\ UNCHANGED <<start, position, polled, queue, closed, cancelled, runs, stops>>

\* The broker sets the group's offset, also when that moves it back.
Commit(w) ==
    /\ ReadyToCommit(w)
    /\ committed' = held[w] + 1
    /\ NextMessage(w)
    /\ UNCHANGED <<start, position, polled, queue, closed, cancelled, runs, stops>>

\* CommitMessages fails (broker error, ctx done, reader closed), unnoticed.
CommitLost(w) ==
    /\ ReadyToCommit(w)
    /\ NextMessage(w)
    /\ UNCHANGED <<committed, start, position, polled, queue, closed, cancelled, runs, stops>>

Work(w) ==
    \/ Take(w)
    \/ WorkerStops(w)
    \/ HandleRequest(w)
    \/ HandleInterrupted(w)
    \/ Commit(w)
    \/ CommitLost(w)

\* The signal that stops the process arrives.
Cancel ==
    /\ ~cancelled
    /\ cancels < MaxCancels
    /\ cancelled' = TRUE
    /\ cancels' = cancels + 1
    /\ UNCHANGED <<committed, start, position, polled, queue, closed, pc, held, runs,
                   crashes, rebalances>>

\* A new process that reads on from where the old one was.
RebootInPlace ==
    /\ start' = committed
    /\ polled' = None
    /\ queue' = <<>>
    /\ closed' = FALSE
    /\ cancelled' = FALSE
    /\ pc' = [w \in Workers |-> "idle"]
    /\ held' = [w \in Workers |-> None]
    /\ UNCHANGED <<committed, position, runs>>

\* A new process that reads the partition from its beginning.
RebootFromFirst ==
    /\ start' = committed
    /\ position' = 0
    /\ polled' = None
    /\ queue' = <<>>
    /\ closed' = FALSE
    /\ cancelled' = FALSE
    /\ pc' = [w \in Workers |-> "idle"]
    /\ held' = [w \in Workers |-> None]
    /\ UNCHANGED <<committed, runs>>

\* The process is gone with all it held; a new one resumes at the group's offset.
Reboot ==
    /\ start' = committed
    /\ position' = committed
    /\ polled' = None
    /\ queue' = <<>>
    /\ closed' = FALSE
    /\ cancelled' = FALSE
    /\ pc' = [w \in Workers |-> "idle"]
    /\ held' = [w \in Workers |-> None]
    /\ UNCHANGED <<committed, runs>>

\* main returns once ctx is done; it waits for no goroutine.
MainReturns == cancelled /\ Reboot /\ UNCHANGED stops

\* main calls os.Exit, or the process dies in any other way.
Crash ==
    /\ ~cancelled
    /\ crashes < MaxCrashes
    /\ crashes' = crashes + 1
    /\ Reboot
    /\ UNCHANGED <<cancels, rebalances>>

Next ==
    \/ Poll
    \/ \E w \in Workers : Work(w)
    \/ Rebalance
    \/ Cancel
    \/ MainReturns
    \/ Crash

Spec == Init /\ [][Next]_vars

\* The scheduler runs every goroutine that can move, and the handler and the
\* broker answer.
FairSpec ==
    /\ Spec
    /\ WF_vars(Poll)
    /\ \A w \in Workers : WF_vars(Work(w))
    /\ WF_vars(MainReturns)

-----------------------------------------------------------------------------
(***************************************************************************)
(* Properties.                                                             *)
(***************************************************************************)
\* The state keeps its types; a worker that is processing holds a message.
TypeOK ==
    /\ committed \in 0 .. Messages
    /\ start \in 0 .. Messages
    /\ position \in 0 .. Messages
    /\ polled \in Offsets \cup {None}
    /\ queue \in Seq(Offsets)
    /\ closed \in BOOLEAN
    /\ cancelled \in BOOLEAN
    /\ pc \in [Workers -> {"idle", "taken", "processed", "stopped"}]
    /\ held \in [Workers -> Offsets \cup {None}]
    /\ runs \in [Offsets -> Nat]
    /\ cancels \in 0 .. MaxCancels
    /\ crashes \in 0 .. MaxCrashes
    /\ rebalances \in 0 .. MaxRebalances
    /\ \A w \in Workers : pc[w] \in {"taken", "processed"} => held[w] \in Offsets

Requests == {o \in Offsets : Payload[o] = "request"}

Handled == {o \in Offsets : runs[o] > 0}

\* The requests that would never be handled if the process stopped now, beyond
\* those earlier processes lost.
AtRisk == {o \in Requests \ Handled : start <= o /\ o < committed}

\* The requests that were passed over for good when an earlier process stopped.
Lost == {o \in Requests \ Handled : o < start}

\* A process that dies loses fewer requests than the pool has workers: at least
\* one worker is never among those whose message another one has committed past
\* (adapters.go:191-200: the handler returns, then its own offset is committed).
\* Once ctx is done the workers commit what the handler gave up as well, and
\* the bound is off.
LossWindow ==
    ~cancelled => Cardinality(AtRisk) <= Cardinality(Workers) - 1

\* In sum, too: until something stops it on purpose, each crash passes over fewer
\* requests than the pool has workers, whatever earlier processes passed over, and
\* although a rebalance puts the commits of several processes' messages out of order
\* (adapters.go:191-200).
LossBudget ==
    cancels = 0 => Cardinality(Lost) <= crashes * (Cardinality(Workers) - 1)

\* The strengthening behind LossWindow and NeverBelowStart.  A process touches no
\* message before its start.
NothingBelowStart ==
    /\ start <= committed
    /\ start <= position
    /\ polled # None => start <= polled
    /\ \A i \in 1 .. Len(queue) : start <= queue[i]
    /\ \A w \in Workers : pc[w] \in {"taken", "processed"} => start <= held[w]

\* The handler went through o, or a worker holds o and has still to do it.
Covered(o) == o \in Handled \/ \E w \in Workers : pc[w] = "taken" /\ held[w] = o

QueuedBefore(o, i) == \E j \in 1 .. i - 1 : queue[j] = o

\* Until ctx is done, whatever comes after a request of this process, on its way
\* from the reader to a worker or among the commits, comes after it on that way
\* too, also when a rebalance sends a request that way twice.
NotOvertaken(o) ==
    /\ o < committed => Covered(o)
    /\ \A w \in Workers :
          pc[w] \in {"taken", "processed"} /\ o < held[w] => Covered(o)
    /\ \A i \in 1 .. Len(queue) : o < queue[i] => Covered(o) \/ QueuedBefore(o, i)
    /\ o < polled => Covered(o) \/ QueuedBefore(o, Len(queue) + 1)
    /\ o < position =>
          Covered(o) \/ QueuedBefore(o, Len(queue) + 1) \/ o = polled

NoneOvertaken == \A o \in Requests : start <= o => NotOvertaken(o)

ProcessedIsHandled ==
    \A w \in Workers : pc[w] = "processed" => held[w] \in Handled

PoolInv ==
    /\ TypeOK
    /\ NothingBelowStart
    /\ ~cancelled => NoneOvertaken /\ ProcessedIsHandled /\ LossWindow

\* The group's offset never falls back below what this process was given, so
\* that what an earlier process finished and committed is not started again,
\* although the workers' commits arrive in any order (adapters.go:150-200).
NeverBelowStart == start <= committed

\* No request is given to the handler twice but for a stop, a crash or a
\* rebalance, each of which makes the partition deliver a message once more at
\* most: neither the channel nor the commits that move the offset back do.
OncePerDelivery == \A o \in Offsets : runs[o] <= cancels + crashes + rebalances + 1

\* How many processes have ended so far.
Ends == cancels + crashes - (IF cancelled THEN 1 ELSE 0)

QueuedAt(o) == {i \in 1 .. Len(queue) : queue[i] = o}
TakenBy(o) == {w \in Workers : pc[w] = "taken" /\ held[w] = o}

OneIf(condition) == IF condition THEN 1 ELSE 0

\* The strengthening behind OncePerDelivery: how often message o was handled, is on
\* its way to the handler, or is still to be fetched.
Copies(o) ==
    runs[o] + Cardinality(QueuedAt(o)) + Cardinality(TakenBy(o))
            + OneIf(polled = o) + OneIf(o >= position)

DeliveryInv == \A o \in Offsets : Copies(o) <= Ends + rebalances + 1

\* No request is passed over, whatever stops and dies (adapters.go:199
\* "at-least-once, đảm bảo không mất message": no message is lost).
AtLeastOnce == Lost = {}

\* With one worker, until something stops it on purpose, the pool passes over no
\* request, although it commits behind the handler's back, dies and is rebalanced.
LostOnlyToStops == cancels = 0 => AtLeastOnce

\* With one worker the commits arrive in the order of the partition, whatever is
\* lost of them and however often the process stops and dies in between; only a
\* rebalance puts older messages behind newer ones.
CommitNeverRewinds == [][rebalances = 0 => committed' >= committed]_vars

\* Every request is handled, or was passed over when a process stopped: neither
\* the bounded channel nor a closed one leaves a message waiting for ever.
HandledOrLost == \A o \in Requests : <>(o \in Handled \/ o \in Lost)

\* A stop on request drains the channel before the process ends (adapters.go:114).
GracefulDrain ==
    [][MainReturns => /\ queue = <<>>
                      /\ \A w \in Workers : pc[w] \in {"idle", "stopped"}]_vars

=============================================================================
