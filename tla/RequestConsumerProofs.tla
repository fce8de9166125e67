----------------------- MODULE RequestConsumerProofs -----------------------
(***************************************************************************)
(* Theorems about RequestConsumer, for every pool, partition and payload   *)
(* and every number of stops, crashes and rebalances.                      *)
(***************************************************************************)
EXTENDS RequestConsumer, FiniteSetTheorems, SequenceTheorems, TLAPS

\* A pool has at least one worker.
LEMMA PoolNotEmpty == Capacity \in Nat /\ Capacity >= 1
<1>1. Cardinality(Workers) \in Nat
  BY WorkersAssumption, FS_CardinalityType
<1>2. Cardinality(Workers) # 0
  BY WorkersAssumption, FS_EmptySet
<1> QED
  BY <1>1, <1>2 DEF Capacity

-----------------------------------------------------------------------------
(***************************************************************************)
(* Type correctness.                                                       *)
(***************************************************************************)

\* The state before the first fetch.
LEMMA FreshTypes ==
  /\ <<>> \in Seq(Offsets)
  /\ [w \in Workers |-> None] \in [Workers -> Offsets \cup {None}]
  /\ [w \in Workers |-> "idle"] \in [Workers -> {"idle", "taken", "processed", "stopped"}]
  /\ [o \in Offsets |-> 0] \in [Offsets -> Nat]
  OBVIOUS

\* The initial state has the types.
LEMMA TypeInit == Init => TypeOK
<1> SUFFICES ASSUME Init PROVE TypeOK
  OBVIOUS
<1>1. /\ 0 \in 0 .. Messages /\ 0 \in 0 .. MaxCancels
      /\ 0 \in 0 .. MaxCrashes /\ 0 \in 0 .. MaxRebalances
  BY MessagesAssumption, StopsAssumption
<1>2. \A w \in Workers : pc[w] = "idle"
  BY DEF Init
<1> QED
  BY <1>1, <1>2, FreshTypes DEF Init, TypeOK

\* What taking the first message of the channel does to it.
LEMMA QueueHead ==
  ASSUME TypeOK, queue # <<>>
  PROVE  /\ Head(queue) \in Offsets
         /\ Head(queue) = queue[1]
         /\ Len(queue) \in Nat /\ Len(queue) >= 1
         /\ Tail(queue) \in Seq(Offsets)
         /\ Len(Tail(queue)) = Len(queue) - 1
         /\ \A i \in 1 .. Len(Tail(queue)) : Tail(queue)[i] = queue[i + 1]
<1>1. queue \in Seq(Offsets)
  BY DEF TypeOK
<1> QED
  BY <1>1, HeadTailProperties, LenProperties, EmptySeq

\* The state of a process that has just been started.
LEMMA RebootType ==
  ASSUME TypeOK, Reboot
  PROVE  /\ committed' \in 0 .. Messages
         /\ start' \in 0 .. Messages
         /\ position' \in 0 .. Messages
         /\ polled' \in Offsets \cup {None}
         /\ queue' \in Seq(Offsets)
         /\ closed' \in BOOLEAN
         /\ cancelled' \in BOOLEAN
         /\ pc' \in [Workers -> {"idle", "taken", "processed", "stopped"}]
         /\ held' \in [Workers -> Offsets \cup {None}]
         /\ runs' \in [Offsets -> Nat]
         /\ \A w \in Workers : pc'[w] \notin {"taken", "processed"}
<1>1. \A w \in Workers : pc'[w] = "idle"
  BY DEF Reboot
<1> QED
  BY <1>1, FreshTypes DEF TypeOK, Reboot

\* Every step keeps the types.
LEMMA TypeStep == TypeOK /\ [Next]_vars => TypeOK'
<1> SUFFICES ASSUME TypeOK, [Next]_vars PROVE TypeOK'
  OBVIOUS
<1>0. Messages \in Nat /\ None = -1
  BY MessagesAssumption DEF None
<1>1. CASE FetchMessage
  <2>1. position \in Offsets /\ position + 1 \in 0 .. Messages
    BY <1>0, <1>1 DEF FetchMessage, TypeOK, Offsets
  <2> QED
    BY <1>1, <2>1 DEF FetchMessage, TypeOK, stops
<1>2. CASE FetchCancelled
  BY <1>2 DEF FetchCancelled, TypeOK, stops
<1>3. CASE Enqueue
  <2>1. polled \in Offsets
    BY <1>3 DEF Enqueue, TypeOK
  <2>2. queue' \in Seq(Offsets)
    BY <1>3, <2>1, AppendProperties DEF Enqueue, TypeOK
  <2> QED
    BY <1>3, <2>2 DEF Enqueue, TypeOK, stops
<1>4. CASE EnqueueCancelled
  BY <1>4 DEF EnqueueCancelled, TypeOK, stops
<1>5. ASSUME NEW w \in Workers, Take(w) PROVE TypeOK'
  BY <1>5, QueueHead DEF Take, TypeOK, stops
<1>6. ASSUME NEW w \in Workers, WorkerStops(w) PROVE TypeOK'
  BY <1>6 DEF WorkerStops, TypeOK, stops
<1>7. ASSUME NEW w \in Workers, HandleRequest(w) PROVE TypeOK'
  <2>1. held[w] \in Offsets /\ runs[held[w]] + 1 \in Nat
    BY <1>7 DEF HandleRequest, TypeOK
  <2> QED
    BY <1>7, <2>1 DEF HandleRequest, TypeOK, stops
<1>8. ASSUME NEW w \in Workers, HandleInterrupted(w) PROVE TypeOK'
  BY <1>8 DEF HandleInterrupted, TypeOK, stops
<1>9. ASSUME NEW w \in Workers, Commit(w) PROVE TypeOK'
  <2>1. held[w] + 1 \in 0 .. Messages
    BY <1>0, <1>9 DEF Commit, ReadyToCommit, TypeOK, Offsets
  <2> QED
    BY <1>9, <2>1 DEF Commit, NextMessage, TypeOK, stops
<1>10. ASSUME NEW w \in Workers, CommitLost(w) PROVE TypeOK'
  BY <1>10 DEF CommitLost, NextMessage, TypeOK, stops
<1>11. CASE Cancel
  <2>1. cancels + 1 \in 0 .. MaxCancels
    BY <1>11, StopsAssumption DEF Cancel, TypeOK
  <2> QED
    BY <1>11, <2>1 DEF Cancel, TypeOK
<1>12. CASE MainReturns
  BY <1>12, RebootType DEF MainReturns, TypeOK, stops
<1>13. CASE Crash
  <2>1. crashes + 1 \in 0 .. MaxCrashes
    BY <1>13, StopsAssumption DEF Crash, TypeOK
  <2> QED
    BY <1>13, <2>1, RebootType DEF Crash, TypeOK
<1>14. CASE Rebalance
  <2>1. rebalances + 1 \in 0 .. MaxRebalances
    BY <1>14, StopsAssumption DEF Rebalance, TypeOK
  <2> QED
    BY <1>14, <2>1 DEF Rebalance, TypeOK
<1>15. CASE UNCHANGED vars
  BY <1>15 DEF vars, TypeOK, stops
<1> QED
  BY <1>1, <1>2, <1>3, <1>4, <1>5, <1>6, <1>7, <1>8, <1>9, <1>10,
     <1>11, <1>12, <1>13, <1>14, <1>15 DEF Next, Poll, Work

\* The variables keep their types for every pool and partition.
THEOREM TypeCorrect == Spec => []TypeOK
  BY TypeInit, TypeStep, PTL DEF Spec

-----------------------------------------------------------------------------
(***************************************************************************)
(* No process touches a message before its start.                          *)
(***************************************************************************)

\* No step makes a process touch a message before its start.
LEMMA BelowStartStep ==
  TypeOK /\ NothingBelowStart /\ [Next]_vars => NothingBelowStart'
<1> SUFFICES ASSUME TypeOK, NothingBelowStart, [Next]_vars PROVE NothingBelowStart'
  OBVIOUS
<1>0. /\ Messages \in Nat /\ None = -1
      /\ committed \in Int /\ start \in Int /\ position \in Int
      /\ queue \in Seq(Offsets)
      /\ Len(queue) \in Nat
  BY MessagesAssumption, LenProperties DEF None, TypeOK
<1>1. CASE FetchMessage
  BY <1>0, <1>1 DEF FetchMessage, NothingBelowStart
<1>2. CASE FetchCancelled
  BY <1>2 DEF FetchCancelled, NothingBelowStart
<1>3. CASE Enqueue
  <2>1. /\ polled \in Offsets
        /\ Len(queue') = Len(queue) + 1
        /\ \A i \in 1 .. Len(queue) : queue'[i] = queue[i]
        /\ queue'[Len(queue) + 1] = polled
    BY <1>0, <1>3, AppendProperties DEF Enqueue, TypeOK
  <2>2. \A i \in 1 .. Len(queue') : start <= queue'[i]
    BY <1>0, <1>3, <2>1 DEF Enqueue, NothingBelowStart
  <2> QED
    BY <1>3, <2>2 DEF Enqueue, NothingBelowStart
<1>4. CASE EnqueueCancelled
  BY <1>4 DEF EnqueueCancelled, NothingBelowStart
<1>5. ASSUME NEW w \in Workers, Take(w) PROVE NothingBelowStart'
  <2>1. \A i \in 1 .. Len(queue') : start <= queue'[i]
    BY <1>0, <1>5, QueueHead DEF Take, NothingBelowStart
  <2>2. start <= Head(queue)
    BY <1>0, <1>5, QueueHead DEF Take, NothingBelowStart
  <2> QED
    BY <1>5, <2>1, <2>2 DEF Take, NothingBelowStart, TypeOK
<1>6. ASSUME NEW w \in Workers, WorkerStops(w) PROVE NothingBelowStart'
  BY <1>6 DEF WorkerStops, NothingBelowStart, TypeOK
<1>7. ASSUME NEW w \in Workers, HandleRequest(w) \/ HandleInterrupted(w)
      PROVE NothingBelowStart'
  BY <1>7 DEF HandleRequest, HandleInterrupted, NothingBelowStart, TypeOK, stops
<1>8. ASSUME NEW w \in Workers, Commit(w) PROVE NothingBelowStart'
  <2>1. start <= held[w] /\ held[w] \in Int
    BY <1>0, <1>8 DEF Commit, ReadyToCommit, NothingBelowStart, TypeOK, Offsets
  <2> QED
    BY <1>0, <1>8, <2>1 DEF Commit, NextMessage, NothingBelowStart, TypeOK
<1>9. ASSUME NEW w \in Workers, CommitLost(w) PROVE NothingBelowStart'
  BY <1>9 DEF CommitLost, NextMessage, NothingBelowStart, TypeOK
<1>10. CASE Cancel
  BY <1>10 DEF Cancel, NothingBelowStart
<1>11. CASE Reboot
  BY <1>0, <1>11 DEF Reboot, NothingBelowStart
<1>12. CASE Rebalance
  BY <1>12 DEF Rebalance, NothingBelowStart
<1>13. CASE UNCHANGED vars
  BY <1>13 DEF vars, NothingBelowStart
<1> QED
  BY <1>1, <1>2, <1>3, <1>4, <1>5, <1>6, <1>7, <1>8, <1>9, <1>10, <1>11, <1>12,
     <1>13 DEF Next, Poll, Work, MainReturns, Crash

\* The first process starts at the beginning.
LEMMA BelowStartInit == Init => NothingBelowStart
  BY DEF Init, NothingBelowStart

\* The commits of any number of workers, in any order, never take the group's
\* offset back to before the offset the process was given.
THEOREM CommitsStayAboveStart == Spec => []NeverBelowStart
<1>1. NothingBelowStart => NeverBelowStart
  BY DEF NothingBelowStart, NeverBelowStart
<1> QED
  BY <1>1, BelowStartInit, BelowStartStep, TypeCorrect, PTL DEF Spec

-----------------------------------------------------------------------------
(***************************************************************************)
(* What a crash can lose.                                                  *)
(***************************************************************************)

\* The bounds the arithmetic below needs.
LEMMA IntegerFacts ==
  ASSUME TypeOK
  PROVE  /\ Messages \in Nat /\ None = -1
         /\ committed \in Int /\ start \in Int /\ position \in Int
         /\ queue \in Seq(Offsets) /\ Len(queue) \in Nat
         /\ \A i \in 1 .. Len(queue) : queue[i] \in Int
         /\ Offsets \subseteq Nat
         /\ \A w \in Workers : held[w] \in Int
         /\ Requests \subseteq Offsets
         /\ None \notin Offsets
<1>1. /\ Messages \in Nat /\ None = -1
      /\ committed \in Int /\ start \in Int /\ position \in Int
      /\ queue \in Seq(Offsets) /\ Len(queue) \in Nat
  BY MessagesAssumption, LenProperties DEF None, TypeOK
<1>2. Offsets \subseteq Nat /\ None \notin Offsets
  BY <1>1 DEF Offsets
<1>3. ASSUME NEW w \in Workers PROVE held[w] \in Int
  <2>1. held[w] = None \/ held[w] \in Offsets
    BY DEF TypeOK
  <2>2. held[w] \in Offsets => held[w] \in Nat
    BY <1>2
  <2> QED
    BY <1>1, <2>1, <2>2
<1>4. ASSUME NEW i \in 1 .. Len(queue) PROVE queue[i] \in Int
  <2>1. queue[i] \in Offsets
    BY <1>1, ElementOfSeq
  <2>2. queue[i] \in Nat
    BY <1>2, <2>1
  <2> QED
    BY <2>2
<1> QED
  BY <1>1, <1>2, <1>3, <1>4 DEF Requests

\* What was handled stays handled.
LEMMA HandledGrows ==
  ASSUME TypeOK, [Next]_vars
  PROVE  Handled \subseteq Handled'
<1>1. CASE runs' = runs
  BY <1>1 DEF Handled
<1>2. ASSUME NEW w \in Workers, HandleRequest(w) PROVE Handled \subseteq Handled'
  BY <1>2 DEF HandleRequest, Handled, TypeOK
<1> QED
  BY <1>1, <1>2 DEF vars, stops, Next, Poll, FetchMessage, FetchCancelled, Enqueue,
     EnqueueCancelled, Rebalance, Work, Take, WorkerStops, HandleInterrupted, Commit,
     CommitLost, Cancel, MainReturns, Crash, Reboot

\* A commit is never that of a request a worker has still to handle.
LEMMA CommitterHoldsNoRequest ==
  ASSUME NEW w \in Workers, ReadyToCommit(w), NEW o \in Requests
  PROVE  ~(pc[w] = "taken" /\ held[w] = o)
  BY DEF ReadyToCommit, Requests, Malformed

\* A request that a worker holds is handled, or still held, after the next step
\* of a process that lives on and has not been told to stop.
LEMMA CoveredKept ==
  ASSUME TypeOK, [Next]_vars, ~Reboot, ~cancelled, NEW o \in Requests, Covered(o)
  PROVE  Covered(o)'
<1>1. CASE o \in Handled
  BY <1>1, HandledGrows DEF Covered
<1>2. CASE o \notin Handled
  <2>1. PICK v \in Workers : pc[v] = "taken" /\ held[v] = o
    BY <1>2 DEF Covered
  <2>2. CASE pc' = pc /\ held' = held
    BY <2>1, <2>2 DEF Covered
  <2>3. ASSUME NEW w \in Workers, Take(w) PROVE Covered(o)'
    BY <2>1, <2>3 DEF Take, Covered, TypeOK
  <2>4. ASSUME NEW w \in Workers, WorkerStops(w) PROVE Covered(o)'
    BY <2>1, <2>4 DEF WorkerStops, Covered, TypeOK
  <2>5. ASSUME NEW w \in Workers, HandleRequest(w) PROVE Covered(o)'
    <3>1. CASE v = w
      <4>1. o \in Offsets /\ runs'[o] = runs[o] + 1 /\ runs[o] \in Nat
        BY <2>1, <2>5, <3>1 DEF HandleRequest, TypeOK, Requests
      <4> QED
        BY <4>1 DEF Covered, Handled
    <3>2. CASE v # w
      BY <2>1, <2>5, <3>2 DEF HandleRequest, Covered, TypeOK
    <3> QED
      BY <3>1, <3>2
  <2>6. ASSUME NEW w \in Workers, Commit(w) \/ CommitLost(w) PROVE Covered(o)'
    <3>1. v # w
      BY <2>1, <2>6, CommitterHoldsNoRequest DEF Commit, CommitLost
    <3> QED
      BY <2>1, <2>6, <3>1 DEF Commit, CommitLost, NextMessage, Covered, TypeOK
  <2> QED
    BY <2>2, <2>3, <2>4, <2>5, <2>6 DEF vars, stops, Next, Poll, FetchMessage,
       FetchCancelled, Enqueue, EnqueueCancelled, Rebalance, Work, HandleInterrupted,
       Cancel, MainReturns, Crash
<1> QED
  BY <1>1, <1>2

\* FetchMessage hands the next message of the partition to the poll loop.
LEMMA FetchStep ==
  ASSUME TypeOK, FetchMessage, NEW o \in Requests, NotOvertaken(o),
         Covered(o) => Covered(o)'
  PROVE  NotOvertaken(o)'
<1>1. /\ polled = None /\ polled' = position /\ position' = position + 1
      /\ committed' = committed /\ queue' = queue /\ pc' = pc /\ held' = held
  BY DEF FetchMessage
<1>2. o \in Int /\ o # None /\ position \in Int
  BY IntegerFacts
<1>3. \A i : QueuedBefore(o, i)' <=> QueuedBefore(o, i)
  BY <1>1 DEF QueuedBefore
<1> QED
  BY <1>1, <1>2, <1>3 DEF NotOvertaken

\* A message on the channel follows those already there.
LEMMA EnqueueStep ==
  ASSUME TypeOK, Enqueue, NEW o \in Requests, NotOvertaken(o),
         Covered(o) => Covered(o)'
  PROVE  NotOvertaken(o)'
<1>1. /\ polled \in Offsets
      /\ Len(queue') = Len(queue) + 1
      /\ \A i \in 1 .. Len(queue) : queue'[i] = queue[i]
      /\ queue'[Len(queue) + 1] = polled
      /\ Len(queue) \in Nat
  BY IntegerFacts, AppendProperties DEF Enqueue, TypeOK
<1>2. /\ polled' = None /\ committed' = committed /\ position' = position
      /\ pc' = pc /\ held' = held
  BY DEF Enqueue
<1>3. o \in Nat /\ None = -1 /\ polled' = -1
  BY <1>2, IntegerFacts
<1>4. \A i \in 1 .. Len(queue) + 1 : QueuedBefore(o, i) => QueuedBefore(o, i)'
  BY <1>1 DEF QueuedBefore
<1>5. QueuedBefore(o, Len(queue) + 1) \/ o = polled => QueuedBefore(o, Len(queue) + 1)'
  BY <1>1 DEF QueuedBefore
<1>6. \A i \in 1 .. Len(queue') : o < queue'[i] => Covered(o)' \/ QueuedBefore(o, i)'
  <2> SUFFICES ASSUME NEW i \in 1 .. Len(queue'), o < queue'[i]
               PROVE  Covered(o)' \/ QueuedBefore(o, i)'
    OBVIOUS
  <2>1. CASE i = Len(queue) + 1
    BY <1>1, <1>4, <2>1 DEF NotOvertaken
  <2>2. CASE i \in 1 .. Len(queue)
    BY <1>1, <1>4, <2>2 DEF NotOvertaken
  <2> QED
    BY <1>1, <2>1, <2>2
<1>7. ~(o < polled')
  BY <1>3
<1>8. o < position' => Covered(o)' \/ QueuedBefore(o, Len(queue) + 1)'
  BY <1>2, <1>5 DEF NotOvertaken
<1> QED
  BY <1>2, <1>6, <1>7, <1>8 DEF NotOvertaken

\* A worker takes the oldest message.
LEMMA TakeStep ==
  ASSUME TypeOK, NEW w \in Workers, Take(w), NEW o \in Requests, NotOvertaken(o),
         Covered(o) => Covered(o)'
  PROVE  NotOvertaken(o)'
<1>1. /\ Len(queue') = Len(queue) - 1 /\ Len(queue) \in Nat /\ Len(queue) >= 1
      /\ \A i \in 1 .. Len(queue') : queue'[i] = queue[i + 1]
      /\ held'[w] = queue[1] /\ pc'[w] = "taken"
      /\ \A v \in Workers : v # w => pc'[v] = pc[v] /\ held'[v] = held[v]
  BY QueueHead DEF Take, TypeOK
<1>2. committed' = committed /\ position' = position /\ polled' = polled
  BY DEF Take
<1>3. ASSUME NEW i \in 1 .. Len(queue), QueuedBefore(o, i + 1)
      PROVE  Covered(o)' \/ QueuedBefore(o, i)'
  <2>1. PICK j \in 1 .. i : queue[j] = o
    BY <1>3 DEF QueuedBefore
  <2>2. CASE j = 1
    BY <1>1, <2>1, <2>2 DEF Covered
  <2>3. CASE j # 1
    <3>1. j - 1 \in 1 .. i - 1 /\ j - 1 \in 1 .. Len(queue')
      BY <1>1, <2>3
    <3>2. queue'[j - 1] = o
      BY <1>1, <2>1, <3>1
    <3> QED
      BY <3>1, <3>2 DEF QueuedBefore
  <2> QED
    BY <2>2, <2>3
<1>4. ~QueuedBefore(o, 1)
  BY DEF QueuedBefore
<1>5. o < queue[1] => Covered(o)'
  BY <1>1, <1>4 DEF NotOvertaken
<1>6. \A v \in Workers : pc'[v] \in {"taken", "processed"} /\ o < held'[v] => Covered(o)'
  BY <1>1, <1>5 DEF NotOvertaken
<1>7. \A i \in 1 .. Len(queue') : o < queue'[i] => Covered(o)' \/ QueuedBefore(o, i)'
  <2> SUFFICES ASSUME NEW i \in 1 .. Len(queue'), o < queue'[i]
               PROVE  Covered(o)' \/ QueuedBefore(o, i)'
    OBVIOUS
  <2>1. i \in 1 .. Len(queue) /\ i + 1 \in 1 .. Len(queue) /\ o < queue[i + 1]
    BY <1>1
  <2>2. Covered(o) \/ QueuedBefore(o, i + 1)
    BY <2>1 DEF NotOvertaken
  <2> QED
    BY <1>3, <2>1, <2>2
<1>8. QueuedBefore(o, Len(queue) + 1) => Covered(o)' \/ QueuedBefore(o, Len(queue) + 1)'
  <2>1. Len(queue) \in 1 .. Len(queue) /\ Len(queue') + 1 = Len(queue)
    BY <1>1
  <2> QED
    BY <1>3, <2>1
<1> QED
  BY <1>2, <1>6, <1>7, <1>8 DEF NotOvertaken

\* A commit covers only what is covered.
LEMMA CommitStep ==
  ASSUME TypeOK, NEW w \in Workers, Commit(w) \/ CommitLost(w),
         NEW o \in Requests, NotOvertaken(o), ProcessedIsHandled,
         Covered(o) => Covered(o)'
  PROVE  NotOvertaken(o)'
<1>1. /\ position' = position /\ polled' = polled /\ queue' = queue
      /\ pc'[w] = "idle"
      /\ \A v \in Workers : v # w => pc'[v] = pc[v] /\ held'[v] = held[v]
  BY DEF Commit, CommitLost, NextMessage, TypeOK
<1>2. o \in Int /\ held[w] \in Int /\ committed \in Int
  BY IntegerFacts
<1>3. o < committed' => Covered(o)
  <2>1. CASE committed' = committed
    BY <2>1 DEF NotOvertaken
  <2>2. CASE committed' = held[w] + 1 /\ o < held[w]
    BY <2>2 DEF NotOvertaken, Commit, CommitLost, ReadyToCommit
  <2>3. CASE o = held[w]
    <3>1. pc[w] = "processed"
      BY <2>3, CommitterHoldsNoRequest DEF Commit, CommitLost, ReadyToCommit
    <3> QED
      BY <2>3, <3>1 DEF ProcessedIsHandled, Covered
  <2> QED
    BY <1>2, <2>1, <2>2, <2>3 DEF Commit, CommitLost
<1>4. \A i : QueuedBefore(o, i)' <=> QueuedBefore(o, i)
  BY <1>1 DEF QueuedBefore
<1> QED
  BY <1>1, <1>3, <1>4 DEF NotOvertaken

\* A new process holds nothing, and starts at the group's offset.
LEMMA RebootStep ==
  ASSUME TypeOK, Reboot
  PROVE  NoneOvertaken' /\ ProcessedIsHandled' /\ LossWindow'
<1>1. /\ start' = committed /\ committed' = committed /\ position' = committed
      /\ committed \in Int
      /\ Len(queue') = 0 /\ polled' = None
      /\ \A w \in Workers : pc'[w] = "idle"
  BY IntegerFacts DEF Reboot
<1>2. NoneOvertaken'
  <2> SUFFICES ASSUME NEW o \in Requests, start' <= o PROVE NotOvertaken(o)'
    BY DEF NoneOvertaken
  <2>1. o \in Nat /\ None = -1 /\ ~(o < committed)
    BY <1>1, IntegerFacts
  <2> QED
    BY <1>1, <2>1 DEF NotOvertaken
<1>3. ProcessedIsHandled'
  BY <1>1 DEF ProcessedIsHandled
<1>4. AtRisk' = {}
  BY <1>1, IntegerFacts DEF AtRisk
<1>5. LossWindow'
  BY <1>4, PoolNotEmpty, FS_EmptySet DEF LossWindow, Capacity
<1> QED
  BY <1>2, <1>3, <1>5

\* Nothing of the partition overtakes a request in a step of a process that
\* lives on.
LEMMA OvertakenStep ==
  ASSUME TypeOK, [Next]_vars, ~Reboot, ~cancelled, ~cancelled',
         NoneOvertaken, ProcessedIsHandled
  PROVE  NoneOvertaken' /\ ProcessedIsHandled'
<1>0. start' = start
  BY DEF vars, stops, Next, Poll, FetchMessage, FetchCancelled, Enqueue,
     EnqueueCancelled, Rebalance, Work, Take, WorkerStops, HandleRequest,
     HandleInterrupted, Commit, CommitLost, Cancel, MainReturns, Crash
<1>1. NoneOvertaken'
  <2> SUFFICES ASSUME NEW o \in Requests, start <= o PROVE NotOvertaken(o)'
    BY <1>0 DEF NoneOvertaken
  <2>1. NotOvertaken(o)
    BY DEF NoneOvertaken
  <2>2. Covered(o) => Covered(o)'
    BY CoveredKept
  <2>3. CASE Rebalance
    <3>1. \A i : QueuedBefore(o, i)' <=> QueuedBefore(o, i)
      BY <2>3 DEF Rebalance, QueuedBefore
    <3> QED
      BY <2>1, <2>2, <2>3, <3>1 DEF Rebalance, NotOvertaken
  <2>4. ASSUME NEW w \in Workers, WorkerStops(w) \/ HandleRequest(w)
        PROVE NotOvertaken(o)'
    <3>1. /\ \A i : QueuedBefore(o, i)' <=> QueuedBefore(o, i)
          /\ \A v \in Workers : /\ held'[v] = held[v]
                                /\ pc'[v] \in {"taken", "processed"} =>
                                     pc[v] \in {"taken", "processed"}
      BY <2>4 DEF WorkerStops, HandleRequest, QueuedBefore, TypeOK
    <3> QED
      BY <2>1, <2>2, <2>4, <3>1 DEF WorkerStops, HandleRequest, NotOvertaken
  <2>5. CASE UNCHANGED vars
    <3>1. \A i : QueuedBefore(o, i)' <=> QueuedBefore(o, i)
      BY <2>5 DEF vars, QueuedBefore
    <3> QED
      BY <2>1, <2>2, <2>5, <3>1 DEF vars, NotOvertaken
  <2>6. CASE FetchCancelled \/ EnqueueCancelled \/ Cancel \/ MainReturns
    BY <2>6 DEF FetchCancelled, EnqueueCancelled, Cancel, MainReturns
  <2>7. ASSUME NEW w \in Workers, HandleInterrupted(w) PROVE FALSE
    BY <2>7 DEF HandleInterrupted
  <2> QED
    BY <2>1, <2>2, <2>3, <2>4, <2>5, <2>6, <2>7, FetchStep, EnqueueStep, TakeStep,
       CommitStep DEF Next, Poll, Work, Crash
<1>2. ProcessedIsHandled'
  <2>1. Handled \subseteq Handled'
    BY HandledGrows
  <2>2. CASE pc' = pc /\ held' = held
    BY <2>1, <2>2 DEF ProcessedIsHandled
  <2>3. ASSUME NEW w \in Workers, HandleRequest(w) PROVE ProcessedIsHandled'
    <3>1. held[w] \in Offsets /\ runs'[held[w]] = runs[held[w]] + 1 /\ runs[held[w]] \in Nat
      BY <2>3 DEF HandleRequest, TypeOK
    <3>2. held[w] \in Handled'
      BY <3>1 DEF Handled
    <3> QED
      BY <2>1, <2>3, <3>2 DEF HandleRequest, ProcessedIsHandled, TypeOK
  <2>4. ASSUME NEW w \in Workers, Take(w) \/ WorkerStops(w) PROVE ProcessedIsHandled'
    BY <2>1, <2>4 DEF Take, WorkerStops, ProcessedIsHandled, TypeOK
  <2>5. ASSUME NEW w \in Workers, Commit(w) \/ CommitLost(w) PROVE ProcessedIsHandled'
    BY <2>1, <2>5 DEF Commit, CommitLost, NextMessage, ProcessedIsHandled, TypeOK
  <2> QED
    BY <2>2, <2>3, <2>4, <2>5 DEF vars, stops, Next, Poll, FetchMessage, FetchCancelled,
       Enqueue, EnqueueCancelled, Rebalance, Work, HandleInterrupted, Cancel, MainReturns, Crash
<1> QED
  BY <1>1, <1>2

\* The requests at risk are a finite set.
LEMMA RiskFinite ==
  TypeOK => IsFiniteSet(AtRisk) /\ Cardinality(AtRisk) \in Nat
<1> SUFFICES ASSUME TypeOK PROVE IsFiniteSet(AtRisk)
  BY FS_CardinalityType
<1>1. AtRisk \subseteq Offsets /\ IsFiniteSet(Offsets)
  BY MessagesAssumption, FS_Interval DEF AtRisk, Requests, Offsets
<1> QED
  BY <1>1, FS_Subset

\* Right after a commit every request at risk is in the hands of a worker other
\* than the one that committed.
LEMMA CommitRisk ==
  ASSUME TypeOK', NoneOvertaken', NEW w \in Workers, pc'[w] = "idle"
  PROVE  Cardinality(AtRisk') <= Cardinality(Workers) - 1
<1> DEFINE B == Workers \ {w}
           T == {held'[v] : v \in B}
           f == [v \in B |-> held'[v]]
<1>1. AtRisk' \subseteq T
  <2> SUFFICES ASSUME NEW o \in AtRisk' PROVE o \in T
    OBVIOUS
  <2>1. o \in Requests /\ o \notin Handled' /\ start' <= o /\ o < committed'
    BY DEF AtRisk
  <2>2. PICK v \in Workers : pc'[v] = "taken" /\ held'[v] = o
    BY <2>1 DEF NoneOvertaken, NotOvertaken, Covered
  <2> QED
    BY <2>2
<1>2. /\ IsFiniteSet(B)
      /\ Cardinality(B) = Cardinality(Workers) - 1
  BY WorkersAssumption, FS_RemoveElement
<1>3. f \in Surjection(B, T)
  BY DEF Surjection
<1>4. IsFiniteSet(T) /\ Cardinality(T) <= Cardinality(B)
  BY <1>2, <1>3, FS_Surjection
<1>5. Cardinality(AtRisk') <= Cardinality(T)
  BY <1>1, <1>4, FS_Subset
<1>6. Cardinality(AtRisk') \in Nat /\ Cardinality(T) \in Nat /\ Cardinality(B) \in Nat
  BY <1>1, <1>2, <1>4, FS_Subset, FS_CardinalityType
<1> QED
  BY <1>2, <1>4, <1>5, <1>6

\* Only a commit puts requests at risk.
LEMMA RiskStep ==
  ASSUME TypeOK, TypeOK', [Next]_vars, ~Reboot, ~cancelled, NoneOvertaken', LossWindow
  PROVE  LossWindow'
<1>1. ASSUME NEW w \in Workers, Commit(w) PROVE LossWindow'
  <2>1. pc'[w] = "idle"
    BY <1>1 DEF Commit, NextMessage, TypeOK
  <2> QED
    BY <2>1, CommitRisk DEF LossWindow
<1>2. CASE committed' = committed /\ start' = start
  <2>1. AtRisk' \subseteq AtRisk
    BY <1>2, HandledGrows DEF AtRisk
  <2>2. /\ Cardinality(AtRisk') <= Cardinality(AtRisk)
        /\ Cardinality(AtRisk') \in Nat /\ Cardinality(AtRisk) \in Nat
    BY <2>1, RiskFinite, FS_Subset, FS_CardinalityType
  <2>3. Cardinality(Workers) \in Nat
    BY PoolNotEmpty DEF Capacity
  <2> QED
    BY <2>2, <2>3 DEF LossWindow
<1> QED
  BY <1>1, <1>2 DEF vars, stops, Next, Poll, FetchMessage, FetchCancelled, Enqueue,
     EnqueueCancelled, Rebalance, Work, Take, WorkerStops, HandleRequest,
     HandleInterrupted, CommitLost, Cancel, MainReturns, Crash

\* The strengthening holds of a pool that has fetched nothing.
LEMMA PoolInit == Init => PoolInv
<1> SUFFICES ASSUME Init PROVE PoolInv
  OBVIOUS
<1>1. TypeOK /\ NothingBelowStart
  BY TypeInit, BelowStartInit
<1>2. /\ start = 0 /\ committed = 0 /\ position = 0 /\ polled = None
      /\ Len(queue) = 0 /\ \A w \in Workers : pc[w] = "idle"
  BY EmptySeq DEF Init
<1>3. NoneOvertaken
  <2> SUFFICES ASSUME NEW o \in Requests PROVE NotOvertaken(o)
    BY DEF NoneOvertaken
  <2>1. o \in Nat /\ None = -1
    BY <1>1, IntegerFacts
  <2> QED
    BY <1>2, <2>1 DEF NotOvertaken
<1>4. ProcessedIsHandled
  BY <1>2 DEF ProcessedIsHandled
<1>5. AtRisk = {}
  BY <1>1, <1>2, IntegerFacts DEF AtRisk
<1>6. LossWindow
  BY <1>5, PoolNotEmpty, FS_EmptySet DEF LossWindow, Capacity
<1> QED
  BY <1>1, <1>3, <1>4, <1>6 DEF PoolInv

\* Every step of the pool keeps the strengthening.
LEMMA PoolStep == PoolInv /\ [Next]_vars => PoolInv'
<1> SUFFICES ASSUME PoolInv, [Next]_vars PROVE PoolInv'
  OBVIOUS
<1>1. TypeOK /\ TypeOK' /\ NothingBelowStart'
  BY TypeStep, BelowStartStep DEF PoolInv
<1>2. ASSUME ~cancelled' PROVE NoneOvertaken' /\ ProcessedIsHandled' /\ LossWindow'
  <2>1. CASE Reboot
    BY <1>1, <2>1, RebootStep
  <2>2. CASE ~Reboot
    <3>1. ~cancelled
      BY <1>2, <2>2 DEF vars, stops, Next, Poll, FetchMessage, FetchCancelled, Enqueue,
         EnqueueCancelled, Rebalance, Work, Take, WorkerStops, HandleRequest,
         HandleInterrupted, Commit, CommitLost, Cancel, MainReturns, Crash
    <3>2. NoneOvertaken /\ ProcessedIsHandled /\ LossWindow
      BY <3>1 DEF PoolInv
    <3>3. NoneOvertaken' /\ ProcessedIsHandled'
      BY <1>1, <1>2, <2>2, <3>1, <3>2, OvertakenStep
    <3> QED
      BY <1>1, <2>2, <3>1, <3>2, <3>3, RiskStep
  <2> QED
    BY <2>1, <2>2
<1> QED
  BY <1>1, <1>2 DEF PoolInv

\* The strengthening always holds.
LEMMA PoolInvariant == Spec => []PoolInv
  BY PoolInit, PoolStep, PTL DEF Spec

\* A process that dies before it was told to stop loses fewer requests than its
\* pool has workers, for every size of the pool and every partition, and also
\* when rebalances send messages to the workers twice.
THEOREM CrashLossBounded == Spec => []LossWindow
<1>1. PoolInv => LossWindow
  BY DEF PoolInv, LossWindow
<1> QED
  BY <1>1, PoolInvariant, PTL

-----------------------------------------------------------------------------
(***************************************************************************)
(* What all crashes together can lose.                                     *)
(***************************************************************************)

\* The requests that were passed over are a finite set.
LEMMA LostFinite ==
  TypeOK => IsFiniteSet(Lost) /\ Cardinality(Lost) \in Nat
<1> SUFFICES ASSUME TypeOK PROVE IsFiniteSet(Lost)
  BY FS_CardinalityType
<1>1. Lost \subseteq Offsets /\ IsFiniteSet(Offsets)
  BY MessagesAssumption, FS_Interval DEF Lost, Requests, Offsets
<1> QED
  BY <1>1, FS_Subset

\* Whoever finds ctx done was told to stop, and was counted.
StopIsCounted == cancelled => cancels > 0

\* Every step keeps that count.
LEMMA StopCountedStep ==
  ASSUME TypeOK, StopIsCounted, [Next]_vars
  PROVE  StopIsCounted' /\ (cancels' = 0 => cancels = 0)
<1>1. cancels \in Nat
  BY StopsAssumption DEF TypeOK
<1>2. CASE Cancel
  BY <1>1, <1>2 DEF Cancel, StopIsCounted
<1>3. CASE Reboot /\ UNCHANGED cancels
  BY <1>3 DEF Reboot, StopIsCounted
<1>4. CASE UNCHANGED <<cancelled, cancels>>
  BY <1>4 DEF StopIsCounted
<1> QED
  BY <1>2, <1>3, <1>4 DEF vars, stops, Next, Poll, FetchMessage, FetchCancelled, Enqueue,
     EnqueueCancelled, Rebalance, Work, Take, WorkerStops, HandleRequest,
     HandleInterrupted, Commit, CommitLost, MainReturns, Crash

\* What a process that ends passes over was at risk.
LEMMA RebootLoses ==
  ASSUME TypeOK, [Next]_vars, Reboot
  PROVE  Lost' \subseteq Lost \cup AtRisk
<1> SUFFICES ASSUME NEW o \in Lost' PROVE o \in Lost \cup AtRisk
  OBVIOUS
<1>1. o \in Requests /\ o \notin Handled /\ o < committed
  BY HandledGrows DEF Reboot, Lost
<1>2. o \in Int /\ start \in Int
  BY <1>1, IntegerFacts
<1> QED
  BY <1>1, <1>2 DEF Lost, AtRisk

\* Every step keeps what is lost within what the crashes so far account for.
LEMMA BudgetStep ==
  ASSUME PoolInv, StopIsCounted, LossBudget, [Next]_vars
  PROVE  LossBudget'
<1> DEFINE k == Cardinality(Workers) - 1
<1> SUFFICES ASSUME cancels' = 0 PROVE Cardinality(Lost') <= crashes' * k
  BY DEF LossBudget
<1>1. TypeOK /\ TypeOK'
  BY TypeStep DEF PoolInv
<1>2. ~cancelled /\ Cardinality(Lost) <= crashes * k /\ LossWindow
  BY <1>1, StopCountedStep DEF StopIsCounted, LossBudget, PoolInv
<1>3. /\ IsFiniteSet(Lost) /\ Cardinality(Lost) \in Nat
      /\ IsFiniteSet(AtRisk) /\ Cardinality(AtRisk) \in Nat
      /\ k \in Int /\ crashes \in Int
  BY <1>1, LostFinite, RiskFinite, PoolNotEmpty, StopsAssumption DEF Capacity, TypeOK
<1>4. CASE Crash
  <2>1. Lost' \subseteq Lost \cup AtRisk /\ crashes' = crashes + 1
    BY <1>1, <1>4, RebootLoses DEF Crash
  <2>2. /\ IsFiniteSet(Lost \cup AtRisk)
        /\ Cardinality(Lost \cup AtRisk) =
             Cardinality(Lost) + Cardinality(AtRisk) - Cardinality(Lost \cap AtRisk)
    BY <1>3, FS_Union
  <2>3. Cardinality(Lost \cap AtRisk) \in Nat
    BY <1>3, FS_Intersection, FS_CardinalityType
  <2>4. Cardinality(Lost') <= Cardinality(Lost \cup AtRisk) /\ Cardinality(Lost') \in Nat
    BY <2>1, <2>2, FS_Subset, FS_CardinalityType
  <2>5. Cardinality(AtRisk) <= k
    BY <1>2 DEF LossWindow
  <2>6. Cardinality(Lost') <= crashes * k + k
    BY <1>2, <1>3, <2>2, <2>3, <2>4, <2>5
  <2>7. (crashes + 1) * k = crashes * k + k
    BY <1>3
  <2> QED
    BY <2>1, <2>6, <2>7
<1>5. CASE ~Crash
  <2>1. start' = start /\ crashes' = crashes
    BY <1>2, <1>5 DEF vars, stops, Next, Poll, FetchMessage, FetchCancelled, Enqueue,
       EnqueueCancelled, Rebalance, Work, Take, WorkerStops, HandleRequest,
       HandleInterrupted, Commit, CommitLost, Cancel, MainReturns
  <2>2. Lost' \subseteq Lost
    BY <1>1, <2>1, HandledGrows DEF Lost
  <2>3. Cardinality(Lost') <= Cardinality(Lost) /\ Cardinality(Lost') \in Nat
    BY <1>3, <2>2, FS_Subset, FS_CardinalityType
  <2>4. crashes * k \in Int
    BY <1>3
  <2> QED
    BY <1>2, <1>3, <2>1, <2>3, <2>4
<1> QED
  BY <1>4, <1>5

\* Before anything was fetched nothing is lost.
LEMMA BudgetInit == Init => StopIsCounted /\ LossBudget
<1> SUFFICES ASSUME Init PROVE StopIsCounted /\ LossBudget
  OBVIOUS
<1>1. start = 0 /\ ~cancelled /\ crashes = 0
  BY DEF Init
<1>2. \A o \in Requests : ~(o < 0)
  BY DEF Requests, Offsets
<1>3. Lost = {}
  BY <1>1, <1>2 DEF Lost
<1>4. Cardinality(Lost) = 0 /\ 0 * (Cardinality(Workers) - 1) = 0
  BY <1>3, PoolNotEmpty, FS_EmptySet DEF Capacity
<1> QED
  BY <1>1, <1>4 DEF StopIsCounted, LossBudget

\* For every pool and partition, until something stops the process on purpose: what
\* all crashes together have passed over is at most one request less than the pool
\* has workers for each of them, whatever rebalances put out of order in between.
THEOREM CrashLossesBounded == Spec => []LossBudget
<1>1. Init => PoolInv /\ StopIsCounted /\ LossBudget
  BY PoolInit, BudgetInit
<1>2. (PoolInv /\ StopIsCounted /\ LossBudget) /\ [Next]_vars
         => (PoolInv /\ StopIsCounted /\ LossBudget)'
  BY PoolStep, StopCountedStep, BudgetStep DEF PoolInv
<1> QED
  BY <1>1, <1>2, PTL DEF Spec

\* A pool of one worker loses nothing until it is told to stop, however often the
\* process dies or the group is rebalanced.
THEOREM SingleWorkerAtLeastOnce ==
  ASSUME Cardinality(Workers) = 1
  PROVE  Spec => []LostOnlyToStops
<1>1. TypeOK /\ LossBudget => LostOnlyToStops
  <2> SUFFICES ASSUME TypeOK, LossBudget, cancels = 0 PROVE Lost = {}
    BY DEF LostOnlyToStops, AtLeastOnce
  <2>1. crashes * (Cardinality(Workers) - 1) = 0
    BY StopsAssumption DEF TypeOK
  <2>2. IsFiniteSet(Lost) /\ Cardinality(Lost) \in Nat
    BY LostFinite
  <2>3. Cardinality(Lost) = 0
    BY <2>1, <2>2 DEF LossBudget
  <2> QED
    BY <2>2, <2>3, FS_EmptySet
<1> QED
  BY <1>1, TypeCorrect, CrashLossesBounded, PTL

-----------------------------------------------------------------------------
(***************************************************************************)
(* How often a message is delivered: a step of the process moves a copy of *)
(* a message on or drops it, and only what ends the process or rebalances  *)
(* the group makes the partition give out another one.                     *)
(***************************************************************************)

\* The parts that Copies adds up.
LEMMA CopiesType ==
  ASSUME TypeOK, NEW o \in Offsets
  PROVE  /\ IsFiniteSet(QueuedAt(o)) /\ Cardinality(QueuedAt(o)) \in Nat
         /\ IsFiniteSet(TakenBy(o)) /\ Cardinality(TakenBy(o)) \in Nat
         /\ runs[o] \in Nat
         /\ OneIf(polled = o) \in {0, 1} /\ OneIf(o >= position) \in {0, 1}
         /\ Ends \in Int /\ rebalances \in Nat
<1>1. Len(queue) \in Nat
  BY IntegerFacts
<1>2. IsFiniteSet(1 .. Len(queue)) /\ QueuedAt(o) \subseteq 1 .. Len(queue)
  BY <1>1, FS_Interval DEF QueuedAt
<1>3. IsFiniteSet(Workers) /\ TakenBy(o) \subseteq Workers
  BY WorkersAssumption DEF TakenBy
<1>4. IsFiniteSet(QueuedAt(o)) /\ IsFiniteSet(TakenBy(o))
  BY <1>2, <1>3, FS_Subset
<1>5. cancels \in Nat /\ crashes \in Nat /\ rebalances \in Nat
  BY StopsAssumption DEF TypeOK
<1> QED
  BY <1>4, <1>5, FS_CardinalityType DEF TypeOK, OneIf, Ends

\* What the two sets have to do with the steps that change them.
LEMMA QueueAppended ==
  ASSUME TypeOK, TypeOK', NEW o \in Offsets, polled \in Offsets, queue' = Append(queue, polled)
  PROVE  Cardinality(QueuedAt(o)') <= Cardinality(QueuedAt(o)) + OneIf(polled = o)
<1>1. /\ queue \in Seq(Offsets) /\ Len(queue) \in Nat /\ Len(queue') = Len(queue) + 1
      /\ \A i \in 1 .. Len(queue) : queue'[i] = queue[i]
      /\ queue'[Len(queue) + 1] = polled
  BY IntegerFacts, AppendProperties
<1>2. \A i \in 1 .. Len(queue') : i \in 1 .. Len(queue) \/ i = Len(queue) + 1
  BY <1>1
<1>3. CASE polled = o
  <2>1. QueuedAt(o)' \subseteq QueuedAt(o) \cup {Len(queue) + 1}
    BY <1>1, <1>2 DEF QueuedAt
  <2>2. /\ IsFiniteSet(QueuedAt(o) \cup {Len(queue) + 1})
        /\ Cardinality(QueuedAt(o) \cup {Len(queue) + 1}) <= Cardinality(QueuedAt(o)) + 1
    <3>1. IsFiniteSet(QueuedAt(o)) /\ Cardinality(QueuedAt(o)) \in Nat
      BY CopiesType
    <3>2. \/ Cardinality(QueuedAt(o) \cup {Len(queue) + 1}) = Cardinality(QueuedAt(o))
          \/ Cardinality(QueuedAt(o) \cup {Len(queue) + 1}) = Cardinality(QueuedAt(o)) + 1
      BY <3>1, FS_AddElement
    <3> QED
      BY <3>1, <3>2, FS_AddElement
  <2>3. /\ Cardinality(QueuedAt(o)') <= Cardinality(QueuedAt(o) \cup {Len(queue) + 1})
        /\ Cardinality(QueuedAt(o)') \in Nat
        /\ Cardinality(QueuedAt(o) \cup {Len(queue) + 1}) \in Nat
    BY <2>1, <2>2, FS_Subset, FS_CardinalityType
  <2> QED
    BY <1>3, <2>2, <2>3, CopiesType DEF OneIf
<1>4. CASE polled # o
  <2>1. QueuedAt(o)' \subseteq QueuedAt(o)
    BY <1>1, <1>2, <1>4 DEF QueuedAt
  <2>2. Cardinality(QueuedAt(o)') <= Cardinality(QueuedAt(o))
    BY <2>1, CopiesType, FS_Subset
  <2> QED
    BY <1>4, <2>2, CopiesType DEF OneIf
<1> QED
  BY <1>3, <1>4

\* The first message leaves the channel.
LEMMA QueueTaken ==
  ASSUME TypeOK, NEW o \in Offsets, queue # <<>>, queue' = Tail(queue)
  PROVE  Cardinality(QueuedAt(o)') <= Cardinality(QueuedAt(o)) - OneIf(Head(queue) = o)
<1> DEFINE rest == QueuedAt(o) \ {1}
           f == [i \in QueuedAt(o)' |-> i + 1]
<1>1. /\ Head(queue) = queue[1] /\ Len(queue) \in Nat /\ Len(queue) >= 1
      /\ Len(queue') = Len(queue) - 1
      /\ \A i \in 1 .. Len(queue') : queue'[i] = queue[i + 1]
  BY QueueHead
<1>2. \A i \in QueuedAt(o)' : i + 1 \in rest /\ i \in Nat
  BY <1>1 DEF QueuedAt
<1>3. f \in Injection(QueuedAt(o)', rest)
  BY <1>2 DEF Injection, IsInjective
<1>4. /\ IsFiniteSet(rest)
      /\ Cardinality(rest) = Cardinality(QueuedAt(o)) - OneIf(1 \in QueuedAt(o))
  BY CopiesType, FS_RemoveElement DEF OneIf
<1>5. Cardinality(QueuedAt(o)') <= Cardinality(rest)
  BY <1>3, <1>4, FS_Injection
<1>6. 1 \in QueuedAt(o) <=> Head(queue) = o
  BY <1>1 DEF QueuedAt
<1> QED
  BY <1>4, <1>5, <1>6 DEF OneIf

\* A worker takes message p, or is done with it.
LEMMA TakenGrows ==
  ASSUME TypeOK, NEW o \in Offsets, NEW w \in Workers, NEW p,
         pc[w] # "taken", pc' = [pc EXCEPT ![w] = "taken"], held' = [held EXCEPT ![w] = p]
  PROVE  Cardinality(TakenBy(o)') <= Cardinality(TakenBy(o)) + OneIf(p = o)
<1>1. CASE p = o
  <2>1. TakenBy(o)' = TakenBy(o) \cup {w}
    BY <1>1 DEF TakenBy, TypeOK
  <2>2. IsFiniteSet(TakenBy(o)) /\ Cardinality(TakenBy(o)) \in Nat
    BY CopiesType
  <2>3. \/ Cardinality(TakenBy(o) \cup {w}) = Cardinality(TakenBy(o))
        \/ Cardinality(TakenBy(o) \cup {w}) = Cardinality(TakenBy(o)) + 1
    BY <2>2, FS_AddElement
  <2> QED
    BY <1>1, <2>1, <2>2, <2>3 DEF OneIf
<1>2. CASE p # o
  <2>1. TakenBy(o)' = TakenBy(o)
    BY <1>2 DEF TakenBy, TypeOK
  <2> QED
    BY <1>2, <2>1, CopiesType DEF OneIf
<1> QED
  BY <1>1, <1>2

\* A worker is no longer at message o before its handler.
LEMMA TakenShrinks ==
  ASSUME TypeOK, NEW o \in Offsets, NEW w \in Workers,
         pc'[w] # "taken", \A v \in Workers \ {w} : pc'[v] = pc[v] /\ held'[v] = held[v]
  PROVE  Cardinality(TakenBy(o)') <=
           Cardinality(TakenBy(o)) - OneIf(pc[w] = "taken" /\ held[w] = o)
<1>1. TakenBy(o)' \subseteq TakenBy(o) \ {w}
  BY DEF TakenBy
<1>2. w \in TakenBy(o) <=> pc[w] = "taken" /\ held[w] = o
  BY DEF TakenBy
<1>3. /\ IsFiniteSet(TakenBy(o) \ {w})
      /\ Cardinality(TakenBy(o) \ {w}) =
           Cardinality(TakenBy(o)) - OneIf(pc[w] = "taken" /\ held[w] = o)
  BY <1>2, CopiesType, FS_RemoveElement DEF OneIf
<1> QED
  BY <1>1, <1>3, FS_Subset

\* What nothing but a fetch, an end and a rebalance does: more copies.
LEMMA CopiesStep ==
  ASSUME TypeOK, TypeOK', DeliveryInv, [Next]_vars
  PROVE  DeliveryInv'
<1> SUFFICES ASSUME NEW o \in Offsets PROVE Copies(o)' <= Ends' + rebalances' + 1
  BY DEF DeliveryInv
<1>1. Copies(o) <= Ends + rebalances + 1
  BY DEF DeliveryInv
<1>2. /\ Cardinality(QueuedAt(o)) \in Nat /\ Cardinality(TakenBy(o)) \in Nat /\ runs[o] \in Nat
      /\ OneIf(polled = o) \in {0, 1} /\ OneIf(o >= position) \in {0, 1}
      /\ Ends \in Int /\ rebalances \in Nat
  BY CopiesType
<1>3. /\ Cardinality(QueuedAt(o)') \in Nat /\ Cardinality(TakenBy(o)') \in Nat
      /\ runs'[o] \in Nat
      /\ OneIf(polled' = o) \in {0, 1} /\ OneIf(o >= position') \in {0, 1}
  <2>1. Len(queue') \in Nat
    BY LenProperties DEF TypeOK
  <2>2. IsFiniteSet(1 .. Len(queue')) /\ QueuedAt(o)' \subseteq 1 .. Len(queue')
    BY <2>1, FS_Interval DEF QueuedAt
  <2>3. IsFiniteSet(Workers) /\ TakenBy(o)' \subseteq Workers
    BY WorkersAssumption DEF TakenBy
  <2>4. IsFiniteSet(QueuedAt(o)') /\ IsFiniteSet(TakenBy(o)')
    BY <2>2, <2>3, FS_Subset
  <2> QED
    BY <2>4, FS_CardinalityType DEF TypeOK, OneIf
<1>4. /\ o \in Nat /\ position \in Int /\ Messages \in Nat /\ None = -1 /\ None # o
      /\ cancels \in Nat /\ crashes \in Nat
  BY IntegerFacts, StopsAssumption DEF TypeOK
<1> USE DEF Copies
<1>5. CASE FetchMessage
  <2>1. UNCHANGED <<queue, pc, held, runs, cancelled, stops>> /\ Ends' = Ends
    BY <1>5 DEF FetchMessage, Ends, stops
  <2>2. QueuedAt(o)' = QueuedAt(o) /\ TakenBy(o)' = TakenBy(o)
    BY <2>1 DEF QueuedAt, TakenBy
  <2>3. OneIf(polled' = o) + OneIf(o >= position') <= OneIf(polled = o) + OneIf(o >= position)
    BY <1>4, <1>5 DEF FetchMessage, OneIf
  <2> QED
    BY <1>1, <1>2, <1>3, <2>1, <2>2, <2>3 DEF stops
<1>6. CASE FetchCancelled \/ EnqueueCancelled
  <2>1. UNCHANGED <<queue, pc, held, runs, position, cancelled, stops>> /\ Ends' = Ends
    BY <1>6 DEF FetchCancelled, EnqueueCancelled, Ends, stops
  <2>2. QueuedAt(o)' = QueuedAt(o) /\ TakenBy(o)' = TakenBy(o)
    BY <2>1 DEF QueuedAt, TakenBy
  <2>3. OneIf(polled' = o) <= OneIf(polled = o)
    BY <1>4, <1>6 DEF FetchCancelled, EnqueueCancelled, OneIf
  <2> QED
    BY <1>1, <1>2, <1>3, <2>1, <2>2, <2>3 DEF stops
<1>7. CASE Enqueue
  <2>1. UNCHANGED <<pc, held, runs, position, cancelled, stops>> /\ Ends' = Ends
    BY <1>7 DEF Enqueue, Ends, stops
  <2>2. TakenBy(o)' = TakenBy(o)
    BY <2>1 DEF TakenBy
  <2>3. Cardinality(QueuedAt(o)') <= Cardinality(QueuedAt(o)) + OneIf(polled = o)
    BY <1>7, QueueAppended DEF Enqueue, TypeOK
  <2>4. OneIf(polled' = o) = 0
    BY <1>4, <1>7 DEF Enqueue, OneIf
  <2> QED
    BY <1>1, <1>2, <1>3, <2>1, <2>2, <2>3, <2>4 DEF stops
<1>8. CASE Rebalance
  <2>1. UNCHANGED <<queue, pc, held, polled, runs, cancelled, cancels, crashes>> /\ Ends' = Ends
    BY <1>8 DEF Rebalance, Ends
  <2>2. QueuedAt(o)' = QueuedAt(o) /\ TakenBy(o)' = TakenBy(o)
    BY <2>1 DEF QueuedAt, TakenBy
  <2>3. rebalances' = rebalances + 1
    BY <1>8 DEF Rebalance
  <2> QED
    BY <1>1, <1>2, <1>3, <2>1, <2>2, <2>3
<1>9. ASSUME NEW w \in Workers, Take(w) PROVE Copies(o)' <= Ends' + rebalances' + 1
  <2>1. UNCHANGED <<runs, polled, position, cancelled, stops>> /\ Ends' = Ends
    BY <1>9 DEF Take, Ends, stops
  <2>2. Cardinality(QueuedAt(o)') <= Cardinality(QueuedAt(o)) - OneIf(Head(queue) = o)
    BY <1>9, QueueTaken DEF Take
  <2>3. Cardinality(TakenBy(o)') <= Cardinality(TakenBy(o)) + OneIf(Head(queue) = o)
    BY <1>9, TakenGrows DEF Take
  <2>4. OneIf(Head(queue) = o) \in {0, 1}
    BY DEF OneIf
  <2> QED
    BY <1>1, <1>2, <1>3, <2>1, <2>2, <2>3, <2>4 DEF stops
<1>10. ASSUME NEW w \in Workers, HandleRequest(w) PROVE Copies(o)' <= Ends' + rebalances' + 1
  <2>1. UNCHANGED <<queue, held, polled, position, cancelled, stops>> /\ Ends' = Ends
    BY <1>10 DEF HandleRequest, Ends, stops
  <2>2. QueuedAt(o)' = QueuedAt(o)
    BY <2>1 DEF QueuedAt
  <2>3. Cardinality(TakenBy(o)') <=
          Cardinality(TakenBy(o)) - OneIf(pc[w] = "taken" /\ held[w] = o)
    BY <1>10, TakenShrinks DEF HandleRequest, TypeOK
  <2>4. runs'[o] <= runs[o] + OneIf(pc[w] = "taken" /\ held[w] = o)
    <3>1. runs' = [runs EXCEPT ![held[w]] = @ + 1] /\ pc[w] = "taken"
      BY <1>10 DEF HandleRequest
    <3>2. CASE held[w] = o
      <4>1. runs'[o] = runs[o] + 1
        BY <3>1, <3>2 DEF TypeOK
      <4>2. OneIf(pc[w] = "taken" /\ held[w] = o) = 1
        BY <3>1, <3>2 DEF OneIf
      <4> QED
        BY <1>2, <4>1, <4>2
    <3>3. CASE held[w] # o
      <4>1. runs'[o] = runs[o]
        BY <3>1, <3>3 DEF TypeOK
      <4>2. OneIf(pc[w] = "taken" /\ held[w] = o) = 0
        BY <3>3 DEF OneIf
      <4> QED
        BY <1>2, <4>1, <4>2
    <3> QED
      BY <3>2, <3>3
  <2>5. OneIf(pc[w] = "taken" /\ held[w] = o) \in {0, 1}
    BY DEF OneIf
  <2> QED
    BY <1>1, <1>2, <1>3, <2>1, <2>2, <2>3, <2>4, <2>5 DEF stops
<1>11. ASSUME NEW w \in Workers,
              HandleInterrupted(w) \/ Commit(w) \/ CommitLost(w) \/ WorkerStops(w)
       PROVE  Copies(o)' <= Ends' + rebalances' + 1
  <2>1. UNCHANGED <<queue, runs, polled, position, cancelled, stops>> /\ Ends' = Ends
    BY <1>11 DEF HandleInterrupted, Commit, CommitLost, WorkerStops, NextMessage, Ends, stops
  <2>2. QueuedAt(o)' = QueuedAt(o)
    BY <2>1 DEF QueuedAt
  <2>3. pc'[w] # "taken" /\ \A v \in Workers \ {w} : pc'[v] = pc[v] /\ held'[v] = held[v]
    BY <1>11 DEF HandleInterrupted, Commit, CommitLost, WorkerStops, NextMessage, TypeOK
  <2>4. Cardinality(TakenBy(o)') <= Cardinality(TakenBy(o))
    BY <1>2, <1>3, <2>3, TakenShrinks DEF OneIf
  <2> QED
    BY <1>1, <1>2, <1>3, <2>1, <2>2, <2>4 DEF stops
<1>12. CASE Cancel
  <2>1. UNCHANGED <<queue, pc, held, runs, polled, position, rebalances>> /\ Ends' = Ends
    BY <1>4, <1>12 DEF Cancel, Ends
  <2>2. QueuedAt(o)' = QueuedAt(o) /\ TakenBy(o)' = TakenBy(o)
    BY <2>1 DEF QueuedAt, TakenBy
  <2> QED
    BY <1>1, <1>2, <1>3, <2>1, <2>2
<1>13. CASE MainReturns \/ Crash
  <2>1. UNCHANGED <<runs, rebalances>> /\ Ends' = Ends + 1
    BY <1>4, <1>13 DEF MainReturns, Crash, Reboot, Ends, stops
  <2>2. Reboot
    BY <1>13 DEF MainReturns, Crash
  <2>3. QueuedAt(o)' = {} /\ TakenBy(o)' = {}
    BY <2>2, EmptySeq DEF Reboot, QueuedAt, TakenBy
  <2>4. Cardinality(QueuedAt(o)') = 0 /\ Cardinality(TakenBy(o)') = 0
    BY <2>3, FS_EmptySet
  <2>5. OneIf(polled' = o) = 0
    BY <1>4, <2>2 DEF Reboot, OneIf
  <2> QED
    BY <1>1, <1>2, <1>3, <2>1, <2>4, <2>5
<1>14. CASE UNCHANGED vars
  <2>1. UNCHANGED <<queue, pc, held, runs, polled, position, cancelled, stops>> /\ Ends' = Ends
    BY <1>14 DEF vars, stops, Ends
  <2>2. QueuedAt(o)' = QueuedAt(o) /\ TakenBy(o)' = TakenBy(o)
    BY <2>1 DEF QueuedAt, TakenBy
  <2> QED
    BY <1>1, <1>2, <1>3, <2>1, <2>2 DEF stops
<1> QED
  BY <1>5, <1>6, <1>7, <1>8, <1>9, <1>10, <1>11, <1>12, <1>13, <1>14 DEF Next, Poll, Work

\* Initially each message is still to be fetched.
LEMMA CopiesInit == Init => DeliveryInv
<1> SUFFICES ASSUME Init, NEW o \in Offsets PROVE Copies(o) <= Ends + rebalances + 1
  BY DEF DeliveryInv
<1>1. QueuedAt(o) = {} /\ TakenBy(o) = {}
  BY EmptySeq DEF Init, QueuedAt, TakenBy
<1>2. Cardinality(QueuedAt(o)) = 0 /\ Cardinality(TakenBy(o)) = 0
  BY <1>1, FS_EmptySet
<1>3. o \in Nat
  BY MessagesAssumption DEF Offsets
<1> QED
  BY <1>2, <1>3 DEF Init, Copies, Ends, OneIf, None

\* However the pool interleaves and whatever becomes of the commits, a message is
\* handled once, and once more at most for each stop, crash and rebalance.
THEOREM DeliveredOnce == Spec => []OncePerDelivery
<1>1. TypeOK /\ DeliveryInv => OncePerDelivery
  <2> SUFFICES ASSUME TypeOK, DeliveryInv, NEW o \in Offsets
               PROVE  runs[o] <= cancels + crashes + rebalances + 1
    BY DEF OncePerDelivery
  <2>1. Copies(o) <= Ends + rebalances + 1
    BY DEF DeliveryInv
  <2>2. /\ Cardinality(QueuedAt(o)) \in Nat /\ Cardinality(TakenBy(o)) \in Nat
        /\ OneIf(polled = o) \in {0, 1} /\ OneIf(o >= position) \in {0, 1}
        /\ runs[o] \in Nat
    BY CopiesType
  <2>3. cancels \in Nat /\ crashes \in Nat /\ rebalances \in Nat
    BY StopsAssumption DEF TypeOK
  <2>4. Ends <= cancels + crashes /\ Ends \in Int
    BY <2>3 DEF Ends
  <2> QED
    BY <2>1, <2>2, <2>3, <2>4 DEF Copies
<1>2. TypeOK /\ TypeOK' /\ DeliveryInv /\ [Next]_vars => DeliveryInv'
  BY CopiesStep
<1> QED
  BY <1>1, <1>2, CopiesInit, TypeCorrect, PTL DEF Spec

-----------------------------------------------------------------------------
(***************************************************************************)
(* The order of the commits of a pool of one worker: what the worker holds *)
(* comes before what waits on the channel, and that before what the poll   *)
(* loop holds and the reader fetches next.                                 *)
(***************************************************************************)
Busy(w) == pc[w] \in {"taken", "processed"}

InOrder ==
    /\ committed <= position
    /\ polled # None => committed <= polled /\ polled < position
    /\ \A i \in 1 .. Len(queue) :
          /\ committed <= queue[i] /\ queue[i] < position
          /\ polled # None => queue[i] < polled
          /\ \A j \in 1 .. i - 1 : queue[j] < queue[i]
    /\ \A w \in Workers : Busy(w) =>
          /\ committed <= held[w] /\ held[w] < position
          /\ polled # None => held[w] < polled
          /\ \A i \in 1 .. Len(queue) : held[w] < queue[i]

\* A process that has just been started is in order.
LEMMA RebootInOrder ==
  ASSUME TypeOK, Reboot
  PROVE  InOrder'
<1>1. Len(queue') = 0 /\ polled' = None /\ position' = committed'
      /\ \A w \in Workers : pc'[w] = "idle"
  BY EmptySeq DEF Reboot
<1>2. committed' \in Int
  BY IntegerFacts DEF Reboot
<1> QED
  BY <1>1, <1>2 DEF InOrder, Busy

\* A step that moves no message keeps the order.
LEMMA OrderKept ==
  ASSUME InOrder, UNCHANGED <<committed, position, queue>>, polled' \in {polled, None},
         \A w \in Workers : Busy(w)' => Busy(w) /\ held'[w] = held[w]
  PROVE  InOrder'
  BY DEF InOrder

\* A worker that is alone keeps the order, as long as the group is not rebalanced.
LEMMA OrderStep ==
  ASSUME NEW one \in Workers, Workers = {one}, TypeOK, TypeOK', InOrder,
         [Next]_vars, rebalances' = 0
  PROVE  InOrder'
<1>0. /\ committed \in Int /\ position \in Int /\ None = -1 /\ Messages \in Nat
      /\ queue \in Seq(Offsets) /\ Len(queue) \in Nat
      /\ \A i \in 1 .. Len(queue) : queue[i] \in Int
      /\ \A w \in Workers : held[w] \in Int
      /\ polled = None \/ polled \in Nat
  BY IntegerFacts DEF TypeOK
<1>1. CASE FetchMessage
  <2>1. /\ polled' = position /\ position' = position + 1
        /\ UNCHANGED <<committed, queue, pc, held>>
    BY <1>1 DEF FetchMessage
  <2> QED
    BY <1>0, <2>1 DEF InOrder, Busy
<1>2. CASE FetchCancelled \/ EnqueueCancelled \/ Cancel \/ UNCHANGED vars
  BY <1>2, OrderKept DEF FetchCancelled, EnqueueCancelled, Cancel, vars, Busy
<1>3. CASE Enqueue
  <2>1. /\ polled \in Offsets /\ polled # None /\ polled' = None
        /\ queue' = Append(queue, polled) /\ UNCHANGED <<committed, position, pc, held>>
    BY <1>3 DEF Enqueue, TypeOK
  <2>2. /\ Len(queue') = Len(queue) + 1
        /\ \A i \in 1 .. Len(queue) : queue'[i] = queue[i]
        /\ queue'[Len(queue) + 1] = polled
    BY <1>0, <2>1, AppendProperties
  <2>3. \A i \in 1 .. Len(queue') : i \in 1 .. Len(queue) \/ i = Len(queue) + 1
    BY <1>0, <2>2
  <2>4. \A i \in 1 .. Len(queue') :
           /\ committed <= queue'[i] /\ queue'[i] < position
           /\ \A j \in 1 .. i - 1 : queue'[j] < queue'[i]
    BY <1>0, <2>1, <2>2, <2>3 DEF InOrder
  <2>5. \A w \in Workers, i \in 1 .. Len(queue') : Busy(w) => held[w] < queue'[i]
    BY <1>0, <2>1, <2>2, <2>3 DEF InOrder
  <2> QED
    BY <2>1, <2>4, <2>5 DEF InOrder, Busy
<1>4. CASE Rebalance
  <2>1. rebalances' = rebalances + 1 /\ rebalances \in Nat
    BY <1>4, StopsAssumption DEF Rebalance, TypeOK
  <2> QED
    BY <2>1
<1>5. ASSUME NEW w \in Workers, Take(w) PROVE InOrder'
  <2>1. /\ Head(queue) = queue[1] /\ Len(queue) >= 1
        /\ Len(queue') = Len(queue) - 1
        /\ \A i \in 1 .. Len(queue') : queue'[i] = queue[i + 1]
    BY <1>5, QueueHead DEF Take
  <2>2. /\ UNCHANGED <<committed, position, polled>>
        /\ held'[one] = queue[1]
    BY <1>5, <2>1 DEF Take, TypeOK
  <2>3. /\ 1 \in 1 .. Len(queue)
        /\ \A i \in 1 .. Len(queue') : i + 1 \in 1 .. Len(queue) /\ 1 \in 1 .. (i + 1) - 1
    BY <1>0, <2>1
  <2>4. \A i \in 1 .. Len(queue') :
           /\ committed <= queue'[i] /\ queue'[i] < position
           /\ polled # None => queue'[i] < polled
           /\ held'[one] < queue'[i]
    BY <1>0, <2>1, <2>2, <2>3 DEF InOrder
  <2>5. ASSUME NEW i \in 1 .. Len(queue'), NEW j \in 1 .. i - 1
        PROVE  queue'[j] < queue'[i]
    <3>1. i + 1 \in 1 .. Len(queue) /\ j + 1 \in 1 .. (i + 1) - 1 /\ j \in 1 .. Len(queue')
      BY <1>0, <2>1
    <3> QED
      BY <2>1, <3>1 DEF InOrder
  <2>6. /\ committed <= held'[one] /\ held'[one] < position
        /\ polled # None => held'[one] < polled
    BY <2>2, <2>3 DEF InOrder
  <2> QED
    BY <2>2, <2>4, <2>5, <2>6 DEF InOrder
<1>6. ASSUME NEW w \in Workers,
             \/ WorkerStops(w) \/ HandleRequest(w) \/ HandleInterrupted(w) \/ CommitLost(w)
      PROVE  InOrder'
  <2>1. UNCHANGED <<committed, position, queue, polled>>
    BY <1>6 DEF WorkerStops, HandleRequest, HandleInterrupted, CommitLost
  <2>2. \A v \in Workers : Busy(v)' => Busy(v) /\ held'[v] = held[v]
    BY <1>6 DEF WorkerStops, HandleRequest, HandleInterrupted, CommitLost, NextMessage,
       Busy, TypeOK
  <2> QED
    BY <2>1, <2>2, OrderKept
<1>7. ASSUME NEW w \in Workers, Commit(w) PROVE InOrder'
  <2>1. /\ Busy(one) /\ ~Busy(one)' /\ committed' = held[one] + 1
        /\ UNCHANGED <<position, queue, polled>>
    BY <1>7 DEF Commit, ReadyToCommit, NextMessage, Busy, TypeOK
  <2> QED
    BY <1>0, <2>1 DEF InOrder
<1>8. CASE MainReturns \/ Crash
  BY <1>8, RebootInOrder DEF MainReturns, Crash
<1> QED
  BY <1>1, <1>2, <1>3, <1>4, <1>5, <1>6, <1>7, <1>8 DEF Next, Poll, Work

\* The commits of a pool of one worker never move the group's offset back, whatever
\* is lost of them and however often the process ends, until a rebalance puts older
\* messages behind newer ones.
THEOREM SingleWorkerCommitsInOrder ==
  ASSUME Cardinality(Workers) = 1
  PROVE  Spec => CommitNeverRewinds
<1> DEFINE Inv == TypeOK /\ (rebalances = 0 => InOrder)
<1>1. PICK one \in Workers : Workers = {one}
  BY WorkersAssumption, FS_Singleton
<1>2. Init => Inv
  <2> SUFFICES ASSUME Init PROVE InOrder
    BY TypeInit
  <2>1. /\ Len(queue) = 0 /\ polled = None /\ position = 0 /\ committed = 0
        /\ \A w \in Workers : pc[w] = "idle"
    BY EmptySeq DEF Init
  <2> QED
    BY <2>1 DEF InOrder, Busy
<1>3. TypeOK /\ [Next]_vars => (rebalances' = 0 => rebalances = 0)
  BY StopsAssumption DEF TypeOK, vars, stops, Next, Poll, FetchMessage, FetchCancelled,
     Enqueue, EnqueueCancelled, Rebalance, Work, Take, WorkerStops, HandleRequest,
     HandleInterrupted, Commit, CommitLost, Cancel, MainReturns, Crash, Reboot
<1>4. Inv /\ [Next]_vars => Inv'
  BY <1>1, <1>3, TypeStep, OrderStep
<1>5. Inv /\ [Next]_vars => [rebalances = 0 => committed' >= committed]_vars
  <2> SUFFICES ASSUME Inv, Next, rebalances = 0 PROVE committed' >= committed
    OBVIOUS
  <2>1. TypeOK /\ InOrder /\ committed \in Int
    BY IntegerFacts
  <2>2. ASSUME NEW w \in Workers, Commit(w) PROVE committed' >= committed
    <3>1. Busy(w) /\ committed' = held[w] + 1 /\ held[w] \in Int
      BY <2>1, <2>2, IntegerFacts DEF Commit, ReadyToCommit, Busy
    <3> QED
      BY <2>1, <3>1 DEF InOrder
  <2>3. CASE committed' = committed
    BY <2>1, <2>3
  <2> QED
    BY <2>2, <2>3 DEF Next, Poll, FetchMessage, FetchCancelled, Enqueue, EnqueueCancelled,
       Rebalance, Work, Take, WorkerStops, HandleRequest, HandleInterrupted, CommitLost,
       Cancel, MainReturns, Crash, Reboot
<1> QED
  BY <1>2, <1>4, <1>5, PTL DEF Spec, CommitNeverRewinds

=============================================================================
