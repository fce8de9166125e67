-------------------------- MODULE ScanServiceProofs --------------------------
(***************************************************************************)
(* Theorems about ScanService: what the topic tells of every request, for  *)
(* every pool, partition, assignment of requests to messages and sources,  *)
(* and every number of stops, crashes, rebalances and refused publishes.   *)
(***************************************************************************)
EXTENDS ScanService, FiniteSetTheorems, TLAPS

-----------------------------------------------------------------------------
(***************************************************************************)
(* The topic.                                                              *)
(***************************************************************************)

TopicType ==
    /\ topic = [u \in Scans |-> topic[u]]
    /\ \A u \in Scans : \E S : topic[u] \in Seq(S)

\* A publisher puts an event behind those of a request.
Appends(u, event) == topic' = [topic EXCEPT ![u] = Append(@, event)]

\* What a reader knew of any request still holds, and begins as it did.
Grows ==
    /\ \A v \in Scans : \A f : Published(v, f) => Published(v, f)'
    /\ \A v \in Scans : topic[v] # <<>> => topic'[v] # <<>> /\ topic'[v][1] = topic[v][1]

\* Append at its end changes nothing else of a sequence.
LEMMA AppendFacts ==
  ASSUME NEW S, NEW q \in Seq(S), NEW e
  PROVE  /\ Append(q, e) \in Seq(S \cup {e})
         /\ Len(q) \in Nat
         /\ Len(Append(q, e)) = Len(q) + 1
         /\ \A i \in 1 .. Len(q) : Append(q, e)[i] = q[i]
         /\ Append(q, e)[Len(q) + 1] = e
         /\ Append(q, e) # <<>>
         /\ q # <<>> => Len(q) >= 1
<1>1. q \in Seq(S \cup {e})
  OBVIOUS
<1> QED
  BY <1>1

\* What an append does to the topic.
LEMMA Appended ==
  ASSUME TopicType, NEW u \in Scans, NEW e, Appends(u, e)
  PROVE  /\ TopicType'
         /\ Grows
         /\ Published(u, e)'
         /\ topic[u] = <<>> => topic'[u][1] = e
         /\ \A v \in Scans \ {u} : topic'[v] = topic[v]
<1>1. topic'[u] = Append(topic[u], e) /\ \A v \in Scans \ {u} : topic'[v] = topic[v]
  BY DEF TopicType, Appends
<1>2. PICK S : topic[u] \in Seq(S)
  BY DEF TopicType
<1>3. /\ topic'[u] \in Seq(S \cup {e})
      /\ Len(topic[u]) \in Nat
      /\ Len(topic'[u]) = Len(topic[u]) + 1
      /\ \A i \in 1 .. Len(topic[u]) : topic'[u][i] = topic[u][i]
      /\ topic'[u][Len(topic[u]) + 1] = e
      /\ topic'[u] # <<>>
      /\ topic[u] # <<>> => Len(topic[u]) >= 1
  BY <1>1, <1>2, AppendFacts
<1>4. TopicType'
  <2>1. topic' = [v \in Scans |-> topic'[v]]
    BY DEF TopicType, Appends
  <2>2. \A v \in Scans : \E T : topic'[v] \in Seq(T)
    BY <1>1, <1>3 DEF TopicType
  <2> QED
    BY <2>1, <2>2 DEF TopicType
<1>5. ASSUME NEW v \in Scans, NEW f, Published(v, f)
      PROVE  Published(v, f)'
  <2>1. PICK i \in 1 .. Len(topic[v]) : topic[v][i] = f
    BY <1>5 DEF Published
  <2>2. i \in 1 .. Len(topic'[v]) /\ topic'[v][i] = f
    BY <2>1, <1>1, <1>3
  <2> QED
    BY <2>2 DEF Published
<1>6. Published(u, e)'
  <2>1. Len(topic[u]) + 1 \in 1 .. Len(topic'[u])
    BY <1>3
  <2> QED
    BY <1>3, <2>1 DEF Published
<1>7. \A v \in Scans : topic[v] # <<>> => topic'[v] # <<>> /\ topic'[v][1] = topic[v][1]
  BY <1>1, <1>3
<1>8. topic[u] = <<>> => topic'[u][1] = e
  BY <1>1, <1>3
<1> QED
  BY <1>1, <1>4, <1>5, <1>6, <1>7, <1>8 DEF Grows

\* A step that leaves the topic alone.
LEMMA TopicStays ==
  ASSUME TopicType, UNCHANGED topic
  PROVE  TopicType' /\ Grows
  BY DEF TopicType, Grows, Published

-----------------------------------------------------------------------------
(***************************************************************************)
(* What a step does to the attempts and to the calls of the handler.       *)
(***************************************************************************)

AttemptType ==
    /\ at = [a \in Attempts |-> at[a]]
    /\ version = [u \in Scans |-> version[u]]
    /\ failures \in Nat

\* What of Execute the invariants tell apart: it goes on without an event, writes
\* to the resource once the request is announced, says one of its three events, or
\* is refused one and ends.
Silently(a, label) ==
    /\ UNCHANGED <<topic, failures>>
    /\ label # "done"
    /\ label \in Announced => at[a] \in Announced
    /\ \/ UNCHANGED version
       \/ /\ at[a] \in Announced
          /\ \E n : version' = [version EXCEPT ![Carries[a[1]]] = n]

Speaks(a, event, label) ==
    \/ at[a] = "checked" /\ event = P!AcceptedEvent /\ label = "accepted"
    \/ at[a] = "submitted" /\ event = P!RunningEvent /\ label = "done"
    \/ at[a] \in {"failing", "duplicate"} /\ event = P!FailedEvent /\ label = "done"

Saying(a, label) ==
    /\ UNCHANGED <<version, failures>>
    /\ \E event : Speaks(a, event, label) /\ Appends(Carries[a[1]], event)

Refused(a, label) ==
    /\ label = "done"
    /\ failures' = failures + 1
    /\ UNCHANGED version
    /\ \/ UNCHANGED topic
       \/ \E event, next : Speaks(a, event, next) /\ Appends(Carries[a[1]], event)

\* A call that only answers.
LEMMA AnswerEffect ==
  ASSUME NEW a \in Attempts, NEW from, NEW label, P!Answer(a, from, label)
  PROVE  /\ at[a] = from
         /\ at' = [at EXCEPT ![a] = label]
         /\ UNCHANGED <<topic, failures, version>>
  BY DEF P!Answer, P!Goto, P!cluster, P!events, P!counters

\* A publish that is answered, or refused.
LEMMA PublishEffect ==
  ASSUME NEW a \in Attempts, NEW from, NEW e, NEW label, P!Publish(a, from, e, label)
  PROVE  /\ at[a] = from
         /\ UNCHANGED version
         /\ \/ /\ at' = [at EXCEPT ![a] = label]
               /\ UNCHANGED failures
               /\ Appends(Carries[a[1]], e)
            \/ /\ at' = [at EXCEPT ![a] = "done"]
               /\ failures' = failures + 1
               /\ UNCHANGED topic \/ Appends(Carries[a[1]], e)
  BY DEF P!Publish, P!Goto, P!Say, P!cluster, P!events, Appends

\* A write of the submitter.
LEMMA WriteEffect ==
  ASSUME NEW a \in Attempts, P!Write(a)
  PROVE  /\ UNCHANGED <<topic, failures>>
         /\ \E n : version' = [version EXCEPT ![Carries[a[1]]] = n]
         /\ \/ at' = [at EXCEPT ![a] = "submitted"]
            \/ at' = [at EXCEPT ![a] = "failing"]
<1>1. version' = [version EXCEPT ![Carries[a[1]]] = revision + 1]
  BY DEF P!Write, P!NewVersion
<1> QED
  BY <1>1 DEF P!Write, P!Goto, P!events

\* Every step of Execute is one of those.
LEMMA ExecuteEffect ==
  ASSUME NEW a \in Attempts, P!Execute(a)
  PROVE  \E label :
           /\ at' = [at EXCEPT ![a] = label]
           /\ Silently(a, label) \/ Saying(a, label) \/ Refused(a, label)
<1> DEFINE Goal == \E label :
             /\ at' = [at EXCEPT ![a] = label]
             /\ Silently(a, label) \/ Saying(a, label) \/ Refused(a, label)
<1>a. ASSUME NEW from, NEW label, P!Answer(a, from, label), label # "done",
             label \in Announced => from \in Announced
      PROVE  Goal
  BY <1>a, AnswerEffect DEF Silently
<1>p. ASSUME NEW from, NEW e, NEW label, P!Publish(a, from, e, label),
             at[a] = from => Speaks(a, e, label)
      PROVE  Goal
  BY <1>p, PublishEffect DEF Saying, Refused
<1>w. ASSUME P!Write(a), at[a] \in Announced
      PROVE  Goal
  <2>1. /\ UNCHANGED <<topic, failures>>
        /\ \E n : version' = [version EXCEPT ![Carries[a[1]]] = n]
    BY <1>w, WriteEffect
  <2>2. Silently(a, "submitted") /\ Silently(a, "failing")
    BY <2>1, <1>w DEF Silently
  <2> QED
    BY <2>2, <1>w, WriteEffect
<1>1. CASE P!Admit(a)
  BY <1>1, <1>a DEF P!Admit, Announced
<1>2. CASE P!CheckPods(a)
  BY <1>2, <1>a DEF P!CheckPods, Announced
<1>3. CASE P!PublishAccepted(a)
  BY <1>3, <1>p DEF P!PublishAccepted, Speaks
<1>4. CASE P!Decrypt(a)
  BY <1>4, <1>a DEF P!Decrypt, Announced
<1>5. CASE P!Verify(a)
  BY <1>5, <1>a DEF P!Verify, Announced
<1>6. CASE P!Build(a)
  BY <1>6, <1>a DEF P!Build, Announced
<1>7. CASE P!Create(a)
  BY <1>7, <1>a, <1>w DEF P!Create, Announced
<1>8. CASE P!GetExisting(a)
  <2>1. CASE P!Answer(a, "conflict", "failing")
    BY <2>1, <1>a DEF Announced
  <2>2. CASE ~P!Answer(a, "conflict", "failing")
    <3>1. /\ at[a] = "conflict"
          /\ at' = [at EXCEPT ![a] = "fetched"]
          /\ UNCHANGED <<topic, failures, version>>
      BY <1>8, <2>2 DEF P!GetExisting, P!Goto, P!cluster, P!events, P!counters
    <3>2. Silently(a, "fetched")
      BY <3>1 DEF Silently, Announced
    <3> QED
      BY <3>1, <3>2
  <2> QED
    BY <2>1, <2>2
<1>9. CASE P!Update(a)
  BY <1>9, <1>a, <1>w DEF P!Update, Announced
<1>10. CASE P!PublishRunning(a)
  BY <1>10, <1>p DEF P!PublishRunning, Speaks
<1>11. CASE P!PublishFailure(a)
  <2>1. CASE P!Publish(a, "failing", P!FailedEvent, "done")
    BY <2>1, <1>p DEF Speaks
  <2>2. CASE P!Publish(a, "duplicate", P!FailedEvent, "done")
    BY <2>2, <1>p DEF Speaks
  <2> QED
    BY <1>11, <2>1, <2>2 DEF P!PublishFailure
<1> QED
  BY <1>1, <1>2, <1>3, <1>4, <1>5, <1>6, <1>7, <1>8, <1>9, <1>10, <1>11 DEF P!Execute

\* What a goroutine of the handler does.
Looks(s) ==
    /\ UNCHANGED <<topic, failures>>
    /\ \/ call[s] = "idle" /\ request'[s] \in Scans
       \/ call'[s] = "idle"
       \/ call[s] # "idle" /\ request'[s] = request[s]

Speaking(s) ==
    /\ call[s] # "idle"
    /\ call'[s] = "idle"
    /\ \/ UNCHANGED failures /\ \E event : Appends(request[s], event)
       \/ /\ failures' = failures + 1
          /\ UNCHANGED topic \/ \E event : Appends(request[s], event)

HandlerType ==
    /\ call = [s \in Sources |-> call[s]]
    /\ request = [s \in Sources |-> request[s]]

LEMMA HandlerEffect ==
  ASSUME HandlerType, NEW s \in Sources, H!HandleSignal(s)
  PROVE  /\ HandlerType'
         /\ \A t \in Sources \ {s} : call'[t] = call[t] /\ request'[t] = request[t]
         /\ Looks(s) \/ Speaking(s)
<1> USE DEF HandlerType
<1>1. ASSUME NEW r \in Scans, NEW o \in Observations, H!ReadState(s, r, o)
      PROVE  /\ HandlerType'
             /\ \A t \in Sources \ {s} : call'[t] = call[t] /\ request'[t] = request[t]
             /\ Looks(s)
  BY <1>1 DEF H!ReadState, Looks
<1>2. CASE H!Ignore(s)
  BY <1>2 DEF H!Ignore, H!Return, H!counters, Looks
<1>3. CASE H!StoreState(s)
  BY <1>3 DEF H!StoreState, H!counters, Looks
<1>4. CASE H!Publish(s)
  BY <1>4 DEF H!Publish, H!Return, H!AppendToTopic, H!counters, Speaking, Appends
<1>5. CASE H!PublishFails(s)
  BY <1>5 DEF H!PublishFails, H!Return, H!AppendToTopic, Speaking, Appends
<1> QED
  BY <1>1, <1>2, <1>3, <1>4, <1>5 DEF H!HandleSignal

-----------------------------------------------------------------------------
(***************************************************************************)
(* The pool.                                                               *)
(***************************************************************************)

PoolType ==
    /\ pc = [w \in Workers |-> pc[w]]
    /\ held = [w \in Workers |-> held[w]]
    /\ attempt = [w \in Workers |-> attempt[w]]
    /\ runs \in [Offsets -> Nat]
    /\ start \in Int
    /\ committed \in Int

PoolPlaced == PoolType /\ OnAttempt

\* Counting one more run of a message.
LEMMA CountType ==
  ASSUME NEW S, NEW counts \in [S -> Nat], NEW x
  PROVE  [counts EXCEPT ![x] = @ + 1] \in [S -> Nat]
<1> DEFINE more == [counts EXCEPT ![x] = @ + 1]
<1>1. more = [s \in S |-> IF s = x THEN counts[x] + 1 ELSE counts[s]]
  BY Zenon
<1>2. \A s \in S : (IF s = x THEN counts[x] + 1 ELSE counts[s]) \in Nat
  <2>1. \A s \in S : counts[s] \in Nat /\ counts[s] + 1 \in Nat
    OBVIOUS
  <2> QED
    BY <2>1, Zenon
<1> QED
  BY <1>1, <1>2, Zenon

\* A step of the worker or of the poll loop keeps each worker on an attempt.
LEMMA PoolStep == PoolPlaced /\ [Next]_service => PoolPlaced'
<1> SUFFICES ASSUME PoolPlaced, [Next]_service PROVE PoolPlaced'
  OBVIOUS
<1> USE DEF PoolPlaced, PoolType, OnAttempt, Offsets
<1>1. CASE Poll
  BY <1>1 DEF Poll, C!Poll, C!FetchMessage, C!FetchCancelled, C!Enqueue, C!EnqueueCancelled,
     C!Rebalance, C!stops, Idle
<1>2. ASSUME NEW w \in Workers, Take(w) PROVE PoolPlaced'
  BY <1>2 DEF Take, C!Take, C!stops
<1>3. ASSUME NEW w \in Workers, Execute(w) PROVE PoolPlaced'
  BY <1>3 DEF Execute, consumer
<1>4. ASSUME NEW w \in Workers, Handled(w) PROVE PoolPlaced'
  <2>1. runs' = [runs EXCEPT ![held[w]] = @ + 1] /\ runs \in [Offsets -> Nat]
    BY <1>4 DEF Handled, C!HandleRequest
  <2>2. runs' \in [Offsets -> Nat]
    BY <2>1, CountType
  <2> QED
    BY <1>4, <2>2 DEF Handled, C!HandleRequest, C!stops, Idle
<1>5. ASSUME NEW w \in Workers, Interrupted(w) PROVE PoolPlaced'
  BY <1>5 DEF Interrupted, C!HandleInterrupted, C!stops
<1>6. ASSUME NEW w \in Workers, Finish(w) PROVE PoolPlaced'
  <2>1. C!ReadyToCommit(w) => held[w] \in Int
    BY DEF C!ReadyToCommit, Attempts
  <2>2. CASE C!Commit(w) \/ C!CommitLost(w)
    BY <1>6, <2>1, <2>2 DEF Finish, C!Commit, C!CommitLost, C!NextMessage, C!stops
  <2>3. CASE C!WorkerStops(w)
    BY <1>6, <2>3 DEF Finish, C!WorkerStops, C!stops
  <2> QED
    BY <1>6, <2>2, <2>3 DEF Finish
<1>7. CASE Kubernetes \/ (\E s \in Sources : Observe(s)) \/ UNCHANGED service
  BY <1>7 DEF Kubernetes, Observe, service, consumer
<1>8. CASE Cancel
  BY <1>8 DEF Cancel, C!Cancel, Idle
<1>9. CASE Restart
  BY <1>9 DEF Restart, C!MainReturns, C!Crash, C!Reboot
<1> QED
  BY <1>1, <1>2, <1>3, <1>4, <1>5, <1>6, <1>7, <1>8, <1>9 DEF Next, Work

-----------------------------------------------------------------------------
(***************************************************************************)
(* The first that is written is whether a request is accepted or refused.  *)
(***************************************************************************)

StateType == TopicType /\ AttemptType /\ HandlerType

\* A step that publishes nothing, announces nothing, stores no scan and gives no
\* goroutine a request.
LEMMA NothingAnnounced ==
  ASSUME StateType, AnnounceInv, TopicType', Grows,
         \A u \in Scans : topic'[u] = topic[u],
         \A a \in Attempts : at'[a] \in Announced => at[a] \in Announced,
         \A s \in Sources : call'[s] # "idle" => call[s] # "idle" /\ request'[s] = request[s],
         \A u \in Scans : version'[u] > 0 => version[u] > 0
  PROVE  AnnounceInv'
<1>1. ASSUME NEW a \in Attempts, at'[a] \in Announced
      PROVE  Published(Carries[a[1]], P!AcceptedEvent)'
  <2>1. Carries[a[1]] \in Scans
    BY CarriesAssumption DEF Attempts
  <2> QED
    BY <1>1, <2>1 DEF AnnounceInv, Grows
<1>2. ASSUME NEW s \in Sources, call'[s] # "idle"
      PROVE  request'[s] \in Scans /\ Published(request[s], P!AcceptedEvent)'
  BY <1>2 DEF AnnounceInv, Grows
<1>3. AnnouncedFirst'
  BY DEF AnnounceInv, AnnouncedFirst, Grows
<1> QED
  BY <1>1, <1>2, <1>3 DEF AnnounceInv

\* A step of Execute.
LEMMA ExecuteAnnounces ==
  ASSUME StateType, AnnounceInv, NEW a \in Attempts, P!Execute(a), UNCHANGED handler
  PROVE  StateType' /\ AnnounceInv'
<1>u. Carries[a[1]] \in Scans
  BY CarriesAssumption DEF Attempts
<1>h. HandlerType' /\ UNCHANGED <<call, request>>
  BY DEF StateType, HandlerType, handler
<1>1. PICK label :
        /\ at' = [at EXCEPT ![a] = label]
        /\ Silently(a, label) \/ Saying(a, label) \/ Refused(a, label)
  BY ExecuteEffect
<1>2. at'[a] = label /\ \A b \in Attempts \ {a} : at'[b] = at[b]
  BY <1>1 DEF StateType, AttemptType
<1>3. AttemptType'
  BY <1>1 DEF StateType, AttemptType, Silently, Saying, Refused
<1>4. CASE UNCHANGED topic /\ (Silently(a, label) \/ Refused(a, label))
  <2>1. TopicType' /\ Grows
    BY <1>4, TopicStays DEF StateType
  <2>2. \A b \in Attempts : at'[b] \in Announced => at[b] \in Announced
    BY <1>2, <1>4 DEF Silently, Refused, Announced
  <2>3. CASE UNCHANGED version
    BY <1>h, <1>3, <1>4, <2>1, <2>2, <2>3, NothingAnnounced DEF StateType
  <2>4. CASE /\ at[a] \in Announced
             /\ \E n : version' = [version EXCEPT ![Carries[a[1]]] = n]
    <3>1. \A v \in Scans : version'[v] > 0 => version[v] > 0 \/ v = Carries[a[1]]
      BY <2>4 DEF StateType, AttemptType
    <3>2. Published(Carries[a[1]], P!AcceptedEvent)
      BY <2>4 DEF AnnounceInv
    <3>3. AnnouncedFirst'
      BY <1>4, <2>1, <3>1, <3>2, <1>u DEF AnnounceInv, AnnouncedFirst, Grows
    <3>4. \A b \in Attempts : Carries[b[1]] \in Scans
      BY CarriesAssumption DEF Attempts
    <3>5. \A b \in Attempts :
             at'[b] \in Announced => Published(Carries[b[1]], P!AcceptedEvent)'
      BY <2>1, <2>2, <3>4 DEF AnnounceInv, Grows
    <3>6. \A s \in Sources : call'[s] # "idle" =>
             request'[s] \in Scans /\ Published(request[s], P!AcceptedEvent)'
      BY <1>h, <2>1 DEF AnnounceInv, Grows
    <3> QED
      BY <1>h, <1>3, <2>1, <3>3, <3>5, <3>6 DEF AnnounceInv, StateType
  <2> QED
    BY <1>4, <2>3, <2>4 DEF Silently, Refused
<1>5. ASSUME NEW event, NEW next, Speaks(a, event, next), Appends(Carries[a[1]], event),
             UNCHANGED version, label = next \/ label = "done"
      PROVE  StateType' /\ AnnounceInv'
  <2>1. /\ TopicType'
        /\ Grows
        /\ Published(Carries[a[1]], event)'
        /\ topic[Carries[a[1]]] = <<>> => topic'[Carries[a[1]]][1] = event
        /\ \A v \in Scans \ {Carries[a[1]]} : topic'[v] = topic[v]
    BY <1>5, <1>u, Appended DEF StateType
  <2>2. \A b \in Attempts : Carries[b[1]] \in Scans
    BY CarriesAssumption DEF Attempts
  <2>3. ASSUME NEW b \in Attempts, at'[b] \in Announced
        PROVE  Published(Carries[b[1]], P!AcceptedEvent)'
    <3>1. CASE b = a
      BY <1>2, <1>5, <2>1, <2>3, <3>1 DEF Speaks, Announced
    <3>2. CASE b # a
      BY <1>2, <2>1, <2>2, <2>3, <3>2 DEF AnnounceInv, Grows
    <3> QED
      BY <3>1, <3>2
  <2>4. \A s \in Sources : call'[s] # "idle" =>
           request'[s] \in Scans /\ Published(request[s], P!AcceptedEvent)'
    BY <1>h, <2>1 DEF AnnounceInv, Grows
  <2>5. topic[Carries[a[1]]] = <<>> => event \in {P!AcceptedEvent, P!FailedEvent}
    <3>1. CASE event = P!RunningEvent /\ at[a] = "submitted"
      <4>1. Published(Carries[a[1]], P!AcceptedEvent)
        BY <3>1 DEF AnnounceInv, Announced
      <4> QED
        BY <4>1 DEF Published
    <3> QED
      BY <1>5, <3>1 DEF Speaks
  <2>6. AnnouncedFirst'
    BY <1>5, <1>u, <2>1, <2>5 DEF AnnounceInv, AnnouncedFirst, Grows
  <2> QED
    BY <1>h, <1>3, <2>1, <2>3, <2>4, <2>6 DEF AnnounceInv, StateType
<1> QED
  BY <1>1, <1>4, <1>5 DEF Silently, Saying, Refused

\* A step of a goroutine of the handler, which has observed a scan that exists.
LEMMA ObserveAnnounces ==
  ASSUME StateType, AnnounceInv, NEW s \in Sources, Observe(s)
  PROVE  StateType' /\ AnnounceInv'
<1>1. /\ HandlerType'
      /\ \A t \in Sources \ {s} : call'[t] = call[t] /\ request'[t] = request[t]
      /\ Looks(s) \/ Speaking(s)
  BY HandlerEffect DEF Observe, StateType
<1>2. /\ UNCHANGED <<at, version>>
      /\ call[s] = "idle" => version[request'[s]] > 0
  BY DEF Observe, requests
<1>3. /\ TopicType' /\ AttemptType' /\ Grows
      /\ \A v \in Scans : topic[v] = <<>> => topic'[v] = <<>>
  <2>1. CASE UNCHANGED topic
    BY <2>1, <1>1, <1>2, TopicStays DEF StateType, AttemptType, Looks, Speaking
  <2>2. ASSUME NEW event, Speaking(s), Appends(request[s], event)
        PROVE  /\ TopicType' /\ AttemptType' /\ Grows
               /\ \A v \in Scans : topic[v] = <<>> => topic'[v] = <<>>
    <3>1. request[s] \in Scans /\ Published(request[s], P!AcceptedEvent)
      BY <2>2 DEF Speaking, AnnounceInv
    <3>2. topic[request[s]] # <<>>
      BY <3>1 DEF Published
    <3>3. /\ TopicType' /\ Grows
          /\ \A v \in Scans \ {request[s]} : topic'[v] = topic[v]
      BY <2>2, <3>1, Appended DEF StateType
    <3>4. AttemptType'
      BY <1>2, <2>2 DEF StateType, AttemptType, Speaking
    <3> QED
      BY <3>2, <3>3, <3>4
  <2> QED
    BY <1>1, <2>1, <2>2 DEF Looks, Speaking
<1>4. ASSUME NEW t \in Sources, call'[t] # "idle"
      PROVE  request'[t] \in Scans /\ Published(request[t], P!AcceptedEvent)'
  <2>1. CASE call[t] # "idle" /\ request'[t] = request[t]
    BY <2>1, <1>3 DEF AnnounceInv, Grows
  <2>2. CASE t = s /\ call[s] = "idle"
    <3>1. request'[s] \in Scans
      BY <1>1, <1>4, <2>2 DEF Looks, Speaking
    <3>2. Published(request'[s], P!AcceptedEvent)
      BY <1>2, <2>2, <3>1 DEF AnnounceInv, AnnouncedFirst
    <3> QED
      BY <1>3, <2>2, <3>1, <3>2 DEF Grows
  <2> QED
    BY <1>1, <1>4, <2>1, <2>2 DEF Looks, Speaking
<1>5. AnnouncedFirst'
  BY <1>2, <1>3 DEF AnnounceInv, AnnouncedFirst, Grows
<1>6. \A a \in Attempts :
         at'[a] \in Announced => Published(Carries[a[1]], P!AcceptedEvent)'
  <2>1. \A a \in Attempts : Carries[a[1]] \in Scans
    BY CarriesAssumption DEF Attempts
  <2> QED
    BY <1>2, <1>3, <2>1 DEF AnnounceInv, Grows
<1> QED
  BY <1>1, <1>3, <1>4, <1>5, <1>6 DEF AnnounceInv, StateType

\* A step that concerns the pool alone.
PoolOnly == UNCHANGED <<requests, handler, publisher>>

LEMMA PoolOnlySteps ==
  ASSUME NEW w \in Workers, Poll \/ Take(w) \/ Handled(w) \/ Finish(w) \/ Cancel
  PROVE  PoolOnly
  BY DEF Poll, Take, Handled, Finish, Cancel, Idle, PoolOnly

LEMMA PoolOnlyKeeps ==
  ASSUME StateType, PoolOnly
  PROVE  StateType' /\ Grows /\ UNCHANGED <<topic, at, version, call, request, failures>>
<1>1. UNCHANGED <<topic, at, version, call, request, failures>>
  BY DEF PoolOnly, requests, handler, publisher
<1> QED
  BY <1>1, TopicStays DEF StateType, AttemptType, HandlerType

\* A step of the operator, of whoever deletes scans, or the end of the process.
LEMMA OutsideKeeps ==
  ASSUME StateType, Kubernetes \/ Restart
  PROVE  /\ StateType' /\ Grows /\ UNCHANGED <<topic, failures>>
         /\ \A a \in Attempts : at'[a] \in {at[a], "dead"}
         /\ \A s \in Sources : call'[s] # "idle" => UNCHANGED <<call, request>>
         /\ \A u \in Scans : version'[u] > 0 => version[u] > 0
<1>1. CASE Kubernetes
  <2>1. UNCHANGED <<topic, failures, at, call, request>>
    BY <1>1 DEF Kubernetes, P!OperatorActs, P!Delete, P!events, P!counters, handler
  <2>2. PICK u \in Scans : P!OperatorActs(u) \/ P!Delete(u)
    BY <1>1 DEF Kubernetes
  <2>3. \E n : version' = [version EXCEPT ![u] = n]
    BY <2>2 DEF P!OperatorActs, P!NewVersion, P!Delete
  <2>4. version[u] > 0
    BY <2>2 DEF P!OperatorActs, P!Delete
  <2>5. /\ version' = [v \in Scans |-> version'[v]]
        /\ \A v \in Scans : version'[v] > 0 => version[v] > 0
    BY <2>3, <2>4 DEF StateType, AttemptType
  <2>6. StateType'
    BY <2>1, <2>5, TopicStays DEF StateType, AttemptType, HandlerType
  <2> QED
    BY <2>1, <2>5, <2>6, TopicStays DEF StateType
<1>2. CASE Restart
  <2>1. UNCHANGED <<topic, failures, version>>
    BY <1>2 DEF Restart, P!Crash, P!cluster, P!events
  <2>2. at' = [a \in Attempts |-> IF at[a] \in {"delivered", "done"} THEN at[a] ELSE "dead"]
    BY <1>2 DEF Restart, P!Crash
  <2>3. call' = [s \in Sources |-> "idle"] /\ request' = [s \in Sources |-> NoRequest]
    BY <1>2 DEF Restart, H!Restart
  <2>4. StateType'
    BY <2>1, <2>2, <2>3, TopicStays DEF StateType, AttemptType, HandlerType
  <2> QED
    BY <2>1, <2>2, <2>3, <2>4, TopicStays DEF StateType
<1> QED
  BY <1>1, <1>2

\* No step breaks AnnounceInv.
LEMMA AnnounceStep ==
  PoolPlaced /\ StateType /\ AnnounceInv /\ [Next]_service => StateType' /\ AnnounceInv'
<1> SUFFICES ASSUME PoolPlaced, StateType, AnnounceInv, [Next]_service
             PROVE  StateType' /\ AnnounceInv'
  OBVIOUS
<1>1. CASE PoolOnly
  BY <1>1, PoolOnlyKeeps, NothingAnnounced DEF StateType
<1>2. ASSUME NEW w \in Workers, Execute(w)
      PROVE  StateType' /\ AnnounceInv'
  <2>1. attempt[w] \in Attempts
    BY <1>2 DEF Execute, PoolPlaced, OnAttempt
  <2> QED
    BY <1>2, <2>1, ExecuteAnnounces DEF Execute
<1>3. ASSUME NEW w \in Workers, Interrupted(w)
      PROVE  StateType' /\ AnnounceInv'
  <2>1. UNCHANGED <<topic, failures, version, call, request>>
    BY <1>3 DEF Interrupted, handler, publisher
  <2>2. at' = [at EXCEPT ![attempt[w]] = "dead"]
    BY <1>3 DEF Interrupted
  <2>3. StateType' /\ Grows
    BY <2>1, <2>2, TopicStays DEF StateType, AttemptType, HandlerType
  <2>4. \A a \in Attempts : at'[a] \in Announced => at[a] \in Announced
    BY <2>2 DEF StateType, AttemptType, Announced
  <2> QED
    BY <2>1, <2>3, <2>4, NothingAnnounced DEF StateType
<1>4. CASE Kubernetes \/ Restart
  <2>1. \A a \in Attempts : at'[a] \in Announced => at[a] \in Announced
    BY <1>4, OutsideKeeps DEF Announced
  <2> QED
    BY <1>4, <2>1, OutsideKeeps, NothingAnnounced DEF StateType
<1>5. ASSUME NEW s \in Sources, Observe(s)
      PROVE  StateType' /\ AnnounceInv'
  BY <1>5, ObserveAnnounces
<1>6. CASE UNCHANGED service
  BY <1>1, <1>6 DEF service, PoolOnly
<1>7. Poll \/ Cancel => PoolOnly
  BY DEF Poll, Cancel, Idle, PoolOnly
<1> QED
  BY <1>1, <1>2, <1>3, <1>4, <1>5, <1>6, <1>7, PoolOnlySteps DEF Next, Work

\* Nothing is known of a request at first.
LEMMA ServiceInit == Init => PoolPlaced /\ StateType /\ AnnounceInv /\ OutcomeInv
<1> SUFFICES ASSUME Init PROVE PoolPlaced /\ StateType /\ AnnounceInv /\ OutcomeInv
  OBVIOUS
<1>1. /\ topic = [u \in Scans |-> <<>>]
      /\ at = [a \in Attempts |-> "delivered"]
      /\ version = [u \in Scans |-> 0]
      /\ failures = 0
      /\ call = [s \in Sources |-> "idle"]
      /\ request = [s \in Sources |-> NoRequest]
  BY DEF Init, P!Init, H!Init
<1>2. PoolPlaced
  <2>1. /\ pc = [w \in Workers |-> "idle"]
        /\ held = [w \in Workers |-> C!None]
        /\ attempt = [w \in Workers |-> NoAttempt]
        /\ runs = [o \in Offsets |-> 0]
        /\ start = 0 /\ committed = 0
    BY DEF Init, C!Init, Offsets, C!Offsets
  <2>2. runs \in [Offsets -> Nat]
    BY <2>1
  <2>3. \A w \in Workers : pc[w] = "idle"
    BY <2>1
  <2> QED
    BY <2>1, <2>2, <2>3 DEF PoolPlaced, PoolType, OnAttempt
<1>3. <<>> \in Seq({})
  OBVIOUS
<1>4. StateType
  BY <1>1, <1>3 DEF StateType, TopicType, AttemptType, HandlerType
<1>5. AnnounceInv
  BY <1>1 DEF AnnounceInv, AnnouncedFirst, Announced
<1>6. \A o \in Offsets : runs[o] = 0
  BY DEF Init, C!Init, Offsets, C!Offsets
<1>7. OutcomeInv
  BY <1>1, <1>6 DEF OutcomeInv, C!Handled, Offsets, C!Offsets
<1> QED
  BY <1>2, <1>4, <1>5, <1>7

\* Whatever fails, is delivered again, overtakes or is observed early, the first the
\* status writer takes of a request is whether it is accepted, and its scan is not
\* stored before that.  As with AnnouncedFirst, taken is not acknowledged
\* (RequiredAcks) and the order is not one between partitions (LeastBytes).
THEOREM RequestsAreAnnouncedFirst == Spec => []AnnouncedFirst
<1>1. AnnounceInv => AnnouncedFirst
  BY DEF AnnounceInv
<1> QED
  BY <1>1, ServiceInit, PoolStep, AnnounceStep, PTL DEF Spec

-----------------------------------------------------------------------------
(***************************************************************************)
(* A commit does not cover up a request nobody was told about.             *)
(***************************************************************************)

\* A step that finishes no attempt and handles no message.
LEMMA NothingFinished ==
  ASSUME OutcomeInv, Grows, failures' = 0 => failures = 0,
         \A a \in Attempts : at'[a] = "done" => at[a] = "done",
         UNCHANGED runs
  PROVE  OutcomeInv'
<1> SUFFICES ASSUME failures' = 0
             PROVE  /\ \A a \in Attempts : at'[a] = "done" => HasOutcome(Carries[a[1]])'
                    /\ \A o \in C!Handled' : HasOutcome(Carries[o])'
  BY DEF OutcomeInv
<1>1. \A v \in Scans : HasOutcome(v) => HasOutcome(v)'
  BY DEF HasOutcome, Grows
<1>2. \A a \in Attempts : Carries[a[1]] \in Scans
  BY CarriesAssumption DEF Attempts
<1>3. \A o \in C!Handled : Carries[o] \in Scans
  BY CarriesAssumption DEF C!Handled, C!Offsets, Offsets
<1>4. C!Handled' = C!Handled
  BY DEF C!Handled
<1> QED
  BY <1>1, <1>2, <1>3, <1>4 DEF OutcomeInv

\* A step of Execute.
LEMMA ExecuteFinishes ==
  ASSUME StateType, OutcomeInv, NEW a \in Attempts, P!Execute(a), UNCHANGED consumer
  PROVE  OutcomeInv'
<1>u. \A b \in Attempts : Carries[b[1]] \in Scans
  BY CarriesAssumption DEF Attempts
<1>1. PICK label :
        /\ at' = [at EXCEPT ![a] = label]
        /\ Silently(a, label) \/ Saying(a, label) \/ Refused(a, label)
  BY ExecuteEffect
<1>2. at'[a] = label /\ \A b \in Attempts \ {a} : at'[b] = at[b]
  BY <1>1 DEF StateType, AttemptType
<1>r. UNCHANGED runs
  BY DEF consumer
<1>3. CASE Silently(a, label)
  <2>1. Grows /\ UNCHANGED failures /\ label # "done"
    BY <1>3, TopicStays DEF StateType, Silently
  <2> QED
    BY <1>2, <1>r, <2>1, NothingFinished
<1>4. CASE Refused(a, label)
  <2>1. failures' # 0
    BY <1>4 DEF Refused, StateType, AttemptType
  <2> QED
    BY <2>1 DEF OutcomeInv
<1>5. CASE Saying(a, label)
  <2>1. PICK event : Speaks(a, event, label) /\ Appends(Carries[a[1]], event)
    BY <1>5 DEF Saying
  <2>2. Grows /\ Published(Carries[a[1]], event)' /\ UNCHANGED failures
    BY <1>5, <1>u, <2>1, Appended DEF StateType, Saying
  <2>3. CASE label # "done"
    BY <1>2, <1>r, <2>2, <2>3, NothingFinished
  <2>4. CASE label = "done" /\ failures' = 0
    <3>1. HasOutcome(Carries[a[1]])'
      BY <2>1, <2>2, <2>4 DEF Speaks, HasOutcome
    <3>2. \A v \in Scans : HasOutcome(v) => HasOutcome(v)'
      BY <2>2 DEF HasOutcome, Grows
    <3>3. ASSUME NEW b \in Attempts, at'[b] = "done"
          PROVE  HasOutcome(Carries[b[1]])'
      <4>1. CASE b = a
        BY <3>1, <4>1
      <4>2. CASE b # a
        BY <1>2, <1>u, <2>2, <2>4, <3>2, <3>3, <4>2 DEF OutcomeInv
      <4> QED
        BY <4>1, <4>2
    <3>4. ASSUME NEW o \in C!Handled
          PROVE  HasOutcome(Carries[o])'
      <4>1. Carries[o] \in Scans
        BY CarriesAssumption DEF C!Handled, C!Offsets, Offsets
      <4> QED
        BY <2>2, <2>4, <3>2, <4>1 DEF OutcomeInv
    <3>5. C!Handled' = C!Handled
      BY <1>r DEF C!Handled
    <3> QED
      BY <3>3, <3>4, <3>5 DEF OutcomeInv
  <2> QED
    BY <2>3, <2>4 DEF OutcomeInv
<1> QED
  BY <1>1, <1>3, <1>4, <1>5

\* Execute has returned, and the worker goes on: the message counts as handled.
LEMMA HandledFinishes ==
  ASSUME PoolPlaced, StateType, OutcomeInv, NEW w \in Workers, Handled(w)
  PROVE  OutcomeInv'
<1>1. /\ attempt[w] \in Attempts /\ attempt[w][1] = held[w]
      /\ at[attempt[w]] = "done"
  BY DEF Handled, C!HandleRequest, PoolPlaced, OnAttempt
<1>2. UNCHANGED <<topic, at, failures>>
  BY DEF Handled, Idle, requests, publisher
<1>3. C!Handled' \subseteq C!Handled \cup {held[w]}
  <2>1. runs' = [runs EXCEPT ![held[w]] = @ + 1]
    BY DEF Handled, C!HandleRequest
  <2>2. \A o \in Offsets \ {held[w]} : runs'[o] = runs[o]
    BY <2>1 DEF PoolPlaced, PoolType
  <2> QED
    BY <2>2 DEF C!Handled, C!Offsets, Offsets
<1>4. failures = 0 => HasOutcome(Carries[held[w]])
  BY <1>1 DEF OutcomeInv
<1>5. \A v : HasOutcome(v)' <=> HasOutcome(v)
  BY <1>2 DEF HasOutcome, Published
<1> QED
  BY <1>2, <1>3, <1>4, <1>5 DEF OutcomeInv

\* No step breaks OutcomeInv.
LEMMA OutcomeStep ==
  PoolPlaced /\ StateType /\ AnnounceInv /\ OutcomeInv /\ [Next]_service => OutcomeInv'
<1> SUFFICES ASSUME PoolPlaced, StateType, AnnounceInv, OutcomeInv, [Next]_service
             PROVE  OutcomeInv'
  OBVIOUS
<1>1. CASE PoolOnly /\ UNCHANGED runs
  BY <1>1, PoolOnlyKeeps, NothingFinished
<1>2. ASSUME NEW w \in Workers, Execute(w)
      PROVE  OutcomeInv'
  <2>1. attempt[w] \in Attempts
    BY <1>2 DEF Execute, PoolPlaced, OnAttempt
  <2> QED
    BY <1>2, <2>1, ExecuteFinishes DEF Execute
<1>3. ASSUME NEW w \in Workers, Handled(w)
      PROVE  OutcomeInv'
  BY <1>3, HandledFinishes
<1>4. ASSUME NEW w \in Workers, Interrupted(w)
      PROVE  OutcomeInv'
  <2>1. UNCHANGED <<topic, failures, runs>>
    BY <1>4 DEF Interrupted, C!HandleInterrupted, publisher
  <2>2. at' = [at EXCEPT ![attempt[w]] = "dead"]
    BY <1>4 DEF Interrupted
  <2>3. \A a \in Attempts : at'[a] = "done" => at[a] = "done"
    BY <2>2 DEF StateType, AttemptType
  <2> QED
    BY <2>1, <2>3, TopicStays, NothingFinished DEF StateType
<1>5. CASE Kubernetes \/ Restart
  <2>1. UNCHANGED runs
    BY <1>5 DEF Kubernetes, consumer, Restart, C!MainReturns, C!Crash, C!Reboot
  <2>2. \A a \in Attempts : at'[a] = "done" => at[a] = "done"
    BY <1>5, OutsideKeeps
  <2> QED
    BY <1>5, <2>1, <2>2, OutsideKeeps, NothingFinished
<1>6. ASSUME NEW s \in Sources, Observe(s)
      PROVE  OutcomeInv'
  <2>1. UNCHANGED <<at, runs>>
    BY <1>6 DEF Observe, consumer, requests
  <2>2. Looks(s) \/ Speaking(s)
    BY <1>6, HandlerEffect DEF Observe, StateType
  <2>3. failures' = failures \/ failures' = failures + 1
    BY <2>2 DEF Looks, Speaking
  <2>4. failures' = 0 => failures = 0
    BY <2>3 DEF StateType, AttemptType
  <2>5. Grows
    <3>1. CASE UNCHANGED topic
      BY <3>1, TopicStays DEF StateType
    <3>2. ASSUME NEW event, Speaking(s), Appends(request[s], event)
          PROVE  Grows
      BY <3>2, Appended DEF Speaking, AnnounceInv, StateType
    <3> QED
      BY <2>2, <3>1, <3>2 DEF Looks, Speaking
  <2> QED
    BY <2>1, <2>4, <2>5, NothingFinished
<1>7. CASE UNCHANGED service
  BY <1>1, <1>7 DEF service, consumer, PoolOnly
<1>8. Poll \/ Cancel => PoolOnly /\ UNCHANGED runs
  BY DEF Poll, Cancel, Idle, PoolOnly, C!Poll, C!FetchMessage, C!FetchCancelled, C!Enqueue,
     C!EnqueueCancelled, C!Rebalance, C!Cancel
<1>9. \A w \in Workers : Take(w) \/ Finish(w) => PoolOnly /\ UNCHANGED runs
  BY DEF Take, Finish, PoolOnly, C!Take, C!Commit, C!CommitLost, C!WorkerStops
<1> QED
  BY <1>1, <1>2, <1>3, <1>4, <1>5, <1>6, <1>7, <1>8, <1>9 DEF Next, Work

\* While the topic has refused nothing, a request behind the group's offset was
\* answered on it, or was never processed and is one of those a process that ends
\* takes with it.
THEOREM CommitsAreAnswered == Spec => []CommittedIsAnswered
<1>1. ASSUME PoolPlaced, OutcomeInv
      PROVE  CommittedIsAnswered
  <2> SUFFICES ASSUME failures = 0, NEW o \in C!Requests, o < committed,
                      o \notin C!AtRisk, o \notin C!Lost
               PROVE  HasOutcome(Carries[o])
    BY DEF CommittedIsAnswered
  <2>1. o \in Int /\ start \in Int
    BY <1>1 DEF C!Requests, C!Offsets, PoolPlaced, PoolType
  <2>2. o \in C!Handled
    BY <2>1 DEF C!AtRisk, C!Lost
  <2> QED
    BY <1>1, <2>2 DEF OutcomeInv
<1> QED
  BY <1>1, ServiceInit, PoolStep, AnnounceStep, OutcomeStep, PTL DEF Spec

-----------------------------------------------------------------------------
(***************************************************************************)
(* Progress is reported only of scans that were submitted.                 *)
(***************************************************************************)
Progress(event) == event \notin {P!AcceptedEvent, P!FailedEvent}

\* ProgressIsFounded in terms of what was published.
LEMMA FoundedByPublished ==
  ProgressIsFounded <=>
     \A u \in Scans : \A f : Published(u, f) /\ Progress(f) => Stored(u)
  BY DEF ProgressIsFounded, Published, Progress

\* An append puts nothing on the topic but its event.
LEMMA AppendedOnly ==
  ASSUME TopicType, NEW u \in Scans, NEW e, Appends(u, e),
         NEW v \in Scans, NEW f, Published(v, f)'
  PROVE  Published(v, f) \/ (v = u /\ f = e)
<1>1. CASE v # u
  BY <1>1, Appended DEF Published
<1>2. CASE v = u
  <2>1. PICK S : topic[u] \in Seq(S)
    BY DEF TopicType
  <2>2. topic'[u] = Append(topic[u], e)
    BY DEF TopicType, Appends
  <2>3. /\ Len(topic[u]) \in Nat
        /\ Len(topic'[u]) = Len(topic[u]) + 1
        /\ \A i \in 1 .. Len(topic[u]) : topic'[u][i] = topic[u][i]
        /\ topic'[u][Len(topic[u]) + 1] = e
    BY <2>1, <2>2, AppendFacts
  <2>4. PICK i \in 1 .. Len(topic'[u]) : topic'[u][i] = f
    BY <1>2 DEF Published
  <2>5. CASE i \in 1 .. Len(topic[u])
    BY <1>2, <2>3, <2>4, <2>5 DEF Published
  <2>6. CASE i = Len(topic[u]) + 1
    BY <1>2, <2>3, <2>4, <2>6
  <2> QED
    BY <2>3, <2>5, <2>6
<1> QED
  BY <1>1, <1>2

StoreType == applied = [a \in Attempts |-> applied[a]]

\* No step forgets that a scan was stored.
AppliedGrows == \A a \in Attempts : applied[a] => applied'[a]

\* What a step has to leave alone.
LEMMA FoundedKept ==
  ASSUME FoundedInv, AppliedGrows,
         \A u \in Scans : version'[u] > 0 => version[u] > 0 \/ Stored(u)',
         \A a \in Attempts : at'[a] = "submitted" => at[a] = "submitted" \/ applied'[a],
         \A s \in Sources : call'[s] # "idle" =>
            \/ call[s] # "idle" /\ request'[s] = request[s]
            \/ request'[s] \in Scans /\ Stored(request'[s]),
         \A u \in Scans : \A f : Published(u, f)' /\ Progress(f) =>
            Published(u, f) \/ Stored(u)
  PROVE  FoundedInv'
<1>1. ASSUME NEW u, Stored(u) PROVE Stored(u)'
  BY <1>1 DEF Stored, AppliedGrows
<1>2. \A s \in Sources : call'[s] # "idle" => request'[s] \in Scans /\ Stored(request'[s])
  BY DEF FoundedInv
<1>3. \A s \in Sources : call'[s] # "idle" => request'[s] \in Scans /\ Stored(request[s])'
  BY <1>2 DEF Stored, AppliedGrows
<1>4. \A u \in Scans : version'[u] > 0 => Stored(u)'
  BY <1>1 DEF FoundedInv
<1>5. \A a \in Attempts : at'[a] = "submitted" => applied'[a]
  BY DEF FoundedInv, AppliedGrows
<1>6. \A u \in Scans : \A f : Published(u, f)' /\ Progress(f) => Stored(u)
  BY FoundedByPublished DEF FoundedInv
<1>7. \A u \in Scans : \A f : Published(u, f)' /\ Progress(f) => Stored(u)'
  BY <1>1, <1>6
<1>8. ProgressIsFounded'
  BY <1>7 DEF ProgressIsFounded, Published, Progress
<1> QED
  BY <1>3, <1>4, <1>5, <1>8 DEF FoundedInv

\* A step of Execute stores the scan of its attempt, or neither stores one nor takes
\* one for submitted.
LEMMA ExecuteStores ==
  ASSUME AttemptType, NEW a \in Attempts, P!Execute(a)
  PROVE  \/ UNCHANGED <<version, applied>> /\ at'[a] # "submitted"
         \/ /\ applied' = [applied EXCEPT ![a] = TRUE]
            /\ \E n : version' = [version EXCEPT ![Carries[a[1]]] = n]
<1> DEFINE Goal == \/ UNCHANGED <<version, applied>> /\ at'[a] # "submitted"
                   \/ /\ applied' = [applied EXCEPT ![a] = TRUE]
                      /\ \E n : version' = [version EXCEPT ![Carries[a[1]]] = n]
<1>a. ASSUME NEW from, NEW label, P!Answer(a, from, label), label # "submitted"
      PROVE  Goal
  BY <1>a DEF P!Answer, P!Goto, P!cluster, AttemptType
<1>p. ASSUME NEW from, NEW e, NEW label, P!Publish(a, from, e, label), label # "submitted"
      PROVE  Goal
  BY <1>p DEF P!Publish, P!Goto, P!cluster, AttemptType
<1>w. ASSUME P!Write(a) PROVE Goal
  BY <1>w DEF P!Write, P!NewVersion
<1>1. CASE \/ P!Admit(a) \/ P!CheckPods(a) \/ P!Decrypt(a) \/ P!Verify(a) \/ P!Build(a)
  BY <1>1, <1>a DEF P!Admit, P!CheckPods, P!Decrypt, P!Verify, P!Build
<1>2. CASE P!PublishAccepted(a) \/ P!PublishRunning(a) \/ P!PublishFailure(a)
  BY <1>2, <1>p DEF P!PublishAccepted, P!PublishRunning, P!PublishFailure
<1>3. CASE P!Create(a) \/ P!Update(a)
  BY <1>3, <1>a, <1>w DEF P!Create, P!Update
<1>4. CASE P!GetExisting(a)
  <2>1. CASE P!Answer(a, "conflict", "failing")
    BY <2>1, <1>a
  <2>2. CASE P!Goto(a, "fetched") /\ UNCHANGED P!cluster
    BY <2>2 DEF P!Goto, P!cluster, AttemptType
  <2> QED
    BY <1>4, <2>1, <2>2 DEF P!GetExisting
<1> QED
  BY <1>1, <1>2, <1>3, <1>4 DEF P!Execute

\* A step of Execute.
LEMMA ExecuteFounded ==
  ASSUME StateType, StoreType, FoundedInv, NEW a \in Attempts, P!Execute(a),
         UNCHANGED handler
  PROVE  StoreType' /\ FoundedInv'
<1>u. Carries[a[1]] \in Scans
  BY CarriesAssumption DEF Attempts
<1>1. PICK label :
        /\ at' = [at EXCEPT ![a] = label]
        /\ Silently(a, label) \/ Saying(a, label) \/ Refused(a, label)
  BY ExecuteEffect
<1>2. \A b \in Attempts \ {a} : at'[b] = at[b]
  BY <1>1 DEF StateType, AttemptType
<1>3. \/ UNCHANGED <<version, applied>> /\ at'[a] # "submitted"
      \/ /\ applied' = [applied EXCEPT ![a] = TRUE]
         /\ \E n : version' = [version EXCEPT ![Carries[a[1]]] = n]
  BY ExecuteStores DEF StateType
<1>4. StoreType' /\ AppliedGrows
  BY <1>3 DEF StoreType, AppliedGrows
<1>5. \A u \in Scans : version'[u] > 0 => version[u] > 0 \/ Stored(u)'
  BY <1>3 DEF StateType, AttemptType, StoreType, Stored
<1>6. \A b \in Attempts : at'[b] = "submitted" => at[b] = "submitted" \/ applied'[b]
  BY <1>2, <1>3 DEF StoreType
<1>7. \A s \in Sources : call'[s] # "idle" => call[s] # "idle" /\ request'[s] = request[s]
  BY DEF handler
<1>8. ASSUME NEW u \in Scans, NEW f, Published(u, f)', Progress(f)
      PROVE  Published(u, f) \/ Stored(u)
  <2>1. CASE UNCHANGED topic
    BY <1>8, <2>1 DEF Published
  <2>2. ASSUME NEW event, NEW next, Speaks(a, event, next), Appends(Carries[a[1]], event)
        PROVE  Published(u, f) \/ Stored(u)
    <3>1. CASE u = Carries[a[1]] /\ f = event
      <4>1. at[a] = "submitted"
        BY <1>8, <2>2, <3>1 DEF Speaks, Progress
      <4> QED
        BY <3>1, <4>1 DEF FoundedInv, Stored
    <3> QED
      BY <1>u, <1>8, <2>2, <3>1, AppendedOnly DEF StateType
  <2> QED
    BY <1>1, <2>1, <2>2 DEF Silently, Saying, Refused
<1> QED
  BY <1>4, <1>5, <1>6, <1>7, <1>8, FoundedKept

\* A step of a goroutine of the handler, which has observed a scan that exists.
LEMMA ObserveFounded ==
  ASSUME StateType, StoreType, FoundedInv, NEW s \in Sources, Observe(s)
  PROVE  StoreType' /\ FoundedInv'
<1>1. /\ \A t \in Sources \ {s} : call'[t] = call[t] /\ request'[t] = request[t]
      /\ Looks(s) \/ Speaking(s)
  BY HandlerEffect DEF Observe, StateType
<1>2. /\ UNCHANGED <<at, version, applied>>
      /\ call[s] = "idle" => version[request'[s]] > 0
  BY DEF Observe, requests
<1>3. StoreType' /\ AppliedGrows
  BY <1>2 DEF StoreType, AppliedGrows
<1>4. ASSUME NEW t \in Sources, call'[t] # "idle"
      PROVE  \/ call[t] # "idle" /\ request'[t] = request[t]
             \/ request'[t] \in Scans /\ Stored(request'[t])
  <2>1. CASE t = s /\ call[s] = "idle" /\ request'[s] \in Scans
    BY <1>2, <2>1 DEF FoundedInv
  <2> QED
    BY <1>1, <1>4, <2>1 DEF Looks, Speaking
<1>5. ASSUME NEW u \in Scans, NEW f, Published(u, f)', Progress(f)
      PROVE  Published(u, f) \/ Stored(u)
  <2>1. CASE UNCHANGED topic
    BY <1>5, <2>1 DEF Published
  <2>2. ASSUME NEW event, call[s] # "idle", Appends(request[s], event)
        PROVE  Published(u, f) \/ Stored(u)
    <3>1. request[s] \in Scans /\ Stored(request[s])
      BY <2>2 DEF FoundedInv
    <3> QED
      BY <1>5, <2>2, <3>1, AppendedOnly DEF StateType
  <2> QED
    BY <1>1, <2>1, <2>2 DEF Looks, Speaking
<1> QED
  BY <1>2, <1>3, <1>4, <1>5, FoundedKept

\* No step breaks FoundedInv.
LEMMA FoundedStep ==
  PoolPlaced /\ StateType /\ StoreType /\ FoundedInv /\ [Next]_service
     => StoreType' /\ FoundedInv'
<1> SUFFICES ASSUME PoolPlaced, StateType, StoreType, FoundedInv, [Next]_service
             PROVE  StoreType' /\ FoundedInv'
  OBVIOUS
<1>a. ASSUME UNCHANGED applied PROVE StoreType' /\ AppliedGrows
  BY <1>a DEF StoreType, AppliedGrows
<1>t. ASSUME UNCHANGED topic, NEW u \in Scans, NEW f, Published(u, f)'
      PROVE  Published(u, f)
  BY <1>t DEF Published
<1>1. CASE PoolOnly
  <2>1. UNCHANGED <<applied, topic, at, version, call, request>>
    BY <1>1, PoolOnlyKeeps DEF PoolOnly, requests
  <2> QED
    BY <1>a, <1>t, <2>1, FoundedKept
<1>2. ASSUME NEW w \in Workers, Execute(w)
      PROVE  StoreType' /\ FoundedInv'
  <2>1. attempt[w] \in Attempts
    BY <1>2 DEF Execute, PoolPlaced, OnAttempt
  <2> QED
    BY <1>2, <2>1, ExecuteFounded DEF Execute
<1>3. ASSUME NEW w \in Workers, Interrupted(w)
      PROVE  StoreType' /\ FoundedInv'
  <2>1. UNCHANGED <<topic, applied, version, call, request>>
    BY <1>3 DEF Interrupted, handler, publisher
  <2>2. at' = [at EXCEPT ![attempt[w]] = "dead"]
    BY <1>3 DEF Interrupted
  <2>3. \A a \in Attempts : at'[a] = "submitted" => at[a] = "submitted"
    BY <2>2 DEF StateType, AttemptType
  <2> QED
    BY <1>a, <1>t, <2>1, <2>3, FoundedKept
<1>4. CASE Kubernetes \/ Restart
  <2>1. UNCHANGED applied
    BY <1>4 DEF Kubernetes, P!OperatorActs, P!Delete, Restart, P!Crash, P!cluster
  <2>2. \A a \in Attempts : at'[a] = "submitted" => at[a] = "submitted"
    BY <1>4, OutsideKeeps
  <2> QED
    BY <1>4, <1>a, <1>t, <2>1, <2>2, OutsideKeeps, FoundedKept
<1>5. ASSUME NEW s \in Sources, Observe(s)
      PROVE  StoreType' /\ FoundedInv'
  BY <1>5, ObserveFounded
<1>6. CASE UNCHANGED service
  BY <1>1, <1>6 DEF service, PoolOnly
<1>7. Poll \/ Cancel => PoolOnly
  BY DEF Poll, Cancel, Idle, PoolOnly
<1> QED
  BY <1>1, <1>2, <1>3, <1>4, <1>5, <1>6, <1>7, PoolOnlySteps DEF Next, Work

\* At first no scan is stored and none is reported on.
LEMMA FoundedInit == Init => StoreType /\ FoundedInv
<1> SUFFICES ASSUME Init PROVE StoreType /\ FoundedInv
  OBVIOUS
<1>1. /\ topic = [u \in Scans |-> <<>>]
      /\ at = [a \in Attempts |-> "delivered"]
      /\ version = [u \in Scans |-> 0]
      /\ applied = [a \in Attempts |-> FALSE]
      /\ call = [s \in Sources |-> "idle"]
  BY DEF Init, P!Init, H!Init
<1>2. \A u \in Scans : Len(topic[u]) = 0
  BY <1>1
<1> QED
  BY <1>1, <1>2 DEF StoreType, FoundedInv, ProgressIsFounded

\* For every pool, partition and set of sources, however often requests are
\* delivered again, resources are deleted and processes end: whoever reads that a
\* scan makes progress reads of a scan that Kubernetes stored for its request.
THEOREM ProgressFounded == Spec => []ProgressIsFounded
<1>1. Init => PoolPlaced /\ StateType /\ AnnounceInv /\ StoreType /\ FoundedInv
  BY ServiceInit, FoundedInit
<1>2. FoundedInv => ProgressIsFounded
  BY DEF FoundedInv
<1> QED
  BY <1>1, <1>2, PoolStep, AnnounceStep, FoundedStep, PTL DEF Spec

-----------------------------------------------------------------------------
(***************************************************************************)
(* The partition.                                                          *)
(***************************************************************************)

\* What is proved of the consumer alone.
Consumer == INSTANCE RequestConsumerProofs

\* Every step of the service is one of the consumer, or leaves it alone.
LEMMA ConsumerStep == [Next]_service => [C!Next]_C!vars
<1> SUFFICES ASSUME [Next]_service PROVE [C!Next]_C!vars
  OBVIOUS
<1>1. CASE Poll \/ Cancel
  BY <1>1 DEF Poll, Cancel, C!Next
<1>2. ASSUME NEW w \in Workers, Take(w) \/ Handled(w) \/ Interrupted(w) \/ Finish(w)
      PROVE  C!Next
  BY <1>2 DEF Take, Handled, Interrupted, Finish, C!Next, C!Work
<1>3. ASSUME UNCHANGED consumer PROVE UNCHANGED C!vars
  BY <1>3 DEF consumer, C!vars
<1>4. CASE Restart
  BY <1>4 DEF Restart, C!Next
<1>5. CASE \/ \E w \in Workers : Execute(w)
           \/ Kubernetes
           \/ \E s \in Sources : Observe(s)
           \/ UNCHANGED service
  BY <1>3, <1>5 DEF Execute, Kubernetes, Observe, service
<1> QED
  BY <1>1, <1>2, <1>4, <1>5 DEF Next, Work

\* What the service does to the partition is what the consumer alone does, although
\* its workers wait for the ports of Execute, give requests up and meet the handler.
THEOREM ServiceImplementsConsumer == Spec => C!Spec
<1>1. Init => C!Init
  BY DEF Init
<1> QED
  BY <1>1, ConsumerStep, PTL DEF Spec, C!Spec

\* The consumer's own specification, in the words of its theorems.
LEMMA SameStep == [C!Next]_C!vars => [Consumer!Next]_Consumer!vars
<1> SUFFICES ASSUME [C!Next]_C!vars PROVE [Consumer!Next]_Consumer!vars
  OBVIOUS
<1>c. \A S : C!Cardinality(S) = Consumer!Cardinality(S)
  BY DEF C!Cardinality, Consumer!Cardinality
<1>1. CASE C!Poll
  BY <1>c, <1>1
     DEF C!Poll, C!FetchMessage, C!FetchCancelled, C!Enqueue, C!EnqueueCancelled,
         C!stops, C!None, C!Capacity,
         Consumer!Poll, Consumer!FetchMessage, Consumer!FetchCancelled,
         Consumer!Enqueue, Consumer!EnqueueCancelled, Consumer!stops,
         Consumer!None, Consumer!Capacity, Consumer!Next
<1>2. ASSUME NEW w \in Workers, C!Work(w) PROVE Consumer!Work(w)
  BY <1>2
     DEF C!Work, C!Take, C!WorkerStops, C!HandleRequest, C!HandleInterrupted,
         C!Commit, C!CommitLost, C!ReadyToCommit, C!NextMessage, C!Malformed,
         C!stops, C!None,
         Consumer!Work, Consumer!Take, Consumer!WorkerStops, Consumer!HandleRequest,
         Consumer!HandleInterrupted, Consumer!Commit, Consumer!CommitLost,
         Consumer!ReadyToCommit, Consumer!NextMessage, Consumer!Malformed,
         Consumer!stops, Consumer!None
<1>3. CASE C!Rebalance \/ C!Cancel
  BY <1>3 DEF C!Rebalance, C!Cancel, Consumer!Rebalance, Consumer!Cancel, Consumer!Next
<1>4. CASE C!MainReturns \/ C!Crash
  BY <1>4 DEF C!MainReturns, C!Crash, C!Reboot, C!stops, C!None, Consumer!MainReturns,
     Consumer!Crash, Consumer!Reboot, Consumer!stops, Consumer!None, Consumer!Next
<1>5. CASE UNCHANGED C!vars
  BY <1>5 DEF C!vars, C!stops, Consumer!vars, Consumer!stops
<1> QED
  BY <1>1, <1>2, <1>3, <1>4, <1>5 DEF C!Next, Consumer!Next

LEMMA SameConsumer == C!Spec => Consumer!Spec
<1>1. C!Init => Consumer!Init
  BY DEF C!Init, Consumer!Init, C!None, Consumer!None, C!Offsets, Consumer!Offsets
<1> QED
  BY <1>1, SameStep, PTL DEF C!Spec, Consumer!Spec

\* What RequestConsumer assumes of its constants; the service assumes it too.
ConsumerAssumptions ==
    /\ Consumer!WorkersAssumption
    /\ Consumer!MessagesAssumption
    /\ Consumer!StopsAssumption

LEMMA ConsumerAssumed == ConsumerAssumptions
<1>1. Consumer!WorkersAssumption
  BY PartsAssumption DEF C!WorkersAssumption, Consumer!WorkersAssumption, C!IsFiniteSet,
     Consumer!IsFiniteSet
<1>2. Consumer!MessagesAssumption
  BY PartsAssumption DEF C!MessagesAssumption, Consumer!MessagesAssumption, C!Offsets,
     Consumer!Offsets, C!Malformed, Consumer!Malformed
<1>3. Consumer!StopsAssumption
  BY PartsAssumption DEF C!StopsAssumption, Consumer!StopsAssumption
<1> QED
  BY <1>1, <1>2, <1>3 DEF ConsumerAssumptions

\* So the bound on what a dying process loses holds of the service: however long the
\* ports keep the workers, and whatever the broker hands out again meanwhile, fewer
\* requests are at risk than the pool has workers, until it is told to stop.
THEOREM ServiceLossBounded == Spec => []C!LossWindow
<1> USE ConsumerAssumed
<1>c. \A S : C!Cardinality(S) = Consumer!Cardinality(S)
  BY DEF C!Cardinality, Consumer!Cardinality
<1>1. Consumer!LossWindow => C!LossWindow
  BY <1>c DEF C!LossWindow, C!AtRisk, C!Requests, C!Handled, C!Offsets,
     Consumer!LossWindow, Consumer!AtRisk, Consumer!Requests, Consumer!Handled,
     Consumer!Offsets
<1>2. Consumer!Spec => []Consumer!LossWindow
  BY Consumer!CrashLossBounded DEF ConsumerAssumptions
<1> QED
  BY <1>1, <1>2, SameConsumer, ServiceImplementsConsumer, PTL

\* And so does the bound on what all its crashes together have passed over.
THEOREM ServiceLossesBounded == Spec => []C!LossBudget
<1> USE ConsumerAssumed
<1>c. \A S : C!Cardinality(S) = Consumer!Cardinality(S)
  BY DEF C!Cardinality, Consumer!Cardinality
<1>1. Consumer!LossBudget => C!LossBudget
  BY <1>c DEF C!LossBudget, C!Lost, C!Requests, C!Handled, C!Offsets,
     Consumer!LossBudget, Consumer!Lost, Consumer!Requests, Consumer!Handled,
     Consumer!Offsets
<1>2. Consumer!Spec => []Consumer!LossBudget
  BY Consumer!CrashLossesBounded DEF ConsumerAssumptions
<1> QED
  BY <1>1, <1>2, SameConsumer, ServiceImplementsConsumer, PTL

-----------------------------------------------------------------------------
(***************************************************************************)
(* How often a message is given to a worker.                               *)
(***************************************************************************)
CountsType == deliveries \in [Offsets -> Nat]

\* The parts that Given adds up.
LEMMA GivenType ==
  ASSUME ConsumerAssumptions, Consumer!TypeOK, CountsType, NEW o \in Offsets
  PROVE  /\ Cardinality(C!QueuedAt(o)) \in Nat
         /\ C!OneIf(polled = o) \in {0, 1} /\ C!OneIf(o >= position) \in {0, 1}
         /\ deliveries[o] \in Nat
         /\ C!Ends \in Int /\ rebalances \in Nat
         /\ o \in Nat /\ C!None # o /\ position \in Int
         /\ cancels \in Nat /\ crashes \in Nat
<1>1. C!QueuedAt(o) = Consumer!QueuedAt(o) /\ Offsets = Consumer!Offsets
  BY DEF C!QueuedAt, Consumer!QueuedAt, Offsets, Consumer!Offsets
<1>2. Cardinality(C!QueuedAt(o)) = Consumer!Cardinality(Consumer!QueuedAt(o))
  BY <1>1 DEF Cardinality, Consumer!Cardinality
<1>3. Consumer!Cardinality(Consumer!QueuedAt(o)) \in Nat
  BY <1>1, Consumer!CopiesType DEF ConsumerAssumptions
<1>4. Messages \in Nat /\ cancels \in Nat /\ crashes \in Nat /\ rebalances \in Nat
  BY DEF ConsumerAssumptions, Consumer!MessagesAssumption, Consumer!StopsAssumption,
     Consumer!TypeOK
<1>5. o \in Nat /\ C!None = -1 /\ position \in Int
  BY <1>4 DEF Offsets, C!None, Consumer!TypeOK
<1> QED
  BY <1>2, <1>3, <1>4, <1>5 DEF CountsType, C!OneIf, C!Ends

\* What a message that is put on the channel, or taken off it, adds to those there.
LEMMA ChannelCounts ==
  ASSUME ConsumerAssumptions, Consumer!TypeOK, Consumer!TypeOK', NEW o \in Offsets
  PROVE  /\ Cardinality(C!QueuedAt(o)') \in Nat
         /\ polled \in Offsets /\ queue' = Append(queue, polled) =>
              Cardinality(C!QueuedAt(o)') <= Cardinality(C!QueuedAt(o)) + C!OneIf(polled = o)
         /\ queue # <<>> /\ queue' = Tail(queue) =>
              Cardinality(C!QueuedAt(o)') <=
                Cardinality(C!QueuedAt(o)) - C!OneIf(Head(queue) = o)
         /\ queue' = <<>> => Cardinality(C!QueuedAt(o)') = 0
<1>1. /\ C!QueuedAt(o) = Consumer!QueuedAt(o) /\ C!QueuedAt(o)' = Consumer!QueuedAt(o)'
      /\ Offsets = Consumer!Offsets
  BY DEF C!QueuedAt, Consumer!QueuedAt, Offsets, Consumer!Offsets
<1>2. \A S : Cardinality(S) = Consumer!Cardinality(S)
  BY DEF Cardinality, Consumer!Cardinality
<1>3. \A c : C!OneIf(c) = Consumer!OneIf(c)
  BY DEF C!OneIf, Consumer!OneIf
<1>4. Cardinality(C!QueuedAt(o)') \in Nat
  <2>1. C!QueuedAt(o)' \subseteq 1 .. Len(queue')
    BY DEF C!QueuedAt
  <2>2. queue' \in Seq(Consumer!Offsets)
    BY DEF Consumer!TypeOK
  <2>3. Len(queue') \in Nat
    BY <2>2
  <2>4. IsFiniteSet(1 .. Len(queue'))
    BY <2>3, FS_Interval
  <2> QED
    BY <2>1, <2>4, FS_Subset, FS_CardinalityType
<1>5. ASSUME polled \in Offsets, queue' = Append(queue, polled)
      PROVE  Cardinality(C!QueuedAt(o)') <= Cardinality(C!QueuedAt(o)) + C!OneIf(polled = o)
  BY <1>1, <1>2, <1>3, <1>5, Consumer!QueueAppended DEF ConsumerAssumptions
<1>6. ASSUME queue # <<>>, queue' = Tail(queue)
      PROVE  Cardinality(C!QueuedAt(o)') <=
               Cardinality(C!QueuedAt(o)) - C!OneIf(Head(queue) = o)
  BY <1>1, <1>2, <1>3, <1>6, Consumer!QueueTaken DEF ConsumerAssumptions
<1>7. ASSUME queue' = <<>> PROVE Cardinality(C!QueuedAt(o)') = 0
  <2>1. C!QueuedAt(o)' = {}
    BY <1>7 DEF C!QueuedAt
  <2> QED
    BY <2>1, FS_EmptySet
<1> QED
  BY <1>4, <1>5, <1>6, <1>7

\* No step gives a message out beyond what the ends and rebalances so far allow.
LEMMA GivenStep ==
  ASSUME ConsumerAssumptions, Consumer!TypeOK, Consumer!TypeOK', CountsType, GivenInv,
         [Next]_service
  PROVE  CountsType' /\ GivenInv'
<1>0. CountsType'
  <2>1. CASE UNCHANGED deliveries
    BY <2>1 DEF CountsType
  <2>2. ASSUME NEW w \in Workers, Take(w) PROVE CountsType'
    BY <2>2, CountType DEF Take, CountsType
  <2> QED
    BY <2>1, <2>2 DEF Next, Work, Poll, Execute, Handled, Interrupted, Finish, Kubernetes,
       Observe, Cancel, Restart, Idle, service
<1> SUFFICES ASSUME NEW o \in Offsets PROVE Given(o)' <= C!Ends' + rebalances' + 1
  BY <1>0 DEF GivenInv
<1>1. Given(o) <= C!Ends + rebalances + 1
  BY DEF GivenInv
<1>2. /\ Cardinality(C!QueuedAt(o)) \in Nat
      /\ C!OneIf(polled = o) \in {0, 1} /\ C!OneIf(o >= position) \in {0, 1}
      /\ deliveries[o] \in Nat
      /\ C!Ends \in Int /\ rebalances \in Nat
      /\ o \in Nat /\ C!None # o /\ position \in Int
      /\ cancels \in Nat /\ crashes \in Nat
  BY GivenType
<1>3. /\ Cardinality(C!QueuedAt(o)') \in Nat
      /\ C!OneIf(polled' = o) \in {0, 1} /\ C!OneIf(o >= position') \in {0, 1}
      /\ deliveries'[o] \in Nat
  BY <1>0, ChannelCounts DEF CountsType, C!OneIf
<1>k. ASSUME UNCHANGED queue PROVE Cardinality(C!QueuedAt(o)') = Cardinality(C!QueuedAt(o))
  BY <1>k DEF C!QueuedAt
<1> USE DEF Given
<1>4. CASE C!FetchMessage /\ UNCHANGED deliveries
  <2>1. UNCHANGED <<queue, rebalances>> /\ C!Ends' = C!Ends
    BY <1>4 DEF C!FetchMessage, C!Ends, C!stops
  <2>2. C!OneIf(polled' = o) + C!OneIf(o >= position')
          <= C!OneIf(polled = o) + C!OneIf(o >= position)
    BY <1>2, <1>4 DEF C!FetchMessage, C!OneIf
  <2> QED
    BY <1>1, <1>2, <1>3, <1>4, <1>k, <2>1, <2>2
<1>5. CASE (C!FetchCancelled \/ C!EnqueueCancelled) /\ UNCHANGED deliveries
  <2>1. UNCHANGED <<queue, position, rebalances>> /\ C!Ends' = C!Ends
    BY <1>5 DEF C!FetchCancelled, C!EnqueueCancelled, C!Ends, C!stops
  <2>2. C!OneIf(polled' = o) <= C!OneIf(polled = o)
    BY <1>2, <1>5 DEF C!FetchCancelled, C!EnqueueCancelled, C!OneIf
  <2> QED
    BY <1>1, <1>2, <1>3, <1>5, <1>k, <2>1, <2>2
<1>6. CASE C!Enqueue /\ UNCHANGED deliveries
  <2>1. UNCHANGED <<position, rebalances>> /\ C!Ends' = C!Ends
    BY <1>6 DEF C!Enqueue, C!Ends, C!stops
  <2>2. polled \in Offsets /\ queue' = Append(queue, polled)
    BY <1>6 DEF C!Enqueue, C!None, Consumer!TypeOK, Consumer!None, Offsets, Consumer!Offsets
  <2>3. Cardinality(C!QueuedAt(o)') <= Cardinality(C!QueuedAt(o)) + C!OneIf(polled = o)
    BY <2>2, ChannelCounts
  <2>4. C!OneIf(polled' = o) = 0
    BY <1>2, <1>6 DEF C!Enqueue, C!OneIf
  <2> QED
    BY <1>1, <1>2, <1>3, <1>6, <2>1, <2>3, <2>4
<1>7. CASE C!Rebalance /\ UNCHANGED deliveries
  <2>1. UNCHANGED <<queue, polled>> /\ C!Ends' = C!Ends /\ rebalances' = rebalances + 1
    BY <1>7 DEF C!Rebalance, C!Ends
  <2> QED
    BY <1>1, <1>2, <1>3, <1>7, <1>k, <2>1
<1>8. ASSUME NEW w \in Workers, Take(w)
      PROVE  Given(o)' <= C!Ends' + rebalances' + 1
  <2>1. /\ UNCHANGED <<polled, position, rebalances>> /\ C!Ends' = C!Ends
        /\ queue # <<>> /\ queue' = Tail(queue)
    BY <1>8 DEF Take, C!Take, C!Ends, C!stops
  <2>2. Cardinality(C!QueuedAt(o)') <= Cardinality(C!QueuedAt(o)) - C!OneIf(Head(queue) = o)
    BY <2>1, ChannelCounts
  <2>3. deliveries'[o] = deliveries[o] + C!OneIf(Head(queue) = o)
    <3>1. deliveries' = [deliveries EXCEPT ![Head(queue)] = @ + 1]
      BY <1>8 DEF Take
    <3>2. CASE Head(queue) = o
      BY <3>1, <3>2 DEF CountsType, C!OneIf
    <3>3. CASE Head(queue) # o
      BY <1>2, <3>1, <3>3 DEF CountsType, C!OneIf
    <3> QED
      BY <3>2, <3>3
  <2>4. C!OneIf(Head(queue) = o) \in {0, 1}
    BY DEF C!OneIf
  <2>5. /\ C!OneIf(polled' = o) = C!OneIf(polled = o)
        /\ C!OneIf(o >= position') = C!OneIf(o >= position)
    BY <2>1
  <2>6. deliveries'[o] + Cardinality(C!QueuedAt(o)')
          <= deliveries[o] + Cardinality(C!QueuedAt(o))
    BY <1>2, <1>3, <2>2, <2>3, <2>4
  <2> QED
    BY <1>1, <1>2, <1>3, <2>1, <2>5, <2>6
<1>9. CASE UNCHANGED <<queue, polled, position, cancelled, cancels, crashes, rebalances, deliveries>>
  <2>1. C!Ends' = C!Ends
    BY <1>9 DEF C!Ends
  <2> QED
    BY <1>1, <1>2, <1>3, <1>9, <1>k, <2>1
<1>10. CASE Cancel
  <2>1. UNCHANGED <<queue, polled, position, rebalances, deliveries>> /\ C!Ends' = C!Ends
    BY <1>2, <1>10 DEF Cancel, C!Cancel, C!Ends, Idle
  <2> QED
    BY <1>1, <1>2, <1>3, <1>k, <2>1
<1>11. CASE Restart
  <2>1. UNCHANGED <<deliveries, rebalances>> /\ C!Ends' = C!Ends + 1
    BY <1>2, <1>11 DEF Restart, C!MainReturns, C!Crash, C!Reboot, C!Ends, C!stops
  <2>2. queue' = <<>> /\ polled' = C!None
    BY <1>11 DEF Restart, C!MainReturns, C!Crash, C!Reboot
  <2>3. Cardinality(C!QueuedAt(o)') = 0 /\ C!OneIf(polled' = o) = 0
    BY <1>2, <2>2, ChannelCounts DEF C!OneIf
  <2> QED
    BY <1>1, <1>2, <1>3, <2>1, <2>3
<1>12. \/ \E w \in Workers : Execute(w) \/ Handled(w) \/ Interrupted(w) \/ Finish(w)
       \/ Kubernetes
       \/ \E s \in Sources : Observe(s)
       \/ UNCHANGED service
       => UNCHANGED <<queue, polled, position, cancelled, cancels, crashes, rebalances, deliveries>>
  BY DEF Execute, Handled, Interrupted, Finish, Kubernetes, Observe, service, consumer, Idle,
     C!HandleRequest, C!HandleInterrupted, C!Commit, C!CommitLost, C!WorkerStops, C!stops
<1>13. Poll => (C!Poll \/ C!Rebalance) /\ UNCHANGED deliveries
  BY DEF Poll, Idle
<1> QED
  BY <1>4, <1>5, <1>6, <1>7, <1>8, <1>9, <1>10, <1>11, <1>12, <1>13 DEF Next, Work, C!Poll

\* At first every message is still to be fetched.
LEMMA GivenInit ==
  ASSUME ConsumerAssumptions
  PROVE  Init => CountsType /\ GivenInv
<1> SUFFICES ASSUME Init PROVE CountsType /\ GivenInv
  OBVIOUS
<1>1. /\ queue = <<>> /\ polled = C!None /\ position = 0
      /\ cancels = 0 /\ crashes = 0 /\ rebalances = 0 /\ ~cancelled
      /\ deliveries = [o \in Offsets |-> 0]
  BY DEF Init, C!Init
<1>2. CountsType
  BY <1>1 DEF CountsType
<1>3. ASSUME NEW o \in Offsets PROVE Given(o) <= C!Ends + rebalances + 1
  <2>1. C!QueuedAt(o) = {}
    BY <1>1 DEF C!QueuedAt
  <2>2. Cardinality(C!QueuedAt(o)) = 0
    BY <2>1, FS_EmptySet
  <2>3. o \in Nat
    BY DEF ConsumerAssumptions, Consumer!MessagesAssumption, Offsets
  <2>4. polled # o /\ o >= position
    BY <1>1, <2>3 DEF C!None
  <2>5. C!OneIf(polled = o) = 0 /\ C!OneIf(o >= position) = 1
    BY <2>4 DEF C!OneIf
  <2>6. C!Ends = 0
    <3>1. (IF cancelled THEN 1 ELSE 0) = 0
      BY <1>1, Zenon
    <3>2. C!Ends = 0 + 0 - 0
      BY <1>1, <3>1, Zenon DEF C!Ends
    <3> QED
      BY <3>2
  <2> QED
    BY <1>1, <2>2, <2>5, <2>6 DEF Given
<1> QED
  BY <1>2, <1>3 DEF GivenInv

\* However the workers are held up, give requests up and commit, a message is given
\* to one of them once, and once more at most for each end of a process and each
\* rebalance: the scan of a request is never begun more often.  (So the bound
\* MaxDeliveries of the model keeps no worker from a message.)
THEOREM StartedOnce == Spec => []StartedOncePerDelivery
<1> USE ConsumerAssumed
<1>1. ASSUME Consumer!TypeOK, CountsType, GivenInv PROVE StartedOncePerDelivery
  <2> SUFFICES ASSUME NEW o \in Offsets PROVE deliveries[o] <= C!Ends + rebalances + 1
    BY DEF StartedOncePerDelivery
  <2>1. Given(o) <= C!Ends + rebalances + 1
    BY <1>1 DEF GivenInv
  <2> QED
    BY <1>1, <2>1, GivenType DEF Given
<1>2. Consumer!Spec => []Consumer!TypeOK
  BY Consumer!TypeCorrect DEF ConsumerAssumptions
<1>3. Spec => []Consumer!TypeOK
  BY <1>2, SameConsumer, ServiceImplementsConsumer, PTL
<1>4. Init => CountsType /\ GivenInv
  BY GivenInit
<1>5. Consumer!TypeOK /\ Consumer!TypeOK' /\ (CountsType /\ GivenInv) /\ [Next]_service
         => (CountsType /\ GivenInv)'
  BY GivenStep
<1> QED
  BY <1>1, <1>3, <1>4, <1>5, PTL DEF Spec

=============================================================================
