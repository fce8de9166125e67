---------------------- MODULE ProcessScanRequestProofs ----------------------
(***************************************************************************)
(* Theorems about ProcessScanRequest, for every set of deliveries and of   *)
(* requests, every assignment of requests to deliveries and every bound.   *)
(***************************************************************************)
EXTENDS ProcessScanRequest, FiniteSetTheorems, SequenceTheorems, TLAPS

-----------------------------------------------------------------------------
(***************************************************************************)
(* The events of Execute.                                                  *)
(***************************************************************************)

\* The three events have the fields an event has.
LEMMA EventTypes ==
  /\ AcceptedEvent \in Event
  /\ RunningEvent \in Event
  /\ FailedEvent \in Event
  BY DEF AcceptedEvent, RunningEvent, FailedEvent, Event, Stages

\* The three events differ from each other.
LEMMA EventsDiffer ==
  /\ AcceptedEvent # RunningEvent
  /\ AcceptedEvent # FailedEvent
  /\ RunningEvent # FailedEvent
<1>1. AcceptedEvent.status = "accepted" /\ RunningEvent.status = "running" /\ FailedEvent.status = "failed"
  BY DEF AcceptedEvent, RunningEvent, FailedEvent
<1> QED
  BY <1>1

\* What appending to the streams an attempt can have gives.
LEMMA Appends ==
  ASSUME NEW e \in Event, NEW f \in Event
  PROVE  /\ Append(<<>>, f) = <<f>>
         /\ Append(<<e>>, f) = <<e, f>>
         /\ <<e>> # <<>>
<1>1. Append(<<>>, f) = <<f>>
  OBVIOUS
<1>2. <<e>> \in Seq(Event) /\ Len(<<e>>) = 1 /\ <<e>>[1] = e
  OBVIOUS
<1>3. /\ Append(<<e>>, f) \in Seq(Event)
      /\ Len(Append(<<e>>, f)) = 2
      /\ Append(<<e>>, f)[1] = e
      /\ Append(<<e>>, f)[2] = f
  BY <1>2
<1>4. <<e, f>> \in Seq(Event) /\ Len(<<e, f>>) = 2 /\ <<e, f>>[1] = e /\ <<e, f>>[2] = f
  OBVIOUS
<1>5. Append(<<e>>, f) = <<e, f>>
  <2>1. \A i \in 1 .. 2 : Append(<<e>>, f)[i] = <<e, f>>[i]
    BY <1>3, <1>4
  <2> QED
    BY <1>3, <1>4, <2>1, SeqEqual
<1>6. <<e>> # <<>>
  BY <1>2
<1> QED
  BY <1>1, <1>5, <1>6

-----------------------------------------------------------------------------
(***************************************************************************)
(* Type correctness.                                                       *)
(***************************************************************************)

\* The initial state has the types.
LEMMA TypeInit == Init => TypeOK
  BY ScanAssumption, BoundsAssumption DEF Init, TypeOK, Labels

\* Appending an event to the two streams of an attempt keeps their types.
LEMMA SayType ==
  ASSUME TypeOK, NEW a \in Attempts, NEW e \in Event, Say(a, e)
  PROVE  said' \in [Attempts -> Seq(Event)] /\ topic' \in [Scans -> Seq(Event)]
<1>1. Scan[a] \in Scans
  BY ScanAssumption
<1>2. Append(said[a], e) \in Seq(Event) /\ Append(topic[Scan[a]], e) \in Seq(Event)
  BY <1>1 DEF TypeOK
<1> QED
  BY <1>1, <1>2 DEF Say, TypeOK

\* A call without effect outside the attempt keeps the types.
LEMMA AnswerType ==
  ASSUME TypeOK, NEW a \in Attempts, NEW from, NEW label \in Labels, Answer(a, from, label)
  PROVE  TypeOK'
  BY DEF Answer, Goto, TypeOK, cluster, events, counters

\* A publish keeps the types.
LEMMA PublishType ==
  ASSUME TypeOK, NEW a \in Attempts, NEW from, NEW e \in Event, NEW label \in Labels,
         Publish(a, from, e, label)
  PROVE  TypeOK'
<1>1. said' \in [Attempts -> Seq(Event)] /\ topic' \in [Scans -> Seq(Event)]
  BY SayType DEF Publish, events, TypeOK
<1>2. pc' \in [Attempts -> Labels]
  BY DEF Publish, Goto, TypeOK, Labels
<1>3. failures' \in 0 .. MaxPublishFailures
  BY BoundsAssumption DEF Publish, TypeOK
<1> QED
  BY <1>1, <1>2, <1>3 DEF Publish, TypeOK, cluster

\* A write of the API server keeps the types of its part of the state.
LEMMA VersionType ==
  ASSUME TypeOK, NEW u \in Scans, NewVersion(u)
  PROVE  revision' \in 0 .. MaxRevisions /\ version' \in [Scans -> Nat]
  BY BoundsAssumption DEF NewVersion, TypeOK

\* A create or an update that reaches the API server keeps the types.
LEMMA WriteType ==
  ASSUME TypeOK, NEW a \in Attempts, Write(a)
  PROVE  TypeOK'
<1>1. revision' \in 0 .. MaxRevisions /\ version' \in [Scans -> Nat]
  BY ScanAssumption, VersionType DEF Write
<1>2. lost' \in 0 .. MaxLostAnswers
  BY BoundsAssumption DEF Write, TypeOK
<1>3. pc' \in [Attempts -> Labels]
  BY DEF Write, Goto, TypeOK, Labels
<1> QED
  BY <1>1, <1>2, <1>3 DEF Write, TypeOK, events

\* Every step of an attempt keeps the types.
LEMMA ExecuteType ==
  ASSUME TypeOK, NEW a \in Attempts, Execute(a)
  PROVE  TypeOK'
<1>0. Scan[a] \in Scans
  BY ScanAssumption
<1>1. CASE Admit(a)
  BY <1>1, AnswerType DEF Admit, Labels
<1>2. CASE CheckPods(a)
  BY <1>2, AnswerType DEF CheckPods, Labels
<1>3. CASE PublishAccepted(a)
  BY <1>3, PublishType, EventTypes DEF PublishAccepted, Labels
<1>4. CASE Decrypt(a)
  BY <1>4, AnswerType DEF Decrypt, Labels
<1>5. CASE Verify(a)
  BY <1>5, AnswerType DEF Verify, Labels
<1>6. CASE Build(a)
  BY <1>6, AnswerType DEF Build, Labels
<1>7. CASE Create(a)
  BY <1>7, AnswerType, WriteType DEF Create, Labels
<1>8. CASE GetExisting(a)
  <2>1. CASE Answer(a, "conflict", "failing")
    BY <2>1, AnswerType DEF Labels
  <2>2. CASE /\ read' = [read EXCEPT ![a] = version[Scan[a]]]
             /\ Goto(a, "fetched")
             /\ UNCHANGED <<kind, cluster, events, counters>>
    BY <1>0, <2>2 DEF Goto, TypeOK, Labels, cluster, events, counters
  <2> QED
    BY <1>8, <2>1, <2>2 DEF GetExisting
<1>9. CASE Update(a)
  BY <1>9, AnswerType, WriteType DEF Update, Labels
<1>10. CASE PublishRunning(a)
  BY <1>10, PublishType, EventTypes DEF PublishRunning, Labels
<1>11. CASE PublishFailure(a)
  BY <1>11, PublishType, EventTypes DEF PublishFailure, Labels
<1> QED
  BY <1>1, <1>2, <1>3, <1>4, <1>5, <1>6, <1>7, <1>8, <1>9, <1>10, <1>11 DEF Execute

\* Every step keeps the types.
LEMMA TypeStep == TypeOK /\ [Next]_vars => TypeOK'
<1> SUFFICES ASSUME TypeOK, [Next]_vars PROVE TypeOK'
  OBVIOUS
<1>1. ASSUME NEW a \in Attempts, Execute(a)
      PROVE  TypeOK'
  BY <1>1, ExecuteType
<1>2. ASSUME NEW u \in Scans, OperatorActs(u)
      PROVE  TypeOK'
  BY <1>2, VersionType DEF OperatorActs, TypeOK, events, counters
<1>3. ASSUME NEW u \in Scans, Delete(u)
      PROVE  TypeOK'
  BY <1>3 DEF Delete, TypeOK, events, counters
<1>4. CASE Crash
  BY <1>4, BoundsAssumption DEF Crash, TypeOK, Labels, cluster, events
<1>5. CASE UNCHANGED vars
  BY <1>5 DEF vars, TypeOK, cluster, events, counters
<1> QED
  BY <1>1, <1>2, <1>3, <1>4, <1>5 DEF Next

\* The state of the request handler keeps its types.
THEOREM TypeCorrect == Spec => []TypeOK
  BY TypeInit, TypeStep, PTL DEF Spec

-----------------------------------------------------------------------------
(***************************************************************************)
(* The course of one delivery.                                             *)
(***************************************************************************)

\* A step of one delivery changes nothing the others have said or done.
LEMMA OthersStay ==
  ASSUME TypeOK, NEW a \in Attempts, Execute(a), NEW b \in Attempts, b # a
  PROVE  pc'[b] = pc[b] /\ said'[b] = said[b] /\ applied'[b] = applied[b]
<1>1. pc' \in [Attempts -> Labels] /\ \E label : pc' = [pc EXCEPT ![a] = label]
  BY ExecuteType DEF TypeOK, Execute, Admit, CheckPods, PublishAccepted, Decrypt, Verify, Build,
     Create, GetExisting, Update, PublishRunning, PublishFailure, Answer, Publish, Write, Goto
<1>2. said' = said \/ \E e : said' = [said EXCEPT ![a] = Append(@, e)]
  BY DEF Execute, Admit, CheckPods, PublishAccepted, Decrypt, Verify, Build,
     Create, GetExisting, Update, PublishRunning, PublishFailure, Answer, Publish, Write,
     events, Say
<1>3. applied' = applied \/ applied' = [applied EXCEPT ![a] = TRUE]
  BY DEF Execute, Admit, CheckPods, PublishAccepted, Decrypt, Verify, Build,
     Create, GetExisting, Update, PublishRunning, PublishFailure, Answer, Publish, Write,
     cluster
<1> QED
  BY <1>1, <1>2, <1>3 DEF TypeOK

\* A call without effect outside the attempt moves only its pc.
LEMMA AnswerEffect ==
  ASSUME TypeOK, NEW a \in Attempts, NEW from, NEW label, Answer(a, from, label)
  PROVE  pc[a] = from /\ pc'[a] = label /\ said'[a] = said[a] /\ applied'[a] = applied[a]
  BY DEF Answer, Goto, TypeOK, cluster, events

\* What a publish does to its attempt: the event is written and the attempt
\* goes on, or it ends there, with the event written or not.
LEMMA PublishEffect ==
  ASSUME TypeOK, NEW a \in Attempts, NEW from, NEW e, NEW label, Publish(a, from, e, label)
  PROVE  /\ pc[a] = from
         /\ applied'[a] = applied[a]
         /\ \/ pc'[a] = label /\ said'[a] = Append(said[a], e)
            \/ pc'[a] = "done" /\ said'[a] \in {said[a], Append(said[a], e)}
                /\ failures' = failures + 1
<1>1. pc[a] = from /\ applied'[a] = applied[a]
  BY DEF Publish, cluster
<1>2. CASE Say(a, e) /\ Goto(a, label)
  BY <1>1, <1>2 DEF Say, Goto, TypeOK
<1>3. CASE /\ failures < MaxPublishFailures
           /\ failures' = failures + 1
           /\ Say(a, e) \/ UNCHANGED events
           /\ Goto(a, "done")
  <2>1. pc'[a] = "done"
    BY <1>3 DEF Goto, TypeOK
  <2>3. failures' = failures + 1
    BY <1>3
  <2>2. said'[a] \in {said[a], Append(said[a], e)}
    BY <1>3 DEF Say, TypeOK, events
  <2> QED
    BY <1>1, <2>1, <2>2, <2>3
<1> QED
  BY <1>2, <1>3 DEF Publish

\* What a write to Kubernetes does to its attempt: the scan is stored and the
\* attempt goes on, or takes the lost answer for an error.
LEMMA WriteEffect ==
  ASSUME TypeOK, NEW a \in Attempts, Write(a)
  PROVE  /\ said'[a] = said[a]
         /\ applied'[a] = TRUE
         /\ \/ pc'[a] = "submitted"
            \/ pc'[a] = "failing" /\ lost' = lost + 1
<1>1. said'[a] = said[a] /\ applied'[a] = TRUE
  BY DEF Write, TypeOK, events
<1>2. CASE Goto(a, "submitted")
  BY <1>1, <1>2 DEF Goto, TypeOK
<1>3. CASE lost < MaxLostAnswers /\ lost' = lost + 1 /\ Goto(a, "failing")
  BY <1>1, <1>3 DEF Goto, TypeOK
<1> QED
  BY <1>2, <1>3 DEF Write

\* An error before the scan was stored leaves the delivery with a failure to
\* announce that is true.
LEMMA FailingCourse ==
  ASSUME NEW a \in Attempts, Course(a), pc[a] \in Silent \cup UnderWay,
         pc'[a] = "failing", said'[a] = said[a], applied'[a] = applied[a]
  PROVE  Course(a)' /\ Truthful(a)'
<1>1. said'[a] \in {<<>>, <<AcceptedEvent>>} /\ ~applied'[a]
  BY DEF Course
<1> QED
  BY <1>1 DEF Course, Truthful, Silent, UnderWay

\* The faults so far.
Faults == failures + lost

\* A step of a delivery keeps it on its course, and, when the port answers,
\* truthful.
LEMMA ExecuteCourse ==
  ASSUME TypeOK, NEW a \in Attempts, Execute(a), Course(a)
  PROVE  /\ Course(a)'
         /\ UNCHANGED <<failures, lost>> /\ Truthful(a) => Truthful(a)'
<1>t. failures + 1 # failures /\ lost + 1 # lost
  BY BoundsAssumption DEF TypeOK
<1> USE DEF Course, Truthful, Silent, UnderWay, Success
<1>e. /\ Append(<<>>, AcceptedEvent) = <<AcceptedEvent>>
      /\ Append(<<>>, FailedEvent) = <<FailedEvent>>
      /\ Append(<<AcceptedEvent>>, FailedEvent) = <<AcceptedEvent, FailedEvent>>
      /\ Append(<<AcceptedEvent>>, RunningEvent) = <<AcceptedEvent, RunningEvent>>
  BY EventTypes, Appends
<1>b. applied[a] \in BOOLEAN
  BY DEF TypeOK
<1>1. CASE Admit(a)
  <2>1. CASE Answer(a, "delivered", "resolved")
    BY <1>b, <2>1, AnswerEffect
  <2>2. CASE Answer(a, "delivered", "failing")
    BY <2>2, AnswerEffect, FailingCourse
  <2> QED
    BY <1>1, <2>1, <2>2 DEF Admit
<1>2. CASE CheckPods(a)
  <2>1. CASE Answer(a, "resolved", "checked")
    BY <1>b, <2>1, AnswerEffect
  <2>2. CASE Answer(a, "resolved", "duplicate")
    BY <1>b, <2>2, AnswerEffect
  <2> QED
    BY <1>2, <2>1, <2>2 DEF CheckPods
<1>3. CASE PublishAccepted(a)
  <2>1. Publish(a, "checked", AcceptedEvent, "accepted")
    BY <1>3 DEF PublishAccepted
  <2> QED
    BY <1>b, <1>e, <1>t, <2>1, PublishEffect
<1>4. CASE Decrypt(a)
  <2>1. CASE Answer(a, "accepted", "decrypted")
    BY <1>b, <2>1, AnswerEffect
  <2>2. CASE Answer(a, "accepted", "failing")
    BY <2>2, AnswerEffect, FailingCourse
  <2> QED
    BY <1>4, <2>1, <2>2 DEF Decrypt
<1>5. CASE Verify(a)
  <2>1. CASE Answer(a, "decrypted", "verified")
    BY <1>b, <2>1, AnswerEffect
  <2>2. CASE Answer(a, "decrypted", "failing")
    BY <2>2, AnswerEffect, FailingCourse
  <2> QED
    BY <1>5, <2>1, <2>2 DEF Verify
<1>6. CASE Build(a)
  <2>1. CASE Answer(a, "verified", "built")
    BY <1>b, <2>1, AnswerEffect
  <2>2. CASE Answer(a, "verified", "failing")
    BY <2>2, AnswerEffect, FailingCourse
  <2> QED
    BY <1>6, <2>1, <2>2 DEF Build
<1>7. CASE Create(a)
  <2>1. CASE pc[a] = "built" /\ Write(a)
    BY <1>t, <2>1, WriteEffect
  <2>2. CASE Answer(a, "built", "conflict")
    BY <1>b, <2>2, AnswerEffect
  <2>3. CASE Answer(a, "built", "failing")
    BY <2>3, AnswerEffect, FailingCourse
  <2> QED
    BY <1>7, <2>1, <2>2, <2>3 DEF Create
<1>8. CASE GetExisting(a)
  <2>1. CASE /\ pc[a] = "conflict"
             /\ Goto(a, "fetched")
             /\ UNCHANGED <<kind, cluster, events, counters>>
    <3>1. pc'[a] = "fetched" /\ said'[a] = said[a] /\ applied'[a] = applied[a]
      BY <2>1 DEF Goto, TypeOK, cluster, events
    <3> QED
      BY <1>b, <2>1, <3>1
  <2>2. CASE Answer(a, "conflict", "failing")
    BY <2>2, AnswerEffect, FailingCourse
  <2> QED
    BY <1>8, <2>1, <2>2 DEF GetExisting
<1>9. CASE Update(a)
  <2>1. CASE pc[a] = "fetched" /\ Write(a)
    BY <1>t, <2>1, WriteEffect
  <2>2. CASE Answer(a, "fetched", "failing")
    BY <2>2, AnswerEffect, FailingCourse
  <2> QED
    BY <1>9, <2>1, <2>2 DEF Update
<1>10. CASE PublishRunning(a)
  <2>1. Publish(a, "submitted", RunningEvent, "done")
    BY <1>10 DEF PublishRunning
  <2> QED
    BY <1>b, <1>e, <1>t, <2>1, PublishEffect
<1>11. CASE PublishFailure(a)
  <2>1. CASE Publish(a, "failing", FailedEvent, "done")
    <3>1. pc[a] = "failing" /\ said[a] \in {<<>>, <<AcceptedEvent>>}
      BY <2>1, PublishEffect
    <3>2. /\ pc'[a] = "done" /\ applied'[a] = applied[a]
          /\ \/ said'[a] = Append(said[a], FailedEvent)
             \/ said'[a] \in {said[a], Append(said[a], FailedEvent)} /\ failures' = failures + 1
      BY <2>1, PublishEffect
    <3>3. Append(said[a], FailedEvent) \in {<<FailedEvent>>, <<AcceptedEvent, FailedEvent>>}
      BY <1>e, <3>1
    <3>4. said'[a] \in {<<>>, <<AcceptedEvent>>, <<FailedEvent>>, <<AcceptedEvent, FailedEvent>>}
      BY <3>1, <3>2, <3>3
    <3>5. Course(a)'
      BY <3>2, <3>4
    <3>6. UNCHANGED <<failures, lost>> /\ Truthful(a) => Truthful(a)'
      BY <1>b, <1>t, <3>1, <3>2, <3>3
    <3> QED
      BY <3>5, <3>6
  <2>2. CASE Publish(a, "duplicate", FailedEvent, "done")
    BY <1>b, <1>e, <1>t, <2>2, PublishEffect
  <2> QED
    BY <1>11, <2>1, <2>2 DEF PublishFailure
<1> QED
  BY <1>1, <1>2, <1>3, <1>4, <1>5, <1>6, <1>7, <1>8, <1>9, <1>10, <1>11 DEF Execute

\* What the operator, a deletion and a crash leave alone, for every delivery.
LEMMA EnvironmentCourse ==
  ASSUME TypeOK, NEW b \in Attempts,
         \/ \E u \in Scans : OperatorActs(u) \/ Delete(u)
         \/ Crash
         \/ UNCHANGED vars
  PROVE  /\ said'[b] = said[b]
         /\ applied'[b] = applied[b]
         /\ pc'[b] = pc[b] \/ pc'[b] = "dead"
<1>1. CASE Crash
  BY <1>1 DEF Crash, TypeOK, cluster, events
<1>2. CASE \E u \in Scans : OperatorActs(u) \/ Delete(u)
  BY <1>2 DEF OperatorActs, Delete, events
<1>3. CASE UNCHANGED vars
  BY <1>3 DEF vars, cluster, events
<1> QED
  BY <1>1, <1>2, <1>3

\* A delivery that such a step ends in the middle stays on its course, and has not
\* told anything untrue.
LEMMA EndedCourse ==
  ASSUME TypeOK, NEW b \in Attempts, Course(b),
         said'[b] = said[b], applied'[b] = applied[b],
         pc'[b] = pc[b] \/ pc'[b] = "dead"
  PROVE  Course(b)' /\ (Truthful(b) => Truthful(b)')
<1>1. pc[b] \in Labels
  BY DEF TypeOK
<1>2. CASE pc'[b] = pc[b]
  BY <1>2 DEF Course, Truthful
<1>3. CASE pc'[b] = "dead"
  BY <1>1, <1>3 DEF Course, Truthful, Silent, UnderWay, Success, Labels
<1> QED
  BY <1>2, <1>3

\* A step that counts a fault counts one, and none is taken back.
LEMMA FaultsGrow ==
  ASSUME TypeOK, [Next]_vars
  PROVE  /\ Faults \in Nat
         /\ \/ Faults' = Faults + 1
            \/ Faults' = Faults /\ UNCHANGED <<failures, lost>>
<1>1. failures \in Nat /\ lost \in Nat
  BY BoundsAssumption DEF TypeOK
<1>2. \/ UNCHANGED <<failures, lost>>
      \/ failures' = failures + 1 /\ lost' = lost
      \/ failures' = failures /\ lost' = lost + 1
  <2>1. CASE \E a \in Attempts : Execute(a)
    BY <2>1 DEF Execute, Admit, CheckPods, PublishAccepted, Decrypt, Verify, Build, Create,
       GetExisting, Update, PublishRunning, PublishFailure, Answer, Publish, Write, counters
  <2>2. CASE \E u \in Scans : OperatorActs(u) \/ Delete(u)
    BY <2>2 DEF OperatorActs, Delete, counters
  <2>3. CASE Crash \/ UNCHANGED vars
    BY <2>3 DEF Crash, vars, counters
  <2> QED
    BY <2>1, <2>2, <2>3 DEF Next
<1> QED
  BY <1>1, <1>2 DEF Faults

\* Every step keeps every delivery on its course, and keeps those truthful that
\* have no fault of a port of their own in it.
LEMMA CourseStep ==
  ASSUME TypeOK, CourseInv, [Next]_vars
  PROVE  /\ CourseInv'
         /\ \E a : \A b \in Attempts :
               Truthful(b) /\ ~Truthful(b)' => b = a /\ ~UNCHANGED <<failures, lost>>
<1>1. ASSUME NEW a \in Attempts, Execute(a), NEW b \in Attempts
      PROVE  /\ Course(b)'
             /\ Truthful(b) /\ ~Truthful(b)' => b = a /\ ~UNCHANGED <<failures, lost>>
  <2>1. CASE b = a
    BY <1>1, <2>1, ExecuteCourse DEF CourseInv
  <2>2. CASE b # a
    <3>1. pc'[b] = pc[b] /\ said'[b] = said[b] /\ applied'[b] = applied[b]
      BY <1>1, <2>2, OthersStay
    <3> QED
      BY <3>1 DEF CourseInv, Course, Truthful
  <2> QED
    BY <2>1, <2>2
<1>2. ASSUME \/ \E u \in Scans : OperatorActs(u) \/ Delete(u)
             \/ Crash
             \/ UNCHANGED vars,
             NEW b \in Attempts
      PROVE  Course(b)' /\ (Truthful(b) => Truthful(b)')
  BY <1>2, EnvironmentCourse, EndedCourse DEF CourseInv
<1> QED
  BY <1>1, <1>2 DEF Next, CourseInv

\* Every step keeps the deliveries that are not truthful within what the faults
\* account for.
LEMMA AccountStep ==
  ASSUME TypeOK, CourseInv, AccountInv, [Next]_vars
  PROVE  AccountInv'
<1>1. PICK a : \A b \in Attempts :
         Truthful(b) /\ ~Truthful(b)' => b = a /\ ~UNCHANGED <<failures, lost>>
  BY CourseStep
<1>2. /\ IsFiniteSet(Untruthful) /\ Cardinality(Untruthful) \in Nat
      /\ Cardinality(Untruthful) <= Faults
  BY FS_CardinalityType DEF AccountInv, Faults
<1>3. /\ Faults \in Nat
      /\ \/ Faults' = Faults + 1
         \/ Faults' = Faults /\ UNCHANGED <<failures, lost>>
  BY FaultsGrow
<1>4. CASE UNCHANGED <<failures, lost>>
  <2>1. Untruthful' \subseteq Untruthful
    BY <1>1, <1>4 DEF Untruthful
  <2>2. IsFiniteSet(Untruthful') /\ Cardinality(Untruthful') <= Cardinality(Untruthful)
    BY <1>2, <2>1, FS_Subset
  <2>3. Cardinality(Untruthful') \in Nat
    BY <2>2, FS_CardinalityType
  <2> QED
    BY <1>2, <1>4, <2>2, <2>3, <1>3 DEF AccountInv, Faults
<1>5. CASE Faults' = Faults + 1
  <2>1. Untruthful' \subseteq Untruthful \cup {a}
    BY <1>1 DEF Untruthful
  <2>2. /\ IsFiniteSet(Untruthful \cup {a})
        /\ Cardinality(Untruthful \cup {a}) <= Cardinality(Untruthful) + 1
        /\ Cardinality(Untruthful \cup {a}) \in Nat
    BY <1>2, FS_AddElement, FS_CardinalityType
  <2>3. /\ IsFiniteSet(Untruthful')
        /\ Cardinality(Untruthful') <= Cardinality(Untruthful \cup {a})
    BY <2>1, <2>2, FS_Subset
  <2>4. Cardinality(Untruthful') \in Nat
    BY <2>3, FS_CardinalityType
  <2>5. Cardinality(Untruthful') <= Faults'
    BY <1>2, <1>3, <1>5, <2>2, <2>3, <2>4
  <2> QED
    BY <2>3, <2>5 DEF AccountInv, Faults
<1> QED
  BY <1>3, <1>4, <1>5

\* Before anything is said, every delivery is on its course and truthful.
LEMMA CourseInit == Init => CourseInv /\ AccountInv
<1> SUFFICES ASSUME Init PROVE CourseInv /\ AccountInv
  OBVIOUS
<1>1. CourseInv
  BY DEF Init, CourseInv, Course, Silent, UnderWay, Success
<1>2. Untruthful = {}
  BY DEF Init, Untruthful, Truthful
<1>3. IsFiniteSet(Untruthful) /\ Cardinality(Untruthful) = 0
  BY <1>2, FS_EmptySet
<1> QED
  BY <1>1, <1>3 DEF Init, AccountInv

\* Every delivery stays on its course.
LEMMA CourseInvariant == Spec => [](TypeOK /\ CourseInv)
<1>1. Init => TypeOK /\ CourseInv
  BY TypeInit, CourseInit
<1>2. (TypeOK /\ CourseInv) /\ [Next]_vars => (TypeOK /\ CourseInv)'
  BY TypeStep, CourseStep
<1> QED
  BY <1>1, <1>2, PTL DEF Spec

\* On its course a delivery says "running" only of a scan that is stored.
LEMMA CourseIsFounded == TypeOK /\ CourseInv => RunningIsFounded
<1> SUFFICES ASSUME TypeOK, CourseInv, NEW a \in Attempts, SaidRunning(a)
             PROVE  applied[a] /\ said[a] = <<AcceptedEvent, RunningEvent>>
  BY DEF RunningIsFounded
<1>1. pc[a] \in Labels /\ Course(a)
  BY DEF TypeOK, CourseInv
<1>2. PICK i \in 1 .. Len(said[a]) : said[a][i] = RunningEvent
  BY DEF SaidRunning
<1>3. said[a] # <<>> /\ said[a] # <<AcceptedEvent>> /\ said[a] # <<FailedEvent>>
  BY <1>2, EventsDiffer
<1>4. said[a] # <<AcceptedEvent, FailedEvent>>
  BY <1>2, EventsDiffer
<1>5. pc[a] \notin Silent /\ pc[a] \notin UnderWay /\ pc[a] \notin {"submitted", "failing"}
  BY <1>1, <1>3 DEF Course
<1>6. pc[a] \in {"done", "dead"}
  BY <1>1, <1>5 DEF Labels, Silent, UnderWay
<1> QED
  BY <1>1, <1>3, <1>4, <1>6 DEF Course, Success

\* An event that says a scan was submitted is on the topic only for a delivery
\* whose scan Kubernetes stored, and only behind the accepted event, whatever
\* fails and whoever else writes the same resource.
THEOREM RunningEventsFounded == Spec => []RunningIsFounded
  BY CourseIsFounded, CourseInvariant, PTL

\* A delivery that is truthful and has ended has told what became of its scan.
LEMMA TruthfulTells ==
  ASSUME NEW a \in Attempts, Truthful(a), pc[a] = "done"
  PROVE  Told(a)
<1>1. CASE applied[a]
  BY <1>1 DEF Truthful, Told, Success
<1>2. CASE ~applied[a]
  <2>1. said[a] \in {<<FailedEvent>>, <<AcceptedEvent, FailedEvent>>}
    BY <1>2 DEF Truthful
  <2>2. said[a] # <<>> /\ said[a][Len(said[a])] = FailedEvent
    BY <2>1
  <2> QED
    BY <1>2, <2>2 DEF Told
<1> QED
  BY <1>1, <1>2

\* So the deliveries that are untold are among those the faults account for.
LEMMA AccountCovers ==
  TypeOK /\ AccountInv => IsFiniteSet(Untold) /\ FaultsAccountForUntold
<1> SUFFICES ASSUME TypeOK, AccountInv
             PROVE  IsFiniteSet(Untold) /\ FaultsAccountForUntold
  OBVIOUS
<1>1. Untold \subseteq Untruthful
  BY TruthfulTells DEF Untold, Untruthful
<1>2. IsFiniteSet(Untold) /\ Cardinality(Untold) <= Cardinality(Untruthful)
  BY <1>1, FS_Subset DEF AccountInv
<1>3. Cardinality(Untold) \in Nat /\ Cardinality(Untruthful) \in Nat
  BY <1>2, FS_CardinalityType DEF AccountInv
<1>4. failures \in Nat /\ lost \in Nat
  BY BoundsAssumption DEF TypeOK
<1> QED
  BY <1>2, <1>3, <1>4 DEF AccountInv, FaultsAccountForUntold

\* For every number of deliveries and requests: each refused publish and each lost
\* answer of the API server leaves at most one delivery behind that did not tell
\* what became of its scan, whoever else writes the same resource meanwhile and
\* whenever the process dies.
THEOREM FaultsAccount == Spec => [](IsFiniteSet(Untold) /\ FaultsAccountForUntold)
<1>1. Init => TypeOK /\ CourseInv /\ AccountInv
  BY TypeInit, CourseInit
<1>2. (TypeOK /\ CourseInv /\ AccountInv) /\ [Next]_vars => (TypeOK /\ CourseInv /\ AccountInv)'
  BY TypeStep, CourseStep, AccountStep
<1> QED
  BY <1>1, <1>2, AccountCovers, PTL DEF Spec

-----------------------------------------------------------------------------
(***************************************************************************)
(* A delivery implements the lifecycle.                                    *)
(***************************************************************************)

\* The abstract specification talks about the same events.
LEMMA SameEvents == Attempt!Event = Event
  BY DEF Attempt!Event, Event, Attempt!Stages, Stages

\* The first two stages have the first two ranks.
LEMMA FirstRanks == Attempt!Rank("initializing") = 0 /\ Attempt!Rank("cloning") = 1
<1>1. \A i \in 1 .. 6 : /\ Attempt!OrderedStages[i] = "initializing" <=> i = 1
                        /\ Attempt!OrderedStages[i] = "cloning" <=> i = 2
  BY DEF Attempt!OrderedStages
<1>2. (CHOOSE i \in 1 .. 6 : Attempt!OrderedStages[i] = "initializing") = 1
  BY <1>1
<1>3. (CHOOSE i \in 1 .. 6 : Attempt!OrderedStages[i] = "cloning") = 2
  BY <1>1
<1>4. Attempt!IsValid("initializing") /\ Attempt!IsValid("cloning")
  BY <1>1 DEF Attempt!IsValid
<1> QED
  BY <1>2, <1>3, <1>4 DEF Attempt!Rank

\* The events of Execute are events of the lifecycle.
LEMMA EventsWellFormed ==
  /\ Attempt!WellFormed(AcceptedEvent)
  /\ Attempt!WellFormed(RunningEvent)
  /\ Attempt!WellFormed(FailedEvent)
<1>1. Attempt!WellFormed(AcceptedEvent)
  BY EventTypes, SameEvents DEF AcceptedEvent, Attempt!WellFormed
<1>2. Attempt!WellFormed(RunningEvent)
  BY EventTypes, SameEvents DEF RunningEvent, Attempt!WellFormed
<1>3. Attempt!WellFormed(FailedEvent)
  BY EventTypes, SameEvents DEF FailedEvent, Attempt!WellFormed
<1> QED
  BY <1>1, <1>2, <1>3

\* The accepted event may be followed by the running one or by a failure.
LEMMA MayFollowAccepted ==
  /\ Attempt!MayFollow(<<AcceptedEvent>>, RunningEvent)
  /\ Attempt!MayFollow(<<AcceptedEvent>>, FailedEvent)
<1>1. Attempt!Last(<<AcceptedEvent>>) = AcceptedEvent
  BY DEF Attempt!Last
<1>2. AcceptedEvent.terminal = FALSE /\ AcceptedEvent.stage = "initializing"
  BY DEF AcceptedEvent
<1>3. RunningEvent.stage = "cloning" /\ FailedEvent.status = "failed"
  BY DEF RunningEvent, FailedEvent
<1> QED
  BY <1>1, <1>2, <1>3, FirstRanks DEF Attempt!MayFollow

\* What a delivery says is one of the events that may come next.
LEMMA SayingsFollow ==
  ASSUME TypeOK, CourseInv, NEW a \in Attempts, Execute(a), said' # said
  PROVE  \E e \in {AcceptedEvent, RunningEvent, FailedEvent} :
            said' = [said EXCEPT ![a] = Append(@, e)] /\ Attempt!MayFollow(said[a], e)
<1>0. Course(a) /\ \A e : Attempt!MayFollow(<<>>, e)
  BY DEF CourseInv, Attempt!MayFollow
<1>1. PICK from, e, label : Publish(a, from, e, label) /\
         \/ from = "checked" /\ e = AcceptedEvent
         \/ from = "submitted" /\ e = RunningEvent
         \/ from \in {"failing", "duplicate"} /\ e = FailedEvent
  BY DEF Execute, Admit, CheckPods, PublishAccepted, Decrypt, Verify, Build, Create,
     GetExisting, Update, PublishRunning, PublishFailure, Answer, Write, events
<1>2. pc[a] = from /\ said' = [said EXCEPT ![a] = Append(@, e)]
  BY <1>1 DEF Publish, Say, events
<1>3. said[a] \in {<<>>, <<AcceptedEvent>>}
  BY <1>0, <1>1, <1>2 DEF Course, Silent
<1>4. e # AcceptedEvent \/ said[a] = <<>>
  BY <1>0, <1>1, <1>2, EventsDiffer DEF Course, Silent
<1> QED
  BY <1>0, <1>1, <1>2, <1>3, <1>4, MayFollowAccepted

\* Every step is one of the lifecycle of a delivery, or says nothing.
LEMMA LifecycleStep == TypeOK /\ CourseInv /\ [Next]_vars => [Attempt!Next]_said
<1> SUFFICES ASSUME TypeOK, CourseInv, Next, said' # said PROVE Attempt!Next
  BY DEF vars, events
<1>1. PICK a \in Attempts : Execute(a)
  BY DEF Next, OperatorActs, Delete, Crash, events
<1>2. PICK e \in {AcceptedEvent, RunningEvent, FailedEvent} :
         said' = [said EXCEPT ![a] = Append(@, e)] /\ Attempt!MayFollow(said[a], e)
  BY <1>1, SayingsFollow
<1>3. e \in Attempt!Event /\ Attempt!WellFormed(e)
  BY EventTypes, SameEvents, EventsWellFormed
<1>4. Attempt!Announce(a, e)
  BY <1>2, <1>3 DEF Attempt!Announce
<1> QED
  BY <1>3, <1>4 DEF Attempt!Next

\* Each delivery implements the lifecycle: its events are well formed and in
\* order, and nothing follows a failure, whichever ports fail, whenever the
\* process dies and whatever the other deliveries of the request do.
THEOREM DeliveriesImplementLifecycle == Spec => AttemptLifecycle
<1>1. Init => Attempt!Init
  BY DEF Init, Attempt!Init
<1> QED
  BY <1>1, LifecycleStep, CourseInvariant, PTL DEF Spec, AttemptLifecycle, Attempt!Spec

=============================================================================
