------------------------ MODULE ScanLifecycleProofs ------------------------
(***************************************************************************)
(* What a reader can make of a stream the lifecycle allows, for any        *)
(* requests and events without end.                                        *)
(***************************************************************************)
EXTENDS ScanLifecycle, TLAPS

StreamType == stream \in [Requests -> Seq(Event)]

\* Every text has an integer rank (scan_stage.go:38-45).
LEMMA RankIsInteger == \A stage : Rank(stage) \in Int
<1> SUFFICES ASSUME NEW stage PROVE Rank(stage) \in Int
  OBVIOUS
<1>1. CASE IsValid(stage)
  <2> DEFINE position == CHOOSE j \in 1 .. 6 : OrderedStages[j] = stage
  <2>1. position \in 1 .. 6
    BY <1>1 DEF IsValid
  <2>2. Rank(stage) = position - 1
    BY <1>1 DEF Rank
  <2> HIDE DEF position
  <2> QED
    BY <2>1, <2>2
<1>2. CASE ~IsValid(stage)
  BY <1>2 DEF Rank
<1> QED
  BY <1>1, <1>2

\* Precedence carries over an event that is not the last of its stream.
LEMMA PrecedesIsTransitive ==
  ASSUME NEW a, NEW b, NEW c, Precedes(a, b), Precedes(b, c)
  PROVE  Precedes(a, c)
<1>1. /\ Rank(a.stage) \in Int /\ Rank(b.stage) \in Int /\ Rank(c.stage) \in Int
  BY RankIsInteger
<1> QED
  BY <1>1 DEF Precedes

\* An event that may follow a stream is preceded by the last one of the stream.
LEMMA FollowerIsPreceded ==
  ASSUME NEW past \in Seq(Event), past # <<>>, NEW event,
         WellFormed(event), MayFollow(past, event)
  PROVE  Len(past) \in 1 .. Len(past) /\ Precedes(past[Len(past)], event)
<1>1. Len(past) \in Nat /\ Len(past) > 0
  OBVIOUS
<1>2. Last(past) = past[Len(past)]
  BY DEF Last
<1>3. event.status = "failed" => event.terminal = TRUE
  BY DEF WellFormed, Event
<1>4. Rank(event.stage) \in Int /\ Rank(Last(past).stage) \in Int
  BY RankIsInteger
<1>5. ~Last(past).terminal
  BY DEF MayFollow
<1>6. event.terminal \/ Rank(Last(past).stage) < Rank(event.stage)
  BY <1>3, <1>4 DEF MayFollow
<1> QED
  BY <1>1, <1>2, <1>5, <1>6 DEF Precedes

\* Every announcement keeps the order recoverable.
LEMMA RecoverableStep ==
  StreamType /\ Recoverable /\ [Next]_stream => StreamType' /\ Recoverable'
<1> SUFFICES ASSUME StreamType, Recoverable, [Next]_stream
             PROVE  StreamType' /\ Recoverable'
  OBVIOUS
<1>1. ASSUME NEW r \in Requests, NEW event \in Event, Announce(r, event)
      PROVE  StreamType' /\ Recoverable'
  <2> DEFINE past == stream[r]
  <2>1. past \in Seq(Event) /\ Len(past) \in Nat
    BY DEF StreamType
  <2>2. /\ stream' = [stream EXCEPT ![r] = Append(past, event)]
        /\ Append(past, event) \in Seq(Event)
        /\ Len(Append(past, event)) = Len(past) + 1
        /\ \A i \in 1 .. Len(past) : Append(past, event)[i] = past[i]
        /\ Append(past, event)[Len(past) + 1] = event
    BY <1>1, <2>1 DEF Announce
  <2>3. StreamType'
    BY <2>2 DEF StreamType
  <2>4. \A j \in 1 .. Len(past) : \A i \in 1 .. j - 1 : Precedes(past[i], past[j])
    BY DEF Recoverable
  <2>5. \A i \in 1 .. Len(past) : Precedes(past[i], event)
    <3> SUFFICES ASSUME NEW i \in 1 .. Len(past) PROVE Precedes(past[i], event)
      OBVIOUS
    <3>1. past # <<>>
      BY <2>1
    <3>2. Len(past) \in 1 .. Len(past) /\ Precedes(past[Len(past)], event)
      BY <1>1, <2>1, <3>1, FollowerIsPreceded DEF Announce
    <3>3. CASE i = Len(past)
      BY <3>2, <3>3
    <3>4. CASE i # Len(past)
      <4>1. i \in 1 .. Len(past) - 1
        BY <2>1, <3>4
      <4>2. Precedes(past[i], past[Len(past)])
        BY <2>4, <3>2, <4>1
      <4> QED
        BY <3>2, <4>2, PrecedesIsTransitive
    <3> QED
      BY <3>3, <3>4
  <2>6. ASSUME NEW q \in Requests, NEW j \in 1 .. Len(stream'[q]), NEW i \in 1 .. j - 1
        PROVE  Precedes(stream'[q][i], stream'[q][j])
    <3>1. CASE q # r
      <4>1. stream'[q] = stream[q]
        BY <2>2, <3>1 DEF StreamType
      <4> QED
        BY <2>6, <4>1 DEF Recoverable
    <3>2. CASE q = r
      <4>1. stream'[q] = Append(past, event)
        BY <2>2, <3>2 DEF StreamType
      <4>2. j \in 1 .. Len(past) \/ j = Len(past) + 1
        BY <2>1, <2>2, <4>1
      <4>3. i \in 1 .. Len(past)
        BY <2>1, <4>2
      <4>4. stream'[q][i] = past[i]
        BY <2>2, <4>1, <4>3
      <4>5. CASE j \in 1 .. Len(past)
        BY <2>2, <2>4, <4>1, <4>4, <4>5
      <4>6. CASE j = Len(past) + 1
        BY <2>2, <2>5, <4>1, <4>3, <4>4, <4>6
      <4> QED
        BY <4>2, <4>5, <4>6
    <3> QED
      BY <3>1, <3>2
  <2> QED
    BY <2>3, <2>6 DEF Recoverable
<1>2. CASE UNCHANGED stream
  BY <1>2 DEF StreamType, Recoverable
<1> QED
  BY <1>1, <1>2 DEF Next

\* Whoever gets the events of one request in any order can tell from each two of
\* them which came first.
THEOREM LifecycleIsRecoverable == Spec => []Recoverable
<1>1. Init => StreamType /\ Recoverable
  BY DEF Init, StreamType, Recoverable
<1> QED
  BY <1>1, RecoverableStep, PTL DEF Spec

=============================================================================
