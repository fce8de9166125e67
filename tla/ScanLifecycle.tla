--------------------------- MODULE ScanLifecycle ---------------------------
(***************************************************************************)
(* What the system promises to a reader of its status topic: for each scan *)
(* request, a stream of events whose stages only move forward, that a      *)
(* failure may cut short at any point, and that stops at its first         *)
(* terminal event.                                                         *)
(***************************************************************************)
EXTENDS StatusEngine, SequencesExt

CONSTANT Requests

VARIABLE stream     \* stream[r]: the events of request r, in topic order

\* An event says "completed" only of the last stage, and only "completed" and
\* "failed" end a stream.
WellFormed(event) ==
    /\ event \in Event
    /\ event.terminal <=> event.status \in {"completed", "failed"}
    /\ event.status # "failed" =>
         (event.status = "completed" <=> event.stage = "results")

MayFollow(past, event) ==
    \/ past = <<>>
    \/ /\ ~Last(past).terminal
       /\ event.status = "failed" \/ Rank(event.stage) > Rank(Last(past).stage)

Init == stream = [r \in Requests |-> <<>>]

Announce(r, event) ==
    /\ WellFormed(event)
    /\ MayFollow(stream[r], event)
    /\ stream' = [stream EXCEPT ![r] = Append(@, event)]

Next == \E r \in Requests, event \in Event : Announce(r, event)

Spec == Init /\ [][Next]_stream

\* event comes before other, by what the two say.
Precedes(event, other) ==
    /\ ~event.terminal
    /\ other.terminal \/ Rank(event.stage) < Rank(other.stage)

\* The events of a request can be put in order by what they say.
Recoverable ==
    \A r \in Requests : \A j \in 1 .. Len(stream[r]) : \A i \in 1 .. j - 1 :
        Precedes(stream[r][i], stream[r][j])

=============================================================================
