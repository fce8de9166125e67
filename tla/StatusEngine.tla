---------------------------- MODULE StatusEngine ----------------------------
(***************************************************************************)
(* The decision layer between observations and published events            *)
(* (internal/status).  The engine and the evaluator keep no state: they    *)
(* take the lifecycle state known for a request and one observation, and   *)
(* answer whether an event is published, which one, and the next state.    *)
(***************************************************************************)
EXTENDS ScanStage

\* What the stream of a request can carry.  The payload on the wire has no
\* terminal field: a consumer tells the end of a stream by the status alone.
Event ==
    [stage : Stages, status : {"accepted", "running", "completed", "failed"},
     terminal : BOOLEAN]

StatusState == [current : Stages \cup {NoStage}, terminal : BOOLEAN]

\* The zero value the Go map returns for a request it has no entry for.
ZeroState == [current |-> NoStage, terminal |-> FALSE]

\* signal.Error: nil, or an error that carries a stage text of its own.
NoError == "nil"

SignalTypes == {"stage", "failure", "findings"}

Observation ==
    [type : SignalTypes, stage : StageTexts, error : StageTexts \cup {NoError}]

-----------------------------------------------------------------------------
Decision(publish, event, state) ==
    [publish |-> publish, event |-> event, state |-> state]

\* The StatusDecision{Publish: false, State: state} of every early return.
Suppressed(state) ==
    Decision(FALSE,
             [stage |-> "initializing", status |-> "running", terminal |-> FALSE],
             state)

\* Advance without the rejection of a stage that repeats the current one.
IsForwardOrSame(state, stage) ==
    /\ ~state.terminal
    /\ IsValid(stage)
    /\ state.current = NoStage \/ Rank(stage) >= Rank(state.current)

\* Advance without the check of the terminal flag.
IsForwardEvenClosed(state, stage) ==
    /\ IsValid(stage)
    /\ state.current = NoStage \/ Rank(stage) > Rank(state.current)

\* The three early returns of Advance.
IsForward(state, stage) ==
    /\ ~state.terminal
    /\ IsValid(stage)
    /\ state.current = NoStage \/ Rank(stage) > Rank(state.current)

Advance(state, candidate) ==
    IF IsForward(state, candidate.stage)
    THEN Decision(TRUE, candidate,
                  [current |-> candidate.stage, terminal |-> candidate.terminal])
    ELSE Suppressed(state)

\* FailureStage without the last resort.
FailureStageNoDefault(state, errorStage) ==
    IF IsValid(errorStage) THEN errorStage ELSE state.current

\* The stage of a failure: the error's own, else the current one, else the first.
FailureStage(state, errorStage) ==
    IF IsValid(errorStage) THEN errorStage
    ELSE IF IsValid(state.current) THEN state.current
    ELSE "initializing"

\* Fail that closes the request but does not mark the event as the last one.
FailUnmarked(state, errorStage) ==
    IF state.terminal
    THEN Suppressed(state)
    ELSE LET stage == FailureStage(state, errorStage) IN
         Decision(TRUE, [stage |-> stage, status |-> "failed", terminal |-> FALSE],
                  [current |-> stage, terminal |-> TRUE])

Fail(state, errorStage) ==
    IF state.terminal
    THEN Suppressed(state)
    ELSE LET stage == FailureStage(state, errorStage) IN
         Decision(TRUE, [stage |-> stage, status |-> "failed", terminal |-> TRUE],
                  [current |-> stage, terminal |-> TRUE])

-----------------------------------------------------------------------------
\* A failure without an error value is handled like a stage observation.
IsFailure(signal) == signal.type = "failure" /\ signal.error # NoError

ObservedStage(signal) ==
    IF signal.type = "findings" THEN "results" ELSE signal.stage

\* The candidate handed to Advance; its status is rewritten to "completed"
\* when the decision is terminal.
Candidate(signal) ==
    LET stage == ObservedStage(signal) IN
    [stage    |-> stage,
     status   |-> IF stage = "results" THEN "completed" ELSE "running",
     terminal |-> stage = "results"]

\* Evaluate that drops a failure whose error names no stage.
EvaluateDropsUnplaced(state, signal) ==
    IF IsFailure(signal)
    THEN IF IsValid(signal.error) THEN Fail(state, signal.error)
                                  ELSE Suppressed(state)
    ELSE Advance(state, Candidate(signal))

Evaluate(state, signal) ==
    IF IsFailure(signal)
    THEN Fail(state, signal.error)
    ELSE Advance(state, Candidate(signal))

=============================================================================
