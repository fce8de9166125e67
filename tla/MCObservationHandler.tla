------------------------ MODULE MCObservationHandler ------------------------
(***************************************************************************)
(* Small instances of ObservationHandler.                                  *)
(***************************************************************************)
EXTENDS ObservationHandler

CONSTANTS r1, r2, watcher, findings

\* The wiring of cmd/controller: both sources may report on every request.
SharedFeeds == [s \in Sources |-> Requests]

\* Both sources report on r1 and the watcher alone on r2.
MixedFeeds == [s \in Sources |-> IF s = watcher THEN {r1, r2} ELSE {r1}]

StageSeen(stage) == [type |-> "stage", stage |-> stage, error |-> NoError]
FailureSeen(error) == [type |-> "failure", stage |-> "hooking", error |-> error]
FindingsSeen == [type |-> "findings", stage |-> NoStage, error |-> NoError]

\* Every path through the evaluator and the engine: forward, repeated, backward,
\* unknown and final stages, failures with and without an error and a stage.
AllObservations ==
    {StageSeen(st) : st \in {"initializing", "scanning", "parsing", "results", UnknownStage}}
      \cup {FailureSeen(e) : e \in {"cloning", NoStage, NoError}}
      \cup {FindingsSeen}

\* One observation of each outcome, for the runs with more calls in flight.
FewObservations ==
    {StageSeen("cloning"), StageSeen("scanning"), FailureSeen(NoStage), FindingsSeen}
=============================================================================
