----------------------------- MODULE ScanStage -----------------------------
(***************************************************************************)
(* The stages of a scan (internal/domain/valueobjects/scan_stage.go).  A   *)
(* stage is a string in Go, so code that receives one can also hold the    *)
(* empty string, the zero value, or a text that names no stage.            *)
(***************************************************************************)
EXTENDS Integers, Sequences

OrderedStages ==
    <<"initializing", "cloning", "scanning", "parsing", "hooking", "results">>

Stages == {"initializing", "cloning", "scanning", "parsing", "hooking", "results"}

NoStage == ""

\* One text stands for all the texts that name no stage.
UnknownStage == "unknown"

StageTexts == Stages \cup {NoStage, UnknownStage}

IsValid(stage) == \E i \in 1 .. 6 : OrderedStages[i] = stage

\* The 0-based position of the stage, -1 for a text that is no stage.
Rank(stage) ==
    IF IsValid(stage)
    THEN (CHOOSE i \in 1 .. 6 : OrderedStages[i] = stage) - 1
    ELSE -1

=============================================================================
