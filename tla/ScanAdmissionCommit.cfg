SPECIFICATION Spec
CONSTANTS
    Messages <- AllMessages
INVARIANTS CommitScanByCommit
CHECK_DEADLOCK FALSE
