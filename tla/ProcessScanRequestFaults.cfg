SPECIFICATION FairSpec
CONSTANTS
    u1 = u1
    Attempts = {a1, a2}
    Scans = {u1}
    Scan <- SameScan
    PodChecks = "pods"
    MaxRevisions = 5
    MaxPublishFailures = 1
    MaxLostAnswers = 1
    MaxCrashes = 1
INVARIANTS TypeOK RunningIsFounded FaultsAccountForUntold
PROPERTIES AttemptLifecycle AttemptsEnd
CHECK_DEADLOCK FALSE
