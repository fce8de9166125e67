SPECIFICATION Spec
CONSTANTS
    u1 = u1
    NoRequest = NoRequest
    Workers = {w1}
    Messages = 1
    Payload <- RequestThenBlank
    MaxCancels = 0
    MaxCrashes = 0
    MaxRebalances = 0
    Scans = {u1}
    PodChecks = "placeholder"
    MaxRevisions = 2
    MaxPublishFailures = 0
    MaxLostAnswers = 0
    Sources = {watcher}
    Observations <- ScanningSeen
    MaxSignals = 1
    Carries <- OneScan
PROPERTIES StreamLifecycle
CHECK_DEADLOCK FALSE
