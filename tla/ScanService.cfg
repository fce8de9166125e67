SPECIFICATION FairSpec
CONSTANTS
    u1 = u1
    NoRequest = NoRequest
    Workers = {w1, w2}
    Messages = 2
    Payload <- RequestThenBlank
    MaxCancels = 1
    MaxCrashes = 0
    MaxRebalances = 0
    Scans = {u1}
    PodChecks = "placeholder"
    MaxRevisions = 2
    MaxPublishFailures = 1
    MaxLostAnswers = 0
    Sources = {watcher}
    Observations <- ScanningSeen
    MaxSignals = 1
    Carries <- OneScan
INVARIANTS AnnouncedFirst CommittedIsAnswered ProgressIsFounded StartedOncePerDelivery
PROPERTIES EveryRequestAnswered
CHECK_DEADLOCK FALSE
