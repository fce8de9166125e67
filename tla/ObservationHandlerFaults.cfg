SPECIFICATION FairSpec
CONSTANTS
    r1 = r1
    r2 = r2
    watcher = watcher
    findings = findings
    NoRequest = NoRequest
    Requests = {r1, r2}
    Sources = {watcher, findings}
    Feeds <- MixedFeeds
    Observations <- AllObservations
    MaxSignals = 3
    MaxPublishFailures = 1
    MaxRestarts = 1
INVARIANTS TypeOK ClosedMeansAnnounced MapMatchesTopic
PROPERTIES OwnedLifecycleOrder ClosedStaysClosed EndSurfaces
CHECK_DEADLOCK FALSE
