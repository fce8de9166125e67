SPECIFICATION Spec
CONSTANTS
    r1 = r1
    r2 = r2
    watcher = watcher
    findings = findings
    NoRequest = NoRequest
    Requests = {r1}
    Sources = {watcher, findings}
    Feeds <- SharedFeeds
    Observations <- FewObservations
    MaxSignals = 3
    MaxPublishFailures = 0
    MaxRestarts = 0
PROPERTIES LifecycleOrder
CHECK_DEADLOCK FALSE
