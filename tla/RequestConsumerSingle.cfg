SPECIFICATION FairSpec
CONSTANTS
    Workers = {w1}
    Messages = 6
    Payload <- MixedPayload
    MaxCancels = 1
    MaxCrashes = 1
    MaxRebalances = 1
INVARIANTS LostOnlyToStops
PROPERTIES CommitNeverRewinds HandledOrLost
CHECK_DEADLOCK FALSE
