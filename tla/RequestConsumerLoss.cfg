SPECIFICATION Spec
CONSTANTS
    Workers = {w1, w2}
    Messages = 3
    Payload <- MixedPayload
    MaxCancels = 0
    MaxCrashes = 1
    MaxRebalances = 0
INVARIANTS AtLeastOnce
CHECK_DEADLOCK FALSE
