SPECIFICATION Spec
CONSTANTS
    Workers = {w1, w2}
    Messages = 3
    Payload <- MixedPayload
    MaxCancels = 1
    MaxCrashes = 0
    MaxRebalances = 0
PROPERTIES GracefulDrain
CHECK_DEADLOCK FALSE
