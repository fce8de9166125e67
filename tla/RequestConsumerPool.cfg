SPECIFICATION Spec
CONSTANTS
    Workers = {w1, w2, w3}
    Messages = 4
    Payload <- MixedPayload
    MaxCancels = 1
    MaxCrashes = 2
    MaxRebalances = 1
SYMMETRY Symmetry
INVARIANTS TypeOK LossWindow LossBudget NeverBelowStart OncePerDelivery
CHECK_DEADLOCK FALSE
