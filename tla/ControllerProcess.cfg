SPECIFICATION FairProcessSpec
CONSTANTS
  w1 = w1
  s1 = s1
  Workers = {w1}
  Scans = {s1}
  Messages = 1
  Payload <- MCPayload
  MaxCancels = 1
  MaxCrashes = 1
  MaxRebalances = 0
  Half = 3
  Minute = 1
  Day = 2
  CompletedDefault = 1
  FailedDefault = 1
  CheckDefault = 1
  PoolDefault = 1
  Environments <- MCEnvironments
INVARIANTS ProcessTypeOK
PROPERTIES ImplementsConsumer KeptAsLongAsAsked EndsWhenTold CleanupGoesOn UsableHandlesAll
