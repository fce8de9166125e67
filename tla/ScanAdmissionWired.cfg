SPECIFICATION Spec
CONSTANTS
    Messages <- AllMessages
INVARIANTS AcceptedTargetsVerify NoTokenBypassesDecryptor NamesSeparateScanners ScansWhatWasAsked
PROPERTIES DeliveryImplements
CHECK_DEADLOCK FALSE
