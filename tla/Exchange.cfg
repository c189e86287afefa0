SPECIFICATION Spec
CONSTANTS
    Letters <- SomeLetters
    Digits <- SomeDigits
    Parties <- TheParties
    Party <- PartyOf
    Calls <- TheCalls
    Op <- OpOf
    Caller <- CallerOf
    Bodies <- BodiesOf
    Together <- OneAndTariffs
    MaxRetries = 1
    RetryNonIdempotent = FALSE
    GatewaySays = {}
INVARIANTS TypeOK AnswerIsVerdict DoneAsAsked CatalogueIsPriceable
CHECK_DEADLOCK FALSE
