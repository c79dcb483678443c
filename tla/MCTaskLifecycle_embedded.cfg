SPECIFICATION Spec
CONSTANTS
    MaxRetries = 2
    LockAttempts = 1
    MaxSteps = 100
    EmbeddedServer = TRUE
INVARIANTS
    TypeOK RetriesBounded PhaseTracksStatus GateMatchesReview
    NoUnexpectedDeadEnd BoardOffersOnlyRecoverable HandoffIsCurrent
    ChainIsBounded DoneIsVerified PrIsGated
PROPERTIES ProtocolIsKept
