SPECIFICATION FairSpec
CONSTANTS
    MaxRetries = 2
    LockAttempts = 2
    MaxSteps = 4
    EmbeddedServer = FALSE
PROPERTIES
    ChainComesToRest
