SPECIFICATION Spec
CONSTANTS
    MaxRetries = 1
    LockAttempts = 2
    MaxSteps = 100
    EmbeddedServer = FALSE
PROPERTIES
    LockedCommitIsRetried
