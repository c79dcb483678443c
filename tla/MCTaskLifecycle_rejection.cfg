SPECIFICATION Spec
CONSTANTS
    MaxRetries = 1
    LockAttempts = 1
    MaxSteps = 100
    EmbeddedServer = TRUE
PROPERTIES
    RejectionStands
