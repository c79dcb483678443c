SPECIFICATION FairSpec
CONSTANTS
    MaxTasks = 2
    Requests = {r1, r2}
    MaxSteps = 4
CONSTRAINT OneJobInLargeFeatures
INVARIANTS TypeOK SoleTaskIsGuarded NothingLeaks
PROPERTIES JobsEnd
