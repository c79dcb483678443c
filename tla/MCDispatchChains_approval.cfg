SPECIFICATION Spec
CONSTANTS
    MaxTasks = 2
    Requests = {r1, r2}
    MaxSteps = 4
INVARIANTS ApprovedIsTakenUp
