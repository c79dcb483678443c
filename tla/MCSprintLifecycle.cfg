SPECIFICATION Spec
CONSTANTS
    Tasks = {k1, k2}
    NoTask = NoTask
CONSTRAINT TwoGates
INVARIANTS TypeOK ShippedIsDelivered VerdictMatchesPhase BlockedHasWayOut StallIsMarked LastTaskDecides
