SPECIFICATION Spec
CONSTANTS
    Tasks = {k1, k2}
    Sprints = {p1, p2}
    Main = Main
    NoSprint = NoSprint
    Rounds = {r1, r2}
    Chores = {x1}
CONSTRAINT ThreeChanges
SYMMETRY Symmetry
INVARIANTS TypeOK ClaimedIsInTarget ShippedIsInMain MainWaitsForShipment
PROPERTIES NothingIsLost LedgerIsKept
