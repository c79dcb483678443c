SPECIFICATION Spec
CONSTANTS
    Turns = {t1, t2}
    Callers = {c1}
    Events = {e1}
    Answers = {a1}
    Tabs = {b1}
    NoTurn = NoTurn
    NoEvent = NoEvent
    NoAnswer = NoAnswer
INVARIANTS RefusalIsNoDeadEnd
