SPECIFICATION FairSpec
CONSTANTS
    Turns = {t1, t2}
    Callers = {c1, c2}
    Events = {e1, e2}
    Answers = {a1, a2}
    Tabs = {b1}
    NoTurn = NoTurn
    NoEvent = NoEvent
    NoAnswer = NoAnswer
CONSTRAINT ThreeOfQuestionsAndAnswers
INVARIANTS TypeOK OneTurn WaiterIsReachable AcceptedIsHeard LeftQuestionIsReleased
PROPERTIES TurnsAreTaken SessionIsFreed
