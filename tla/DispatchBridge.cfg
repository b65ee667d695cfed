SPECIFICATION Spec
CONSTANTS
    Main = Main
    Worker = Worker
    Other = Other
    c1 = c1
    c2 = c2
    c3 = c3
    c4 = c4
    NoCall = NoCall
    Threads = {Main, Worker, Other}
    MainThread = Main
    Calls = {c1, c2, c3, c4}
    Caller <- TwoProducers
CHECK_DEADLOCK FALSE
INVARIANTS
    AnswerIsTrue
PROPERTIES
    ServedInTurn
