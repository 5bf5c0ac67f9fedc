SPECIFICATION FairSpec
CONSTANTS
    h1 = h1
    h2 = h2
    h3 = h3
    c0 = c0
    TERM = TERM
    KILL = KILL
    NoStatus = NoStatus
    NoAnswer = NoAnswer
    Handles <- MCThree
    Main <- h1
    Codes = {c0}
    Signals = {TERM, KILL}
INVARIANTS
    NotRunningMeansReaped
    AnswersAgree
    StatusLostOnlyToDrop
    DroppedMeansReaped
PROPERTIES
    ImplementsPromise
    DeathIsNoticed
    CallsReturn
CHECK_DEADLOCK FALSE
