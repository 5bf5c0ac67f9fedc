SPECIFICATION TermFairSpec
CONSTANTS
    Main = main
    Handles <- MCOne
    c0 = c0
    TERM = TERM
    KILL = KILL
    NoStatus = NoStatus
    NoAnswer = NoAnswer
    Codes = {c0}
    Signals = {TERM, KILL}
    Grace = 3
    Slice = 2
    Slack = 2
    KillWait = 2
    LastCall = 1
    MaxTime = 9
INVARIANTS
    NeverGivesUp
PROPERTIES
    KillOnlyAfterGrace
    TerminateReturns
CHECK_DEADLOCK FALSE
