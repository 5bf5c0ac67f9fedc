SPECIFICATION FairSpec
CONSTANTS
    c1 = c1
    c2 = c2
    Calls = {c1, c2}
    None = None
    MaxFd = 6
    OpenMax = 7
    Blank = Blank
    Quote = Quote
    Backslash = Backslash
    Letter = Letter
    ExitCodes = {0, 259}
    StillActive = 259
    NoCode = 1000
    Sizes = {0, 24, 80, 40000}
    Programs <- DefPrograms
    ArgumentLists <- DefArgumentLists
INVARIANTS
    OnlyOwnersClose
    NothingIsLeft
    ChildHasItsTerminalOnly
    NothingIsOrphaned
    ReportsAreTrue
    ArgumentsArrive
PROPERTIES
    HangupReachesMaster
    SessionEnds
CHECK_DEADLOCK FALSE
