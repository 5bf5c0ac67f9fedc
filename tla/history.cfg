SPECIFICATION HSpec
CONSTANTS
    a = a
    W = W
    Narrow = {a}
    Wide = {W}
    Blank = Blank
    Marked = Marked
    None = None
    InitLines = 2
    InitColumns = 2
    Sizes <- MCSizes
    Counts = {1}
    StdColumns = 2
    WideColumns = 3
    AnyDeccolm = FALSE
    MaxStack = 0
    MaxSteps = 6
    InitCap = 2
    Caps = {0, 1}
INVARIANTS
    HistoryFits
PROPERTIES
    ScrollbackIsAppended
    ResizeKeepsWrittenLines
    ReflowIsFaithful
CHECK_DEADLOCK FALSE
