SPECIFICATION Spec
CONSTANTS
    a = a
    W = W
    Narrow = {a}
    Wide = {W}
    Blank = Blank
    Marked = Marked
    None = None
    InitLines = 2
    InitColumns = 2
    Sizes <- MCSizes
    Counts = {0, 1, 2}
    StdColumns = 2
    WideColumns = 3
    AnyDeccolm = FALSE
    MaxStack = 1
    MaxSteps = 5
INVARIANTS
    WellFormed
PROPERTIES
    
    AltParksPrimary
CHECK_DEADLOCK FALSE
