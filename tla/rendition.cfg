SPECIFICATION Spec
CONSTANTS
    PrivateModes <- DefPrivateModes
    SgrLists <- DefSgrLists
    OscReports <- DefOscReports
    KeyboardModes <- DefKeyboardModes
    SgrGroups <- DefSgrGroups
    Pens <- DefPens
    Paths <- DefPaths
    Hosts <- DefHosts
    MaxOscParams = 4
    MaxOscRaw = 17
    MaxSteps = 5
INVARIANTS
    LastWordWins
    DirectoryArrives
PROPERTIES
    EffectsFollowFlags
    AltKeepsPen
CHECK_DEADLOCK FALSE
