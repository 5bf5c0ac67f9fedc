SPECIFICATION Spec
CONSTANTS
    MaxEvents = 3
    MaxClock = 6
INVARIANTS
    BellReportedOnce
    OnlyOldestDropped
    AltEventsTell
