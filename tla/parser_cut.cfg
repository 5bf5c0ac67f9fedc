SPECIFICATION Spec
CONSTANTS
    Bytes = {"BS", "BEL", " ", "1", "9", "<", "?", "m", "P", "X", "[", "]", "C3", "E2", "CAN", "ESC", ":", ";", "DEL", "9C"}
    MaxParam = 15
    MaxParams = 2
    MaxIntermediates = 1
    MaxOscParams = 2
    MaxOscRaw = 2
    FreshPerChunk = TRUE
    MaxBytes = 6
INVARIANT
    SameWhereverCut
