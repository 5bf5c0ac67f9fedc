SPECIFICATION Spec
CONSTANTS
    r1 = r1
    r2 = r2
    Readers = {r1, r2}
    Size = 2
    Cap = 3
    MaxBytes = 4
    MaxOrphans = 1
INVARIANT ByteConserving
CHECK_DEADLOCK FALSE
