SPECIFICATION FairSpec
CONSTANTS
    r1 = r1
    r2 = r2
    Readers = {r1, r2}
    Size = 3
    Cap = 3
    MaxBytes = 5
    MaxOrphans = 1
INVARIANTS
    BytesConserved
    SingleReaderInOrder
    RawIsATail
    EofIsTheEnd
PROPERTY EverythingArrives
CHECK_DEADLOCK FALSE
