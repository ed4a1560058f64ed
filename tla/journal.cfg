SPECIFICATION Spec
CONSTANTS
    kBlockSize = 6
    kHeaderSize = 3
    Sizes = {0, 1, 7}
    MaxRecords = 3
    MaxZeros = 4
INVARIANT TypeOK
PROPERTIES KeepsPromise ReadingEnds
CHECK_DEADLOCK FALSE
