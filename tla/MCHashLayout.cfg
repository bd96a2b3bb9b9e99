CONSTANTS
    SectorSizes = {512, 520, 2048, 4096}
    HashSizes = {16, 20, 32, 48, 64, 65}
    BlockCounts = {1, 2, 31, 32, 33, 512, 1000, 1024, 1040, 4096}
    OneMB = 16384
    ULONGs = 524288
SPECIFICATION Spec
INVARIANTS
    GcdRight
    WritesMakeTheFile
PROPERTIES
    GcdReturns
CHECK_DEADLOCK FALSE
