CONSTANTS
    Files <- MCFiles
    cbIoMin = 4
    cbFragMin = 8
SPECIFICATION SafeSpec
INVARIANTS
    DigestsExact
    PositionsAgree
    AlignedFileIsHashed
PROPERTIES
    HashedOnce
CHECK_DEADLOCK FALSE
