CONSTANTS
    Files <- MCThreeKB
    cbIoMin = 65536
    cbFragMin = 1048576
SPECIFICATION SafeSpec
INVARIANT NoBytesLeft
CHECK_DEADLOCK FALSE
