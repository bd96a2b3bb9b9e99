CONSTANTS
    UI = UI
    Workers = {w1, w2}
    Fragments = {f1, f2, f3}
    nIO = 3
    NFragments = 2
    NReads = 2
SPECIFICATION SafeSpec
INVARIANT NoBytesLeft
CHECK_DEADLOCK FALSE
