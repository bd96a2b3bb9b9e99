CONSTANTS
    UI = UI
    Workers = {w1, w2}
    Fragments = {f1, f2}
    NFragments = 2
    NReads = 2
    HashesInFragment = 2
    Begun <- MCBegun
    Ended <- MCEnded
    Pool = {p1}
    nHashesInBlock = 4
    Junk = Junk
SPECIFICATION Spec
INVARIANTS
    DoneMeansWholeFile
PROPERTIES
    ImplementsTask
    ImplementsHashFile
    EventuallyDone
CHECK_DEADLOCK FALSE
