CONSTANTS
    UI = UI
    Workers = {w1, w2}
    Fragments = {f1, f2}
    nIO = 2
    NFragments = 3
    NReads = 2
SPECIFICATION Spec
INVARIANTS
    TypeOK
    CountsExact
    TaskOutlivesUsers
    SingleStrand
    HandedOutOnce
    ProgressExact
    DoneMeansHashed
PROPERTIES
    EventuallyDone
    RundownCancels
CHECK_DEADLOCK FALSE
