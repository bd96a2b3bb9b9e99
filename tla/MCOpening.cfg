CONSTANTS
    Cases <- MCCases
    FirstSize = 8
    VolumeHeader = 4
    ObjectHeader = 6
    FileHeader = 4
    _64kb = 65536
    _1Mb = 8
    MAXLONG = 127
    UINTs = 256
    ULONGLONGs = 65536
SPECIFICATION Spec
INVARIANTS
    OutcomesClean
    PenaltyIsTheDisks
    NumbersExact
    BuffersAligned
PROPERTIES
    OnOkReturns
CHECK_DEADLOCK FALSE
