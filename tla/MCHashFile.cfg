CONSTANTS
    Clients = {c1, c2, c3}
    Pool = {p1, p2}
    NBlocks = 5
    nHashesInBlock = 2
    Junk = Junk
SPECIFICATION SafeSpec
INVARIANTS
    RefCountExact
    NoUseAfterFree
    BlockHoldsPart
    CountersExact
PROPERTIES
    WrittenBufferStable
    ImplementsHashStore
SYMMETRY Symmetry
CHECK_DEADLOCK FALSE
