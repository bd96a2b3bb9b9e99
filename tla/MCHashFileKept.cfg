CONSTANTS
    Clients = {c1, c2}
    Pool = {p1, p2}
    NBlocks = 3
    nHashesInBlock = 2
    Junk = Junk
SPECIFICATION SafeSpec
INVARIANT KeptMeansAllHashes
CHECK_DEADLOCK FALSE
