SPECIFICATION Spec
CONSTANTS
    a = a
    b = b
    Address = {a, b}
    MAXNUMNEIGHBORS = 2
    SWITCHSTABILITYTHRESHOLD = 1
    DEFAULTLINKCOST = 2
    MINIMAL_NUM_TX = 2
    MAX_NUM_TX = 4
    MINHOPRANKINCREASE = 1
    DAGMAXRANKINCREASE = 3
    MAXDAGRANK = 15
    Announced <- MCAnnounced
    Attempts <- MCAttempts
CHECK_DEADLOCK FALSE
INVARIANTS
    TypeOK
    ParentKept
    RankAboveParent
