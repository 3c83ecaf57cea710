SPECIFICATION Spec
CONSTANTS
    QUEUELENGTH = 2
    HIGH_PRIORITY_QUEUE_ENTRY = 1
    Neighbor = {n1, n2}
    TaskCreator <- BothCreators
    Negotiated = {n2}
    TXRETRIES = 1
    DESYNCTIMEOUT = 2
    BootsAsDAGroot = FALSE
    Trouble <- NoTrouble
    MaxPendingTasks = 1
INVARIANTS
    TypeOK
    SlotsDoNotOverlap
    MacBuffers
    NoPacketStranded
    AttemptsLeft
    NoCriticalError
PROPERTIES
    ImplementsLink
    CellForEveryPacket
