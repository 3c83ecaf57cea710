SPECIFICATION Spec
CONSTANTS
    QUEUELENGTH = 2
    HIGH_PRIORITY_QUEUE_ENTRY = 1
    Neighbor = {n1}
    TaskCreator <- RPLCreator
    Negotiated = {n1}
    TXRETRIES = 1
    DESYNCTIMEOUT = 2
    BootsAsDAGroot = FALSE
    Trouble <- MCTrouble
    MaxPendingTasks = 1
CONSTRAINT NegotiatesWhereCellsGo
INVARIANTS
    SlotsDoNotOverlap
    MacBuffers
    NoPacketStranded
PROPERTIES
    ImplementsLink
    CellForEveryPacket
