SPECIFICATION FairSpec
CONSTANTS
    QUEUELENGTH = 2
    HIGH_PRIORITY_QUEUE_ENTRY = 1
    Neighbor = {n1}
    TaskCreator <- SixtopCreator
    Negotiated = {}
    TXRETRIES = 1
    DESYNCTIMEOUT = 2
    BootsAsDAGroot = TRUE
    Trouble <- NoTrouble
    MaxPendingTasks = 1
PROPERTIES
    SlotEnds
    PacketsComeBack
