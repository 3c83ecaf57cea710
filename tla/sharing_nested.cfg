SPECIFICATION Spec
CONSTANTS
    QUEUELENGTH = 3
    HIGH_PRIORITY_QUEUE_ENTRY = 2
    Neighbor = {}
    TaskCreator <- MCTaskCreator
    RestoresState = FALSE
    Fragmentation = FALSE
INVARIANTS
    BuffersExclusive
