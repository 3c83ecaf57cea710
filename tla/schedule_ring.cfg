SPECIFICATION FairSpec
CONSTANTS
    n1 = n1
    n2 = n2
    Neighbor = {n1, n2}
    Hash <- MCHash
    MyHash = 1
    SLOTFRAME_LENGTH = 4
    MAXACTIVESLOTS = 3
    MAXBACKUPSLOTS = 2
    BootsAsDAGroot = FALSE
    MaxTransactions = 1
INVARIANTS
    TypeOK
    RingOfSlots
    HighestPriorityInSchedule
    KeepsListening
PROPERTIES
    StaysInStep
    EverySlotServed
