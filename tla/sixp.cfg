SPECIFICATION FairSpec
CONSTANTS
    Slot <- MCSlot
    MAXBACKUPSLOTS = 1
    SEQNUM_MAX = 255
    MaxSeqnum = 2
    MaxSeqnumLate = 1
    MaxQueued = 2
    FaultSet <- MCFaultSet
CHECK_DEADLOCK FALSE
INVARIANTS
    TypeOK
    SchedulesAgree
    NoAbsentCellRemoved
PROPERTIES
    TransactionEnds
