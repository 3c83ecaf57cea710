SPECIFICATION Spec
CONSTANTS
    Slot <- MCSlot
    MAXBACKUPSLOTS = 1
    SEQNUM_MAX = 255
    MaxSeqnum = 2
    MaxSeqnumLate = 1
    MaxQueued = 2
    FaultSet <- EarlyTimeout
CHECK_DEADLOCK FALSE
INVARIANTS
    LateResponseHarmless
