SPECIFICATION Spec
CONSTANTS
    MAX_NUM_TIMERS = 3
    MAX_TICKS = 31
    SPLITE = 2
    WINDOW = 3
    THRESHOLD = 13
    ADVANCE = 2
    Turns = 1
    ClearsPending = TRUE
    Latency = 1
    SlotDelay <- MCSlotDelay
    Horizon = 7
    Duration <- MCDuration
VIEW SeenFromNow
CHECK_DEADLOCK FALSE
INVARIANTS
    TypeOK
    EveryTimerInTime
    
