SPECIFICATION FairSpec
CONSTANTS
    rxTask = rxTask
    txTask = txTask
    udpTask = udpTask
    NULL = NULL
    Task <- MCTask
    Prio <- MCPrio
    TASK_LIST_DEPTH = 4
    Ports = {FALSE, TRUE}
INVARIANTS
    TypeOK
    RunsOnlyPushedTasks
    MostUrgentFirst
PROPERTIES
    HeadIsStarted
    ImplementsTaskPool
