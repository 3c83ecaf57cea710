SPECIFICATION Spec
CONSTANTS
    rxTask = rxTask
    txTask = txTask
    udpTask = udpTask
    NULL = NULL
    Task <- MCTask
    Prio <- MCPrio
    TASK_LIST_DEPTH = 3
    Ports = {TRUE}
INVARIANTS
    NoTaskLost
