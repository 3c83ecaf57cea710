-------------------------- MODULE OpenQueueSharing --------------------------
(***************************************************************************)
(* The packet buffers shared by the tasks, which run one after the other,    *)
(* and the MAC, whose handlers are interrupt handlers.  A task that asks     *)
(* for a buffer or relays a packet is followed statement by statement; its   *)
(* critical sections nest, because openqueue_getFreePacketBuffer calls       *)
(* openqueue_isHighPriorityEntryEnough, which enables interrupts on its way  *)
(* out.  A handler of the MAC is one step, taken when interrupts are enabled.*)
(***************************************************************************)
EXTENDS OpenQueue

CONSTANTS
    TaskCreator,     \* the components whose tasks ask for buffers
    RestoresState,   \* TRUE: ENABLE_INTERRUPTS restores what DISABLE_INTERRUPTS
                     \* saved; FALSE: it enables interrupts (Cortex ports)
    Fragmentation    \* the build has OPENWSN_6LO_FRAGMENTATION_C

ASSUME TaskCreatorAssumption ==
    TaskCreator \subseteq {c \in Component : c > COMPONENT_IEEE802154E_TO_SIXTOP}
ASSUME PortAssumption == RestoresState \in BOOLEAN
ASSUME BuildAssumption == Fragmentation \in BOOLEAN

VARIABLES
    queue,       \* openqueue_vars.queue
    isSync,      \* ieee154e_vars.isSync
    pc,          \* the statement of the running task
    asked,       \* the creator the task asks a buffer for
    i,           \* the entry the walk of the task is at
    masked,      \* interrupts are disabled
    tasks,       \* the buffers the tasks hold a pointer to
    mac          \* the buffers the MAC holds a pointer to

vars == <<queue, isSync, pc, asked, i, masked, tasks, mac>>

TypeOK ==
    /\ queue \in Queue
    /\ isSync \in BOOLEAN
    /\ pc \in {"idle", "check", "scan", "claim", "own", "relay"}
    /\ asked \in TaskCreator \cup {COMPONENT_NULL}
    /\ i \in Buffer
    /\ masked \in BOOLEAN
    /\ tasks \subseteq Buffer
    /\ mac \subseteq Buffer

Init ==
    /\ queue = openqueue_init
    /\ isSync = FALSE
    /\ pc = "idle"
    /\ asked = COMPONENT_NULL
    /\ i = 1
    /\ masked = FALSE
    /\ tasks = {}
    /\ mac = {}

-----------------------------------------------------------------------------
(* Plausible slips: each replaces the definition it is named after in one   *)
(* run, and must break the property that run checks.                        *)

Scan_PastTheEnd ==
    /\ pc = "scan"
    /\ \/ /\ queue[i].owner = COMPONENT_NULL
          /\ pc' = "claim"
          /\ UNCHANGED i
       \/ /\ queue[i].owner # COMPONENT_NULL
          /\ i' = i + 1
          /\ UNCHANGED pc
    /\ UNCHANGED <<queue, isSync, asked, masked, tasks, mac>>

RelayCheck_KeepsPacket ==
    /\ pc = "relay"
    /\ pc' = "idle"
    /\ UNCHANGED <<queue, isSync, asked, i, masked, tasks, mac>>

Enter_TestsSyncUnmasked(creator) ==
    /\ pc = "idle"
    /\ asked' = creator
    /\ pc' = IF isSync THEN "check" ELSE "idle"
    /\ UNCHANGED <<queue, isSync, i, masked, tasks, mac>>

-----------------------------------------------------------------------------
(* openqueue_getFreePacketBuffer, called by a task *)

\* DISABLE_INTERRUPTS, then the test of the synchronization.
Enter(creator) ==
    /\ pc = "idle"
    /\ asked' = creator
    /\ pc' = IF isSync THEN "check" ELSE "idle"
    /\ masked' = isSync
    /\ UNCHANGED <<queue, isSync, i, tasks, mac>>

\* The nested call ends with ENABLE_INTERRUPTS.
Check ==
    /\ pc = "check"
    /\ i' = 1
    /\ \/ /\ openqueue_isHighPriorityEntryEnough(queue) \/ asked <= COMPONENT_SIXTOP_RES
          /\ pc' = "scan"
          /\ masked' = (masked /\ RestoresState)
       \/ /\ ~openqueue_isHighPriorityEntryEnough(queue)
          /\ asked > COMPONENT_SIXTOP_RES
          /\ pc' = "idle"
          /\ masked' = FALSE
    /\ UNCHANGED <<queue, isSync, asked, tasks, mac>>

Found == queue[i].owner = COMPONENT_NULL

Scan ==
    /\ pc = "scan"
    /\ \/ /\ Found
          /\ pc' = "claim"
          /\ UNCHANGED <<i, masked>>
       \/ /\ ~Found /\ i < QUEUELENGTH
          /\ i' = i + 1
          /\ UNCHANGED <<pc, masked>>
       \/ /\ ~Found /\ i = QUEUELENGTH
          /\ pc' = "idle"
          /\ masked' = FALSE
          /\ UNCHANGED i
    /\ UNCHANGED <<queue, isSync, asked, tasks, mac>>

ClaimCreator ==
    /\ pc = "claim"
    /\ queue' = SetCreator(queue, i, asked)
    /\ pc' = "own"
    /\ UNCHANGED <<isSync, asked, i, masked, tasks, mac>>

ClaimOwner ==
    /\ pc = "own"
    /\ queue' = SetOwner(queue, i, COMPONENT_OPENQUEUE)
    /\ tasks' = tasks \cup {i}
    /\ pc' = "idle"
    /\ masked' = FALSE
    /\ UNCHANGED <<isSync, asked, i, mac>>

GetFree == Check \/ Scan \/ ClaimCreator \/ ClaimOwner

-----------------------------------------------------------------------------
(* The other calls of the tasks *)

TaskFrees(b) ==
    /\ pc = "idle" /\ b \in tasks
    /\ queue' = openqueue_freePacketBuffer(queue, b)
    /\ tasks' = tasks \ {b}
    /\ UNCHANGED <<isSync, pc, asked, i, masked, mac>>

\* sixtop_send_internal gives the packet to the MAC.
TaskSends(b) ==
    /\ pc = "idle" /\ b \in tasks
    /\ queue' = SetOwner(queue, b, COMPONENT_SIXTOP_TO_IEEE802154E)
    /\ tasks' = tasks \ {b}
    /\ UNCHANGED <<isSync, pc, asked, i, masked, mac>>

\* task_sixtopNotifSendDone and task_sixtopNotifReceive take the packet back.
TaskNotified(b) ==
    /\ pc = "idle"
    /\ b \in {openqueue_sixtopGetSentPacket(queue), openqueue_sixtopGetReceivedPacket(queue)}
    /\ b # NoBuffer
    /\ queue' = SetOwner(queue, b, COMPONENT_SIXTOP)
    /\ tasks' = tasks \cup {b}
    /\ UNCHANGED <<isSync, pc, asked, i, masked, mac>>

\* forwarding_receive makes a received packet its own, then counts.
TaskRelays(b) ==
    /\ pc = "idle" /\ b \in tasks
    /\ queue[b].creator = COMPONENT_IEEE802154E
    /\ queue' = SetOwner(SetCreator(queue, b, COMPONENT_FORWARDING), b, COMPONENT_FORWARDING)
    /\ i' = b
    /\ pc' = "relay"
    /\ UNCHANGED <<isSync, asked, masked, tasks, mac>>

RelayCheck ==
    /\ pc = "relay"
    /\ IF openqueue_isHighPriorityEntryEnough(queue)
       THEN UNCHANGED <<queue, tasks>>
       ELSE /\ queue' = openqueue_freePacketBuffer(queue, i)
            /\ tasks' = tasks \ {i}
    /\ pc' = "idle"
    /\ UNCHANGED <<isSync, asked, i, masked, mac>>

\* frag_receive and fast_forward_frags turn a received fragment for another node
\* into a packet of their own, and nobody counts.
TaskKeepsFragment(b) ==
    /\ Fragmentation
    /\ pc = "idle" /\ b \in tasks
    /\ queue[b].creator = COMPONENT_IEEE802154E
    /\ queue' = SetOwner(SetCreator(queue, b, COMPONENT_FRAG), b, COMPONENT_FRAG)
    /\ UNCHANGED <<isSync, pc, asked, i, masked, tasks, mac>>

TaskRemoves(creator) ==
    /\ pc = "idle"
    /\ queue' = openqueue_removeAllCreatedBy(queue, creator)
    /\ tasks' = {b \in tasks : queue[b].creator # creator}
    /\ UNCHANGED <<isSync, pc, asked, i, masked, mac>>

-----------------------------------------------------------------------------
(* The handlers of the MAC *)

\* A buffer for a frame or for an acknowledgement.
MacGets ==
    /\ ~masked
    /\ LET b == openqueue_getFreePacketBuffer(queue, isSync, COMPONENT_IEEE802154E)
       IN  /\ b # NoBuffer
           /\ queue' = SetOwner(SetCreator(queue, b, COMPONENT_IEEE802154E),
                                b, COMPONENT_IEEE802154E)
           /\ mac' = mac \cup {b}
    /\ UNCHANGED <<isSync, pc, asked, i, masked, tasks>>

MacFrees(b) ==
    /\ ~masked /\ b \in mac
    /\ queue[b].creator = COMPONENT_IEEE802154E
    /\ queue' = openqueue_freePacketBuffer(queue, b)
    /\ mac' = mac \ {b}
    /\ UNCHANGED <<isSync, pc, asked, i, masked, tasks>>

\* A slot starts with a packet to send.
MacTakes(b) ==
    /\ ~masked /\ isSync
    /\ b \in Waiting(queue)
    /\ queue' = SetOwner(queue, b, COMPONENT_IEEE802154E)
    /\ mac' = mac \cup {b}
    /\ UNCHANGED <<isSync, pc, asked, i, masked, tasks>>

\* notif_sendDone, notif_receive, or the packet is left for another attempt.
MacReturns(b) ==
    /\ ~masked /\ b \in mac
    /\ \E o \in {COMPONENT_IEEE802154E_TO_SIXTOP, COMPONENT_SIXTOP_TO_IEEE802154E} :
          /\ queue[b].creator = COMPONENT_IEEE802154E => o = COMPONENT_IEEE802154E_TO_SIXTOP
          /\ queue' = SetOwner(queue, b, o)
    /\ mac' = mac \ {b}
    /\ UNCHANGED <<isSync, pc, asked, i, masked, tasks>>

MacChangesSync ==
    /\ ~masked
    /\ isSync' = ~isSync
    /\ UNCHANGED <<queue, pc, asked, i, masked, tasks, mac>>

-----------------------------------------------------------------------------
Task ==
    \/ \E creator \in TaskCreator : Enter(creator) \/ TaskRemoves(creator)
    \/ GetFree
    \/ \E b \in Buffer : \/ TaskFrees(b) \/ TaskSends(b)
                         \/ TaskNotified(b) \/ TaskRelays(b) \/ TaskKeepsFragment(b)
    \/ RelayCheck

Mac ==
    \/ MacGets \/ MacChangesSync
    \/ \E b \in Buffer : MacFrees(b) \/ MacTakes(b) \/ MacReturns(b)

Next == Task \/ Mac

Spec == Init /\ [][Next]_vars

-----------------------------------------------------------------------------
(* Properties *)

\* openqueue_getFreePacketBuffer never hands a task a buffer the MAC holds,
\* nor the MAC one a task holds, and a buffer somebody holds is not free: no
\* packet is overwritten under its user.
BuffersExclusive ==
    /\ tasks \cap mac = {}
    /\ \A b \in tasks \cup mac : queue[b].owner # COMPONENT_NULL

\* The low-priority packets the reserve is counted for: all of them, but for the
\* fragments of others in a build with fragmentation.
Counted(q) == {b \in LowPriority(q) : ~(Fragmentation /\ q[b].creator = COMPONENT_FRAG)}

\* openqueue_isHighPriorityEntryEnough, called by the allocation and by the relay
\* of a packet at different moments and between the steps of the MAC, keeps
\* HIGH_PRIORITY_QUEUE_ENTRY - 1 buffers from the low-priority packets (a relayed
\* packet is counted after it changed hands).  The fragments that frag_receive
\* forwards change hands without the count and can take the reserve: in a build
\* with fragmentation the bound is on the other packets.
LeavesHighPriority ==
    pc # "relay" =>
        Cardinality(Counted(queue)) <= QUEUELENGTH - HIGH_PRIORITY_QUEUE_ENTRY + 1

\* While the MAC holds a packet no task changes its entry: neither
\* openqueue_removeAllCreatedBy nor a pointer left behind reaches a packet that
\* is being sent.
MacKeepsItsPackets ==
    [][\A b \in mac \cap mac' : queue'[b] = queue[b]]_vars
=============================================================================
