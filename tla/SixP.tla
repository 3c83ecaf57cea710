-------------------------------- MODULE SixP --------------------------------
(***************************************************************************)
(* The 6P transactions of sixtop (sixtop.c) between a node, the child, and  *)
(* its preferred parent, as the MSF scheduling function (msf.c) uses them:  *)
(* the child asks for cells to be added, deleted, relocated or cleared, the *)
(* parent answers, and each changes its own schedule.                       *)
(*                                                                          *)
(* A schedule maps a slot to its negotiated cells, the one in the schedule  *)
(* first and the backup entries after it, each named by what its own node   *)
(* does in it.  The MAC below retries a frame until it is acknowledged or   *)
(* gives it up; a lost acknowledgement makes the receiver see the frame     *)
(* again.  Every task is one action; the tasks of a node may be delayed, so *)
(* that a response overtakes the notification that its request was sent.    *)
(***************************************************************************)
EXTENDS Sequences, Naturals, FiniteSets

CONSTANTS
    Slot,             \* the slot offsets that are not autonomous cells
    MAXBACKUPSLOTS,   \* backup entries of a slot
    SEQNUM_MAX,       \* 0xff in the code: the sequence number that is followed by 1
    MaxSeqnum,        \* bound: no request from this sequence number on (CLEAR: the next)
    MaxSeqnumLate,    \* bound: the same once an answer may be late
    MaxQueued,        \* bound: packet buffers of a node for its 6P packets
    FaultSet          \* bound: which faults may happen together, once each

ASSUME SlotAssumption   == IsFiniteSet(Slot) /\ Slot \subseteq Nat
ASSUME BackupAssumption == MAXBACKUPSLOTS \in Nat
ASSUME SeqnumAssumption == SEQNUM_MAX \in Nat \ {0}

\* What lets a response or a time-out meet another transaction than its own.
LateAnswer == {"lostRequestAck", "lostResponseAck", "earlyTimeout", "staleTimeout"}
Fault      == LateAnswer \cup {"slowTask", "reboot", "lostClear"}
ASSUME FaultAssumption  == FaultSet \subseteq SUBSET Fault
ASSUME BoundAssumption  == {MaxSeqnum, MaxSeqnumLate} \subseteq 1..SEQNUM_MAX /\ MaxQueued \in Nat \ {0}

Node     == {"child", "parent"}
Other(n) == IF n = "child" THEN "parent" ELSE "child"

CellOption == {"TX", "RX"}
Command    == {"ADD", "DELETE", "RELOCATE", "CLEAR"}
ReturnCode == {"SUCCESS", "RESET", "SEQNUM_ERR", "CELLLIST_ERR", "BUSY"}

\* cellOptions ^ (CELLOPTIONS_TX | CELLOPTIONS_RX)
Reverted(opt) == IF opt = "TX" THEN "RX" ELSE "TX"

VARIABLES
    cells,               \* the negotiated cells of each node with the other
    sequenceNumber,      \* what each node's neighbor table says of the other
    six2six_state,       \* the child's transaction
    cellOptions,         \* the child's sixtop_vars.cellOptions
    celllist_toDelete,   \* the child's sixtop_vars.celllist_toDelete
    timeoutTimer,        \* the child's transaction timer is running
    timeoutTask,         \* it has expired, its task is in the scheduler
    waitretry,           \* MSF waits before the next request
    clearTask,           \* msf_timer_clear_task is in the scheduler
    queue,               \* the 6P packets of each node, to send or sent
    received,            \* the 6P message each node has received, if any
    critical,            \* the node has logged a critical error and resets
    faults               \* the faults so far

transaction == <<six2six_state, cellOptions, celllist_toDelete, timeoutTimer,
                 timeoutTask>>
msf  == <<waitretry, clearTask>>
vars == <<cells, sequenceNumber, transaction, msf, queue, received, critical, faults>>

IDLE == [wait |-> "nothing", command |-> "NONE"]
WAIT_SENDDONE(c) == [wait |-> "sendDone", command |-> c]
WAIT_RESPONSE(c) == [wait |-> "response", command |-> c]

Request == [type : {"request"}, command : Command, seqNum : 0..SEQNUM_MAX,
            options : CellOption, add : SUBSET Slot, delete : SUBSET Slot]
\* Only the code and the celllist of a response are in the frame; the rest is
\* what the parent does when it was sent.
Response == [type : {"response"}, command : Command, code : ReturnCode,
             celllist : SUBSET Slot,
             options : CellOption, add : SUBSET Slot, delete : SUBSET Slot]
Message   == Request \cup Response
NoMessage == [type |-> "none"]

\* The buffers of a node for its 6P packets.
Buffer == 1..MaxQueued
Packet == [msg : Message, status : {"queued", "sent", "failed"}]
Free   == [msg |-> NoMessage, status |-> "free"]

CellStack == UNION {[1..k -> CellOption] : k \in 0..(MAXBACKUPSLOTS + 1)}

TypeOK ==
    /\ cells \in [Node -> [Slot -> CellStack]]
    /\ sequenceNumber \in [Node -> 0..SEQNUM_MAX]
    /\ six2six_state \in {IDLE} \cup {WAIT_SENDDONE(c) : c \in Command}
                              \cup {WAIT_RESPONSE(c) : c \in Command}
    /\ cellOptions \in CellOption
    /\ celllist_toDelete \in SUBSET Slot
    /\ {timeoutTimer, timeoutTask, waitretry, clearTask} \subseteq BOOLEAN
    /\ queue \in [Node -> [Buffer -> Packet \cup {Free}]]
    /\ received \in [Node -> Message \cup {NoMessage}]
    /\ critical \in [Node -> BOOLEAN]
    /\ faults \subseteq Fault

NoCells   == [s \in Slot |-> <<>>]
NoPackets == [b \in Buffer |-> Free]

Init ==
    /\ cells = [n \in Node |-> NoCells]
    /\ sequenceNumber = [n \in Node |-> 0]
    /\ six2six_state = IDLE
    /\ cellOptions = "TX"
    /\ celllist_toDelete = {}
    /\ timeoutTimer = FALSE /\ timeoutTask = FALSE
    /\ waitretry = FALSE /\ clearTask = FALSE
    /\ queue = [n \in Node |-> NoPackets]
    /\ received = [n \in Node |-> NoMessage]
    /\ critical = [n \in Node |-> FALSE]
    /\ faults = {}

-----------------------------------------------------------------------------
(* The schedule and the neighbor table, as far as 6P sees them *)

Available(sched, s) == sched[s] = <<>>

\* schedule_getSlotInfo
LinkType(sched, s) == IF sched[s] = <<>> THEN "OFF" ELSE Head(sched[s])

NegotiatedCells(sched, opt) == {s \in Slot : LinkType(sched, s) = opt}

AddCells(sched, S, opt) ==
    [s \in Slot |-> IF s \in S /\ Len(sched[s]) <= MAXBACKUPSLOTS
                    THEN Append(sched[s], opt) ELSE sched[s]]

\* The removal of the cell in the schedule promotes the last backup entry.
Promoted(stack) ==
    IF Len(stack) <= 1 THEN <<>>
    ELSE <<stack[Len(stack)]>> \o SubSeq(stack, 2, Len(stack) - 1)

RemoveCells(sched, S) ==
    [s \in Slot |-> IF s \in S THEN Promoted(sched[s]) ELSE sched[s]]

\* schedule_removeActiveSlot logs a critical error when there is no such cell.
RemovesAbsent(sched, S) == \E s \in S : sched[s] = <<>>

\* neighbors_updateSequenceNumber: from 0xff to 1
NextSeqnum(k) == IF k = SEQNUM_MAX THEN 1 ELSE k + 1

-----------------------------------------------------------------------------
(* The MAC: queued packets are sent, in any order *)

Status(n, b, status) == [queue EXCEPT ![n][b].status = status]

\* openqueue_getFreePacketBuffer takes the first entry that is free.
FirstFree(q) == {b \in Buffer : q[b] = Free /\ \A d \in Buffer : d < b => q[d] # Free}

\* It is queued in the entry.
Queued(msg) == [msg |-> msg, status |-> "queued"]

NoFault == UNCHANGED faults

Happens(fault) ==
    /\ fault \notin faults
    /\ \E together \in FaultSet : faults \cup {fault} \subseteq together
    /\ faults' = faults \cup {fault}

\* What the MAC notified has been looked at.
TasksRun(n) ==
    received[n] = NoMessage /\ \A b \in Buffer : queue[n][b].status \in {"free", "queued"}

\* The tasks of a node are run before the next slot, or a slow one is a fault.
TasksKeepUp ==
    IF \A n \in Node : TasksRun(n) THEN NoFault ELSE Happens("slowTask")

\* A packet reaches the other node, whose receive task will look at it.
Arrives(n, b) ==
    /\ received[Other(n)] = NoMessage
    /\ received' = [received EXCEPT ![Other(n)] = queue[n][b].msg]

Acknowledged(n, b) ==
    /\ Arrives(n, b)
    /\ queue' = Status(n, b, "sent")
    /\ TasksKeepUp

\* The retries are used up.
GivenUp(n, b) ==
    /\ queue' = Status(n, b, "failed")
    /\ TasksKeepUp
    /\ UNCHANGED received

AckLost(n, b) ==
    /\ \A m \in Node : TasksRun(m)
    /\ Arrives(n, b)
    /\ Happens(IF n = "child" THEN "lostRequestAck" ELSE "lostResponseAck")
    /\ UNCHANGED queue

Attempt(n, Outcome(_, _)) ==
    /\ \E b \in Buffer : queue[n][b].status = "queued" /\ Outcome(n, b)
    /\ UNCHANGED <<cells, sequenceNumber, transaction, msf, critical>>

PacketLeaves(n) == Attempt(n, Acknowledged) \/ Attempt(n, GivenUp)

-----------------------------------------------------------------------------
(* sixtop_request and the tasks of MSF that call it *)

IsQueuedRequest(p) == p.msg.type = "request" /\ p.status = "queued"

\* openqueue_remove6PrequestToNeighbor removes the requests in the queue,
\* unless the MAC is sending one at that moment.
QueueAfterRemoval ==
    {queue["child"],
     [b \in Buffer |-> IF IsQueuedRequest(queue["child"][b]) THEN Free ELSE queue["child"][b]]}

\* The bound on the sequence numbers.
RequestLimit(command) ==
    (IF faults \cap LateAnswer = {} THEN MaxSeqnum ELSE MaxSeqnumLate)
        + (IF command = "CLEAR" THEN 1 ELSE 0)

sixtop_request(command, opt, add, delete) ==
    /\ six2six_state = IDLE
    /\ \A n \in Node : sequenceNumber[n] < RequestLimit(command)
    /\ \E q \in QueueAfterRemoval :
         \/ /\ NoFault
            /\ \E b \in FirstFree(q) :
                 queue' = [queue EXCEPT !["child"] = [q EXCEPT ![b] =
                     Queued([type |-> "request", command |-> command, options |-> opt,
                             seqNum |-> sequenceNumber["child"],
                             add |-> add, delete |-> delete])]]
            /\ six2six_state' = WAIT_SENDDONE(command)
            /\ cellOptions' = opt
            /\ celllist_toDelete' = IF delete = {} THEN celllist_toDelete ELSE delete
         \/ \* no free packet buffer: nobody asks for a CLEAR again
            /\ IF command = "CLEAR" THEN Happens("lostClear") ELSE NoFault
            /\ queue' = [queue EXCEPT !["child"] = q]
            /\ UNCHANGED <<six2six_state, cellOptions, celllist_toDelete>>
    /\ UNCHANGED <<cells, sequenceNumber, timeoutTimer, timeoutTask, waitretry,
                   received, critical>>

\* msf_candidateAddCellList: some of the free slots, drawn at random
CandidateAdd == (SUBSET {s \in Slot : Available(cells["child"], s)}) \ {{}}

\* Called for traffic, and by the housekeeping when there is no Tx cell.
msf_trigger6pAdd ==
    /\ ~waitretry
    /\ \E opt \in CellOption, add \in CandidateAdd : sixtop_request("ADD", opt, add, {})
    /\ UNCHANGED clearTask

msf_trigger6pDelete ==
    /\ ~waitretry
    /\ \E opt \in CellOption :
         LET candidates == NegotiatedCells(cells["child"], opt)
         IN  /\ Cardinality(candidates) > IF opt = "TX" THEN 1 ELSE 0
             /\ sixtop_request("DELETE", opt, {}, candidates)
    /\ UNCHANGED clearTask

\* The cell with too low a delivery ratio is relocated.
HousekeepingRelocates ==
    /\ ~waitretry
    /\ \E bad \in NegotiatedCells(cells["child"], "TX"), add \in CandidateAdd :
         sixtop_request("RELOCATE", "TX", add, {bad})
    /\ UNCHANGED clearTask

\* The parent is no longer the preferred one.
HousekeepingClears ==
    /\ NegotiatedCells(cells["child"], "TX") # {}
    /\ sixtop_request("CLEAR", "TX", {}, {})
    /\ UNCHANGED clearTask

msf_timer_clear_task ==
    /\ clearTask
    /\ clearTask' = FALSE
    /\ \/ sixtop_request("CLEAR", "TX", {}, {})
       \/ /\ six2six_state # IDLE
          /\ UNCHANGED <<cells, sequenceNumber, transaction, waitretry, queue,
                         received, critical, faults>>

msf_timer_waitretry_cb ==
    /\ waitretry
    /\ waitretry' = FALSE
    /\ UNCHANGED <<cells, sequenceNumber, transaction, clearTask, queue, received,
                   critical, faults>>

-----------------------------------------------------------------------------
(* The child: sent requests, time-outs, responses *)

ClearLocally(n) ==
    /\ cells' = [cells EXCEPT ![n] = RemoveCells(@, Slot)]
    /\ sequenceNumber' = [sequenceNumber EXCEPT ![n] = 0]

\* A packet to send or to notify, or a message that is not handled yet.
InFlight == \E n \in Node : queue[n] # NoPackets \/ received[n] # NoMessage

\* SIX2SIX_TIMEOUT_MS is long, but nothing makes it longer than it takes to send
\* a response on a busy link.
TimerExpires ==
    /\ timeoutTimer
    /\ IF InFlight THEN Happens("earlyTimeout") ELSE NoFault
    /\ timeoutTimer' = FALSE
    /\ timeoutTask' = TRUE
    /\ UNCHANGED <<cells, sequenceNumber, six2six_state, cellOptions, celllist_toDelete,
                   msf, queue, received, critical>>

\* The task, which opentimers_cancel does not take back: it may run when its
\* transaction has ended and the next one has begun.
timer_sixtop_six2six_timeout_fired ==
    /\ timeoutTask
    /\ IF InFlight /\ "earlyTimeout" \notin faults THEN Happens("staleTimeout") ELSE NoFault
    /\ \/ six2six_state = WAIT_RESPONSE("CLEAR") /\ ClearLocally("child")
       \/ six2six_state # WAIT_RESPONSE("CLEAR") /\ UNCHANGED <<cells, sequenceNumber>>
    /\ six2six_state' = IDLE
    /\ timeoutTimer' = FALSE
    /\ timeoutTask' = FALSE
    /\ UNCHANGED <<cellOptions, celllist_toDelete, msf, queue, received, critical>>

RequestFailed ==
    /\ \/ six2six_state = WAIT_SENDDONE("CLEAR") /\ ClearLocally("child") /\ timeoutTimer' = FALSE
       \/ /\ six2six_state # WAIT_SENDDONE("CLEAR")
          /\ UNCHANGED <<cells, sequenceNumber, timeoutTimer>>
    /\ six2six_state' = IDLE

RequestSent_MovesOn ==
    /\ six2six_state' = WAIT_RESPONSE(six2six_state.command)
    /\ timeoutTimer' = TRUE
    /\ UNCHANGED <<cells, sequenceNumber>>

RequestSent_NoTimer ==
    /\ six2six_state' = IF six2six_state.wait = "sendDone"
                        THEN WAIT_RESPONSE(six2six_state.command) ELSE six2six_state
    /\ UNCHANGED <<cells, sequenceNumber, timeoutTimer>>

RequestSent ==
    /\ six2six_state' = IF six2six_state.wait = "sendDone"
                        THEN WAIT_RESPONSE(six2six_state.command) ELSE six2six_state
    /\ timeoutTimer' = TRUE
    /\ UNCHANGED <<cells, sequenceNumber>>

RequestSendDone ==
    /\ \E b \in Buffer :
         /\ \/ queue["child"][b].status = "failed" /\ RequestFailed
            \/ queue["child"][b].status = "sent" /\ RequestSent
         /\ queue' = [queue EXCEPT !["child"][b] = Free]
    /\ UNCHANGED <<cellOptions, celllist_toDelete, timeoutTask, msf, received, critical,
                   faults>>

RemovedByChild_Stale(msg) ==
    IF six2six_state.command = "DELETE" THEN msg.celllist ELSE celllist_toDelete

RemovedByChild(msg) ==
    CASE six2six_state.command = "DELETE"   -> msg.celllist
      [] six2six_state.command = "RELOCATE" -> celllist_toDelete
      [] OTHER -> {}

\* A successful response is taken for the answer to what the child waits for.
ChildConcludes(msg) ==
    LET mine     == cells["child"]
        removed  == RemovedByChild(msg)
        added    == IF six2six_state.command \in {"ADD", "RELOCATE"} THEN msg.celllist ELSE {}
    IN  IF six2six_state.command = "CLEAR" THEN ClearLocally("child") /\ UNCHANGED critical
        ELSE /\ cells' = [cells EXCEPT !["child"] =
                            AddCells(RemoveCells(mine, removed), added, cellOptions)]
             /\ critical' = [critical EXCEPT !["child"] = @ \/ RemovesAbsent(mine, removed)]
             /\ sequenceNumber' = [sequenceNumber EXCEPT !["child"] = NextSeqnum(@)]

\* The response arrives after the time-out, or it is a duplicate.
LateResponse ==
    /\ \E q \in QueueAfterRemoval : queue' = [queue EXCEPT !["child"] = q]
    /\ UNCHANGED <<cells, sequenceNumber, critical>>

msf_handleRCError(code) ==
    /\ waitretry' = (waitretry \/ code = "RESET")
    /\ clearTask' = (clearTask \/ code \in {"SEQNUM_ERR", "CELLLIST_ERR"})
    /\ sequenceNumber' = [sequenceNumber EXCEPT !["child"] = NextSeqnum(@)]

ResponseReceived ==
    /\ received["child"] # NoMessage
    /\ LET msg == received["child"]
       IN  IF msg.code # "SUCCESS"
           THEN msf_handleRCError(msg.code) /\ UNCHANGED <<cells, queue, critical>>
           ELSE /\ IF six2six_state.wait = "response"
                   THEN ChildConcludes(msg) /\ UNCHANGED queue
                   ELSE LateResponse
                /\ UNCHANGED msf
    /\ six2six_state' = IDLE
    /\ timeoutTimer' = FALSE
    /\ received' = [received EXCEPT !["child"] = NoMessage]
    /\ UNCHANGED <<cellOptions, celllist_toDelete, timeoutTask, faults>>

-----------------------------------------------------------------------------
(* The parent: requests, and sent responses *)

\* sixtop_areAvailableCellsToBeRemoved looks at the first cell of the list,
\* which the child wrote last.
Offered(delete) == {s \in delete : \A t \in delete : t <= s}

CanRemove(delete, opt) ==
    \A s \in Offered(delete) : LinkType(cells["parent"], s) = opt

\* One of the candidates that is free, or none.
Chosen(add) ==
    LET free == {s \in add : Available(cells["parent"], s)}
    IN  IF free = {} THEN {{}} ELSE {{s} : s \in free}

\* The answers the parent may give; RESET when it has a transaction of its
\* own, BUSY when its schedule has no free entry.
Answers(req) ==
    LET answer(code, add, delete) ==
            [type |-> "response", command |-> req.command, code |-> code,
             celllist |-> IF req.command = "DELETE" THEN delete ELSE add,
             options |-> Reverted(req.options), add |-> add, delete |-> delete]
        refused(code) == {answer(code, {}, {})}
        delete == Offered(req.delete)
        agreed == {answer("SUCCESS", add, delete) : add \in Chosen(req.add)}
    IN  IF req.command # "CLEAR" /\ req.seqNum # sequenceNumber["parent"]
        THEN refused("SEQNUM_ERR")
        ELSE refused("RESET") \cup
             CASE req.command = "ADD"   -> agreed \cup refused("BUSY")
               [] req.command = "CLEAR" -> agreed
               [] OTHER -> IF CanRemove(req.delete, Reverted(req.options))
                           THEN agreed ELSE refused("CELLLIST_ERR")

IsQueuedResponse(p) == p.msg.type = "response" /\ p.status = "queued"

RequestReceived ==
    /\ received["parent"] # NoMessage
    /\ received' = [received EXCEPT !["parent"] = NoMessage]
    /\ \/ \* a response is in the queue already, or there is no free buffer
          UNCHANGED queue
       \/ /\ ~\E b \in Buffer : IsQueuedResponse(queue["parent"][b])
          /\ \E b \in FirstFree(queue["parent"]), a \in Answers(received["parent"]) :
               queue' = [queue EXCEPT !["parent"][b] = Queued(a)]
    /\ UNCHANGED <<cells, sequenceNumber, transaction, msf, critical, faults>>

ParentConcludes(msg) ==
    IF msg.command = "CLEAR" THEN ClearLocally("parent") /\ UNCHANGED critical
    ELSE /\ cells' = [cells EXCEPT !["parent"] =
                        AddCells(RemoveCells(@, msg.delete), msg.add, msg.options)]
         /\ critical' = [critical EXCEPT !["parent"] =
                           @ \/ RemovesAbsent(cells["parent"], msg.delete)]
         /\ sequenceNumber' = [sequenceNumber EXCEPT !["parent"] = NextSeqnum(@)]

\* The child acknowledged the response: a refusal changes the sequence number only.
ResponseSent(msg) ==
    IF msg.code = "SUCCESS" THEN ParentConcludes(msg)
    ELSE /\ sequenceNumber' = [sequenceNumber EXCEPT !["parent"] = NextSeqnum(@)]
         /\ UNCHANGED <<cells, critical>>

ResponseFailed_KeepsCells(msg) ==
    /\ IF msg.command = "CLEAR" THEN ClearLocally("parent")
       ELSE /\ cells' = [cells EXCEPT !["parent"] = AddCells(@, msg.add, msg.options)]
            /\ UNCHANGED sequenceNumber
    /\ UNCHANGED critical

ResponseFailed(msg) ==
    /\ IF msg.command = "CLEAR" THEN ClearLocally("parent")
                                ELSE UNCHANGED <<cells, sequenceNumber>>
    /\ UNCHANGED critical

ResponseSendDone ==
    /\ \E b \in Buffer :
         LET p == queue["parent"][b]
         IN  /\ \/ p.status = "failed" /\ ResponseFailed(p.msg)
                \/ p.status = "sent" /\ ResponseSent(p.msg)
             /\ queue' = [queue EXCEPT !["parent"][b] = Free]
    /\ UNCHANGED <<transaction, msf, received, faults>>

-----------------------------------------------------------------------------
(* A reboot, of its own or after a critical error *)

Reboot(n) ==
    /\ IF critical[n] THEN NoFault ELSE Happens("reboot")
    /\ TasksRun(Other(n)) /\ queue[Other(n)] = NoPackets
    /\ cells' = [cells EXCEPT ![n] = NoCells]
    /\ sequenceNumber' = [sequenceNumber EXCEPT ![n] = 0]
    /\ queue' = [queue EXCEPT ![n] = NoPackets]
    /\ received' = [received EXCEPT ![n] = NoMessage]
    /\ critical' = [critical EXCEPT ![n] = FALSE]
    /\ IF n = "child"
       THEN /\ six2six_state' = IDLE /\ cellOptions' = "TX" /\ celllist_toDelete' = {}
            /\ timeoutTimer' = FALSE /\ timeoutTask' = FALSE
            /\ waitretry' = FALSE /\ clearTask' = FALSE
       ELSE UNCHANGED <<transaction, msf>>

-----------------------------------------------------------------------------

MsfRequests ==
    \/ msf_trigger6pAdd \/ msf_trigger6pDelete
    \/ HousekeepingRelocates \/ HousekeepingClears

Next ==
    \/ MsfRequests \/ msf_timer_clear_task \/ msf_timer_waitretry_cb
    \/ TimerExpires \/ timer_sixtop_six2six_timeout_fired
    \/ RequestSendDone \/ ResponseReceived
    \/ RequestReceived \/ ResponseSendDone
    \/ \E n \in Node : PacketLeaves(n) \/ Attempt(n, AckLost) \/ Reboot(n)

Spec == Init /\ [][Next]_vars

\* The MAC sends or gives up what it is given, tasks are run, timers fire.
FairSpec ==
    /\ Spec
    /\ \A n \in Node : WF_vars(PacketLeaves(n))
    /\ WF_vars(RequestSendDone) /\ WF_vars(ResponseSendDone)
    /\ WF_vars(RequestReceived) /\ WF_vars(ResponseReceived)
    /\ WF_vars(TimerExpires) /\ WF_vars(timer_sixtop_six2six_timeout_fired)

-----------------------------------------------------------------------------
(* Properties *)

Quiescent ==
    /\ six2six_state = IDLE /\ ~clearTask /\ ~timeoutTask
    /\ \A n \in Node : queue[n] = NoPackets /\ received[n] = NoMessage /\ ~critical[n]

Mirrored(stack) == [i \in DOMAIN stack |-> Reverted(stack[i])]

Agree ==
    Quiescent /\ sequenceNumber["child"] = sequenceNumber["parent"] =>
        \A s \in Slot : cells["child"][s] = Mirrored(cells["parent"][s])

\* When no transaction is going on and both nodes have the same sequence
\* number, which is all that the next request is checked against, each cell
\* of one is a cell of the other, as long as no answer is late: frames that are
\* lost for good, requests that fail, reboots and slow tasks show in the
\* sequence number.  A lost acknowledgement and a time-out that races the answer
\* need not (LateAnswer): LateResponseHarmless is about those.
SchedulesAgree == faults \cap LateAnswer = {} => Agree

\* The same when the response to a request that was given up arrives: "after 6P
\* TIMEOUT, or it's a duplicated response".
LateResponseHarmless == Agree

\* In the same conditions no node removes a cell it does not have, which
\* schedule_removeActiveSlot reports as a critical error: the node would reset.
NoAbsentCellRemoved == faults \cap LateAnswer = {} => \A n \in Node : ~critical[n]

\* A transaction of the child ends, whatever is lost.
TransactionEnds == six2six_state # IDLE ~> six2six_state = IDLE
=============================================================================
