---------------------------- MODULE IEEE802154E -----------------------------
(***************************************************************************)
(* The TSCH MAC (openstack/02a-MAClow/IEEE802154E.c, single-timer build) with *)
(* the radio below it and the tasks of the upper layers above it.            *)
(*                                                                          *)
(* One timer drives the state machine: it is armed either for the next slot  *)
(* or for the next activity of the current slot, and the timer and radio     *)
(* interrupt handlers are atomic with respect to each other and to the tasks.*)
(* A packet to send is looked up in the packet buffers at the start of a     *)
(* slot; when the slot ends its buffer goes back to the upper layer with a   *)
(* notification, or waits for another attempt.                               *)
(*                                                                          *)
(* Time, frequencies, slot numbers, headers and cryptography are abstracted: *)
(* whether the radio sees a frame, what the frame is and which cell a slot   *)
(* belongs to are chosen nondeterministically.                               *)
(***************************************************************************)
EXTENDS OpenQueue

CONSTANTS
    TaskCreator,          \* the components whose tasks send packets
    Negotiated,           \* the neighbors 6P may negotiate a Tx cell with
    TXRETRIES,            \* retransmissions of a unicast packet
    DESYNCTIMEOUT,        \* slots without a correction before desynchronizing
    BootsAsDAGroot,       \* the role at boot
    Trouble,              \* the sets of troubles, named below, one of which
                          \* may happen in a behaviour
    MaxPendingTasks       \* bound on the notifications before a task removes

ASSUME TaskCreatorAssumption ==
    TaskCreator \subseteq {c \in Component : c > COMPONENT_IEEE802154E_TO_SIXTOP}
ASSUME NegotiatedAssumption == Negotiated \subseteq Neighbor
ASSUME BoundsAssumption ==
    /\ TXRETRIES \in Nat
    /\ DESYNCTIMEOUT \in Nat \ {0}
    /\ MaxPendingTasks \in Nat
ASSUME RoleAssumption == BootsAsDAGroot \in BOOLEAN
ASSUME TroubleAssumption ==
    Trouble \subseteq SUBSET {"roles", "crypto", "schedule", "remove", "cells", "parent"}

TxDataStates == {"S_TXDATAOFFSET", "S_TXDATAREADY", "S_TXDATADELAY", "S_TXDATA"}
RxAckStates  == {"S_RXACKOFFSET", "S_RXACKREADY", "S_RXACKLISTEN", "S_RXACK"}
RxDataStates == {"S_RXDATAOFFSET", "S_RXDATAREADY", "S_RXDATALISTEN", "S_RXDATA"}
TxAckStates  == {"S_TXACKOFFSET", "S_TXACKREADY", "S_TXACKDELAY", "S_TXACK"}
SyncStates   == {"S_SYNCLISTEN", "S_SYNCRX", "S_SYNCPROC"}

\* The states the machine is in between two handlers: the preparation states
\* and the processing states of a synchronized node begin and end in one.
State == {"S_SLEEP"} \cup TxDataStates \cup RxAckStates \cup RxDataStates
                     \cup TxAckStates \cup SyncStates

CellType == {"OFF", "RX", "TXRX", "TX"}
NoCell   == [type |-> "OFF", neighbor |-> NOADDRESS, isAutoCell |-> FALSE]

VARIABLES
    isDAGroot,      \* idmanager_vars.isDAGroot
    isSync,         \* ieee154e_vars.isSync
    state,          \* ieee154e_vars.state
    timer,          \* the callback ieee154e_vars.timerId is armed with
    deSyncTimeout,  \* ieee154e_vars.deSyncTimeout
    radio,          \* what the radio does
    irq,            \* the radio interrupt that is pending
    cell,           \* the schedule entry of the current slot
    autoTxCells,    \* the neighbors with an autonomous Tx cell
    negotiatedCells, \* the neighbors with a negotiated Tx cell
    sendingTo,      \* the destination of the packet a task is handing down
    mac,            \* the packet buffers, the pointers of the MAC into them,
                    \* the notification tasks, the critical errors logged
    trouble         \* the troubles that may happen: never changes

vars == <<isDAGroot, isSync, state, timer, deSyncTimeout, radio, irq, cell,
          autoTxCells, negotiatedCells, sendingTo, mac>>

Pointer == {"dataToSend", "dataReceived", "ackToSend", "ackReceived"}

CriticalError == {"ERR_FREEING_UNUSED", "ERR_NO_SENT_PACKET", "ERR_NO_RECEIVED_PACKET"}

Mac == [queue : Queue,
        ptr : [Pointer -> Buffer \cup {NoBuffer}],
        sendDoneTasks : Nat, receiveTasks : Nat,
        critical : SUBSET CriticalError]

NoPointers == [p \in Pointer |-> NoBuffer]

InitialMac == [queue |-> openqueue_init, ptr |-> NoPointers,
               sendDoneTasks |-> 0, receiveTasks |-> 0, critical |-> {}]

Init ==
    /\ isDAGroot = BootsAsDAGroot
    /\ isSync = BootsAsDAGroot
    /\ state = "S_SLEEP"
    /\ timer = "newSlot"
    /\ deSyncTimeout = 0
    /\ radio = "off"
    /\ irq = "none"
    /\ cell = NoCell
    /\ autoTxCells = {}
    /\ negotiatedCells = {}
    /\ sendingTo = NOADDRESS
    /\ mac = InitialMac
    /\ trouble \in Trouble

\* Changing the role over the serial port; securing an outgoing frame fails; no
\* room in the schedule for an autonomous cell; tasks that call
\* openqueue_removeAllCreatedBy; 6P removes cells; RPL changes its parent.
RoleMayChange       == "roles" \in trouble
CryptoMayFail       == "crypto" \in trouble
ScheduleMayOverflow == "schedule" \in trouble
TasksRemove         == "remove" \in trouble
CellsMayGo          == "cells" \in trouble
ParentMayChange     == "parent" \in trouble

-----------------------------------------------------------------------------
(* The buffers and the pointers to them.  Each operator is one call of a     *)
(* handler, on the state m of the buffers reached so far in that handler.    *)

\* openqueue_getFreePacketBuffer, then "declare ownership over that packet".
GetBuffer(m, p) ==
    LET b == openqueue_getFreePacketBuffer(m.queue, isSync, COMPONENT_IEEE802154E)
    IN  IF b = NoBuffer THEN [m EXCEPT !.ptr[p] = NoBuffer]
        ELSE [m EXCEPT !.ptr[p] = b,
                       !.queue = SetOwner(SetCreator(@, b, COMPONENT_IEEE802154E),
                                          b, COMPONENT_IEEE802154E)]

Clear(m, p) == [m EXCEPT !.ptr[p] = NoBuffer]

FreeBuffer(m, p) ==
    LET b == m.ptr[p]
    IN  [m EXCEPT !.queue = openqueue_freePacketBuffer(@, b),
                  !.critical = IF m.queue[b].owner = COMPONENT_NULL
                               THEN @ \cup {"ERR_FREEING_UNUSED"} ELSE @]

(* Plausible slips, here and below (a name with an underscore and a reason):  *)
(* each replaces the definition it is named after in one run, and must break *)
(* the property that run checks.                                            *)

notif_sendDone_NoTask(m) ==
    [m EXCEPT !.queue = SetOwner(@, m.ptr["dataToSend"], COMPONENT_IEEE802154E_TO_SIXTOP)]

\* The packet goes to sixtop, whose task is pushed to the scheduler.
notif_sendDone(m) ==
    [m EXCEPT !.queue = SetOwner(@, m.ptr["dataToSend"], COMPONENT_IEEE802154E_TO_SIXTOP),
              !.sendDoneTasks = @ + 1]

notif_receive(m) ==
    [m EXCEPT !.queue = SetOwner(@, m.ptr["dataReceived"], COMPONENT_IEEE802154E_TO_SIXTOP),
              !.receiveTasks = @ + 1]

SetRetries(m, b, n) == [m EXCEPT !.queue[b].retriesLeft = n]

TransmissionFailed_NotCounted(m) ==
    Clear([m EXCEPT !.queue = SetOwner(@, m.ptr["dataToSend"], COMPONENT_SIXTOP_TO_IEEE802154E)],
          "dataToSend")

TransmissionFailed_TestsFirst(m) ==
    LET b == m.ptr["dataToSend"]
        left == m.queue[b].retriesLeft
        counted == SetRetries(m, b, IF left = 0 THEN 0 ELSE left - 1)
    IN  Clear(IF left = 0 THEN notif_sendDone(counted)
              ELSE [counted EXCEPT !.queue = SetOwner(@, b, COMPONENT_SIXTOP_TO_IEEE802154E)],
              "dataToSend")

\* A failed transmission: the packet waits for another slot or, without
\* retransmissions left, is given back.
TransmissionFailed(m) ==
    LET b == m.ptr["dataToSend"]
        left == m.queue[b].retriesLeft - 1
        counted == SetRetries(m, b, left)
        returned == IF left = 0 THEN notif_sendDone(counted)
                    ELSE [counted EXCEPT !.queue = SetOwner(@, b, COMPONENT_SIXTOP_TO_IEEE802154E)]
    IN  Clear(returned, "dataToSend")

ReceptionDone(m) == Clear(notif_receive(m), "dataReceived")

\* The four clean-ups of endSlot, each of the packet of one pointer, if it is set.
EndTransmission(m) == IF m.ptr["dataToSend"] # NoBuffer THEN TransmissionFailed(m) ELSE m

EndReception(m) == IF m.ptr["dataReceived"] # NoBuffer THEN ReceptionDone(m) ELSE m

EndAck(m, p) == IF m.ptr[p] # NoBuffer THEN Clear(FreeBuffer(m, p), p) ELSE m

CleanUp_KeepsAck(m) == EndReception(EndTransmission(m))

\* In the order of the code.
CleanUp(m) ==
    EndAck(EndAck(EndReception(EndTransmission(m)), "ackToSend"), "ackReceived")

-----------------------------------------------------------------------------
(* The end of a slot *)

\* An interrupt that was raised before radio_rfOff may survive it.
rfOff == radio' = "off" /\ irq' \in {irq, "none"}

RemovesCell_WithoutLookup(m, c) == c.type = "TX" /\ c.isAutoCell

\* An autonomous Tx cell nobody needs any more is removed, at the end of its
\* slot; the current entry then is the one before it.
RemovesCell(m, c) ==
    /\ c.type = "TX" /\ c.isAutoCell
    /\ openqueue_macGetUnicastPacket(m.queue, c.neighbor) = NoBuffer

\* idmanager_vars.slotSkip is only set with the role, over the serial port.  A
\* slot that skips the idle ones after it has the slot offset of the last of
\* them, so that its own cell is not recognised when it ends.
SlotSkip == RoleMayChange

endSlot(m, c) ==
    /\ rfOff
    /\ mac' = CleanUp(m)
    /\ \/ /\ RemovesCell(mac', c)
          /\ autoTxCells' = autoTxCells \ {c.neighbor}
          /\ cell' = NoCell
       \/ /\ RemovesCell(mac', c) => SlotSkip
          /\ cell' = c
          /\ UNCHANGED autoTxCells
    /\ timer' = "newSlot"
    /\ state' = "S_SLEEP"

changeIsSync(b) == isSync' = b

\* synchronizePacket and synchronizeAck reset the desynchronization timeout.
Synchronize == deSyncTimeout' = DESYNCTIMEOUT

MayChangeTimeout(b) == IF b THEN Synchronize ELSE UNCHANGED deSyncTimeout

Upper == <<isDAGroot, sendingTo, negotiatedCells>>

\* A pending interrupt of a radio that is off is handled before anything else.
Stale == radio = "off" /\ irq # "none"

-----------------------------------------------------------------------------
(* isr_ieee154e_newSlot *)

SlotFires(sync) == timer = "newSlot" /\ isSync = sync /\ ~Stale

BecomeRoot_KeepsListening ==
    /\ SlotFires(FALSE) /\ isDAGroot
    /\ changeIsSync(TRUE)
    /\ UNCHANGED <<state, timer, radio, irq, cell, autoTxCells, mac, deSyncTimeout, Upper>>

BecomeRoot ==
    /\ SlotFires(FALSE) /\ isDAGroot
    /\ changeIsSync(TRUE)
    /\ endSlot(mac, NoCell)
    /\ UNCHANGED <<deSyncTimeout, Upper>>

activity_synchronize_newSlot ==
    /\ SlotFires(FALSE) /\ ~isDAGroot
    /\ state # "S_SYNCRX"
    /\ state' = "S_SYNCLISTEN"
    /\ radio' = "rx"
    /\ irq' \in {irq, "none"}
    /\ UNCHANGED <<isSync, timer, deSyncTimeout, cell, autoTxCells, mac, Upper>>

LosesSync_Late(slots) == ~isDAGroot /\ deSyncTimeout < slots - 1

\* ieee154e_vars.numOfSleepSlots: the slots since the last one.
SleepSlots == IF SlotSkip THEN 1..DESYNCTIMEOUT ELSE {1}

\* activity_ti1ORri1, one action for each way it ends.
LosesSync(slots) == ~isDAGroot /\ deSyncTimeout <= slots

Desynchronize ==
    /\ SlotFires(TRUE)
    /\ \E slots \in SleepSlots : LosesSync(slots)
    /\ changeIsSync(FALSE)
    /\ endSlot(mac, NoCell)
    /\ UNCHANGED <<deSyncTimeout, Upper>>

CountSlot ==
    /\ SlotFires(TRUE)
    /\ \E slots \in SleepSlots :
          /\ ~LosesSync(slots)
          /\ deSyncTimeout' = IF isDAGroot THEN deSyncTimeout ELSE deSyncTimeout - slots

\* Also what happens in the wrong state.
InactiveSlot ==
    /\ CountSlot
    /\ endSlot(mac, NoCell)
    /\ UNCHANGED <<isSync, Upper>>

ScheduledCells ==
    {[type |-> "TX", neighbor |-> n, isAutoCell |-> TRUE] : n \in autoTxCells}
    \cup {[type |-> "TX", neighbor |-> n, isAutoCell |-> FALSE] : n \in negotiatedCells}
    \cup {[type |-> "RX", neighbor |-> NOADDRESS, isAutoCell |-> TRUE],
          [type |-> "TXRX", neighbor |-> BROADCAST, isAutoCell |-> FALSE]}

FirstNonNull(b, c) == IF b # NoBuffer THEN b ELSE c

\* A keep-alive is a unicast packet too, so its lookup finds nothing more.
PacketFor(c) ==
    IF c.neighbor = BROADCAST
    THEN FirstNonNull(openqueue_macGetDIOPacket(mac.queue), openqueue_macGetEBPacket(mac.queue))
    ELSE FirstNonNull(openqueue_macGetUnicastPacket(mac.queue, c.neighbor),
                      openqueue_macGetKaPacket(mac.queue, c.neighbor))

\* okToSend: the backoff of a shared cell allows a transmission.
ToSend(c, okToSend) == IF c.type \in {"TX", "TXRX"} /\ okToSend THEN PacketFor(c) ELSE NoBuffer

StartTx(c, okToSend) ==
    /\ CountSlot /\ state = "S_SLEEP"
    /\ LET b == ToSend(c, okToSend)
       IN  /\ b # NoBuffer
           /\ mac' = [mac EXCEPT !.ptr["dataToSend"] = b,
                                 !.queue = SetOwner(@, b, COMPONENT_IEEE802154E)]
    /\ state' = "S_TXDATAOFFSET"
    /\ timer' = "fsm"
    /\ cell' = c
    /\ UNCHANGED <<isSync, radio, irq, autoTxCells, Upper>>

StartRx(c, okToSend) ==
    /\ CountSlot /\ state = "S_SLEEP"
    /\ c.type \in {"RX", "TXRX"}
    /\ ToSend(c, okToSend) = NoBuffer
    /\ mac' = IF c.type = "TXRX" THEN Clear(mac, "dataToSend") ELSE mac
    /\ state' = "S_RXDATAOFFSET"
    /\ timer' = "fsm"
    /\ cell' = c
    /\ UNCHANGED <<isSync, radio, irq, autoTxCells, Upper>>

NothingToSend(c, okToSend) ==
    /\ CountSlot /\ state = "S_SLEEP"
    /\ c.type = "TX"
    /\ ToSend(c, okToSend) = NoBuffer
    /\ endSlot(Clear(mac, "dataToSend"), c)
    /\ UNCHANGED <<isSync, Upper>>

isr_ieee154e_newSlot ==
    \/ BecomeRoot \/ activity_synchronize_newSlot
    \/ Desynchronize \/ InactiveSlot
    \/ \E c \in ScheduledCells, okToSend \in BOOLEAN :
          /\ okToSend \/ c.isAutoCell \/ c.type = "TXRX"
          /\ StartTx(c, okToSend) \/ StartRx(c, okToSend) \/ NothingToSend(c, okToSend)

-----------------------------------------------------------------------------
(* isr_ieee154e_timer: the activities and time-outs of a slot *)

TimerFires(from) == timer = "fsm" /\ state \in from /\ ~Stale

Unsent == <<isSync, deSyncTimeout, Upper>>

\* An activity that arms the timer for the next one.
Proceed(to) ==
    /\ state' = to
    /\ UNCHANGED <<timer, cell, autoTxCells>>

\* The frame is secured and loaded in the radio.
activity_ti2 ==
    /\ TimerFires({"S_TXDATAOFFSET"})
    /\ Proceed("S_TXDATAREADY")
    /\ UNCHANGED <<radio, irq, mac, Unsent>>

\* Securing the frame fails, or it is too long and is given up.
activity_ti2_fails ==
    /\ TimerFires({"S_TXDATAOFFSET"})
    /\ \/ CryptoMayFail /\ endSlot(mac, cell)
       \/ endSlot(SetRetries(mac, mac.ptr["dataToSend"], 1), cell)
    /\ UNCHANGED Unsent

\* ti3 and ri7: the 'go' to transmit.
GoTransmit ==
    /\ \/ TimerFires({"S_TXDATAREADY"}) /\ Proceed("S_TXDATADELAY")
       \/ TimerFires({"S_TXACKREADY"})  /\ Proceed("S_TXACKDELAY")
    /\ radio' = "tx"
    /\ UNCHANGED <<irq, mac, Unsent>>

\* ti6 and ri2: some radios already listen once they are ready.
GetReady ==
    /\ \/ TimerFires({"S_RXACKOFFSET"})  /\ Proceed("S_RXACKREADY")
       \/ TimerFires({"S_RXDATAOFFSET"}) /\ Proceed("S_RXDATAREADY")
    /\ radio' \in {"off", "rx"}
    /\ UNCHANGED <<irq, mac, Unsent>>

\* ti7 and ri3: the 'go' to receive.
GoReceive ==
    /\ \/ TimerFires({"S_RXACKREADY"})  /\ Proceed("S_RXACKLISTEN")
       \/ TimerFires({"S_RXDATAREADY"}) /\ Proceed("S_RXDATALISTEN")
    /\ radio' = IF radio = "off" THEN "rx" ELSE radio
    /\ UNCHANGED <<irq, mac, Unsent>>

\* tie5: nobody acknowledged.
activity_tie5 ==
    /\ TimerFires({"S_RXACKLISTEN"})
    /\ endSlot(TransmissionFailed(mac), cell)
    /\ UNCHANGED Unsent

TimeOut_KeepsListening ==
    /\ TimerFires({"S_TXDATADELAY", "S_TXDATA", "S_RXACK", "S_RXDATALISTEN",
                   "S_RXDATA", "S_TXACKDELAY", "S_TXACK"})
    /\ IF state = "S_RXDATALISTEN"
       THEN UNCHANGED <<state, timer, cell, autoTxCells, radio, irq, mac>>
       ELSE endSlot(mac, cell)
    /\ UNCHANGED Unsent

\* tie2, tie3, tie6, rie2, rie3, rie5 and rie6: the radio did not do its part
\* in time, or nothing was received.
TimeOut ==
    /\ TimerFires({"S_TXDATADELAY", "S_TXDATA", "S_RXACK", "S_RXDATALISTEN",
                   "S_RXDATA", "S_TXACKDELAY", "S_TXACK"})
    /\ endSlot(mac, cell)
    /\ UNCHANGED Unsent

\* ri6: a buffer for the acknowledgement.  "We don't want to loose any"
\* packet, even without one; when securing the acknowledgement fails, it is
\* freed before endSlot cleans up.
activity_ri6 ==
    /\ TimerFires({"S_TXACKOFFSET"})
    /\ LET m == GetBuffer(mac, "ackToSend")
       IN  \/ /\ m.ptr["ackToSend"] = NoBuffer
              /\ endSlot(ReceptionDone(m), cell)
           \/ /\ m.ptr["ackToSend"] # NoBuffer
              /\ CryptoMayFail
              /\ endSlot(FreeBuffer(m, "ackToSend"), cell)
           \/ /\ m.ptr["ackToSend"] # NoBuffer
              /\ mac' = m
              /\ Proceed("S_TXACKREADY")
              /\ UNCHANGED <<radio, irq>>
    /\ UNCHANGED Unsent

isr_ieee154e_timer ==
    \/ activity_ti2 \/ activity_ti2_fails \/ GoTransmit \/ GetReady \/ GoReceive
    \/ activity_tie5 \/ TimeOut \/ activity_ri6

-----------------------------------------------------------------------------
(* ieee154e_startOfFrame *)

Raised(i) == irq = i

SyncStartOfFrame ==
    /\ ~isSync
    /\ state' = IF state = "S_SYNCLISTEN" THEN "S_SYNCRX" ELSE state
    /\ UNCHANGED <<radio, timer, cell, autoTxCells, mac>>

FrameStarts_ArmsNewSlot ==
    /\ isSync
    /\ \/ state = "S_TXDATADELAY" /\ state' = "S_TXDATA"
       \/ state \in {"S_RXACKREADY", "S_RXACKLISTEN"} /\ state' = "S_RXACK"
       \/ state \in {"S_RXDATAREADY", "S_RXDATALISTEN"} /\ state' = "S_RXDATA"
       \/ state = "S_TXACKDELAY" /\ state' = "S_TXACK"
    /\ timer' = "newSlot"
    /\ UNCHANGED <<cell, autoTxCells, radio, mac>>

\* ti4, ti8, ri4 and ri8: the timer is armed for the longest frame.
FrameStarts ==
    /\ isSync
    /\ \/ state = "S_TXDATADELAY" /\ Proceed("S_TXDATA")
       \/ state \in {"S_RXACKREADY", "S_RXACKLISTEN"} /\ Proceed("S_RXACK")
       \/ state \in {"S_RXDATAREADY", "S_RXDATALISTEN"} /\ Proceed("S_RXDATA")
       \/ state = "S_TXACKDELAY" /\ Proceed("S_TXACK")
    /\ UNCHANGED <<radio, mac>>

AwaitsStart == {"S_TXDATADELAY", "S_RXACKREADY", "S_RXACKLISTEN",
                "S_RXDATAREADY", "S_RXDATALISTEN", "S_TXACKDELAY"}

ieee154e_startOfFrame ==
    /\ Raised("sof")
    /\ \/ SyncStartOfFrame /\ irq' = "none"
       \/ FrameStarts /\ irq' = "none"
       \/ isSync /\ state \notin AwaitsStart /\ endSlot(mac, cell) /\ irq' = "none"
    /\ UNCHANGED Unsent

-----------------------------------------------------------------------------
(* ieee154e_endOfFrame *)

IgnoredEnd ==
    /\ ~isSync /\ state # "S_SYNCRX"
    /\ UNCHANGED <<isSync, deSyncTimeout, state, timer, radio, cell, autoTxCells, mac>>

\* Not synchronized: without a buffer the machine stays in S_SYNCPROC until
\* the next slot; a frame that is not a valid beacon is dropped.
NoBeacon ==
    /\ ~isSync /\ state = "S_SYNCRX"
    /\ LET m == GetBuffer(mac, "dataReceived")
       IN  \/ /\ m.ptr["dataReceived"] = NoBuffer
              /\ mac' = m
              /\ state' = "S_SYNCPROC"
           \/ /\ m.ptr["dataReceived"] # NoBuffer
              /\ mac' = Clear(FreeBuffer(m, "dataReceived"), "dataReceived")
              /\ state' = "S_SYNCLISTEN"
    /\ UNCHANGED <<isSync, deSyncTimeout, timer, radio, cell, autoTxCells>>

Beacon ==
    /\ ~isSync /\ state = "S_SYNCRX"
    /\ LET m == GetBuffer(mac, "dataReceived")
       IN  /\ m.ptr["dataReceived"] # NoBuffer
           /\ changeIsSync(TRUE)
           /\ endSlot(ReceptionDone(m), NoCell)
    /\ Synchronize

IsBroadcast(b) == mac.queue[b].nexthop = BROADCAST

\* ti5: a broadcast packet is done, a unicast one waits for its acknowledgement.
activity_ti5 ==
    /\ isSync /\ state = "S_TXDATA"
    /\ \/ /\ IsBroadcast(mac.ptr["dataToSend"])
          /\ endSlot(Clear(notif_sendDone(mac), "dataToSend"), cell)
       \/ /\ ~IsBroadcast(mac.ptr["dataToSend"])
          /\ state' = "S_RXACKOFFSET"
          /\ radio' = "off"
          /\ UNCHANGED <<timer, cell, autoTxCells, mac>>
    /\ UNCHANGED <<isSync, deSyncTimeout>>

activity_ti9_KeepsPacket ==
    /\ isSync /\ state = "S_RXACK"
    /\ LET m == GetBuffer(mac, "ackReceived")
       IN  /\ m.ptr["ackReceived"] # NoBuffer
           /\ endSlot(Clear(FreeBuffer(notif_sendDone(m), "ackReceived"), "ackReceived"), cell)
    /\ UNCHANGED <<isSync, deSyncTimeout>>

\* ti9: the acknowledgement is read in a buffer of its own; when it is not
\* valid, endSlot counts a failed transmission.
activity_ti9 ==
    /\ isSync /\ state = "S_RXACK"
    /\ LET m == GetBuffer(mac, "ackReceived")
           Freed(x) == Clear(FreeBuffer(x, "ackReceived"), "ackReceived")
       IN  \/ /\ m.ptr["ackReceived"] = NoBuffer
              /\ endSlot(m, cell)
              /\ UNCHANGED deSyncTimeout
           \/ /\ m.ptr["ackReceived"] # NoBuffer
              /\ endSlot(Freed(m), cell)
              /\ UNCHANGED deSyncTimeout
           \/ /\ m.ptr["ackReceived"] # NoBuffer
              /\ endSlot(Freed(Clear(notif_sendDone(m), "dataToSend")), cell)
              /\ \E fromParent \in BOOLEAN : MayChangeTimeout(fromParent /\ ~isDAGroot)
    /\ UNCHANGED isSync

\* ri5: an invalid frame is dropped, a frame to acknowledge is kept until the
\* acknowledgement is sent, another one goes up at once.
activity_ri5 ==
    /\ isSync /\ state = "S_RXDATA"
    /\ LET m == GetBuffer(mac, "dataReceived")
       IN  \/ /\ m.ptr["dataReceived"] = NoBuffer
              /\ endSlot(m, cell)
              /\ UNCHANGED deSyncTimeout
           \/ /\ m.ptr["dataReceived"] # NoBuffer
              /\ endSlot(Clear(FreeBuffer(m, "dataReceived"), "dataReceived"), cell)
              /\ UNCHANGED deSyncTimeout
           \/ /\ m.ptr["dataReceived"] # NoBuffer
              /\ mac' = m
              /\ state' = "S_TXACKOFFSET"
              /\ radio' = "off"
              /\ UNCHANGED <<timer, cell, autoTxCells, deSyncTimeout>>
           \/ /\ m.ptr["dataReceived"] # NoBuffer
              /\ endSlot(ReceptionDone(m), cell)
              /\ \E sync \in BOOLEAN : MayChangeTimeout(sync /\ ~isDAGroot)
    /\ UNCHANGED isSync

activity_ri9_KeepsAck ==
    /\ isSync /\ state = "S_TXACK"
    /\ endSlot(ReceptionDone(FreeBuffer(mac, "ackToSend")), cell)
    /\ UNCHANGED <<isSync, deSyncTimeout>>

\* ri9: the acknowledgement is sent, the frame goes up.  Without keys the node
\* synchronizes whoever sent the frame, even if it is the root.
activity_ri9 ==
    /\ isSync /\ state = "S_TXACK"
    /\ endSlot(ReceptionDone(Clear(FreeBuffer(mac, "ackToSend"), "ackToSend")), cell)
    /\ \E sync \in BOOLEAN : MayChangeTimeout(sync)
    /\ UNCHANGED isSync

UnexpectedEnd ==
    /\ isSync /\ state \notin {"S_TXDATA", "S_RXACK", "S_RXDATA", "S_TXACK"}
    /\ endSlot(mac, cell)
    /\ UNCHANGED <<isSync, deSyncTimeout>>

ieee154e_endOfFrame ==
    /\ Raised("eof")
    /\ irq' = "none"
    /\ \/ IgnoredEnd \/ NoBeacon \/ Beacon
       \/ activity_ti5 \/ activity_ti9 \/ activity_ri5 \/ activity_ri9
       \/ UnexpectedEnd
    /\ UNCHANGED Upper

-----------------------------------------------------------------------------
(* The radio (board support): a frame may start while the radio listens or   *)
(* transmits, and end later.                                                *)

RadioStarts ==
    /\ irq = "none"
    /\ \/ radio = "rx" /\ radio' = "rxFrame"
       \/ radio = "tx" /\ radio' = "txFrame"
    /\ irq' = "sof"
    /\ UNCHANGED <<state, timer, cell, autoTxCells, mac, Unsent>>

RadioEnds ==
    /\ irq = "none"
    /\ \/ radio = "rxFrame" /\ radio' = "rx"
       \/ radio = "txFrame" /\ radio' = "done"
    /\ irq' = "eof"
    /\ UNCHANGED <<state, timer, cell, autoTxCells, mac, Unsent>>

-----------------------------------------------------------------------------
(* The tasks of the upper layers: one runs at a time, and interrupts between *)
(* its critical sections.                                                    *)

Held == {b \in Buffer : mac.queue[b].owner \in {COMPONENT_OPENQUEUE, COMPONENT_SIXTOP}}

TaskMayRun == sendingTo = NOADDRESS /\ ~Stale

SlotUnchanged == UNCHANGED <<isSync, state, timer, deSyncTimeout, radio, irq>>
MacUnchanged  == SlotUnchanged /\ UNCHANGED cell

TaskStep ==
    /\ TaskMayRun /\ MacUnchanged
    /\ UNCHANGED <<isDAGroot, autoTxCells, negotiatedCells>>

TaskAllocates(creator) ==
    /\ TaskStep
    /\ LET b == openqueue_getFreePacketBuffer(mac.queue, isSync, creator)
       IN  /\ b # NoBuffer
           /\ mac' = [mac EXCEPT !.queue = SetOwner(SetCreator(@, b, creator),
                                                    b, COMPONENT_OPENQUEUE)]
    /\ UNCHANGED sendingTo

\* What the tasks send to whom: EBs and DIOs are broadcast, 6P messages are not,
\* a received packet is relayed by the forwarding component.
MessageOf(creator) ==
    IF creator = COMPONENT_SIXTOP_RES THEN {"request", "response"} ELSE {"undefined"}

DestinationsOf(creator) ==
    IF creator \in {COMPONENT_SIXTOP, COMPONENT_ICMPv6RPL} THEN Neighbor \cup {BROADCAST}
    ELSE Neighbor

CreatorOf(b) ==
    IF mac.queue[b].creator = COMPONENT_IEEE802154E THEN COMPONENT_FORWARDING
    ELSE mac.queue[b].creator

\* sixtop_send_internal: the packet is the MAC's before its cell is looked for.
sixtop_send_internal(b, to, message) ==
    /\ TaskStep
    /\ b \in Held
    /\ to \in DestinationsOf(CreatorOf(b)) /\ message \in MessageOf(CreatorOf(b))
    /\ mac' = [mac EXCEPT !.queue[b] =
                  [creator |-> CreatorOf(b), owner |-> COMPONENT_SIXTOP_TO_IEEE802154E,
                   nexthop |-> to, messageType |-> message,
                   retriesLeft |-> IF to = BROADCAST THEN 1 ELSE TXRETRIES + 1]]
    /\ sendingTo' = IF to = BROADCAST THEN NOADDRESS ELSE to

\* Its second part: an autonomous Tx cell when there is no cell to the neighbor
\* (what schedule_addActiveSlot returns is not looked at).
AddsAutoTxCell ==
    /\ sendingTo # NOADDRESS /\ ~Stale
    /\ \/ autoTxCells' = IF sendingTo \in negotiatedCells THEN autoTxCells
                         ELSE autoTxCells \cup {sendingTo}
       \/ /\ ScheduleMayOverflow /\ sendingTo \notin negotiatedCells
          /\ UNCHANGED autoTxCells
    /\ sendingTo' = NOADDRESS
    /\ MacUnchanged
    /\ UNCHANGED <<isDAGroot, negotiatedCells, mac>>

TaskFrees(b) ==
    /\ TaskStep /\ b \in Held
    /\ mac' = [mac EXCEPT !.queue = openqueue_freePacketBuffer(@, b)]
    /\ UNCHANGED sendingTo

\* The packet found, or NoBuffer, goes to the task that was notified.
Take(m, b, error) ==
    IF b = NoBuffer THEN [m EXCEPT !.critical = @ \cup {error}]
    ELSE [m EXCEPT !.queue = SetOwner(@, b, COMPONENT_SIXTOP)]

task_sixtopNotifSendDone ==
    /\ TaskStep
    /\ mac.sendDoneTasks > 0
    /\ mac' = Take([mac EXCEPT !.sendDoneTasks = @ - 1],
                   openqueue_sixtopGetSentPacket(mac.queue), "ERR_NO_SENT_PACKET")
    /\ UNCHANGED sendingTo

task_sixtopNotifReceive ==
    /\ TaskStep
    /\ mac.receiveTasks > 0
    /\ mac' = Take([mac EXCEPT !.receiveTasks = @ - 1],
                   openqueue_sixtopGetReceivedPacket(mac.queue), "ERR_NO_RECEIVED_PACKET")
    /\ UNCHANGED sendingTo

\* For instance sixtop_sendEB and sixtop_sendKA when they cannot send.
TaskRemoves(creator) ==
    /\ TasksRemove
    /\ TaskStep
    /\ mac.sendDoneTasks <= MaxPendingTasks
    /\ mac' = [mac EXCEPT !.queue = openqueue_removeAllCreatedBy(@, creator)]
    /\ UNCHANGED sendingTo

\* sixtop_addCells, for a transaction of 6P with the neighbor.
AddsNegotiatedCell(n) ==
    /\ TaskMayRun
    /\ n \in Negotiated
    /\ negotiatedCells' = negotiatedCells \cup {n}
    /\ MacUnchanged
    /\ UNCHANGED <<isDAGroot, autoTxCells, sendingTo, mac>>

\* The current entry in a slot, if its cell is the one schedule_removeActiveSlot removes:
\* a cell that waited behind it in the same slot takes the entry, or the entry
\* before it becomes the current one and endSlot does not recognise it.
EntryAfterRemoval(removed) ==
    cell' \in {cell} \cup IF cell = removed /\ state # "S_SLEEP"
                        THEN {NoCell} \cup ScheduledCells' ELSE {}

\* sixtop_removeCells, and one round of schedule_removeAllNegotiatedCellsToNeighbor;
\* there may be another cell to the neighbor.
RemovesNegotiatedCell(n) ==
    /\ CellsMayGo /\ TaskMayRun
    /\ n \in negotiatedCells
    /\ negotiatedCells' \in {negotiatedCells, negotiatedCells \ {n}}
    /\ UNCHANGED <<isDAGroot, autoTxCells, sendingTo, mac>>
    /\ SlotUnchanged
    /\ EntryAfterRemoval([type |-> "TX", neighbor |-> n, isAutoCell |-> FALSE])

\* A round of the same loop: it takes every Tx cell, also the autonomous one.
RemovesAutoTxCell(n) ==
    /\ CellsMayGo /\ TaskMayRun
    /\ n \in autoTxCells
    /\ autoTxCells' = autoTxCells \ {n}
    /\ UNCHANGED <<isDAGroot, negotiatedCells, sendingTo, mac>>
    /\ SlotUnchanged
    /\ EntryAfterRemoval([type |-> "TX", neighbor |-> n, isAutoCell |-> TRUE])

\* icmpv6rpl_updateNexthopAddress: no cell to the new parent is looked for.  Only
\* relayed packets are source-routed.
ChangesParent(n) ==
    /\ ParentMayChange
    /\ TaskStep
    /\ ~isDAGroot
    /\ \E sourceRouted \in SUBSET {b \in Waiting(mac.queue) :
                                       mac.queue[b].creator = COMPONENT_FORWARDING} :
          mac' = [mac EXCEPT !.queue = openqueue_updateNextHopPayload(@, n, sourceRouted)]
    /\ UNCHANGED sendingTo

\* idmanager_triggerAboutRoot, a command of the serial port.
RoleChanges ==
    /\ RoleMayChange
    /\ TaskMayRun
    /\ isDAGroot' = ~isDAGroot
    /\ MacUnchanged
    /\ UNCHANGED <<autoTxCells, negotiatedCells, sendingTo, mac>>

\* A critical error schedules a reset of the board.
BoardReset ==
    /\ mac.critical # {}
    /\ isDAGroot' = BootsAsDAGroot /\ isSync' = BootsAsDAGroot
    /\ state' = "S_SLEEP" /\ timer' = "newSlot" /\ deSyncTimeout' = 0
    /\ radio' = "off" /\ irq' = "none"
    /\ cell' = NoCell /\ sendingTo' = NOADDRESS
    /\ autoTxCells' = {} /\ negotiatedCells' = {}
    /\ mac' = InitialMac

-----------------------------------------------------------------------------
Interrupt ==
    \/ isr_ieee154e_newSlot \/ isr_ieee154e_timer
    \/ ieee154e_startOfFrame \/ ieee154e_endOfFrame

Radio == RadioStarts \/ RadioEnds

Notified == task_sixtopNotifSendDone \/ task_sixtopNotifReceive

Task ==
    \/ \E creator \in TaskCreator : TaskAllocates(creator) \/ TaskRemoves(creator)
    \/ \E b \in Buffer, to \in Address, message \in SixMessage :
          sixtop_send_internal(b, to, message)
    \/ \E b \in Buffer : TaskFrees(b)
    \/ \E n \in Neighbor : \/ AddsNegotiatedCell(n) \/ ChangesParent(n)
                           \/ RemovesNegotiatedCell(n) \/ RemovesAutoTxCell(n)
    \/ AddsAutoTxCell \/ Notified \/ RoleChanges

Next == (Interrupt \/ Radio \/ Task \/ BoardReset) /\ UNCHANGED trouble

Spec == Init /\ [][Next]_<<vars, trouble>>

\* The timer fires, the radio's interrupts are served, a task gets the core
\* between interrupts until it ends, and the slotframe comes back to the cells
\* to a neighbor, where the backoff of a shared cell runs out in the end.
StartsTxTo(n) == \E c \in ScheduledCells : c.neighbor = n /\ StartTx(c, TRUE)

Fairness ==
    /\ WF_vars(isr_ieee154e_newSlot) /\ WF_vars(isr_ieee154e_timer)
    /\ WF_vars(ieee154e_startOfFrame) /\ WF_vars(ieee154e_endOfFrame)
    /\ SF_vars(AddsAutoTxCell)
    /\ \A n \in Neighbor : SF_vars(StartsTxTo(n))

FairSpec == Spec /\ Fairness

-----------------------------------------------------------------------------
(* Properties *)

TypeOK ==
    /\ isDAGroot \in BOOLEAN /\ isSync \in BOOLEAN
    /\ state \in State
    /\ timer \in {"newSlot", "fsm"}
    /\ deSyncTimeout \in 0..DESYNCTIMEOUT
    /\ radio \in {"off", "rx", "rxFrame", "tx", "txFrame", "done"}
    /\ irq \in {"none", "sof", "eof"}
    /\ cell \in [type : CellType, neighbor : Address, isAutoCell : BOOLEAN]
    /\ autoTxCells \subseteq Neighbor
    /\ negotiatedCells \subseteq Negotiated
    /\ sendingTo \in Neighbor \cup {NOADDRESS}
    /\ mac \in Mac
    /\ trouble \in Trouble

\* A slot never starts while the previous one is going on
\* (ERR_WRONG_STATE_IN_STARTSLOT cannot happen), and the activities of a slot
\* are only timed while the node is synchronized
\* (ERR_WRONG_STATE_IN_TIMERFIRES cannot happen).
SlotsDoNotOverlap ==
    /\ (timer = "newSlot" /\ isSync) => state = "S_SLEEP"
    /\ timer = "fsm" => isSync /\ state \notin SyncStates \cup {"S_SLEEP"}

Owned(p) == mac.ptr[p] # NoBuffer

\* The MAC owns exactly the buffers it has a pointer to, one pointer each, and
\* has a pointer exactly in the states that use it: no buffer is leaked or
\* shared by two activities, no activity follows a NULL pointer.
MacBuffers ==
    /\ {b \in Buffer : mac.queue[b].owner = COMPONENT_IEEE802154E}
          = {mac.ptr[p] : p \in {p \in Pointer : Owned(p)}}
    /\ \A p, r \in Pointer : (Owned(p) /\ mac.ptr[p] = mac.ptr[r]) => p = r
    /\ Owned("dataToSend") <=> state \in TxDataStates \cup RxAckStates
    /\ Owned("dataReceived") <=> state \in TxAckStates
    /\ Owned("ackToSend") <=> state \in TxAckStates \ {"S_TXACKOFFSET"}
    /\ ~Owned("ackReceived")

\* Every packet given back to sixtop has a task that will fetch it: none is
\* stranded in the packet buffers.
NoPacketStranded ==
    /\ Cardinality(SentPackets(mac.queue)) <= mac.sendDoneTasks
    /\ Cardinality(ReceivedPackets(mac.queue)) = mac.receiveTasks

\* A packet that waits has a transmission left, so that the count of its
\* attempts cannot wrap below zero; a broadcast packet has exactly one.
AttemptsLeft ==
    \A b \in Waiting(mac.queue) :
        /\ mac.queue[b].retriesLeft \in 1..(TXRETRIES + 1)
        /\ mac.queue[b].nexthop = BROADCAST => mac.queue[b].retriesLeft = 1

\* The packets to send: those that wait and the one in the air.
Pending(m) ==
    {b \in Buffer : \/ m.queue[b].owner = COMPONENT_SIXTOP_TO_IEEE802154E
                    \/ b = m.ptr["dataToSend"]}

\* Those among them with no cell to their neighbor: they wait until a task sends
\* the neighbor another packet and adds one.
Stranded ==
    {b \in Pending(mac) :
        mac.queue[b].nexthop \in Neighbor \ (autoTxCells \cup negotiatedCells \cup {sendingTo})}

\* The three ways the code strands a packet, all of them steps of a task.
RemovesCells      == \E n \in Neighbor : RemovesNegotiatedCell(n) \/ RemovesAutoTxCell(n)
ParentChanges     == \E n \in Neighbor : ChangesParent(n)
ScheduleOverflows == AddsAutoTxCell /\ sendingTo \notin autoTxCells' \cup negotiatedCells

\* Nothing else strands one: the MAC, which removes autonomous cells in an
\* interrupt while the task that sends tests for them, never takes the cell of a
\* packet that waits or will wait again after this slot, and no packet is handed
\* down without a cell.
CellForEveryPacket ==
    [][\/ Stranded' \subseteq Stranded
       \/ RemovesCells \/ ParentChanges \/ ScheduleOverflows]_vars

\* Without a fault outside the MAC, none of the critical errors that reset the
\* board is logged: no buffer is freed twice, no notification finds nothing.
NoCriticalError == mac.critical = {}

\* An active slot ends: whatever the radio hears or misses, the machine is back
\* to sleep (or desynchronized and listening) before long.
SlotEnds == state \notin SyncStates \cup {"S_SLEEP"} ~> state \in SyncStates \cup {"S_SLEEP"}

\* A packet that waits for a neighbor makes a packet to it come back to sixtop,
\* sent or given up, even if acknowledgements are lost for ever.
PacketsComeBack ==
    \A n \in Neighbor :
        (\E b \in Waiting(mac.queue) : mac.queue[b].nexthop = n)
            ~> (\E b \in SentPackets(mac.queue) : mac.queue[b].nexthop = n)

\* The MAC, its buffers and its notifications are a link service.
Link == INSTANCE LinkService WITH
    Packet <- Buffer,
    given <- Waiting(mac.queue),
    sending <- {mac.ptr["dataToSend"]} \ {NoBuffer},
    returned <- SentPackets(mac.queue),
    received <- ReceivedPackets(mac.queue),
    sendReports <- mac.sendDoneTasks,
    receiveReports <- mac.receiveTasks

ImplementsLink == Link!LinkSpec
=============================================================================
