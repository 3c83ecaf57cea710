----------------------------- MODULE OpenQueue ------------------------------
(***************************************************************************)
(* The packet buffers (openstack/cross-layers/openqueue.c): what each call   *)
(* of the module does to the array of entries.  The array is a function q    *)
(* from buffers to entries; a lookup returns a buffer, or NoBuffer for the   *)
(* NULL pointer of the code.  The modules that call the queue keep q as a    *)
(* variable: each call runs with interrupts disabled, so a caller composes   *)
(* the calls its handler makes.                                              *)
(*                                                                          *)
(* An entry keeps the fields the other modules read: the component that      *)
(* created the packet, the component that owns it now, the next hop, the     *)
(* kind of a 6P message and the transmissions left.  Payload and headers     *)
(* are left out.                                                             *)
(***************************************************************************)
EXTENDS Integers, FiniteSets

CONSTANTS
    QUEUELENGTH,                 \* number of packet buffers
    HIGH_PRIORITY_QUEUE_ENTRY,   \* buffers kept from low-priority creators
    Neighbor                     \* the unicast next hops

ASSUME QueueLengthAssumption  == QUEUELENGTH \in Nat \ {0}
ASSUME HighPriorityAssumption == HIGH_PRIORITY_QUEUE_ENTRY \in 1..QUEUELENGTH

Buffer   == 1..QUEUELENGTH
NoBuffer == 0

\* The component identifiers the queue compares ("order is important").
COMPONENT_NULL                  == 0
COMPONENT_OPENQUEUE             == 3
COMPONENT_IEEE802154E           == 9
COMPONENT_SIXTOP_TO_IEEE802154E == 10
COMPONENT_IEEE802154E_TO_SIXTOP == 11
COMPONENT_SIXTOP                == 12
COMPONENT_SIXTOP_RES            == 15
COMPONENT_FRAG                  == 19
COMPONENT_FORWARDING            == 20
COMPONENT_ICMPv6RPL             == 24
Component                       == 0..45

NOADDRESS  == "none"
BROADCAST  == "broadcast"
Address    == Neighbor \cup {NOADDRESS, BROADCAST}
SixMessage == {"undefined", "request", "response"}

ASSUME NeighborAssumption == Neighbor \cap {NOADDRESS, BROADCAST} = {}

Entry == [creator : Component, owner : Component, nexthop : Address,
          messageType : SixMessage, retriesLeft : Nat]

Queue == [Buffer -> Entry]

ResetEntry == [creator |-> COMPONENT_NULL, owner |-> COMPONENT_NULL,
               nexthop |-> NOADDRESS, messageType |-> "undefined",
               retriesLeft |-> 0]

\* openqueue_reset_entry clears every field but l2_sixtop_messageType.
openqueue_reset_entry(e) == [ResetEntry EXCEPT !.messageType = e.messageType]

openqueue_init == [b \in Buffer |-> ResetEntry]

\* The first buffer of the array in S, NULL when there is none.
FirstOf(S) == IF S = {} THEN NoBuffer ELSE CHOOSE b \in S : \A d \in S : b <= d

-----------------------------------------------------------------------------
(* Plausible slips: each replaces the definition it is named after in one   *)
(* run, and must break the property that run checks.                        *)

EnoughForHighPriority_OffByOne(q) ==
    Cardinality({b \in Buffer : q[b].creator > COMPONENT_SIXTOP_RES})
        <= QUEUELENGTH - HIGH_PRIORITY_QUEUE_ENTRY + 1

removeAllCreatedBy_InFlightToo(q, creator) ==
    [b \in Buffer |-> IF q[b].creator = creator THEN openqueue_reset_entry(q[b]) ELSE q[b]]

macGetUnicastPacket_AnyOwner(q, neighbor) ==
    FirstOf({b \in Buffer : q[b].nexthop = neighbor})

-----------------------------------------------------------------------------
(* Allocation and release *)

LowPriority(q) == {b \in Buffer : q[b].creator > COMPONENT_SIXTOP_RES}

openqueue_isHighPriorityEntryEnough(q) ==
    Cardinality(LowPriority(q)) <= QUEUELENGTH - HIGH_PRIORITY_QUEUE_ENTRY

MayAllocate(q, isSync, creator) ==
    /\ isSync \/ creator <= COMPONENT_IEEE802154E
    /\ openqueue_isHighPriorityEntryEnough(q) \/ creator <= COMPONENT_SIXTOP_RES

FreeBuffers(q) == {b \in Buffer : q[b].owner = COMPONENT_NULL}

openqueue_getFreePacketBuffer(q, isSync, creator) ==
    IF MayAllocate(q, isSync, creator) THEN FirstOf(FreeBuffers(q)) ELSE NoBuffer

\* The assignments to the fields of an entry, by the queue and by its callers.
SetCreator(q, b, creator) == [q EXCEPT ![b].creator = creator]
SetOwner(q, b, owner)     == [q EXCEPT ![b].owner = owner]

\* An entry is reset whether it was in use or not; freeing one that is not in
\* use also logs ERR_FREEING_UNUSED as a critical error.
openqueue_freePacketBuffer(q, b) == [q EXCEPT ![b] = openqueue_reset_entry(@)]

openqueue_removeAllCreatedBy(q, creator) ==
    [b \in Buffer |->
        IF q[b].creator = creator /\ q[b].owner # COMPONENT_IEEE802154E
        THEN openqueue_reset_entry(q[b]) ELSE q[b]]

-----------------------------------------------------------------------------
(* Lookups by sixtop *)

SentPackets(q) ==
    {b \in Buffer : /\ q[b].owner = COMPONENT_IEEE802154E_TO_SIXTOP
                    /\ q[b].creator # COMPONENT_IEEE802154E}

ReceivedPackets(q) ==
    {b \in Buffer : /\ q[b].owner = COMPONENT_IEEE802154E_TO_SIXTOP
                    /\ q[b].creator = COMPONENT_IEEE802154E}

openqueue_sixtopGetSentPacket(q)     == FirstOf(SentPackets(q))
openqueue_sixtopGetReceivedPacket(q) == FirstOf(ReceivedPackets(q))

-----------------------------------------------------------------------------
(* Lookups by the MAC: only packets sixtop handed down are candidates *)

Waiting(q) == {b \in Buffer : q[b].owner = COMPONENT_SIXTOP_TO_IEEE802154E}

openqueue_macGetEBPacket(q) ==
    FirstOf({b \in Waiting(q) : /\ q[b].creator = COMPONENT_SIXTOP
                                /\ q[b].nexthop = BROADCAST})

openqueue_macGetKaPacket(q, neighbor) ==
    FirstOf({b \in Waiting(q) : /\ q[b].creator = COMPONENT_SIXTOP
                                /\ q[b].nexthop = neighbor})

openqueue_macGetDIOPacket(q) ==
    FirstOf({b \in Waiting(q) : /\ q[b].creator = COMPONENT_ICMPv6RPL
                                /\ q[b].nexthop = BROADCAST})

\* After a change of parent the packets that wait, of forwarding and of the
\* components above it, get the new next hop, broadcasts too; the source-routed
\* ones keep theirs.
openqueue_updateNextHopPayload(q, newNextHop, sourceRouted) ==
    [b \in Buffer |->
        IF b \in Waiting(q) \ sourceRouted /\ q[b].creator >= COMPONENT_FORWARDING
        THEN [q[b] EXCEPT !.nexthop = newNextHop] ELSE q[b]]

\* A 6P response goes before any other packet to the neighbor.
openqueue_macGetUnicastPacket(q, neighbor) ==
    LET toNeighbor == {b \in Waiting(q) : q[b].nexthop = neighbor}
        responses  == {b \in toNeighbor : /\ q[b].creator = COMPONENT_SIXTOP_RES
                                          /\ q[b].messageType = "response"}
    IN  FirstOf(IF responses # {} THEN responses ELSE toNeighbor)
=============================================================================
