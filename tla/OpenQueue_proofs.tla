--------------------------- MODULE OpenQueue_proofs --------------------------
(***************************************************************************)
(* Lemmas about the operations on the packet buffers, for the proofs of the  *)
(* modules that share the buffers: what each call returns, changes and       *)
(* leaves alone.                                                             *)
(***************************************************************************)
EXTENDS OpenQueue, WellFoundedInduction, TLAPS

USE DEF COMPONENT_NULL, COMPONENT_OPENQUEUE, COMPONENT_IEEE802154E,
        COMPONENT_SIXTOP_TO_IEEE802154E, COMPONENT_IEEE802154E_TO_SIXTOP,
        COMPONENT_SIXTOP, COMPONENT_SIXTOP_RES, COMPONENT_FORWARDING,
        COMPONENT_ICMPv6RPL, NoBuffer

\* FirstOf returns a member of the set, or NoBuffer when it is empty: the walk
\* of every lookup of openqueue.c ends on an entry that matches.
LEMMA FirstOfProperties ==
    ASSUME NEW S \in SUBSET Buffer
    PROVE  /\ FirstOf(S) \in S \cup {NoBuffer}
           /\ FirstOf(S) # NoBuffer => FirstOf(S) \in S
           /\ S # {} => FirstOf(S) \in S
PROOF
<1>1. CASE S = {}
    BY <1>1 DEF FirstOf
<1>2. CASE S # {}
    <2>1. S \subseteq Nat
        BY QueueLengthAssumption DEF Buffer
    <2>2. PICK b \in S : \A d \in S : <<d, b>> \notin OpToRel(<, Nat)
        BY <1>2, <2>1, WFMin, NatLessThanWellFounded
    <2>3. ASSUME NEW d \in S PROVE b <= d
        <3>1. <<d, b>> \in Nat \X Nat
            BY <2>1
        <3>2. ~(d < b)
            BY <2>2, <3>1 DEF OpToRel
        <3> QED BY <2>1, <3>2
    <2> QED BY <1>2, <2>3 DEF FirstOf
<1> QED BY <1>1, <1>2

\* Resetting an entry (openqueue_reset_entry) gives an entry nobody owns.
LEMMA ResetProperties ==
    ASSUME NEW e \in Entry
    PROVE  /\ openqueue_reset_entry(e) \in Entry
           /\ openqueue_reset_entry(e).owner = COMPONENT_NULL
           /\ openqueue_reset_entry(e).creator = COMPONENT_NULL
BY DEF openqueue_reset_entry, ResetEntry, Entry, Component, SixMessage, Address

\* Changing the owner or the creator of an entry leaves the rest alone.
LEMMA SetOwnerProperties ==
    ASSUME NEW q \in Queue, NEW b \in Buffer, NEW o \in Component
    PROVE  /\ SetOwner(q, b, o) \in Queue
           /\ SetOwner(q, b, o)[b].owner = o
           /\ \A d \in Buffer : SetOwner(q, b, o)[d].creator = q[d].creator
           /\ \A d \in Buffer \ {b} : SetOwner(q, b, o)[d] = q[d]
PROOF
<1>1. [q[b] EXCEPT !.owner = o] \in Entry
    BY DEF Entry, Queue
<1>2. [q[b] EXCEPT !.owner = o].owner = o
    BY DEF Entry, Queue
<1>3. [q[b] EXCEPT !.owner = o].creator = q[b].creator
    BY DEF Entry, Queue
<1>4. SetOwner(q, b, o) = [q EXCEPT ![b] = [q[b] EXCEPT !.owner = o]]
    BY DEF SetOwner
<1> QED BY <1>1, <1>2, <1>3, <1>4 DEF Queue

LEMMA SetOwnerEntry ==
    ASSUME NEW q \in Queue, NEW b \in Buffer, NEW o \in Component
    PROVE  SetOwner(q, b, o)[b] = [q[b] EXCEPT !.owner = o]
BY DEF SetOwner, Queue

LEMMA SetCreatorProperties ==
    ASSUME NEW q \in Queue, NEW b \in Buffer, NEW c \in Component
    PROVE  /\ SetCreator(q, b, c) \in Queue
           /\ SetCreator(q, b, c)[b].creator = c
           /\ \A d \in Buffer : SetCreator(q, b, c)[d].owner = q[d].owner
           /\ \A d \in Buffer \ {b} : SetCreator(q, b, c)[d] = q[d]
PROOF
<1>1. [q[b] EXCEPT !.creator = c] \in Entry
    BY DEF Entry, Queue
<1>2. [q[b] EXCEPT !.creator = c].creator = c
    BY DEF Entry, Queue
<1>3. [q[b] EXCEPT !.creator = c].owner = q[b].owner
    BY DEF Entry, Queue
<1>4. SetCreator(q, b, c) = [q EXCEPT ![b] = [q[b] EXCEPT !.creator = c]]
    BY DEF SetCreator
<1> QED BY <1>1, <1>2, <1>3, <1>4 DEF Queue

\* openqueue_freePacketBuffer empties one entry, openqueue_removeAllCreatedBy
\* the entries of one creator that the MAC does not own.
LEMMA FreeProperties ==
    ASSUME NEW q \in Queue, NEW b \in Buffer
    PROVE  /\ openqueue_freePacketBuffer(q, b) \in Queue
           /\ openqueue_freePacketBuffer(q, b)[b].owner = COMPONENT_NULL
           /\ openqueue_freePacketBuffer(q, b)[b].creator = COMPONENT_NULL
           /\ \A d \in Buffer \ {b} : openqueue_freePacketBuffer(q, b)[d] = q[d]
BY ResetProperties DEF Queue, openqueue_freePacketBuffer

LEMMA RemoveProperties ==
    ASSUME NEW q \in Queue, NEW c
    PROVE  /\ openqueue_removeAllCreatedBy(q, c) \in Queue
           /\ \A d \in Buffer :
                \/ openqueue_removeAllCreatedBy(q, c)[d] = q[d]
                \/ /\ q[d].creator = c
                   /\ q[d].owner # COMPONENT_IEEE802154E
                   /\ openqueue_removeAllCreatedBy(q, c)[d].owner = COMPONENT_NULL
                   /\ openqueue_removeAllCreatedBy(q, c)[d].creator = COMPONENT_NULL
BY ResetProperties DEF Queue, openqueue_removeAllCreatedBy

\* openqueue_updateNextHopPayload changes the next hop of packets that wait, and
\* nothing else.
LEMMA UpdateProperties ==
    ASSUME NEW q \in Queue, NEW n \in Neighbor, NEW S
    PROVE  /\ openqueue_updateNextHopPayload(q, n, S) \in Queue
           /\ \A d \in Buffer :
                \/ openqueue_updateNextHopPayload(q, n, S)[d] = q[d]
                \/ /\ d \in Waiting(q)
                   /\ openqueue_updateNextHopPayload(q, n, S)[d] = [q[d] EXCEPT !.nexthop = n]
<1>1. n \in Address
    BY DEF Address
<1>2. ASSUME NEW d \in Buffer
      PROVE  q[d] \in Entry /\ [q[d] EXCEPT !.nexthop = n] \in Entry
    BY <1>1 DEF Queue, Entry
<1> QED BY <1>2 DEF openqueue_updateNextHopPayload, Queue

\* The buffer of a successful openqueue_getFreePacketBuffer was free.
LEMMA GetFreeProperties ==
    ASSUME NEW q, NEW sync, NEW c,
           openqueue_getFreePacketBuffer(q, sync, c) # NoBuffer
    PROVE  /\ openqueue_getFreePacketBuffer(q, sync, c) \in Buffer
           /\ q[openqueue_getFreePacketBuffer(q, sync, c)].owner = COMPONENT_NULL
<1>1. FreeBuffers(q) \in SUBSET Buffer
    BY DEF FreeBuffers
<1>2. openqueue_getFreePacketBuffer(q, sync, c) = FirstOf(FreeBuffers(q))
    BY DEF openqueue_getFreePacketBuffer
<1>3. FirstOf(FreeBuffers(q)) \in FreeBuffers(q)
    BY <1>1, <1>2, FirstOfProperties
<1> QED BY <1>2, <1>3 DEF FreeBuffers
=============================================================================
