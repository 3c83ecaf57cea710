----------------------- MODULE OpenQueueSharing_proofs ----------------------
(***************************************************************************)
(* Proofs about the shared packet buffers: type correctness and the bound    *)
(* kept for the high-priority creators on every port, exclusive use on the   *)
(* ports whose ENABLE_INTERRUPTS restores the previous state.                *)
(***************************************************************************)
EXTENDS OpenQueueSharing, OpenQueue_proofs, FiniteSetTheorems

USE DEF COMPONENT_NULL, COMPONENT_OPENQUEUE, COMPONENT_IEEE802154E,
        COMPONENT_SIXTOP_TO_IEEE802154E, COMPONENT_IEEE802154E_TO_SIXTOP,
        COMPONENT_SIXTOP, COMPONENT_SIXTOP_RES, COMPONENT_FRAG, COMPONENT_FORWARDING,
        COMPONENT_ICMPv6RPL, NoBuffer

\* The identifiers of opendefs.h are component identifiers.
LEMMA ComponentIdentifiers ==
    /\ COMPONENT_NULL \in Component
    /\ COMPONENT_OPENQUEUE \in Component
    /\ COMPONENT_IEEE802154E \in Component
    /\ COMPONENT_SIXTOP_TO_IEEE802154E \in Component
    /\ COMPONENT_IEEE802154E_TO_SIXTOP \in Component
    /\ COMPONENT_SIXTOP \in Component
    /\ COMPONENT_FRAG \in Component
    /\ COMPONENT_FORWARDING \in Component
    /\ TaskCreator \subseteq Component
BY TaskCreatorAssumption DEF Component

-----------------------------------------------------------------------------
(* Type correctness *)

\* Every variable of the model keeps its type, the walk of
\* openqueue_getFreePacketBuffer stays in the array.
THEOREM SharingTypeOK == Spec => []TypeOK
PROOF
<1>1. Init => TypeOK
    <2>1. openqueue_init \in Queue
        BY DEF openqueue_init, Queue, ResetEntry, Entry, Component, SixMessage, Address
    <2>2. 1 \in Buffer
        BY QueueLengthAssumption DEF Buffer
    <2> QED BY <2>1, <2>2 DEF Init, TypeOK
<1>2. TypeOK /\ [Next]_vars => TypeOK'
    <2> SUFFICES ASSUME TypeOK, [Next]_vars PROVE TypeOK'
        OBVIOUS
    <2> USE DEF TypeOK
    <2>1. ASSUME NEW creator \in TaskCreator, Enter(creator) PROVE TypeOK'
        BY <2>1 DEF Enter
    <2>2. CASE Check
        <3>1. i' \in Buffer
            BY <2>2, QueueLengthAssumption DEF Check, Buffer
        <3>2. masked' \in BOOLEAN
            BY <2>2, PortAssumption DEF Check
        <3> QED BY <2>2, <3>1, <3>2 DEF Check
    <2>3. CASE Scan
        <3>1. i' \in Buffer
            BY <2>3, QueueLengthAssumption DEF Scan, Buffer
        <3>2. masked' \in BOOLEAN
            BY <2>3 DEF Scan
        <3> QED BY <2>3, <3>1, <3>2 DEF Scan
    <2>4. CASE ClaimCreator
        BY <2>4, ComponentIdentifiers, SetCreatorProperties, ComponentIdentifiers DEF ClaimCreator
    <2>5. CASE ClaimOwner
        BY <2>5, SetOwnerProperties, ComponentIdentifiers DEF ClaimOwner
    <2>6. ASSUME NEW b \in Buffer, TaskFrees(b) PROVE TypeOK'
        BY <2>6, FreeProperties DEF TaskFrees
    <2>7. ASSUME NEW b \in Buffer, TaskSends(b) PROVE TypeOK'
        BY <2>7, SetOwnerProperties, ComponentIdentifiers DEF TaskSends
    <2>8. ASSUME NEW b \in Buffer, TaskNotified(b) PROVE TypeOK'
        BY <2>8, SetOwnerProperties, ComponentIdentifiers DEF TaskNotified
    <2>9. ASSUME NEW b \in Buffer, TaskRelays(b) PROVE TypeOK'
        <3>1. SetCreator(queue, b, COMPONENT_FORWARDING) \in Queue
            BY SetCreatorProperties, ComponentIdentifiers
        <3>2. queue' \in Queue
            BY <2>9, <3>1, SetOwnerProperties, ComponentIdentifiers DEF TaskRelays
        <3> QED BY <2>9, <3>2 DEF TaskRelays
    <2>18. ASSUME NEW b \in Buffer, TaskKeepsFragment(b) PROVE TypeOK'
        <3>1. SetCreator(queue, b, COMPONENT_FRAG) \in Queue
            BY SetCreatorProperties, ComponentIdentifiers
        <3>2. queue' \in Queue
            BY <2>18, <3>1, SetOwnerProperties, ComponentIdentifiers DEF TaskKeepsFragment
        <3> QED BY <2>18, <3>2 DEF TaskKeepsFragment
    <2>10. CASE RelayCheck
        BY <2>10, FreeProperties DEF RelayCheck
    <2>11. ASSUME NEW creator \in TaskCreator, TaskRemoves(creator) PROVE TypeOK'
        BY <2>11, RemoveProperties DEF TaskRemoves
    <2>12. CASE MacGets
        <3> DEFINE b == openqueue_getFreePacketBuffer(queue, isSync, COMPONENT_IEEE802154E)
        <3>1. b \in Buffer
            BY <2>12, GetFreeProperties DEF MacGets
        <3>2. SetCreator(queue, b, COMPONENT_IEEE802154E) \in Queue
            BY <3>1, SetCreatorProperties, ComponentIdentifiers
        <3>3. queue' \in Queue
            BY <2>12, <3>1, <3>2, SetOwnerProperties, ComponentIdentifiers DEF MacGets
        <3>4. mac' \subseteq Buffer
            BY <2>12, <3>1 DEF MacGets
        <3> QED BY <2>12, <3>3, <3>4 DEF MacGets
    <2>13. CASE MacChangesSync
        BY <2>13 DEF MacChangesSync
    <2>14. ASSUME NEW b \in Buffer, MacFrees(b) PROVE TypeOK'
        BY <2>14, FreeProperties DEF MacFrees
    <2>15. ASSUME NEW b \in Buffer, MacTakes(b) PROVE TypeOK'
        BY <2>15, SetOwnerProperties, ComponentIdentifiers DEF MacTakes
    <2>16. ASSUME NEW b \in Buffer, MacReturns(b) PROVE TypeOK'
        <3>0. PICK o \in Component : queue' = SetOwner(queue, b, o)
            BY <2>16, ComponentIdentifiers DEF MacReturns
        <3>1. queue' \in Queue
            BY <3>0, SetOwnerProperties
        <3> QED BY <2>16, <3>1 DEF MacReturns
    <2>17. CASE UNCHANGED vars
        BY <2>17 DEF vars
    <2> QED BY <2>1, <2>2, <2>3, <2>4, <2>5, <2>6, <2>7, <2>8, <2>9, <2>10,
               <2>11, <2>12, <2>13, <2>14, <2>15, <2>16, <2>17, <2>18
            DEF Next, Task, Mac, GetFree
<1> QED BY <1>1, <1>2, PTL DEF Spec

-----------------------------------------------------------------------------
(* Exclusive use *)

\* Inductive: the tasks and the MAC hold different buffers because their
\* entries name different owners, and the entry a task is about to claim stays
\* free because the walk runs with interrupts disabled.
Exclusive ==
    /\ tasks \cap mac = {}
    /\ \A b \in tasks : queue[b].owner \notin
            {COMPONENT_NULL, COMPONENT_IEEE802154E,
             COMPONENT_SIXTOP_TO_IEEE802154E, COMPONENT_IEEE802154E_TO_SIXTOP}
    /\ \A b \in mac : queue[b].owner = COMPONENT_IEEE802154E
    /\ pc \in {"check", "scan", "claim", "own"} => masked
    /\ pc \in {"claim", "own"} => queue[i].owner = COMPONENT_NULL
    /\ pc = "relay" => i \in tasks

LEMMA ExclusiveHolds ==
    ASSUME RestoresState
    PROVE  Spec => []Exclusive
PROOF
<1>1. Init => Exclusive
    BY DEF Init, Exclusive
<1>2. TypeOK /\ Exclusive /\ [Next]_vars => Exclusive'
    <2> SUFFICES ASSUME TypeOK, Exclusive, [Next]_vars PROVE Exclusive'
        OBVIOUS
    <2> USE DEF TypeOK, Exclusive
    <2>1. ASSUME NEW creator \in TaskCreator, Enter(creator) PROVE Exclusive'
        BY <2>1 DEF Enter
    <2>2. CASE Check
        BY <2>2 DEF Check
    <2>3. CASE Scan
        BY <2>3 DEF Scan, Found
    <2>4. CASE ClaimCreator
        <3>1. \A d \in Buffer : queue'[d].owner = queue[d].owner
            <4>1. queue' = SetCreator(queue, i, asked) /\ asked \in Component
                BY <2>4, ComponentIdentifiers DEF ClaimCreator
            <4> QED BY <4>1, SetCreatorProperties
        <3> QED BY <2>4, <3>1 DEF ClaimCreator
    <2>5. CASE ClaimOwner
        <3>1. /\ queue'[i].owner = COMPONENT_OPENQUEUE
              /\ \A d \in Buffer \ {i} : queue'[d] = queue[d]
            <4>1. queue' = SetOwner(queue, i, COMPONENT_OPENQUEUE)
                BY <2>5 DEF ClaimOwner
            <4>2. COMPONENT_OPENQUEUE \in Component
                BY ComponentIdentifiers
            <4> QED BY <4>1, <4>2, SetOwnerProperties
        <3>2. i \notin mac
            BY <2>5 DEF ClaimOwner
        <3> QED BY <2>5, <3>1, <3>2 DEF ClaimOwner
    <2>6. ASSUME NEW b \in Buffer, TaskFrees(b) PROVE Exclusive'
        <3>1. \A d \in Buffer \ {b} : queue'[d] = queue[d]
            BY <2>6, FreeProperties DEF TaskFrees
        <3> QED BY <2>6, <3>1 DEF TaskFrees
    <2>7. ASSUME NEW b \in Buffer, TaskSends(b) PROVE Exclusive'
        <3>1. \A d \in Buffer \ {b} : queue'[d] = queue[d]
            <4>1. queue' = SetOwner(queue, b, COMPONENT_SIXTOP_TO_IEEE802154E)
                BY <2>7 DEF TaskSends
            <4>2. COMPONENT_SIXTOP_TO_IEEE802154E \in Component
                BY ComponentIdentifiers
            <4> QED BY <4>1, <4>2, SetOwnerProperties
        <3> QED BY <2>7, <3>1 DEF TaskSends
    <2>8. ASSUME NEW b \in Buffer, TaskNotified(b) PROVE Exclusive'
        <3>1. queue[b].owner = COMPONENT_IEEE802154E_TO_SIXTOP
            BY <2>8, FirstOfProperties
               DEF TaskNotified, openqueue_sixtopGetSentPacket,
                   openqueue_sixtopGetReceivedPacket, SentPackets, ReceivedPackets
        <3>2. /\ queue'[b].owner = COMPONENT_SIXTOP
              /\ \A d \in Buffer \ {b} : queue'[d] = queue[d]
            <4>1. queue' = SetOwner(queue, b, COMPONENT_SIXTOP)
                BY <2>8 DEF TaskNotified
            <4>2. COMPONENT_SIXTOP \in Component
                BY ComponentIdentifiers
            <4> QED BY <4>1, <4>2, SetOwnerProperties
        <3>3. b \notin mac
            BY <3>1
        <3> QED BY <2>8, <3>2, <3>3 DEF TaskNotified
    <2>9. ASSUME NEW b \in Buffer, TaskRelays(b) PROVE Exclusive'
        <3> DEFINE q == SetCreator(queue, b, COMPONENT_FORWARDING)
        <3>1. /\ q \in Queue
              /\ \A d \in Buffer : q[d].owner = queue[d].owner
            BY SetCreatorProperties, ComponentIdentifiers
        <3>2. queue' = SetOwner(q, b, COMPONENT_FORWARDING)
            BY <2>9 DEF TaskRelays
        <3> HIDE DEF q
        <3>3. /\ queue'[b].owner = COMPONENT_FORWARDING
              /\ \A d \in Buffer \ {b} : queue'[d] = q[d]
            <4>1. COMPONENT_FORWARDING \in Component
                BY ComponentIdentifiers
            <4> QED BY <3>1, <3>2, <4>1, SetOwnerProperties
        <3>4. \A d \in Buffer \ {b} : queue'[d].owner = queue[d].owner
            BY <3>1, <3>3
        <3>5. b \notin mac
            BY <2>9 DEF TaskRelays
        <3> QED BY <2>9, <3>3, <3>4, <3>5 DEF TaskRelays
    <2>18. ASSUME NEW b \in Buffer, TaskKeepsFragment(b) PROVE Exclusive'
        <3> DEFINE q == SetCreator(queue, b, COMPONENT_FRAG)
        <3>1. /\ q \in Queue
              /\ \A d \in Buffer : q[d].owner = queue[d].owner
            BY SetCreatorProperties, ComponentIdentifiers
        <3>2. queue' = SetOwner(q, b, COMPONENT_FRAG)
            BY <2>18 DEF TaskKeepsFragment
        <3> HIDE DEF q
        <3>3. /\ queue'[b].owner = COMPONENT_FRAG
              /\ \A d \in Buffer \ {b} : queue'[d] = q[d]
            <4>1. COMPONENT_FRAG \in Component
                BY ComponentIdentifiers
            <4> QED BY <3>1, <3>2, <4>1, SetOwnerProperties
        <3>4. \A d \in Buffer \ {b} : queue'[d].owner = queue[d].owner
            BY <3>1, <3>3
        <3>5. b \notin mac
            BY <2>18 DEF TaskKeepsFragment
        <3> QED BY <2>18, <3>3, <3>4, <3>5 DEF TaskKeepsFragment
    <2>10. CASE RelayCheck
        <3>1. \A d \in Buffer \ {i} : queue'[d] = queue[d]
            BY <2>10, FreeProperties DEF RelayCheck
        <3>2. \/ queue' = queue /\ tasks' = tasks
              \/ tasks' = tasks \ {i}
            BY <2>10 DEF RelayCheck
        <3>3. i \notin mac
            BY <2>10 DEF RelayCheck
        <3> QED BY <2>10, <3>1, <3>2, <3>3 DEF RelayCheck
    <2>11. ASSUME NEW creator \in TaskCreator, TaskRemoves(creator) PROVE Exclusive'
        <3>1. \A d \in Buffer :
                \/ queue'[d] = queue[d]
                \/ /\ queue[d].creator = creator
                   /\ queue[d].owner # COMPONENT_IEEE802154E
                   /\ queue'[d].owner = COMPONENT_NULL
            BY <2>11, RemoveProperties DEF TaskRemoves
        <3>2. \A d \in tasks' : queue'[d] = queue[d]
            BY <2>11, <3>1 DEF TaskRemoves
        <3>3. \A d \in mac : queue'[d] = queue[d]
            BY <3>1
        <3> QED BY <2>11, <3>2, <3>3 DEF TaskRemoves
    <2>12. CASE MacGets
        <3> DEFINE b == openqueue_getFreePacketBuffer(queue, isSync, COMPONENT_IEEE802154E)
                   q == SetCreator(queue, b, COMPONENT_IEEE802154E)
        <3>1. b \in Buffer /\ queue[b].owner = COMPONENT_NULL
            BY <2>12, GetFreeProperties DEF MacGets
        <3>2. /\ q \in Queue
              /\ \A d \in Buffer : q[d].owner = queue[d].owner
            BY <3>1, SetCreatorProperties, ComponentIdentifiers
        <3>3. /\ queue' = SetOwner(q, b, COMPONENT_IEEE802154E)
              /\ mac' = mac \cup {b}
              /\ ~masked
              /\ UNCHANGED <<pc, i, masked, tasks>>
            BY <2>12 DEF MacGets
        <3> HIDE DEF q, b
        <3>4. /\ queue'[b].owner = COMPONENT_IEEE802154E
              /\ \A d \in Buffer \ {b} : queue'[d] = q[d]
            <4>1. COMPONENT_IEEE802154E \in Component
                BY ComponentIdentifiers
            <4> QED BY <3>1, <3>2, <3>3, <4>1, SetOwnerProperties
        <3>5. \A d \in Buffer \ {b} : queue'[d].owner = queue[d].owner
            BY <3>2, <3>4
        <3>6. b \notin tasks
            BY <3>1
        <3> QED BY <3>1, <3>3, <3>4, <3>5, <3>6
    <2>13. CASE MacChangesSync
        <3>1. UNCHANGED <<queue, pc, i, masked, tasks, mac>>
            BY <2>13 DEF MacChangesSync
        <3> QED BY <3>1
    <2>14. ASSUME NEW b \in Buffer, MacFrees(b) PROVE Exclusive'
        <3>1. \A d \in Buffer \ {b} : queue'[d] = queue[d]
            BY <2>14, FreeProperties DEF MacFrees
        <3>2. b \notin tasks /\ ~masked
            BY <2>14 DEF MacFrees
        <3> QED BY <2>14, <3>1, <3>2 DEF MacFrees
    <2>15. ASSUME NEW b \in Buffer, MacTakes(b) PROVE Exclusive'
        <3>1. /\ queue'[b].owner = COMPONENT_IEEE802154E
              /\ \A d \in Buffer \ {b} : queue'[d] = queue[d]
            <4>1. queue' = SetOwner(queue, b, COMPONENT_IEEE802154E)
                BY <2>15 DEF MacTakes
            <4>2. COMPONENT_IEEE802154E \in Component
                BY ComponentIdentifiers
            <4> QED BY <4>1, <4>2, SetOwnerProperties
        <3>2. b \notin tasks /\ ~masked
            BY <2>15 DEF MacTakes, Waiting
        <3> QED BY <2>15, <3>1, <3>2 DEF MacTakes
    <2>16. ASSUME NEW b \in Buffer, MacReturns(b) PROVE Exclusive'
        <3>1. PICK o \in Component : queue' = SetOwner(queue, b, o)
            BY <2>16, ComponentIdentifiers DEF MacReturns
        <3>2. \A d \in Buffer \ {b} : queue'[d] = queue[d]
            BY <3>1, SetOwnerProperties
        <3>3. b \notin tasks /\ ~masked
            BY <2>16 DEF MacReturns
        <3> QED BY <2>16, <3>2, <3>3 DEF MacReturns
    <2>17. CASE UNCHANGED vars
        BY <2>17 DEF vars
    <2> QED BY <2>1, <2>2, <2>3, <2>4, <2>5, <2>6, <2>7, <2>8, <2>9, <2>10,
               <2>11, <2>12, <2>13, <2>14, <2>15, <2>16, <2>17, <2>18
            DEF Next, Task, Mac, GetFree
<1> QED BY <1>1, <1>2, SharingTypeOK, PTL DEF Spec

\* On a port whose interrupt macros restore the state they saved, no buffer is
\* ever used by a task and by the MAC at once, nor used while it is free.
THEOREM SharingBuffersExclusive ==
    ASSUME RestoresState
    PROVE  Spec => []BuffersExclusive
PROOF
<1>1. Exclusive => BuffersExclusive
    BY DEF Exclusive, BuffersExclusive
<1> QED BY <1>1, ExclusiveHolds, PTL

\* A step of a task or of the MAC leaves the entries of the buffers that the MAC
\* holds before and after it as they are.
LEMMA StepKeepsPackets ==
    ASSUME TypeOK, Exclusive, [Next]_vars, NEW m \in mac \cap mac'
    PROVE  queue'[m] = queue[m]
PROOF
<1> m \in Buffer /\ queue[m].owner = COMPONENT_IEEE802154E /\ m \notin tasks
    BY DEF TypeOK, Exclusive
<1> USE DEF TypeOK
<1>1. ASSUME NEW creator \in TaskCreator, Enter(creator) PROVE queue'[m] = queue[m]
    BY <1>1 DEF Enter
<1>2. CASE Check
    BY <1>2 DEF Check
<1>3. CASE Scan
    BY <1>3 DEF Scan
<1>4. CASE ClaimCreator
    <2>1. queue' = SetCreator(queue, i, asked) /\ asked \in Component /\ m # i
        BY <1>4, ComponentIdentifiers DEF ClaimCreator, Exclusive
    <2> QED BY <2>1, SetCreatorProperties
<1>5. CASE ClaimOwner
    <2>1. PICK o \in Component : queue' = SetOwner(queue, i, o)
        BY <1>5, ComponentIdentifiers DEF ClaimOwner
    <2>2. m # i
        BY <1>5 DEF ClaimOwner, Exclusive
    <2> QED BY <2>1, <2>2, SetOwnerProperties
<1>6. ASSUME NEW b \in Buffer, TaskFrees(b) PROVE queue'[m] = queue[m]
    BY <1>6, FreeProperties DEF TaskFrees
<1>7. ASSUME NEW b \in Buffer, TaskSends(b) PROVE queue'[m] = queue[m]
    <2>1. PICK o \in Component : queue' = SetOwner(queue, b, o)
        BY <1>7, ComponentIdentifiers DEF TaskSends
    <2>2. b # m
        BY <1>7 DEF TaskSends
    <2> QED BY <2>1, <2>2, SetOwnerProperties
<1>8. ASSUME NEW b \in Buffer, TaskNotified(b) PROVE queue'[m] = queue[m]
    <2>1. queue[b].owner = COMPONENT_IEEE802154E_TO_SIXTOP
        BY <1>8, FirstOfProperties
           DEF TaskNotified, openqueue_sixtopGetSentPacket,
               openqueue_sixtopGetReceivedPacket, SentPackets, ReceivedPackets
    <2>2. b # m
        BY <2>1
    <2>3. PICK o \in Component : queue' = SetOwner(queue, b, o)
        BY <1>8, ComponentIdentifiers DEF TaskNotified
    <2> QED BY <2>2, <2>3, SetOwnerProperties
<1>9. ASSUME NEW b \in Buffer, TaskRelays(b) PROVE queue'[m] = queue[m]
    <2> DEFINE q == SetCreator(queue, b, COMPONENT_FORWARDING)
    <2>1. q \in Queue /\ \A d \in Buffer \ {b} : q[d] = queue[d]
        BY SetCreatorProperties, ComponentIdentifiers
    <2>2. b # m
        BY <1>9 DEF TaskRelays
    <2>3. PICK o \in Component : queue' = SetOwner(q, b, o)
        BY <1>9, ComponentIdentifiers DEF TaskRelays
    <2> HIDE DEF q
    <2>4. queue'[m] = q[m]
        BY <2>1, <2>2, <2>3, SetOwnerProperties
    <2> QED BY <2>1, <2>2, <2>4
<1>18. ASSUME NEW b \in Buffer, TaskKeepsFragment(b) PROVE queue'[m] = queue[m]
    <2> DEFINE q == SetCreator(queue, b, COMPONENT_FRAG)
    <2>1. q \in Queue /\ \A d \in Buffer \ {b} : q[d] = queue[d]
        BY SetCreatorProperties, ComponentIdentifiers
    <2>2. b # m
        BY <1>18 DEF TaskKeepsFragment
    <2>3. PICK o \in Component : queue' = SetOwner(q, b, o)
        BY <1>18, ComponentIdentifiers DEF TaskKeepsFragment
    <2> HIDE DEF q
    <2>4. queue'[m] = q[m]
        BY <2>1, <2>2, <2>3, SetOwnerProperties
    <2> QED BY <2>1, <2>2, <2>4
<1>10. CASE RelayCheck
    <2>1. i # m
        BY <1>10 DEF RelayCheck, Exclusive
    <2> QED BY <1>10, <2>1, FreeProperties DEF RelayCheck
<1>11. ASSUME NEW creator \in TaskCreator, TaskRemoves(creator) PROVE queue'[m] = queue[m]
    BY <1>11, RemoveProperties DEF TaskRemoves
<1>12. CASE MacGets
    <2> DEFINE b == openqueue_getFreePacketBuffer(queue, isSync, COMPONENT_IEEE802154E)
               q == SetCreator(queue, b, COMPONENT_IEEE802154E)
    <2>1. b \in Buffer /\ queue[b].owner = COMPONENT_NULL
        BY <1>12, GetFreeProperties DEF MacGets
    <2>2. b # m
        BY <2>1
    <2>3. q \in Queue /\ \A d \in Buffer \ {b} : q[d] = queue[d]
        BY <2>1, SetCreatorProperties, ComponentIdentifiers
    <2>4. PICK o \in Component : queue' = SetOwner(q, b, o)
        BY <1>12, ComponentIdentifiers DEF MacGets
    <2> HIDE DEF q, b
    <2>5. queue'[m] = q[m]
        BY <2>1, <2>2, <2>3, <2>4, SetOwnerProperties
    <2> QED BY <2>2, <2>3, <2>5
<1>13. CASE MacChangesSync
    BY <1>13 DEF MacChangesSync
<1>14. ASSUME NEW b \in Buffer, MacFrees(b) PROVE queue'[m] = queue[m]
    BY <1>14, FreeProperties DEF MacFrees
<1>15. ASSUME NEW b \in Buffer, MacTakes(b) PROVE queue'[m] = queue[m]
    <2>1. b # m
        BY <1>15 DEF MacTakes, Waiting
    <2>2. PICK o \in Component : queue' = SetOwner(queue, b, o)
        BY <1>15, ComponentIdentifiers DEF MacTakes
    <2> QED BY <2>1, <2>2, SetOwnerProperties
<1>16. ASSUME NEW b \in Buffer, MacReturns(b) PROVE queue'[m] = queue[m]
    <2>1. PICK o \in Component : queue' = SetOwner(queue, b, o)
        BY <1>16, ComponentIdentifiers DEF MacReturns
    <2>2. b # m
        BY <1>16 DEF MacReturns
    <2> QED BY <2>1, <2>2, SetOwnerProperties
<1>17. CASE UNCHANGED vars
    BY <1>17 DEF vars
<1> QED BY <1>1, <1>2, <1>3, <1>4, <1>5, <1>6, <1>7, <1>8, <1>9, <1>10,
           <1>11, <1>12, <1>13, <1>14, <1>15, <1>16, <1>17, <1>18
        DEF Next, Task, Mac, GetFree

\* On such a port no task changes the entry of a packet that the MAC holds,
\* neither by removing the packets of its creator nor by a pointer it kept.
THEOREM SharingMacKeepsItsPackets ==
    ASSUME RestoresState
    PROVE  Spec => MacKeepsItsPackets
PROOF
<1>1. TypeOK /\ Exclusive /\ [Next]_vars =>
          [\A b \in mac \cap mac' : queue'[b] = queue[b]]_vars
    BY StepKeepsPackets
<1> QED BY <1>1, ExclusiveHolds, SharingTypeOK, PTL DEF Spec, MacKeepsItsPackets

-----------------------------------------------------------------------------
(* Buffers left for the high-priority creators *)

Room == QUEUELENGTH - HIGH_PRIORITY_QUEUE_ENTRY

\* Inductive: a task that passed the count (pc is scan or claim) still finds
\* room when it writes its creator, because in the meantime the MAC can only
\* turn entries into its own; a relayed packet is the only one too many.
Reserve ==
    /\ pc # "relay" => Cardinality(Counted(queue)) <= Room + 1
    /\ pc = "relay" => Cardinality(Counted(queue) \ {i}) <= Room + 1
    /\ (pc \in {"scan", "claim"} /\ asked > COMPONENT_SIXTOP_RES) =>
            Cardinality(Counted(queue)) <= Room

\* Counting buffers.
LEMMA Counting ==
    ASSUME NEW S \in SUBSET Buffer
    PROVE  /\ Cardinality(S) \in Nat
           /\ \A T \in SUBSET S : /\ Cardinality(T) \in Nat
                                  /\ Cardinality(T) <= Cardinality(S)
           /\ \A x : Cardinality(S \cup {x}) \in Nat /\ Cardinality(S \cup {x}) <= Cardinality(S) + 1
PROOF
<1>1. IsFiniteSet(Buffer)
    BY FS_Interval, QueueLengthAssumption DEF Buffer
<1>2. IsFiniteSet(S)
    BY <1>1, FS_Subset
<1>3. ASSUME NEW T \in SUBSET S
      PROVE  Cardinality(T) \in Nat /\ Cardinality(T) <= Cardinality(S)
    BY <1>2, FS_Subset, FS_CardinalityType
<1>4. ASSUME NEW x
      PROVE  Cardinality(S \cup {x}) \in Nat /\ Cardinality(S \cup {x}) <= Cardinality(S) + 1
    <2>1. Cardinality(S) \in Nat
        BY <1>2, FS_CardinalityType
    <2>2. Cardinality(S \cup {x}) = IF x \in S THEN Cardinality(S) ELSE Cardinality(S) + 1
        BY <1>2, FS_AddElement
    <2> QED BY <2>1, <2>2
<1> QED BY <1>2, <1>3, <1>4, FS_CardinalityType

LEMMA RoomType == Room \in Nat
BY QueueLengthAssumption, HighPriorityAssumption DEF Room

\* A step that makes no entry low-priority, forwarded fragments apart, and leaves the walk where it is.
LEMMA Shrinks ==
    ASSUME Reserve, UNCHANGED <<pc, i, asked>>,
           \A d \in Buffer : queue'[d].creator > COMPONENT_SIXTOP_RES =>
                                \/ queue'[d].creator = queue[d].creator
                                \/ Fragmentation /\ queue'[d].creator = COMPONENT_FRAG
    PROVE  Reserve'
PROOF
<1>1. Counted(queue) \in SUBSET Buffer
    BY DEF Counted, LowPriority
<1>2. Counted(queue') \in SUBSET Counted(queue)
    BY DEF Counted, LowPriority
<1>3. Counted(queue) \ {i} \in SUBSET Buffer
    BY <1>1
<1>4. Counted(queue') \ {i} \in SUBSET (Counted(queue) \ {i})
    BY <1>2
<1>5. /\ Cardinality(Counted(queue)) \in Nat
      /\ Cardinality(Counted(queue')) \in Nat
      /\ Cardinality(Counted(queue')) <= Cardinality(Counted(queue))
    BY <1>1, <1>2, Counting
<1>6. /\ Cardinality(Counted(queue) \ {i}) \in Nat
      /\ Cardinality(Counted(queue') \ {i}) \in Nat
      /\ Cardinality(Counted(queue') \ {i}) <= Cardinality(Counted(queue) \ {i})
    BY <1>3, <1>4, Counting
<1> QED BY <1>5, <1>6, RoomType DEF Reserve

\* On every port, whatever the interleaving with the MAC, the low-priority
\* creators never hold more than QUEUELENGTH - HIGH_PRIORITY_QUEUE_ENTRY + 1
\* entries, a packet about to be relayed apart and, in a build with
\* fragmentation, the fragments that frag_receive forwards apart.
THEOREM SharingLeavesHighPriority == Spec => []LeavesHighPriority
PROOF
<1>1. Init => Reserve
    <2> SUFFICES ASSUME Init PROVE Reserve
        OBVIOUS
    <2>1. Counted(queue) = {}
        BY DEF Init, openqueue_init, ResetEntry, Counted, LowPriority
    <2>2. Cardinality(Counted(queue)) = 0
        BY <2>1, FS_EmptySet
    <2>3. pc = "idle"
        BY DEF Init
    <2> QED BY <2>2, <2>3, RoomType DEF Reserve
<1>2. TypeOK /\ Reserve /\ [Next]_vars => Reserve'
    <2> SUFFICES ASSUME TypeOK, Reserve, [Next]_vars PROVE Reserve'
        OBVIOUS
    <2> USE DEF TypeOK
    <2>0. Counted(queue) \in SUBSET Buffer
        BY DEF Counted, LowPriority
    <2>1. ASSUME NEW creator \in TaskCreator, Enter(creator) PROVE Reserve'
        BY <2>1 DEF Enter, Reserve
    <2>2. CASE Check
        <3>1. asked \in Nat
            BY ComponentIdentifiers DEF Component
        <3>2. UNCHANGED <<queue, asked>> /\ pc' \in {"scan", "idle"}
            BY <2>2 DEF Check
        <3>3. Cardinality(Counted(queue)) <= Room + 1
            BY <2>2 DEF Check, Reserve
        <3>4. pc' = "scan" /\ asked > COMPONENT_SIXTOP_RES => Cardinality(Counted(queue)) <= Room
            <4>1. Cardinality(LowPriority(queue)) \in Nat /\ Cardinality(Counted(queue)) <= Cardinality(LowPriority(queue))
                BY Counting, LowPriority(queue) \in SUBSET Buffer, Counted(queue) \in SUBSET LowPriority(queue)
                   DEF Counted, LowPriority
            <4>2. pc' = "scan" /\ asked > COMPONENT_SIXTOP_RES => Cardinality(LowPriority(queue)) <= Room
                BY <2>2, <3>1 DEF Check, openqueue_isHighPriorityEntryEnough, Room
            <4> QED BY <2>0, <4>1, <4>2, Counting, RoomType
        <3> QED BY <3>2, <3>3, <3>4 DEF Reserve
    <2>3. CASE Scan
        BY <2>3 DEF Scan, Reserve
    <2>4. CASE ClaimCreator
        <3>1. queue' = SetCreator(queue, i, asked) /\ asked \in Component
            BY <2>4, ComponentIdentifiers DEF ClaimCreator
        <3>2. /\ queue'[i].creator = asked
              /\ \A d \in Buffer \ {i} : queue'[d] = queue[d]
            BY <3>1, SetCreatorProperties
        <3>3. CASE asked > COMPONENT_SIXTOP_RES
            <4>1. Counted(queue') \in SUBSET (Counted(queue) \cup {i})
                BY <3>2 DEF Counted, LowPriority
            <4>0. Counted(queue) \cup {i} \in SUBSET Buffer
                BY <2>0
            <4>2. Cardinality(Counted(queue')) <= Room + 1
                <5>0. /\ Cardinality(Counted(queue)) \in Nat
                      /\ Cardinality(Counted(queue) \cup {i}) \in Nat
                      /\ Cardinality(Counted(queue) \cup {i}) <= Cardinality(Counted(queue)) + 1
                    BY <2>0, Counting
                <5>1. /\ Cardinality(Counted(queue')) \in Nat
                      /\ Cardinality(Counted(queue')) <= Cardinality(Counted(queue) \cup {i})
                    BY <4>0, <4>1, Counting
                <5>2. Cardinality(Counted(queue)) <= Room
                    BY <2>4, <3>3 DEF ClaimCreator, Reserve
                <5> QED BY <5>0, <5>1, <5>2, RoomType
            <4> QED BY <2>4, <4>2 DEF ClaimCreator, Reserve
        <3>4. CASE ~(asked > COMPONENT_SIXTOP_RES)
            <4>1. Counted(queue') \in SUBSET Counted(queue)
                BY <3>2, <3>4 DEF Counted, LowPriority
            <4>2. Cardinality(Counted(queue')) <= Room + 1
                BY <2>4, <2>0, <4>1, Counting, RoomType DEF ClaimCreator, Reserve
            <4> QED BY <2>4, <4>2 DEF ClaimCreator, Reserve
        <3> QED BY <3>3, <3>4
    <2>5. CASE ClaimOwner
        <3>1. queue' = SetOwner(queue, i, COMPONENT_OPENQUEUE)
            BY <2>5 DEF ClaimOwner
        <3>2. COMPONENT_OPENQUEUE \in Component
            BY ComponentIdentifiers
        <3>3. Counted(queue') = Counted(queue)
            BY <3>1, <3>2, SetOwnerProperties DEF Counted, LowPriority
        <3> QED BY <2>5, <3>3 DEF ClaimOwner, Reserve
    <2>6. ASSUME NEW b \in Buffer, TaskFrees(b) PROVE Reserve'
        <3>1. \A d \in Buffer : queue'[d] = queue[d] \/ queue'[d].creator = COMPONENT_NULL
            <4>1. queue' = openqueue_freePacketBuffer(queue, b) /\ queue \in Queue
                BY <2>6 DEF TaskFrees
            <4>. HIDE DEF TypeOK
            <4> QED BY ONLY <4>1, b \in Buffer, FreeProperties
        <3>2. \A d \in Buffer : queue'[d].creator > COMPONENT_SIXTOP_RES =>
                                   queue'[d].creator = queue[d].creator
            BY ONLY <3>1, ComponentIdentifiers DEF Component
        <3>3. UNCHANGED <<pc, i, asked>>
            BY <2>6 DEF TaskFrees
        <3> QED BY <3>2, <3>3, Shrinks
    <2>7. ASSUME NEW b \in Buffer, TaskSends(b) PROVE Reserve'
        <3>1. queue' = SetOwner(queue, b, COMPONENT_SIXTOP_TO_IEEE802154E)
            BY <2>7 DEF TaskSends
        <3>2. COMPONENT_SIXTOP_TO_IEEE802154E \in Component
            BY ComponentIdentifiers
        <3>3. \A d \in Buffer : queue'[d].creator = queue[d].creator
            BY <3>1, <3>2, SetOwnerProperties
        <3> QED BY <2>7, <3>3, Shrinks DEF TaskSends
    <2>8. ASSUME NEW b \in Buffer, TaskNotified(b) PROVE Reserve'
        <3>1. queue' = SetOwner(queue, b, COMPONENT_SIXTOP)
            BY <2>8 DEF TaskNotified
        <3>2. COMPONENT_SIXTOP \in Component
            BY ComponentIdentifiers
        <3>3. \A d \in Buffer : queue'[d].creator = queue[d].creator
            BY <3>1, <3>2, SetOwnerProperties
        <3> QED BY <2>8, <3>3, Shrinks DEF TaskNotified
    <2>9. ASSUME NEW b \in Buffer, TaskRelays(b) PROVE Reserve'
        <3> DEFINE q == SetCreator(queue, b, COMPONENT_FORWARDING)
        <3>1. COMPONENT_FORWARDING \in Component
            BY ComponentIdentifiers
        <3>2. /\ q \in Queue
              /\ \A d \in Buffer \ {b} : q[d] = queue[d]
            BY <3>1, SetCreatorProperties
        <3>3. queue' = SetOwner(q, b, COMPONENT_FORWARDING)
            BY <2>9 DEF TaskRelays
        <3> HIDE DEF q
        <3>4. \A d \in Buffer \ {b} : queue'[d] = q[d]
            BY <3>1, <3>2, <3>3, SetOwnerProperties
        <3>5. Counted(queue') \ {b} \in SUBSET Counted(queue)
            BY <3>2, <3>4 DEF Counted, LowPriority
        <3>6. Cardinality(Counted(queue') \ {b}) <= Room + 1
            BY <2>0, <2>9, <3>5, Counting, RoomType DEF TaskRelays, Reserve
        <3> QED BY <2>9, <3>6 DEF TaskRelays, Reserve
    <2>18. ASSUME NEW b \in Buffer, TaskKeepsFragment(b) PROVE Reserve'
        <3> DEFINE q == SetCreator(queue, b, COMPONENT_FRAG)
        <3>1. COMPONENT_FRAG \in Component
            BY ComponentIdentifiers
        <3>2. /\ q \in Queue
              /\ q[b].creator = COMPONENT_FRAG
              /\ \A d \in Buffer \ {b} : q[d] = queue[d]
            BY <3>1, SetCreatorProperties
        <3>3. /\ queue' = SetOwner(q, b, COMPONENT_FRAG)
              /\ Fragmentation
              /\ UNCHANGED <<pc, i, asked>>
            BY <2>18 DEF TaskKeepsFragment
        <3> HIDE DEF q
        <3>4. \A d \in Buffer : queue'[d].creator = q[d].creator
            BY <3>1, <3>2, <3>3, SetOwnerProperties
        <3> QED BY <3>2, <3>3, <3>4, Shrinks
    <2>10. CASE RelayCheck
        <3>1. CASE openqueue_isHighPriorityEntryEnough(queue)
            <4>1. /\ Cardinality(LowPriority(queue)) \in Nat
                  /\ Cardinality(Counted(queue)) \in Nat
                  /\ Cardinality(Counted(queue)) <= Cardinality(LowPriority(queue))
                BY Counting, LowPriority(queue) \in SUBSET Buffer, Counted(queue) \in SUBSET LowPriority(queue)
                   DEF Counted, LowPriority
            <4>2. Cardinality(LowPriority(queue)) <= Room
                BY <3>1 DEF openqueue_isHighPriorityEntryEnough, Room
            <4>3. /\ queue' = queue
                  /\ pc' = "idle"
                BY <2>10, <3>1 DEF RelayCheck
            <4> QED BY <4>1, <4>2, <4>3, RoomType DEF Reserve
        <3>2. CASE ~openqueue_isHighPriorityEntryEnough(queue)
            <4>1. queue' = openqueue_freePacketBuffer(queue, i)
                BY <2>10, <3>2 DEF RelayCheck
            <4>2. /\ queue'[i].creator = COMPONENT_NULL
                  /\ \A d \in Buffer \ {i} : queue'[d] = queue[d]
                BY <4>1, FreeProperties
            <4>3. Counted(queue') \in SUBSET (Counted(queue) \ {i})
                BY <4>2 DEF Counted, LowPriority
            <4>4. Counted(queue) \ {i} \in SUBSET Buffer
                BY <2>0
            <4>5. Cardinality(Counted(queue')) <= Room + 1
                BY <2>10, <4>3, <4>4, Counting, RoomType DEF RelayCheck, Reserve
            <4> QED BY <2>10, <4>5 DEF RelayCheck, Reserve
        <3> QED BY <3>1, <3>2
    <2>11. ASSUME NEW creator \in TaskCreator, TaskRemoves(creator) PROVE Reserve'
        <3>1. \A d \in Buffer : queue'[d] = queue[d] \/ queue'[d].creator = COMPONENT_NULL
            BY <2>11, RemoveProperties DEF TaskRemoves
        <3> QED BY <2>11, <3>1, Shrinks DEF TaskRemoves
    <2>12. CASE MacGets
        <3> DEFINE b == openqueue_getFreePacketBuffer(queue, isSync, COMPONENT_IEEE802154E)
                   q == SetCreator(queue, b, COMPONENT_IEEE802154E)
        <3>1. b \in Buffer
            BY <2>12, GetFreeProperties DEF MacGets
        <3>2. COMPONENT_IEEE802154E \in Component
            BY ComponentIdentifiers
        <3>3. /\ q \in Queue
              /\ q[b].creator = COMPONENT_IEEE802154E
              /\ \A d \in Buffer \ {b} : q[d] = queue[d]
            BY <3>1, <3>2, SetCreatorProperties
        <3>4. /\ queue' = SetOwner(q, b, COMPONENT_IEEE802154E)
              /\ UNCHANGED <<pc, i, asked>>
            BY <2>12 DEF MacGets
        <3> HIDE DEF q, b
        <3>5. \A d \in Buffer : queue'[d].creator = q[d].creator
            BY <3>1, <3>2, <3>3, <3>4, SetOwnerProperties
        <3> QED BY <3>3, <3>4, <3>5, Shrinks
    <2>13. CASE MacChangesSync
        BY <2>13, Shrinks DEF MacChangesSync
    <2>14. ASSUME NEW b \in Buffer, MacFrees(b) PROVE Reserve'
        <3>1. \A d \in Buffer : queue'[d] = queue[d] \/ queue'[d].creator = COMPONENT_NULL
            <4>1. queue' = openqueue_freePacketBuffer(queue, b) /\ queue \in Queue
                BY <2>14 DEF MacFrees
            <4>. HIDE DEF TypeOK
            <4> QED BY ONLY <4>1, b \in Buffer, FreeProperties
        <3>2. \A d \in Buffer : queue'[d].creator > COMPONENT_SIXTOP_RES =>
                                   queue'[d].creator = queue[d].creator
            BY ONLY <3>1, ComponentIdentifiers DEF Component
        <3>3. UNCHANGED <<pc, i, asked>>
            BY <2>14 DEF MacFrees
        <3> QED BY <3>2, <3>3, Shrinks
    <2>15. ASSUME NEW b \in Buffer, MacTakes(b) PROVE Reserve'
        <3>1. queue' = SetOwner(queue, b, COMPONENT_IEEE802154E)
            BY <2>15 DEF MacTakes
        <3>2. COMPONENT_IEEE802154E \in Component
            BY ComponentIdentifiers
        <3>3. \A d \in Buffer : queue'[d].creator = queue[d].creator
            BY <3>1, <3>2, SetOwnerProperties
        <3> QED BY <2>15, <3>3, Shrinks DEF MacTakes
    <2>16. ASSUME NEW b \in Buffer, MacReturns(b) PROVE Reserve'
        <3>1. PICK o \in Component : queue' = SetOwner(queue, b, o)
            BY <2>16, ComponentIdentifiers DEF MacReturns
        <3>2. \A d \in Buffer : queue'[d].creator = queue[d].creator
            BY <3>1, SetOwnerProperties
        <3> QED BY <2>16, <3>2, Shrinks DEF MacReturns
    <2>17. CASE UNCHANGED vars
        BY <2>17 DEF vars, Reserve
    <2> QED BY <2>1, <2>2, <2>3, <2>4, <2>5, <2>6, <2>7, <2>8, <2>9, <2>10,
               <2>11, <2>12, <2>13, <2>14, <2>15, <2>16, <2>17, <2>18
            DEF Next, Task, Mac, GetFree
<1>3. Reserve => LeavesHighPriority
    BY DEF Reserve, LeavesHighPriority, Room
<1> QED BY <1>1, <1>2, <1>3, SharingTypeOK, PTL DEF Spec
=============================================================================
