------------------------- MODULE IEEE802154E_proofs --------------------------
(***************************************************************************)
(* What holds of the MAC for any number of packet buffers, any neighbors,    *)
(* any number of retries and whatever troubles may happen: slots do not      *)
(* overlap, the four pointers and the buffers the MAC owns agree in every    *)
(* state, and a packet that waits has a transmission left.  A packet has no  *)
(* cell to go out on only after 6P removed one, a change of parent or an     *)
(* overflow of the schedule.                                                 *)
(* The second part shows that the MAC implements LinkService.                *)
(***************************************************************************)
EXTENDS IEEE802154E, OpenQueue_proofs, FiniteSetTheorems

USE DEF COMPONENT_NULL, COMPONENT_OPENQUEUE, COMPONENT_IEEE802154E,
        COMPONENT_SIXTOP_TO_IEEE802154E, COMPONENT_IEEE802154E_TO_SIXTOP,
        COMPONENT_SIXTOP, COMPONENT_SIXTOP_RES, COMPONENT_FORWARDING,
        COMPONENT_ICMPv6RPL, NoBuffer

\* What AttemptsLeft says of one packet.
Attempts(e) ==
    /\ e.retriesLeft \in 1..(TXRETRIES + 1)
    /\ e.nexthop = BROADCAST => e.retriesLeft = 1

\* The pointers that are set in each state.
PointersIn(s) ==
    {p \in Pointer :
        \/ p = "dataToSend"   /\ s \in TxDataStates \cup RxAckStates
        \/ p = "dataReceived" /\ s \in TxAckStates
        \/ p = "ackToSend"    /\ s \in TxAckStates \ {"S_TXACKOFFSET"}}

\* The buffers in the course of a handler: only the pointers of P may be set,
\* and every buffer the MAC owns has one.  Of two pointers to a buffer, neither
\* is dataToSend.
Sound(m, P) ==
    /\ m \in Mac
    /\ P \subseteq Pointer
    /\ \A p \in Pointer \ P : m.ptr[p] = NoBuffer
    /\ \A b \in Buffer : m.queue[b].owner = COMPONENT_IEEE802154E => \E p \in P : m.ptr[p] = b
    /\ \A b \in Pending(m) : Attempts(m.queue[b])
    /\ m.ptr["dataToSend"] # NoBuffer =>
          /\ m.queue[m.ptr["dataToSend"]].owner = COMPONENT_IEEE802154E
          /\ \A p \in Pointer \ {"dataToSend"} : m.ptr[p] # m.ptr["dataToSend"]

\* The buffers between two handlers: the pointers of P, each to a buffer of its own.
Fit(m, P) ==
    /\ Sound(m, P)
    /\ \A p \in P : m.ptr[p] # NoBuffer /\ m.queue[m.ptr[p]].owner = COMPONENT_IEEE802154E
    /\ \A p, r \in P : m.ptr[p] = m.ptr[r] => p = r

\* No packet to send is added, or changes its destination.
KeepsDestinations(m, n) ==
    \A b \in Pending(n) : b \in Pending(m) /\ n.queue[b].nexthop = m.queue[b].nexthop

Unsynchronized == ~isSync => state \in SyncStates \cup {"S_SLEEP"}

Inv == TypeOK /\ SlotsDoNotOverlap /\ Unsynchronized /\ Fit(mac, PointersIn(state))

\* What CellForEveryPacket says of one step.
StrandsNone ==
    \/ Stranded' \subseteq Stranded
    \/ RemovesCells \/ ParentChanges \/ ScheduleOverflows

-----------------------------------------------------------------------------
(* What the calls of a handler do to the buffers *)

LEMMA Constants ==
    /\ NoBuffer \notin Buffer
    /\ {COMPONENT_NULL, COMPONENT_OPENQUEUE, COMPONENT_IEEE802154E,
        COMPONENT_SIXTOP_TO_IEEE802154E, COMPONENT_IEEE802154E_TO_SIXTOP,
        COMPONENT_SIXTOP, COMPONENT_FORWARDING} \subseteq Component
    /\ TaskCreator \subseteq Component
    /\ TXRETRIES \in Nat
BY TaskCreatorAssumption, BoundsAssumption DEF Component, Buffer

LEMMA PointersOfStates ==
    /\ \A s : PointersIn(s) \subseteq Pointer
    /\ \A s \in TxDataStates \cup RxAckStates : PointersIn(s) = {"dataToSend"}
    /\ \A s \in SyncStates \cup RxDataStates \cup {"S_SLEEP"} : PointersIn(s) = {}
    /\ PointersIn("S_TXACKOFFSET") = {"dataReceived"}
    /\ \A s \in TxAckStates \ {"S_TXACKOFFSET"} : PointersIn(s) = {"dataReceived", "ackToSend"}
<1> USE DEF PointersIn, Pointer, TxDataStates, RxAckStates, SyncStates, RxDataStates, TxAckStates
<1>1. \A s : PointersIn(s) \subseteq Pointer
  OBVIOUS
<1>2. ASSUME NEW s \in TxDataStates \cup RxAckStates PROVE PointersIn(s) = {"dataToSend"}
  OBVIOUS
<1>3. ASSUME NEW s \in SyncStates \cup RxDataStates \cup {"S_SLEEP"} PROVE PointersIn(s) = {}
  OBVIOUS
<1>4. PointersIn("S_TXACKOFFSET") = {"dataReceived"}
  OBVIOUS
<1>5. ASSUME NEW s \in TxAckStates \ {"S_TXACKOFFSET"}
      PROVE  PointersIn(s) = {"dataReceived", "ackToSend"}
  OBVIOUS
<1>. HIDE DEF PointersIn, Pointer, TxDataStates, RxAckStates, SyncStates, RxDataStates, TxAckStates
<1>. QED BY <1>1, <1>2, <1>3, <1>4, <1>5

LEMMA ClearProperties ==
    ASSUME NEW m \in Mac, NEW p \in Pointer
    PROVE  /\ Clear(m, p) \in Mac
           /\ Clear(m, p).queue = m.queue
           /\ Clear(m, p).ptr = [m.ptr EXCEPT ![p] = NoBuffer]
BY DEF Clear, Mac

LEMMA ClearsOnePointer ==
    ASSUME NEW m \in Mac, NEW p \in Pointer, NEW r \in Pointer \ {p}
    PROVE  Clear(m, p).ptr[r] = m.ptr[r]
<1>1. Clear(m, p).ptr = [m.ptr EXCEPT ![p] = NoBuffer]
  BY ClearProperties
<1>2. m.ptr \in [Pointer -> Buffer \cup {NoBuffer}]
  BY DEF Mac
<1>. QED BY <1>1, <1>2

LEMMA FreeBufferProperties ==
    ASSUME NEW m \in Mac, NEW p \in Pointer, m.ptr[p] # NoBuffer
    PROVE  /\ FreeBuffer(m, p) \in Mac
           /\ FreeBuffer(m, p).ptr = m.ptr
           /\ FreeBuffer(m, p).queue[m.ptr[p]].owner = COMPONENT_NULL
           /\ \A d \in Buffer \ {m.ptr[p]} : FreeBuffer(m, p).queue[d] = m.queue[d]
<1>1. m.ptr[p] \in Buffer /\ m.queue \in Queue
  BY DEF Mac
<1>2. openqueue_freePacketBuffer(m.queue, m.ptr[p]) \in Queue
  BY <1>1, FreeProperties
<1>3. FreeBuffer(m, p).queue = openqueue_freePacketBuffer(m.queue, m.ptr[p])
  BY DEF FreeBuffer, Mac
<1>4. FreeBuffer(m, p) \in Mac /\ FreeBuffer(m, p).ptr = m.ptr
  BY <1>2 DEF FreeBuffer, Mac, CriticalError
<1>. QED BY <1>1, <1>3, <1>4, FreeProperties

LEMMA NotifSendDoneProperties ==
    ASSUME NEW m \in Mac, m.ptr["dataToSend"] # NoBuffer
    PROVE  /\ notif_sendDone(m) \in Mac
           /\ notif_sendDone(m).ptr = m.ptr
           /\ notif_sendDone(m).queue[m.ptr["dataToSend"]].owner = COMPONENT_IEEE802154E_TO_SIXTOP
           /\ \A d \in Buffer \ {m.ptr["dataToSend"]} : notif_sendDone(m).queue[d] = m.queue[d]
<1> DEFINE b == m.ptr["dataToSend"]
           q == SetOwner(m.queue, b, COMPONENT_IEEE802154E_TO_SIXTOP)
<1>1. b \in Buffer /\ m.queue \in Queue /\ COMPONENT_IEEE802154E_TO_SIXTOP \in Component
  BY Constants DEF Mac, Pointer
<1>2. q \in Queue /\ q[b].owner = COMPONENT_IEEE802154E_TO_SIXTOP /\ \A d \in Buffer \ {b} : q[d] = m.queue[d]
  BY <1>1, SetOwnerProperties
<1>. HIDE DEF q
<1>3. /\ notif_sendDone(m) = [m EXCEPT !.queue = q, !.sendDoneTasks = @ + 1]
  BY DEF notif_sendDone, q
<1>4. /\ notif_sendDone(m) \in Mac
      /\ notif_sendDone(m).ptr = m.ptr
      /\ notif_sendDone(m).queue = q
  <2>. HIDE DEF b
  <2>1. m.sendDoneTasks + 1 \in Nat
    BY DEF Mac
  <2>. QED BY <1>2, <1>3, <2>1 DEF Mac
<1>. QED BY <1>2, <1>4

LEMMA NotifReceiveProperties ==
    ASSUME NEW m \in Mac, m.ptr["dataReceived"] # NoBuffer
    PROVE  /\ notif_receive(m) \in Mac
           /\ notif_receive(m).ptr = m.ptr
           /\ notif_receive(m).queue[m.ptr["dataReceived"]].owner = COMPONENT_IEEE802154E_TO_SIXTOP
           /\ \A d \in Buffer \ {m.ptr["dataReceived"]} : notif_receive(m).queue[d] = m.queue[d]
<1> DEFINE b == m.ptr["dataReceived"]
           q == SetOwner(m.queue, b, COMPONENT_IEEE802154E_TO_SIXTOP)
<1>1. b \in Buffer /\ m.queue \in Queue /\ COMPONENT_IEEE802154E_TO_SIXTOP \in Component
  BY Constants DEF Mac, Pointer
<1>2. q \in Queue /\ q[b].owner = COMPONENT_IEEE802154E_TO_SIXTOP /\ \A d \in Buffer \ {b} : q[d] = m.queue[d]
  BY <1>1, SetOwnerProperties
<1>. HIDE DEF q
<1>3. /\ notif_receive(m) = [m EXCEPT !.queue = q, !.receiveTasks = @ + 1]
  BY DEF notif_receive, q
<1>4. /\ notif_receive(m) \in Mac
      /\ notif_receive(m).ptr = m.ptr
      /\ notif_receive(m).queue = q
  <2>. HIDE DEF b
  <2>1. m.receiveTasks + 1 \in Nat
    BY DEF Mac
  <2>. QED BY <1>2, <1>3, <2>1 DEF Mac
<1>. QED BY <1>2, <1>4

\* A buffer the MAC allocates was free; without one nothing changes.
LEMMA GetBufferProperties ==
    ASSUME NEW m \in Mac, NEW p \in Pointer, m.ptr[p] = NoBuffer
    PROVE  LET n == GetBuffer(m, p)
               b == n.ptr[p]
           IN  /\ n \in Mac
               /\ n.ptr = [m.ptr EXCEPT ![p] = b]
               /\ b = NoBuffer => n.queue = m.queue
               /\ b # NoBuffer =>
                     /\ b \in Buffer
                     /\ m.queue[b].owner = COMPONENT_NULL
                     /\ n.queue[b].owner = COMPONENT_IEEE802154E
                     /\ \A d \in Buffer \ {b} : n.queue[d] = m.queue[d]
<1> DEFINE b == openqueue_getFreePacketBuffer(m.queue, isSync, COMPONENT_IEEE802154E)
           c == SetCreator(m.queue, b, COMPONENT_IEEE802154E)
           q == SetOwner(c, b, COMPONENT_IEEE802154E)
<1>1. CASE b = NoBuffer
  BY <1>1 DEF GetBuffer, Mac
<1>2. CASE b # NoBuffer
  <2>1. b \in Buffer /\ m.queue[b].owner = COMPONENT_NULL
    BY <1>2, GetFreeProperties
  <2>2. m.queue \in Queue /\ COMPONENT_IEEE802154E \in Component
    BY Constants DEF Mac
  <2>3. c \in Queue /\ \A d \in Buffer \ {b} : c[d] = m.queue[d]
    BY <2>1, <2>2, SetCreatorProperties
  <2>4. q \in Queue /\ q[b].owner = COMPONENT_IEEE802154E /\ \A d \in Buffer \ {b} : q[d] = c[d]
    BY <2>1, <2>2, <2>3, SetOwnerProperties
  <2>5. GetBuffer(m, p) = [m EXCEPT !.ptr[p] = b, !.queue = q]
    BY <1>2 DEF GetBuffer
  <2>. HIDE DEF b, c, q
  <2> DEFINE t == [m.ptr EXCEPT ![p] = b]
  <2>7. m.ptr \in [Pointer -> Buffer \cup {NoBuffer}]
    BY DEF Mac
  <2>9. t \in [Pointer -> Buffer \cup {NoBuffer}]
    BY <2>1, <2>7
  <2>10. GetBuffer(m, p) = [m EXCEPT !.ptr = t, !.queue = q]
    BY <2>5
  <2>6. /\ GetBuffer(m, p) \in Mac
        /\ GetBuffer(m, p).queue = q
        /\ GetBuffer(m, p).ptr = t
    <3>. HIDE DEF t
    <3>. QED BY <2>4, <2>9, <2>10 DEF Mac
  <2>8. GetBuffer(m, p).ptr[p] = b
    BY <2>6, <2>7
  <2>. QED BY <1>2, <2>1, <2>3, <2>4, <2>6, <2>8
<1>. QED BY <1>1, <1>2

-----------------------------------------------------------------------------
(* Sound and fit buffers *)

\* A pointer is cleared and its buffer given away: freed, notified, or, if it
\* was the packet to send, handed back to wait.
LEMMA Releases ==
    ASSUME NEW m, NEW n \in Mac, NEW P, Sound(m, P), NEW p \in Pointer,
           m.ptr[p] # NoBuffer,
           n.ptr = [m.ptr EXCEPT ![p] = NoBuffer],
           \A d \in Buffer \ {m.ptr[p]} : n.queue[d] = m.queue[d],
           n.queue[m.ptr[p]].owner # COMPONENT_IEEE802154E,
           n.queue[m.ptr[p]].owner = COMPONENT_SIXTOP_TO_IEEE802154E =>
              /\ p = "dataToSend"
              /\ Attempts(n.queue[m.ptr[p]])
              /\ n.queue[m.ptr[p]].nexthop = m.queue[m.ptr[p]].nexthop
    PROVE  Sound(n, P \ {p}) /\ KeepsDestinations(m, n)
<1> DEFINE b == m.ptr[p]
<1>1. m \in Mac /\ b \in Buffer /\ m.ptr \in [Pointer -> Buffer \cup {NoBuffer}]
  BY DEF Sound, Mac
<1>2. n.ptr[p] = NoBuffer /\ \A r \in Pointer \ {p} : n.ptr[r] = m.ptr[r]
  BY <1>1
<1>3. "dataToSend" \in Pointer /\ NoBuffer \notin Buffer
  BY Constants DEF Pointer
<1>4. \A r \in Pointer \ (P \ {p}) : n.ptr[r] = NoBuffer
  BY <1>2 DEF Sound
<1>5. ASSUME NEW d \in Buffer, n.queue[d].owner = COMPONENT_IEEE802154E
      PROVE  \E r \in P \ {p} : n.ptr[r] = d
  <2>1. d # b /\ m.queue[d].owner = COMPONENT_IEEE802154E
    BY <1>5
  <2>2. PICK r \in P : m.ptr[r] = d
    BY <2>1 DEF Sound
  <2>. QED BY <1>2, <2>1, <2>2 DEF Sound
<1>6. ASSUME NEW d \in Pending(n)
      PROVE  /\ Attempts(n.queue[d])
             /\ d \in Pending(m) /\ n.queue[d].nexthop = m.queue[d].nexthop
  <2>1. CASE d = b
    <3>1. n.ptr["dataToSend"] # b
      BY <1>1, <1>2, <1>3 DEF Sound
    <3>2. n.queue[b].owner = COMPONENT_SIXTOP_TO_IEEE802154E
      BY <1>6, <2>1, <3>1 DEF Pending
    <3>. QED BY <1>1, <2>1, <3>2 DEF Pending
  <2>2. CASE d # b
    <3>1. d \in Buffer /\ n.queue[d] = m.queue[d]
      BY <1>6, <2>2 DEF Pending
    <3>2. d \in Pending(m)
      BY <1>2, <1>3, <1>6, <3>1 DEF Pending
    <3>. QED BY <3>1, <3>2 DEF Sound
  <2>. QED BY <2>1, <2>2
<1>7. ASSUME n.ptr["dataToSend"] # NoBuffer
      PROVE  /\ n.queue[n.ptr["dataToSend"]].owner = COMPONENT_IEEE802154E
             /\ \A r \in Pointer \ {"dataToSend"} : n.ptr[r] # n.ptr["dataToSend"]
  <2>1. p # "dataToSend" /\ n.ptr["dataToSend"] = m.ptr["dataToSend"]
    BY <1>2, <1>3, <1>7
  <2>2. m.ptr["dataToSend"] \in Buffer \ {b}
    BY <1>1, <1>3, <1>7, <2>1 DEF Sound
  <2>. QED BY <1>2, <1>7, <2>1, <2>2 DEF Sound
<1>. QED BY <1>4, <1>5, <1>6, <1>7 DEF Sound, KeepsDestinations

LEMMA Frees ==
    ASSUME NEW m, NEW P, Sound(m, P), NEW p \in Pointer, m.ptr[p] # NoBuffer
    PROVE  /\ Sound(Clear(FreeBuffer(m, p), p), P \ {p})
           /\ KeepsDestinations(m, Clear(FreeBuffer(m, p), p))
<1> DEFINE f == FreeBuffer(m, p)
           n == Clear(f, p)
<1>1. m \in Mac /\ m.ptr[p] \in Buffer
  BY DEF Sound, Mac
<1>2. /\ f \in Mac /\ f.ptr = m.ptr
      /\ f.queue[m.ptr[p]].owner = COMPONENT_NULL
      /\ \A d \in Buffer \ {m.ptr[p]} : f.queue[d] = m.queue[d]
  BY <1>1, FreeBufferProperties
<1>. HIDE DEF f
<1>3. n \in Mac /\ n.queue = f.queue /\ n.ptr = [m.ptr EXCEPT ![p] = NoBuffer]
  BY <1>2, ClearProperties
<1>. HIDE DEF n
<1>4. Sound(n, P \ {p}) /\ KeepsDestinations(m, n)
  BY <1>2, <1>3, Releases
<1>. QED BY <1>4 DEF n, f

LEMMA Receives ==
    ASSUME NEW m, NEW P, Sound(m, P), m.ptr["dataReceived"] # NoBuffer
    PROVE  /\ Sound(ReceptionDone(m), P \ {"dataReceived"})
           /\ KeepsDestinations(m, ReceptionDone(m))
<1> DEFINE f == notif_receive(m)
           p == "dataReceived"
           n == Clear(f, p)
<1>1. m \in Mac /\ p \in Pointer
  BY DEF Sound, Mac, Pointer
<1>2. /\ f \in Mac /\ f.ptr = m.ptr
      /\ f.queue[m.ptr[p]].owner = COMPONENT_IEEE802154E_TO_SIXTOP
      /\ \A d \in Buffer \ {m.ptr[p]} : f.queue[d] = m.queue[d]
  BY <1>1, NotifReceiveProperties
<1>. HIDE DEF f
<1>3. n \in Mac /\ n.queue = f.queue /\ n.ptr = [m.ptr EXCEPT ![p] = NoBuffer]
  BY <1>1, <1>2, ClearProperties
<1>. HIDE DEF n
<1>4. Sound(n, P \ {p}) /\ KeepsDestinations(m, n)
  BY <1>1, <1>2, <1>3, Releases
<1>. QED BY <1>4 DEF n, f, ReceptionDone

LEMMA Sends ==
    ASSUME NEW m, NEW P, Sound(m, P), m.ptr["dataToSend"] # NoBuffer
    PROVE  LET n == Clear(notif_sendDone(m), "dataToSend")
           IN  Sound(n, P \ {"dataToSend"}) /\ KeepsDestinations(m, n)
<1> DEFINE f == notif_sendDone(m)
           p == "dataToSend"
           n == Clear(f, p)
<1>1. m \in Mac /\ p \in Pointer
  BY DEF Sound, Mac, Pointer
<1>2. /\ f \in Mac /\ f.ptr = m.ptr
      /\ f.queue[m.ptr[p]].owner = COMPONENT_IEEE802154E_TO_SIXTOP
      /\ \A d \in Buffer \ {m.ptr[p]} : f.queue[d] = m.queue[d]
  BY <1>1, NotifSendDoneProperties
<1>. HIDE DEF f
<1>3. n \in Mac /\ n.queue = f.queue /\ n.ptr = [m.ptr EXCEPT ![p] = NoBuffer]
  BY <1>1, <1>2, ClearProperties
<1>. HIDE DEF n
<1>4. Sound(n, P \ {p}) /\ KeepsDestinations(m, n)
  BY <1>1, <1>2, <1>3, Releases
<1>. QED BY <1>4 DEF n, f

LEMMA Fails ==
    ASSUME NEW m, NEW P, Sound(m, P), m.ptr["dataToSend"] # NoBuffer
    PROVE  /\ Sound(TransmissionFailed(m), P \ {"dataToSend"})
           /\ KeepsDestinations(m, TransmissionFailed(m))
<1> DEFINE p == "dataToSend"
           b == m.ptr[p]
           left == m.queue[b].retriesLeft - 1
           e == [m.queue[b] EXCEPT !.retriesLeft = left]
           q == [m.queue EXCEPT ![b] = e]
           counted == [m EXCEPT !.queue = q]
           r == IF left = 0 THEN notif_sendDone(counted)
                ELSE [counted EXCEPT !.queue = SetOwner(@, b, COMPONENT_SIXTOP_TO_IEEE802154E)]
           n == Clear(r, p)
<1>1. m \in Mac /\ p \in Pointer /\ b \in Buffer /\ m.queue \in Queue
  BY DEF Sound, Mac, Pointer
<1>2. b \in Pending(m) /\ Attempts(m.queue[b])
  BY <1>1 DEF Sound, Pending
<1>3. left \in Nat /\ (left # 0 => Attempts(e))
  <2>1. TXRETRIES \in Nat /\ m.queue[b] \in Entry
    BY <1>1, Constants DEF Queue
  <2>. QED BY <1>2, <2>1 DEF Attempts, Entry
<1>4. /\ e \in Entry /\ e.nexthop = m.queue[b].nexthop
      /\ q \in Queue /\ q[b] = e /\ \A d \in Buffer \ {b} : q[d] = m.queue[d]
  <2>1. m.queue[b] \in Entry
    BY <1>1 DEF Queue
  <2>2. e \in Entry /\ e.nexthop = m.queue[b].nexthop
    BY <1>3, <2>1 DEF Entry
  <2>. HIDE DEF e
  <2>. QED BY <1>1, <2>2 DEF Queue
<1>5. SetRetries(m, b, left) = counted
  BY DEF SetRetries
<1>. HIDE DEF left, e, q
<1>6. counted \in Mac /\ counted.ptr = m.ptr /\ counted.queue = q
  BY <1>1, <1>4 DEF Mac
<1>7. TransmissionFailed(m) = n
  BY <1>5 DEF TransmissionFailed, left
<1>. HIDE DEF counted
<1>8. /\ r \in Mac /\ r.ptr = m.ptr
      /\ \A d \in Buffer \ {b} : r.queue[d] = m.queue[d]
      /\ r.queue[b].owner # COMPONENT_IEEE802154E
      /\ r.queue[b].owner = COMPONENT_SIXTOP_TO_IEEE802154E =>
            Attempts(r.queue[b]) /\ r.queue[b].nexthop = m.queue[b].nexthop
  <2>1. CASE left = 0
    <3>1. r = notif_sendDone(counted)
      BY <2>1
    <3>. HIDE DEF r
    <3>. QED BY <1>4, <1>6, <3>1, NotifSendDoneProperties
  <2>2. CASE left # 0
    <3> DEFINE s == SetOwner(q, b, COMPONENT_SIXTOP_TO_IEEE802154E)
    <3>1. r = [counted EXCEPT !.queue = s]
      BY <1>6, <2>2
    <3>0. COMPONENT_SIXTOP_TO_IEEE802154E \in Component
      BY Constants
    <3>2. /\ s \in Queue /\ s[b].owner = COMPONENT_SIXTOP_TO_IEEE802154E
          /\ \A d \in Buffer \ {b} : s[d] = q[d]
      BY <1>1, <1>4, <3>0, SetOwnerProperties
    <3>3. s[b].nexthop = e.nexthop /\ s[b].retriesLeft = e.retriesLeft
      <4>1. s[b] = [e EXCEPT !.owner = COMPONENT_SIXTOP_TO_IEEE802154E]
        BY <1>1, <1>4, <3>0, SetOwnerEntry
      <4>. QED BY <1>4, <4>1 DEF Entry
    <3>4. Attempts(s[b])
      BY <1>3, <2>2, <3>3 DEF Attempts
    <3>. HIDE DEF r, s
    <3>5. r \in Mac /\ r.ptr = counted.ptr /\ r.queue = s
      BY <1>6, <3>1, <3>2 DEF Mac
    <3>. QED BY <1>4, <1>6, <3>2, <3>3, <3>4, <3>5
  <2>. QED BY <2>1, <2>2
<1>. HIDE DEF r
<1>9. n \in Mac /\ n.queue = r.queue /\ n.ptr = [m.ptr EXCEPT ![p] = NoBuffer]
  BY <1>1, <1>8, ClearProperties
<1>. HIDE DEF n
<1>10. Sound(n, P \ {p}) /\ KeepsDestinations(m, n)
  BY <1>1, <1>8, <1>9, Releases
<1>. QED BY <1>7, <1>10

\* A pointer that is not set can be added to P, or removed from it.
LEMMA Unset ==
    ASSUME NEW m, NEW P, Sound(m, P), NEW p \in Pointer, m.ptr[p] = NoBuffer
    PROVE  Sound(m, P \ {p}) /\ Sound(m, P \cup {p})
<1>1. ASSUME NEW d \in Buffer, m.queue[d].owner = COMPONENT_IEEE802154E
      PROVE  \E r \in P \ {p} : m.ptr[r] = d
  <2>1. PICK r \in P : m.ptr[r] = d
    BY <1>1 DEF Sound
  <2>. QED BY <2>1, Constants
<1>. QED BY <1>1 DEF Sound

LEMMA DestinationsOfTwo ==
    ASSUME NEW a, NEW b, NEW c, KeepsDestinations(a, b), KeepsDestinations(b, c)
    PROVE  KeepsDestinations(a, c)
BY DEF KeepsDestinations

LEMMA SameDestinations ==
    ASSUME NEW m PROVE KeepsDestinations(m, m)
BY DEF KeepsDestinations

\* The clean-up of endSlot gives back every buffer of the MAC.
LEMMA CleanedUp ==
    ASSUME NEW m, NEW P, Sound(m, P)
    PROVE  Sound(CleanUp(m), {}) /\ KeepsDestinations(m, CleanUp(m))
<1>1. /\ Sound(EndTransmission(m), P \ {"dataToSend"})
      /\ KeepsDestinations(m, EndTransmission(m))
  BY Fails, Unset, SameDestinations DEF EndTransmission, Pointer
<1>2. ASSUME NEW x, NEW Q, Sound(x, Q)
      PROVE  Sound(EndReception(x), Q \ {"dataReceived"}) /\ KeepsDestinations(x, EndReception(x))
  BY <1>2, Receives, Unset, SameDestinations DEF EndReception, Pointer
<1>3. ASSUME NEW x, NEW Q, Sound(x, Q), NEW p \in Pointer
      PROVE  Sound(EndAck(x, p), Q \ {p}) /\ KeepsDestinations(x, EndAck(x, p))
  BY <1>3, Frees, Unset, SameDestinations DEF EndAck
<1> DEFINE m1 == EndTransmission(m)
           m2 == EndReception(m1)
           m3 == EndAck(m2, "ackToSend")
           m4 == EndAck(m3, "ackReceived")
<1>4. "ackToSend" \in Pointer /\ "ackReceived" \in Pointer
  BY DEF Pointer
<1>5. Sound(m2, (P \ {"dataToSend"}) \ {"dataReceived"}) /\ KeepsDestinations(m1, m2)
  BY <1>1, <1>2
<1>6. Sound(m3, ((P \ {"dataToSend"}) \ {"dataReceived"}) \ {"ackToSend"}) /\ KeepsDestinations(m2, m3)
  BY <1>3, <1>4, <1>5
<1>7. /\ Sound(m4, (((P \ {"dataToSend"}) \ {"dataReceived"}) \ {"ackToSend"}) \ {"ackReceived"})
      /\ KeepsDestinations(m3, m4)
  BY <1>3, <1>4, <1>6
<1>8. (((P \ {"dataToSend"}) \ {"dataReceived"}) \ {"ackToSend"}) \ {"ackReceived"} = {}
  BY DEF Sound, Pointer
<1>9. CleanUp(m) = m4
  BY DEF CleanUp
<1>. HIDE DEF m1, m2, m3, m4
<1>10. KeepsDestinations(m, m1)
  BY <1>1 DEF m1
<1>. QED BY <1>5, <1>6, <1>7, <1>8, <1>9, <1>10, DestinationsOfTwo

\* Two states of the buffers with the same pointers and entries are equally fit.
LEMMA SameBuffers ==
    ASSUME NEW m, NEW n \in Mac, NEW P, n.queue = m.queue, n.ptr = m.ptr
    PROVE  /\ Sound(m, P) => Sound(n, P)
           /\ Fit(m, P) => Fit(n, P)
           /\ KeepsDestinations(m, n)
<1>1. Pending(n) = Pending(m)
  BY DEF Pending
<1>2. Sound(m, P) => Sound(n, P)
  BY <1>1 DEF Sound
<1>. QED BY <1>1, <1>2 DEF Fit, KeepsDestinations

\* A buffer the MAC allocates belongs to that pointer only.
LEMMA Allocates ==
    ASSUME NEW m, NEW P, Sound(m, P), NEW p \in Pointer \ {"dataToSend"}, m.ptr[p] = NoBuffer
    PROVE  LET n == GetBuffer(m, p)
           IN  /\ Sound(n, P \cup {p})
               /\ KeepsDestinations(m, n)
               /\ n.ptr["dataToSend"] = m.ptr["dataToSend"]
               /\ n.ptr[p] = NoBuffer => Sound(n, P) /\ (Fit(m, P) => Fit(n, P))
               /\ n.ptr[p] # NoBuffer /\ Fit(m, P) => Fit(n, P \cup {p})
<1> DEFINE n == GetBuffer(m, p)
           b == n.ptr[p]
<1>1. /\ m \in Mac /\ m.ptr \in [Pointer -> Buffer \cup {NoBuffer}]
      /\ "dataToSend" \in Pointer /\ NoBuffer \notin Buffer
  BY Constants DEF Sound, Mac, Pointer
<1>2. /\ n \in Mac
      /\ n.ptr = [m.ptr EXCEPT ![p] = b]
      /\ b = NoBuffer => n.queue = m.queue
      /\ b # NoBuffer =>
            /\ b \in Buffer
            /\ m.queue[b].owner = COMPONENT_NULL
            /\ n.queue[b].owner = COMPONENT_IEEE802154E
            /\ \A d \in Buffer \ {b} : n.queue[d] = m.queue[d]
  BY <1>1, GetBufferProperties
<1>. HIDE DEF n
<1>3. \A r \in Pointer \ {p} : n.ptr[r] = m.ptr[r]
  BY <1>1, <1>2
<1>4. CASE b = NoBuffer
  <2>1. n.ptr = m.ptr
    BY <1>1, <1>2, <1>4
  <2>2. /\ Sound(n, P) /\ (Fit(m, P) => Fit(n, P)) /\ KeepsDestinations(m, n)
    BY <1>2, <1>4, <2>1, SameBuffers
  <2>3. Sound(n, P \cup {p})
    BY <1>4, <2>2, Unset
  <2>. QED BY <1>1, <1>4, <2>1, <2>2, <2>3 DEF n
<1>5. CASE b # NoBuffer
  <2>1. m.ptr["dataToSend"] # b /\ n.ptr["dataToSend"] = m.ptr["dataToSend"]
    BY <1>1, <1>2, <1>3, <1>5 DEF Sound
  <2>2. ASSUME NEW d \in Pending(n)
        PROVE  /\ d \in Pending(m) /\ n.queue[d] = m.queue[d]
               /\ Attempts(n.queue[d])
    <3>1. d \in Buffer \ {b}
      BY <1>2, <1>5, <2>1, <2>2 DEF Pending
    <3>2. n.queue[d] = m.queue[d] /\ d \in Pending(m)
      BY <1>2, <1>5, <2>1, <2>2, <3>1 DEF Pending
    <3>. QED BY <3>2 DEF Sound
  <2>3. ASSUME NEW d \in Buffer, n.queue[d].owner = COMPONENT_IEEE802154E
        PROVE  \E r \in P \cup {p} : n.ptr[r] = d
    <3>1. CASE d = b
      BY <3>1
    <3>2. CASE d # b
      <4>1. m.queue[d].owner = COMPONENT_IEEE802154E
        BY <1>2, <1>5, <2>3, <3>2
      <4>2. PICK r \in P : m.ptr[r] = d
        BY <4>1 DEF Sound
      <4>3. r # p
        BY <1>1, <4>2
      <4>. QED BY <1>3, <4>2, <4>3 DEF Sound
    <3>. QED BY <3>1, <3>2
  <2>4. ASSUME n.ptr["dataToSend"] # NoBuffer
        PROVE  /\ n.queue[n.ptr["dataToSend"]].owner = COMPONENT_IEEE802154E
               /\ \A r \in Pointer \ {"dataToSend"} : n.ptr[r] # n.ptr["dataToSend"]
    <3>1. m.ptr["dataToSend"] \in Buffer \ {b}
      BY <1>1, <2>1, <2>4
    <3>. QED BY <1>2, <1>3, <1>5, <2>1, <2>4, <3>1 DEF Sound
  <2>5. Sound(n, P \cup {p})
    BY <1>2, <1>3, <2>2, <2>3, <2>4 DEF Sound
  <2>6. KeepsDestinations(m, n)
    BY <2>2 DEF KeepsDestinations
  <2>7. ASSUME Fit(m, P) PROVE Fit(n, P \cup {p})
    <3>1. \A r \in P : r # p
      BY <1>1, <2>7 DEF Fit
    <3>2. \A r \in P : n.ptr[r] = m.ptr[r] /\ m.ptr[r] \in Buffer /\ m.ptr[r] # b
      BY <1>1, <1>2, <1>3, <1>5, <2>7, <3>1 DEF Fit, Sound
    <3>3. \A r \in P : n.ptr[r] # NoBuffer /\ n.queue[n.ptr[r]].owner = COMPONENT_IEEE802154E
      BY <1>2, <1>5, <2>7, <3>2 DEF Fit
    <3>. QED BY <1>2, <1>5, <2>5, <2>7, <3>2, <3>3 DEF Fit
  <2>. QED BY <1>5, <2>1, <2>5, <2>6, <2>7 DEF n
<1>. QED BY <1>4, <1>5

\* Without pointers, sound is fit.
LEMMA NonePending ==
    ASSUME NEW m, Sound(m, {}) PROVE Fit(m, {})
BY DEF Fit

\* Entries the MAC does not own change, into entries it does not own either.
LEMMA Elsewhere ==
    ASSUME NEW m, NEW n \in Mac, NEW P, Fit(m, P), n.ptr = m.ptr,
           \A d \in Buffer :
              \/ n.queue[d] = m.queue[d]
              \/ /\ m.queue[d].owner # COMPONENT_IEEE802154E
                 /\ n.queue[d].owner # COMPONENT_IEEE802154E
                 /\ n.queue[d].owner = COMPONENT_SIXTOP_TO_IEEE802154E => Attempts(n.queue[d])
    PROVE  Fit(n, P)
<1>1. /\ m \in Mac /\ m.ptr \in [Pointer -> Buffer \cup {NoBuffer}] /\ P \subseteq Pointer
      /\ "dataToSend" \in Pointer
  BY DEF Fit, Sound, Mac, Pointer
<1>2. \A d \in Buffer : m.queue[d].owner = COMPONENT_IEEE802154E => n.queue[d] = m.queue[d]
  OBVIOUS
<1>3. \A d \in Buffer : n.queue[d].owner = COMPONENT_IEEE802154E => n.queue[d] = m.queue[d]
  OBVIOUS
<1>4. ASSUME NEW d \in Pending(n) PROVE Attempts(n.queue[d])
  <2>1. d \in Buffer
    BY <1>4 DEF Pending
  <2>2. CASE n.queue[d] = m.queue[d]
    BY <1>4, <2>1, <2>2 DEF Pending, Fit, Sound
  <2>3. CASE n.queue[d] # m.queue[d]
    <3>1. m.ptr["dataToSend"] # d
      BY <1>2, <2>1, <2>3, Constants DEF Fit, Sound
    <3>. QED BY <1>4, <2>1, <2>3, <3>1 DEF Pending
  <2>. QED BY <2>2, <2>3
<1>5. ASSUME m.ptr["dataToSend"] # NoBuffer
      PROVE  n.queue[m.ptr["dataToSend"]].owner = COMPONENT_IEEE802154E
  BY <1>1, <1>2, <1>5 DEF Fit, Sound
<1>6. Sound(n, P)
  BY <1>3, <1>4, <1>5 DEF Fit, Sound
<1>7. \A p \in P : n.queue[m.ptr[p]].owner = COMPONENT_IEEE802154E
  BY <1>1, <1>2 DEF Fit
<1>. QED BY <1>6, <1>7 DEF Fit

-----------------------------------------------------------------------------
(* The end of a slot, and the steps that end none *)

Cell == [type : CellType, neighbor : Address, isAutoCell : BOOLEAN]

\* TypeOK without the buffers.
Typed ==
    /\ isDAGroot \in BOOLEAN /\ isSync \in BOOLEAN
    /\ state \in State
    /\ timer \in {"newSlot", "fsm"}
    /\ deSyncTimeout \in 0..DESYNCTIMEOUT
    /\ radio \in {"off", "rx", "rxFrame", "tx", "txFrame", "done"}
    /\ irq \in {"none", "sof", "eof"}
    /\ cell \in Cell
    /\ autoTxCells \subseteq Neighbor
    /\ negotiatedCells \subseteq Negotiated
    /\ sendingTo \in Neighbor \cup {NOADDRESS}
    /\ trouble \in Trouble

\* What is shown of every step.
Preserved == Inv' /\ StrandsNone

LEMMA TypedParts == TypeOK <=> Typed /\ mac \in Mac
BY DEF TypeOK, Typed, Cell

\* openqueue_macGetUnicastPacket finds a packet if there is one.
LEMMA UnicastFound ==
    ASSUME NEW q, NEW n, openqueue_macGetUnicastPacket(q, n) = NoBuffer
    PROVE  \A b \in Waiting(q) : q[b].nexthop # n
<1> DEFINE toNeighbor == {b \in Waiting(q) : q[b].nexthop = n}
           responses  == {b \in toNeighbor : /\ q[b].creator = COMPONENT_SIXTOP_RES
                                             /\ q[b].messageType = "response"}
           S == IF responses # {} THEN responses ELSE toNeighbor
<1>1. S \in SUBSET Buffer /\ (toNeighbor # {} => S # {})
  BY DEF Waiting
<1>2. FirstOf(S) = NoBuffer
  BY DEF openqueue_macGetUnicastPacket
<1>. HIDE DEF S
<1>3. S = {}
  BY <1>1, <1>2, FirstOfProperties, Constants
<1>. QED BY <1>1, <1>3

LEMMA EndOfSlot ==
    ASSUME Typed, NEW m, NEW P, Sound(m, P), NEW c \in Cell, endSlot(m, c)
    PROVE  /\ state' = "S_SLEEP" /\ timer' = "newSlot" /\ radio' = "off"
           /\ irq' \in {"none", "sof", "eof"}
           /\ cell' \in Cell
           /\ autoTxCells' \subseteq Neighbor
           /\ Fit(mac', {})
           /\ KeepsDestinations(m, mac')
           /\ \A b \in Pending(mac') :
                 mac'.queue[b].nexthop \in autoTxCells => mac'.queue[b].nexthop \in autoTxCells'
<1>1. mac' = CleanUp(m)
  BY DEF endSlot
<1>2. Sound(mac', {}) /\ KeepsDestinations(m, mac')
  BY <1>1, CleanedUp
<1>3. Fit(mac', {})
  BY <1>2, NonePending
<1>4. Pending(mac') = Waiting(mac'.queue)
  <2>1. mac'.ptr["dataToSend"] = NoBuffer
    BY <1>2 DEF Sound, Pointer
  <2>. QED BY <2>1, Constants DEF Pending, Waiting
<1>5. NoCell \in Cell
  BY DEF NoCell, Cell, CellType, Address
<1>6. /\ state' = "S_SLEEP" /\ timer' = "newSlot" /\ radio' = "off"
      /\ irq' \in {"none", "sof", "eof"}
  BY DEF endSlot, rfOff, Typed
<1>7. CASE RemovesCell(mac', c) /\ autoTxCells' = autoTxCells \ {c.neighbor} /\ cell' = NoCell
  <2>1. openqueue_macGetUnicastPacket(mac'.queue, c.neighbor) = NoBuffer
    BY <1>7 DEF RemovesCell
  <2>2. \A b \in Waiting(mac'.queue) : mac'.queue[b].nexthop # c.neighbor
    BY <2>1, UnicastFound
  <2>. QED BY <1>2, <1>3, <1>4, <1>5, <1>6, <1>7, <2>2 DEF Typed
<1>8. CASE cell' = c /\ UNCHANGED autoTxCells
  BY <1>2, <1>3, <1>6, <1>8 DEF Typed
<1>. QED BY <1>7, <1>8 DEF endSlot

\* After a handler that ends the slot, sleep, without a pointer.
LEMMA SlotEnded ==
    ASSUME Inv, NEW m, NEW P, Sound(m, P), KeepsDestinations(mac, m),
           NEW c \in Cell, endSlot(m, c),
           isDAGroot' \in BOOLEAN, isSync' \in BOOLEAN, deSyncTimeout' \in 0..DESYNCTIMEOUT,
           UNCHANGED <<sendingTo, negotiatedCells, trouble>>
    PROVE  Preserved
<1>1. Typed
  BY TypedParts DEF Inv
<1>2. /\ state' = "S_SLEEP" /\ timer' = "newSlot" /\ radio' = "off"
      /\ irq' \in {"none", "sof", "eof"}
      /\ cell' \in Cell
      /\ autoTxCells' \subseteq Neighbor
      /\ Fit(mac', {})
      /\ KeepsDestinations(m, mac')
      /\ \A b \in Pending(mac') :
            mac'.queue[b].nexthop \in autoTxCells => mac'.queue[b].nexthop \in autoTxCells'
  BY <1>1, EndOfSlot
<1>3. Typed'
  BY <1>1, <1>2 DEF Typed, State
<1>4. mac' \in Mac
  BY <1>2 DEF Fit, Sound
<1>5. TypeOK'
  BY <1>3, <1>4 DEF TypeOK, Typed, Cell
<1>6. SlotsDoNotOverlap' /\ Unsynchronized'
  BY <1>2 DEF SlotsDoNotOverlap, Unsynchronized
<1>7. Fit(mac', PointersIn(state'))
  <2>1. PointersIn("S_SLEEP") = {}
    BY PointersOfStates
  <2>. QED BY <1>2, <2>1
<1>8. KeepsDestinations(mac, mac')
  BY <1>2, DestinationsOfTwo
<1>9. Stranded' \subseteq Stranded
  BY <1>2, <1>8 DEF Stranded, KeepsDestinations
<1>. QED BY <1>5, <1>6, <1>7, <1>9 DEF Preserved, StrandsNone, Inv

\* After any other step.
LEMMA SlotGoesOn ==
    ASSUME Inv, Typed', SlotsDoNotOverlap', Unsynchronized',
           Fit(mac', PointersIn(state')), KeepsDestinations(mac, mac'),
           UNCHANGED <<sendingTo, negotiatedCells, autoTxCells>>
    PROVE  Preserved
<1>1. mac' \in Mac
  BY DEF Fit, Sound
<1>2. TypeOK'
  BY <1>1 DEF TypeOK, Typed, Cell
<1>3. Stranded' \subseteq Stranded
  BY DEF Stranded, KeepsDestinations
<1>. QED BY <1>2, <1>3 DEF Preserved, StrandsNone, Inv

\* In particular when the buffers stay as they are.
LEMMA BuffersUnchanged ==
    ASSUME Inv, Typed', SlotsDoNotOverlap', Unsynchronized',
           PointersIn(state') = PointersIn(state),
           UNCHANGED <<mac, sendingTo, negotiatedCells, autoTxCells>>
    PROVE  Preserved
<1>1. Fit(mac', PointersIn(state'))
  BY DEF Inv
<1>2. KeepsDestinations(mac, mac')
  BY SameDestinations
<1>. QED BY <1>1, <1>2, SlotGoesOn

-----------------------------------------------------------------------------
(* The handlers *)

LEMMA CellsTyped ==
    ASSUME Typed PROVE ScheduledCells \subseteq Cell /\ NoCell \in Cell /\ cell \in Cell
<1>1. NoCell \in Cell
  BY DEF NoCell, Cell, CellType, Address
<1>2. cell \in Cell
  BY DEF Typed
<1>3. ASSUME NEW n \in Neighbor, NEW auto \in BOOLEAN
      PROVE  [type |-> "TX", neighbor |-> n, isAutoCell |-> auto] \in Cell
  BY DEF Cell, CellType, Address
<1>4. /\ [type |-> "RX", neighbor |-> NOADDRESS, isAutoCell |-> TRUE] \in Cell
      /\ [type |-> "TXRX", neighbor |-> BROADCAST, isAutoCell |-> FALSE] \in Cell
  BY DEF Cell, CellType, Address
<1>5. \A n \in autoTxCells \cup negotiatedCells : n \in Neighbor
  BY NegotiatedAssumption DEF Typed
<1>6. ASSUME NEW c \in ScheduledCells PROVE c \in Cell
  BY <1>3, <1>4, <1>5, <1>6 DEF ScheduledCells
<1>. QED BY <1>1, <1>2, <1>6

\* The count of the slots without a correction stays in its range.
LEMMA TimeoutTyped ==
    ASSUME Typed, CountSlot PROVE deSyncTimeout' \in 0..DESYNCTIMEOUT
<1>1. PICK slots \in SleepSlots :
          /\ ~LosesSync(slots)
          /\ deSyncTimeout' = IF isDAGroot THEN deSyncTimeout ELSE deSyncTimeout - slots
  BY DEF CountSlot
<1>2. slots \in Nat /\ slots > 0 /\ DESYNCTIMEOUT \in Nat
  BY BoundsAssumption DEF SleepSlots
<1>. QED BY <1>1, <1>2 DEF LosesSync, Typed

LEMMA InvFacts ==
    ASSUME Inv
    PROVE  /\ Typed /\ mac \in Mac
           /\ Fit(mac, PointersIn(state)) /\ Sound(mac, PointersIn(state))
           /\ KeepsDestinations(mac, mac)
           /\ \A p \in Pointer : mac.ptr[p] # NoBuffer <=> p \in PointersIn(state)
BY TypedParts, SameDestinations DEF Inv, Fit, Sound

\* The packet of a slot waited for it.
LEMMA PacketWaits ==
    ASSUME NEW c, NEW ok, ToSend(c, ok) # NoBuffer
    PROVE  ToSend(c, ok) \in Waiting(mac.queue)
<1>1. \A q, n : {b \in Waiting(q) : q[b].nexthop = n} \subseteq Buffer
  BY DEF Waiting
<1>2. ASSUME NEW S, S \subseteq Waiting(mac.queue), FirstOf(S) # NoBuffer
      PROVE  FirstOf(S) \in Waiting(mac.queue)
  <2>1. S \in SUBSET Buffer
    BY <1>2 DEF Waiting
  <2>. QED BY <1>2, <2>1, FirstOfProperties
<1>3. openqueue_macGetDIOPacket(mac.queue) # NoBuffer =>
          openqueue_macGetDIOPacket(mac.queue) \in Waiting(mac.queue)
  BY <1>2 DEF openqueue_macGetDIOPacket
<1>4. openqueue_macGetEBPacket(mac.queue) # NoBuffer =>
          openqueue_macGetEBPacket(mac.queue) \in Waiting(mac.queue)
  BY <1>2 DEF openqueue_macGetEBPacket
<1>5. openqueue_macGetKaPacket(mac.queue, c.neighbor) # NoBuffer =>
          openqueue_macGetKaPacket(mac.queue, c.neighbor) \in Waiting(mac.queue)
  BY <1>2 DEF openqueue_macGetKaPacket
<1>6. openqueue_macGetUnicastPacket(mac.queue, c.neighbor) # NoBuffer =>
          openqueue_macGetUnicastPacket(mac.queue, c.neighbor) \in Waiting(mac.queue)
  <2> DEFINE toNeighbor == {b \in Waiting(mac.queue) : mac.queue[b].nexthop = c.neighbor}
             responses  == {b \in toNeighbor : /\ mac.queue[b].creator = COMPONENT_SIXTOP_RES
                                               /\ mac.queue[b].messageType = "response"}
             S == IF responses # {} THEN responses ELSE toNeighbor
  <2>1. openqueue_macGetUnicastPacket(mac.queue, c.neighbor) = FirstOf(S)
    BY DEF openqueue_macGetUnicastPacket
  <2>2. S \subseteq Waiting(mac.queue)
    OBVIOUS
  <2>. HIDE DEF S
  <2>. QED BY <1>2, <2>1, <2>2
<1>. QED BY <1>3, <1>4, <1>5, <1>6 DEF ToSend, PacketFor, FirstNonNull

LEMMA StartsTx ==
    ASSUME Inv, UNCHANGED trouble, NEW c \in ScheduledCells, NEW ok, StartTx(c, ok)
    PROVE  Preserved
<1> DEFINE b == ToSend(c, ok)
           p == "dataToSend"
           q == SetOwner(mac.queue, b, COMPONENT_IEEE802154E)
           t == [mac.ptr EXCEPT ![p] = b]
<1>1. /\ Typed /\ mac \in Mac /\ Fit(mac, {}) /\ Sound(mac, {})
      /\ mac.ptr \in [Pointer -> Buffer \cup {NoBuffer}] /\ mac.queue \in Queue
      /\ p \in Pointer /\ COMPONENT_IEEE802154E \in Component
  <2>1. state = "S_SLEEP"
    BY DEF StartTx
  <2>2. PointersIn(state) = {}
    BY <2>1, PointersOfStates
  <2>. QED BY <2>2, InvFacts, Constants DEF Mac, Pointer
<1>2. b \in Waiting(mac.queue) /\ mac' = [mac EXCEPT !.ptr[p] = b, !.queue = q]
  BY PacketWaits DEF StartTx
<1>3. b \in Buffer /\ mac.queue[b].owner = COMPONENT_SIXTOP_TO_IEEE802154E
  BY <1>2 DEF Waiting
<1>4. b \in Pending(mac)
  BY <1>3 DEF Pending
<1>. HIDE DEF b
<1>5. q \in Queue /\ q[b].owner = COMPONENT_IEEE802154E /\ \A d \in Buffer \ {b} : q[d] = mac.queue[d]
  BY <1>1, <1>3, SetOwnerProperties
<1>6. q[b].nexthop = mac.queue[b].nexthop /\ q[b].retriesLeft = mac.queue[b].retriesLeft
  <2>1. q[b] = [mac.queue[b] EXCEPT !.owner = COMPONENT_IEEE802154E]
    BY <1>1, <1>3, SetOwnerEntry
  <2>2. mac.queue[b] \in Entry
    BY <1>1, <1>3 DEF Queue
  <2>. QED BY <2>1, <2>2 DEF Entry
<1>. HIDE DEF q
<1>7. t \in [Pointer -> Buffer \cup {NoBuffer}] /\ t[p] = b /\ \A r \in Pointer \ {p} : t[r] = mac.ptr[r]
  BY <1>1, <1>3
<1>8. mac' = [mac EXCEPT !.ptr = t, !.queue = q]
  BY <1>2
<1>. HIDE DEF t
<1>9. mac' \in Mac /\ mac'.ptr = t /\ mac'.queue = q
  BY <1>1, <1>5, <1>7, <1>8 DEF Mac
<1>10. \A r \in Pointer : mac.ptr[r] = NoBuffer
  BY <1>1 DEF Sound
<1>11. \A d \in Buffer : mac.queue[d].owner # COMPONENT_IEEE802154E
  BY <1>1 DEF Sound
<1>12. ASSUME NEW d \in Pending(mac')
       PROVE  /\ d \in Pending(mac) /\ mac'.queue[d].nexthop = mac.queue[d].nexthop
              /\ Attempts(mac'.queue[d])
  <2>1. d \in Pending(mac) /\ mac'.queue[d].nexthop = mac.queue[d].nexthop
        /\ mac'.queue[d].retriesLeft = mac.queue[d].retriesLeft
    BY <1>4, <1>5, <1>6, <1>7, <1>9, <1>12 DEF Pending
  <2>2. Attempts(mac.queue[d])
    BY <1>1, <2>1 DEF Sound
  <2>. QED BY <2>1, <2>2 DEF Attempts
<1>13. Sound(mac', {p})
  <2>1. \A r \in Pointer \ {p} : mac'.ptr[r] = NoBuffer
    BY <1>7, <1>9, <1>10
  <2>2. \A d \in Buffer : mac'.queue[d].owner = COMPONENT_IEEE802154E => mac'.ptr[p] = d
    BY <1>5, <1>7, <1>9, <1>11
  <2>3. mac'.queue[mac'.ptr[p]].owner = COMPONENT_IEEE802154E /\ mac'.ptr[p] # NoBuffer
    BY <1>3, <1>5, <1>7, <1>9, Constants
  <2>. QED BY <1>1, <1>9, <1>12, <2>1, <2>2, <2>3 DEF Sound
<1>14. Fit(mac', {p})
  BY <1>3, <1>5, <1>7, <1>9, <1>13, Constants DEF Fit
<1>15. state' = "S_TXDATAOFFSET" /\ timer' = "fsm" /\ isSync' /\ isSync' = isSync
  BY DEF StartTx, CountSlot, SlotFires
<1>16. Fit(mac', PointersIn(state'))
  <2>1. PointersIn("S_TXDATAOFFSET") = {"dataToSend"}
    BY PointersOfStates DEF TxDataStates
  <2>. QED BY <1>14, <1>15, <2>1
<1>17. Typed'
  BY <1>1, <1>15, TimeoutTyped, CellsTyped DEF StartTx, Typed, State, TxDataStates, Upper
<1>18. SlotsDoNotOverlap' /\ Unsynchronized'
  BY <1>15 DEF SlotsDoNotOverlap, Unsynchronized, SyncStates
<1>19. KeepsDestinations(mac, mac')
  BY <1>12 DEF KeepsDestinations
<1>. QED BY <1>16, <1>17, <1>18, <1>19, SlotGoesOn DEF StartTx, Upper

LEMMA StartsRx ==
    ASSUME Inv, UNCHANGED trouble, NEW c \in ScheduledCells, NEW ok, StartRx(c, ok)
    PROVE  Preserved
<1>1. state = "S_SLEEP" /\ state' = "S_RXDATAOFFSET" /\ timer' = "fsm" /\ isSync' /\ isSync' = isSync
  BY DEF StartRx, CountSlot, SlotFires
<1>2. PointersIn(state) = {} /\ PointersIn(state') = {}
  BY <1>1, PointersOfStates DEF RxDataStates
<1>3. Typed /\ mac \in Mac /\ Fit(mac, {}) /\ "dataToSend" \in Pointer
  BY <1>2, InvFacts DEF Pointer
<1>4. mac' \in Mac /\ mac'.queue = mac.queue /\ mac'.ptr = mac.ptr
  <2>1. mac.ptr \in [Pointer -> Buffer \cup {NoBuffer}] /\ mac.ptr["dataToSend"] = NoBuffer
    BY <1>3 DEF Fit, Sound, Mac
  <2>2. [mac.ptr EXCEPT !["dataToSend"] = NoBuffer] = mac.ptr
    BY <1>3, <2>1
  <2>3. mac' = Clear(mac, "dataToSend") \/ mac' = mac
    BY DEF StartRx
  <2>. QED BY <1>3, <2>2, <2>3, ClearProperties
<1>5. Fit(mac', PointersIn(state')) /\ KeepsDestinations(mac, mac')
  BY <1>2, <1>3, <1>4, SameBuffers
<1>6. Typed'
  BY <1>1, <1>3, TimeoutTyped, CellsTyped DEF StartRx, Typed, State, RxDataStates, Upper
<1>7. SlotsDoNotOverlap' /\ Unsynchronized'
  BY <1>1 DEF SlotsDoNotOverlap, Unsynchronized, SyncStates
<1>. QED BY <1>5, <1>6, <1>7, SlotGoesOn DEF StartRx, Upper

LEMMA SlotPasses ==
    ASSUME Inv, UNCHANGED trouble, NEW c \in ScheduledCells, NEW ok, NothingToSend(c, ok)
    PROVE  Preserved
<1> DEFINE m == Clear(mac, "dataToSend")
<1>1. state = "S_SLEEP" /\ PointersIn("S_SLEEP") = {} /\ "dataToSend" \in Pointer
  BY PointersOfStates DEF NothingToSend, Pointer
<1>2. Typed /\ mac \in Mac /\ Sound(mac, {}) /\ mac.ptr \in [Pointer -> Buffer \cup {NoBuffer}]
  BY <1>1, InvFacts DEF Mac
<1>3. mac.ptr["dataToSend"] = NoBuffer
  BY <1>1, <1>2 DEF Sound
<1>4. m \in Mac /\ m.queue = mac.queue /\ m.ptr = [mac.ptr EXCEPT !["dataToSend"] = NoBuffer]
  BY <1>1, <1>2, ClearProperties
<1>. HIDE DEF m
<1>5. m.ptr = mac.ptr
  BY <1>2, <1>3, <1>4
<1>6. Sound(m, {}) /\ KeepsDestinations(mac, m)
  BY <1>2, <1>4, <1>5, SameBuffers
<1>7. endSlot(m, c) /\ c \in Cell
  BY <1>2, CellsTyped DEF NothingToSend, m
<1>8. deSyncTimeout' \in 0..DESYNCTIMEOUT
  BY <1>2, TimeoutTyped DEF NothingToSend
<1>. QED BY <1>2, <1>6, <1>7, <1>8, SlotEnded DEF NothingToSend, Typed, Upper

LEMMA NewSlot ==
    ASSUME Inv, UNCHANGED trouble, isr_ieee154e_newSlot
    PROVE  Preserved
<1>1. /\ Typed /\ Sound(mac, PointersIn(state)) /\ KeepsDestinations(mac, mac)
      /\ NoCell \in Cell
  BY InvFacts, CellsTyped
<1>2. CASE BecomeRoot
  BY <1>1, <1>2, SlotEnded DEF BecomeRoot, changeIsSync, Typed, Upper
<1>3. CASE activity_synchronize_newSlot
  <2>1. ~isSync /\ isSync' = isSync /\ timer = "newSlot" /\ timer' = timer /\ state' = "S_SYNCLISTEN"
    BY <1>3 DEF activity_synchronize_newSlot, SlotFires
  <2>2. PointersIn(state') = PointersIn(state)
    <3>1. state \in SyncStates \cup {"S_SLEEP"}
      BY <2>1 DEF Inv, Unsynchronized
    <3>. QED BY <2>1, <3>1, PointersOfStates DEF SyncStates
  <2>3. Typed'
    BY <1>1, <1>3, <2>1 DEF activity_synchronize_newSlot, Typed, State, SyncStates, Upper
  <2>4. SlotsDoNotOverlap' /\ Unsynchronized'
    BY <2>1 DEF SlotsDoNotOverlap, Unsynchronized, SyncStates
  <2>. QED BY <1>3, <2>2, <2>3, <2>4, BuffersUnchanged DEF activity_synchronize_newSlot, Upper
<1>4. CASE Desynchronize
  BY <1>1, <1>4, SlotEnded DEF Desynchronize, changeIsSync, Typed, Upper
<1>5. CASE InactiveSlot
  <2>1. deSyncTimeout' \in 0..DESYNCTIMEOUT
    BY <1>1, <1>5, TimeoutTyped DEF InactiveSlot
  <2>. QED BY <1>1, <1>5, <2>1, SlotEnded DEF InactiveSlot, Typed, Upper
<1>6. ASSUME NEW c \in ScheduledCells, NEW ok \in BOOLEAN,
             StartTx(c, ok) \/ StartRx(c, ok) \/ NothingToSend(c, ok)
      PROVE  Preserved
  BY <1>6, StartsTx, StartsRx, SlotPasses
<1>. QED BY <1>2, <1>3, <1>4, <1>5, <1>6 DEF isr_ieee154e_newSlot

\* An activity that arms the timer for the next one, with the same pointers.
LEMMA Proceeds ==
    ASSUME Inv, UNCHANGED <<trouble, mac, isSync, deSyncTimeout, isDAGroot, sendingTo, negotiatedCells>>,
           NEW to \in State \ (SyncStates \cup {"S_SLEEP"}), Proceed(to),
           timer = "fsm" \/ (isSync /\ state # "S_SLEEP"),
           PointersIn(to) = PointersIn(state),
           radio' \in {"off", "rx", "rxFrame", "tx", "txFrame", "done"},
           irq' \in {"none", "sof", "eof"}
    PROVE  Preserved
<1>1. state' = to /\ UNCHANGED <<timer, cell, autoTxCells>>
  BY DEF Proceed
<1>2. Typed
  BY InvFacts
<1>3. timer = "fsm" /\ isSync
  BY <1>2 DEF Inv, SlotsDoNotOverlap, Typed
<1>4. Typed'
  BY <1>1, <1>2 DEF Typed
<1>5. SlotsDoNotOverlap' /\ Unsynchronized'
  BY <1>1, <1>3 DEF SlotsDoNotOverlap, Unsynchronized
<1>. QED BY <1>1, <1>4, <1>5, BuffersUnchanged

\* The pointers that each activity finds.
LEMMA PointersFound ==
    ASSUME Inv
    PROVE  /\ state \in TxDataStates \cup RxAckStates =>
                 /\ Fit(mac, {"dataToSend"}) /\ Sound(mac, {"dataToSend"})
                 /\ mac.ptr["dataToSend"] # NoBuffer
           /\ state \in RxDataStates \cup SyncStates =>
                 Fit(mac, {}) /\ Sound(mac, {})
           /\ state = "S_TXACKOFFSET" =>
                 /\ Fit(mac, {"dataReceived"}) /\ Sound(mac, {"dataReceived"})
                 /\ mac.ptr["dataReceived"] # NoBuffer
           /\ state \in TxAckStates \ {"S_TXACKOFFSET"} =>
                 /\ Fit(mac, {"dataReceived", "ackToSend"}) /\ Sound(mac, {"dataReceived", "ackToSend"})
                 /\ mac.ptr["dataReceived"] # NoBuffer /\ mac.ptr["ackToSend"] # NoBuffer
<1>1. Fit(mac, PointersIn(state)) /\ Sound(mac, PointersIn(state))
  BY InvFacts
<1>2. \A p \in PointersIn(state) : mac.ptr[p] # NoBuffer
  BY <1>1 DEF Fit
<1>3. CASE state \in TxDataStates \cup RxAckStates
  <2>1. PointersIn(state) = {"dataToSend"}
    BY <1>3, PointersOfStates
  <2>. QED BY <1>1, <1>2, <1>3, <2>1 DEF TxDataStates, RxAckStates, RxDataStates, SyncStates, TxAckStates
<1>4. CASE state \in RxDataStates \cup SyncStates
  <2>1. PointersIn(state) = {}
    BY <1>4, PointersOfStates
  <2>. QED BY <1>1, <1>4, <2>1 DEF TxDataStates, RxAckStates, RxDataStates, SyncStates, TxAckStates
<1>5. CASE state = "S_TXACKOFFSET"
  <2>1. PointersIn(state) = {"dataReceived"}
    BY <1>5, PointersOfStates
  <2>. QED BY <1>1, <1>2, <1>5, <2>1 DEF TxDataStates, RxAckStates, RxDataStates, SyncStates
<1>6. CASE state \in TxAckStates \ {"S_TXACKOFFSET"}
  <2>1. PointersIn(state) = {"dataReceived", "ackToSend"}
    BY <1>6, PointersOfStates
  <2>. QED BY <1>1, <1>2, <1>6, <2>1 DEF TxDataStates, RxAckStates, RxDataStates, SyncStates, TxAckStates
<1>. QED BY <1>3, <1>4, <1>5, <1>6

LEMMA TimerHandler ==
    ASSUME Inv, UNCHANGED trouble, isr_ieee154e_timer
    PROVE  Preserved
<1>1. /\ Typed /\ Sound(mac, PointersIn(state)) /\ KeepsDestinations(mac, mac)
      /\ cell \in Cell
  BY InvFacts, CellsTyped
<1>2. CASE activity_ti2
  <2>1. timer = "fsm" /\ state = "S_TXDATAOFFSET" /\ Proceed("S_TXDATAREADY")
    BY <1>2 DEF activity_ti2, TimerFires
  <2>2. PointersIn("S_TXDATAREADY") = PointersIn(state)
    BY <2>1, PointersOfStates DEF TxDataStates
  <2>3. "S_TXDATAREADY" \in State \ (SyncStates \cup {"S_SLEEP"})
    BY DEF State, TxDataStates, SyncStates
  <2>. QED BY <1>1, <1>2, <2>1, <2>2, <2>3, Proceeds DEF activity_ti2, Unsent, Upper, Typed
<1>3. CASE activity_ti2_fails
  <2>1. state = "S_TXDATAOFFSET" /\ UNCHANGED Unsent
    BY <1>3 DEF activity_ti2_fails, TimerFires
  <2>2. isDAGroot' \in BOOLEAN /\ isSync' \in BOOLEAN /\ deSyncTimeout' \in 0..DESYNCTIMEOUT
    BY <1>1, <2>1 DEF Unsent, Upper, Typed
  <2>3. CASE endSlot(mac, cell)
    BY <1>1, <2>1, <2>2, <2>3, SlotEnded DEF Unsent, Upper
  <2>4. CASE endSlot(SetRetries(mac, mac.ptr["dataToSend"], 1), cell)
    <3> DEFINE b == mac.ptr["dataToSend"]
               e == [mac.queue[b] EXCEPT !.retriesLeft = 1]
               q == [mac.queue EXCEPT ![b] = e]
               m == SetRetries(mac, b, 1)
    <3>1. Sound(mac, {"dataToSend"}) /\ b # NoBuffer
      BY <2>1, PointersFound DEF TxDataStates
    <3>2. mac \in Mac /\ b \in Buffer /\ mac.queue \in Queue /\ mac.queue[b] \in Entry
      BY <3>1 DEF Sound, Mac, Pointer, Queue
    <3>3. e \in Entry /\ e.owner = mac.queue[b].owner /\ e.nexthop = mac.queue[b].nexthop
          /\ e.retriesLeft = 1
      BY <3>2 DEF Entry
    <3>. HIDE DEF e
    <3>4. q \in Queue /\ q[b] = e /\ \A d \in Buffer \ {b} : q[d] = mac.queue[d]
      BY <3>2, <3>3 DEF Queue
    <3>5. m = [mac EXCEPT !.queue = q]
      BY DEF SetRetries, e
    <3>. HIDE DEF q
    <3>6. m \in Mac /\ m.queue = q /\ m.ptr = mac.ptr
      BY <3>2, <3>4, <3>5 DEF Mac
    <3>. HIDE DEF m
    <3>7. Attempts(e)
      BY <3>3, Constants DEF Attempts
    <3>8. \A d \in Buffer : /\ m.queue[d].owner = mac.queue[d].owner
                            /\ m.queue[d].nexthop = mac.queue[d].nexthop
      BY <3>3, <3>4, <3>6
    <3>9. Pending(m) = Pending(mac)
      BY <3>6, <3>8 DEF Pending
    <3>10. \A d \in Pending(m) : Attempts(m.queue[d])
      BY <3>1, <3>4, <3>6, <3>7, <3>9 DEF Sound, Pending
    <3>11. mac.ptr["dataToSend"] \in Buffer
      BY <3>2
    <3>12. Sound(m, {"dataToSend"})
      BY <3>1, <3>6, <3>8, <3>10, <3>11 DEF Sound
    <3>13. KeepsDestinations(mac, m)
      BY <3>8, <3>9 DEF KeepsDestinations, Pending
    <3>14. endSlot(m, cell)
      BY <2>4 DEF m
    <3>. QED BY <1>1, <2>1, <2>2, <3>12, <3>13, <3>14, SlotEnded DEF Unsent, Upper
  <2>. QED BY <1>3, <2>3, <2>4 DEF activity_ti2_fails
<1>4. CASE GoTransmit
  <2>1. PICK to \in {"S_TXDATADELAY", "S_TXACKDELAY"} :
            /\ timer = "fsm" /\ Proceed(to)
            /\ \/ state = "S_TXDATAREADY" /\ to = "S_TXDATADELAY"
               \/ state = "S_TXACKREADY" /\ to = "S_TXACKDELAY"
    BY <1>4 DEF GoTransmit, TimerFires
  <2>2. PointersIn(to) = PointersIn(state)
    BY <2>1, PointersOfStates DEF TxDataStates, TxAckStates
  <2>3. to \in State \ (SyncStates \cup {"S_SLEEP"})
    BY DEF State, TxDataStates, TxAckStates, SyncStates
  <2>. QED BY <1>1, <1>4, <2>1, <2>2, <2>3, Proceeds DEF GoTransmit, Unsent, Upper, Typed
<1>5. CASE GetReady
  <2>1. PICK to \in {"S_RXACKREADY", "S_RXDATAREADY"} :
            /\ timer = "fsm" /\ Proceed(to)
            /\ \/ state = "S_RXACKOFFSET" /\ to = "S_RXACKREADY"
               \/ state = "S_RXDATAOFFSET" /\ to = "S_RXDATAREADY"
    BY <1>5 DEF GetReady, TimerFires
  <2>2. PointersIn(to) = PointersIn(state)
    BY <2>1, PointersOfStates DEF RxAckStates, RxDataStates
  <2>3. to \in State \ (SyncStates \cup {"S_SLEEP"})
    BY DEF State, RxAckStates, RxDataStates, SyncStates
  <2>. QED BY <1>1, <1>5, <2>1, <2>2, <2>3, Proceeds DEF GetReady, Unsent, Upper, Typed
<1>6. CASE GoReceive
  <2>1. PICK to \in {"S_RXACKLISTEN", "S_RXDATALISTEN"} :
            /\ timer = "fsm" /\ Proceed(to)
            /\ \/ state = "S_RXACKREADY" /\ to = "S_RXACKLISTEN"
               \/ state = "S_RXDATAREADY" /\ to = "S_RXDATALISTEN"
    BY <1>6 DEF GoReceive, TimerFires
  <2>2. PointersIn(to) = PointersIn(state)
    BY <2>1, PointersOfStates DEF RxAckStates, RxDataStates
  <2>3. to \in State \ (SyncStates \cup {"S_SLEEP"})
    BY DEF State, RxAckStates, RxDataStates, SyncStates
  <2>. QED BY <1>1, <1>6, <2>1, <2>2, <2>3, Proceeds DEF GoReceive, Unsent, Upper, Typed
<1>7. CASE activity_tie5
  <2>1. state = "S_RXACKLISTEN"
    BY <1>7 DEF activity_tie5, TimerFires
  <2>2. Sound(mac, {"dataToSend"}) /\ mac.ptr["dataToSend"] # NoBuffer
    BY <2>1, PointersFound DEF RxAckStates
  <2>3. /\ Sound(TransmissionFailed(mac), {"dataToSend"} \ {"dataToSend"})
        /\ KeepsDestinations(mac, TransmissionFailed(mac))
    BY <2>2, Fails
  <2>. QED BY <1>1, <1>7, <2>3, SlotEnded DEF activity_tie5, Unsent, Upper, Typed
<1>8. CASE TimeOut
  BY <1>1, <1>8, SlotEnded DEF TimeOut, Unsent, Upper, Typed
<1>9. CASE activity_ri6
  <2> DEFINE p == "ackToSend"
             m == GetBuffer(mac, p)
  <2>1. timer = "fsm" /\ state = "S_TXACKOFFSET"
    BY <1>9 DEF activity_ri6, TimerFires
  <2>2. /\ Fit(mac, {"dataReceived"}) /\ Sound(mac, {"dataReceived"})
        /\ mac.ptr["dataReceived"] # NoBuffer
    BY <2>1, PointersFound
  <2>3. p \in Pointer \ {"dataToSend"} /\ mac.ptr[p] = NoBuffer
    BY <2>2 DEF Sound, Pointer
  <2>4. /\ Sound(m, {"dataReceived"} \cup {p})
        /\ KeepsDestinations(mac, m)
        /\ m.ptr["dataToSend"] = mac.ptr["dataToSend"]
        /\ m.ptr[p] = NoBuffer => Fit(m, {"dataReceived"}) /\ Sound(m, {"dataReceived"})
        /\ m.ptr[p] # NoBuffer => Fit(m, {"dataReceived"} \cup {p})
    BY <2>2, <2>3, Allocates
  <2>. HIDE DEF m
  <2>5. isDAGroot' \in BOOLEAN /\ isSync' \in BOOLEAN /\ deSyncTimeout' \in 0..DESYNCTIMEOUT
        /\ UNCHANGED Upper /\ isSync' = isSync
    BY <1>1, <1>9 DEF activity_ri6, Unsent, Upper, Typed
  <2>6. CASE m.ptr[p] = NoBuffer /\ endSlot(ReceptionDone(m), cell)
    <3>1. m.ptr["dataReceived"] # NoBuffer
      BY <2>4, <2>6 DEF Fit
    <3>2. /\ Sound(ReceptionDone(m), {"dataReceived"} \ {"dataReceived"})
          /\ KeepsDestinations(m, ReceptionDone(m))
      BY <2>4, <2>6, <3>1, Receives
    <3>3. KeepsDestinations(mac, ReceptionDone(m))
      BY <2>4, <3>2, DestinationsOfTwo
    <3>. QED BY <1>1, <2>5, <2>6, <3>2, <3>3, SlotEnded DEF Upper
  <2>7. CASE m.ptr[p] # NoBuffer /\ endSlot(FreeBuffer(m, p), cell)
    <3> DEFINE n == FreeBuffer(m, p)
    <3>1. m \in Mac /\ m.ptr \in [Pointer -> Buffer \cup {NoBuffer}] /\ p \in Pointer
          /\ "dataToSend" \in Pointer
      BY <2>3, <2>4 DEF Sound, Mac, Pointer
    <3>2. /\ n \in Mac /\ n.ptr = m.ptr
          /\ n.queue[m.ptr[p]].owner = COMPONENT_NULL
          /\ \A d \in Buffer \ {m.ptr[p]} : n.queue[d] = m.queue[d]
      BY <2>7, <3>1, FreeBufferProperties
    <3>. HIDE DEF n
    <3>3. m.ptr["dataToSend"] = NoBuffer
      BY <2>2, <2>4, <3>1 DEF Sound
    <3>4. ASSUME NEW d \in Pending(n)
          PROVE  d \in Pending(m) /\ n.queue[d] = m.queue[d] /\ Attempts(n.queue[d])
      <4>1. d \in Buffer /\ d # NoBuffer /\ n.queue[d].owner = COMPONENT_SIXTOP_TO_IEEE802154E
        BY <3>2, <3>3, <3>4, Constants DEF Pending
      <4>2. d # m.ptr[p] /\ n.queue[d] = m.queue[d]
        BY <3>2, <4>1
      <4>. QED BY <2>4, <4>1, <4>2 DEF Pending, Sound
    <3>5. Sound(n, {"dataReceived"} \cup {p})
      <4>1. \A d \in Buffer : n.queue[d].owner = COMPONENT_IEEE802154E =>
                                  m.queue[d].owner = COMPONENT_IEEE802154E
        BY <3>2
      <4>. QED BY <2>4, <3>2, <3>3, <3>4, <4>1 DEF Sound
    <3>6. KeepsDestinations(m, n)
      BY <3>4 DEF KeepsDestinations
    <3>7. KeepsDestinations(mac, n)
      BY <2>4, <3>6, DestinationsOfTwo
    <3>8. endSlot(n, cell)
      BY <2>7 DEF n
    <3>. QED BY <1>1, <2>5, <3>5, <3>7, <3>8, SlotEnded DEF Upper
  <2>8. CASE m.ptr[p] # NoBuffer /\ mac' = m /\ Proceed("S_TXACKREADY") /\ UNCHANGED <<radio, irq>>
    <3>1. state' = "S_TXACKREADY" /\ timer' = "fsm" /\ isSync /\ isSync'
      BY <2>1, <2>5, <2>8 DEF Proceed, Inv, SlotsDoNotOverlap
    <3>2. PointersIn(state') = {"dataReceived"} \cup {p}
      BY <3>1, PointersOfStates DEF TxAckStates
    <3>3. Fit(mac', PointersIn(state')) /\ KeepsDestinations(mac, mac')
      BY <2>4, <2>8, <3>2
    <3>4. Typed'
      BY <1>1, <2>5, <2>8, <3>1 DEF Proceed, Typed, State, TxAckStates, Upper
    <3>5. SlotsDoNotOverlap' /\ Unsynchronized'
      BY <3>1 DEF SlotsDoNotOverlap, Unsynchronized, SyncStates
    <3>. QED BY <2>5, <2>8, <3>3, <3>4, <3>5, SlotGoesOn DEF Proceed, Upper
  <2>. QED BY <1>9, <2>6, <2>7, <2>8 DEF activity_ri6, m
<1>. QED BY <1>2, <1>3, <1>4, <1>5, <1>6, <1>7, <1>8, <1>9 DEF isr_ieee154e_timer

LEMMA StartHandler ==
    ASSUME Inv, UNCHANGED trouble, ieee154e_startOfFrame
    PROVE  Preserved
<1>1. /\ Typed /\ Sound(mac, PointersIn(state)) /\ KeepsDestinations(mac, mac)
      /\ cell \in Cell /\ UNCHANGED Unsent
      /\ isDAGroot' \in BOOLEAN /\ isSync' \in BOOLEAN /\ deSyncTimeout' \in 0..DESYNCTIMEOUT
  BY InvFacts, CellsTyped DEF ieee154e_startOfFrame, Unsent, Upper, Typed
<1>2. CASE SyncStartOfFrame /\ irq' = "none"
  <2>1. /\ ~isSync /\ isSync' = isSync /\ UNCHANGED <<radio, timer, cell, autoTxCells, mac>>
        /\ state' = IF state = "S_SYNCLISTEN" THEN "S_SYNCRX" ELSE state
    BY <1>1, <1>2 DEF SyncStartOfFrame, Unsent
  <2>2. PointersIn(state') = PointersIn(state)
    BY <2>1, PointersOfStates DEF SyncStates
  <2>3. Typed'
    BY <1>1, <1>2, <2>1 DEF Unsent, Upper, Typed, State, SyncStates
  <2>4. SlotsDoNotOverlap' /\ Unsynchronized'
    BY <2>1 DEF Inv, SlotsDoNotOverlap, Unsynchronized, SyncStates
  <2>. QED BY <1>1, <2>1, <2>2, <2>3, <2>4, BuffersUnchanged DEF Unsent, Upper
<1>3. CASE FrameStarts /\ irq' = "none"
  <2>1. PICK to \in {"S_TXDATA", "S_RXACK", "S_RXDATA", "S_TXACK"} :
            /\ Proceed(to)
            /\ \/ state = "S_TXDATADELAY" /\ to = "S_TXDATA"
               \/ state \in {"S_RXACKREADY", "S_RXACKLISTEN"} /\ to = "S_RXACK"
               \/ state \in {"S_RXDATAREADY", "S_RXDATALISTEN"} /\ to = "S_RXDATA"
               \/ state = "S_TXACKDELAY" /\ to = "S_TXACK"
    BY <1>3 DEF FrameStarts
  <2>2. PointersIn(to) = PointersIn(state)
    BY <2>1, PointersOfStates DEF TxDataStates, RxAckStates, RxDataStates, TxAckStates
  <2>3. to \in State \ (SyncStates \cup {"S_SLEEP"}) /\ state # "S_SLEEP"
    BY <2>1 DEF State, TxDataStates, RxAckStates, RxDataStates, TxAckStates, SyncStates
  <2>4. isSync /\ UNCHANGED <<mac, radio>>
    BY <1>3 DEF FrameStarts
  <2>. QED BY <1>1, <1>3, <2>1, <2>2, <2>3, <2>4, Proceeds DEF Unsent, Upper, Typed
<1>4. CASE endSlot(mac, cell)
  BY <1>1, <1>4, SlotEnded DEF Unsent, Upper
<1>. QED BY <1>2, <1>3, <1>4 DEF ieee154e_startOfFrame

\* A buffer for what was received, and the frame or acknowledgement in it.
LEMMA EndHandler ==
    ASSUME Inv, UNCHANGED trouble, ieee154e_endOfFrame
    PROVE  Preserved
<1>1. /\ Typed /\ Sound(mac, PointersIn(state)) /\ KeepsDestinations(mac, mac)
      /\ cell \in Cell /\ NoCell \in Cell /\ irq' = "none"
      /\ UNCHANGED <<isDAGroot, sendingTo, negotiatedCells>> /\ isDAGroot' \in BOOLEAN
  BY InvFacts, CellsTyped DEF ieee154e_endOfFrame, Upper, Typed
<1>2. /\ Synchronize => deSyncTimeout' \in 0..DESYNCTIMEOUT
      /\ UNCHANGED deSyncTimeout => deSyncTimeout' \in 0..DESYNCTIMEOUT
      /\ UNCHANGED isSync => isSync' \in BOOLEAN
      /\ \A b : MayChangeTimeout(b) => deSyncTimeout' \in 0..DESYNCTIMEOUT
  BY <1>1, BoundsAssumption DEF Synchronize, MayChangeTimeout, Typed
<1>3. /\ {"dataToSend", "dataReceived", "ackToSend", "ackReceived"} \subseteq Pointer
      /\ {"dataReceived", "ackToSend", "ackReceived"} \subseteq Pointer \ {"dataToSend"}
  BY DEF Pointer
<1>4. CASE IgnoredEnd
  <2>1. UNCHANGED <<isSync, deSyncTimeout, state, timer, radio, cell, autoTxCells, mac>>
    BY <1>4 DEF IgnoredEnd
  <2>2. Typed' /\ SlotsDoNotOverlap' /\ Unsynchronized' /\ PointersIn(state') = PointersIn(state)
    BY <1>1, <2>1 DEF Inv, Typed, SlotsDoNotOverlap, Unsynchronized
  <2>. QED BY <1>1, <2>1, <2>2, BuffersUnchanged
<1>5. CASE NoBeacon
  <2> DEFINE p == "dataReceived"
             m == GetBuffer(mac, p)
             n == Clear(FreeBuffer(m, p), p)
  <2>1. ~isSync /\ state = "S_SYNCRX" /\ UNCHANGED <<isSync, deSyncTimeout, timer, radio, cell, autoTxCells>>
    BY <1>5 DEF NoBeacon
  <2>2. Fit(mac, {}) /\ Sound(mac, {})
    BY <2>1, PointersFound DEF SyncStates
  <2>3. mac.ptr[p] = NoBuffer
    BY <1>3, <2>2 DEF Sound
  <2>4. /\ Sound(m, {} \cup {p}) /\ KeepsDestinations(mac, m)
        /\ m.ptr[p] = NoBuffer => Fit(m, {})
    BY <1>3, <2>2, <2>3, Allocates
  <2>5. m.ptr[p] # NoBuffer => Sound(n, ({} \cup {p}) \ {p}) /\ KeepsDestinations(m, n)
    BY <1>3, <2>4, Frees
  <2>6. \/ m.ptr[p] = NoBuffer /\ mac' = m /\ state' = "S_SYNCPROC"
        \/ m.ptr[p] # NoBuffer /\ mac' = n /\ state' = "S_SYNCLISTEN"
    BY <1>5 DEF NoBeacon
  <2>. HIDE DEF m, n
  <2>7. Fit(mac', {}) /\ KeepsDestinations(mac, mac')
    <3>1. ({} \cup {p}) \ {p} = {}
      OBVIOUS
    <3>2. CASE m.ptr[p] = NoBuffer /\ mac' = m
      BY <2>4, <3>2
    <3>3. CASE m.ptr[p] # NoBuffer /\ mac' = n
      BY <2>4, <2>5, <3>1, <3>3, NonePending, DestinationsOfTwo
    <3>. QED BY <2>6, <3>2, <3>3
  <2>8. state' \in SyncStates /\ PointersIn(state') = {}
    BY <2>6, PointersOfStates DEF SyncStates
  <2>9. timer' = "newSlot"
    BY <1>1, <2>1 DEF Inv, SlotsDoNotOverlap, Typed
  <2>10. Typed' /\ SlotsDoNotOverlap' /\ Unsynchronized'
    BY <1>1, <2>1, <2>8, <2>9 DEF Typed, State, SlotsDoNotOverlap, Unsynchronized
  <2>. QED BY <1>1, <2>1, <2>7, <2>8, <2>10, SlotGoesOn
<1>6. CASE Beacon
  <2> DEFINE p == "dataReceived"
             m == GetBuffer(mac, p)
  <2>1. state = "S_SYNCRX" /\ isSync' = TRUE
    BY <1>6 DEF Beacon, changeIsSync
  <2>2. Fit(mac, {}) /\ Sound(mac, {})
    BY <2>1, PointersFound DEF SyncStates
  <2>3. mac.ptr[p] = NoBuffer
    BY <1>3, <2>2 DEF Sound
  <2>4. Sound(m, {} \cup {p}) /\ KeepsDestinations(mac, m)
    BY <1>3, <2>2, <2>3, Allocates
  <2>5. m.ptr[p] # NoBuffer /\ endSlot(ReceptionDone(m), NoCell) /\ Synchronize
    BY <1>6 DEF Beacon
  <2>. HIDE DEF m
  <2>6. /\ Sound(ReceptionDone(m), ({} \cup {p}) \ {p})
        /\ KeepsDestinations(m, ReceptionDone(m))
    BY <2>4, <2>5, Receives
  <2>7. KeepsDestinations(mac, ReceptionDone(m))
    BY <2>4, <2>6, DestinationsOfTwo
  <2>. QED BY <1>1, <1>2, <2>1, <2>5, <2>6, <2>7, SlotEnded
<1>7. CASE activity_ti5
  <2>1. state = "S_TXDATA" /\ isSync /\ UNCHANGED <<isSync, deSyncTimeout>>
    BY <1>7 DEF activity_ti5
  <2>2. Fit(mac, {"dataToSend"}) /\ Sound(mac, {"dataToSend"}) /\ mac.ptr["dataToSend"] # NoBuffer
    BY <2>1, PointersFound DEF TxDataStates
  <2>3. CASE endSlot(Clear(notif_sendDone(mac), "dataToSend"), cell)
    <3> DEFINE n == Clear(notif_sendDone(mac), "dataToSend")
    <3>1. Sound(n, {"dataToSend"} \ {"dataToSend"}) /\ KeepsDestinations(mac, n)
      BY <2>2, Sends
    <3>. QED BY <1>1, <1>2, <2>1, <2>3, <3>1, SlotEnded
  <2>4. CASE state' = "S_RXACKOFFSET" /\ radio' = "off" /\ UNCHANGED <<timer, cell, autoTxCells, mac>>
    <3>1. Proceed("S_RXACKOFFSET") /\ state # "S_SLEEP"
      BY <2>1, <2>4 DEF Proceed
    <3>2. PointersIn("S_RXACKOFFSET") = PointersIn(state)
      BY <2>1, PointersOfStates DEF TxDataStates, RxAckStates
    <3>3. "S_RXACKOFFSET" \in State \ (SyncStates \cup {"S_SLEEP"})
      BY DEF State, RxAckStates, SyncStates
    <3>4. /\ UNCHANGED <<trouble, mac, isSync, deSyncTimeout, isDAGroot, sendingTo, negotiatedCells>>
          /\ isSync /\ state # "S_SLEEP"
          /\ radio' \in {"off", "rx", "rxFrame", "tx", "txFrame", "done"}
          /\ irq' \in {"none", "sof", "eof"}
      BY <1>1, <2>1, <2>4
    <3>. QED BY <3>1, <3>2, <3>3, <3>4, Proceeds
  <2>. QED BY <1>7, <2>3, <2>4 DEF activity_ti5
<1>8. CASE activity_ti9
  <2> DEFINE p == "ackReceived"
             m == GetBuffer(mac, p)
             s == Clear(notif_sendDone(m), "dataToSend")
             f == Clear(FreeBuffer(m, p), p)
             g == Clear(FreeBuffer(s, p), p)
  <2>1. state = "S_RXACK" /\ isSync' = isSync
    BY <1>8 DEF activity_ti9
  <2>2. Fit(mac, {"dataToSend"}) /\ Sound(mac, {"dataToSend"}) /\ mac.ptr["dataToSend"] # NoBuffer
    BY <2>1, PointersFound DEF RxAckStates
  <2>3. mac.ptr[p] = NoBuffer
    BY <1>3, <2>2 DEF Sound
  <2>4. /\ Sound(m, {"dataToSend"} \cup {p}) /\ KeepsDestinations(mac, m)
        /\ m.ptr["dataToSend"] # NoBuffer
    BY <1>3, <2>2, <2>3, Allocates
  <2>5. \/ endSlot(m, cell) /\ UNCHANGED deSyncTimeout
        \/ m.ptr[p] # NoBuffer /\ endSlot(f, cell) /\ UNCHANGED deSyncTimeout
        \/ /\ m.ptr[p] # NoBuffer /\ endSlot(g, cell)
           /\ \E b : MayChangeTimeout(b)
    BY <1>8 DEF activity_ti9
  <2>6. m.ptr[p] # NoBuffer =>
            Sound(f, ({"dataToSend"} \cup {p}) \ {p}) /\ KeepsDestinations(mac, f)
    BY <1>3, <2>4, Frees, DestinationsOfTwo
  <2>7. Sound(s, ({"dataToSend"} \cup {p}) \ {"dataToSend"}) /\ KeepsDestinations(mac, s)
    BY <2>4, Sends, DestinationsOfTwo
  <2>8. s.ptr[p] = m.ptr[p]
    <3>1. m \in Mac
      BY <2>4 DEF Sound
    <3>2. notif_sendDone(m) \in Mac /\ notif_sendDone(m).ptr = m.ptr
      BY <2>4, <3>1, NotifSendDoneProperties
    <3>3. p \in Pointer \ {"dataToSend"} /\ "dataToSend" \in Pointer
      BY <1>3
    <3>4. s.ptr[p] = notif_sendDone(m).ptr[p]
      BY <3>2, <3>3, ClearsOnePointer
    <3>. QED BY <3>2, <3>4
  <2>. HIDE DEF m, f, s
  <2>9. m.ptr[p] # NoBuffer =>
            /\ Sound(g, (({"dataToSend"} \cup {p}) \ {"dataToSend"}) \ {p})
            /\ KeepsDestinations(mac, g)
    BY <1>3, <2>7, <2>8, Frees, DestinationsOfTwo
  <2>. HIDE DEF g
  <2>10. CASE endSlot(m, cell) /\ UNCHANGED deSyncTimeout
    BY <1>1, <1>2, <2>1, <2>4, <2>10, SlotEnded
  <2>11. CASE m.ptr[p] # NoBuffer /\ endSlot(f, cell) /\ UNCHANGED deSyncTimeout
    BY <1>1, <1>2, <2>1, <2>6, <2>11, SlotEnded
  <2>12. CASE m.ptr[p] # NoBuffer /\ endSlot(g, cell) /\ \E b : MayChangeTimeout(b)
    BY <1>1, <1>2, <2>1, <2>9, <2>12, SlotEnded
  <2>. QED BY <2>5, <2>10, <2>11, <2>12
<1>9. CASE activity_ri5
  <2> DEFINE p == "dataReceived"
             m == GetBuffer(mac, p)
             f == Clear(FreeBuffer(m, p), p)
  <2>1. state = "S_RXDATA" /\ isSync' = isSync /\ isSync
    BY <1>9 DEF activity_ri5
  <2>2. Fit(mac, {}) /\ Sound(mac, {})
    BY <2>1, PointersFound DEF RxDataStates
  <2>3. mac.ptr[p] = NoBuffer
    BY <1>3, <2>2 DEF Sound
  <2>4. /\ Sound(m, {} \cup {p}) /\ KeepsDestinations(mac, m)
        /\ m.ptr[p] # NoBuffer => Fit(m, {} \cup {p})
    BY <1>3, <2>2, <2>3, Allocates
  <2>5. m.ptr[p] # NoBuffer =>
            /\ Sound(f, ({} \cup {p}) \ {p}) /\ KeepsDestinations(mac, f)
            /\ Sound(ReceptionDone(m), ({} \cup {p}) \ {p}) /\ KeepsDestinations(mac, ReceptionDone(m))
    BY <1>3, <2>4, Frees, Receives, DestinationsOfTwo
  <2>6. \/ endSlot(m, cell) /\ UNCHANGED deSyncTimeout
        \/ m.ptr[p] # NoBuffer /\ endSlot(f, cell) /\ UNCHANGED deSyncTimeout
        \/ /\ m.ptr[p] # NoBuffer /\ mac' = m /\ state' = "S_TXACKOFFSET" /\ radio' = "off"
           /\ UNCHANGED <<timer, cell, autoTxCells, deSyncTimeout>>
        \/ m.ptr[p] # NoBuffer /\ endSlot(ReceptionDone(m), cell) /\ \E b : MayChangeTimeout(b)
    BY <1>9 DEF activity_ri5
  <2>. HIDE DEF m, f
  <2>7. CASE /\ m.ptr[p] # NoBuffer /\ mac' = m /\ state' = "S_TXACKOFFSET" /\ radio' = "off"
             /\ UNCHANGED <<timer, cell, autoTxCells, deSyncTimeout>>
    <3>1. timer' = "fsm"
      BY <1>1, <2>1, <2>7 DEF Inv, SlotsDoNotOverlap, Typed
    <3>2. PointersIn(state') = {} \cup {p}
      BY <2>7, PointersOfStates
    <3>3. Fit(mac', PointersIn(state')) /\ KeepsDestinations(mac, mac')
      BY <2>4, <2>7, <3>2
    <3>4. Typed'
      BY <1>1, <2>1, <2>7 DEF Typed, State, TxAckStates
    <3>5. SlotsDoNotOverlap' /\ Unsynchronized'
      BY <2>1, <2>7, <3>1 DEF SlotsDoNotOverlap, Unsynchronized, SyncStates
    <3>. QED BY <1>1, <2>7, <3>3, <3>4, <3>5, SlotGoesOn
  <2>. QED BY <1>1, <1>2, <2>1, <2>4, <2>5, <2>6, <2>7, SlotEnded
<1>10. CASE activity_ri9
  <2> DEFINE f == Clear(FreeBuffer(mac, "ackToSend"), "ackToSend")
  <2>1. state = "S_TXACK" /\ isSync' = isSync /\ endSlot(ReceptionDone(f), cell)
        /\ \E b : MayChangeTimeout(b)
    BY <1>10 DEF activity_ri9
  <2>2. /\ Sound(mac, {"dataReceived", "ackToSend"})
        /\ mac.ptr["dataReceived"] # NoBuffer /\ mac.ptr["ackToSend"] # NoBuffer
    BY <2>1, PointersFound DEF TxAckStates
  <2>3. Sound(f, {"dataReceived", "ackToSend"} \ {"ackToSend"}) /\ KeepsDestinations(mac, f)
    BY <1>3, <2>2, Frees
  <2>4. f.ptr["dataReceived"] # NoBuffer
    <3>1. mac \in Mac
      BY <2>2 DEF Sound
    <3>2. FreeBuffer(mac, "ackToSend") \in Mac /\ FreeBuffer(mac, "ackToSend").ptr = mac.ptr
      BY <1>3, <2>2, <3>1, FreeBufferProperties
    <3>3. "ackToSend" \in Pointer /\ "dataReceived" \in Pointer \ {"ackToSend"}
      BY <1>3
    <3>4. f.ptr["dataReceived"] = FreeBuffer(mac, "ackToSend").ptr["dataReceived"]
      BY <3>2, <3>3, ClearsOnePointer
    <3>. QED BY <2>2, <3>2, <3>4
  <2>. HIDE DEF f
  <2>5. /\ Sound(ReceptionDone(f), ({"dataReceived", "ackToSend"} \ {"ackToSend"}) \ {"dataReceived"})
        /\ KeepsDestinations(mac, ReceptionDone(f))
    BY <2>3, <2>4, Receives, DestinationsOfTwo
  <2>. QED BY <1>1, <1>2, <2>1, <2>5, SlotEnded
<1>11. CASE UnexpectedEnd
  BY <1>1, <1>2, <1>11, SlotEnded DEF UnexpectedEnd
<1>. QED BY <1>4, <1>5, <1>6, <1>7, <1>8, <1>9, <1>10, <1>11 DEF ieee154e_endOfFrame

-----------------------------------------------------------------------------
(* The radio, the tasks and the reset *)

LEMMA RadioSteps ==
    ASSUME Inv, UNCHANGED trouble, Radio
    PROVE  Preserved
<1>1. /\ UNCHANGED <<state, timer, cell, autoTxCells, mac, Unsent>>
      /\ radio' \in {"off", "rx", "rxFrame", "tx", "txFrame", "done"}
      /\ irq' \in {"none", "sof", "eof"}
  BY DEF Radio, RadioStarts, RadioEnds
<1>2. Typed
  BY InvFacts
<1>3. UNCHANGED <<isDAGroot, isSync, deSyncTimeout, sendingTo, negotiatedCells, state, timer>>
  BY <1>1 DEF Unsent, Upper
<1>4. Typed'
  BY <1>1, <1>2, <1>3 DEF Typed
<1>5. SlotsDoNotOverlap' /\ Unsynchronized' /\ PointersIn(state') = PointersIn(state)
  BY <1>3 DEF Inv, SlotsDoNotOverlap, Unsynchronized
<1>. QED BY <1>1, <1>3, <1>4, <1>5, BuffersUnchanged

\* A task changes none of the variables of the state machine.
LEMMA TaskKeepsMac ==
    ASSUME Inv, UNCHANGED trouble, SlotUnchanged, cell' \in Cell,
           isDAGroot' \in BOOLEAN, autoTxCells' \subseteq Neighbor,
           negotiatedCells' \subseteq Negotiated,
           sendingTo' \in Neighbor \cup {NOADDRESS},
           mac' \in Mac, Fit(mac', PointersIn(state))
    PROVE  Inv'
<1>1. UNCHANGED <<isSync, state, timer, deSyncTimeout, radio, irq>>
  BY DEF SlotUnchanged
<1>2. Typed
  BY InvFacts
<1>3. Typed'
  BY <1>1, <1>2 DEF Typed
<1>4. TypeOK'
  BY <1>3 DEF TypeOK, Typed, Cell
<1>5. SlotsDoNotOverlap' /\ Unsynchronized' /\ PointersIn(state') = PointersIn(state)
  BY <1>1 DEF Inv, SlotsDoNotOverlap, Unsynchronized
<1>. QED BY <1>1, <1>4, <1>5 DEF Inv

\* A task that hands nothing down changes entries the MAC does not own, and
\* makes none wait.
LEMMA TaskChanges ==
    ASSUME Inv, UNCHANGED <<trouble, isDAGroot, autoTxCells, sendingTo, negotiatedCells>>, MacUnchanged,
           mac' \in Mac, mac'.ptr = mac.ptr,
           \A d \in Buffer :
              \/ mac'.queue[d] = mac.queue[d]
              \/ /\ mac.queue[d].owner # COMPONENT_IEEE802154E
                 /\ mac'.queue[d].owner # COMPONENT_IEEE802154E
                 /\ mac'.queue[d].owner # COMPONENT_SIXTOP_TO_IEEE802154E
    PROVE  Preserved
<1>1. Typed /\ mac \in Mac /\ Fit(mac, PointersIn(state))
  BY InvFacts
<1>2. Fit(mac', PointersIn(state))
  BY <1>1, Elsewhere
<1>3. Inv'
  BY <1>1, <1>2, TaskKeepsMac DEF Typed, MacUnchanged
<1>4. ASSUME NEW b \in Pending(mac')
      PROVE  b \in Pending(mac) /\ mac'.queue[b].nexthop = mac.queue[b].nexthop
  <2>1. b \in Buffer
    BY <1>4 DEF Pending
  <2>2. CASE mac'.queue[b] = mac.queue[b]
    BY <1>4, <2>1, <2>2 DEF Pending
  <2>3. CASE mac'.queue[b] # mac.queue[b]
    <3>1. /\ mac.queue[b].owner # COMPONENT_IEEE802154E
          /\ mac'.queue[b].owner # COMPONENT_SIXTOP_TO_IEEE802154E
      BY <2>1, <2>3
    <3>2. b = mac.ptr["dataToSend"] /\ b # NoBuffer
      BY <1>4, <2>1, <3>1, Constants DEF Pending
    <3>. QED BY <1>1, <3>1, <3>2 DEF Fit, Sound
  <2>. QED BY <2>2, <2>3
<1>5. Stranded' \subseteq Stranded
  BY <1>4 DEF Stranded
<1>. QED BY <1>3, <1>5 DEF Preserved, StrandsNone

LEMMA Takes ==
    ASSUME NEW m \in Mac, NEW b \in Buffer \cup {NoBuffer},
           b # NoBuffer => m.queue[b].owner = COMPONENT_IEEE802154E_TO_SIXTOP,
           NEW error \in CriticalError
    PROVE  /\ Take(m, b, error) \in Mac
           /\ Take(m, b, error).ptr = m.ptr
           /\ \A d \in Buffer :
                 \/ Take(m, b, error).queue[d] = m.queue[d]
                 \/ /\ m.queue[d].owner # COMPONENT_IEEE802154E
                    /\ Take(m, b, error).queue[d].owner = COMPONENT_SIXTOP
<1>1. CASE b = NoBuffer
  BY <1>1 DEF Take, Mac
<1>2. CASE b # NoBuffer
  <2> DEFINE q == SetOwner(m.queue, b, COMPONENT_SIXTOP)
  <2>1. m.queue \in Queue /\ b \in Buffer /\ COMPONENT_SIXTOP \in Component
    BY <1>2, Constants DEF Mac
  <2>2. q \in Queue /\ q[b].owner = COMPONENT_SIXTOP /\ \A d \in Buffer \ {b} : q[d] = m.queue[d]
    BY <2>1, SetOwnerProperties
  <2>3. Take(m, b, error) = [m EXCEPT !.queue = q]
    BY <1>2 DEF Take
  <2>. HIDE DEF q
  <2>4. Take(m, b, error) \in Mac /\ Take(m, b, error).queue = q /\ Take(m, b, error).ptr = m.ptr
    BY <2>2, <2>3 DEF Mac
  <2>. QED BY <1>2, <2>2, <2>4
<1>. QED BY <1>1, <1>2

LEMMA Allocated ==
    ASSUME Inv, UNCHANGED trouble, NEW creator \in TaskCreator, TaskAllocates(creator)
    PROVE  Preserved
<1> DEFINE b == openqueue_getFreePacketBuffer(mac.queue, isSync, creator)
           c == SetCreator(mac.queue, b, creator)
           q == SetOwner(c, b, COMPONENT_OPENQUEUE)
<1>1. b \in Buffer /\ mac.queue[b].owner = COMPONENT_NULL
  BY GetFreeProperties DEF TaskAllocates
<1>2. mac \in Mac /\ mac.queue \in Queue /\ creator \in Component /\ COMPONENT_OPENQUEUE \in Component
  BY InvFacts, Constants DEF Mac
<1>3. c \in Queue /\ \A d \in Buffer \ {b} : c[d] = mac.queue[d]
  BY <1>1, <1>2, SetCreatorProperties
<1>4. q \in Queue /\ q[b].owner = COMPONENT_OPENQUEUE /\ \A d \in Buffer \ {b} : q[d] = c[d]
  BY <1>1, <1>2, <1>3, SetOwnerProperties
<1>5. mac' = [mac EXCEPT !.queue = q]
  BY DEF TaskAllocates
<1>. HIDE DEF b, c, q
<1>6. mac' \in Mac /\ mac'.ptr = mac.ptr /\ mac'.queue = q
  BY <1>2, <1>4, <1>5 DEF Mac
<1>7. \A d \in Buffer : \/ mac'.queue[d] = mac.queue[d]
                        \/ /\ mac.queue[d].owner # COMPONENT_IEEE802154E
                           /\ mac'.queue[d].owner # COMPONENT_IEEE802154E
                           /\ mac'.queue[d].owner # COMPONENT_SIXTOP_TO_IEEE802154E
  BY <1>1, <1>3, <1>4, <1>6
<1>. QED BY <1>6, <1>7, TaskChanges DEF TaskAllocates, TaskStep

LEMMA Freed ==
    ASSUME Inv, UNCHANGED trouble, NEW b \in Buffer, TaskFrees(b)
    PROVE  Preserved
<1> DEFINE q == openqueue_freePacketBuffer(mac.queue, b)
<1>1. mac \in Mac /\ mac.queue \in Queue
  BY InvFacts DEF Mac
<1>2. q \in Queue /\ q[b].owner = COMPONENT_NULL /\ \A d \in Buffer \ {b} : q[d] = mac.queue[d]
  BY <1>1, FreeProperties
<1>3. mac' = [mac EXCEPT !.queue = q]
  BY DEF TaskFrees
<1>. HIDE DEF q
<1>4. mac' \in Mac /\ mac'.ptr = mac.ptr /\ mac'.queue = q
  BY <1>1, <1>2, <1>3 DEF Mac
<1>5. mac.queue[b].owner # COMPONENT_IEEE802154E
  BY DEF TaskFrees, Held
<1>6. \A d \in Buffer : \/ mac'.queue[d] = mac.queue[d]
                        \/ /\ mac.queue[d].owner # COMPONENT_IEEE802154E
                           /\ mac'.queue[d].owner # COMPONENT_IEEE802154E
                           /\ mac'.queue[d].owner # COMPONENT_SIXTOP_TO_IEEE802154E
  BY <1>2, <1>4, <1>5
<1>. QED BY <1>4, <1>6, TaskChanges DEF TaskFrees, TaskStep

LEMMA Removed ==
    ASSUME Inv, UNCHANGED trouble, NEW creator, TaskRemoves(creator)
    PROVE  Preserved
<1> DEFINE q == openqueue_removeAllCreatedBy(mac.queue, creator)
<1>1. mac \in Mac /\ mac.queue \in Queue
  BY InvFacts DEF Mac
<1>2. /\ q \in Queue
      /\ \A d \in Buffer : \/ q[d] = mac.queue[d]
                           \/ /\ mac.queue[d].owner # COMPONENT_IEEE802154E
                              /\ q[d].owner = COMPONENT_NULL
  BY <1>1, RemoveProperties
<1>3. mac' = [mac EXCEPT !.queue = q]
  BY DEF TaskRemoves
<1>. HIDE DEF q
<1>4. mac' \in Mac /\ mac'.ptr = mac.ptr /\ mac'.queue = q
  BY <1>1, <1>2, <1>3 DEF Mac
<1>5. \A d \in Buffer : \/ mac'.queue[d] = mac.queue[d]
                        \/ /\ mac.queue[d].owner # COMPONENT_IEEE802154E
                           /\ mac'.queue[d].owner # COMPONENT_IEEE802154E
                           /\ mac'.queue[d].owner # COMPONENT_SIXTOP_TO_IEEE802154E
  BY <1>2, <1>4
<1>. QED BY <1>4, <1>5, TaskChanges DEF TaskRemoves, TaskStep

LEMMA Notifies ==
    ASSUME Inv, UNCHANGED trouble, Notified
    PROVE  Preserved
<1>1. mac \in Mac
  BY InvFacts
<1>2. CriticalError = {"ERR_FREEING_UNUSED", "ERR_NO_SENT_PACKET", "ERR_NO_RECEIVED_PACKET"}
  BY DEF CriticalError
<1>3. TaskStep /\ UNCHANGED sendingTo
  BY DEF Notified, task_sixtopNotifSendDone, task_sixtopNotifReceive
<1>4. ASSUME NEW m \in Mac, m.queue = mac.queue, m.ptr = mac.ptr,
             NEW b \in Buffer \cup {NoBuffer},
             b # NoBuffer => m.queue[b].owner = COMPONENT_IEEE802154E_TO_SIXTOP,
             NEW error \in CriticalError, mac' = Take(m, b, error)
      PROVE  Preserved
  <2>1. /\ mac' \in Mac /\ mac'.ptr = mac.ptr
        /\ \A d \in Buffer : \/ mac'.queue[d] = mac.queue[d]
                             \/ /\ mac.queue[d].owner # COMPONENT_IEEE802154E
                                /\ mac'.queue[d].owner = COMPONENT_SIXTOP
    BY <1>4, Takes
  <2>. QED BY <1>3, <2>1, TaskChanges DEF TaskStep
<1>5. CASE task_sixtopNotifSendDone
  <2> DEFINE m == [mac EXCEPT !.sendDoneTasks = @ - 1]
             b == openqueue_sixtopGetSentPacket(mac.queue)
  <2>1. m \in Mac /\ m.queue = mac.queue /\ m.ptr = mac.ptr
    <3>1. mac.sendDoneTasks - 1 \in Nat
      BY <1>1, <1>5 DEF task_sixtopNotifSendDone, Mac
    <3>. QED BY <1>1, <3>1 DEF Mac
  <2>2. SentPackets(mac.queue) \in SUBSET Buffer
    BY DEF SentPackets
  <2>3. b \in SentPackets(mac.queue) \cup {NoBuffer}
    BY <2>2, FirstOfProperties DEF openqueue_sixtopGetSentPacket
  <2>4. mac' = Take(m, b, "ERR_NO_SENT_PACKET")
    BY <1>5 DEF task_sixtopNotifSendDone
  <2>. HIDE DEF m, b
  <2>5. b \in Buffer \cup {NoBuffer}
        /\ (b # NoBuffer => m.queue[b].owner = COMPONENT_IEEE802154E_TO_SIXTOP)
    BY <2>1, <2>3 DEF SentPackets
  <2>. QED BY <1>2, <1>4, <2>1, <2>4, <2>5
<1>6. CASE task_sixtopNotifReceive
  <2> DEFINE m == [mac EXCEPT !.receiveTasks = @ - 1]
             b == openqueue_sixtopGetReceivedPacket(mac.queue)
  <2>1. m \in Mac /\ m.queue = mac.queue /\ m.ptr = mac.ptr
    <3>1. mac.receiveTasks - 1 \in Nat
      BY <1>1, <1>6 DEF task_sixtopNotifReceive, Mac
    <3>. QED BY <1>1, <3>1 DEF Mac
  <2>2. ReceivedPackets(mac.queue) \in SUBSET Buffer
    BY DEF ReceivedPackets
  <2>3. b \in ReceivedPackets(mac.queue) \cup {NoBuffer}
    BY <2>2, FirstOfProperties DEF openqueue_sixtopGetReceivedPacket
  <2>4. mac' = Take(m, b, "ERR_NO_RECEIVED_PACKET")
    BY <1>6 DEF task_sixtopNotifReceive
  <2>. HIDE DEF m, b
  <2>5. b \in Buffer \cup {NoBuffer}
        /\ (b # NoBuffer => m.queue[b].owner = COMPONENT_IEEE802154E_TO_SIXTOP)
    BY <2>1, <2>3 DEF ReceivedPackets
  <2>. QED BY <1>2, <1>4, <2>1, <2>4, <2>5
<1>. QED BY <1>5, <1>6 DEF Notified

\* sixtop_send_internal: the packet waits, with all its attempts, for the cell
\* the same task is about to look for.
LEMMA Sent ==
    ASSUME Inv, UNCHANGED trouble, NEW b \in Buffer, NEW to \in Address, NEW message \in SixMessage,
           sixtop_send_internal(b, to, message)
    PROVE  Preserved
<1> DEFINE e == [creator |-> CreatorOf(b), owner |-> COMPONENT_SIXTOP_TO_IEEE802154E,
                 nexthop |-> to, messageType |-> message,
                 retriesLeft |-> IF to = BROADCAST THEN 1 ELSE TXRETRIES + 1]
           q == [mac.queue EXCEPT ![b] = e]
<1>1. /\ Typed /\ mac \in Mac /\ mac.queue \in Queue /\ Fit(mac, PointersIn(state))
      /\ TXRETRIES \in Nat
  BY InvFacts, Constants DEF Mac
<1>2. /\ TaskStep /\ mac.queue[b].owner # COMPONENT_IEEE802154E
      /\ sendingTo' = IF to = BROADCAST THEN NOADDRESS ELSE to
      /\ to \in Neighbor \cup {BROADCAST}
  BY DEF sixtop_send_internal, Held, DestinationsOf
<1>3. e \in Entry
  <2>1. CreatorOf(b) \in Component
    <3>1. mac.queue[b].creator \in Component
      BY <1>1 DEF Queue, Entry
    <3>. QED BY <3>1, Constants DEF CreatorOf
  <2>2. COMPONENT_SIXTOP_TO_IEEE802154E \in Component
    BY Constants
  <2>. QED BY <1>1, <2>1, <2>2 DEF Entry
<1>4. /\ e.owner = COMPONENT_SIXTOP_TO_IEEE802154E /\ e.nexthop = to
      /\ e.retriesLeft = IF to = BROADCAST THEN 1 ELSE TXRETRIES + 1
  OBVIOUS
<1>5. mac' = [mac EXCEPT !.queue = q]
  BY DEF sixtop_send_internal
<1>. HIDE DEF e
<1>6. q \in Queue /\ q[b] = e /\ \A d \in Buffer \ {b} : q[d] = mac.queue[d]
  BY <1>1, <1>3 DEF Queue
<1>. HIDE DEF q
<1>7. mac' \in Mac /\ mac'.ptr = mac.ptr /\ mac'.queue = q
  BY <1>1, <1>5, <1>6 DEF Mac
<1>8. Attempts(e)
  BY <1>1, <1>4 DEF Attempts
<1>9. Fit(mac', PointersIn(state))
  <2>1. \A d \in Buffer :
           \/ mac'.queue[d] = mac.queue[d]
           \/ /\ mac.queue[d].owner # COMPONENT_IEEE802154E
              /\ mac'.queue[d].owner # COMPONENT_IEEE802154E
              /\ mac'.queue[d].owner = COMPONENT_SIXTOP_TO_IEEE802154E => Attempts(mac'.queue[d])
    BY <1>2, <1>4, <1>6, <1>7, <1>8
  <2>. QED BY <1>1, <1>7, <2>1, Elsewhere
<1>10. Inv'
  <2>1. sendingTo' \in Neighbor \cup {NOADDRESS}
    BY <1>2
  <2>. QED BY <1>1, <1>2, <1>7, <1>9, <2>1, TaskKeepsMac DEF TaskStep, Typed, MacUnchanged
<1>11. ASSUME NEW d \in Stranded' PROVE d \in Stranded
  <2>1. sendingTo = NOADDRESS /\ UNCHANGED <<autoTxCells, negotiatedCells>>
    BY <1>2 DEF TaskStep, TaskMayRun
  <2>2. /\ d \in Pending(mac') /\ mac'.queue[d].nexthop \in Neighbor
        /\ mac'.queue[d].nexthop \notin autoTxCells \cup negotiatedCells \cup {sendingTo'}
    BY <1>11, <2>1 DEF Stranded
  <2>3. d # b
    BY <1>2, <1>4, <1>6, <1>7, <2>2, NeighborAssumption
  <2>4. d \in Pending(mac)
    BY <1>6, <1>7, <2>2, <2>3 DEF Pending
  <2>5. d \in Buffer /\ mac'.queue[d] = mac.queue[d]
    BY <1>6, <1>7, <2>3, <2>4 DEF Pending
  <2>. QED BY <2>1, <2>2, <2>4, <2>5, NeighborAssumption DEF Stranded
<1>. QED BY <1>10, <1>11 DEF Preserved, StrandsNone

LEMMA CellAdded ==
    ASSUME Inv, UNCHANGED trouble, AddsAutoTxCell
    PROVE  Preserved
<1>1. Typed /\ mac \in Mac /\ Fit(mac, PointersIn(state))
  BY InvFacts
<1>2. /\ UNCHANGED <<isDAGroot, negotiatedCells, mac>> /\ MacUnchanged
      /\ sendingTo' = NOADDRESS /\ sendingTo # NOADDRESS
  BY DEF AddsAutoTxCell
<1>3. \/ autoTxCells' = IF sendingTo \in negotiatedCells THEN autoTxCells
                        ELSE autoTxCells \cup {sendingTo}
      \/ UNCHANGED autoTxCells
  BY DEF AddsAutoTxCell
<1>4. autoTxCells' \subseteq Neighbor
  BY <1>1, <1>2, <1>3 DEF Typed
<1>5. Inv'
  BY <1>1, <1>2, <1>4, TaskKeepsMac DEF Typed, MacUnchanged
<1>6. ScheduleOverflows \/ Stranded' \subseteq Stranded
  <2>1. CASE sendingTo \in autoTxCells' \cup negotiatedCells
    BY <1>2, <1>3, <2>1 DEF Stranded
  <2>. QED BY <2>1 DEF ScheduleOverflows
<1>. QED BY <1>5, <1>6 DEF Preserved, StrandsNone

LEMMA NegotiatedCellAdded ==
    ASSUME Inv, UNCHANGED trouble, NEW n \in Neighbor, AddsNegotiatedCell(n)
    PROVE  Preserved
<1>1. Typed /\ mac \in Mac /\ Fit(mac, PointersIn(state))
  BY InvFacts
<1>2. /\ UNCHANGED <<isDAGroot, autoTxCells, sendingTo, mac>> /\ MacUnchanged
      /\ negotiatedCells' = negotiatedCells \cup {n} /\ n \in Negotiated
  BY DEF AddsNegotiatedCell
<1>3. Inv'
  BY <1>1, <1>2, TaskKeepsMac DEF Typed, MacUnchanged
<1>4. Stranded' \subseteq Stranded
  BY <1>2 DEF Stranded
<1>. QED BY <1>3, <1>4 DEF Preserved, StrandsNone

\* A cell removed in mid-slot leaves an entry of the schedule, or none.
LEMMA CellRemoved ==
    ASSUME Inv, UNCHANGED trouble, RemovesCells
    PROVE  Preserved
<1>1. Typed /\ mac \in Mac /\ Fit(mac, PointersIn(state))
  BY InvFacts
<1>2. PICK n \in Neighbor : RemovesNegotiatedCell(n) \/ RemovesAutoTxCell(n)
  BY DEF RemovesCells
<1>3. /\ UNCHANGED <<isDAGroot, sendingTo, mac>> /\ SlotUnchanged
      /\ autoTxCells' \subseteq autoTxCells /\ negotiatedCells' \subseteq negotiatedCells
      /\ cell' \in {cell, NoCell} \cup ScheduledCells'
  BY <1>2 DEF RemovesNegotiatedCell, RemovesAutoTxCell, EntryAfterRemoval
<1>4. ScheduledCells' \subseteq ScheduledCells
  BY <1>3 DEF ScheduledCells
<1>5. cell' \in Cell
  BY <1>1, <1>3, <1>4, CellsTyped
<1>6. Inv'
  BY <1>1, <1>3, <1>5, TaskKeepsMac DEF Typed
<1>. QED BY <1>6 DEF Preserved, StrandsNone

\* The packets that wait get another destination, and keep their attempts.
LEMMA ParentChanged ==
    ASSUME Inv, UNCHANGED trouble, NEW n \in Neighbor, ChangesParent(n)
    PROVE  Preserved
<1>1. Typed /\ mac \in Mac /\ mac.queue \in Queue /\ Fit(mac, PointersIn(state))
  BY InvFacts DEF Mac
<1>2. /\ UNCHANGED <<isDAGroot, autoTxCells, negotiatedCells, sendingTo>> /\ MacUnchanged
  BY DEF ChangesParent, TaskStep
<1>3. PICK S : mac' = [mac EXCEPT !.queue = openqueue_updateNextHopPayload(@, n, S)]
  BY DEF ChangesParent
<1> DEFINE q == openqueue_updateNextHopPayload(mac.queue, n, S)
<1>4. /\ q \in Queue
      /\ \A d \in Buffer :
            \/ q[d] = mac.queue[d]
            \/ d \in Waiting(mac.queue) /\ q[d] = [mac.queue[d] EXCEPT !.nexthop = n]
  BY <1>1, UpdateProperties
<1>. HIDE DEF q
<1>5. ASSUME NEW d \in Buffer
      PROVE  \/ q[d] = mac.queue[d]
             \/ /\ d \in Waiting(mac.queue)
                /\ q[d].owner = mac.queue[d].owner /\ q[d].nexthop = n
                /\ q[d].retriesLeft = mac.queue[d].retriesLeft
  BY <1>1, <1>4 DEF Queue, Entry
<1>6. mac' \in Mac /\ mac'.ptr = mac.ptr /\ mac'.queue = q
  BY <1>1, <1>3, <1>4 DEF q, Mac
<1>7. ASSUME NEW d \in Waiting(mac.queue), q[d].nexthop = n,
             q[d].retriesLeft = mac.queue[d].retriesLeft
      PROVE  Attempts(q[d])
  BY <1>1, <1>7, NeighborAssumption DEF Fit, Sound, Attempts, Waiting, Pending
<1>8. Fit(mac', PointersIn(state))
  <2>1. \A d \in Buffer :
           \/ mac'.queue[d] = mac.queue[d]
           \/ /\ mac.queue[d].owner # COMPONENT_IEEE802154E
              /\ mac'.queue[d].owner # COMPONENT_IEEE802154E
              /\ mac'.queue[d].owner = COMPONENT_SIXTOP_TO_IEEE802154E => Attempts(mac'.queue[d])
    BY <1>5, <1>6, <1>7, Constants DEF Waiting
  <2>. QED BY <1>1, <1>6, <2>1, Elsewhere
<1>9. Inv'
  BY <1>1, <1>2, <1>6, <1>8, TaskKeepsMac DEF Typed, MacUnchanged
<1>. QED BY <1>9 DEF Preserved, StrandsNone, ParentChanges

LEMMA RoleSet ==
    ASSUME Inv, UNCHANGED trouble, RoleChanges
    PROVE  Preserved
<1>1. Typed /\ mac \in Mac /\ Fit(mac, PointersIn(state))
  BY InvFacts
<1>2. /\ UNCHANGED <<autoTxCells, sendingTo, negotiatedCells, mac>> /\ MacUnchanged
      /\ isDAGroot' \in BOOLEAN
  BY <1>1 DEF RoleChanges, Typed
<1>3. Inv'
  BY <1>1, <1>2, TaskKeepsMac DEF Typed, MacUnchanged
<1>4. Stranded' \subseteq Stranded
  BY <1>2 DEF Stranded
<1>. QED BY <1>3, <1>4 DEF Preserved, StrandsNone

\* What boot and reset start from.
LEMMA FreshMac ==
    InitialMac \in Mac /\ Fit(InitialMac, {}) /\ Pending(InitialMac) = {}
<1>1. openqueue_init \in Queue /\ \A b \in Buffer : openqueue_init[b].owner = COMPONENT_NULL
  BY Constants DEF openqueue_init, Queue, ResetEntry, Entry, Component, Address, SixMessage
<1>2. NoPointers \in [Pointer -> Buffer \cup {NoBuffer}] /\ \A p \in Pointer : NoPointers[p] = NoBuffer
  BY DEF NoPointers
<1>. HIDE DEF NoPointers
<1>3. InitialMac \in Mac
  BY <1>1, <1>2 DEF InitialMac, Mac
<1>4. /\ "dataToSend" \in Pointer
      /\ InitialMac.queue = openqueue_init /\ InitialMac.ptr = NoPointers
  BY DEF InitialMac, Pointer
<1>5. Pending(InitialMac) = {}
  BY <1>1, <1>2, <1>4, Constants DEF Pending
<1>. QED BY <1>1, <1>2, <1>3, <1>4, <1>5 DEF Fit, Sound

LEMMA Restarts ==
    ASSUME Inv, UNCHANGED trouble, BoardReset
    PROVE  Preserved
<1>1. /\ isDAGroot' = BootsAsDAGroot /\ isSync' = BootsAsDAGroot
      /\ state' = "S_SLEEP" /\ timer' = "newSlot" /\ deSyncTimeout' = 0
      /\ radio' = "off" /\ irq' = "none"
      /\ cell' = NoCell /\ sendingTo' = NOADDRESS
      /\ autoTxCells' = {} /\ negotiatedCells' = {}
      /\ mac' = InitialMac
  BY DEF BoardReset
<1>2. Typed /\ NoCell \in Cell
  BY InvFacts, CellsTyped
<1>3. Typed'
  BY <1>1, <1>2, RoleAssumption, BoundsAssumption DEF Typed, State
<1>4. TypeOK'
  BY <1>1, <1>3, FreshMac DEF TypeOK, Typed, Cell
<1>5. SlotsDoNotOverlap' /\ Unsynchronized'
  BY <1>1 DEF SlotsDoNotOverlap, Unsynchronized
<1>6. Fit(mac', PointersIn(state'))
  <2>1. PointersIn("S_SLEEP") = {}
    BY PointersOfStates
  <2>. QED BY <1>1, <2>1, FreshMac
<1>7. Stranded' = {}
  BY <1>1, FreshMac DEF Stranded
<1>. QED BY <1>4, <1>5, <1>6, <1>7 DEF Preserved, StrandsNone, Inv

-----------------------------------------------------------------------------
(* The invariant, and what it shows *)

LEMMA InitHolds == Init => Inv /\ Stranded = {}
<1>. SUFFICES ASSUME Init PROVE Inv /\ Stranded = {}
  OBVIOUS
<1>1. NoCell \in Cell
  BY DEF NoCell, Cell, CellType, Address
<1>2. Typed
  BY <1>1, RoleAssumption, BoundsAssumption DEF Init, Typed, State
<1>3. TypeOK
  BY <1>2, FreshMac DEF Init, TypeOK, Typed, Cell
<1>4. SlotsDoNotOverlap /\ Unsynchronized
  BY DEF Init, SlotsDoNotOverlap, Unsynchronized
<1>5. Fit(mac, PointersIn(state))
  <2>1. PointersIn("S_SLEEP") = {}
    BY PointersOfStates
  <2>. QED BY <2>1, FreshMac DEF Init
<1>6. Stranded = {}
  BY FreshMac DEF Init, Stranded
<1>. QED BY <1>3, <1>4, <1>5, <1>6 DEF Inv

LEMMA StepHolds ==
    Inv /\ [Next]_<<vars, trouble>> => Preserved
<1>. SUFFICES ASSUME Inv, [Next]_<<vars, trouble>> PROVE Preserved
  OBVIOUS
<1>1. CASE UNCHANGED <<vars, trouble>>
  <2>1. UNCHANGED <<isDAGroot, isSync, state, timer, deSyncTimeout, radio, irq, cell,
                    autoTxCells, negotiatedCells, sendingTo, mac, trouble>>
    BY <1>1 DEF vars
  <2>2. Typed
    BY InvFacts
  <2>3. Typed' /\ SlotsDoNotOverlap' /\ Unsynchronized' /\ PointersIn(state') = PointersIn(state)
    BY <2>1, <2>2 DEF Inv, Typed, SlotsDoNotOverlap, Unsynchronized
  <2>. QED BY <2>1, <2>3, BuffersUnchanged
<1>2. CASE Interrupt /\ UNCHANGED trouble
  BY <1>2, NewSlot, TimerHandler, StartHandler, EndHandler DEF Interrupt
<1>3. CASE Radio /\ UNCHANGED trouble
  BY <1>3, RadioSteps
<1>4. CASE Task /\ UNCHANGED trouble
  BY <1>4, Allocated, Removed, Sent, Freed, CellAdded, NegotiatedCellAdded, CellRemoved,
     ParentChanged, Notifies, RoleSet DEF Task, RemovesCells
<1>5. CASE BoardReset /\ UNCHANGED trouble
  BY <1>5, Restarts
<1>. QED BY <1>1, <1>2, <1>3, <1>4, <1>5 DEF Next

\* Inv is an inductive invariant.
THEOREM InvHolds == Spec => []Inv
<1>1. Inv /\ [Next]_<<vars, trouble>> => Inv'
  BY StepHolds DEF Preserved
<1>. QED BY <1>1, InitHolds, PTL DEF Spec

\* The variables keep their types: in particular the slots to the loss of
\* synchronization are never counted below zero, nor the pending notifications.
THEOREM MacTypeOK == Spec => []TypeOK
<1>1. Inv => TypeOK
  BY DEF Inv
<1>. QED BY <1>1, InvHolds, PTL

\* ERR_WRONG_STATE_IN_STARTSLOT and ERR_WRONG_STATE_IN_TIMERFIRES cannot happen:
\* no slot starts while another is going on, whatever the radio does.
THEOREM MacSlotsDoNotOverlap == Spec => []SlotsDoNotOverlap
<1>1. Inv => SlotsDoNotOverlap
  BY DEF Inv
<1>. QED BY <1>1, InvHolds, PTL

\* The pointers of the MAC and the buffers it owns agree in every state: no
\* buffer is leaked or shared by two activities, no NULL pointer is followed,
\* whatever the troubles, and even when an acknowledgement is freed twice.
THEOREM MacBuffersKept == Spec => []MacBuffers
<1>1. ASSUME Inv PROVE MacBuffers
  <2> DEFINE P == PointersIn(state)
  <2>1. /\ mac \in Mac /\ mac.ptr \in [Pointer -> Buffer \cup {NoBuffer}]
        /\ Fit(mac, P) /\ Sound(mac, P) /\ P \subseteq Pointer
        /\ \A p \in Pointer : Owned(p) <=> p \in P
    BY <1>1, InvFacts DEF Mac, Sound, Owned
  <2>2. ASSUME NEW b \in Buffer, mac.queue[b].owner = COMPONENT_IEEE802154E
        PROVE  \E p \in Pointer : Owned(p) /\ mac.ptr[p] = b
    BY <2>1, <2>2 DEF Sound
  <2>3. ASSUME NEW p \in Pointer, Owned(p)
        PROVE  mac.ptr[p] \in Buffer /\ mac.queue[mac.ptr[p]].owner = COMPONENT_IEEE802154E
    BY <2>1, <2>3 DEF Fit, Owned
  <2>4. {b \in Buffer : mac.queue[b].owner = COMPONENT_IEEE802154E}
            = {mac.ptr[p] : p \in {p \in Pointer : Owned(p)}}
    BY <2>2, <2>3
  <2>5. \A p, r \in Pointer : (Owned(p) /\ mac.ptr[p] = mac.ptr[r]) => p = r
    BY <2>1 DEF Fit, Owned
  <2>6. /\ "dataToSend" \in P <=> state \in TxDataStates \cup RxAckStates
        /\ "dataReceived" \in P <=> state \in TxAckStates
        /\ "ackToSend" \in P <=> state \in TxAckStates \ {"S_TXACKOFFSET"}
        /\ "ackReceived" \notin P
    BY DEF PointersIn, Pointer
  <2>7. {"dataToSend", "dataReceived", "ackToSend", "ackReceived"} \subseteq Pointer
    BY DEF Pointer
  <2>. HIDE DEF P
  <2>. QED BY <2>1, <2>4, <2>5, <2>6, <2>7 DEF MacBuffers
<1>. QED BY <1>1, InvHolds, PTL

\* The count of the attempts of a packet never wraps below zero.
THEOREM MacAttemptsLeft == Spec => []AttemptsLeft
<1>1. ASSUME Inv PROVE AttemptsLeft
  <2>1. Sound(mac, PointersIn(state))
    BY <1>1, InvFacts
  <2>2. Waiting(mac.queue) \subseteq Pending(mac)
    BY DEF Waiting, Pending
  <2>. QED BY <2>1, <2>2 DEF AttemptsLeft, Sound, Attempts
<1>. QED BY <1>1, InvHolds, PTL

\* Only a removal of cells by 6P, a change of parent or a schedule with no room
\* strands a packet: the end of a slot, whose interrupt removes autonomous cells
\* between the tests of a task that sends, never does.
THEOREM MacCellForEveryPacket == Spec => CellForEveryPacket
<1>1. ASSUME Inv, [Next]_<<vars, trouble>> PROVE StrandsNone
  BY <1>1, StepHolds DEF Preserved
<1>2. StrandsNone => [StrandsNone]_vars
  OBVIOUS
<1>3. CellForEveryPacket <=> [][StrandsNone]_vars
  BY DEF CellForEveryPacket, StrandsNone
<1>. QED BY <1>1, <1>2, <1>3, InvHolds, PTL DEF Spec

\* Without these troubles every unicast packet to send has a cell, at any moment:
\* to its neighbor, or about to be added by the task that handed it down.
THEOREM MacNoneStranded ==
    ASSUME \A t \in Trouble : t \cap {"schedule", "cells", "parent"} = {}
    PROVE  Spec => [](Stranded = {})
<1> DEFINE Both == Inv /\ Stranded = {}
<1>1. Init => Both
  BY InitHolds
<1>2. ASSUME Both, [Next]_<<vars, trouble>> PROVE Both'
  <2>1. trouble \in Trouble
    BY <1>2, InvFacts DEF Typed
  <2>2. ~ScheduleMayOverflow /\ ~CellsMayGo /\ ~ParentMayChange
    BY <2>1 DEF ScheduleMayOverflow, CellsMayGo, ParentMayChange
  <2>3. ~RemovesCells /\ ~ParentChanges
    BY <2>2 DEF RemovesCells, RemovesNegotiatedCell, RemovesAutoTxCell,
                ParentChanges, ChangesParent
  <2>4. ~ScheduleOverflows
    BY <2>2 DEF ScheduleOverflows, AddsAutoTxCell
  <2>5. Preserved
    BY <1>2, StepHolds
  <2>. QED BY <1>2, <2>3, <2>4, <2>5 DEF Preserved, StrandsNone
<1>3. Both => Stranded = {}
  OBVIOUS
<1>. HIDE DEF Both
<1>. QED BY <1>1, <1>2, <1>3, PTL DEF Spec

-----------------------------------------------------------------------------
(***************************************************************************)
(* The MAC is a link service: each of its steps is one step of LinkService   *)
(* or changes nothing the service shows.  It follows that no packet given    *)
(* back is stranded without a task to fetch it and, when securing a frame    *)
(* does not fail and no task removes packets, that no critical error is      *)
(* logged.                                                                   *)
(***************************************************************************)

Sending(m) == {m.ptr["dataToSend"]} \ {NoBuffer}

\* The buffers in the course of a handler: the packets to send were created by
\* another component, the frame received by the MAC, and the pointers that are
\* set are to buffers of the MAC, each to its own.  An acknowledgement may have
\* been freed already.
Linked(m) ==
    /\ m \in Mac
    /\ \A b \in Waiting(m.queue) : m.queue[b].creator # COMPONENT_IEEE802154E
    /\ \A p \in Pointer : m.ptr[p] # NoBuffer =>
          /\ \/ m.queue[m.ptr[p]].owner = COMPONENT_IEEE802154E
             \/ p = "ackToSend" /\ m.queue[m.ptr[p]].owner = COMPONENT_NULL
          /\ p = "dataToSend" => m.queue[m.ptr[p]].creator # COMPONENT_IEEE802154E
          /\ p = "dataReceived" => m.queue[m.ptr[p]].creator = COMPONENT_IEEE802154E
    /\ \A p, r \in Pointer : m.ptr[p] # NoBuffer /\ m.ptr[p] = m.ptr[r] => p = r

\* No pointer is to a buffer that was freed: no call of the handler frees one twice.
Whole(m) ==
    \A p \in Pointer : m.ptr[p] # NoBuffer => m.queue[m.ptr[p]].owner = COMPONENT_IEEE802154E

\* A packet that is sent has a transmission left.
Attempting(m) ==
    m.ptr["dataToSend"] # NoBuffer => m.queue[m.ptr["dataToSend"]].retriesLeft # 0

Kept(m, n) ==
    /\ Whole(m) => Whole(n) /\ n.critical = m.critical
    /\ Attempting(m) => Attempting(n)

\* What a call of a handler may do to the link service, from m to n.
Stays(m, n) ==
    /\ Waiting(n.queue) = Waiting(m.queue)
    /\ Sending(n) = Sending(m)
    /\ SentPackets(n.queue) = SentPackets(m.queue)
    /\ ReceivedPackets(n.queue) = ReceivedPackets(m.queue)
    /\ n.sendDoneTasks = m.sendDoneTasks /\ n.receiveTasks = m.receiveTasks

Retried(m, n) ==
    /\ Sending(m) # {} /\ Sending(n) = {}
    /\ Waiting(n.queue) = Waiting(m.queue) \cup Sending(m)
    /\ SentPackets(n.queue) = SentPackets(m.queue)
    /\ ReceivedPackets(n.queue) = ReceivedPackets(m.queue)
    /\ n.sendDoneTasks = m.sendDoneTasks /\ n.receiveTasks = m.receiveTasks

Returned(m, n) ==
    /\ Sending(m) # {} /\ Sending(n) = {}
    /\ Waiting(n.queue) = Waiting(m.queue)
    /\ SentPackets(n.queue) = SentPackets(m.queue) \cup Sending(m)
    /\ ReceivedPackets(n.queue) = ReceivedPackets(m.queue)
    /\ n.sendDoneTasks = m.sendDoneTasks + 1 /\ n.receiveTasks = m.receiveTasks

Delivered(m, n, b) ==
    /\ b \notin Waiting(m.queue) \cup Sending(m) \cup SentPackets(m.queue)
                    \cup ReceivedPackets(m.queue)
    /\ Waiting(n.queue) = Waiting(m.queue)
    /\ Sending(n) = Sending(m)
    /\ SentPackets(n.queue) = SentPackets(m.queue)
    /\ ReceivedPackets(n.queue) = ReceivedPackets(m.queue) \cup {b}
    /\ n.sendDoneTasks = m.sendDoneTasks /\ n.receiveTasks = m.receiveTasks + 1

SlotLinks(m, n) ==
    \/ Stays(m, n) \/ Retried(m, n) \/ Returned(m, n)
    \/ \E b \in Buffer : Delivered(m, n, b)

-----------------------------------------------------------------------------
(* What the service shows of the buffers *)

\* Entries that neither wait nor are on their way to sixtop are not seen.
LEMMA Unseen ==
    ASSUME NEW q, NEW r,
           \A d \in Buffer :
              \/ r[d] = q[d]
              \/ r[d].owner = q[d].owner /\ r[d].creator = q[d].creator
              \/ {q[d].owner, r[d].owner}
                    \cap {COMPONENT_SIXTOP_TO_IEEE802154E, COMPONENT_IEEE802154E_TO_SIXTOP} = {}
    PROVE  /\ Waiting(r) = Waiting(q)
           /\ SentPackets(r) = SentPackets(q)
           /\ ReceivedPackets(r) = ReceivedPackets(q)
BY DEF Waiting, SentPackets, ReceivedPackets

\* One entry that was not seen is now.
LEMMA Appears ==
    ASSUME NEW q, NEW r, NEW b \in Buffer,
           \A d \in Buffer \ {b} : r[d] = q[d],
           q[b].owner \notin {COMPONENT_SIXTOP_TO_IEEE802154E, COMPONENT_IEEE802154E_TO_SIXTOP}
    PROVE  /\ b \notin Waiting(q) \cup SentPackets(q) \cup ReceivedPackets(q)
           /\ r[b].owner = COMPONENT_SIXTOP_TO_IEEE802154E =>
                 /\ Waiting(r) = Waiting(q) \cup {b}
                 /\ SentPackets(r) = SentPackets(q)
                 /\ ReceivedPackets(r) = ReceivedPackets(q)
           /\ r[b].owner = COMPONENT_IEEE802154E_TO_SIXTOP /\ r[b].creator # COMPONENT_IEEE802154E =>
                 /\ Waiting(r) = Waiting(q)
                 /\ SentPackets(r) = SentPackets(q) \cup {b}
                 /\ ReceivedPackets(r) = ReceivedPackets(q)
           /\ r[b].owner = COMPONENT_IEEE802154E_TO_SIXTOP /\ r[b].creator = COMPONENT_IEEE802154E =>
                 /\ Waiting(r) = Waiting(q)
                 /\ SentPackets(r) = SentPackets(q)
                 /\ ReceivedPackets(r) = ReceivedPackets(q) \cup {b}
<1> USE DEF Waiting, SentPackets, ReceivedPackets
<1>1. b \notin Waiting(q) \cup SentPackets(q) \cup ReceivedPackets(q)
  OBVIOUS
<1>2. CASE r[b].owner = COMPONENT_SIXTOP_TO_IEEE802154E
  BY <1>1, <1>2
<1>3. CASE r[b].owner = COMPONENT_IEEE802154E_TO_SIXTOP /\ r[b].creator # COMPONENT_IEEE802154E
  BY <1>1, <1>3
<1>4. CASE r[b].owner = COMPONENT_IEEE802154E_TO_SIXTOP /\ r[b].creator = COMPONENT_IEEE802154E
  BY <1>1, <1>4
<1>. QED BY <1>1, <1>2, <1>3, <1>4

LEMMA LinksAfter ==
    ASSUME NEW a, NEW b, NEW c
    PROVE  /\ Stays(a, a) /\ Kept(a, a)
           /\ Stays(a, b) /\ Stays(b, c) => Stays(a, c)
           /\ Stays(a, b) /\ SlotLinks(b, c) => SlotLinks(a, c)
           /\ SlotLinks(a, b) /\ Stays(b, c) => SlotLinks(a, c)
           /\ Kept(a, b) /\ Kept(b, c) => Kept(a, c)
<1>1. Stays(a, a) /\ Kept(a, a) /\ (Kept(a, b) /\ Kept(b, c) => Kept(a, c))
  BY DEF Stays, Kept
<1>2. Stays(a, b) /\ Stays(b, c) => Stays(a, c)
  BY DEF Stays
<1>3. ASSUME Stays(a, b), SlotLinks(b, c) PROVE SlotLinks(a, c)
  BY <1>2, <1>3 DEF SlotLinks, Stays, Retried, Returned, Delivered
<1>4. ASSUME SlotLinks(a, b), Stays(b, c) PROVE SlotLinks(a, c)
  BY <1>2, <1>4 DEF SlotLinks, Stays, Retried, Returned, Delivered
<1>. QED BY <1>1, <1>2, <1>3, <1>4

\* A pointer is cleared and its buffer given away.
LEMMA LinkReleases ==
    ASSUME NEW m, NEW n \in Mac, Linked(m), NEW p \in Pointer, m.ptr[p] # NoBuffer,
           n.ptr = [m.ptr EXCEPT ![p] = NoBuffer],
           \A d \in Buffer \ {m.ptr[p]} : n.queue[d] = m.queue[d],
           n.queue[m.ptr[p]].owner = COMPONENT_SIXTOP_TO_IEEE802154E =>
              n.queue[m.ptr[p]].creator # COMPONENT_IEEE802154E
    PROVE  Linked(n) /\ (Whole(m) => Whole(n)) /\ (Attempting(m) => Attempting(n))
<1> DEFINE b == m.ptr[p]
<1>1. m \in Mac /\ b \in Buffer /\ m.ptr \in [Pointer -> Buffer \cup {NoBuffer}]
  BY DEF Linked, Mac
<1>2. n.ptr[p] = NoBuffer /\ \A r \in Pointer \ {p} : n.ptr[r] = m.ptr[r]
  BY <1>1
<1>3. ASSUME NEW r \in Pointer, n.ptr[r] # NoBuffer
      PROVE  /\ n.ptr[r] = m.ptr[r] /\ m.ptr[r] # NoBuffer
             /\ n.queue[n.ptr[r]] = m.queue[m.ptr[r]]
  <2>1. r # p /\ n.ptr[r] = m.ptr[r] /\ m.ptr[r] # b
    BY <1>2, <1>3 DEF Linked
  <2>2. m.ptr[r] \in Buffer \ {b}
    BY <1>1, <1>3, <2>1
  <2>. QED BY <1>3, <2>1, <2>2
<1>4. \A d \in Waiting(n.queue) : n.queue[d].creator # COMPONENT_IEEE802154E
  BY DEF Linked, Waiting
<1>. HIDE DEF b
<1>5. ASSUME NEW r \in Pointer, n.ptr[r] # NoBuffer
      PROVE  /\ \/ n.queue[n.ptr[r]].owner = COMPONENT_IEEE802154E
                \/ r = "ackToSend" /\ n.queue[n.ptr[r]].owner = COMPONENT_NULL
             /\ r = "dataToSend" => n.queue[n.ptr[r]].creator # COMPONENT_IEEE802154E
             /\ r = "dataReceived" => n.queue[n.ptr[r]].creator = COMPONENT_IEEE802154E
  BY <1>3, <1>5 DEF Linked
<1>6. \A r, t \in Pointer : n.ptr[r] # NoBuffer /\ n.ptr[r] = n.ptr[t] => r = t
  BY <1>3 DEF Linked
<1>7. Linked(n)
  BY <1>4, <1>5, <1>6 DEF Linked
<1>8. Whole(m) => Whole(n)
  BY <1>3 DEF Whole
<1>9. Attempting(m) => Attempting(n)
  BY <1>3 DEF Attempting, Pointer
<1>. QED BY <1>7, <1>8, <1>9

-----------------------------------------------------------------------------
(* What each call of a handler does to the service *)

LEMMA LinkClears ==
    ASSUME NEW m, NEW n \in Mac, NEW p \in Pointer, Linked(m), m.ptr[p] # NoBuffer,
           n.ptr = [m.ptr EXCEPT ![p] = NoBuffer]
    PROVE  /\ m.ptr[p] \in Buffer /\ m.queue \in Queue
           /\ p = "dataToSend" => Sending(m) = {m.ptr[p]} /\ Sending(n) = {}
           /\ p # "dataToSend" => Sending(n) = Sending(m) /\ m.ptr[p] \notin Sending(m)
<1>1. m \in Mac /\ m.ptr \in [Pointer -> Buffer \cup {NoBuffer}] /\ "dataToSend" \in Pointer
  BY DEF Linked, Mac, Pointer
<1>2. p # "dataToSend" => m.ptr["dataToSend"] # m.ptr[p]
  BY <1>1 DEF Linked
<1>. QED BY <1>1, <1>2 DEF Sending, Mac

LEMMA LinkFreed ==
    ASSUME NEW m, Linked(m), NEW p \in Pointer \ {"dataToSend"}, m.ptr[p] # NoBuffer
    PROVE  LET n == Clear(FreeBuffer(m, p), p)
           IN  /\ Linked(n) /\ Kept(m, n) /\ Stays(m, n)
               /\ n.ptr = [m.ptr EXCEPT ![p] = NoBuffer]
<1> DEFINE f == FreeBuffer(m, p)
           n == Clear(f, p)
<1>1. m \in Mac
  BY DEF Linked
<1>2. /\ f \in Mac /\ f.ptr = m.ptr
      /\ f.queue[m.ptr[p]].owner = COMPONENT_NULL
      /\ \A d \in Buffer \ {m.ptr[p]} : f.queue[d] = m.queue[d]
  BY <1>1, FreeBufferProperties
<1>3. /\ f.sendDoneTasks = m.sendDoneTasks /\ f.receiveTasks = m.receiveTasks
      /\ m.queue[m.ptr[p]].owner # COMPONENT_NULL => f.critical = m.critical
  BY <1>1 DEF FreeBuffer, Mac
<1>. HIDE DEF f
<1>4. n \in Mac /\ n.queue = f.queue /\ n.ptr = [m.ptr EXCEPT ![p] = NoBuffer]
  BY <1>2, ClearProperties
<1>5. n.sendDoneTasks = f.sendDoneTasks /\ n.receiveTasks = f.receiveTasks /\ n.critical = f.critical
  BY <1>2 DEF Clear, Mac
<1>. HIDE DEF n
<1>6. Linked(n) /\ (Whole(m) => Whole(n)) /\ (Attempting(m) => Attempting(n))
  BY <1>2, <1>4, LinkReleases
<1>7. Whole(m) => n.critical = m.critical
  BY <1>3, <1>5 DEF Whole
<1>8. Sending(n) = Sending(m)
  BY <1>4, LinkClears
<1>9. m.queue[m.ptr[p]].owner \in {COMPONENT_IEEE802154E, COMPONENT_NULL}
  BY DEF Linked
<1>10. /\ Waiting(n.queue) = Waiting(m.queue)
       /\ SentPackets(n.queue) = SentPackets(m.queue)
       /\ ReceivedPackets(n.queue) = ReceivedPackets(m.queue)
  <2>1. \A d \in Buffer :
           \/ n.queue[d] = m.queue[d]
           \/ {m.queue[d].owner, n.queue[d].owner}
                 \cap {COMPONENT_SIXTOP_TO_IEEE802154E, COMPONENT_IEEE802154E_TO_SIXTOP} = {}
    BY <1>2, <1>4, <1>9
  <2>. QED BY <2>1, Unseen
<1>11. Kept(m, n) /\ Stays(m, n)
  BY <1>3, <1>5, <1>6, <1>7, <1>8, <1>10 DEF Kept, Stays
<1>. QED BY <1>4, <1>6, <1>11 DEF n, f

\* A packet or a frame goes to sixtop, with a task.
LEMMA LinkSent ==
    ASSUME NEW m, Linked(m), m.ptr["dataToSend"] # NoBuffer
    PROVE  LET n == Clear(notif_sendDone(m), "dataToSend")
           IN  /\ Linked(n) /\ Kept(m, n) /\ Returned(m, n)
               /\ n.ptr = [m.ptr EXCEPT !["dataToSend"] = NoBuffer]
<1> DEFINE p == "dataToSend"
           b == m.ptr[p]
           f == notif_sendDone(m)
           n == Clear(f, p)
<1>1. m \in Mac /\ p \in Pointer /\ b \in Buffer /\ m.queue \in Queue
      /\ COMPONENT_IEEE802154E_TO_SIXTOP \in Component
  BY Constants DEF Linked, Mac, Pointer
<1>2. /\ f \in Mac /\ f.ptr = m.ptr
      /\ f.queue[b].owner = COMPONENT_IEEE802154E_TO_SIXTOP
      /\ \A d \in Buffer \ {b} : f.queue[d] = m.queue[d]
  BY <1>1, NotifSendDoneProperties
<1>3. /\ f.sendDoneTasks = m.sendDoneTasks + 1 /\ f.receiveTasks = m.receiveTasks
      /\ f.critical = m.critical
      /\ f.queue = SetOwner(m.queue, b, COMPONENT_IEEE802154E_TO_SIXTOP)
  BY <1>1 DEF notif_sendDone, Mac
<1>4. f.queue[b].creator = m.queue[b].creator
  BY <1>1, <1>3, SetOwnerProperties
<1>. HIDE DEF f
<1>5. n \in Mac /\ n.queue = f.queue /\ n.ptr = [m.ptr EXCEPT ![p] = NoBuffer]
  BY <1>1, <1>2, ClearProperties
<1>6. n.sendDoneTasks = f.sendDoneTasks /\ n.receiveTasks = f.receiveTasks /\ n.critical = f.critical
  BY <1>2 DEF Clear, Mac
<1>. HIDE DEF n
<1>7. Linked(n) /\ (Whole(m) => Whole(n)) /\ (Attempting(m) => Attempting(n))
  BY <1>1, <1>2, <1>5, LinkReleases
<1>8. Sending(m) = {b} /\ Sending(n) = {}
  BY <1>1, <1>5, LinkClears
<1>9. m.queue[b].owner = COMPONENT_IEEE802154E /\ n.queue[b].creator # COMPONENT_IEEE802154E
  BY <1>1, <1>4, <1>5 DEF Linked
<1>10. /\ Waiting(n.queue) = Waiting(m.queue)
       /\ SentPackets(n.queue) = SentPackets(m.queue) \cup {b}
       /\ ReceivedPackets(n.queue) = ReceivedPackets(m.queue)
  <2>1. m.queue[b].owner \notin {COMPONENT_SIXTOP_TO_IEEE802154E, COMPONENT_IEEE802154E_TO_SIXTOP}
    BY <1>9
  <2>2. \A d \in Buffer \ {b} : n.queue[d] = m.queue[d]
    BY <1>2, <1>5
  <2>3. n.queue[b].owner = COMPONENT_IEEE802154E_TO_SIXTOP
    BY <1>2, <1>5
  <2>4. b \in Buffer /\ n.queue[b].creator # COMPONENT_IEEE802154E
    BY <1>1, <1>9
  <2>. DEFINE q == m.queue  r == n.queue
  <2>. HIDE DEF b, q, r
  <2>5. /\ \A d \in Buffer \ {b} : r[d] = q[d]
        /\ q[b].owner \notin {COMPONENT_SIXTOP_TO_IEEE802154E, COMPONENT_IEEE802154E_TO_SIXTOP}
        /\ r[b].owner = COMPONENT_IEEE802154E_TO_SIXTOP /\ r[b].creator # COMPONENT_IEEE802154E
    BY <2>1, <2>2, <2>3, <2>4 DEF q, r
  <2>6. Waiting(r) = Waiting(q) /\ SentPackets(r) = SentPackets(q) \cup {b}
        /\ ReceivedPackets(r) = ReceivedPackets(q)
    BY <2>4, <2>5, Appears
  <2>. QED BY <2>6 DEF q, r
<1>11. Kept(m, n) /\ Returned(m, n)
  BY <1>3, <1>6, <1>7, <1>8, <1>10 DEF Kept, Returned
<1>. QED BY <1>5, <1>7, <1>11 DEF n, f

LEMMA LinkReceives ==
    ASSUME NEW m, Linked(m), m.ptr["dataReceived"] # NoBuffer
    PROVE  LET n == ReceptionDone(m)
           IN  /\ Linked(n) /\ Kept(m, n)
               /\ \E b \in Buffer : Delivered(m, n, b)
               /\ n.ptr = [m.ptr EXCEPT !["dataReceived"] = NoBuffer]
<1> DEFINE p == "dataReceived"
           b == m.ptr[p]
           f == notif_receive(m)
           n == Clear(f, p)
<1>1. m \in Mac /\ p \in Pointer /\ b \in Buffer /\ m.queue \in Queue
      /\ COMPONENT_IEEE802154E_TO_SIXTOP \in Component
  BY Constants DEF Linked, Mac, Pointer
<1>2. /\ f \in Mac /\ f.ptr = m.ptr
      /\ f.queue[b].owner = COMPONENT_IEEE802154E_TO_SIXTOP
      /\ \A d \in Buffer \ {b} : f.queue[d] = m.queue[d]
  BY <1>1, NotifReceiveProperties
<1>3. /\ f.sendDoneTasks = m.sendDoneTasks /\ f.receiveTasks = m.receiveTasks + 1
      /\ f.critical = m.critical
      /\ f.queue = SetOwner(m.queue, b, COMPONENT_IEEE802154E_TO_SIXTOP)
  BY <1>1 DEF notif_receive, Mac
<1>4. f.queue[b].creator = m.queue[b].creator
  BY <1>1, <1>3, SetOwnerProperties
<1>. HIDE DEF f
<1>5. n \in Mac /\ n.queue = f.queue /\ n.ptr = [m.ptr EXCEPT ![p] = NoBuffer]
  BY <1>1, <1>2, ClearProperties
<1>6. n.sendDoneTasks = f.sendDoneTasks /\ n.receiveTasks = f.receiveTasks /\ n.critical = f.critical
  BY <1>2 DEF Clear, Mac
<1>. HIDE DEF n
<1>7. Linked(n) /\ (Whole(m) => Whole(n)) /\ (Attempting(m) => Attempting(n))
  BY <1>1, <1>2, <1>5, LinkReleases
<1>8. Sending(n) = Sending(m) /\ b \notin Sending(m)
  BY <1>1, <1>5, LinkClears
<1>9. m.queue[b].owner = COMPONENT_IEEE802154E /\ n.queue[b].creator = COMPONENT_IEEE802154E
  BY <1>1, <1>4, <1>5 DEF Linked
<1>10. /\ b \notin Waiting(m.queue) \cup SentPackets(m.queue) \cup ReceivedPackets(m.queue)
       /\ Waiting(n.queue) = Waiting(m.queue)
       /\ SentPackets(n.queue) = SentPackets(m.queue)
       /\ ReceivedPackets(n.queue) = ReceivedPackets(m.queue) \cup {b}
  <2>1. m.queue[b].owner \notin {COMPONENT_SIXTOP_TO_IEEE802154E, COMPONENT_IEEE802154E_TO_SIXTOP}
    BY <1>9
  <2>2. \A d \in Buffer \ {b} : n.queue[d] = m.queue[d]
    BY <1>2, <1>5
  <2>3. n.queue[b].owner = COMPONENT_IEEE802154E_TO_SIXTOP
    BY <1>2, <1>5
  <2>. HIDE DEF b, p
  <2>4. b \notin Waiting(m.queue) \cup SentPackets(m.queue) \cup ReceivedPackets(m.queue)
    BY <1>1, <2>1, <2>2, Appears
  <2>5. /\ Waiting(n.queue) = Waiting(m.queue)
        /\ SentPackets(n.queue) = SentPackets(m.queue)
        /\ ReceivedPackets(n.queue) = ReceivedPackets(m.queue) \cup {b}
    BY <1>1, <1>9, <2>1, <2>2, <2>3, Appears
  <2>. QED BY <2>4, <2>5
<1>11. Kept(m, n) /\ Delivered(m, n, b)
  BY <1>3, <1>6, <1>7, <1>8, <1>10 DEF Kept, Delivered
<1>. QED BY <1>1, <1>5, <1>7, <1>11 DEF n, f, ReceptionDone

\* Counting an attempt is not seen.
LEMMA LinkCounts ==
    ASSUME NEW m, Linked(m), NEW b \in Buffer, NEW k \in Nat
    PROVE  LET n == SetRetries(m, b, k)
           IN  /\ Linked(n) /\ Stays(m, n) /\ (Whole(m) => Whole(n))
               /\ n.critical = m.critical /\ n.ptr = m.ptr
               /\ n.queue[b].retriesLeft = k
               /\ \A d \in Buffer \ {b} : n.queue[d] = m.queue[d]
<1> DEFINE e == [m.queue[b] EXCEPT !.retriesLeft = k]
           q == [m.queue EXCEPT ![b] = e]
           n == SetRetries(m, b, k)
<1>1. m \in Mac /\ m.queue \in Queue /\ m.queue[b] \in Entry
      /\ m.ptr \in [Pointer -> Buffer \cup {NoBuffer}]
  BY DEF Linked, Mac, Queue
<1>2. e \in Entry /\ e.owner = m.queue[b].owner /\ e.creator = m.queue[b].creator
      /\ e.retriesLeft = k
  BY <1>1 DEF Entry
<1>. HIDE DEF e
<1>3. q \in Queue /\ q[b] = e /\ \A d \in Buffer \ {b} : q[d] = m.queue[d]
  BY <1>1, <1>2 DEF Queue
<1>4. n = [m EXCEPT !.queue = q]
  BY DEF SetRetries, e
<1>. HIDE DEF q, n
<1>5. /\ n \in Mac /\ n.queue = q /\ n.ptr = m.ptr /\ n.critical = m.critical
      /\ n.sendDoneTasks = m.sendDoneTasks /\ n.receiveTasks = m.receiveTasks
  BY <1>1, <1>3, <1>4 DEF Mac
<1>6. \A d \in Buffer : /\ n.queue[d].owner = m.queue[d].owner
                        /\ n.queue[d].creator = m.queue[d].creator
  BY <1>2, <1>3, <1>5
<1>7. Stays(m, n)
  BY <1>5, <1>6, Unseen DEF Stays, Sending
<1>8. \A p \in Pointer : m.ptr[p] # NoBuffer => m.ptr[p] \in Buffer
  BY <1>1
<1>9. Linked(n) /\ (Whole(m) => Whole(n))
  BY <1>5, <1>6, <1>8 DEF Linked, Whole, Waiting
<1>. QED BY <1>2, <1>3, <1>5, <1>7, <1>9 DEF n

LEMMA LinkFails ==
    ASSUME NEW m, Linked(m), m.ptr["dataToSend"] # NoBuffer, Attempting(m)
    PROVE  LET n == TransmissionFailed(m)
           IN  /\ Linked(n) /\ Kept(m, n) /\ SlotLinks(m, n)
               /\ n.ptr = [m.ptr EXCEPT !["dataToSend"] = NoBuffer]
<1> DEFINE p == "dataToSend"
           b == m.ptr[p]
           left == m.queue[b].retriesLeft - 1
           counted == SetRetries(m, b, left)
           waits == [counted EXCEPT !.queue = SetOwner(@, b, COMPONENT_SIXTOP_TO_IEEE802154E)]
           n == TransmissionFailed(m)
<1>1. m \in Mac /\ p \in Pointer /\ b \in Buffer /\ m.queue \in Queue /\ m.queue[b] \in Entry
  BY DEF Linked, Mac, Pointer, Queue
<1>2. left \in Nat
  BY <1>1 DEF Attempting, Entry
<1>3. n = Clear(IF left = 0 THEN notif_sendDone(counted) ELSE waits, p)
  BY DEF TransmissionFailed
<1>. HIDE DEF n, left
<1>4. /\ Linked(counted) /\ Stays(m, counted) /\ (Whole(m) => Whole(counted))
      /\ counted.critical = m.critical /\ counted.ptr = m.ptr
      /\ \A d \in Buffer \ {b} : counted.queue[d] = m.queue[d]
  BY <1>1, <1>2, LinkCounts
<1>. HIDE DEF counted
<1>5. CASE left = 0
  <2>1. n = Clear(notif_sendDone(counted), p)
    BY <1>3, <1>5
  <2>2. /\ Linked(n) /\ Kept(counted, n) /\ Returned(counted, n)
        /\ n.ptr = [m.ptr EXCEPT ![p] = NoBuffer]
    BY <1>4, <2>1, LinkSent
  <2>3. SlotLinks(m, n)
    BY <1>4, <2>2, LinksAfter DEF SlotLinks
  <2>4. n.ptr[p] = NoBuffer
    BY <1>1, <2>2 DEF Mac
  <2>5. Kept(m, n)
    BY <1>4, <2>2, <2>4 DEF Kept, Attempting
  <2>. QED BY <2>2, <2>3, <2>5 DEF n
<1>6. CASE left # 0
  <2> DEFINE q == SetOwner(counted.queue, b, COMPONENT_SIXTOP_TO_IEEE802154E)
  <2>1. counted \in Mac /\ counted.queue \in Queue /\ COMPONENT_SIXTOP_TO_IEEE802154E \in Component
    BY <1>4, Constants DEF Linked, Mac
  <2>2. /\ q \in Queue /\ q[b].owner = COMPONENT_SIXTOP_TO_IEEE802154E
        /\ q[b].creator = counted.queue[b].creator
        /\ \A d \in Buffer \ {b} : q[d] = counted.queue[d]
    BY <1>1, <2>1, SetOwnerProperties
  <2>3. waits = [counted EXCEPT !.queue = q]
    OBVIOUS
  <2>. HIDE DEF q, waits
  <2>4. /\ waits \in Mac /\ waits.queue = q /\ waits.ptr = m.ptr
        /\ waits.critical = m.critical
        /\ waits.sendDoneTasks = counted.sendDoneTasks
        /\ waits.receiveTasks = counted.receiveTasks
    BY <1>4, <2>1, <2>2, <2>3 DEF Mac
  <2>5. n = Clear(waits, p)
    BY <1>3, <1>6
  <2>6. /\ n \in Mac /\ n.queue = q /\ n.ptr = [m.ptr EXCEPT ![p] = NoBuffer]
    BY <1>1, <2>4, <2>5, ClearProperties
  <2>7. n.sendDoneTasks = counted.sendDoneTasks /\ n.receiveTasks = counted.receiveTasks
        /\ n.critical = m.critical
    BY <2>4, <2>5 DEF Clear, Mac
  <2>8. /\ counted.queue[b].owner = COMPONENT_IEEE802154E
        /\ counted.queue[b].creator # COMPONENT_IEEE802154E
    BY <1>1, <1>4 DEF Linked
  <2>9. Linked(n) /\ (Whole(counted) => Whole(n))
    BY <1>1, <1>4, <2>2, <2>6, <2>8, LinkReleases
  <2>10. Sending(counted) = {b} /\ Sending(n) = {}
    BY <1>1, <1>4, <2>6, LinkClears
  <2>11. /\ Waiting(q) = Waiting(counted.queue) \cup {b}
         /\ SentPackets(q) = SentPackets(counted.queue)
         /\ ReceivedPackets(q) = ReceivedPackets(counted.queue)
    <3>1. counted.queue[b].owner
              \notin {COMPONENT_SIXTOP_TO_IEEE802154E, COMPONENT_IEEE802154E_TO_SIXTOP}
      BY <2>8
    <3>. HIDE DEF b
    <3>. QED BY <1>1, <2>2, <3>1, Appears
  <2>12. Retried(counted, n)
    BY <2>6, <2>7, <2>10, <2>11 DEF Retried
  <2>13. SlotLinks(m, n)
    BY <1>4, <2>12, LinksAfter DEF SlotLinks
  <2>14. n.ptr[p] = NoBuffer
    BY <1>1, <2>6 DEF Mac
  <2>15. Kept(m, n)
    BY <1>4, <2>7, <2>9, <2>14 DEF Kept, Attempting
  <2>. QED BY <2>6, <2>9, <2>13, <2>15 DEF n
<1>. QED BY <1>5, <1>6

\* A buffer the MAC allocates was free, and is not seen.
LEMMA LinkAllocates ==
    ASSUME NEW m, Linked(m), Whole(m), NEW p \in Pointer \ {"dataToSend"}, m.ptr[p] = NoBuffer
    PROVE  LET n == GetBuffer(m, p)
           IN  /\ Linked(n) /\ Kept(m, n) /\ Stays(m, n)
               /\ n.ptr = [m.ptr EXCEPT ![p] = n.ptr[p]]
               /\ n.critical = m.critical
<1> DEFINE n == GetBuffer(m, p)
           b == n.ptr[p]
           f == openqueue_getFreePacketBuffer(m.queue, isSync, COMPONENT_IEEE802154E)
<1>1. m \in Mac /\ m.queue \in Queue /\ m.ptr \in [Pointer -> Buffer \cup {NoBuffer}]
      /\ "dataToSend" \in Pointer /\ COMPONENT_IEEE802154E \in Component
  BY Constants DEF Linked, Mac, Pointer
<1>2. /\ n \in Mac
      /\ n.ptr = [m.ptr EXCEPT ![p] = b]
      /\ b = NoBuffer => n.queue = m.queue
      /\ b # NoBuffer =>
            /\ b \in Buffer
            /\ m.queue[b].owner = COMPONENT_NULL
            /\ n.queue[b].owner = COMPONENT_IEEE802154E
            /\ \A d \in Buffer \ {b} : n.queue[d] = m.queue[d]
  BY <1>1, GetBufferProperties
<1>3. /\ n.critical = m.critical
      /\ n.sendDoneTasks = m.sendDoneTasks /\ n.receiveTasks = m.receiveTasks
  BY <1>1 DEF GetBuffer, Mac
<1>4. b # NoBuffer => n.queue[b].creator = COMPONENT_IEEE802154E
  <2>1. CASE f = NoBuffer
    BY <1>1, <2>1 DEF GetBuffer, Mac
  <2>2. CASE f # NoBuffer
    <3> DEFINE c == SetCreator(m.queue, f, COMPONENT_IEEE802154E)
               q == SetOwner(c, f, COMPONENT_IEEE802154E)
    <3>1. f \in Buffer
      BY <2>2, GetFreeProperties
    <3>2. c \in Queue /\ c[f].creator = COMPONENT_IEEE802154E
      BY <1>1, <3>1, SetCreatorProperties
    <3>3. q[f].creator = COMPONENT_IEEE802154E
      BY <1>1, <3>1, <3>2, SetOwnerProperties
    <3>4. n = [m EXCEPT !.ptr[p] = f, !.queue = q]
      BY <2>2 DEF GetBuffer
    <3>. HIDE DEF f, c, q, n
    <3>5. n.queue = q /\ n.ptr = [m.ptr EXCEPT ![p] = f]
      BY <1>1, <3>4 DEF Mac
    <3>6. n.ptr[p] = f
      BY <1>1, <3>5
    <3>. QED BY <3>3, <3>5, <3>6
  <2>. QED BY <2>1, <2>2
<1>. HIDE DEF n
<1>5. \A r \in Pointer \ {p} : n.ptr[r] = m.ptr[r]
  BY <1>1, <1>2
<1>6. ASSUME NEW r \in Pointer \ {p}, n.ptr[r] # NoBuffer
      PROVE  /\ n.ptr[r] = m.ptr[r] /\ n.ptr[r] \in Buffer /\ (b # NoBuffer => n.ptr[r] # b)
             /\ n.queue[n.ptr[r]] = m.queue[m.ptr[r]]
             /\ m.queue[m.ptr[r]].owner = COMPONENT_IEEE802154E
  <2>1. n.ptr[r] = m.ptr[r] /\ n.ptr[r] \in Buffer
        /\ m.queue[m.ptr[r]].owner = COMPONENT_IEEE802154E
    BY <1>1, <1>5, <1>6 DEF Whole
  <2>. QED BY <1>2, <2>1
<1>7. Sending(n) = Sending(m)
  BY <1>1, <1>5 DEF Sending
<1>8. Stays(m, n)
  <2>1. \A d \in Buffer :
           \/ n.queue[d] = m.queue[d]
           \/ {m.queue[d].owner, n.queue[d].owner}
                 \cap {COMPONENT_SIXTOP_TO_IEEE802154E, COMPONENT_IEEE802154E_TO_SIXTOP} = {}
    BY <1>2
  <2>. QED BY <1>3, <1>7, <2>1, Unseen DEF Stays
<1>9. \A d \in Waiting(n.queue) : n.queue[d].creator # COMPONENT_IEEE802154E
  <2>1. Waiting(n.queue) = Waiting(m.queue)
    BY <1>8 DEF Stays
  <2>2. \A d \in Waiting(n.queue) : d \in Buffer /\ (b # NoBuffer => d # b)
    BY <1>2 DEF Waiting
  <2>. QED BY <1>2, <2>1, <2>2 DEF Linked
<1>10. Whole(n)
  <2>. SUFFICES ASSUME NEW r \in Pointer, n.ptr[r] # NoBuffer
                PROVE  n.queue[n.ptr[r]].owner = COMPONENT_IEEE802154E
    BY DEF Whole
  <2>. QED BY <1>2, <1>6
<1>11. \A r, t \in Pointer : n.ptr[r] # NoBuffer /\ n.ptr[r] = n.ptr[t] => r = t
  <2>. SUFFICES ASSUME NEW r \in Pointer, NEW t \in Pointer, n.ptr[r] # NoBuffer, n.ptr[r] = n.ptr[t]
                PROVE  r = t
    OBVIOUS
  <2>1. CASE r = p \/ t = p
    BY <1>6, <2>1
  <2>2. CASE r # p /\ t # p
    BY <1>6, <2>2 DEF Linked
  <2>. QED BY <2>1, <2>2
<1>12. Linked(n)
  <2>1. ASSUME NEW r \in Pointer, n.ptr[r] # NoBuffer
        PROVE  /\ r = "dataToSend" => n.queue[n.ptr[r]].creator # COMPONENT_IEEE802154E
               /\ r = "dataReceived" => n.queue[n.ptr[r]].creator = COMPONENT_IEEE802154E
    <3>1. CASE r = p
      BY <1>4, <2>1, <3>1
    <3>2. CASE r # p
      BY <1>6, <2>1, <3>2 DEF Linked
    <3>. QED BY <3>1, <3>2
  <2>. QED BY <1>2, <1>9, <1>10, <1>11, <2>1 DEF Linked, Whole
<1>13. Attempting(m) => Attempting(n)
  BY <1>1, <1>5, <1>6 DEF Attempting
<1>. QED BY <1>2, <1>3, <1>8, <1>10, <1>12, <1>13 DEF Kept, n

\* The clean-up of endSlot: the packet of the slot or its frame, never both.
LEMMA LinkCleans ==
    ASSUME NEW m, Linked(m), Attempting(m),
           m.ptr["dataToSend"] = NoBuffer \/ m.ptr["dataReceived"] = NoBuffer
    PROVE  LET n == CleanUp(m)
           IN  /\ Linked(n) /\ Kept(m, n) /\ SlotLinks(m, n)
               /\ m.ptr["dataToSend"] = NoBuffer /\ m.ptr["dataReceived"] = NoBuffer =>
                     Stays(m, n)
<1> DEFINE m1 == EndTransmission(m)
           m2 == EndReception(m1)
           m3 == EndAck(m2, "ackToSend")
           m4 == EndAck(m3, "ackReceived")
<1>1. /\ {"dataToSend", "dataReceived"} \subseteq Pointer
      /\ {"ackToSend", "ackReceived"} \subseteq Pointer \ {"dataToSend"}
  BY DEF Pointer
<1>2. ASSUME NEW x, Linked(x), NEW p \in {"ackToSend", "ackReceived"}
      PROVE  Linked(EndAck(x, p)) /\ Kept(x, EndAck(x, p)) /\ Stays(x, EndAck(x, p))
  BY <1>1, <1>2, LinkFreed, LinksAfter DEF EndAck
<1>3. /\ Linked(m1) /\ Kept(m, m1)
      /\ m.ptr["dataToSend"] = NoBuffer => m1 = m
      /\ m.ptr["dataToSend"] # NoBuffer => SlotLinks(m, m1) /\ m1.ptr["dataReceived"] = NoBuffer
  <2>1. CASE m.ptr["dataToSend"] = NoBuffer
    BY <2>1, LinksAfter DEF EndTransmission
  <2>2. CASE m.ptr["dataToSend"] # NoBuffer
    <3>1. /\ Linked(m1) /\ Kept(m, m1) /\ SlotLinks(m, m1)
          /\ m1.ptr = [m.ptr EXCEPT !["dataToSend"] = NoBuffer]
      BY <2>2, LinkFails DEF EndTransmission
    <3>2. m1.ptr["dataReceived"] = m.ptr["dataReceived"]
      BY <1>1, <3>1 DEF Linked, Mac
    <3>. QED BY <2>2, <3>1, <3>2
  <2>. QED BY <2>1, <2>2
<1>. HIDE DEF m1
<1>4. /\ Linked(m2) /\ Kept(m1, m2) /\ SlotLinks(m1, m2)
      /\ m1.ptr["dataReceived"] = NoBuffer => m2 = m1
  <2>1. CASE m1.ptr["dataReceived"] = NoBuffer
    BY <1>3, <2>1, LinksAfter DEF EndReception, SlotLinks
  <2>2. CASE m1.ptr["dataReceived"] # NoBuffer
    BY <1>3, <2>2, LinkReceives DEF EndReception, SlotLinks
  <2>. QED BY <2>1, <2>2
<1>. HIDE DEF m2
<1>5. /\ Linked(m2) /\ Kept(m, m2) /\ SlotLinks(m, m2)
      /\ m.ptr["dataToSend"] = NoBuffer /\ m.ptr["dataReceived"] = NoBuffer => Stays(m, m2)
  <2>1. Kept(m, m2)
    BY <1>3, <1>4, LinksAfter
  <2>2. CASE m.ptr["dataToSend"] = NoBuffer
    BY <1>3, <1>4, <2>1, <2>2, LinksAfter
  <2>3. CASE m.ptr["dataToSend"] # NoBuffer
    BY <1>3, <1>4, <2>1, <2>3
  <2>. QED BY <2>2, <2>3
<1>6. Linked(m3) /\ Kept(m2, m3) /\ Stays(m2, m3)
  BY <1>2, <1>5
<1>. HIDE DEF m3
<1>7. Linked(m4) /\ Kept(m3, m4) /\ Stays(m3, m4)
  BY <1>2, <1>6
<1>8. CleanUp(m) = m4
  BY DEF CleanUp, m1, m2, m3
<1>. HIDE DEF m4
<1>9. Kept(m2, m4) /\ Stays(m2, m4)
  BY <1>6, <1>7, LinksAfter
<1>. QED BY <1>5, <1>7, <1>8, <1>9, LinksAfter

-----------------------------------------------------------------------------
(* The steps of the service, and the reports they leave *)

\* What a step of the MAC is to the service: packets are only withdrawn by a
\* task that removes them.
Linking ==
    \/ UNCHANGED Link!linkVars
    \/ \E p \in Buffer : Link!Give(p) \/ Link!Attempt(p) \/ Link!Deliver(p)
    \/ Link!Retry \/ Link!Return \/ Link!FetchSent \/ Link!FetchReceived \/ Link!LinkReset
    \/ Link!Withdraw /\ TasksRemove

Faultless == ~CryptoMayFail /\ ~TasksRemove

\* As many packets given back as tasks to fetch them.
Exact ==
    Faultless => /\ Cardinality(SentPackets(mac.queue)) = mac.sendDoneTasks
                 /\ mac.critical = {}

LinkInv == Inv /\ Linked(mac) /\ NoPacketStranded /\ Exact

\* What is shown of every step.
LinkStep == Linking /\ Linked(mac') /\ (Faultless => mac'.critical = {})

LEMMA PacketsFinite ==
    ASSUME NEW q
    PROVE  /\ IsFiniteSet(SentPackets(q)) /\ Cardinality(SentPackets(q)) \in Nat
           /\ IsFiniteSet(ReceivedPackets(q)) /\ Cardinality(ReceivedPackets(q)) \in Nat
<1>1. IsFiniteSet(Buffer)
  BY FS_Interval, QueueLengthAssumption DEF Buffer
<1>2. SentPackets(q) \subseteq Buffer /\ ReceivedPackets(q) \subseteq Buffer
  BY DEF SentPackets, ReceivedPackets
<1>3. IsFiniteSet(SentPackets(q)) /\ IsFiniteSet(ReceivedPackets(q))
  BY <1>1, <1>2, FS_Subset
<1>. QED BY <1>3, FS_CardinalityType

LEMMA LinkFacts ==
    ASSUME LinkInv
    PROVE  /\ mac \in Mac /\ mac.queue \in Queue /\ mac.ptr \in [Pointer -> Buffer \cup {NoBuffer}]
           /\ Linked(mac) /\ Whole(mac) /\ Attempting(mac)
           /\ \A p \in Pointer : mac.ptr[p] # NoBuffer <=> p \in PointersIn(state)
           /\ mac.ptr["dataToSend"] = NoBuffer \/ mac.ptr["dataReceived"] = NoBuffer
           /\ Stays(mac, mac)
           /\ Faultless => mac.critical = {}
<1>1. /\ mac \in Mac /\ Fit(mac, PointersIn(state)) /\ Sound(mac, PointersIn(state))
      /\ \A p \in Pointer : mac.ptr[p] # NoBuffer <=> p \in PointersIn(state)
  BY InvFacts DEF LinkInv
<1>2. Linked(mac) /\ (Faultless => mac.critical = {})
  BY DEF LinkInv, Exact
<1>3. Whole(mac)
  BY <1>1 DEF Whole, Fit
<1>4. Attempting(mac)
  <2>1. mac.ptr["dataToSend"] # NoBuffer => mac.ptr["dataToSend"] \in Pending(mac)
    BY <1>1 DEF Pending, Mac, Pointer
  <2>. QED BY <1>1, <2>1 DEF Attempting, Sound, Attempts
<1>5. mac.ptr["dataToSend"] = NoBuffer \/ mac.ptr["dataReceived"] = NoBuffer
  <2>1. ~("dataToSend" \in PointersIn(state) /\ "dataReceived" \in PointersIn(state))
    BY DEF PointersIn, TxDataStates, RxAckStates, TxAckStates
  <2>. QED BY <1>1, <2>1 DEF Pointer
<1>. QED BY <1>1, <1>2, <1>3, <1>4, <1>5, LinksAfter DEF Mac

\* The reports keep their count: Return leaves one with the packet, FetchSent
\* and FetchReceived take one away with a packet, if there is one.
LEMMA ReportsKept ==
    ASSUME LinkInv, Linking
    PROVE  /\ NoPacketStranded'
           /\ Faultless =>
                 Cardinality(SentPackets(mac'.queue)) = mac'.sendDoneTasks
<1> DEFINE S == SentPackets(mac.queue)
           R == ReceivedPackets(mac.queue)
           S1 == SentPackets(mac'.queue)
           R1 == ReceivedPackets(mac'.queue)
           D == {mac.ptr["dataToSend"]} \ {NoBuffer}
<1>1. /\ IsFiniteSet(S) /\ Cardinality(S) \in Nat /\ IsFiniteSet(R) /\ Cardinality(R) \in Nat
      /\ IsFiniteSet(S1) /\ Cardinality(S1) \in Nat
  BY PacketsFinite
<1>2. /\ Cardinality(S) <= mac.sendDoneTasks /\ Cardinality(R) = mac.receiveTasks
      /\ Faultless => Cardinality(S) = mac.sendDoneTasks
      /\ mac.sendDoneTasks \in Nat /\ mac.receiveTasks \in Nat
  BY LinkFacts DEF LinkInv, NoPacketStranded, Exact, Mac
<1>3. SUFFICES /\ Cardinality(S1) <= mac'.sendDoneTasks
               /\ Cardinality(R1) = mac'.receiveTasks
               /\ Faultless => Cardinality(S1) = mac'.sendDoneTasks
  BY DEF NoPacketStranded
<1>. HIDE DEF S, R, S1, R1
<1>4. CASE S1 = S /\ R1 = R /\ mac'.sendDoneTasks = mac.sendDoneTasks
           /\ mac'.receiveTasks = mac.receiveTasks
  BY <1>2, <1>4
<1>5. CASE \E p \in Buffer : Link!Deliver(p)
  <2>1. PICK p \in Buffer :
            /\ p \notin R /\ R1 = R \cup {p} /\ S1 = S
            /\ mac'.receiveTasks = mac.receiveTasks + 1
            /\ mac'.sendDoneTasks = mac.sendDoneTasks
    BY <1>5 DEF Link!Deliver, Link!InUse, S, R, S1, R1
  <2>2. Cardinality(R1) = Cardinality(R) + 1
    BY <1>1, <2>1, FS_AddElement
  <2>. QED BY <1>2, <2>1, <2>2
<1>6. CASE Link!Return
  <2> DEFINE p == mac.ptr["dataToSend"]
  <2>1. /\ D # {} /\ S1 = S \cup D /\ R1 = R
        /\ mac'.sendDoneTasks = mac.sendDoneTasks + 1
        /\ mac'.receiveTasks = mac.receiveTasks
    BY <1>6 DEF Link!Return, S, R, S1, R1
  <2>2. p # NoBuffer /\ D = {p}
    BY <2>1
  <2>3. p \notin S
    BY <2>2, LinkFacts DEF Whole, Pointer, S, SentPackets
  <2>. HIDE DEF p, D
  <2>4. Cardinality(S1) = Cardinality(S) + 1
    BY <1>1, <2>1, <2>2, <2>3, FS_AddElement
  <2>5. /\ R1 = R /\ mac'.sendDoneTasks = mac.sendDoneTasks + 1
        /\ mac'.receiveTasks = mac.receiveTasks
    BY <2>1
  <2>. QED BY <1>1, <1>2, <2>4, <2>5
<1>7. CASE Link!FetchSent
  <2>1. /\ mac.sendDoneTasks > 0 /\ mac'.sendDoneTasks = mac.sendDoneTasks - 1
        /\ R1 = R /\ mac'.receiveTasks = mac.receiveTasks
        /\ \/ \E p \in S : S1 = S \ {p}
           \/ S = {} /\ S1 = S
    BY <1>7 DEF Link!FetchSent, S, R, S1, R1
  <2>2. CASE \E p \in S : S1 = S \ {p}
    <3>1. Cardinality(S1) = Cardinality(S) - 1
      BY <1>1, <2>2, FS_RemoveElement
    <3>. QED BY <1>1, <1>2, <2>1, <3>1
  <2>3. CASE S = {} /\ S1 = S
    <3>1. Cardinality(S) = 0 /\ Cardinality(S1) = 0
      BY <2>3, FS_EmptySet
    <3>. QED BY <1>2, <2>1, <3>1
  <2>. QED BY <2>1, <2>2, <2>3
<1>8. CASE Link!FetchReceived
  <2>1. /\ mac'.receiveTasks = mac.receiveTasks - 1
        /\ S1 = S /\ mac'.sendDoneTasks = mac.sendDoneTasks
        /\ \E p \in R : R1 = R \ {p}
    BY <1>8 DEF Link!FetchReceived, S, R, S1, R1
  <2>2. Cardinality(R1) = Cardinality(R) - 1
    BY <1>1, <2>1, FS_RemoveElement
  <2>. QED BY <1>2, <2>1, <2>2
<1>9. CASE Link!LinkReset
  <2>1. S1 = {} /\ R1 = {} /\ mac'.sendDoneTasks = 0 /\ mac'.receiveTasks = 0
    BY <1>9 DEF Link!LinkReset, S1, R1
  <2>. QED BY <2>1, FS_EmptySet
<1>10. CASE Link!Withdraw /\ TasksRemove
  <2>1. /\ S1 \subseteq S /\ R1 = R /\ mac'.sendDoneTasks = mac.sendDoneTasks
        /\ mac'.receiveTasks = mac.receiveTasks /\ ~Faultless
    BY <1>10 DEF Link!Withdraw, Faultless, S, R, S1, R1
  <2>2. Cardinality(S1) <= Cardinality(S)
    BY <1>1, <2>1, FS_Subset
  <2>. QED BY <1>1, <1>2, <2>1, <2>2
<1>11. \/ UNCHANGED Link!linkVars \/ Link!Retry \/ \E p \in Buffer : Link!Give(p) \/ Link!Attempt(p)
       => S1 = S /\ R1 = R /\ mac'.sendDoneTasks = mac.sendDoneTasks
          /\ mac'.receiveTasks = mac.receiveTasks
  BY DEF Link!linkVars, Link!Retry, Link!Give, Link!Attempt, S, R, S1, R1
<1>. QED BY <1>4, <1>5, <1>6, <1>7, <1>8, <1>9, <1>10, <1>11 DEF Linking

-----------------------------------------------------------------------------
(* The handlers *)

LEMMA SlotIsLink ==
    ASSUME SlotLinks(mac, mac') PROVE Linking
<1> USE DEF Sending
<1>1. CASE Stays(mac, mac')
  BY <1>1 DEF Stays, Linking, Link!linkVars
<1>2. CASE Retried(mac, mac')
  BY <1>2 DEF Retried, Linking, Link!Retry
<1>3. CASE Returned(mac, mac')
  BY <1>3 DEF Returned, Linking, Link!Return
<1>4. CASE \E b \in Buffer : Delivered(mac, mac', b)
  BY <1>4 DEF Delivered, Linking, Link!Deliver, Link!InUse
<1>. QED BY <1>1, <1>2, <1>3, <1>4 DEF SlotLinks

LEMMA LinkUnchanged ==
    ASSUME LinkInv, UNCHANGED mac PROVE LinkStep
BY LinkFacts, SlotIsLink DEF LinkStep, SlotLinks

\* The buffers when a handler ends the slot: it may have given the packet of the
\* slot back, or its frame up, or leaves that to endSlot.
BeforeEnd(m) ==
    /\ Linked(m)
    /\ Kept(mac, m) \/ (Attempting(m) /\ CryptoMayFail)
    /\ \/ /\ Stays(mac, m)
          /\ m.ptr["dataToSend"] = NoBuffer \/ m.ptr["dataReceived"] = NoBuffer
       \/ /\ SlotLinks(mac, m)
          /\ m.ptr["dataToSend"] = NoBuffer /\ m.ptr["dataReceived"] = NoBuffer

LEMMA LinkEnds ==
    ASSUME LinkInv, NEW m, BeforeEnd(m), NEW c, endSlot(m, c)
    PROVE  LinkStep
<1>1. mac' = CleanUp(m)
  BY DEF endSlot
<1>2. Whole(mac) /\ Attempting(mac) /\ (Faultless => mac.critical = {})
  BY LinkFacts
<1>3. Linked(m) /\ Attempting(m) /\ (Faultless => Whole(m) /\ m.critical = mac.critical)
  BY <1>2 DEF BeforeEnd, Kept, Faultless
<1>4. /\ m.ptr["dataToSend"] = NoBuffer \/ m.ptr["dataReceived"] = NoBuffer
      /\ \/ Stays(mac, m)
         \/ /\ SlotLinks(mac, m)
            /\ m.ptr["dataToSend"] = NoBuffer /\ m.ptr["dataReceived"] = NoBuffer
  BY DEF BeforeEnd
<1>5. Linked(mac') /\ Kept(m, mac') /\ SlotLinks(mac, mac')
  BY <1>1, <1>3, <1>4, LinkCleans, LinksAfter
<1>6. Faultless => mac'.critical = {}
  BY <1>2, <1>3, <1>5 DEF Kept
<1>. QED BY <1>5, <1>6, SlotIsLink DEF LinkStep

LEMMA LinkEndsAtOnce ==
    ASSUME LinkInv, NEW c, endSlot(mac, c) PROVE LinkStep
<1>1. BeforeEnd(mac)
  BY LinkFacts, LinksAfter DEF BeforeEnd
<1>. QED BY <1>1, LinkEnds

\* Clearing a pointer that is not set.
LEMMA LinkClearsNone ==
    ASSUME NEW m, Linked(m), NEW p \in Pointer, m.ptr[p] = NoBuffer
    PROVE  Linked(Clear(m, p)) /\ Kept(m, Clear(m, p)) /\ Stays(m, Clear(m, p))
           /\ Clear(m, p).ptr = m.ptr
<1> DEFINE n == Clear(m, p)
<1>1. m \in Mac /\ m.ptr \in [Pointer -> Buffer \cup {NoBuffer}]
  BY DEF Linked, Mac
<1>2. [m.ptr EXCEPT ![p] = NoBuffer] = m.ptr
  BY <1>1
<1>3. n \in Mac /\ n.queue = m.queue /\ n.ptr = m.ptr
  BY <1>1, <1>2, ClearProperties
<1>4. n.sendDoneTasks = m.sendDoneTasks /\ n.receiveTasks = m.receiveTasks /\ n.critical = m.critical
  BY <1>1 DEF Clear, Mac
<1>. HIDE DEF n
<1>5. Linked(n) /\ Kept(m, n) /\ Stays(m, n)
  BY <1>3, <1>4 DEF Linked, Kept, Whole, Attempting, Stays, Sending
<1>. QED BY <1>3, <1>5 DEF n

LEMMA LinkStarts ==
    ASSUME LinkInv, NEW c, NEW ok, StartTx(c, ok) PROVE LinkStep
<1> DEFINE b == ToSend(c, ok)
           p == "dataToSend"
           q == SetOwner(mac.queue, b, COMPONENT_IEEE802154E)
           t == [mac.ptr EXCEPT ![p] = b]
<1>1. /\ mac \in Mac /\ mac.queue \in Queue /\ mac.ptr \in [Pointer -> Buffer \cup {NoBuffer}]
      /\ Linked(mac) /\ Whole(mac) /\ p \in Pointer /\ COMPONENT_IEEE802154E \in Component
      /\ Faultless => mac.critical = {}
  BY LinkFacts, Constants DEF Pointer
<1>2. mac.ptr[p] = NoBuffer
  <2>1. p \notin PointersIn(state)
    BY PointersOfStates DEF StartTx
  <2>. QED BY <1>1, <2>1, LinkFacts
<1>3. b # NoBuffer /\ mac' = [mac EXCEPT !.ptr = t, !.queue = q]
  BY DEF StartTx
<1>4. b \in Waiting(mac.queue)
  BY <1>3, PacketWaits
<1>5. b \in Buffer /\ mac.queue[b].owner = COMPONENT_SIXTOP_TO_IEEE802154E
      /\ mac.queue[b].creator # COMPONENT_IEEE802154E
  BY <1>1, <1>4 DEF Waiting, Linked
<1>6. /\ q \in Queue /\ q[b].owner = COMPONENT_IEEE802154E /\ q[b].creator = mac.queue[b].creator
      /\ \A d \in Buffer \ {b} : q[d] = mac.queue[d]
  BY <1>1, <1>5, SetOwnerProperties
<1>7. t \in [Pointer -> Buffer \cup {NoBuffer}] /\ t[p] = b
      /\ \A r \in Pointer \ {p} : t[r] = mac.ptr[r]
  BY <1>1, <1>5
<1>. HIDE DEF b, q, t
<1>8. /\ mac' \in Mac /\ mac'.queue = q /\ mac'.ptr = t
      /\ mac'.sendDoneTasks = mac.sendDoneTasks /\ mac'.receiveTasks = mac.receiveTasks
      /\ mac'.critical = mac.critical
  BY <1>1, <1>3, <1>6, <1>7 DEF Mac
<1>9. /\ b \notin Waiting(q)
      /\ Waiting(mac.queue) = Waiting(q) \cup {b}
      /\ SentPackets(mac.queue) = SentPackets(q)
      /\ ReceivedPackets(mac.queue) = ReceivedPackets(q)
  <2>1. q[b].owner \notin {COMPONENT_SIXTOP_TO_IEEE802154E, COMPONENT_IEEE802154E_TO_SIXTOP}
    BY <1>6
  <2>2. b \notin Waiting(q)
    BY <1>6 DEF Waiting
  <2>. QED BY <1>5, <1>6, <2>1, <2>2, Appears
<1>10. Link!Attempt(b)
  <2>1. {mac.ptr["dataToSend"]} \ {NoBuffer} = {} /\ {mac'.ptr["dataToSend"]} \ {NoBuffer} = {b}
    BY <1>2, <1>3, <1>7, <1>8
  <2>. QED BY <1>4, <1>8, <1>9, <2>1 DEF Link!Attempt
<1>11. Linked(mac')
  <2>1. ASSUME NEW r \in Pointer \ {p}, t[r] # NoBuffer
        PROVE  t[r] = mac.ptr[r] /\ t[r] \in Buffer /\ t[r] # b /\ q[t[r]] = mac.queue[mac.ptr[r]]
    <3>1. t[r] = mac.ptr[r] /\ t[r] \in Buffer /\ mac.queue[t[r]].owner = COMPONENT_IEEE802154E
      BY <1>1, <1>7, <2>1 DEF Whole
    <3>. QED BY <1>5, <1>6, <3>1
  <2>2. ASSUME NEW r \in Pointer, t[r] # NoBuffer
        PROVE  /\ \/ q[t[r]].owner = COMPONENT_IEEE802154E
                  \/ r = "ackToSend" /\ q[t[r]].owner = COMPONENT_NULL
               /\ r = "dataToSend" => q[t[r]].creator # COMPONENT_IEEE802154E
               /\ r = "dataReceived" => q[t[r]].creator = COMPONENT_IEEE802154E
    <3>1. CASE r = p
      BY <1>5, <1>6, <1>7, <3>1
    <3>2. CASE r # p
      BY <1>1, <2>1, <2>2, <3>2 DEF Linked
    <3>. QED BY <3>1, <3>2
  <2>3. ASSUME NEW r \in Pointer, NEW s \in Pointer, t[r] # NoBuffer, t[r] = t[s] PROVE r = s
    <3>1. CASE r = p \/ s = p
      BY <1>7, <2>1, <2>3, <3>1
    <3>2. CASE r # p /\ s # p
      BY <1>1, <2>1, <2>3, <3>2 DEF Linked
    <3>. QED BY <3>1, <3>2
  <2>4. \A d \in Waiting(q) : q[d].creator # COMPONENT_IEEE802154E
    BY <1>1, <1>6, <1>9 DEF Linked, Waiting
  <2>. QED BY <1>8, <2>2, <2>3, <2>4 DEF Linked
<1>. QED BY <1>1, <1>5, <1>8, <1>10, <1>11 DEF LinkStep, Linking

LEMMA NewSlotLinks ==
    ASSUME LinkInv, isr_ieee154e_newSlot PROVE LinkStep
<1>1. CASE BecomeRoot
  BY <1>1, LinkEndsAtOnce DEF BecomeRoot
<1>2. CASE activity_synchronize_newSlot
  BY <1>2, LinkUnchanged DEF activity_synchronize_newSlot
<1>3. CASE Desynchronize
  BY <1>3, LinkEndsAtOnce DEF Desynchronize
<1>4. CASE InactiveSlot
  BY <1>4, LinkEndsAtOnce DEF InactiveSlot
<1>5. ASSUME NEW c, NEW ok, StartTx(c, ok) PROVE LinkStep
  BY <1>5, LinkStarts
<1>6. ASSUME state = "S_SLEEP"
      PROVE  LET m == Clear(mac, "dataToSend")
             IN  /\ Linked(m) /\ Kept(mac, m) /\ Stays(mac, m)
                 /\ m.ptr["dataToSend"] = NoBuffer
  <2>1. "dataToSend" \in Pointer /\ Linked(mac) /\ mac.ptr["dataToSend"] = NoBuffer
    BY <1>6, LinkFacts, PointersOfStates DEF Pointer
  <2>. QED BY <2>1, LinkClearsNone
<1>7. ASSUME NEW c, NEW ok, StartRx(c, ok) PROVE LinkStep
  <2>1. state = "S_SLEEP" /\ (mac' = Clear(mac, "dataToSend") \/ mac' = mac)
    BY <1>7 DEF StartRx
  <2>2. CASE mac' = Clear(mac, "dataToSend")
    <3>1. Linked(mac') /\ Kept(mac, mac') /\ Stays(mac, mac')
      BY <1>6, <2>1, <2>2
    <3>. QED BY <3>1, LinkFacts, SlotIsLink DEF LinkStep, SlotLinks, Kept
  <2>3. CASE mac' = mac
    BY <2>3, LinkUnchanged
  <2>. QED BY <2>1, <2>2, <2>3
<1>8. ASSUME NEW c, NEW ok, NothingToSend(c, ok) PROVE LinkStep
  <2>1. state = "S_SLEEP" /\ endSlot(Clear(mac, "dataToSend"), c)
    BY <1>8 DEF NothingToSend
  <2> DEFINE m == Clear(mac, "dataToSend")
  <2>2. BeforeEnd(m)
    BY <1>6, <2>1 DEF BeforeEnd
  <2>. HIDE DEF m
  <2>3. endSlot(m, c)
    BY <2>1 DEF m
  <2>. QED BY <2>2, <2>3, LinkEnds
<1>. QED BY <1>1, <1>2, <1>3, <1>4, <1>5, <1>7, <1>8 DEF isr_ieee154e_newSlot

\* The pointers a handler finds.
LEMMA LinkPointers ==
    ASSUME LinkInv
    PROVE  /\ state \in TxDataStates \cup RxAckStates =>
                 /\ mac.ptr["dataToSend"] # NoBuffer
                 /\ \A p \in Pointer \ {"dataToSend"} : mac.ptr[p] = NoBuffer
           /\ state \in SyncStates \cup RxDataStates =>
                 \A p \in Pointer : mac.ptr[p] = NoBuffer
           /\ state \in TxAckStates => mac.ptr["dataReceived"] # NoBuffer
           /\ state \in TxAckStates \ {"S_TXACKOFFSET"} => mac.ptr["ackToSend"] # NoBuffer
           /\ state \in TxAckStates =>
                 mac.ptr["dataToSend"] = NoBuffer /\ mac.ptr["ackReceived"] = NoBuffer
           /\ state = "S_TXACKOFFSET" => mac.ptr["ackToSend"] = NoBuffer
<1>1. \A p \in Pointer : mac.ptr[p] # NoBuffer <=> p \in PointersIn(state)
  BY LinkFacts
<1>2. {"dataToSend", "dataReceived", "ackToSend", "ackReceived"} \subseteq Pointer
  BY DEF Pointer
<1>3. state \in TxAckStates =>
          /\ "dataReceived" \in PointersIn(state)
          /\ "dataToSend" \notin PointersIn(state) /\ "ackReceived" \notin PointersIn(state)
  <2>1. CASE state = "S_TXACKOFFSET"
    BY <2>1, PointersOfStates
  <2>2. CASE state \in TxAckStates \ {"S_TXACKOFFSET"}
    BY <2>2, PointersOfStates
  <2>. QED BY <2>1, <2>2
<1>. QED BY <1>1, <1>2, <1>3, PointersOfStates

\* Freeing the buffer of an acknowledgement that a pointer is still set to.
LEMMA LinkFreesAck ==
    ASSUME NEW m, Linked(m), Attempting(m), m.ptr["ackToSend"] # NoBuffer
    PROVE  LET n == FreeBuffer(m, "ackToSend")
           IN  Linked(n) /\ Attempting(n) /\ Stays(m, n) /\ n.ptr = m.ptr
<1> DEFINE p == "ackToSend"
           b == m.ptr[p]
           n == FreeBuffer(m, p)
<1>1. m \in Mac /\ m.ptr \in [Pointer -> Buffer \cup {NoBuffer}]
      /\ {"dataToSend", "dataReceived", "ackToSend", "ackReceived"} \subseteq Pointer
  BY DEF Linked, Mac, Pointer
<1>2. /\ n \in Mac /\ n.ptr = m.ptr /\ n.queue[b].owner = COMPONENT_NULL
      /\ \A d \in Buffer \ {b} : n.queue[d] = m.queue[d]
  BY <1>1, FreeBufferProperties
<1>3. n.sendDoneTasks = m.sendDoneTasks /\ n.receiveTasks = m.receiveTasks
  BY <1>1 DEF FreeBuffer, Mac
<1>. HIDE DEF n
<1>4. m.queue[b].owner \in {COMPONENT_IEEE802154E, COMPONENT_NULL}
  BY <1>1 DEF Linked
<1>5. Stays(m, n)
  <2>1. \A d \in Buffer :
           \/ n.queue[d] = m.queue[d]
           \/ {m.queue[d].owner, n.queue[d].owner}
                 \cap {COMPONENT_SIXTOP_TO_IEEE802154E, COMPONENT_IEEE802154E_TO_SIXTOP} = {}
    BY <1>2, <1>4
  <2>2. Sending(n) = Sending(m)
    BY <1>2 DEF Sending
  <2>. QED BY <1>3, <2>1, <2>2, Unseen DEF Stays
<1>6. ASSUME NEW r \in Pointer \ {p}, m.ptr[r] # NoBuffer
      PROVE  n.queue[m.ptr[r]] = m.queue[m.ptr[r]]
  BY <1>1, <1>2, <1>6 DEF Linked
<1>7. Attempting(n)
  BY <1>1, <1>2, <1>6 DEF Attempting
<1>8. \A d \in Waiting(n.queue) : n.queue[d].creator # COMPONENT_IEEE802154E
  BY <1>2 DEF Linked, Waiting
<1>9. Linked(n)
  <2>1. ASSUME NEW r \in Pointer, n.ptr[r] # NoBuffer
        PROVE  /\ \/ n.queue[n.ptr[r]].owner = COMPONENT_IEEE802154E
                  \/ r = "ackToSend" /\ n.queue[n.ptr[r]].owner = COMPONENT_NULL
               /\ r = "dataToSend" => n.queue[n.ptr[r]].creator # COMPONENT_IEEE802154E
               /\ r = "dataReceived" => n.queue[n.ptr[r]].creator = COMPONENT_IEEE802154E
    <3>1. CASE r = p
      BY <1>2, <3>1
    <3>2. CASE r # p
      BY <1>2, <1>6, <2>1, <3>2 DEF Linked
    <3>. QED BY <3>1, <3>2
  <2>2. \A r, s \in Pointer : n.ptr[r] # NoBuffer /\ n.ptr[r] = n.ptr[s] => r = s
    BY <1>2 DEF Linked
  <2>. QED BY <1>2, <1>8, <2>1, <2>2 DEF Linked
<1>. QED BY <1>2, <1>5, <1>7, <1>9 DEF n

\* A handler that leaves the slot going on with what it did to the buffers.
LEMMA LinkGoesOn ==
    ASSUME LinkInv, Linked(mac'), Kept(mac, mac'), SlotLinks(mac, mac')
    PROVE  LinkStep
BY LinkFacts, SlotIsLink DEF LinkStep, Kept

LEMMA TimerLinks ==
    ASSUME LinkInv, isr_ieee154e_timer PROVE LinkStep
<1>0. /\ Linked(mac) /\ Whole(mac) /\ Attempting(mac) /\ mac \in Mac
      /\ {"dataToSend", "dataReceived", "ackToSend", "ackReceived"} \subseteq Pointer
  BY LinkFacts DEF Pointer
<1>1. CASE activity_ti2 \/ GoTransmit \/ GetReady \/ GoReceive
  BY <1>1, LinkUnchanged DEF activity_ti2, GoTransmit, GetReady, GoReceive
<1>2. CASE activity_ti2_fails
  <2>1. state = "S_TXDATAOFFSET"
    BY <1>2 DEF activity_ti2_fails, TimerFires
  <2>2. CASE endSlot(mac, cell)
    BY <2>2, LinkEndsAtOnce
  <2>3. CASE endSlot(SetRetries(mac, mac.ptr["dataToSend"], 1), cell)
    <3> DEFINE b == mac.ptr["dataToSend"]
               m == SetRetries(mac, b, 1)
    <3>1. b \in Buffer /\ \A p \in Pointer \ {"dataToSend"} : mac.ptr[p] = NoBuffer
      BY <1>0, <2>1, LinkPointers DEF TxDataStates, Mac
    <3>2. /\ Linked(m) /\ Stays(mac, m) /\ (Whole(mac) => Whole(m))
          /\ m.critical = mac.critical /\ m.ptr = mac.ptr /\ m.queue[b].retriesLeft = 1
      BY <1>0, <3>1, LinkCounts
    <3>. HIDE DEF m
    <3>3. BeforeEnd(m)
      BY <1>0, <3>1, <3>2 DEF BeforeEnd, Kept, Attempting
    <3>4. endSlot(m, cell)
      BY <2>3 DEF m
    <3>. QED BY <3>3, <3>4, LinkEnds
  <2>. QED BY <1>2, <2>2, <2>3 DEF activity_ti2_fails
<1>3. CASE activity_tie5
  <2> DEFINE m == TransmissionFailed(mac)
  <2>1. state = "S_RXACKLISTEN" /\ endSlot(m, cell)
    BY <1>3 DEF activity_tie5, TimerFires
  <2>2. mac.ptr["dataToSend"] # NoBuffer /\ mac.ptr["dataReceived"] = NoBuffer
    BY <1>0, <2>1, LinkPointers DEF RxAckStates
  <2>3. /\ Linked(m) /\ Kept(mac, m) /\ SlotLinks(mac, m)
        /\ m.ptr = [mac.ptr EXCEPT !["dataToSend"] = NoBuffer]
    BY <1>0, <2>2, LinkFails
  <2>. HIDE DEF m
  <2>4. m.ptr["dataToSend"] = NoBuffer /\ m.ptr["dataReceived"] = NoBuffer
    BY <1>0, <2>2, <2>3 DEF Mac
  <2>5. BeforeEnd(m)
    BY <2>3, <2>4 DEF BeforeEnd
  <2>. QED BY <2>1, <2>5, LinkEnds
<1>4. CASE TimeOut
  BY <1>4, LinkEndsAtOnce DEF TimeOut
<1>5. CASE activity_ri6
  <2> DEFINE p == "ackToSend"
             m == GetBuffer(mac, p)
  <2>1. /\ mac.ptr[p] = NoBuffer /\ mac.ptr["dataReceived"] # NoBuffer
        /\ mac.ptr["dataToSend"] = NoBuffer
    BY <1>5, LinkPointers DEF activity_ri6, TimerFires, TxAckStates
  <2>2. /\ Linked(m) /\ Kept(mac, m) /\ Stays(mac, m)
        /\ m.ptr = [mac.ptr EXCEPT ![p] = m.ptr[p]]
    BY <1>0, <2>1, LinkAllocates
  <2>3. \/ m.ptr[p] = NoBuffer /\ endSlot(ReceptionDone(m), cell)
        \/ m.ptr[p] # NoBuffer /\ CryptoMayFail /\ endSlot(FreeBuffer(m, p), cell)
        \/ mac' = m
    BY <1>5 DEF activity_ri6
  <2>. HIDE DEF m
  <2>4. m.ptr["dataReceived"] # NoBuffer /\ m.ptr["dataToSend"] = NoBuffer /\ Attempting(m)
    BY <1>0, <2>1, <2>2 DEF Kept, Mac
  <2>5. CASE endSlot(ReceptionDone(m), cell)
    <3> DEFINE n == ReceptionDone(m)
    <3>1. /\ Linked(n) /\ Kept(m, n) /\ SlotLinks(m, n)
          /\ n.ptr = [m.ptr EXCEPT !["dataReceived"] = NoBuffer]
      BY <2>2, <2>4, LinkReceives DEF SlotLinks
    <3>. HIDE DEF n
    <3>2. n.ptr["dataReceived"] = NoBuffer /\ n.ptr["dataToSend"] = NoBuffer
      BY <1>0, <2>2, <2>4, <3>1 DEF Linked, Mac
    <3>3. Kept(mac, n) /\ SlotLinks(mac, n)
      BY <2>2, <3>1, LinksAfter
    <3>4. BeforeEnd(n)
      BY <3>1, <3>2, <3>3 DEF BeforeEnd
    <3>5. endSlot(n, cell)
      BY <2>5 DEF n
    <3>. QED BY <3>4, <3>5, LinkEnds
  <2>6. CASE m.ptr[p] # NoBuffer /\ CryptoMayFail /\ endSlot(FreeBuffer(m, p), cell)
    <3> DEFINE n == FreeBuffer(m, p)
    <3>1. Linked(n) /\ Attempting(n) /\ Stays(m, n) /\ n.ptr = m.ptr
      BY <2>2, <2>4, <2>6, LinkFreesAck
    <3>. HIDE DEF n
    <3>2. Stays(mac, n)
      BY <2>2, <3>1, LinksAfter
    <3>3. BeforeEnd(n)
      BY <2>4, <2>6, <3>1, <3>2 DEF BeforeEnd
    <3>4. endSlot(n, cell)
      BY <2>6 DEF n
    <3>. QED BY <3>3, <3>4, LinkEnds
  <2>7. CASE mac' = m
    BY <2>2, <2>7, LinkGoesOn DEF SlotLinks
  <2>. QED BY <2>3, <2>5, <2>6, <2>7
<1>. QED BY <1>1, <1>2, <1>3, <1>4, <1>5 DEF isr_ieee154e_timer

LEMMA StartLinks ==
    ASSUME LinkInv, ieee154e_startOfFrame PROVE LinkStep
<1>1. CASE SyncStartOfFrame \/ FrameStarts
  BY <1>1, LinkUnchanged DEF SyncStartOfFrame, FrameStarts
<1>2. CASE endSlot(mac, cell)
  BY <1>2, LinkEndsAtOnce
<1>. QED BY <1>1, <1>2 DEF ieee154e_startOfFrame

\* A buffer for a frame: without one, with a frame to drop or one to give up.
LEMMA LinkFrame ==
    ASSUME LinkInv, state \in SyncStates \cup RxDataStates
    PROVE  LET p == "dataReceived"
               m == GetBuffer(mac, p)
               n == Clear(FreeBuffer(m, p), p)
           IN  /\ Linked(m) /\ Kept(mac, m) /\ SlotLinks(mac, m) /\ BeforeEnd(m)
               /\ m.ptr[p] # NoBuffer =>
                     /\ Linked(n) /\ Kept(mac, n) /\ SlotLinks(mac, n) /\ BeforeEnd(n)
                     /\ BeforeEnd(ReceptionDone(m))
<1> DEFINE p == "dataReceived"
           m == GetBuffer(mac, p)
           n == Clear(FreeBuffer(m, p), p)
           r == ReceptionDone(m)
<1>0. /\ Linked(mac) /\ Whole(mac) /\ mac.ptr \in [Pointer -> Buffer \cup {NoBuffer}]
      /\ p \in Pointer \ {"dataToSend"} /\ {"dataToSend", "dataReceived"} \subseteq Pointer
  BY LinkFacts DEF Pointer
<1>1. mac.ptr[p] = NoBuffer /\ mac.ptr["dataToSend"] = NoBuffer
  BY <1>0, LinkPointers
<1>2. /\ Linked(m) /\ Kept(mac, m) /\ Stays(mac, m)
      /\ m.ptr = [mac.ptr EXCEPT ![p] = m.ptr[p]]
  BY <1>0, <1>1, LinkAllocates
<1>. HIDE DEF m
<1>3. m.ptr["dataToSend"] = NoBuffer /\ m.ptr \in [Pointer -> Buffer \cup {NoBuffer}]
  BY <1>0, <1>1, <1>2 DEF Linked, Mac
<1>4. SlotLinks(mac, m) /\ BeforeEnd(m)
  BY <1>2, <1>3 DEF SlotLinks, BeforeEnd
<1>5. ASSUME m.ptr[p] # NoBuffer
      PROVE  Linked(n) /\ Kept(mac, n) /\ SlotLinks(mac, n) /\ BeforeEnd(n)
  <2>1. /\ Linked(n) /\ Kept(m, n) /\ Stays(m, n)
        /\ n.ptr = [m.ptr EXCEPT ![p] = NoBuffer]
    BY <1>0, <1>2, <1>5, LinkFreed
  <2>. HIDE DEF n
  <2>2. n.ptr["dataToSend"] = NoBuffer
    BY <1>0, <1>3, <2>1
  <2>3. Kept(mac, n) /\ Stays(mac, n)
    BY <1>2, <2>1, LinksAfter
  <2>. QED BY <2>1, <2>2, <2>3 DEF SlotLinks, BeforeEnd
<1>6. ASSUME m.ptr[p] # NoBuffer PROVE BeforeEnd(r)
  <2>1. /\ Linked(r) /\ Kept(m, r) /\ SlotLinks(m, r)
        /\ r.ptr = [m.ptr EXCEPT ![p] = NoBuffer]
    BY <1>2, <1>6, LinkReceives DEF SlotLinks
  <2>. HIDE DEF r
  <2>2. r.ptr["dataToSend"] = NoBuffer /\ r.ptr["dataReceived"] = NoBuffer
    BY <1>0, <1>3, <2>1
  <2>3. Kept(mac, r) /\ SlotLinks(mac, r)
    BY <1>2, <2>1, LinksAfter
  <2>. QED BY <2>1, <2>2, <2>3 DEF BeforeEnd
<1>. QED BY <1>2, <1>4, <1>5, <1>6 DEF m

LEMMA EndLinks ==
    ASSUME LinkInv, ieee154e_endOfFrame PROVE LinkStep
<1>0. /\ Linked(mac) /\ Whole(mac) /\ Attempting(mac)
      /\ mac.ptr \in [Pointer -> Buffer \cup {NoBuffer}]
      /\ {"dataToSend", "dataReceived", "ackToSend", "ackReceived"} \subseteq Pointer
      /\ {"ackToSend", "ackReceived"} \subseteq Pointer \ {"dataToSend"}
  BY LinkFacts DEF Pointer
<1>1. CASE IgnoredEnd
  BY <1>1, LinkUnchanged DEF IgnoredEnd
<1>2. CASE NoBeacon
  <2> DEFINE m == GetBuffer(mac, "dataReceived")
             n == Clear(FreeBuffer(m, "dataReceived"), "dataReceived")
  <2>1. state \in SyncStates
        /\ (mac' = m \/ (m.ptr["dataReceived"] # NoBuffer /\ mac' = n))
    BY <1>2 DEF NoBeacon, SyncStates
  <2>2. /\ Linked(m) /\ Kept(mac, m) /\ SlotLinks(mac, m)
        /\ m.ptr["dataReceived"] # NoBuffer =>
              Linked(n) /\ Kept(mac, n) /\ SlotLinks(mac, n)
    BY <2>1, LinkFrame
  <2>. HIDE DEF m, n
  <2>. QED BY <2>1, <2>2, LinkGoesOn
<1>3. CASE Beacon
  <2> DEFINE m == GetBuffer(mac, "dataReceived")
  <2>1. /\ state \in SyncStates /\ m.ptr["dataReceived"] # NoBuffer
        /\ endSlot(ReceptionDone(m), NoCell)
    BY <1>3 DEF Beacon, SyncStates
  <2>2. BeforeEnd(ReceptionDone(m))
    BY <2>1, LinkFrame
  <2>. HIDE DEF m
  <2>. QED BY <2>1, <2>2, LinkEnds
<1>4. CASE activity_ti5
  <2> DEFINE m == Clear(notif_sendDone(mac), "dataToSend")
  <2>1. state = "S_TXDATA" /\ (endSlot(m, cell) \/ UNCHANGED mac)
    BY <1>4 DEF activity_ti5
  <2>2. mac.ptr["dataToSend"] # NoBuffer /\ mac.ptr["dataReceived"] = NoBuffer
    BY <1>0, <2>1, LinkPointers DEF TxDataStates
  <2>3. /\ Linked(m) /\ Kept(mac, m) /\ SlotLinks(mac, m)
        /\ m.ptr = [mac.ptr EXCEPT !["dataToSend"] = NoBuffer]
    BY <1>0, <2>2, LinkSent DEF SlotLinks
  <2>. HIDE DEF m
  <2>4. m.ptr["dataToSend"] = NoBuffer /\ m.ptr["dataReceived"] = NoBuffer
    BY <1>0, <2>2, <2>3
  <2>5. BeforeEnd(m)
    BY <2>3, <2>4 DEF BeforeEnd
  <2>. QED BY <2>1, <2>5, LinkEnds, LinkUnchanged
<1>5. CASE activity_ti9
  <2> DEFINE p == "ackReceived"
             m == GetBuffer(mac, p)
             Free(x) == Clear(FreeBuffer(x, p), p)
             s == Clear(notif_sendDone(m), "dataToSend")
  <2>1. /\ state = "S_RXACK"
        /\ \/ m.ptr[p] = NoBuffer /\ endSlot(m, cell)
           \/ m.ptr[p] # NoBuffer /\ endSlot(Free(m), cell)
           \/ m.ptr[p] # NoBuffer /\ endSlot(Free(s), cell)
    BY <1>5 DEF activity_ti9
  <2>2. mac.ptr["dataToSend"] # NoBuffer /\ mac.ptr["dataReceived"] = NoBuffer
        /\ mac.ptr[p] = NoBuffer
    BY <1>0, <2>1, LinkPointers DEF RxAckStates
  <2>3. /\ Linked(m) /\ Kept(mac, m) /\ Stays(mac, m)
        /\ m.ptr = [mac.ptr EXCEPT ![p] = m.ptr[p]]
    BY <1>0, <2>2, LinkAllocates
  <2>. HIDE DEF m
  <2>4. /\ m.ptr["dataToSend"] # NoBuffer /\ m.ptr["dataReceived"] = NoBuffer
        /\ m.ptr \in [Pointer -> Buffer \cup {NoBuffer}]
    BY <1>0, <2>2, <2>3 DEF Linked, Mac
  <2>5. BeforeEnd(m)
    BY <2>3, <2>4 DEF BeforeEnd
  <2>6. ASSUME m.ptr[p] # NoBuffer PROVE BeforeEnd(Free(m))
    <3> DEFINE n == Free(m)
    <3>1. /\ Linked(n) /\ Kept(m, n) /\ Stays(m, n)
          /\ n.ptr = [m.ptr EXCEPT ![p] = NoBuffer]
      BY <1>0, <2>3, <2>6, LinkFreed
    <3>. HIDE DEF n
    <3>2. n.ptr["dataReceived"] = NoBuffer
      BY <1>0, <2>4, <3>1
    <3>3. Kept(mac, n) /\ Stays(mac, n)
      BY <2>3, <3>1, LinksAfter
    <3>4. BeforeEnd(n)
      BY <3>1, <3>2, <3>3 DEF BeforeEnd
    <3>. QED BY <3>4 DEF n
  <2>7. ASSUME m.ptr[p] # NoBuffer PROVE BeforeEnd(Free(s))
    <3> DEFINE n == Free(s)
    <3>1. /\ Linked(s) /\ Kept(m, s) /\ SlotLinks(m, s)
          /\ s.ptr = [m.ptr EXCEPT !["dataToSend"] = NoBuffer]
      BY <2>3, <2>4, LinkSent DEF SlotLinks
    <3>. HIDE DEF s
    <3>2. /\ s.ptr["dataToSend"] = NoBuffer /\ s.ptr["dataReceived"] = NoBuffer
          /\ s.ptr[p] # NoBuffer /\ s.ptr \in [Pointer -> Buffer \cup {NoBuffer}]
      BY <1>0, <2>4, <2>7, <3>1 DEF Linked, Mac
    <3>3. /\ Linked(n) /\ Kept(s, n) /\ Stays(s, n)
          /\ n.ptr = [s.ptr EXCEPT ![p] = NoBuffer]
      BY <1>0, <3>1, <3>2, LinkFreed
    <3>. HIDE DEF n
    <3>4. n.ptr["dataToSend"] = NoBuffer /\ n.ptr["dataReceived"] = NoBuffer
      BY <1>0, <3>2, <3>3
    <3>5. Kept(m, n) /\ SlotLinks(m, n)
      BY <3>1, <3>3, LinksAfter
    <3>6. Kept(mac, n) /\ SlotLinks(mac, n)
      BY <2>3, <3>5, LinksAfter
    <3>7. BeforeEnd(n)
      BY <3>3, <3>4, <3>6 DEF BeforeEnd
    <3>. QED BY <3>7 DEF n, s
  <2>. HIDE DEF Free, s
  <2>. QED BY <2>1, <2>5, <2>6, <2>7, LinkEnds
<1>6. CASE activity_ri5
  <2> DEFINE m == GetBuffer(mac, "dataReceived")
             n == Clear(FreeBuffer(m, "dataReceived"), "dataReceived")
  <2>1. /\ state = "S_RXDATA"
        /\ \/ endSlot(m, cell)
           \/ m.ptr["dataReceived"] # NoBuffer /\ endSlot(n, cell)
           \/ mac' = m
           \/ m.ptr["dataReceived"] # NoBuffer /\ endSlot(ReceptionDone(m), cell)
    BY <1>6 DEF activity_ri5
  <2>2. /\ Linked(m) /\ Kept(mac, m) /\ SlotLinks(mac, m) /\ BeforeEnd(m)
        /\ m.ptr["dataReceived"] # NoBuffer => BeforeEnd(n) /\ BeforeEnd(ReceptionDone(m))
    BY <2>1, LinkFrame DEF RxDataStates
  <2>. HIDE DEF m, n
  <2>. QED BY <2>1, <2>2, LinkEnds, LinkGoesOn
<1>7. CASE activity_ri9
  <2> DEFINE n == Clear(FreeBuffer(mac, "ackToSend"), "ackToSend")
             r == ReceptionDone(n)
  <2>1. state = "S_TXACK" /\ endSlot(r, cell)
    BY <1>7 DEF activity_ri9
  <2>2. /\ mac.ptr["dataReceived"] # NoBuffer /\ mac.ptr["ackToSend"] # NoBuffer
        /\ mac.ptr["dataToSend"] = NoBuffer
    BY <2>1, LinkPointers DEF TxAckStates
  <2>3. /\ Linked(n) /\ Kept(mac, n) /\ Stays(mac, n)
        /\ n.ptr = [mac.ptr EXCEPT !["ackToSend"] = NoBuffer]
    BY <1>0, <2>2, LinkFreed
  <2>. HIDE DEF n
  <2>4. /\ n.ptr["dataReceived"] # NoBuffer /\ n.ptr["dataToSend"] = NoBuffer
        /\ n.ptr \in [Pointer -> Buffer \cup {NoBuffer}]
    BY <1>0, <2>2, <2>3 DEF Linked, Mac
  <2>5. /\ Linked(r) /\ Kept(n, r) /\ SlotLinks(n, r)
        /\ r.ptr = [n.ptr EXCEPT !["dataReceived"] = NoBuffer]
    BY <2>3, <2>4, LinkReceives DEF SlotLinks
  <2>. HIDE DEF r
  <2>6. r.ptr["dataReceived"] = NoBuffer /\ r.ptr["dataToSend"] = NoBuffer
    BY <1>0, <2>4, <2>5
  <2>7. Kept(mac, r) /\ SlotLinks(mac, r)
    BY <2>3, <2>5, LinksAfter
  <2>8. BeforeEnd(r)
    BY <2>5, <2>6, <2>7 DEF BeforeEnd
  <2>. QED BY <2>1, <2>8, LinkEnds
<1>8. CASE UnexpectedEnd
  BY <1>8, LinkEndsAtOnce DEF UnexpectedEnd
<1>. QED BY <1>1, <1>2, <1>3, <1>4, <1>5, <1>6, <1>7, <1>8 DEF ieee154e_endOfFrame

-----------------------------------------------------------------------------
(* The tasks *)

\* A task leaves the pointers alone, and makes a packet wait only under
\* another creator than the MAC.
LEMMA TaskLinked ==
    ASSUME LinkInv, mac' \in Mac, mac'.ptr = mac.ptr,
           \A d \in Buffer :
              \/ mac'.queue[d] = mac.queue[d]
              \/ /\ mac.queue[d].owner # COMPONENT_IEEE802154E
                 /\ mac'.queue[d].owner = COMPONENT_SIXTOP_TO_IEEE802154E =>
                       mac'.queue[d].creator # COMPONENT_IEEE802154E
    PROVE  Linked(mac')
<1>1. Linked(mac) /\ Whole(mac) /\ mac.ptr \in [Pointer -> Buffer \cup {NoBuffer}]
  BY LinkFacts
<1>2. \A p \in Pointer : mac.ptr[p] # NoBuffer => mac'.queue[mac.ptr[p]] = mac.queue[mac.ptr[p]]
  BY <1>1 DEF Whole
<1>3. \A d \in Waiting(mac'.queue) : mac'.queue[d].creator # COMPONENT_IEEE802154E
  BY <1>1 DEF Linked, Waiting
<1>. QED BY <1>1, <1>2, <1>3 DEF Linked

\* A task that changes no packet the service shows.
LEMMA TaskUnseen ==
    ASSUME LinkInv, NEW q \in Queue, mac' = [mac EXCEPT !.queue = q],
           \A d \in Buffer :
              \/ q[d] = mac.queue[d]
              \/ {mac.queue[d].owner, q[d].owner}
                    \cap {COMPONENT_SIXTOP_TO_IEEE802154E, COMPONENT_IEEE802154E_TO_SIXTOP,
                          COMPONENT_IEEE802154E} = {}
    PROVE  LinkStep
<1>1. mac \in Mac /\ (Faultless => mac.critical = {})
  BY LinkFacts
<1>2. /\ mac' \in Mac /\ mac'.queue = q /\ mac'.ptr = mac.ptr /\ mac'.critical = mac.critical
      /\ mac'.sendDoneTasks = mac.sendDoneTasks /\ mac'.receiveTasks = mac.receiveTasks
  BY <1>1 DEF Mac
<1>3. Linked(mac')
  BY <1>2, TaskLinked
<1>4. /\ Waiting(q) = Waiting(mac.queue)
      /\ SentPackets(q) = SentPackets(mac.queue)
      /\ ReceivedPackets(q) = ReceivedPackets(mac.queue)
  BY Unseen
<1>5. UNCHANGED Link!linkVars
  BY <1>2, <1>4 DEF Link!linkVars
<1>. QED BY <1>1, <1>2, <1>3, <1>5 DEF LinkStep, Linking

LEMMA AllocatesLinks ==
    ASSUME LinkInv, NEW creator \in TaskCreator, TaskAllocates(creator) PROVE LinkStep
<1> DEFINE b == openqueue_getFreePacketBuffer(mac.queue, isSync, creator)
           c == SetCreator(mac.queue, b, creator)
           q == SetOwner(c, b, COMPONENT_OPENQUEUE)
<1>1. b \in Buffer /\ mac.queue[b].owner = COMPONENT_NULL
  BY GetFreeProperties DEF TaskAllocates
<1>2. mac.queue \in Queue /\ creator \in Component /\ COMPONENT_OPENQUEUE \in Component
  BY LinkFacts, Constants
<1>3. c \in Queue /\ \A d \in Buffer \ {b} : c[d] = mac.queue[d]
  BY <1>1, <1>2, SetCreatorProperties
<1>4. q \in Queue /\ q[b].owner = COMPONENT_OPENQUEUE /\ \A d \in Buffer \ {b} : q[d] = c[d]
  BY <1>1, <1>2, <1>3, SetOwnerProperties
<1>5. mac' = [mac EXCEPT !.queue = q]
  BY DEF TaskAllocates
<1>. HIDE DEF b, c, q
<1>. QED BY <1>1, <1>3, <1>4, <1>5, TaskUnseen

LEMMA FreesLinks ==
    ASSUME LinkInv, NEW b \in Buffer, TaskFrees(b) PROVE LinkStep
<1> DEFINE q == openqueue_freePacketBuffer(mac.queue, b)
<1>1. q \in Queue /\ q[b].owner = COMPONENT_NULL /\ \A d \in Buffer \ {b} : q[d] = mac.queue[d]
  BY LinkFacts, FreeProperties
<1>2. mac.queue[b].owner \in {COMPONENT_OPENQUEUE, COMPONENT_SIXTOP}
  BY DEF TaskFrees, Held
<1>3. mac' = [mac EXCEPT !.queue = q]
  BY DEF TaskFrees
<1>. HIDE DEF q
<1>. QED BY <1>1, <1>2, <1>3, TaskUnseen

\* The packets that wait still do, wherever they go.
LEMMA ParentLinks ==
    ASSUME LinkInv, NEW n \in Neighbor, ChangesParent(n) PROVE LinkStep
<1>1. mac \in Mac /\ mac.queue \in Queue /\ (Faultless => mac.critical = {})
  BY LinkFacts
<1>2. PICK S : mac' = [mac EXCEPT !.queue = openqueue_updateNextHopPayload(@, n, S)]
  BY DEF ChangesParent
<1> DEFINE q == openqueue_updateNextHopPayload(mac.queue, n, S)
<1>3. /\ q \in Queue
      /\ \A d \in Buffer :
            \/ q[d] = mac.queue[d]
            \/ d \in Waiting(mac.queue) /\ q[d] = [mac.queue[d] EXCEPT !.nexthop = n]
  BY <1>1, UpdateProperties
<1>4. mac' = [mac EXCEPT !.queue = q]
  BY <1>2
<1>. HIDE DEF q
<1>5. ASSUME NEW d \in Buffer
      PROVE  /\ q[d].owner = mac.queue[d].owner /\ q[d].creator = mac.queue[d].creator
             /\ q[d] = mac.queue[d] \/ d \in Waiting(mac.queue)
  BY <1>1, <1>3 DEF Queue, Entry
<1>6. /\ mac' \in Mac /\ mac'.queue = q /\ mac'.ptr = mac.ptr /\ mac'.critical = mac.critical
      /\ mac'.sendDoneTasks = mac.sendDoneTasks /\ mac'.receiveTasks = mac.receiveTasks
  BY <1>1, <1>3, <1>4 DEF Mac
<1>7. Linked(mac')
  <2>1. \A d \in Waiting(mac.queue) : mac.queue[d].creator # COMPONENT_IEEE802154E
    BY LinkFacts DEF Linked
  <2>. QED BY <1>5, <1>6, <2>1, TaskLinked DEF Waiting
<1>8. /\ Waiting(q) = Waiting(mac.queue)
      /\ SentPackets(q) = SentPackets(mac.queue)
      /\ ReceivedPackets(q) = ReceivedPackets(mac.queue)
  BY <1>5 DEF Waiting, SentPackets, ReceivedPackets
<1>9. UNCHANGED Link!linkVars
  BY <1>6, <1>8 DEF Link!linkVars
<1>. QED BY <1>1, <1>6, <1>7, <1>9 DEF LinkStep, Linking

\* openqueue_removeAllCreatedBy: packets of one task that wait or were given back.
LEMMA RemovesLinks ==
    ASSUME LinkInv, NEW creator \in TaskCreator, TaskRemoves(creator) PROVE LinkStep
<1> DEFINE q == openqueue_removeAllCreatedBy(mac.queue, creator)
<1>1. mac \in Mac /\ mac.queue \in Queue /\ creator # COMPONENT_IEEE802154E /\ ~Faultless
  BY LinkFacts, TaskCreatorAssumption DEF TaskRemoves, Faultless
<1>2. /\ q \in Queue
      /\ \A d \in Buffer : \/ q[d] = mac.queue[d]
                           \/ /\ mac.queue[d].creator = creator
                              /\ mac.queue[d].owner # COMPONENT_IEEE802154E
                              /\ q[d].owner = COMPONENT_NULL
  BY <1>1, RemoveProperties
<1>3. mac' = [mac EXCEPT !.queue = q] /\ TasksRemove
  BY DEF TaskRemoves
<1>. HIDE DEF q
<1>4. /\ mac' \in Mac /\ mac'.queue = q /\ mac'.ptr = mac.ptr
      /\ mac'.sendDoneTasks = mac.sendDoneTasks /\ mac'.receiveTasks = mac.receiveTasks
  BY <1>1, <1>2, <1>3 DEF Mac
<1>5. Linked(mac')
  BY <1>2, <1>4, TaskLinked
<1>6. /\ Waiting(q) \subseteq Waiting(mac.queue) /\ SentPackets(q) \subseteq SentPackets(mac.queue)
      /\ ReceivedPackets(q) = ReceivedPackets(mac.queue)
  BY <1>1, <1>2 DEF Waiting, SentPackets, ReceivedPackets
<1>7. Link!Withdraw
  BY <1>4, <1>6 DEF Link!Withdraw
<1>. QED BY <1>1, <1>3, <1>5, <1>7 DEF LinkStep, Linking

LEMMA SendsLinks ==
    ASSUME LinkInv, NEW b \in Buffer, NEW to \in Address, NEW message \in SixMessage,
           sixtop_send_internal(b, to, message)
    PROVE  LinkStep
<1> DEFINE e == [creator |-> CreatorOf(b), owner |-> COMPONENT_SIXTOP_TO_IEEE802154E,
                 nexthop |-> to, messageType |-> message,
                 retriesLeft |-> IF to = BROADCAST THEN 1 ELSE TXRETRIES + 1]
           q == [mac.queue EXCEPT ![b] = e]
<1>1. /\ mac \in Mac /\ mac.queue \in Queue /\ Whole(mac) /\ TXRETRIES \in Nat
      /\ Faultless => mac.critical = {}
  BY LinkFacts, Constants
<1>2. mac.queue[b].owner \in {COMPONENT_OPENQUEUE, COMPONENT_SIXTOP}
  BY DEF sixtop_send_internal, Held
<1>3. CreatorOf(b) \in Component /\ CreatorOf(b) # COMPONENT_IEEE802154E
  <2>1. mac.queue[b].creator \in Component
    BY <1>1 DEF Queue, Entry
  <2>. QED BY <2>1, Constants DEF CreatorOf
<1>4. e \in Entry
  <2>1. COMPONENT_SIXTOP_TO_IEEE802154E \in Component
    BY Constants
  <2>. QED BY <1>1, <1>3, <2>1 DEF Entry
<1>5. e.owner = COMPONENT_SIXTOP_TO_IEEE802154E /\ e.creator # COMPONENT_IEEE802154E
  BY <1>3
<1>6. mac' = [mac EXCEPT !.queue = q]
  BY DEF sixtop_send_internal
<1>. HIDE DEF e
<1>7. q \in Queue /\ q[b] = e /\ \A d \in Buffer \ {b} : q[d] = mac.queue[d]
  BY <1>1, <1>4 DEF Queue
<1>. HIDE DEF q
<1>8. /\ mac' \in Mac /\ mac'.queue = q /\ mac'.ptr = mac.ptr /\ mac'.critical = mac.critical
      /\ mac'.sendDoneTasks = mac.sendDoneTasks /\ mac'.receiveTasks = mac.receiveTasks
  BY <1>1, <1>6, <1>7 DEF Mac
<1>9. Linked(mac')
  BY <1>2, <1>5, <1>7, <1>8, TaskLinked
<1>10. /\ b \notin Waiting(mac.queue) \cup SentPackets(mac.queue) \cup ReceivedPackets(mac.queue)
       /\ Waiting(q) = Waiting(mac.queue) \cup {b}
       /\ SentPackets(q) = SentPackets(mac.queue)
       /\ ReceivedPackets(q) = ReceivedPackets(mac.queue)
  <2>1. mac.queue[b].owner
            \notin {COMPONENT_SIXTOP_TO_IEEE802154E, COMPONENT_IEEE802154E_TO_SIXTOP}
    BY <1>2
  <2>. QED BY <1>5, <1>7, <2>1, Appears
<1>11. mac.ptr["dataToSend"] # b
  BY <1>1, <1>2, Constants DEF Whole, Pointer
<1>12. Link!Give(b)
  BY <1>8, <1>10, <1>11 DEF Link!Give, Link!InUse
<1>. QED BY <1>1, <1>8, <1>9, <1>12 DEF LinkStep, Linking

\* A task fetches one packet that was given back, or one frame.
LEMMA TakesLinks ==
    ASSUME LinkInv, NEW m \in Mac, m.queue = mac.queue, m.ptr = mac.ptr, m.critical = mac.critical,
           NEW b \in Buffer, mac.queue[b].owner = COMPONENT_IEEE802154E_TO_SIXTOP,
           NEW error, mac' = Take(m, b, error)
    PROVE  /\ Linked(mac') /\ mac'.critical = mac.critical
           /\ mac'.sendDoneTasks = m.sendDoneTasks /\ mac'.receiveTasks = m.receiveTasks
           /\ mac'.ptr = mac.ptr
           /\ Waiting(mac'.queue) = Waiting(mac.queue)
           /\ SentPackets(mac'.queue) = SentPackets(mac.queue) \ {b}
           /\ ReceivedPackets(mac'.queue) = ReceivedPackets(mac.queue) \ {b}
<1> DEFINE q == SetOwner(m.queue, b, COMPONENT_SIXTOP)
<1>1. m.queue \in Queue /\ COMPONENT_SIXTOP \in Component /\ b # NoBuffer
  BY Constants DEF Mac
<1>2. q \in Queue /\ q[b].owner = COMPONENT_SIXTOP /\ \A d \in Buffer \ {b} : q[d] = m.queue[d]
  BY <1>1, SetOwnerProperties
<1>3. mac' = [m EXCEPT !.queue = q]
  BY <1>1 DEF Take
<1>. HIDE DEF q
<1>4. /\ mac' \in Mac /\ mac'.queue = q /\ mac'.ptr = mac.ptr /\ mac'.critical = mac.critical
      /\ mac'.sendDoneTasks = m.sendDoneTasks /\ mac'.receiveTasks = m.receiveTasks
  BY <1>2, <1>3 DEF Mac
<1>5. Linked(mac')
  BY <1>2, <1>4, TaskLinked
<1>6. /\ Waiting(q) = Waiting(mac.queue)
      /\ SentPackets(q) = SentPackets(mac.queue) \ {b}
      /\ ReceivedPackets(q) = ReceivedPackets(mac.queue) \ {b}
  BY <1>2 DEF Waiting, SentPackets, ReceivedPackets
<1>. QED BY <1>4, <1>5, <1>6

LEMMA FetchesLink ==
    ASSUME LinkInv, Notified PROVE LinkStep
<1> DEFINE S == SentPackets(mac.queue)
           R == ReceivedPackets(mac.queue)
<1>1. /\ mac \in Mac /\ (Faultless => mac.critical = {})
      /\ mac.sendDoneTasks \in Nat /\ mac.receiveTasks \in Nat
      /\ Linked(mac) /\ Whole(mac)
  BY LinkFacts DEF Mac
<1>2. S \in SUBSET Buffer /\ R \in SUBSET Buffer
  BY DEF SentPackets, ReceivedPackets
<1>3. CASE task_sixtopNotifSendDone
  <2> DEFINE m == [mac EXCEPT !.sendDoneTasks = @ - 1]
             b == FirstOf(S)
  <2>1. mac.sendDoneTasks > 0 /\ mac' = Take(m, b, "ERR_NO_SENT_PACKET")
    BY <1>3 DEF task_sixtopNotifSendDone, openqueue_sixtopGetSentPacket
  <2>2. /\ m \in Mac /\ m.queue = mac.queue /\ m.ptr = mac.ptr /\ m.critical = mac.critical
        /\ m.sendDoneTasks = mac.sendDoneTasks - 1 /\ m.receiveTasks = mac.receiveTasks
    BY <1>1, <2>1 DEF Mac
  <2>. HIDE DEF m
  <2>3. CASE S = {}
    <3>1. mac' = [m EXCEPT !.critical = @ \cup {"ERR_NO_SENT_PACKET"}]
      BY <2>1, <2>3 DEF Take, FirstOf
    <3>2. /\ mac'.queue = mac.queue /\ mac'.ptr = mac.ptr /\ mac' \in Mac
          /\ mac'.sendDoneTasks = mac.sendDoneTasks - 1 /\ mac'.receiveTasks = mac.receiveTasks
      BY <2>2, <3>1 DEF Mac, CriticalError
    <3>3. Link!FetchSent
      BY <2>1, <2>3, <3>2 DEF Link!FetchSent
    <3>4. Linked(mac')
      BY <3>2, TaskLinked
    <3>5. ~Faultless
      <4>1. Cardinality(S) = 0
        BY <2>3, FS_EmptySet
      <4>. QED BY <2>1, <4>1 DEF LinkInv, Exact
    <3>. QED BY <3>3, <3>4, <3>5 DEF LinkStep, Linking
  <2>4. CASE S # {}
    <3>1. b \in S
      BY <1>2, <2>4, FirstOfProperties
    <3>2. b \in Buffer /\ mac.queue[b].owner = COMPONENT_IEEE802154E_TO_SIXTOP /\ b \notin R
      BY <3>1 DEF SentPackets, ReceivedPackets
    <3>. HIDE DEF b
    <3>3. /\ Linked(mac') /\ mac'.critical = mac.critical
          /\ mac'.sendDoneTasks = m.sendDoneTasks /\ mac'.receiveTasks = m.receiveTasks
          /\ mac'.ptr = mac.ptr
          /\ Waiting(mac'.queue) = Waiting(mac.queue)
          /\ SentPackets(mac'.queue) = S \ {b}
          /\ ReceivedPackets(mac'.queue) = R \ {b}
      BY <2>1, <2>2, <3>2, TakesLinks
    <3>4. Link!FetchSent
      BY <2>1, <2>2, <3>1, <3>2, <3>3 DEF Link!FetchSent
    <3>. QED BY <1>1, <3>3, <3>4 DEF LinkStep, Linking
  <2>. QED BY <2>3, <2>4
<1>4. CASE task_sixtopNotifReceive
  <2> DEFINE m == [mac EXCEPT !.receiveTasks = @ - 1]
             b == FirstOf(R)
  <2>1. mac.receiveTasks > 0 /\ mac' = Take(m, b, "ERR_NO_RECEIVED_PACKET")
    BY <1>4 DEF task_sixtopNotifReceive, openqueue_sixtopGetReceivedPacket
  <2>2. /\ m \in Mac /\ m.queue = mac.queue /\ m.ptr = mac.ptr /\ m.critical = mac.critical
        /\ m.sendDoneTasks = mac.sendDoneTasks /\ m.receiveTasks = mac.receiveTasks - 1
    BY <1>1, <2>1 DEF Mac
  <2>. HIDE DEF m
  <2>3. R # {}
    BY <2>1, FS_EmptySet DEF LinkInv, NoPacketStranded
  <2>4. b \in R
    BY <1>2, <2>3, FirstOfProperties
  <2>5. b \in Buffer /\ mac.queue[b].owner = COMPONENT_IEEE802154E_TO_SIXTOP /\ b \notin S
    BY <2>4 DEF SentPackets, ReceivedPackets
  <2>. HIDE DEF b
  <2>6. /\ Linked(mac') /\ mac'.critical = mac.critical
        /\ mac'.sendDoneTasks = m.sendDoneTasks /\ mac'.receiveTasks = m.receiveTasks
        /\ mac'.ptr = mac.ptr
        /\ Waiting(mac'.queue) = Waiting(mac.queue)
        /\ SentPackets(mac'.queue) = S \ {b}
        /\ ReceivedPackets(mac'.queue) = R \ {b}
    BY <2>1, <2>2, <2>5, TakesLinks
  <2>7. Link!FetchReceived
    BY <2>1, <2>2, <2>4, <2>5, <2>6 DEF Link!FetchReceived
  <2>. QED BY <1>1, <2>6, <2>7 DEF LinkStep, Linking
<1>. QED BY <1>3, <1>4 DEF Notified


\* A reset of the board leaves the service with nothing.
LEMMA NothingLinks ==
    /\ Waiting(InitialMac.queue) = {} /\ InitialMac.ptr["dataToSend"] = NoBuffer
    /\ SentPackets(InitialMac.queue) = {} /\ ReceivedPackets(InitialMac.queue) = {}
    /\ InitialMac.sendDoneTasks = 0 /\ InitialMac.receiveTasks = 0
    /\ InitialMac.critical = {} /\ Linked(InitialMac)
<1>1. /\ InitialMac.queue = openqueue_init /\ InitialMac.ptr = NoPointers
      /\ InitialMac.sendDoneTasks = 0 /\ InitialMac.receiveTasks = 0
      /\ InitialMac.critical = {}
  BY DEF InitialMac
<1>2. \A b \in Buffer : openqueue_init[b].owner = COMPONENT_NULL
  BY DEF openqueue_init, ResetEntry
<1>3. \A p \in Pointer : NoPointers[p] = NoBuffer
  BY DEF NoPointers
<1>4. /\ Waiting(openqueue_init) = {} /\ SentPackets(openqueue_init) = {}
      /\ ReceivedPackets(openqueue_init) = {}
  BY <1>2 DEF Waiting, SentPackets, ReceivedPackets
<1>5. InitialMac.ptr["dataToSend"] = NoBuffer
  BY <1>1, <1>3 DEF Pointer
<1>6. Linked(InitialMac)
  BY <1>1, <1>3, <1>4, FreshMac DEF Linked
<1>. QED BY <1>1, <1>4, <1>5, <1>6

LEMMA ResetLinks ==
    ASSUME BoardReset PROVE LinkStep
<1>1. mac' = InitialMac
  BY DEF BoardReset
<1>2. Link!LinkReset
  BY <1>1, NothingLinks DEF Link!LinkReset
<1>. QED BY <1>1, <1>2, NothingLinks DEF LinkStep, Linking

LEMMA TaskLinks ==
    ASSUME LinkInv, Task PROVE LinkStep
<1>1. ASSUME NEW creator \in TaskCreator, TaskAllocates(creator) \/ TaskRemoves(creator)
      PROVE  LinkStep
  BY <1>1, AllocatesLinks, RemovesLinks
<1>2. ASSUME NEW b \in Buffer, NEW to \in Address, NEW message \in SixMessage,
             sixtop_send_internal(b, to, message)
      PROVE  LinkStep
  BY <1>2, SendsLinks
<1>3. ASSUME NEW b \in Buffer, TaskFrees(b) PROVE LinkStep
  BY <1>3, FreesLinks
<1>4. CASE AddsAutoTxCell \/ RoleChanges
  BY <1>4, LinkUnchanged DEF AddsAutoTxCell, RoleChanges
<1>5. ASSUME NEW n \in Neighbor,
             AddsNegotiatedCell(n) \/ RemovesNegotiatedCell(n) \/ RemovesAutoTxCell(n)
      PROVE  LinkStep
  BY <1>5, LinkUnchanged DEF AddsNegotiatedCell, RemovesNegotiatedCell, RemovesAutoTxCell
<1>6. ASSUME NEW n \in Neighbor, ChangesParent(n) PROVE LinkStep
  BY <1>6, ParentLinks
<1>7. CASE Notified
  BY <1>7, FetchesLink
<1>. QED BY <1>1, <1>2, <1>3, <1>4, <1>5, <1>6, <1>7 DEF Task

-----------------------------------------------------------------------------
(* The service, and what it gives *)

LEMMA LinkStepHolds ==
    LinkInv /\ [Next]_<<vars, trouble>> => LinkStep
<1>. SUFFICES ASSUME LinkInv, [Next]_<<vars, trouble>> PROVE LinkStep
  OBVIOUS
<1>1. CASE UNCHANGED <<vars, trouble>>
  BY <1>1, LinkUnchanged DEF vars
<1>2. CASE Interrupt
  BY <1>2, NewSlotLinks, TimerLinks, StartLinks, EndLinks DEF Interrupt
<1>3. CASE Radio
  BY <1>3, LinkUnchanged DEF Radio, RadioStarts, RadioEnds
<1>4. CASE Task
  BY <1>4, TaskLinks
<1>5. CASE BoardReset
  BY <1>5, ResetLinks
<1>. QED BY <1>1, <1>2, <1>3, <1>4, <1>5 DEF Next

LEMMA LinkInitHolds == Init => LinkInv /\ Link!LinkInit
<1>. SUFFICES ASSUME Init PROVE LinkInv /\ Link!LinkInit
  OBVIOUS
<1>1. mac = InitialMac
  BY DEF Init
<1>2. Link!LinkInit
  BY <1>1, NothingLinks DEF Link!LinkInit
<1>3. NoPacketStranded /\ Exact
  BY <1>1, NothingLinks, FS_EmptySet DEF NoPacketStranded, Exact
<1>. QED BY <1>1, <1>2, <1>3, InitHolds, NothingLinks DEF LinkInv

LEMMA LinkInvNext == LinkInv /\ [Next]_<<vars, trouble>> => LinkInv'
<1>. SUFFICES ASSUME LinkInv, [Next]_<<vars, trouble>> PROVE LinkInv'
  OBVIOUS
<1>1. LinkStep
  BY LinkStepHolds
<1>2. Inv'
  BY StepHolds DEF LinkInv, Preserved
<1>3. Linked(mac')
  BY <1>1 DEF LinkStep
<1>4. /\ NoPacketStranded'
      /\ Faultless => Cardinality(SentPackets(mac'.queue)) = mac'.sendDoneTasks
  BY <1>1, ReportsKept DEF LinkStep
<1>5. trouble' = trouble
  BY DEF Next
<1>6. Faultless' <=> Faultless
  BY <1>5 DEF Faultless, CryptoMayFail, TasksRemove
<1>7. Exact'
  BY <1>1, <1>4, <1>6 DEF Exact, LinkStep
<1>. QED BY <1>2, <1>3, <1>4, <1>7 DEF LinkInv

\* LinkInv is an inductive invariant.
THEOREM LinkInvHolds == Spec => []LinkInv
<1>1. Init => LinkInv
  BY LinkInitHolds
<1>. QED BY <1>1, LinkInvNext, PTL DEF Spec

\* Every packet given back to sixtop has a task that will fetch it, and every
\* frame delivered has one: no handler frees a packet after it scheduled the
\* task, and none gives a packet back without one.
THEOREM MacNoPacketStranded == Spec => []NoPacketStranded
<1>1. LinkInv => NoPacketStranded
  BY DEF LinkInv
<1>. QED BY <1>1, LinkInvHolds, PTL

\* The MAC is a link service: it transmits one packet at a time, gives it back
\* once with one report, and delivers a frame once with one report, through
\* retries, aborted slots, lost synchronization and resets of the board.
THEOREM MacImplementsLink == Spec => ImplementsLink
<1>1. Init => Link!LinkInit
  BY LinkInitHolds
<1>2. LinkInv /\ [Next]_<<vars, trouble>> => [Link!LinkNext]_(Link!linkVars)
  <2>1. ASSUME Linking PROVE [Link!LinkNext]_(Link!linkVars)
    BY <2>1 DEF Linking, Link!LinkNext
  <2>. QED BY <2>1, LinkStepHolds DEF LinkStep
<1>. QED BY <1>1, <1>2, LinkInvHolds, PTL DEF Spec, ImplementsLink, Link!LinkSpec

\* Unless securing a frame fails or a task removes packets that were given
\* back, the board is never reset: no buffer is freed twice, no notification
\* finds nothing to fetch.
THEOREM MacNoCriticalError ==
    ASSUME \A t \in Trouble : "crypto" \notin t /\ "remove" \notin t
    PROVE  Spec => []NoCriticalError
<1>1. LinkInv => NoCriticalError
  <2>. SUFFICES ASSUME LinkInv PROVE NoCriticalError
    OBVIOUS
  <2>1. trouble \in Trouble
    BY InvFacts DEF LinkInv, Typed
  <2>2. Faultless
    BY <2>1 DEF Faultless, CryptoMayFail, TasksRemove
  <2>. QED BY <2>2, LinkFacts DEF NoCriticalError
<1>. QED BY <1>1, LinkInvHolds, PTL
=============================================================================
