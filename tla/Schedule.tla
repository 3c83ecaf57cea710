------------------------------ MODULE Schedule -------------------------------
(***************************************************************************)
(* The TSCH schedule (openstack/02b-MAChigh/schedule.c) between the MAC that *)
(* walks it, slot after slot, and the tasks that change it.                  *)
(*                                                                          *)
(* The active slots are a circular list, in the order of their offsets,      *)
(* threaded through an array of containers; a container has backup entries   *)
(* for further cells of its slot, and the cell with the highest priority is  *)
(* the one in the schedule.  The MAC (IEEE802154E.c) only ever compares the  *)
(* offset of the slot with that of the successor of the current entry.       *)
(*                                                                          *)
(* Every schedule_ function disables interrupts, so that each call is one    *)
(* step; a task that calls several is not atomic, and only the loop of       *)
(* schedule_removeAllNegotiatedCellsToNeighbor is long enough to matter.     *)
(* Channels, statistics and backoff are left out.                            *)
(***************************************************************************)
EXTENDS Integers, FiniteSets

CONSTANTS
    MAXACTIVESLOTS,    \* the containers of the schedule
    MAXBACKUPSLOTS,    \* the backup entries of a container
    SLOTFRAME_LENGTH,  \* slots in the slotframe
    Neighbor,          \* the neighbors
    Hash,              \* msf_hashFunction_getSlotoffset, of the neighbors
    MyHash,            \* and of this node
    BootsAsDAGroot,    \* the role
    MaxTransactions    \* bound on the 6P transactions under way

ASSUME SizeAssumption ==
    /\ MAXACTIVESLOTS \in Nat \ {0, 1}
    /\ MAXBACKUPSLOTS \in Nat \ {0}
    /\ SLOTFRAME_LENGTH \in Nat \ {0, 1}
    /\ MaxTransactions \in Nat
ASSUME RoleAssumption == BootsAsDAGroot \in BOOLEAN

Container == 1..MAXACTIVESLOTS
NULL      == 0
Backup    == 1..MAXBACKUPSLOTS
Offset    == 0..(SLOTFRAME_LENGTH - 1)
NoOffset  == SLOTFRAME_LENGTH

\* The hash spares the minimal slot: 1 + moteId % (SLOTFRAME_LENGTH - 1).
ASSUME HashAssumption == Hash \in [Neighbor -> Offset \ {0}] /\ MyHash \in Offset \ {0}

ADDR_NONE    == "none"
ADDR_ANYCAST == "anycast"
Address      == Neighbor \cup {ADDR_NONE, ADDR_ANYCAST}
ASSUME NeighborAssumption == Neighbor \cap {ADDR_NONE, ADDR_ANYCAST} = {}

CellType == {"OFF", "TX", "RX", "TXRX"}
Cell     == [type : CellType, shared : BOOLEAN, isAutoCell : BOOLEAN, neighbor : Address]

OffCell == [type |-> "OFF", shared |-> FALSE, isAutoCell |-> FALSE, neighbor |-> ADDR_NONE]

MinimalCell == [type |-> "TXRX", shared |-> TRUE, isAutoCell |-> FALSE, neighbor |-> ADDR_ANYCAST]
AutoRxCell  == [type |-> "RX", shared |-> FALSE, isAutoCell |-> TRUE, neighbor |-> ADDR_ANYCAST]
AutoTxCell(n)        == [type |-> "TX", shared |-> TRUE, isAutoCell |-> TRUE, neighbor |-> n]
NegotiatedCell(n, t) == [type |-> t, shared |-> FALSE, isAutoCell |-> FALSE, neighbor |-> n]

VARIABLES
    schedule,      \* the containers and currentScheduleEntry
    frameLength,   \* schedule_vars.frameLength, 0 until it is set
    isSync,        \* ieee154e_vars.isSync
    slotOffset,    \* ieee154e_vars.slotOffset
    inUse,         \* the cell of the active slot that is going on, or OffCell
    packets,       \* the neighbors a unicast packet waits for
    transactions,  \* 6P transactions agreed on, whose cells are not changed yet
    clearing,      \* the loop over the cells of a neighbor, between two calls
    critical       \* a critical error was logged: the board will be reset

vars == <<schedule, frameLength, isSync, slotOffset, inUse, packets,
          transactions, clearing, critical>>

Schedules == [offset  : [Container -> Offset],
              cell    : [Container -> Cell],
              backup  : [Container -> [Backup -> Cell]],
              next    : [Container -> Container \cup {NULL}],
              current : Container \cup {NULL}]

-----------------------------------------------------------------------------
(* The functions of schedule.c, on a schedule s *)

schedule_init ==
    [offset |-> [k \in Container |-> 0], cell |-> [k \in Container |-> OffCell],
     backup |-> [k \in Container |-> [i \in Backup |-> OffCell]],
     next |-> [k \in Container |-> NULL], current |-> NULL]

Active(s) == {k \in Container : s.cell[k].type # "OFF"}

FreeBackups(s, k) == {i \in Backup : s.backup[k][i].type = "OFF"}

First(S) == CHOOSE k \in S : \A l \in S : k <= l
Last(S)  == CHOOSE k \in S : \A l \in S : k >= l

\* autoTx -> autoRx -> negotiated: the new cell c takes the place of d.
Outranks(c, d) == c.isAutoCell /\ (d.isAutoCell => d.type = "RX" /\ c.type = "TX")

\* Mutant: the cell goes to the backup entries, whatever its priority.
AddBackup_NeverSwaps(s, k, c) == [s EXCEPT !.backup[k][First(FreeBackups(s, k))] = c]

AddBackup(s, k, c) ==
    LET i == First(FreeBackups(s, k))
    IN  IF Outranks(c, s.cell[k])
        THEN [s EXCEPT !.cell[k] = c, !.backup[k][i] = s.cell[k]]
        ELSE [s EXCEPT !.backup[k][i] = c]

\* The position the walk of the list stops at: p is followed by the new slot.
FitsAfter(s, p, o) ==
    LET this == s.offset[p]
        that == s.offset[s.next[p]]
    IN  \/ this < o /\ o < that
        \/ this < o /\ that <= this
        \/ o < that /\ that <= this

\* "slot is already in schedule": the container is reset, but for isAutoCell.
Duplicate(s, k, c) == [s EXCEPT !.cell[k] = [OffCell EXCEPT !.isAutoCell = c.isAutoCell],
                                !.offset[k] = 0]

Insert(s, k, o, c) ==
    LET filled == [s EXCEPT !.offset[k] = o, !.cell[k] = c]
    IN  IF s.current = NULL
        THEN [filled EXCEPT !.next[k] = k, !.current = k]
        ELSE IF \E p \in Active(s) : FitsAfter(s, p, o)
             THEN LET p == CHOOSE p \in Active(s) : FitsAfter(s, p, o)
                  IN  [filled EXCEPT !.next[k] = s.next[p], !.next[p] = k]
             ELSE Duplicate(s, k, c)

\* A container that is off, or one of the same slot with a free backup entry,
\* whichever comes first.
Usable(s, o) ==
    {k \in Container : \/ k \notin Active(s)
                       \/ s.offset[k] = o /\ FreeBackups(s, k) # {}}

schedule_addActiveSlot(s, o, c) ==
    IF Usable(s, o) = {} THEN s    \* ERR_SCHEDULE_OVERFLOWN
    ELSE LET k == First(Usable(s, o))
         IN  IF k \in Active(s) THEN AddBackup(s, k, c) ELSE Insert(s, k, o, c)

\* The backup entry the removal of cell c looks for, in container k.
Named(s, k, c) ==
    {i \in Backup : /\ s.backup[k][i].neighbor = c.neighbor
                    /\ s.backup[k][i].type = c.type
                    /\ s.backup[k][i].shared = c.shared}

Matching(s, o, c) ==
    {k \in Container : /\ s.offset[k] = o
                       /\ s.cell[k].neighbor = c.neighbor \/ Named(s, k, c) # {}}

\* The backup entry is reset, but for isAutoCell.
RemoveBackup(s, k, i) ==
    [s EXCEPT !.backup[k][i] = [OffCell EXCEPT !.isAutoCell = s.backup[k][i].isAutoCell]]

\* The first autonomous Tx cell or, without one, the last cell.
Candidate(s, k) ==
    LET used   == Backup \ FreeBackups(s, k)
        autoTx == {i \in used : s.backup[k][i].isAutoCell /\ s.backup[k][i].type = "TX"}
    IN  IF autoTx # {} THEN First(autoTx) ELSE Last(used)

Promote(s, k) ==
    LET i == Candidate(s, k)
    IN  [s EXCEPT !.cell[k] = s.backup[k][i], !.backup[k][i] = OffCell]

\* Mutant: the current entry becomes the one after the removed entry.
Unlink_MovesOn(s, k) ==
    LET reset == [s EXCEPT !.offset[k] = 0, !.cell[k] = OffCell]
    IN  IF s.next[k] = k THEN [reset EXCEPT !.next[k] = NULL, !.current = NULL]
        ELSE LET p == CHOOSE p \in Active(s) : s.next[p] = k
             IN  [reset EXCEPT !.next[p] = s.next[k], !.next[k] = NULL,
                               !.current = IF @ = k THEN s.next[k] ELSE @]

\* Mutant: the current entry remains the removed entry.
Unlink_KeepsCurrent(s, k) ==
    LET reset == [s EXCEPT !.offset[k] = 0, !.cell[k] = OffCell]
    IN  IF s.next[k] = k THEN [reset EXCEPT !.next[k] = NULL, !.current = NULL]
        ELSE LET p == CHOOSE p \in Active(s) : s.next[p] = k
             IN  [reset EXCEPT !.next[p] = s.next[k], !.next[k] = NULL]

Unlink(s, k) ==
    LET reset == [s EXCEPT !.offset[k] = 0, !.cell[k] = OffCell]
    IN  IF s.next[k] = k THEN [reset EXCEPT !.next[k] = NULL, !.current = NULL]
        ELSE LET p == CHOOSE p \in Active(s) : s.next[p] = k
             IN  [reset EXCEPT !.next[p] = s.next[k], !.next[k] = NULL,
                               !.current = IF @ = k THEN p ELSE @]

Removable(s, o, c) == Matching(s, o, c) # {}

\* Mutant: the slot goes with its entry, backup entries or not.
removeActiveSlot_NoPromotion(s, o, c) ==
    IF ~Removable(s, o, c) THEN s
    ELSE LET k == First(Matching(s, o, c))
         IN  IF s.cell[k].neighbor # c.neighbor THEN RemoveBackup(s, k, First(Named(s, k, c)))
             ELSE Unlink(s, k)

schedule_removeActiveSlot(s, o, c) ==
    IF ~Removable(s, o, c) THEN s    \* ERR_FREEING_ERROR, a critical error
    ELSE LET k == First(Matching(s, o, c))
         IN  IF s.cell[k].neighbor # c.neighbor THEN RemoveBackup(s, k, First(Named(s, k, c)))
             ELSE IF FreeBackups(s, k) # Backup THEN Promote(s, k)
             ELSE Unlink(s, k)

schedule_isSlotOffsetAvailable(s, o) ==
    o < frameLength /\ \A k \in Active(s) : s.offset[k] # o

\* These two only look at the cells in the schedule, not at the backup cells.
schedule_hasAutoTxCellToNeighbor(s, n) ==
    \E k \in Container : s.cell[k].shared /\ s.cell[k].type = "TX" /\ s.cell[k].neighbor = n

schedule_hasNegotiatedCellToNeighbor(s, n, t) ==
    \E k \in Container : ~s.cell[k].shared /\ s.cell[k].type = t /\ s.cell[k].neighbor = n

\* The entry of slot o becomes the current one; without it the loop never ends.
schedule_syncSlotOffset(s, o) ==
    [s EXCEPT !.current = CHOOSE k \in Active(s) : s.offset[k] = o]

-----------------------------------------------------------------------------
Idle == [neighbor |-> ADDR_NONE, at |-> NULL, found |-> FALSE]

\* One cell at most is deleted, and one added (NUMCELLS_MSF).
Transaction == [neighbor : Neighbor, type : {"TX", "RX"},
                delete : Offset \cup {NoOffset}, add : Offset \cup {NoOffset}]

\* schedule_init and msf_init; the root has its slotframe from the start.
InitialSchedule ==
    schedule_addActiveSlot(
        IF BootsAsDAGroot THEN schedule_addActiveSlot(schedule_init, 0, MinimalCell)
                          ELSE schedule_init,
        MyHash, AutoRxCell)

Init ==
    /\ schedule = InitialSchedule
    /\ frameLength = IF BootsAsDAGroot THEN SLOTFRAME_LENGTH ELSE 0
    /\ isSync = BootsAsDAGroot
    /\ slotOffset = 0
    /\ inUse = OffCell
    /\ packets = {}
    /\ transactions = {}
    /\ clearing = Idle
    /\ critical = FALSE

-----------------------------------------------------------------------------
(* The MAC *)

NextEntry == schedule.next[schedule.current]

NoSlot == inUse = OffCell

\* The end of a slot, on the schedule s reached in it: the autonomous Tx cell
\* of this slot goes when no packet waits for its neighbor.
endSlot(s, waiting, now) ==
    LET c == s.cell[s.current]
    IN  schedule' = IF /\ s.offset[s.current] = now
                       /\ c.isAutoCell /\ c.type = "TX"
                       /\ c.neighbor \notin waiting
                    THEN schedule_removeActiveSlot(s, now, AutoTxCell(c.neighbor))
                    ELSE s

\* A beacon: it sets the slotframe if none is set, and it came in the minimal
\* slot, to which the schedule advances.
Synchronize ==
    /\ ~isSync /\ NoSlot
    /\ frameLength' = SLOTFRAME_LENGTH
    /\ LET s == IF frameLength = 0 THEN schedule_addActiveSlot(schedule, 0, MinimalCell)
                ELSE schedule
       IN  schedule' = schedule_syncSlotOffset(s, 0)
    /\ isSync' = TRUE
    /\ slotOffset' = 0
    /\ UNCHANGED <<inUse, packets, transactions, clearing, critical>>

NewSlot == (slotOffset + 1) % SLOTFRAME_LENGTH

Desynchronize ==
    /\ isSync /\ NoSlot /\ ~BootsAsDAGroot
    /\ isSync' = FALSE
    /\ slotOffset' = NewSlot
    /\ endSlot(schedule, packets, NewSlot)
    /\ UNCHANGED <<frameLength, inUse, packets, transactions, clearing, critical>>

\* "this is NOT the next active slot, abort".
InactiveSlot ==
    /\ isSync /\ NoSlot
    /\ schedule.offset[NextEntry] # NewSlot
    /\ slotOffset' = NewSlot
    /\ endSlot(schedule, packets, NewSlot)
    /\ UNCHANGED <<frameLength, isSync, inUse, packets, transactions, clearing, critical>>

schedule_advanceSlot == [schedule EXCEPT !.current = NextEntry]

\* Mutant: the schedule is not advanced to a Tx cell without a packet.
ActiveSlot_AdvancesLate ==
    /\ isSync /\ NoSlot
    /\ schedule.offset[NextEntry] = NewSlot
    /\ slotOffset' = NewSlot
    /\ LET c == schedule.cell[NextEntry]
       IN  IF c.type = "TX" /\ c.neighbor \notin packets
           THEN UNCHANGED inUse /\ endSlot(schedule, packets, NewSlot)
           ELSE inUse' = c /\ schedule' = schedule_advanceSlot
    /\ UNCHANGED <<frameLength, isSync, packets, transactions, clearing, critical>>

\* The slot of the next entry; a Tx cell without a packet ends at once.
ActiveSlot ==
    /\ isSync /\ NoSlot
    /\ schedule.offset[NextEntry] = NewSlot
    /\ slotOffset' = NewSlot
    /\ LET c == schedule.cell[NextEntry]
       IN  IF c.type = "TX" /\ c.neighbor \notin packets
           THEN UNCHANGED inUse /\ endSlot(schedule_advanceSlot, packets, NewSlot)
           ELSE inUse' = c /\ schedule' = schedule_advanceSlot
    /\ UNCHANGED <<frameLength, isSync, packets, transactions, clearing, critical>>

\* The packets to the neighbor of a Tx cell may be gone after it.
EndActiveSlot ==
    /\ ~NoSlot
    /\ inUse' = OffCell
    /\ packets' \in {packets, packets \ (IF inUse.type = "TX" THEN {inUse.neighbor} ELSE {})}
    /\ endSlot(schedule, packets', slotOffset)
    /\ UNCHANGED <<frameLength, isSync, slotOffset, transactions, clearing, critical>>

-----------------------------------------------------------------------------
(* The tasks *)

NoTask == clearing = Idle

\* A unicast packet for n: its autonomous cell is added unless there is a cell.
\* Without a first synchronization no task is given a buffer for a packet.
sixtop_send_internal(n) ==
    /\ NoTask /\ frameLength # 0
    /\ packets' = packets \cup {n}
    /\ schedule' =
        IF \/ schedule_hasNegotiatedCellToNeighbor(schedule, n, "TX")
           \/ schedule_hasAutoTxCellToNeighbor(schedule, n)
        THEN schedule
        ELSE schedule_addActiveSlot(schedule, Hash[n], AutoTxCell(n))
    /\ UNCHANGED <<frameLength, isSync, slotOffset, inUse, transactions, clearing, critical>>

\* The negotiated cells of type t to neighbor n, which it has too.
NegotiatedSlots(n, t) ==
    {schedule.offset[k] : k \in
        {k \in Active(schedule) :
            /\ schedule.cell[k].type = t
            /\ \/ schedule.cell[k] = NegotiatedCell(n, t)
               \/ \E i \in Backup : schedule.backup[k][i] = NegotiatedCell(n, t)}}

\* A transaction of ADD, DELETE or RELOCATE comes to an agreement: the slot to
\* add is available and the cell to delete there, now.
Agree ==
    /\ NoTask
    /\ Cardinality(transactions) < MaxTransactions
    /\ \E t \in Transaction :
        /\ t.delete # NoOffset \/ t.add # NoOffset
        /\ t.delete # NoOffset => t.delete \in NegotiatedSlots(t.neighbor, t.type)
        /\ t.add # NoOffset => schedule_isSlotOffsetAvailable(schedule, t.add)
        /\ transactions' = transactions \cup {t}
    /\ UNCHANGED <<schedule, frameLength, isSync, slotOffset, inUse, packets, clearing, critical>>

\* sixtop_removeCells, then sixtop_addCells, when the response came or was sent.
Conclude(t) ==
    LET c == NegotiatedCell(t.neighbor, t.type)
        removed == IF t.delete = NoOffset THEN schedule
                   ELSE schedule_removeActiveSlot(schedule, t.delete, c)
    IN  /\ NoTask
        /\ transactions' = transactions \ {t}
        /\ schedule' = IF t.add = NoOffset THEN removed
                       ELSE schedule_addActiveSlot(removed, t.add, c)
        /\ critical' = (critical \/ (t.delete # NoOffset /\ ~Removable(schedule, t.delete, c)))
        /\ UNCHANGED <<frameLength, isSync, slotOffset, inUse, packets, clearing>>

\* A transaction that times out or fails changes no cell.
GiveUp(t) ==
    /\ NoTask
    /\ transactions' = transactions \ {t}
    /\ UNCHANGED <<schedule, frameLength, isSync, slotOffset, inUse, packets, clearing, critical>>

\* schedule_removeAllNegotiatedCellsToNeighbor: each entry is tested, then
\* removed by a call of its own; the end of a slot may come in between.
ClearStarts(n) ==
    /\ NoTask
    /\ clearing' = [neighbor |-> n, at |-> 1, found |-> FALSE]
    /\ UNCHANGED <<schedule, frameLength, isSync, slotOffset, inUse, packets,
                   transactions, critical>>

\* Mutant: the loop goes on to the entry after the last one.
ClearNext_PastTheEnd == IF clearing.at > MAXACTIVESLOTS THEN Idle
                        ELSE [clearing EXCEPT !.at = @ + 1, !.found = FALSE]

ClearNext == IF clearing.at = MAXACTIVESLOTS THEN Idle
             ELSE [clearing EXCEPT !.at = @ + 1, !.found = FALSE]

ClearTests ==
    /\ ~NoTask /\ ~clearing.found
    /\ LET c == schedule.cell[clearing.at]
       IN  clearing' = IF c.neighbor = clearing.neighbor /\ c.type \in {"TX", "RX"}
                       THEN [clearing EXCEPT !.found = TRUE] ELSE ClearNext
    /\ UNCHANGED <<schedule, frameLength, isSync, slotOffset, inUse, packets,
                   transactions, critical>>

\* The slot, type and sharing of the entry are read again for the call.
ClearRemoves ==
    /\ clearing.found
    /\ LET k == clearing.at
           c == [schedule.cell[k] EXCEPT !.neighbor = clearing.neighbor]
       IN  /\ schedule' = schedule_removeActiveSlot(schedule, schedule.offset[k], c)
           /\ critical' = (critical \/ ~Removable(schedule, schedule.offset[k], c))
    /\ clearing' = ClearNext
    /\ UNCHANGED <<frameLength, isSync, slotOffset, inUse, packets, transactions>>

\* A critical error resets the board.
BoardReset ==
    /\ critical
    /\ schedule' = InitialSchedule
    /\ frameLength' = IF BootsAsDAGroot THEN SLOTFRAME_LENGTH ELSE 0
    /\ isSync' = BootsAsDAGroot
    /\ slotOffset' = 0 /\ inUse' = OffCell /\ packets' = {}
    /\ transactions' = {} /\ clearing' = Idle /\ critical' = FALSE

Mac == Synchronize \/ Desynchronize \/ InactiveSlot \/ ActiveSlot \/ EndActiveSlot

Task ==
    \/ \E n \in Neighbor : sixtop_send_internal(n) \/ ClearStarts(n)
    \/ Agree
    \/ \E t \in transactions : Conclude(t) \/ GiveUp(t)
    \/ ClearTests \/ ClearRemoves

Next == Mac \/ Task \/ BoardReset

Spec == Init /\ [][Next]_vars

FairSpec == Spec /\ WF_vars(Mac)

-----------------------------------------------------------------------------
(* Properties *)

TypeOK ==
    /\ schedule \in Schedules
    /\ frameLength \in {0, SLOTFRAME_LENGTH}
    /\ isSync \in BOOLEAN /\ critical \in BOOLEAN
    /\ slotOffset \in Offset
    /\ inUse \in Cell
    /\ packets \subseteq Neighbor
    /\ transactions \subseteq Transaction
    /\ clearing \in [neighbor : Neighbor \cup {ADDR_NONE}, at : 0..MAXACTIVESLOTS, found : BOOLEAN]

\* The entry after k is the next active slot of the slotframe.
Follows(s, k) ==
    LET n == s.next[k]
    IN  /\ n \in Active(s)
        /\ \/ /\ s.offset[k] < s.offset[n]
              /\ \A l \in Active(s) : s.offset[l] <= s.offset[k] \/ s.offset[n] <= s.offset[l]
           \/ /\ s.offset[n] <= s.offset[k]
              /\ \A l \in Active(s) : s.offset[n] <= s.offset[l] /\ s.offset[l] <= s.offset[k]

\* The list the MAC walks is exactly the active containers, one for each slot,
\* in the order of the slots, and the MAC is on it; a container that is off is
\* off the list and hides no cell.  The loops that search the list end.
RingOfSlots ==
    LET s == schedule
    IN  /\ s.current \in Active(s)
        /\ \A k, l \in Active(s) : s.offset[k] = s.offset[l] => k = l
        /\ \A k \in Active(s) : Follows(s, k)
        /\ \A k \in Container \ Active(s) : s.next[k] = NULL /\ FreeBackups(s, k) = Backup

Priority(c) == IF ~c.isAutoCell THEN 1 ELSE IF c.type = "RX" THEN 2 ELSE 3

\* "the highest priority cell should be in schedule", never in a backup entry,
\* so that an autonomous cell is never hidden by a negotiated one.
HighestPriorityInSchedule ==
    \A k \in Active(schedule) : \A i \in Backup \ FreeBackups(schedule, k) :
        Priority(schedule.backup[k][i]) <= Priority(schedule.cell[k])

\* Whatever is added and removed, the node keeps the minimal cell, where the
\* beacons are, and listens in its own autonomous cell unless it may transmit.
KeepsListening ==
    /\ frameLength # 0 =>
        \E k \in Active(schedule) : schedule.offset[k] = 0 /\ schedule.cell[k] = MinimalCell
    /\ \E k \in Active(schedule) :
        /\ schedule.offset[k] = MyHash
        /\ \/ schedule.cell[k] = AutoRxCell
           \/ /\ \E i \in Backup : schedule.backup[k][i] = AutoRxCell
              /\ \E n \in Neighbor : schedule.cell[k] = AutoTxCell(n)

\* How many slots after now the slot o comes.
After(o, now) == IF o > now THEN o - now ELSE o + SLOTFRAME_LENGTH - now

\* The offset the MAC compares its slots with is that of the next active slot
\* after the present one, as the MAC and the schedule say it is.
NextActiveSlotFound ==
    isSync =>
        \A k \in Active(schedule) :
            After(schedule.offset[NextEntry], slotOffset) <= After(schedule.offset[k], slotOffset)

ActiveSlots(s) == {s.offset[k] : k \in Active(s)}

AddsASlot == ~(ActiveSlots(schedule') \subseteq ActiveSlots(schedule))

\* The MAC stays in step with its schedule: unless a slot is added, no step
\* makes it miss an active slot, not even the removal of the current entry,
\* nor losing and regaining the synchronization.
StaysInStep == [][NextActiveSlotFound /\ ~AddsASlot => NextActiveSlotFound']_vars

\* Every slot that stays in the schedule is served again and again, once no
\* slot is added any more and the node stays synchronized.
EverySlotServed ==
    <>[][~AddsASlot /\ isSync']_vars =>
        \A o \in Offset : <>[](o \in ActiveSlots(schedule))
                            => []<>(schedule.current # NULL /\ schedule.offset[schedule.current] = o)
=============================================================================
