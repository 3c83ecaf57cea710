--------------------------- MODULE Schedule_proofs ---------------------------
(***************************************************************************)
(* The list of the schedule stays a sorted ring of exactly the active slots, *)
(* the highest cell of a slot stays in it, and the node keeps listening, for *)
(* any slotframe, any number of containers and of backup entries, and any    *)
(* neighbors.                                                                *)
(***************************************************************************)
EXTENDS Schedule, WellFoundedInduction, TLAPS

\* What a cell in the schedule may be, by its slot.
AutoTxCells     == {AutoTxCell(n) : n \in Neighbor}
NegotiatedCells == {NegotiatedCell(n, t) : n \in Neighbor, t \in {"TX", "RX"}}

Allowed(o) == IF o = 0 THEN {MinimalCell}
              ELSE IF o = MyHash THEN {AutoRxCell} \cup AutoTxCells
              ELSE AutoTxCells \cup NegotiatedCells

\* A cell that is off has no neighbor; the others are in slots they may be in.
WellPlaced(c, o) == IF c.type = "OFF" THEN c.neighbor = ADDR_NONE ELSE c \in Allowed(o)

Placed(s) ==
    \A k \in Container : /\ WellPlaced(s.cell[k], s.offset[k])
                         /\ \A i \in Backup : WellPlaced(s.backup[k][i], s.offset[k])

\* RingOfSlots and HighestPriorityInSchedule, of any schedule.
Ring(s) ==
    /\ s.current \in Active(s)
    /\ \A k, l \in Active(s) : s.offset[k] = s.offset[l] => k = l
    /\ \A k \in Active(s) : Follows(s, k)
    /\ \A k \in Container \ Active(s) : s.next[k] = NULL /\ FreeBackups(s, k) = Backup

Ordered(s) ==
    \A k \in Active(s) : \A i \in Backup \ FreeBackups(s, k) :
        Priority(s.backup[k][i]) <= Priority(s.cell[k])

Sound(s) == s \in Schedules /\ Ring(s) /\ Placed(s) /\ Ordered(s)

\* Slot o has the cell c, in the schedule or in a backup entry.
HasCell(s, o, c) ==
    \E k \in Active(s) : /\ s.offset[k] = o
                         /\ s.cell[k] = c \/ \E i \in Backup : s.backup[k][i] = c

-----------------------------------------------------------------------------
(* First, last, and the cells *)

LEMMA FirstOne ==
    ASSUME NEW S, S \subseteq Nat, S # {}
    PROVE  First(S) \in S /\ \A l \in S : First(S) <= l
<1>1. PICK k \in S : \A l \in S : <<l, k>> \notin OpToRel(<, Nat)
  BY WFMin, NatLessThanWellFounded
<1>2. ASSUME NEW l \in S PROVE k <= l
  <2>1. <<l, k>> \in Nat \X Nat
    OBVIOUS
  <2>2. ~(l < k)
    BY <1>1, <2>1 DEF OpToRel
  <2>. QED BY <2>2
<1>. QED BY <1>2 DEF First

\* A set of numbers below a bound has a last one.
LEMMA LastExists ==
    ASSUME NEW S, NEW b \in Nat, S \subseteq 0..b, S # {}
    PROVE  \E k \in S : \A l \in S : k >= l
<1> DEFINE T == {b - l : l \in S}
<1>1. T \subseteq Nat /\ T # {}
  OBVIOUS
<1>2. First(T) \in T /\ \A x \in T : First(T) <= x
  BY <1>1, FirstOne
<1>3. PICK k \in S : First(T) = b - k
  BY <1>2
<1>4. ASSUME NEW l \in S PROVE k >= l
  <2>1. b - k <= b - l
    BY <1>2, <1>3
  <2>. QED BY <2>1
<1>. QED BY <1>4

LEMMA LastOne ==
    ASSUME NEW S, NEW b \in Nat, S \subseteq 0..b, S # {}
    PROVE  Last(S) \in S
  BY LastExists DEF Last

\* What the kinds of cells are, without the records.
LEMMA Kinds ==
    /\ OffCell \in Cell /\ OffCell.type = "OFF" /\ OffCell.neighbor = ADDR_NONE
    /\ \A b \in BOOLEAN : [OffCell EXCEPT !.isAutoCell = b] \in Cell
    /\ \A b : [OffCell EXCEPT !.isAutoCell = b].type = "OFF"
    /\ \A b : [OffCell EXCEPT !.isAutoCell = b].neighbor = ADDR_NONE
    /\ MinimalCell \in Cell /\ AutoRxCell \in Cell
    /\ \A n \in Neighbor : AutoTxCell(n) \in Cell
    /\ \A n \in Neighbor, t \in {"TX", "RX"} : NegotiatedCell(n, t) \in Cell
  BY DEF OffCell, MinimalCell, AutoRxCell, AutoTxCell, NegotiatedCell, Cell, CellType, Address

LEMMA Fields ==
    /\ MinimalCell.type = "TXRX" /\ MinimalCell.neighbor = ADDR_ANYCAST /\ ~MinimalCell.isAutoCell
    /\ AutoRxCell.type = "RX" /\ AutoRxCell.neighbor = ADDR_ANYCAST /\ AutoRxCell.isAutoCell
    /\ \A n : AutoTxCell(n).type = "TX" /\ AutoTxCell(n).neighbor = n /\ AutoTxCell(n).isAutoCell
    /\ \A n, t : /\ NegotiatedCell(n, t).type = t /\ NegotiatedCell(n, t).neighbor = n
                 /\ ~NegotiatedCell(n, t).isAutoCell
    /\ ADDR_NONE \notin Neighbor /\ ADDR_ANYCAST \notin Neighbor /\ ADDR_NONE # ADDR_ANYCAST
  BY NeighborAssumption DEF MinimalCell, AutoRxCell, AutoTxCell, NegotiatedCell, ADDR_NONE, ADDR_ANYCAST

\* The four kinds of cells of a schedule; only the first two have no neighbor.
LEMMA AllowedCells ==
    ASSUME NEW o, NEW c \in Allowed(o)
    PROVE  /\ c \in Cell /\ c.type # "OFF"
           /\ o = 0 => c = MinimalCell
           /\ o = MyHash /\ o # 0 => c = AutoRxCell \/ \E n \in Neighbor : c = AutoTxCell(n)
           /\ c.neighbor \in Neighbor \/ c = MinimalCell \/ c = AutoRxCell
           /\ c.isAutoCell => c.type \in {"TX", "RX"}
           /\ c.isAutoCell /\ c.type = "TX" => c.neighbor \in Neighbor
<1>1. \/ c = MinimalCell \/ c = AutoRxCell \/ \E n \in Neighbor : c = AutoTxCell(n)
      \/ \E n \in Neighbor, t \in {"TX", "RX"} : c = NegotiatedCell(n, t)
  BY DEF Allowed, AutoTxCells, NegotiatedCells
<1>2. /\ o = 0 => c = MinimalCell
      /\ o = MyHash /\ o # 0 => c = AutoRxCell \/ \E n \in Neighbor : c = AutoTxCell(n)
  BY DEF Allowed, AutoTxCells
<1>3. CASE c = MinimalCell
  BY <1>2, <1>3, Kinds, Fields
<1>4. CASE c = AutoRxCell
  BY <1>2, <1>4, Kinds, Fields
<1>5. CASE \E n \in Neighbor : c = AutoTxCell(n)
  BY <1>2, <1>5, Kinds, Fields
<1>6. CASE \E n \in Neighbor, t \in {"TX", "RX"} : c = NegotiatedCell(n, t)
  BY <1>2, <1>6, Kinds, Fields
<1>. QED BY <1>1, <1>3, <1>4, <1>5, <1>6

LEMMA Constants ==
    /\ MyHash \in Offset /\ MyHash # 0 /\ 0 \in Offset
    /\ \A n \in Neighbor : Hash[n] \in Offset /\ Hash[n] # 0
    /\ Offset \subseteq Nat /\ Offset \subseteq 0..SLOTFRAME_LENGTH
    /\ SLOTFRAME_LENGTH \in Nat /\ NoOffset \notin Offset
  BY SizeAssumption, HashAssumption DEF Offset, NoOffset

LEMMA Indices ==
    /\ Container \subseteq Nat /\ NULL \notin Container /\ 1 \in Container /\ 2 \in Container
    /\ Backup \subseteq Nat /\ Backup \subseteq 0..MAXBACKUPSLOTS /\ MAXBACKUPSLOTS \in Nat
  BY SizeAssumption DEF Container, NULL, Backup

-----------------------------------------------------------------------------
(* The ring *)

\* The list leaves no active slot out: each has a predecessor, and only one.
LEMMA Predecessor ==
    ASSUME NEW s, Sound(s), NEW k \in Active(s)
    PROVE  \E p \in Active(s) : s.next[p] = k
<1> DEFINE A == Active(s)
           off(l) == s.offset[l]
<1>1. /\ \A l \in A : off(l) \in 0..SLOTFRAME_LENGTH /\ off(l) \in Nat
      /\ \A l, m \in A : off(l) = off(m) => l = m
      /\ \A l \in A : Follows(s, l)
  BY Constants, SizeAssumption DEF Sound, Ring, Schedules, Active, Offset
<1>2. ASSUME NEW S, S \subseteq A, S # {}
      PROVE  \E p \in S : \A l \in S : off(l) <= off(p)
  <2> DEFINE T == {off(l) : l \in S}
  <2>1. T \subseteq 0..SLOTFRAME_LENGTH /\ T # {}
    BY <1>1, <1>2
  <2>2. \E x \in T : \A y \in T : x >= y
    BY <2>1, LastExists, SizeAssumption
  <2>. QED BY <1>1, <1>2, <2>2
<1>3. CASE \E l \in A : off(l) < off(k)
  <2> DEFINE S == {l \in A : off(l) < off(k)}
  <2>1. PICK p \in S : \A l \in S : off(l) <= off(p)
    BY <1>2, <1>3
  <2>2. Follows(s, p)
    BY <1>1
  <2>3. s.next[p] \in A /\ off(s.next[p]) = off(k)
    <3> DEFINE n == s.next[p]
    <3>1. /\ n \in A /\ off(n) \in Nat /\ off(k) \in Nat /\ off(p) \in Nat /\ off(p) < off(k)
          /\ off(n) < off(k) => off(n) <= off(p)
      BY <1>1, <2>1, <2>2 DEF Follows
    <3>2. \/ off(p) < off(n) /\ (off(k) <= off(p) \/ off(n) <= off(k))
          \/ off(k) <= off(p)
      BY <2>2 DEF Follows
    <3>. HIDE DEF off, n
    <3>3. off(n) = off(k)
      BY <3>1, <3>2
    <3>. QED BY <3>1, <3>3 DEF n
  <2>. QED BY <1>1, <2>3
<1>4. CASE \A l \in A : off(k) <= off(l)
  <2>1. PICK p \in A : \A l \in A : off(l) <= off(p)
    BY <1>2
  <2>2. Follows(s, p)
    BY <1>1
  <2>3. s.next[p] \in A /\ off(s.next[p]) = off(k)
    BY <1>1, <1>4, <2>1, <2>2 DEF Follows
  <2>. QED BY <1>1, <2>3
<1>. QED BY <1>1, <1>3, <1>4

LEMMA OnePredecessor ==
    ASSUME NEW s, Sound(s), NEW p \in Active(s), NEW q \in Active(s), s.next[p] = s.next[q]
    PROVE  p = q
<1>1. /\ \A l \in Active(s) : s.offset[l] \in Nat
      /\ \A l, m \in Active(s) : s.offset[l] = s.offset[m] => l = m
      /\ Follows(s, p) /\ Follows(s, q)
  BY Constants DEF Sound, Ring, Schedules, Active
<1>2. s.next[p] \in Active(s) /\ s.next[q] = s.next[p]
  BY <1>1 DEF Follows
<1>3. s.offset[p] = s.offset[q]
  BY <1>1, <1>2 DEF Follows
<1>. QED BY <1>1, <1>3

-----------------------------------------------------------------------------
(* Changes inside a slot, which leave the ring alone *)

\* What a change of the entries of one active slot k has to keep.
ChangesSlot(s, r, k) ==
    /\ r \in Schedules
    /\ r.offset = s.offset /\ r.next = s.next /\ r.current = s.current
    /\ \A l \in Container \ {k} : r.cell[l] = s.cell[l] /\ r.backup[l] = s.backup[l]

\* The cell of a slot and one of its backup entries are assigned, or the latter.
Entries(s, k, c, i, d) == [s EXCEPT !.cell[k] = c, !.backup[k][i] = d]
Entry(s, k, i, d)      == [s EXCEPT !.backup[k][i] = d]

LEMMA Nested ==
    ASSUME NEW b \in [Container -> [Backup -> Cell]], NEW k \in Container, NEW i \in Backup, NEW d \in Cell
    PROVE  [b EXCEPT ![k][i] = d] \in [Container -> [Backup -> Cell]]
<1>1. b[k] \in [Backup -> Cell] /\ [b[k] EXCEPT ![i] = d] \in [Backup -> Cell]
  OBVIOUS
<1>2. [b EXCEPT ![k][i] = d] = [b EXCEPT ![k] = [b[k] EXCEPT ![i] = d]]
  OBVIOUS
<1>. QED BY <1>1, <1>2

LEMMA TwoEntries ==
    ASSUME NEW s \in Schedules, NEW k \in Container, NEW i \in Backup, NEW c \in Cell, NEW d \in Cell,
           NEW r, r = Entries(s, k, c, i, d)
    PROVE  /\ ChangesSlot(s, r, k)
           /\ r.cell[k] = c /\ r.backup[k][i] = d
           /\ \A j \in Backup \ {i} : r.backup[k][j] = s.backup[k][j]
<1>1. s.cell \in [Container -> Cell] /\ s.backup \in [Container -> [Backup -> Cell]]
  BY DEF Schedules, Entries
<1>2. /\ r.offset = s.offset /\ r.next = s.next /\ r.current = s.current
      /\ r.cell = [s.cell EXCEPT ![k] = c]
      /\ r.backup = [s.backup EXCEPT ![k][i] = d]
  BY DEF Schedules, Entries
<1>3. /\ r.cell \in [Container -> Cell] /\ r.backup \in [Container -> [Backup -> Cell]]
  BY <1>1, <1>2, Nested
<1>4. r \in Schedules
  <2>1. r = [s EXCEPT !.cell = [s.cell EXCEPT ![k] = c], !.backup = [s.backup EXCEPT ![k][i] = d]]
    BY DEF Schedules, Entries
  <2>2. r = [s EXCEPT !.cell = r.cell, !.backup = r.backup]
    BY <1>2, <2>1
  <2>. QED BY <1>3, <2>2 DEF Schedules
<1>5. /\ \A l \in Container \ {k} : r.cell[l] = s.cell[l] /\ r.backup[l] = s.backup[l]
      /\ r.cell[k] = c /\ r.backup[k][i] = d
      /\ \A j \in Backup \ {i} : r.backup[k][j] = s.backup[k][j]
  BY <1>1, <1>2
<1>. QED BY <1>2, <1>4, <1>5 DEF ChangesSlot

LEMMA OneEntry ==
    ASSUME NEW s \in Schedules, NEW k \in Container, NEW i \in Backup, NEW d \in Cell,
           NEW r, r = Entry(s, k, i, d)
    PROVE  /\ ChangesSlot(s, r, k)
           /\ r.cell[k] = s.cell[k] /\ r.backup[k][i] = d
           /\ \A j \in Backup \ {i} : r.backup[k][j] = s.backup[k][j]
<1>1. s.cell \in [Container -> Cell] /\ s.backup \in [Container -> [Backup -> Cell]]
  BY DEF Schedules, Entry
<1>2. /\ r.offset = s.offset /\ r.next = s.next /\ r.current = s.current
      /\ r.cell = s.cell
      /\ r.backup = [s.backup EXCEPT ![k][i] = d]
  BY DEF Schedules, Entry
<1>3. r.backup \in [Container -> [Backup -> Cell]]
  BY <1>1, <1>2, Nested
<1>4. r \in Schedules
  <2>1. r = [s EXCEPT !.backup = [s.backup EXCEPT ![k][i] = d]]
    BY DEF Schedules, Entry
  <2>2. r = [s EXCEPT !.backup = r.backup]
    BY <1>2, <2>1
  <2>. QED BY <1>3, <2>2 DEF Schedules
<1>5. /\ \A l \in Container \ {k} : r.cell[l] = s.cell[l] /\ r.backup[l] = s.backup[l]
      /\ r.backup[k][i] = d
      /\ \A j \in Backup \ {i} : r.backup[k][j] = s.backup[k][j]
  BY <1>1, <1>2
<1>. QED BY <1>2, <1>4, <1>5 DEF ChangesSlot
LEMMA SlotChange ==
    ASSUME NEW s, NEW r, NEW k \in Active(s), Sound(s), ChangesSlot(s, r, k),
           r.cell[k] \in Allowed(s.offset[k]),
           \A i \in Backup : WellPlaced(r.backup[k][i], s.offset[k]),
           \A i \in Backup : r.backup[k][i].type # "OFF" =>
                                Priority(r.backup[k][i]) <= Priority(r.cell[k])
    PROVE  Sound(r) /\ Active(r) = Active(s)
<1>1. r.cell[k].type # "OFF" /\ k \in Container
  BY AllowedCells DEF Active
<1>2. Active(r) = Active(s)
  BY <1>1 DEF Active, ChangesSlot
<1>3. \A l \in Container \ {k} : FreeBackups(r, l) = FreeBackups(s, l)
  BY DEF FreeBackups, ChangesSlot
<1>4. Ring(r)
  BY <1>2, <1>3 DEF Sound, Ring, Follows, ChangesSlot
<1>5. Placed(r)
  BY <1>1 DEF Sound, Placed, ChangesSlot, WellPlaced
<1>6. Ordered(r)
  <2>1. ASSUME NEW l \in Active(r), NEW i \in Backup \ FreeBackups(r, l)
        PROVE  Priority(r.backup[l][i]) <= Priority(r.cell[l])
    <3>1. CASE l = k
      BY <2>1, <3>1 DEF FreeBackups
    <3>2. CASE l # k
      BY <1>2, <1>3, <2>1, <3>2 DEF Sound, Ordered, ChangesSlot, Active
    <3>. QED BY <3>1, <3>2
  <2>. QED BY <2>1 DEF Ordered
<1>. QED BY <1>2, <1>4, <1>5, <1>6 DEF Sound, ChangesSlot

\* The active entries are in the array, and typed.
LEMMA ActiveEntry ==
    ASSUME NEW s, Sound(s), NEW k \in Active(s)
    PROVE  /\ k \in Container /\ s.offset[k] \in Offset
           /\ s.cell[k] \in Allowed(s.offset[k])
           /\ \A i \in Backup : WellPlaced(s.backup[k][i], s.offset[k])
           /\ \A i \in Backup \ FreeBackups(s, k) : s.backup[k][i] \in Allowed(s.offset[k])
  BY DEF Sound, Schedules, Active, Placed, WellPlaced, FreeBackups

\* A cell of the slot is still there when each of its entries is.
LEMMA KeepsCell ==
    ASSUME NEW s, NEW r, NEW k \in Active(s), Sound(s), ChangesSlot(s, r, k),
           Active(r) = Active(s), NEW o, NEW d, HasCell(s, o, d),
           s.cell[k] = d => r.cell[k] = d \/ \E i \in Backup : r.backup[k][i] = d,
           \A i \in Backup : s.backup[k][i] = d =>
               r.cell[k] = d \/ \E j \in Backup : r.backup[k][j] = d
    PROVE  HasCell(r, o, d)
<1>1. PICK l \in Active(s) : /\ s.offset[l] = o
                             /\ s.cell[l] = d \/ \E i \in Backup : s.backup[l][i] = d
  BY DEF HasCell
<1>2. CASE l = k
  <2>1. r.cell[k] = d \/ \E i \in Backup : r.backup[k][i] = d
    BY <1>1, <1>2
  <2>. QED BY <1>1, <1>2, <2>1 DEF HasCell, ChangesSlot
<1>3. CASE l # k
  <2>1. r.cell[l] = s.cell[l] /\ r.backup[l] = s.backup[l] /\ r.offset = s.offset
    BY <1>1, <1>3 DEF ChangesSlot, Active
  <2>. QED BY <1>1, <2>1 DEF HasCell
<1>. QED BY <1>2, <1>3

LEMMA AddBackupSound ==
    ASSUME NEW s, Sound(s), NEW k \in Active(s), FreeBackups(s, k) # {},
           NEW c \in Allowed(s.offset[k])
    PROVE  /\ Sound(AddBackup(s, k, c)) /\ Active(AddBackup(s, k, c)) = Active(s)
           /\ AddBackup(s, k, c).offset = s.offset
           /\ \A o, d : HasCell(s, o, d) /\ d.type # "OFF" => HasCell(AddBackup(s, k, c), o, d)
<1> DEFINE i == First(FreeBackups(s, k))
           r == AddBackup(s, k, c)
<1>1. i \in FreeBackups(s, k) /\ i \in Backup /\ s.backup[k][i].type = "OFF"
  BY FirstOne, Indices DEF FreeBackups
<1>2. /\ k \in Container /\ s.offset[k] \in Offset /\ s.cell[k] \in Allowed(s.offset[k])
      /\ \A j \in Backup : WellPlaced(s.backup[k][j], s.offset[k])
  BY ActiveEntry
<1>3. c \in Cell /\ c.type # "OFF" /\ s.cell[k] \in Cell /\ s.cell[k].type # "OFF"
  BY <1>2, AllowedCells
<1>4. \A j \in Backup : s.backup[k][j].type # "OFF" =>
                           Priority(s.backup[k][j]) <= Priority(s.cell[k])
  BY DEF Sound, Ordered, FreeBackups
<1>5. /\ c.isAutoCell => c.type \in {"TX", "RX"}
      /\ s.cell[k].isAutoCell => s.cell[k].type \in {"TX", "RX"}
  BY <1>2, AllowedCells
<1>6. s \in Schedules
  BY DEF Sound
<1>. HIDE DEF i, r
<1>7. CASE Outranks(c, s.cell[k])
  <2>1. r = Entries(s, k, c, i, s.cell[k])
    BY <1>7 DEF AddBackup, Entries, i, r
  <2>2. /\ ChangesSlot(s, r, k)
        /\ r.cell[k] = c /\ r.backup[k][i] = s.cell[k]
        /\ \A j \in Backup \ {i} : r.backup[k][j] = s.backup[k][j]
    BY <1>1, <1>2, <1>3, <1>6, <2>1, TwoEntries
  <2>3. \A j \in Backup : WellPlaced(r.backup[k][j], s.offset[k])
    BY <1>2, <1>3, <2>2 DEF WellPlaced
  <2>4. Priority(s.cell[k]) <= Priority(c)
    BY <1>5, <1>7 DEF Outranks, Priority
  <2>5. \A j \in Backup : r.backup[k][j].type # "OFF" => Priority(r.backup[k][j]) <= Priority(c)
    <3>1. \A d : Priority(d) \in 1..3
      BY DEF Priority
    <3>. QED BY <1>4, <2>2, <2>4, <3>1
  <2>6. Sound(r) /\ Active(r) = Active(s)
    BY <2>2, <2>3, <2>5, SlotChange
  <2>7. ASSUME NEW o, NEW d, HasCell(s, o, d), d.type # "OFF" PROVE HasCell(r, o, d)
    <3>1. \A j \in Backup : s.backup[k][j] = d => j # i
      BY <1>1, <2>7
    <3>2. s.cell[k] = d => \E j \in Backup : r.backup[k][j] = d
      BY <1>1, <2>2
    <3>3. \A j \in Backup : s.backup[k][j] = d => \E l \in Backup : r.backup[k][l] = d
      BY <2>2, <3>1
    <3>. QED BY <2>2, <2>6, <2>7, <3>2, <3>3, KeepsCell
  <2>. QED BY <2>2, <2>6, <2>7 DEF ChangesSlot, r
<1>8. CASE ~Outranks(c, s.cell[k])
  <2>1. r = Entry(s, k, i, c)
    BY <1>8 DEF AddBackup, Entry, i, r
  <2>2. /\ ChangesSlot(s, r, k)
        /\ r.cell[k] = s.cell[k] /\ r.backup[k][i] = c
        /\ \A j \in Backup \ {i} : r.backup[k][j] = s.backup[k][j]
    BY <1>1, <1>2, <1>3, <1>6, <2>1, OneEntry
  <2>3. \A j \in Backup : WellPlaced(r.backup[k][j], s.offset[k])
    BY <1>2, <1>3, <2>2 DEF WellPlaced
  <2>4. Priority(c) <= Priority(s.cell[k])
    BY <1>5, <1>8 DEF Outranks, Priority
  <2>5. \A j \in Backup : r.backup[k][j].type # "OFF" =>
                             Priority(r.backup[k][j]) <= Priority(r.cell[k])
    BY <1>4, <2>2, <2>4
  <2>6. Sound(r) /\ Active(r) = Active(s)
    BY <1>2, <2>2, <2>3, <2>5, SlotChange
  <2>7. ASSUME NEW o, NEW d, HasCell(s, o, d), d.type # "OFF" PROVE HasCell(r, o, d)
    <3>1. \A j \in Backup : s.backup[k][j] = d => j # i
      BY <1>1, <2>7
    <3>3. \A j \in Backup : s.backup[k][j] = d => \E l \in Backup : r.backup[k][l] = d
      BY <2>2, <3>1
    <3>. QED BY <2>2, <2>6, <2>7, <3>3, KeepsCell
  <2>. QED BY <2>2, <2>6, <2>7 DEF ChangesSlot, r
<1>. QED BY <1>7, <1>8 DEF r

-----------------------------------------------------------------------------
(* A new slot *)

\* A container that is off, with its slot and its cell, comes after p.
InsertsAfter(s, r, p, k, o, c) ==
    /\ r \in Schedules
    /\ r.current = s.current /\ r.backup = s.backup
    /\ r.cell[k] = c /\ r.offset[k] = o
    /\ \A l \in Container \ {k} : r.cell[l] = s.cell[l] /\ r.offset[l] = s.offset[l]
    /\ r.next[k] = s.next[p] /\ r.next[p] = k
    /\ \A l \in Container \ {k, p} : r.next[l] = s.next[l]

LEMMA InsertRing ==
    ASSUME NEW s, Sound(s), NEW r, NEW p \in Active(s), NEW k \in Container \ Active(s),
           NEW o \in Offset, NEW c, c.type # "OFF",
           InsertsAfter(s, r, p, k, o, c), FitsAfter(s, p, o)
    PROVE  Ring(r) /\ Active(r) = Active(s) \cup {k}
<1> DEFINE A == Active(s)
           off(l) == s.offset[l]
<1>1. Active(r) = A \cup {k} /\ k \notin A /\ p # k /\ A \subseteq Container
  BY DEF Active, InsertsAfter
<1>2. /\ \A l \in A : off(l) \in Nat /\ r.offset[l] = off(l)
      /\ \A l, m \in A : off(l) = off(m) => l = m
      /\ \A l \in A : Follows(s, l) /\ s.next[l] \in A
      /\ o \in Nat /\ r.offset[k] = o
  BY Constants DEF Sound, Ring, Schedules, Active, InsertsAfter, Follows
<1>3. \A l \in A : l # p => s.next[l] # s.next[p] /\ r.next[l] = s.next[l]
  BY <1>1, OnePredecessor DEF InsertsAfter
<1>4. \A l \in A : off(l) # o
  BY <1>2 DEF FitsAfter, Follows
<1>5. r.next[k] = s.next[p] /\ r.next[p] = k
  BY DEF InsertsAfter
<1>6. Follows(r, p)
  BY <1>1, <1>2, <1>5 DEF FitsAfter, Follows
<1>7. Follows(r, k)
  BY <1>1, <1>2, <1>5 DEF FitsAfter, Follows
<1>8. ASSUME NEW l \in A, l # p PROVE Follows(r, l)
  <2> DEFINE n == s.next[l]
             q == s.next[p]
  <2>1. n \in A /\ q \in A /\ n # q /\ r.next[l] = n /\ off(l) # off(p) /\ off(n) # off(q)
    BY <1>2, <1>3, <1>8
  <2>4. \/ off(p) < o /\ o < off(q) /\ \A m \in A : off(m) <= off(p) \/ off(q) <= off(m)
        \/ off(p) < o /\ \A m \in A : off(m) <= off(p)
        \/ o < off(q) /\ \A m \in A : off(q) <= off(m) /\ off(m) <= off(p)
    BY <1>2 DEF FitsAfter, Follows
  <2>2. CASE off(l) < off(n)
    <3>1. \A m \in A : off(m) <= off(l) \/ off(n) <= off(m)
      BY <1>2, <2>2 DEF Follows
    <3>2. o <= off(l) \/ off(n) <= o
      BY <1>2, <2>1, <2>4, <3>1
    <3>. QED BY <1>1, <1>2, <2>1, <2>2, <3>1, <3>2 DEF Follows
  <2>3. CASE off(n) <= off(l)
    <3>1. \A m \in A : off(n) <= off(m) /\ off(m) <= off(l)
      BY <1>2, <2>3 DEF Follows
    <3>2. off(n) <= o /\ o <= off(l)
      BY <1>2, <2>1, <2>4, <3>1
    <3>. QED BY <1>1, <1>2, <2>1, <2>3, <3>1, <3>2 DEF Follows
  <2>. QED BY <1>2, <2>1, <2>2, <2>3
<1>9. \A l, m \in Active(r) : r.offset[l] = r.offset[m] => l = m
  BY <1>1, <1>2, <1>4
<1>10. \A l \in Container \ Active(r) : r.next[l] = NULL /\ FreeBackups(r, l) = Backup
  BY <1>1 DEF Sound, Ring, InsertsAfter, FreeBackups
<1>11. r.current \in Active(r)
  BY <1>1 DEF Sound, Ring, InsertsAfter
<1>. QED BY <1>1, <1>6, <1>7, <1>8, <1>9, <1>10, <1>11 DEF Ring

LEMMA InsertAfterSound ==
    ASSUME NEW s, Sound(s), NEW r, NEW p \in Active(s), NEW k \in Container \ Active(s),
           NEW o \in Offset, NEW c \in Allowed(o),
           InsertsAfter(s, r, p, k, o, c), FitsAfter(s, p, o)
    PROVE  /\ Sound(r) /\ HasCell(r, o, c)
           /\ \A x, d : HasCell(s, x, d) => HasCell(r, x, d)
<1>1. c \in Cell /\ c.type # "OFF"
  BY AllowedCells
<1>2. Ring(r) /\ Active(r) = Active(s) \cup {k}
  BY <1>1, InsertRing
<1>3. \A i \in Backup : r.backup[k][i].type = "OFF" /\ r.backup[k][i].neighbor = ADDR_NONE
  BY DEF Sound, Ring, FreeBackups, Placed, WellPlaced, InsertsAfter
<1>4. Placed(r)
  <2>1. WellPlaced(r.cell[k], r.offset[k])
    BY <1>1 DEF InsertsAfter, WellPlaced
  <2>2. \A i \in Backup : WellPlaced(r.backup[k][i], r.offset[k])
    BY <1>3 DEF WellPlaced
  <2>. QED BY <2>1, <2>2 DEF Sound, Placed, InsertsAfter
<1>5. Ordered(r)
  BY <1>2, <1>3 DEF Sound, Ordered, InsertsAfter, FreeBackups, Active
<1>6. HasCell(r, o, c)
  BY <1>2 DEF HasCell, InsertsAfter
<1>7. ASSUME NEW x, NEW d, HasCell(s, x, d) PROVE HasCell(r, x, d)
  <2>1. PICK l \in Active(s) : /\ s.offset[l] = x
                               /\ s.cell[l] = d \/ \E i \in Backup : s.backup[l][i] = d
    BY <1>7 DEF HasCell
  <2>2. l \in Container /\ l # k
    BY DEF Active
  <2>. QED BY <1>2, <2>1, <2>2 DEF HasCell, InsertsAfter
<1>. QED BY <1>2, <1>4, <1>5, <1>6, <1>7 DEF Sound, InsertsAfter

\* The assignments of Insert, behind p and without a place.
InsertedAfter(s, p, k, o, c) ==
    [[s EXCEPT !.offset[k] = o, !.cell[k] = c] EXCEPT !.next[k] = s.next[p], !.next[p] = k]

LEMMA InsertedFields ==
    ASSUME NEW s \in Schedules, NEW p \in Container, NEW k \in Container \ {p},
           NEW o \in Offset, NEW c \in Cell, s.next[p] \in Container,
           NEW r, r = InsertedAfter(s, p, k, o, c)
    PROVE  InsertsAfter(s, r, p, k, o, c)
<1>1. /\ s.offset \in [Container -> Offset] /\ s.cell \in [Container -> Cell]
      /\ s.next \in [Container -> Container \cup {NULL}]
  BY DEF Schedules
<1>2. /\ r.current = s.current /\ r.backup = s.backup
      /\ r.offset = [s.offset EXCEPT ![k] = o]
      /\ r.cell = [s.cell EXCEPT ![k] = c]
      /\ r.next = [[s.next EXCEPT ![k] = s.next[p]] EXCEPT ![p] = k]
  BY DEF Schedules, InsertedAfter
<1>3. /\ r.offset \in [Container -> Offset] /\ r.cell \in [Container -> Cell]
      /\ r.next \in [Container -> Container \cup {NULL}]
  BY <1>1, <1>2
<1>4. r \in Schedules
  <2>1. r = [s EXCEPT !.offset = [s.offset EXCEPT ![k] = o], !.cell = [s.cell EXCEPT ![k] = c],
                      !.next = [[s.next EXCEPT ![k] = s.next[p]] EXCEPT ![p] = k]]
    BY DEF Schedules, InsertedAfter
  <2>2. r = [s EXCEPT !.offset = r.offset, !.cell = r.cell, !.next = r.next]
    BY <1>2, <2>1
  <2>. QED BY <1>3, <2>2 DEF Schedules
<1>5. /\ r.cell[k] = c /\ r.offset[k] = o
      /\ \A l \in Container \ {k} : r.cell[l] = s.cell[l] /\ r.offset[l] = s.offset[l]
      /\ r.next[k] = s.next[p] /\ r.next[p] = k
      /\ \A l \in Container \ {k, p} : r.next[l] = s.next[l]
  BY <1>1, <1>2
<1>. QED BY <1>2, <1>4, <1>5 DEF InsertsAfter

LEMMA DuplicateSound ==
    ASSUME NEW s, Sound(s), NEW k \in Container \ Active(s), NEW c \in Cell,
           NEW r, r = Duplicate(s, k, c)
    PROVE  /\ Sound(r) /\ \A x, d : HasCell(s, x, d) => HasCell(r, x, d)
<1> DEFINE off == [OffCell EXCEPT !.isAutoCell = c.isAutoCell]
<1>1. off \in Cell /\ off.type = "OFF" /\ off.neighbor = ADDR_NONE
  BY Kinds DEF Cell
<1>2. /\ s.offset \in [Container -> Offset] /\ s.cell \in [Container -> Cell] /\ s \in Schedules
  BY DEF Sound, Schedules
<1>3. r = [s EXCEPT !.cell[k] = off, !.offset[k] = 0]
  BY DEF Duplicate
<1>. HIDE DEF off
<1>4. /\ r.current = s.current /\ r.backup = s.backup /\ r.next = s.next
      /\ r.cell = [s.cell EXCEPT ![k] = off] /\ r.offset = [s.offset EXCEPT ![k] = 0]
  BY <1>2, <1>3 DEF Schedules
<1>5. r.cell \in [Container -> Cell] /\ r.offset \in [Container -> Offset]
  BY <1>1, <1>2, <1>4, Constants
<1>6. r \in Schedules
  <2>1. r = [s EXCEPT !.cell = [s.cell EXCEPT ![k] = off], !.offset = [s.offset EXCEPT ![k] = 0]]
    BY <1>2, <1>3 DEF Schedules
  <2>2. r = [s EXCEPT !.cell = r.cell, !.offset = r.offset]
    BY <1>4, <2>1
  <2>. QED BY <1>2, <1>5, <2>2 DEF Schedules
<1>7. /\ r.cell[k] = off
      /\ \A l \in Container \ {k} : r.cell[l] = s.cell[l] /\ r.offset[l] = s.offset[l]
  BY <1>2, <1>4
<1>8. Active(r) = Active(s)
  BY <1>1, <1>7 DEF Active
<1>9. \A l \in Active(s) : r.cell[l] = s.cell[l] /\ r.offset[l] = s.offset[l] /\ l \in Container
  BY <1>7 DEF Active
<1>10. Ring(r)
  <2>1. \A l \in Active(r) : Follows(s, l) /\ s.next[l] \in Active(s)
    BY <1>8 DEF Sound, Ring, Follows
  <2>2. \A l \in Active(r) : Follows(r, l)
    BY <1>4, <1>8, <1>9, <2>1 DEF Follows
  <2>. QED BY <1>4, <1>8, <1>9, <2>2 DEF Sound, Ring, FreeBackups
<1>11. Placed(r)
  <2>1. \A i \in Backup : r.backup[k][i].type = "OFF" /\ r.backup[k][i].neighbor = ADDR_NONE
    BY <1>4 DEF Sound, Ring, FreeBackups, Placed, WellPlaced
  <2>. QED BY <1>1, <1>4, <1>7, <2>1 DEF Sound, Placed, WellPlaced
<1>12. Ordered(r)
  BY <1>4, <1>8, <1>9 DEF Sound, Ordered, FreeBackups
<1>13. \A x, d : HasCell(s, x, d) => HasCell(r, x, d)
  BY <1>4, <1>8, <1>9 DEF HasCell
<1>. QED BY <1>6, <1>10, <1>11, <1>12, <1>13 DEF Sound

LEMMA AddSound ==
    ASSUME NEW s, Sound(s), NEW o \in Offset, NEW c \in Allowed(o),
           NEW r, r = schedule_addActiveSlot(s, o, c)
    PROVE  Sound(r) /\ \A x, d : HasCell(s, x, d) /\ d.type # "OFF" => HasCell(r, x, d)
<1>1. CASE Usable(s, o) = {}
  BY <1>1 DEF schedule_addActiveSlot
<1>2. CASE Usable(s, o) # {}
  <2> DEFINE k == First(Usable(s, o))
  <2>1. k \in Usable(s, o) /\ k \in Container
    BY <1>2, FirstOne, Indices DEF Usable
  <2>2. r = IF k \in Active(s) THEN AddBackup(s, k, c) ELSE Insert(s, k, o, c)
    BY <1>2 DEF schedule_addActiveSlot
  <2>. HIDE DEF k
  <2>3. CASE k \in Active(s)
    <3>1. s.offset[k] = o /\ FreeBackups(s, k) # {}
      BY <2>1, <2>3 DEF Usable
    <3>. QED BY <2>2, <2>3, <3>1, AddBackupSound
  <2>4. CASE k \notin Active(s)
    <3>1. s.current # NULL /\ s \in Schedules /\ Active(s) \subseteq Container
      BY Indices DEF Sound, Ring, Active
    <3>2. CASE \E p \in Active(s) : FitsAfter(s, p, o)
      <4> DEFINE p == CHOOSE p \in Active(s) : FitsAfter(s, p, o)
      <4>1. p \in Active(s) /\ FitsAfter(s, p, o)
        BY <3>2
      <4>2. r = InsertedAfter(s, p, k, o, c)
        BY <2>2, <2>4, <3>1, <3>2 DEF Insert, InsertedAfter
      <4>. HIDE DEF p
      <4>3. s.next[p] \in Container /\ c \in Cell
        BY <3>1, <4>1, AllowedCells DEF Sound, Ring, Follows
      <4>4. InsertsAfter(s, r, p, k, o, c)
        BY <2>1, <2>4, <3>1, <4>1, <4>2, <4>3, InsertedFields
      <4>. QED BY <2>1, <2>4, <4>1, <4>4, InsertAfterSound
    <3>3. CASE ~\E p \in Active(s) : FitsAfter(s, p, o)
      <4>1. r = Duplicate(s, k, c) /\ c \in Cell
        BY <2>2, <2>4, <3>1, <3>3, AllowedCells DEF Insert
      <4>. QED BY <2>1, <2>4, <4>1, DuplicateSound
    <3>. QED BY <3>2, <3>3
  <2>. QED BY <2>3, <2>4
<1>. QED BY <1>1, <1>2

\* The first slot of all.
LEMMA AddFirst ==
    ASSUME NEW o \in Offset, NEW c \in Allowed(o),
           NEW r, r = schedule_addActiveSlot(schedule_init, o, c)
    PROVE  Sound(r) /\ HasCell(r, o, c) /\ \A k \in Active(r) : r.offset[k] = o
<1> DEFINE s == schedule_init
           k == First(Usable(s, o))
<1>1. /\ s \in Schedules /\ Active(s) = {} /\ s.current = NULL
      /\ \A l \in Container : s.cell[l] = OffCell /\ s.next[l] = NULL
      /\ \A l \in Container, i \in Backup : s.backup[l][i] = OffCell
  BY Kinds, Constants DEF schedule_init, Schedules, Active
<1>2. Usable(s, o) = Container
  BY <1>1 DEF Usable
<1>3. k \in Container /\ c \in Cell /\ c.type # "OFF"
  BY <1>2, FirstOne, Indices, AllowedCells
<1>4. r = Insert(s, k, o, c)
  BY <1>1, <1>2, <1>3 DEF schedule_addActiveSlot
<1>. HIDE DEF s, k
<1>5. r = [s EXCEPT !.offset[k] = o, !.cell[k] = c, !.next[k] = k, !.current = k]
  BY <1>1, <1>4 DEF Insert, Schedules
<1>6. /\ s.offset \in [Container -> Offset] /\ s.cell \in [Container -> Cell]
      /\ s.next \in [Container -> Container \cup {NULL}]
  BY <1>1 DEF Schedules
<1>7. /\ r.current = k /\ r.backup = s.backup
      /\ r.offset = [s.offset EXCEPT ![k] = o]
      /\ r.cell = [s.cell EXCEPT ![k] = c]
      /\ r.next = [s.next EXCEPT ![k] = k]
  BY <1>1, <1>5 DEF Schedules
<1>8. r \in Schedules
  <2>1. r = [s EXCEPT !.offset = [s.offset EXCEPT ![k] = o], !.cell = [s.cell EXCEPT ![k] = c],
                      !.next = [s.next EXCEPT ![k] = k], !.current = k]
    BY <1>1, <1>5 DEF Schedules
  <2>2. r = [s EXCEPT !.offset = r.offset, !.cell = r.cell, !.next = r.next, !.current = r.current]
    BY <1>7, <2>1
  <2>3. /\ r.offset \in [Container -> Offset] /\ r.cell \in [Container -> Cell]
        /\ r.next \in [Container -> Container \cup {NULL}]
    BY <1>3, <1>6, <1>7
  <2>. QED BY <1>1, <1>3, <1>7, <2>2, <2>3 DEF Schedules
<1>9. /\ r.offset[k] = o /\ r.cell[k] = c /\ r.next[k] = k
      /\ \A l \in Container \ {k} : r.cell[l] = OffCell /\ r.next[l] = NULL
      /\ \A l \in Container, i \in Backup : r.backup[l][i] = OffCell
  BY <1>1, <1>3, <1>6, <1>7
<1>10. Active(r) = {k}
  BY <1>3, <1>9, Kinds DEF Active
<1>11. \A l \in Container : FreeBackups(r, l) = Backup
  BY <1>9, Kinds DEF FreeBackups
<1>12. Ring(r)
  <2>1. o <= o
    BY Constants
  <2>. QED BY <1>3, <1>7, <1>9, <1>10, <1>11, <2>1 DEF Ring, Follows
<1>13. Placed(r)
  BY <1>3, <1>9, Kinds DEF Placed, WellPlaced
<1>14. Ordered(r)
  BY <1>3, <1>10, <1>11 DEF Ordered
<1>. QED BY <1>8, <1>9, <1>10, <1>12, <1>13, <1>14 DEF Sound, HasCell

\* The second one always finds a container and a place.
LEMMA AddSecond ==
    ASSUME NEW s, Sound(s), NEW x \in Offset, \A l \in Active(s) : s.offset[l] = x,
           NEW o \in Offset \ {x}, NEW c \in Allowed(o),
           NEW r, r = schedule_addActiveSlot(s, o, c)
    PROVE  HasCell(r, o, c) /\ r.offset[r.current] = x
<1>1. PICK p \in Active(s) : TRUE
  BY DEF Sound, Ring
<1>2. \A l \in Active(s) : l = p
  BY <1>1 DEF Sound, Ring
<1>3. s.next[p] = p /\ s.offset[p] = x /\ p \in Container /\ s \in Schedules
  BY <1>1, <1>2 DEF Sound, Ring, Follows, Active
<1>4. FitsAfter(s, p, o)
  <2>1. o \in Nat /\ x \in Nat /\ o # x /\ s.offset[s.next[p]] = x
    BY <1>3, Constants
  <2>. QED BY <1>3, <2>1 DEF FitsAfter
<1>5. Usable(s, o) # {} /\ \A k \in Usable(s, o) : k \in Container \ Active(s)
  BY <1>2, Indices DEF Usable
<1> DEFINE k == First(Usable(s, o))
<1>6. k \in Usable(s, o)
  BY <1>5, FirstOne, Indices
<1>7. r = Insert(s, k, o, c)
  BY <1>5, <1>6 DEF schedule_addActiveSlot
<1>. HIDE DEF k
<1>8. k \in Container \ Active(s) /\ p # k
  BY <1>1, <1>5, <1>6
<1>9. s.current # NULL
  BY Indices DEF Sound, Ring, Active
<1>10. (CHOOSE q \in Active(s) : FitsAfter(s, q, o)) = p
  BY <1>1, <1>2, <1>4
<1>11. r = InsertedAfter(s, p, k, o, c)
  BY <1>1, <1>4, <1>7, <1>9, <1>10 DEF Insert, InsertedAfter
<1>12. InsertsAfter(s, r, p, k, o, c)
  BY <1>3, <1>8, <1>11, InsertedFields, AllowedCells
<1>13. r.current = p /\ r.offset[p] = x
  BY <1>2, <1>3, <1>8, <1>12 DEF InsertsAfter, Sound, Ring
<1>. QED BY <1>1, <1>4, <1>8, <1>12, <1>13, InsertAfterSound

-----------------------------------------------------------------------------
(* The current entry *)

LEMMA MoveCurrent ==
    ASSUME NEW s, Sound(s), NEW k \in Active(s), NEW r, r = [s EXCEPT !.current = k]
    PROVE  /\ Sound(r) /\ \A x, d : HasCell(s, x, d) => HasCell(r, x, d)
           /\ Active(r) = Active(s) /\ r.offset = s.offset
<1>1. /\ r.current = k /\ r.offset = s.offset /\ r.cell = s.cell /\ r.backup = s.backup
      /\ r.next = s.next /\ r \in Schedules /\ k \in Container
  BY DEF Sound, Schedules, Active
<1>2. Active(r) = Active(s) /\ \A l \in Container : FreeBackups(r, l) = FreeBackups(s, l)
  BY <1>1 DEF Active, FreeBackups
<1>3. Ring(r)
  BY <1>1, <1>2 DEF Sound, Ring, Follows
<1>4. Placed(r)
  BY <1>1 DEF Sound, Placed
<1>5. Ordered(r)
  BY <1>1, <1>2 DEF Sound, Ordered, FreeBackups
<1>6. \A x, d : HasCell(s, x, d) => HasCell(r, x, d)
  BY <1>1, <1>2 DEF HasCell
<1>. QED BY <1>1, <1>2, <1>3, <1>4, <1>5, <1>6 DEF Sound

LEMMA SyncSound ==
    ASSUME NEW s, Sound(s), NEW o, NEW c, HasCell(s, o, c),
           NEW r, r = schedule_syncSlotOffset(s, o)
    PROVE  /\ Sound(r) /\ \A x, d : HasCell(s, x, d) => HasCell(r, x, d)
           /\ r.offset[r.current] = o
<1> DEFINE k == CHOOSE k \in Active(s) : s.offset[k] = o
<1>1. k \in Active(s) /\ s.offset[k] = o
  BY DEF HasCell
<1>2. r = [s EXCEPT !.current = k]
  BY DEF schedule_syncSlotOffset
<1>. HIDE DEF k
<1>3. r.current = k
  BY <1>2 DEF Sound, Schedules
<1>. QED BY <1>1, <1>2, <1>3, MoveCurrent

-----------------------------------------------------------------------------
(* A removal *)

\* What a removal leaves: nothing new, and the cells that have no neighbor.
Removes(s, r) ==
    /\ Sound(r)
    /\ \A k \in Active(r) : k \in Active(s) /\ r.offset[k] = s.offset[k]
    /\ \A x, d : HasCell(s, x, d) /\ d \in {MinimalCell, AutoRxCell} => HasCell(r, x, d)

LEMMA RemoveBackupSound ==
    ASSUME NEW s, Sound(s), NEW k \in Active(s), NEW i \in Backup,
           s.backup[k][i].neighbor \in Neighbor, NEW r, r = RemoveBackup(s, k, i)
    PROVE  Removes(s, r)
<1> DEFINE off == [OffCell EXCEPT !.isAutoCell = s.backup[k][i].isAutoCell]
<1>1. /\ k \in Container /\ s.cell[k] \in Allowed(s.offset[k]) /\ s \in Schedules
      /\ \A j \in Backup : WellPlaced(s.backup[k][j], s.offset[k])
      /\ s.backup[k][i] \in Cell
  BY ActiveEntry DEF Sound, Schedules
<1>2. off \in Cell /\ off.type = "OFF" /\ off.neighbor = ADDR_NONE
  BY <1>1, Kinds DEF Cell
<1>3. r = Entry(s, k, i, off)
  BY DEF RemoveBackup, Entry
<1>. HIDE DEF off
<1>4. /\ ChangesSlot(s, r, k)
      /\ r.cell[k] = s.cell[k] /\ r.backup[k][i] = off
      /\ \A j \in Backup \ {i} : r.backup[k][j] = s.backup[k][j]
  BY <1>1, <1>2, <1>3, OneEntry
<1>5. \A j \in Backup : WellPlaced(r.backup[k][j], s.offset[k])
  BY <1>1, <1>2, <1>4 DEF WellPlaced
<1>6. \A j \in Backup : r.backup[k][j].type # "OFF" =>
                           Priority(r.backup[k][j]) <= Priority(r.cell[k])
  BY <1>2, <1>4 DEF Sound, Ordered, FreeBackups
<1>7. Sound(r) /\ Active(r) = Active(s)
  BY <1>1, <1>4, <1>5, <1>6, SlotChange
<1>8. ASSUME NEW x, NEW d \in {MinimalCell, AutoRxCell}, HasCell(s, x, d) PROVE HasCell(r, x, d)
  <2>1. \A j \in Backup : s.backup[k][j] = d => j # i
    BY Fields
  <2>2. \A j \in Backup : s.backup[k][j] = d => \E l \in Backup : r.backup[k][l] = d
    BY <1>4, <2>1
  <2>. QED BY <1>4, <1>7, <1>8, <2>2, KeepsCell
<1>. QED BY <1>4, <1>7, <1>8 DEF Removes, ChangesSlot

\* The entry that takes the place of the cell is there, and outranked by none.
LEMMA CandidateBest ==
    ASSUME NEW s, Sound(s), NEW k \in Active(s), FreeBackups(s, k) # Backup
    PROVE  /\ Candidate(s, k) \in Backup \ FreeBackups(s, k)
           /\ \A j \in Backup \ FreeBackups(s, k) :
                Priority(s.backup[k][j]) <= Priority(s.backup[k][Candidate(s, k)])
<1> DEFINE used   == Backup \ FreeBackups(s, k)
           autoTx == {i \in used : s.backup[k][i].isAutoCell /\ s.backup[k][i].type = "TX"}
<1>1. used # {} /\ used \subseteq Backup /\ autoTx \subseteq used
  BY DEF FreeBackups
<1>2. Candidate(s, k) = IF autoTx # {} THEN First(autoTx) ELSE Last(used)
  BY DEF Candidate
<1>3. /\ s.offset[k] \in Offset
      /\ \A j \in used : s.backup[k][j] \in Allowed(s.offset[k])
  BY ActiveEntry
<1>4. \A d : Priority(d) \in 1..3
  BY DEF Priority
<1>5. \A j \in autoTx : Priority(s.backup[k][j]) = 3
  BY DEF Priority
<1>. HIDE DEF used, autoTx
<1>6. CASE autoTx # {}
  <2>1. First(autoTx) \in autoTx
    BY <1>1, <1>6, FirstOne, Indices
  <2>. QED BY <1>1, <1>2, <1>4, <1>5, <1>6, <2>1 DEF used
<1>7. CASE autoTx = {}
  <2>1. Last(used) \in used
    BY <1>1, LastOne, Indices
  <2>2. \A j \in used : s.backup[k][j].isAutoCell => s.backup[k][j].type # "TX"
    BY <1>7 DEF autoTx
  <2>3. \A i, j \in used : Priority(s.backup[k][i]) = Priority(s.backup[k][j])
    <3>1. CASE s.offset[k] = 0
      BY <1>3, <3>1, AllowedCells
    <3>2. CASE s.offset[k] = MyHash
      <4>1. \A j \in used : s.backup[k][j] = AutoRxCell
        BY <1>3, <2>2, <3>2, AllowedCells, Constants, Fields
      <4>. QED BY <4>1
    <3>3. CASE s.offset[k] \notin {0, MyHash}
      <4>1. \A j \in used :
                \/ \E n \in Neighbor : s.backup[k][j] = AutoTxCell(n)
                \/ \E n \in Neighbor, u \in {"TX", "RX"} : s.backup[k][j] = NegotiatedCell(n, u)
        <5>1. \A j \in used : s.backup[k][j] \in AutoTxCells \cup NegotiatedCells
          BY <1>3, <3>3 DEF Allowed
        <5>. QED BY <5>1 DEF AutoTxCells, NegotiatedCells
      <4>2. \A j \in used : ~s.backup[k][j].isAutoCell
        BY <2>2, <4>1, Fields
      <4>. QED BY <4>2 DEF Priority
    <3>. QED BY <3>1, <3>2, <3>3
  <2>4. \A j \in used : Priority(s.backup[k][j]) <= Priority(s.backup[k][Last(used)])
    BY <1>4, <2>1, <2>3
  <2>. QED BY <1>2, <1>7, <2>1, <2>4 DEF used
<1>. QED BY <1>6, <1>7

LEMMA PromoteSound ==
    ASSUME NEW s, Sound(s), NEW k \in Active(s), FreeBackups(s, k) # Backup,
           s.cell[k].neighbor \in Neighbor, NEW r, r = Promote(s, k)
    PROVE  Removes(s, r)
<1> DEFINE i == Candidate(s, k)
<1>1. /\ i \in Backup \ FreeBackups(s, k)
      /\ \A j \in Backup \ FreeBackups(s, k) :
           Priority(s.backup[k][j]) <= Priority(s.backup[k][i])
  BY CandidateBest
<1>2. r = Entries(s, k, s.backup[k][i], i, OffCell)
  BY DEF Promote, Entries
<1>. HIDE DEF i
<1>3. /\ k \in Container /\ s \in Schedules /\ OffCell \in Cell /\ OffCell.type = "OFF"
      /\ OffCell.neighbor = ADDR_NONE
      /\ s.backup[k][i] \in Cell /\ s.backup[k][i] \in Allowed(s.offset[k])
      /\ \A j \in Backup : WellPlaced(s.backup[k][j], s.offset[k])
  BY <1>1, ActiveEntry, Kinds DEF Sound, Schedules
<1>4. /\ ChangesSlot(s, r, k)
      /\ r.cell[k] = s.backup[k][i] /\ r.backup[k][i] = OffCell
      /\ \A j \in Backup \ {i} : r.backup[k][j] = s.backup[k][j]
  BY <1>1, <1>2, <1>3, TwoEntries
<1>5. \A j \in Backup : WellPlaced(r.backup[k][j], s.offset[k])
  BY <1>3, <1>4 DEF WellPlaced
<1>6. \A j \in Backup : r.backup[k][j].type # "OFF" =>
                           Priority(r.backup[k][j]) <= Priority(r.cell[k])
  BY <1>1, <1>3, <1>4 DEF FreeBackups
<1>7. Sound(r) /\ Active(r) = Active(s)
  BY <1>3, <1>4, <1>5, <1>6, SlotChange
<1>8. ASSUME NEW x, NEW d \in {MinimalCell, AutoRxCell}, HasCell(s, x, d) PROVE HasCell(r, x, d)
  <2>1. s.cell[k] # d
    BY Fields
  <2>2. \A j \in Backup : s.backup[k][j] = d =>
                             r.cell[k] = d \/ \E l \in Backup : r.backup[k][l] = d
    BY <1>4
  <2>. QED BY <1>4, <1>7, <1>8, <2>1, <2>2, KeepsCell
<1>. QED BY <1>4, <1>7, <1>8 DEF Removes, ChangesSlot

\* The entry leaves the list.
Unlinks(s, r, p, k) ==
    /\ r \in Schedules
    /\ r.backup = s.backup /\ r.cell[k] = OffCell
    /\ \A l \in Container \ {k} : r.cell[l] = s.cell[l] /\ r.offset[l] = s.offset[l]
    /\ r.next[k] = NULL /\ r.next[p] = s.next[k]
    /\ \A l \in Container \ {k, p} : r.next[l] = s.next[l]
    /\ r.current = IF s.current = k THEN p ELSE s.current

UnlinkedFrom(s, p, k) ==
    [[s EXCEPT !.offset[k] = 0, !.cell[k] = OffCell]
        EXCEPT !.next[p] = s.next[k], !.next[k] = NULL, !.current = IF @ = k THEN p ELSE @]

LEMMA UnlinkedFields ==
    ASSUME NEW s \in Schedules, NEW k \in Container, NEW p \in Container \ {k},
           NEW r, r = UnlinkedFrom(s, p, k)
    PROVE  Unlinks(s, r, p, k)
<1>1. /\ s.offset \in [Container -> Offset] /\ s.cell \in [Container -> Cell]
      /\ s.next \in [Container -> Container \cup {NULL}] /\ s.current \in Container \cup {NULL}
  BY DEF Schedules
<1>2. /\ r.backup = s.backup
      /\ r.offset = [s.offset EXCEPT ![k] = 0]
      /\ r.cell = [s.cell EXCEPT ![k] = OffCell]
      /\ r.next = [[s.next EXCEPT ![p] = s.next[k]] EXCEPT ![k] = NULL]
      /\ r.current = IF s.current = k THEN p ELSE s.current
  BY DEF Schedules, UnlinkedFrom
<1>3. /\ r.offset \in [Container -> Offset] /\ r.cell \in [Container -> Cell]
      /\ r.next \in [Container -> Container \cup {NULL}] /\ r.current \in Container \cup {NULL}
  BY <1>1, <1>2, Kinds, Constants
<1>4. r \in Schedules
  <2>1. r = [s EXCEPT !.offset = [s.offset EXCEPT ![k] = 0], !.cell = [s.cell EXCEPT ![k] = OffCell],
                      !.next = [[s.next EXCEPT ![p] = s.next[k]] EXCEPT ![k] = NULL],
                      !.current = IF s.current = k THEN p ELSE s.current]
    BY DEF Schedules, UnlinkedFrom
  <2>2. r = [s EXCEPT !.offset = r.offset, !.cell = r.cell, !.next = r.next, !.current = r.current]
    BY <1>2, <2>1
  <2>. QED BY <1>3, <2>2 DEF Schedules
<1>5. /\ r.cell[k] = OffCell
      /\ \A l \in Container \ {k} : r.cell[l] = s.cell[l] /\ r.offset[l] = s.offset[l]
      /\ r.next[k] = NULL /\ r.next[p] = s.next[k]
      /\ \A l \in Container \ {k, p} : r.next[l] = s.next[l]
  BY <1>1, <1>2
<1>. QED BY <1>2, <1>4, <1>5 DEF Unlinks

LEMMA UnlinkRing ==
    ASSUME NEW s, Sound(s), NEW k \in Active(s), NEW p \in Active(s) \ {k}, s.next[p] = k,
           FreeBackups(s, k) = Backup, NEW r, Unlinks(s, r, p, k)
    PROVE  Ring(r) /\ Active(r) = Active(s) \ {k}
<1> DEFINE A == Active(s)
           B == A \ {k}
           off(l) == s.offset[l]
           n == s.next[k]
<1>1. Active(r) = B /\ A \subseteq Container
  BY Kinds DEF Active, Unlinks
<1>2. /\ \A l \in A : off(l) \in Nat
      /\ \A l \in B : r.offset[l] = off(l)
      /\ \A l, m \in A : off(l) = off(m) => l = m
      /\ \A l \in A : Follows(s, l) /\ s.next[l] \in A
      /\ r.next[p] = n
  BY <1>1, Constants DEF Sound, Ring, Schedules, Unlinks, Follows
<1>3. n \in B
  <2>1. n # k
    BY <1>2 DEF Follows
  <2>. QED BY <1>2, <2>1
<1>4. \A l \in B : l # p => s.next[l] \in B /\ r.next[l] = s.next[l]
  BY <1>1, <1>2, OnePredecessor DEF Unlinks
<1>5. Follows(r, p)
  <2>1. /\ \/ off(p) < off(k) /\ \A l \in A : off(l) <= off(p) \/ off(k) <= off(l)
           \/ off(k) <= off(p) /\ \A l \in A : off(k) <= off(l) /\ off(l) <= off(p)
        /\ \/ off(k) < off(n) /\ \A l \in A : off(l) <= off(k) \/ off(n) <= off(l)
           \/ off(n) <= off(k) /\ \A l \in A : off(n) <= off(l) /\ off(l) <= off(k)
    BY <1>2 DEF Follows
  <2>2. \A l \in B : off(l) \in Nat /\ off(k) \in Nat /\ off(l) # off(k)
    BY <1>2
  <2>3. \/ off(p) < off(n) /\ \A l \in B : off(l) <= off(p) \/ off(n) <= off(l)
        \/ off(n) <= off(p) /\ \A l \in B : off(n) <= off(l) /\ off(l) <= off(p)
    BY <1>3, <2>1, <2>2
  <2>. QED BY <1>1, <1>2, <1>3, <2>3 DEF Follows
<1>6. ASSUME NEW l \in B, l # p PROVE Follows(r, l)
  BY <1>1, <1>2, <1>4, <1>6 DEF Follows
<1>7. \A l, m \in B : r.offset[l] = r.offset[m] => l = m
  BY <1>2
<1>8. \A l \in Container \ B : r.next[l] = NULL /\ FreeBackups(r, l) = Backup
  BY <1>1 DEF Sound, Ring, Unlinks, FreeBackups
<1>9. r.current \in B
  BY DEF Sound, Ring, Unlinks
<1>. QED BY <1>1, <1>5, <1>6, <1>7, <1>8, <1>9 DEF Ring

\* The slot of this node is another one, so that the entry has a predecessor.
LEMMA UnlinkPredecessor ==
    ASSUME NEW s, Sound(s), NEW k \in Active(s), FreeBackups(s, k) = Backup,
           s.cell[k].neighbor \in Neighbor, HasCell(s, MyHash, AutoRxCell),
           NEW r, r = Unlink(s, k)
    PROVE  \E p \in Active(s) \ {k} : s.next[p] = k /\ Unlinks(s, r, p, k)
<1>1. s \in Schedules /\ k \in Container /\ Active(s) \subseteq Container
  BY DEF Sound, Active
<1>2. ASSUME NEW l \in Active(s), s.cell[l] = AutoRxCell \/ \E i \in Backup : s.backup[l][i] = AutoRxCell
      PROVE  l # k
  BY <1>2, Fields DEF FreeBackups
<1>3. s.next[k] # k
  <2>1. PICK l \in Active(s) : l # k
    BY <1>2 DEF HasCell
  <2>2. s.offset[l] \in Nat /\ s.offset[k] \in Nat /\ s.offset[l] # s.offset[k]
    BY <1>1, <2>1, Constants DEF Sound, Ring, Schedules
  <2>3. Follows(s, k)
    BY DEF Sound, Ring
  <2>. QED BY <2>1, <2>2, <2>3 DEF Follows
<1> DEFINE p == CHOOSE p \in Active(s) : s.next[p] = k
<1>4. p \in Active(s) /\ s.next[p] = k
  BY Predecessor
<1>5. r = UnlinkedFrom(s, p, k)
  BY <1>3 DEF Unlink, UnlinkedFrom
<1>. HIDE DEF p
<1>6. p \in Active(s) \ {k} /\ p \in Container \ {k}
  BY <1>1, <1>3, <1>4
<1>7. Unlinks(s, r, p, k)
  BY <1>1, <1>5, <1>6, UnlinkedFields
<1>. QED BY <1>4, <1>6, <1>7

LEMMA UnlinkSound ==
    ASSUME NEW s, Sound(s), NEW k \in Active(s), FreeBackups(s, k) = Backup,
           s.cell[k].neighbor \in Neighbor, HasCell(s, MyHash, AutoRxCell),
           NEW r, r = Unlink(s, k)
    PROVE  Removes(s, r)
<1>1. s \in Schedules /\ k \in Container /\ Active(s) \subseteq Container
  BY DEF Sound, Active
<1>2. ASSUME NEW x, NEW d \in {MinimalCell, AutoRxCell}, NEW l \in Active(s),
             s.cell[l] = d \/ \E i \in Backup : s.backup[l][i] = d
      PROVE  l # k
  BY <1>2, Fields DEF FreeBackups
<1>3. PICK p \in Active(s) \ {k} : s.next[p] = k /\ Unlinks(s, r, p, k)
  BY UnlinkPredecessor
<1>4. s.next[p] = k
  BY <1>3
<1>6. p \in Active(s) \ {k} /\ p \in Container \ {k}
  BY <1>1, <1>3
<1>7. Unlinks(s, r, p, k)
  BY <1>3
<1>8. Ring(r) /\ Active(r) = Active(s) \ {k}
  BY <1>4, <1>6, <1>7, UnlinkRing
<1>9. Placed(r)
  <2>1. WellPlaced(r.cell[k], r.offset[k])
    BY <1>7, Kinds DEF Unlinks, WellPlaced
  <2>2. \A i \in Backup : WellPlaced(r.backup[k][i], r.offset[k])
    BY <1>1, <1>7 DEF Sound, Placed, WellPlaced, FreeBackups, Unlinks
  <2>. QED BY <1>7, <2>1, <2>2 DEF Sound, Placed, Unlinks
<1>10. Ordered(r)
  BY <1>1, <1>7, <1>8 DEF Sound, Ordered, Unlinks, FreeBackups
<1>11. \A l \in Active(r) : /\ l \in Active(s) /\ r.offset[l] = s.offset[l]
                            /\ r.cell[l] = s.cell[l] /\ r.backup[l] = s.backup[l]
  BY <1>1, <1>7, <1>8 DEF Unlinks
<1>12. ASSUME NEW x, NEW d \in {MinimalCell, AutoRxCell}, HasCell(s, x, d) PROVE HasCell(r, x, d)
  <2>1. PICK l \in Active(s) : /\ s.offset[l] = x
                               /\ s.cell[l] = d \/ \E i \in Backup : s.backup[l][i] = d
    BY <1>12 DEF HasCell
  <2>2. l \in Active(r)
    BY <1>2, <1>8, <2>1
  <2>. QED BY <1>11, <2>1, <2>2 DEF HasCell
<1>. QED BY <1>7, <1>8, <1>9, <1>10, <1>11, <1>12 DEF Removes, Sound, Unlinks

LEMMA RemoveSound ==
    ASSUME NEW s, Sound(s), HasCell(s, MyHash, AutoRxCell),
           NEW o, NEW c, c.neighbor \in Neighbor,
           NEW r, r = schedule_removeActiveSlot(s, o, c)
    PROVE  Removes(s, r)
<1>1. CASE ~Removable(s, o, c)
  BY <1>1 DEF schedule_removeActiveSlot, Removes
<1>2. CASE Removable(s, o, c)
  <2> DEFINE k == First(Matching(s, o, c))
             i == First(Named(s, k, c))
  <2>1. k \in Container /\ (s.cell[k].neighbor = c.neighbor \/ Named(s, k, c) # {})
    BY <1>2, FirstOne, Indices DEF Removable, Matching
  <2>2. Named(s, k, c) # {} => i \in Backup /\ s.backup[k][i].neighbor = c.neighbor
    BY FirstOne, Indices DEF Named
  <2>3. r = IF s.cell[k].neighbor # c.neighbor THEN RemoveBackup(s, k, i)
            ELSE IF FreeBackups(s, k) # Backup THEN Promote(s, k) ELSE Unlink(s, k)
    BY <1>2 DEF schedule_removeActiveSlot
  <2>. HIDE DEF k, i
  <2>4. k \in Active(s)
    <3>1. CASE s.cell[k].neighbor = c.neighbor
      BY <2>1, <3>1, Fields DEF Sound, Placed, WellPlaced, Active
    <3>2. CASE s.cell[k].neighbor # c.neighbor
      <4>1. s.backup[k][i].type # "OFF" /\ i \in Backup
        BY <2>1, <2>2, <3>2, Fields DEF Sound, Placed, WellPlaced
      <4>. QED BY <2>1, <4>1 DEF Sound, Ring, FreeBackups
    <3>. QED BY <3>1, <3>2
  <2>5. CASE s.cell[k].neighbor # c.neighbor
    BY <2>1, <2>2, <2>3, <2>4, <2>5, RemoveBackupSound
  <2>6. CASE s.cell[k].neighbor = c.neighbor /\ FreeBackups(s, k) # Backup
    BY <2>3, <2>4, <2>6, PromoteSound
  <2>7. CASE s.cell[k].neighbor = c.neighbor /\ FreeBackups(s, k) = Backup
    BY <2>3, <2>4, <2>7, UnlinkSound
  <2>. QED BY <2>5, <2>6, <2>7
<1>. QED BY <1>1, <1>2

-----------------------------------------------------------------------------
(* The inductive invariant *)

\* The node listens in its own slot, and in the minimal slot once it has a
\* slotframe of that length; before, it has no other slot.
Good(s, length) ==
    /\ Sound(s)
    /\ HasCell(s, MyHash, AutoRxCell)
    /\ length # 0 => HasCell(s, 0, MinimalCell)
    /\ length = 0 => \A k \in Active(s) : s.offset[k] = MyHash

LEMMA GoodRemoved ==
    ASSUME NEW s, NEW r, NEW length, Good(s, length), Removes(s, r)
    PROVE  Good(r, length)
  BY DEF Good, Removes

LEMMA GoodAdded ==
    ASSUME NEW s, NEW length, Good(s, length), length # 0, NEW o \in Offset, NEW c \in Allowed(o),
           NEW r, r = schedule_addActiveSlot(s, o, c)
    PROVE  Good(r, length)
  BY AddSound, Fields DEF Good

LEMMA GoodMoved ==
    ASSUME NEW s, NEW length, Good(s, length), NEW k \in Active(s), NEW r, r = [s EXCEPT !.current = k]
    PROVE  Good(r, length)
  BY MoveCurrent DEF Good

LEMMA AllowedKinds ==
    /\ MinimalCell \in Allowed(0) /\ AutoRxCell \in Allowed(MyHash)
    /\ \A n \in Neighbor : AutoTxCell(n) \in Allowed(Hash[n])
    /\ \A n \in Neighbor, t \in {"TX", "RX"}, o \in Offset \ {0, MyHash} :
         NegotiatedCell(n, t) \in Allowed(o)
<1>1. \A n \in Neighbor : AutoTxCell(n) \in AutoTxCells
  BY DEF AutoTxCells
<1>2. \A n \in Neighbor, t \in {"TX", "RX"} : NegotiatedCell(n, t) \in NegotiatedCells
  BY DEF NegotiatedCells
<1>. QED BY <1>1, <1>2, Constants DEF Allowed

\* The role gives the root its slotframe from the start.
LEMMA InitialGood ==
    Good(InitialSchedule, IF BootsAsDAGroot THEN SLOTFRAME_LENGTH ELSE 0)
<1>0. SLOTFRAME_LENGTH # 0 /\ 0 \in Offset /\ MyHash \in Offset /\ MyHash # 0
  BY Constants, SizeAssumption
<1>1. CASE BootsAsDAGroot
  <2> DEFINE s == schedule_addActiveSlot(schedule_init, 0, MinimalCell)
  <2>1. Sound(s) /\ HasCell(s, 0, MinimalCell) /\ \A k \in Active(s) : s.offset[k] = 0
    BY <1>0, AllowedKinds, AddFirst
  <2>2. InitialSchedule = schedule_addActiveSlot(s, MyHash, AutoRxCell)
    BY <1>1 DEF InitialSchedule
  <2>. HIDE DEF s
  <2>3. Sound(InitialSchedule) /\ HasCell(InitialSchedule, 0, MinimalCell)
    BY <1>0, <2>1, <2>2, AllowedKinds, AddSound, Fields
  <2>4. HasCell(InitialSchedule, MyHash, AutoRxCell)
    BY <1>0, <2>1, <2>2, AllowedKinds, AddSecond
  <2>. QED BY <1>0, <1>1, <2>3, <2>4 DEF Good
<1>2. CASE ~BootsAsDAGroot
  <2>1. InitialSchedule = schedule_addActiveSlot(schedule_init, MyHash, AutoRxCell)
    BY <1>2 DEF InitialSchedule
  <2>. QED BY <1>0, <1>2, <2>1, AllowedKinds, AddFirst DEF Good
<1>. QED BY <1>1, <1>2

\* A transaction adds a slot of its own, and the loop over the cells of a
\* neighbor stays in the array.
Inv ==
    /\ TypeOK
    /\ Good(schedule, frameLength)
    /\ \A t \in transactions : t.add # NoOffset => /\ frameLength # 0
                                                  /\ t.add \notin {0, MyHash, t.delete}
    /\ clearing # Idle => clearing.neighbor \in Neighbor /\ clearing.at \in Container

LEMMA EndSlotGood ==
    ASSUME NEW s, NEW length, Good(s, length), NEW waiting, NEW now, endSlot(s, waiting, now)
    PROVE  Good(schedule', length)
<1> DEFINE c == s.cell[s.current]
<1>1. CASE ~(s.offset[s.current] = now /\ c.isAutoCell /\ c.type = "TX" /\ c.neighbor \notin waiting)
  BY <1>1 DEF endSlot
<1>2. CASE s.offset[s.current] = now /\ c.isAutoCell /\ c.type = "TX" /\ c.neighbor \notin waiting
  <2>1. c \in Allowed(s.offset[s.current])
    BY ActiveEntry DEF Good, Sound, Ring
  <2>2. c.neighbor \in Neighbor
    BY <1>2, <2>1, AllowedCells
  <2>3. schedule' = schedule_removeActiveSlot(s, now, AutoTxCell(c.neighbor))
    BY <1>2 DEF endSlot
  <2>4. AutoTxCell(c.neighbor).neighbor \in Neighbor
    BY <2>2, Fields
  <2>5. Removes(s, schedule')
    BY <2>3, <2>4, RemoveSound DEF Good
  <2>. QED BY <2>5, GoodRemoved
<1>. QED BY <1>1, <1>2

LEMMA NextEntryActive ==
    ASSUME Inv
    PROVE  NextEntry \in Active(schedule) /\ Good(schedule_advanceSlot, frameLength)
<1>1. NextEntry \in Active(schedule)
  BY DEF Inv, Good, Sound, Ring, Follows, NextEntry
<1>. QED BY <1>1, GoodMoved DEF Inv, schedule_advanceSlot

LEMMA NewSlotOffset == slotOffset \in Offset => NewSlot \in Offset
  BY SizeAssumption DEF NewSlot, Offset

LEMMA InvInit == Init => Inv
<1>. SUFFICES ASSUME Init PROVE Inv
  OBVIOUS
<1>1. Good(schedule, frameLength)
  BY InitialGood DEF Init
<1>2. schedule \in Schedules
  BY <1>1 DEF Good, Sound
<1>3. clearing = Idle /\ clearing.neighbor = ADDR_NONE /\ clearing.at = 0 /\ clearing.found = FALSE
  BY DEF Init, Idle, NULL
<1>4. clearing \in [neighbor : Neighbor \cup {ADDR_NONE}, at : 0..MAXACTIVESLOTS, found : BOOLEAN]
  BY SizeAssumption DEF Init, Idle, NULL
<1>5. TypeOK
  BY <1>2, <1>4, Kinds, Constants, RoleAssumption DEF Init, TypeOK
<1>. QED BY <1>1, <1>3, <1>5 DEF Inv, Init

\* What every step has to keep, apart from the types of what it leaves alone.
LEMMA InvKept ==
    ASSUME Inv, Good(schedule', frameLength'), UNCHANGED frameLength,
           isSync' \in BOOLEAN, slotOffset' \in Offset, inUse' \in Cell, packets' \subseteq Neighbor,
           critical' \in BOOLEAN, UNCHANGED <<transactions, clearing>>
    PROVE  Inv'
<1>1. schedule' \in Schedules
  BY DEF Good, Sound
<1>. QED BY <1>1 DEF Inv, TypeOK

\* A beacon leaves a schedule with the minimal cell.
LEMMA BeaconSchedule ==
    ASSUME Inv, NEW s,
           s = IF frameLength = 0 THEN schedule_addActiveSlot(schedule, 0, MinimalCell) ELSE schedule
    PROVE  Sound(s) /\ HasCell(s, MyHash, AutoRxCell) /\ HasCell(s, 0, MinimalCell)
<1>1. CASE frameLength # 0
  BY <1>1 DEF Inv, Good
<1>2. CASE frameLength = 0
  <2>1. s = schedule_addActiveSlot(schedule, 0, MinimalCell)
    BY <1>2
  <2>2. Sound(s) /\ HasCell(s, MyHash, AutoRxCell)
    BY <2>1, AddSound, AllowedKinds, Constants, Fields DEF Inv, Good
  <2>3. HasCell(s, 0, MinimalCell)
    BY <1>2, <2>1, AddSecond, AllowedKinds, Constants DEF Inv, Good
  <2>. QED BY <2>2, <2>3
<1>. QED BY <1>1, <1>2

LEMMA MacKeepsInv == Inv /\ Mac => Inv'
<1>. SUFFICES ASSUME Inv, Mac PROVE Inv'
  OBVIOUS
<1>0. /\ TypeOK /\ Good(schedule, frameLength) /\ OffCell \in Cell /\ NewSlot \in Offset
      /\ NextEntry \in Active(schedule) /\ Good(schedule_advanceSlot, frameLength)
      /\ schedule.cell[NextEntry] \in Cell
  <2>1. NextEntry \in Container /\ schedule \in Schedules
    BY NextEntryActive DEF Inv, TypeOK, Active
  <2>. QED BY <2>1, NextEntryActive, NewSlotOffset, Kinds DEF Inv, TypeOK, Schedules
<1>1. CASE Synchronize
  <2> DEFINE s == IF frameLength = 0 THEN schedule_addActiveSlot(schedule, 0, MinimalCell)
                  ELSE schedule
  <2>1. schedule' = schedule_syncSlotOffset(s, 0) /\ frameLength' = SLOTFRAME_LENGTH
    BY <1>1 DEF Synchronize
  <2>2. Sound(s) /\ HasCell(s, MyHash, AutoRxCell) /\ HasCell(s, 0, MinimalCell)
    BY BeaconSchedule
  <2>. HIDE DEF s
  <2>3. Good(schedule', frameLength')
    BY <2>1, <2>2, SyncSound, Constants, SizeAssumption DEF Good
  <2>4. schedule' \in Schedules /\ frameLength' # 0
    BY <2>1, <2>3, Constants, SizeAssumption DEF Good, Sound
  <2>5. TypeOK'
    BY <1>0, <1>1, <2>1, <2>4, Constants DEF Synchronize, TypeOK
  <2>. QED BY <1>1, <2>3, <2>4, <2>5 DEF Inv, Synchronize
<1>2. CASE Desynchronize
  <2>1. Good(schedule', frameLength)
    BY <1>0, <1>2, EndSlotGood DEF Desynchronize
  <2>. QED BY <1>0, <1>2, <2>1, InvKept DEF Desynchronize, TypeOK
<1>3. CASE InactiveSlot
  <2>1. Good(schedule', frameLength)
    BY <1>0, <1>3, EndSlotGood DEF InactiveSlot
  <2>. QED BY <1>0, <1>3, <2>1, InvKept DEF InactiveSlot, TypeOK
<1>4. CASE ActiveSlot
  <2>1. Good(schedule', frameLength)
    BY <1>0, <1>4, EndSlotGood DEF ActiveSlot
  <2>2. inUse' \in Cell
    BY <1>0, <1>4 DEF ActiveSlot, TypeOK
  <2>. QED BY <1>0, <1>4, <2>1, <2>2, InvKept DEF ActiveSlot, TypeOK
<1>5. CASE EndActiveSlot
  <2>1. Good(schedule', frameLength)
    BY <1>0, <1>5, EndSlotGood DEF EndActiveSlot
  <2>2. packets' \subseteq Neighbor
    BY <1>0, <1>5 DEF EndActiveSlot, TypeOK
  <2>. QED BY <1>0, <1>5, <2>1, <2>2, InvKept DEF EndActiveSlot, TypeOK
<1>. QED BY <1>1, <1>2, <1>3, <1>4, <1>5 DEF Mac

LEMMA SendKeepsInv ==
    ASSUME Inv, NEW n \in Neighbor, sixtop_send_internal(n)
    PROVE  Inv'
<1>1. Good(schedule', frameLength)
  <2>1. frameLength # 0 /\ Good(schedule, frameLength)
    BY DEF sixtop_send_internal, Inv
  <2>2. CASE schedule' = schedule
    BY <2>1, <2>2
  <2>3. CASE schedule' = schedule_addActiveSlot(schedule, Hash[n], AutoTxCell(n))
    BY <2>1, <2>3, GoodAdded, AllowedKinds, Constants
  <2>. QED BY <2>2, <2>3 DEF sixtop_send_internal
<1>. QED BY <1>1, InvKept DEF sixtop_send_internal, Inv, TypeOK

\* An available slot is neither the minimal one nor the node's own.
LEMMA AgreeKeepsInv == Inv /\ Agree => Inv'
<1>. SUFFICES ASSUME Inv, Agree PROVE Inv'
  OBVIOUS
<1>1. PICK t \in Transaction :
             /\ t.delete # NoOffset => t.delete \in NegotiatedSlots(t.neighbor, t.type)
             /\ t.add # NoOffset => schedule_isSlotOffsetAvailable(schedule, t.add)
             /\ transactions' = transactions \cup {t}
  BY DEF Agree
<1>2. t.add # NoOffset => frameLength # 0 /\ t.add \notin {0, MyHash, t.delete}
  <2>. SUFFICES ASSUME t.add # NoOffset PROVE frameLength # 0 /\ t.add \notin {0, MyHash, t.delete}
    OBVIOUS
  <2>1. /\ t.add \in Offset /\ t.add < frameLength
        /\ \A k \in Active(schedule) : schedule.offset[k] # t.add
    BY <1>1 DEF Transaction, schedule_isSlotOffsetAvailable
  <2>2. frameLength # 0
    <3>1. t.add \in Nat
      BY <2>1, Constants
    <3>. QED BY <2>1, <3>1
  <2>3. t.delete # t.add
    BY <1>1, <2>1 DEF NegotiatedSlots
  <2>. QED BY <2>1, <2>2, <2>3 DEF Inv, Good, HasCell
<1>3. UNCHANGED <<schedule, frameLength, isSync, slotOffset, inUse, packets, clearing, critical>>
  BY DEF Agree
<1>. QED BY <1>1, <1>2, <1>3 DEF Inv, TypeOK

LEMMA ConcludeKeepsInv ==
    ASSUME Inv, NEW t \in transactions, Conclude(t)
    PROVE  Inv'
<1> DEFINE c == NegotiatedCell(t.neighbor, t.type)
           removed == IF t.delete = NoOffset THEN schedule
                      ELSE schedule_removeActiveSlot(schedule, t.delete, c)
<1>1. /\ t.neighbor \in Neighbor /\ t.type \in {"TX", "RX"} /\ t.add \in Offset \cup {NoOffset}
      /\ t.add # NoOffset => frameLength # 0 /\ t.add \notin {0, MyHash}
      /\ Good(schedule, frameLength)
  BY DEF Inv, TypeOK, Transaction
<1>2. c.neighbor \in Neighbor
  BY <1>1, Fields
<1>3. Good(removed, frameLength)
  <2>1. CASE t.delete = NoOffset
    BY <1>1, <2>1
  <2>2. CASE t.delete # NoOffset
    <3>1. removed = schedule_removeActiveSlot(schedule, t.delete, c)
      BY <2>2
    <3>. HIDE DEF removed, c
    <3>2. Removes(schedule, removed)
      BY <1>1, <1>2, <3>1, RemoveSound DEF Good
    <3>. QED BY <1>1, <3>2, GoodRemoved
  <2>. QED BY <2>1, <2>2
<1>4. schedule' = IF t.add = NoOffset THEN removed ELSE schedule_addActiveSlot(removed, t.add, c)
  BY DEF Conclude
<1>5. t.add # NoOffset => t.add \in Offset /\ c \in Allowed(t.add)
  BY <1>1, AllowedKinds
<1>. HIDE DEF removed, c
<1>6. Good(schedule', frameLength)
  BY <1>1, <1>3, <1>4, <1>5, GoodAdded
<1>7. /\ transactions' = transactions \ {t} /\ critical' \in BOOLEAN
      /\ UNCHANGED <<frameLength, isSync, slotOffset, inUse, packets, clearing>>
  BY DEF Conclude, Inv, TypeOK
<1>8. schedule' \in Schedules
  BY <1>6 DEF Good, Sound
<1>. QED BY <1>6, <1>7, <1>8 DEF Inv, TypeOK

LEMMA GiveUpKeepsInv ==
    ASSUME Inv, NEW t \in transactions, GiveUp(t)
    PROVE  Inv'
  BY DEF GiveUp, Inv, TypeOK

LEMMA ClearStartsKeepsInv ==
    ASSUME Inv, NEW n \in Neighbor, ClearStarts(n)
    PROVE  Inv'
<1>1. clearing' = [neighbor |-> n, at |-> 1, found |-> FALSE]
  BY DEF ClearStarts
<1>2. clearing'.neighbor \in Neighbor /\ clearing'.at \in Container
  BY <1>1, Indices
<1>3. clearing' \in [neighbor : Neighbor \cup {ADDR_NONE}, at : 0..MAXACTIVESLOTS, found : BOOLEAN]
  BY <1>1, SizeAssumption
<1>. QED BY <1>2, <1>3 DEF ClearStarts, Inv, TypeOK

\* The next position of the loop is in the array, or there is none.
LEMMA ClearNextTyped ==
    ASSUME Inv, clearing # Idle
    PROVE  /\ ClearNext \in [neighbor : Neighbor \cup {ADDR_NONE}, at : 0..MAXACTIVESLOTS, found : BOOLEAN]
           /\ ClearNext # Idle => ClearNext.neighbor \in Neighbor /\ ClearNext.at \in Container
<1>1. /\ clearing \in [neighbor : Neighbor \cup {ADDR_NONE}, at : 0..MAXACTIVESLOTS, found : BOOLEAN]
      /\ clearing.neighbor \in Neighbor /\ clearing.at \in Container
  BY DEF Inv, TypeOK
<1>2. CASE clearing.at = MAXACTIVESLOTS
  <2>1. ClearNext = Idle
    BY <1>2 DEF ClearNext
  <2>2. Idle \in [neighbor : Neighbor \cup {ADDR_NONE}, at : 0..MAXACTIVESLOTS, found : BOOLEAN]
    BY SizeAssumption DEF Idle, NULL
  <2>. QED BY <2>1, <2>2
<1>3. CASE clearing.at # MAXACTIVESLOTS
  <2>1. ClearNext = [clearing EXCEPT !.at = @ + 1, !.found = FALSE]
    BY <1>3 DEF ClearNext
  <2>2. clearing.at + 1 \in 1..MAXACTIVESLOTS /\ clearing.at + 1 \in 0..MAXACTIVESLOTS
    BY <1>1, <1>3, SizeAssumption DEF Container
  <2>3. ClearNext.neighbor = clearing.neighbor /\ ClearNext.at = clearing.at + 1
    BY <1>1, <2>1
  <2>. QED BY <1>1, <2>1, <2>2, <2>3 DEF Container
<1>. QED BY <1>2, <1>3

LEMMA ClearTestsKeepsInv == Inv /\ ClearTests => Inv'
<1>. SUFFICES ASSUME Inv, ClearTests PROVE Inv'
  OBVIOUS
<1>1. clearing # Idle
  BY DEF ClearTests, NoTask
<1>2. clearing' = [clearing EXCEPT !.found = TRUE] \/ clearing' = ClearNext
  BY DEF ClearTests
<1>3. /\ clearing' \in [neighbor : Neighbor \cup {ADDR_NONE}, at : 0..MAXACTIVESLOTS, found : BOOLEAN]
      /\ clearing' # Idle => clearing'.neighbor \in Neighbor /\ clearing'.at \in Container
  <2>1. CASE clearing' = ClearNext
    BY <1>1, <2>1, ClearNextTyped
  <2>2. CASE clearing' = [clearing EXCEPT !.found = TRUE]
    BY <1>1, <2>2 DEF Inv, TypeOK
  <2>. QED BY <1>2, <2>1, <2>2
<1>4. UNCHANGED <<schedule, frameLength, isSync, slotOffset, inUse, packets, transactions, critical>>
  BY DEF ClearTests
<1>. QED BY <1>3, <1>4 DEF Inv, TypeOK

LEMMA ClearRemovesKeepsInv == Inv /\ ClearRemoves => Inv'
<1>. SUFFICES ASSUME Inv, ClearRemoves PROVE Inv'
  OBVIOUS
<1>1. clearing # Idle
  BY DEF ClearRemoves, Idle
<1> DEFINE k == clearing.at
           c == [schedule.cell[k] EXCEPT !.neighbor = clearing.neighbor]
<1>2. schedule' = schedule_removeActiveSlot(schedule, schedule.offset[k], c)
  BY DEF ClearRemoves
<1>3. c.neighbor \in Neighbor
  <2>1. schedule.cell[k] \in Cell /\ clearing.neighbor \in Neighbor
    BY <1>1 DEF Inv, TypeOK, Schedules
  <2>. QED BY <2>1 DEF Cell
<1>. HIDE DEF k, c
<1>4. Good(schedule', frameLength)
  <2>1. Removes(schedule, schedule')
    BY <1>2, <1>3, RemoveSound DEF Inv, Good
  <2>. QED BY <2>1, GoodRemoved DEF Inv
<1>5. schedule' \in Schedules
  BY <1>4 DEF Good, Sound
<1>6. /\ critical' \in BOOLEAN /\ clearing' = ClearNext
      /\ UNCHANGED <<frameLength, isSync, slotOffset, inUse, packets, transactions>>
  BY DEF ClearRemoves, Inv, TypeOK
<1>. QED BY <1>1, <1>4, <1>5, <1>6, ClearNextTyped DEF Inv, TypeOK

LEMMA BoardResetKeepsInv == BoardReset => Inv'
<1>. SUFFICES ASSUME BoardReset PROVE Inv'
  OBVIOUS
<1>1. Good(schedule', frameLength')
  BY InitialGood DEF BoardReset
<1>2. schedule' \in Schedules
  BY <1>1 DEF Good, Sound
<1>3. clearing' \in [neighbor : Neighbor \cup {ADDR_NONE}, at : 0..MAXACTIVESLOTS, found : BOOLEAN]
  BY SizeAssumption DEF BoardReset, Idle, NULL
<1>4. TypeOK'
  BY <1>2, <1>3, Kinds, Constants, RoleAssumption DEF BoardReset, TypeOK
<1>. QED BY <1>1, <1>4 DEF Inv, BoardReset

LEMMA InvNext == Inv /\ [Next]_vars => Inv'
<1>. SUFFICES ASSUME Inv, [Next]_vars PROVE Inv'
  OBVIOUS
<1>1. CASE Mac
  BY <1>1, MacKeepsInv
<1>2. CASE Task
  <2>1. CASE \E n \in Neighbor : sixtop_send_internal(n) \/ ClearStarts(n)
    BY <2>1, SendKeepsInv, ClearStartsKeepsInv
  <2>2. CASE Agree
    BY <2>2, AgreeKeepsInv
  <2>3. CASE \E t \in transactions : Conclude(t) \/ GiveUp(t)
    BY <2>3, ConcludeKeepsInv, GiveUpKeepsInv
  <2>4. CASE ClearTests \/ ClearRemoves
    BY <2>4, ClearTestsKeepsInv, ClearRemovesKeepsInv
  <2>. QED BY <1>2, <2>1, <2>2, <2>3, <2>4 DEF Task
<1>3. CASE BoardReset
  BY <1>3, BoardResetKeepsInv
<1>4. CASE UNCHANGED vars
  BY <1>4 DEF vars, Inv, TypeOK
<1>. QED BY <1>1, <1>2, <1>3, <1>4 DEF Next

THEOREM InvHolds == Spec => []Inv
  BY InvInit, InvNext, PTL DEF Spec

-----------------------------------------------------------------------------
(* The theorems *)

\* The schedule stays an array of entries with offsets in the slotframe and
\* links that are entries or null, through every function of schedule.c.
THEOREM ScheduleTypeOK == Spec => []TypeOK
<1>1. Inv => TypeOK
  BY DEF Inv
<1>. QED BY <1>1, InvHolds, PTL

\* The list of schedule.c is a sorted ring of exactly the active slots, one for
\* each offset, with the current entry on it: additions, removals and
\* promotions keep it, whatever the MAC and the tasks do.
THEOREM ScheduleRingOfSlots == Spec => []RingOfSlots
<1>1. Inv => RingOfSlots
  BY DEF Inv, Good, Sound, Ring, RingOfSlots
<1>. QED BY <1>1, InvHolds, PTL

\* No backup entry outranks the cell that is in the schedule.
THEOREM ScheduleHighestPriority == Spec => []HighestPriorityInSchedule
<1>1. Inv => HighestPriorityInSchedule
  BY DEF Inv, Good, Sound, Ordered, HighestPriorityInSchedule
<1>. QED BY <1>1, InvHolds, PTL

\* The minimal cell and the node's own autonomous cell are never removed, and
\* the latter only gives way to an autonomous cell to transmit in.
THEOREM ScheduleKeepsListening == Spec => []KeepsListening
<1>1. Inv => KeepsListening
  <2>. SUFFICES ASSUME Inv PROVE KeepsListening
    OBVIOUS
  <2>0. /\ Sound(schedule) /\ HasCell(schedule, MyHash, AutoRxCell)
        /\ frameLength # 0 => HasCell(schedule, 0, MinimalCell)
    BY DEF Inv, Good
  <2>1. frameLength # 0 =>
          \E k \in Active(schedule) : schedule.offset[k] = 0 /\ schedule.cell[k] = MinimalCell
    BY <2>0, ActiveEntry, AllowedCells DEF HasCell
  <2>2. PICK k \in Active(schedule) :
               /\ schedule.offset[k] = MyHash
               /\ \/ schedule.cell[k] = AutoRxCell
                  \/ \E i \in Backup : schedule.backup[k][i] = AutoRxCell
    BY <2>0 DEF HasCell
  <2>3. \/ schedule.cell[k] = AutoRxCell
        \/ \E n \in Neighbor : schedule.cell[k] = AutoTxCell(n)
    BY <2>0, <2>2, ActiveEntry, AllowedCells, Constants
  <2>. QED BY <2>1, <2>2, <2>3 DEF KeepsListening
<1>. QED BY <1>1, InvHolds, PTL

-----------------------------------------------------------------------------
(* The MAC and its schedule in step *)

\* How many slots before now the slot o was.
Behind(o, now) == IF o <= now THEN now - o ELSE now - o + SLOTFRAME_LENGTH

\* The current entry is the last active slot up to the present one: this says
\* nothing of the links, so that it is easy to follow through a removal.
InStep(s, now) ==
    \A k \in Active(s) : Behind(s.offset[s.current], now) <= Behind(s.offset[k], now)

\* The next active slot is the one after the last one.
LEMMA InStepNext ==
    ASSUME NEW s, Sound(s), NEW now \in Offset
    PROVE  InStep(s, now) <=>
             \A k \in Active(s) : After(s.offset[s.next[s.current]], now) <= After(s.offset[k], now)
<1> DEFINE A == Active(s)
           off(l) == s.offset[l]
           p == s.current
           n == s.next[p]
<1>1. /\ \A l \in A : off(l) \in Nat /\ off(l) < SLOTFRAME_LENGTH
      /\ \A l, m \in A : off(l) = off(m) => l = m
      /\ p \in A /\ Follows(s, p) /\ n \in A
      /\ SLOTFRAME_LENGTH \in Nat /\ now \in Nat /\ now < SLOTFRAME_LENGTH
  BY SizeAssumption DEF Sound, Ring, Schedules, Active, Offset, Follows
<1>2. \/ off(p) < off(n) /\ \A l \in A : off(l) <= off(p) \/ off(n) <= off(l)
      \/ off(n) <= off(p) /\ \A l \in A : off(n) <= off(l) /\ off(l) <= off(p)
  BY <1>1 DEF Follows
<1>. HIDE DEF A, off, p, n
<1>3. ASSUME \A k \in A : Behind(off(p), now) <= Behind(off(k), now), NEW k \in A
      PROVE  After(off(n), now) <= After(off(k), now)
  <2>1. Behind(off(p), now) <= Behind(off(k), now) /\ Behind(off(p), now) <= Behind(off(n), now)
    BY <1>1, <1>3
  <2>2. /\ off(k) \in Nat /\ off(k) < SLOTFRAME_LENGTH /\ off(n) \in Nat /\ off(n) < SLOTFRAME_LENGTH
        /\ off(p) \in Nat /\ off(p) < SLOTFRAME_LENGTH
    BY <1>1
  <2>3. \/ off(p) < off(n) /\ (off(k) <= off(p) \/ off(n) <= off(k))
        \/ off(n) <= off(p) /\ off(n) <= off(k) /\ off(k) <= off(p)
    BY <1>2
  <2>. QED BY <1>1, <2>1, <2>2, <2>3 DEF Behind, After
<1>4. ASSUME \A k \in A : After(off(n), now) <= After(off(k), now), NEW k \in A
      PROVE  Behind(off(p), now) <= Behind(off(k), now)
  <2>1. After(off(n), now) <= After(off(k), now) /\ After(off(n), now) <= After(off(p), now)
    BY <1>1, <1>4
  <2>2. /\ off(k) \in Nat /\ off(k) < SLOTFRAME_LENGTH /\ off(n) \in Nat /\ off(n) < SLOTFRAME_LENGTH
        /\ off(p) \in Nat /\ off(p) < SLOTFRAME_LENGTH
    BY <1>1
  <2>3. \/ off(p) < off(n) /\ (off(k) <= off(p) \/ off(n) <= off(k))
        \/ off(n) <= off(p) /\ off(n) <= off(k) /\ off(k) <= off(p)
    BY <1>2
  <2>4. off(n) = off(p) => off(k) = off(p)
    BY <2>2, <2>3
  <2>. QED BY <1>1, <2>1, <2>2, <2>3, <2>4 DEF Behind, After
<1>. QED BY <1>3, <1>4 DEF InStep, A, off, p, n

\* Where the current entry stays, and no active slot is new.
LEMMA InStepKept ==
    ASSUME NEW s, NEW r, NEW now, InStep(s, now), r.current = s.current,
           s.current \in Active(r),
           \A k \in Active(r) : k \in Active(s) /\ r.offset[k] = s.offset[k]
    PROVE  InStep(r, now)
  BY DEF InStep

\* The removal of the current entry leaves the one before it the current one.
LEMMA UnlinkInStep ==
    ASSUME NEW s, Sound(s), NEW now \in Offset, InStep(s, now), NEW k \in Active(s),
           NEW p \in Active(s) \ {k}, s.next[p] = k,
           NEW r, Unlinks(s, r, p, k), Active(r) = Active(s) \ {k}
    PROVE  InStep(r, now)
<1> DEFINE A == Active(s)
           off(l) == s.offset[l]
<1>1. /\ \A l \in A : off(l) \in Nat /\ off(l) < SLOTFRAME_LENGTH /\ l \in Container
      /\ \A l, m \in A : off(l) = off(m) => l = m
      /\ Follows(s, p) /\ s.current \in A
      /\ SLOTFRAME_LENGTH \in Nat /\ now \in Nat /\ now < SLOTFRAME_LENGTH
  BY SizeAssumption DEF Sound, Ring, Schedules, Active, Offset
<1>2. \A l \in Active(r) : l \in A /\ r.offset[l] = off(l)
  BY <1>1 DEF Unlinks
<1>3. CASE s.current # k
  BY <1>1, <1>2, <1>3, InStepKept DEF Unlinks
<1>4. CASE s.current = k
  <2>1. r.current = p /\ r.offset[p] = off(p)
    BY <1>2, <1>4 DEF Unlinks
  <2>2. ASSUME NEW l \in A \ {k} PROVE Behind(off(p), now) <= Behind(off(l), now)
    <3>1. Behind(off(k), now) <= Behind(off(l), now) /\ Behind(off(k), now) <= Behind(off(p), now)
      BY <1>4 DEF InStep
    <3>2. \/ off(p) < off(k) /\ (off(l) <= off(p) \/ off(k) <= off(l))
          \/ off(k) <= off(p) /\ off(k) <= off(l) /\ off(l) <= off(p)
      BY <1>1 DEF Follows
    <3>3. /\ off(l) \in Nat /\ off(l) < SLOTFRAME_LENGTH /\ off(l) # off(k)
          /\ off(k) \in Nat /\ off(k) < SLOTFRAME_LENGTH /\ off(p) # off(k)
          /\ off(p) \in Nat /\ off(p) < SLOTFRAME_LENGTH
      BY <1>1
    <3>. HIDE DEF off
    <3>. QED BY <1>1, <3>1, <3>2, <3>3 DEF Behind
  <2>. QED BY <1>2, <2>1, <2>2 DEF InStep
<1>. QED BY <1>3, <1>4

\* What schedule_removeActiveSlot does to the slots: the one it is called for
\* goes at most, and the MAC stays in step.
LEMMA RemoveInStep ==
    ASSUME NEW s, Sound(s), HasCell(s, MyHash, AutoRxCell),
           NEW o, NEW c, c.neighbor \in Neighbor,
           NEW r, r = schedule_removeActiveSlot(s, o, c)
    PROVE  /\ \A l \in Active(s) : s.offset[l] # o => l \in Active(r) /\ r.offset[l] = s.offset[l]
           /\ \A now \in Offset : InStep(s, now) => InStep(r, now)
<1>0. Removes(s, r)
  BY RemoveSound
<1>1. CASE ~Removable(s, o, c)
  BY <1>1 DEF schedule_removeActiveSlot
<1>2. CASE Removable(s, o, c)
  <2> DEFINE k == First(Matching(s, o, c))
             i == First(Named(s, k, c))
  <2>1. k \in Container /\ s.offset[k] = o /\ (s.cell[k].neighbor = c.neighbor \/ Named(s, k, c) # {})
    BY <1>2, FirstOne, Indices DEF Removable, Matching
  <2>2. r = IF s.cell[k].neighbor # c.neighbor THEN RemoveBackup(s, k, i)
            ELSE IF FreeBackups(s, k) # Backup THEN Promote(s, k) ELSE Unlink(s, k)
    BY <1>2 DEF schedule_removeActiveSlot
  <2>. HIDE DEF k, i
  <2>3. s \in Schedules /\ \A l \in Active(r) : l \in Active(s) /\ r.offset[l] = s.offset[l]
    BY <1>0 DEF Sound, Removes
  <2>4. CASE r.current = s.current /\ r.offset = s.offset /\ \A l \in Container \ {k} : r.cell[l] = s.cell[l]
    <3>1. s.current \in Active(r)
      BY <1>0, <2>4 DEF Removes, Sound, Ring
    <3>2. \A l \in Active(s) : s.offset[l] # o => l \in Active(r)
      BY <2>1, <2>4 DEF Active
    <3>. QED BY <2>3, <2>4, <3>1, <3>2, InStepKept
  <2>5. CASE s.cell[k].neighbor # c.neighbor
    BY <2>2, <2>3, <2>4, <2>5 DEF RemoveBackup, Schedules
  <2>6. CASE s.cell[k].neighbor = c.neighbor /\ FreeBackups(s, k) # Backup
    <3>1. r = Promote(s, k)
      BY <2>2, <2>6
    <3>. QED BY <2>1, <2>3, <2>4, <3>1 DEF Promote, Schedules
  <2>7. CASE s.cell[k].neighbor = c.neighbor /\ FreeBackups(s, k) = Backup
    <3>1. k \in Active(s)
      BY <2>1, <2>7, Fields DEF Sound, Placed, WellPlaced, Active
    <3>2. r = Unlink(s, k) /\ s.cell[k].neighbor \in Neighbor
      BY <2>2, <2>7
    <3>3. PICK p \in Active(s) \ {k} : s.next[p] = k /\ Unlinks(s, r, p, k)
      BY <2>7, <3>1, <3>2, UnlinkPredecessor
    <3>4. Active(r) = Active(s) \ {k}
      BY <2>7, <3>1, <3>3, UnlinkRing
    <3>. QED BY <2>1, <2>3, <3>1, <3>3, <3>4, UnlinkInStep
  <2>. QED BY <2>5, <2>6, <2>7
<1>. QED BY <1>1, <1>2

\* schedule_addActiveSlot adds a slot, which may be one the MAC has passed, or
\* none: then the MAC stays in step.
LEMMA AddInStep ==
    ASSUME NEW s, Sound(s), NEW now \in Offset, InStep(s, now),
           NEW o \in Offset, NEW c \in Allowed(o),
           NEW r, r = schedule_addActiveSlot(s, o, c),
           o \in ActiveSlots(r) => o \in ActiveSlots(s)
    PROVE  InStep(r, now)
<1>0. Sound(r) /\ s \in Schedules /\ s.current \in Active(s) /\ s.current # NULL
  BY AddSound, Indices DEF Sound, Ring, Active
<1>1. CASE Usable(s, o) = {}
  BY <1>1 DEF schedule_addActiveSlot
<1>2. CASE Usable(s, o) # {}
  <2> DEFINE k == First(Usable(s, o))
  <2>1. k \in Usable(s, o) /\ k \in Container
    BY <1>2, FirstOne, Indices DEF Usable
  <2>2. r = IF k \in Active(s) THEN AddBackup(s, k, c) ELSE Insert(s, k, o, c)
    BY <1>2 DEF schedule_addActiveSlot
  <2>. HIDE DEF k
  <2>3. CASE k \in Active(s)
    <3>1. s.offset[k] = o /\ FreeBackups(s, k) # {}
      BY <2>1, <2>3 DEF Usable
    <3>2. /\ Active(r) = Active(s) /\ r.offset = s.offset
      BY <2>2, <2>3, <3>1, AddBackupSound
    <3>3. r.current = s.current
      BY <1>0, <2>2, <2>3 DEF AddBackup, Schedules
    <3>. QED BY <1>0, <3>2, <3>3, InStepKept
  <2>4. CASE k \notin Active(s)
    <3>1. CASE \E p \in Active(s) : FitsAfter(s, p, o)
      <4> DEFINE p == CHOOSE p \in Active(s) : FitsAfter(s, p, o)
      <4>1. p \in Active(s) /\ FitsAfter(s, p, o)
        BY <3>1
      <4>2. r = InsertedAfter(s, p, k, o, c)
        BY <1>0, <2>2, <2>4, <3>1 DEF Insert, InsertedAfter
      <4>. HIDE DEF p
      <4>3. s.next[p] \in Container /\ c \in Cell /\ c.type # "OFF" /\ p \in Container
        BY <1>0, <4>1, AllowedCells DEF Sound, Ring, Follows, Active
      <4>4. InsertsAfter(s, r, p, k, o, c)
        BY <1>0, <2>1, <2>4, <4>1, <4>2, <4>3, InsertedFields
      <4>5. k \in Active(r) /\ r.offset[k] = o
        BY <2>1, <4>3, <4>4 DEF Active, InsertsAfter
      <4>6. PICK l \in Active(s) : s.offset[l] = o
        BY <4>5 DEF ActiveSlots
      <4>7. l \in Active(r) /\ r.offset[l] = o /\ l # k
        BY <2>4, <4>4, <4>6 DEF Active, InsertsAfter
      <4>. QED BY <1>0, <4>5, <4>7 DEF Sound, Ring
    <3>2. CASE ~\E p \in Active(s) : FitsAfter(s, p, o)
      <4>1. r = Duplicate(s, k, c)
        BY <1>0, <2>2, <2>4, <3>2 DEF Insert
      <4>2. r.current = s.current /\ \A l \in Container \ {k} : r.cell[l] = s.cell[l] /\ r.offset[l] = s.offset[l]
        BY <1>0, <2>1, <4>1 DEF Duplicate, Schedules
      <4>3. r.cell[k].type = "OFF"
        BY <1>0, <2>1, <4>1, Kinds DEF Duplicate, Schedules
      <4>4. Active(r) = Active(s) /\ \A l \in Active(s) : r.offset[l] = s.offset[l]
        BY <2>4, <4>2, <4>3 DEF Active
      <4>. QED BY <1>0, <4>2, <4>4, InStepKept
    <3>. QED BY <3>1, <3>2
  <2>. QED BY <2>3, <2>4
<1>. QED BY <1>1, <1>2

\* The clean-up of a slot removes a cell at most.
LEMMA EndSlotInStep ==
    ASSUME NEW s, NEW length, Good(s, length), NEW waiting, NEW now \in Offset,
           InStep(s, now), endSlot(s, waiting, now)
    PROVE  InStep(schedule', now)
<1> DEFINE c == s.cell[s.current]
<1>1. CASE ~(s.offset[s.current] = now /\ c.isAutoCell /\ c.type = "TX" /\ c.neighbor \notin waiting)
  BY <1>1 DEF endSlot
<1>2. CASE s.offset[s.current] = now /\ c.isAutoCell /\ c.type = "TX" /\ c.neighbor \notin waiting
  <2>1. c \in Allowed(s.offset[s.current])
    BY ActiveEntry DEF Good, Sound, Ring
  <2>2. c.neighbor \in Neighbor
    BY <1>2, <2>1, AllowedCells
  <2>3. schedule' = schedule_removeActiveSlot(s, now, AutoTxCell(c.neighbor))
    BY <1>2 DEF endSlot
  <2>4. AutoTxCell(c.neighbor).neighbor \in Neighbor
    BY <2>2, Fields
  <2>. QED BY <2>3, <2>4, RemoveInStep DEF Good
<1>. QED BY <1>1, <1>2

\* An entry of the present slot is in step, whatever the others are.
LEMMA PresentInStep ==
    ASSUME NEW s, Sound(s), NEW now \in Offset, s.offset[s.current] = now
    PROVE  InStep(s, now)
<1>1. SLOTFRAME_LENGTH \in Nat /\ \A x \in Offset : x \in Nat /\ x < SLOTFRAME_LENGTH
  BY SizeAssumption DEF Offset
<1>2. \A k \in Active(s) : s.offset[k] \in Offset
  BY ActiveEntry
<1>3. Behind(now, now) = 0 /\ \A x \in Offset : Behind(x, now) >= 0
  BY <1>1 DEF Behind
<1>. QED BY <1>2, <1>3 DEF InStep

LEMMA NewSlotIs ==
    ASSUME slotOffset \in Offset
    PROVE  NewSlot = IF slotOffset + 1 = SLOTFRAME_LENGTH THEN 0 ELSE slotOffset + 1
  BY SizeAssumption DEF NewSlot, Offset

\* A slot that is not active does not make the current entry an older one.
LEMMA InactiveInStep ==
    ASSUME NEW s, Sound(s), slotOffset \in Offset, InStep(s, slotOffset),
           s.offset[s.next[s.current]] # NewSlot
    PROVE  InStep(s, NewSlot)
<1> DEFINE L == SLOTFRAME_LENGTH
           off(l) == s.offset[l]
           p == s.current
           n == s.next[p]
<1>1. /\ \A l \in Active(s) : off(l) \in Nat /\ off(l) < L
      /\ p \in Active(s) /\ n \in Active(s)
      /\ L \in Nat /\ slotOffset \in Nat /\ slotOffset < L
  BY SizeAssumption DEF Sound, Ring, Schedules, Active, Offset, Follows
<1>2. \A l \in Active(s) : After(off(n), slotOffset) <= After(off(l), slotOffset)
  BY InStepNext
<1>3. NewSlot = IF slotOffset + 1 = L THEN 0 ELSE slotOffset + 1
  BY NewSlotIs
<1>4. ASSUME NEW l \in Active(s) PROVE Behind(off(p), NewSlot) <= Behind(off(l), NewSlot)
  <2>1. /\ off(l) \in Nat /\ off(l) < L /\ off(n) \in Nat /\ off(n) < L
        /\ off(p) \in Nat /\ off(p) < L /\ off(n) # NewSlot
    BY <1>1
  <2>2. /\ After(off(n), slotOffset) <= After(off(l), slotOffset)
        /\ Behind(off(p), slotOffset) <= Behind(off(l), slotOffset)
    BY <1>1, <1>2 DEF InStep
  <2>. HIDE DEF off, p, n
  <2>3. off(l) # NewSlot
    BY <1>1, <1>3, <2>1, <2>2 DEF After
  <2>. QED BY <1>1, <1>3, <2>1, <2>2, <2>3 DEF Behind
<1>. QED BY <1>4 DEF InStep

InStepNow == isSync => InStep(schedule, slotOffset)

LEMMA NextFound == Inv => (NextActiveSlotFound <=> InStepNow)
<1>. SUFFICES ASSUME Inv PROVE NextActiveSlotFound <=> InStepNow
  OBVIOUS
<1>1. Sound(schedule) /\ slotOffset \in Offset
  BY DEF Inv, Good, TypeOK
<1>. QED BY <1>1, InStepNext DEF NextActiveSlotFound, InStepNow, NextEntry

LEMMA MacInStep ==
    ASSUME Inv, Inv', InStepNow, Mac
    PROVE  InStepNow'
<1>0. /\ Good(schedule, frameLength) /\ slotOffset \in Offset /\ NewSlot \in Offset
      /\ Sound(schedule) /\ Sound(schedule')
  BY NewSlotOffset DEF Inv, TypeOK, Good
<1>1. CASE Synchronize
  <2> DEFINE s == IF frameLength = 0 THEN schedule_addActiveSlot(schedule, 0, MinimalCell)
                  ELSE schedule
  <2>1. schedule' = schedule_syncSlotOffset(s, 0) /\ slotOffset' = 0
    BY <1>1 DEF Synchronize
  <2>2. Sound(s) /\ HasCell(s, 0, MinimalCell)
    BY BeaconSchedule
  <2>. HIDE DEF s
  <2>3. schedule'.offset[schedule'.current] = 0
    BY <2>1, <2>2, SyncSound
  <2>. QED BY <1>0, <2>1, <2>3, PresentInStep, Constants DEF InStepNow
<1>2. CASE Desynchronize
  BY <1>2 DEF Desynchronize, InStepNow
<1>3. CASE InactiveSlot
  <2>1. isSync /\ slotOffset' = NewSlot /\ endSlot(schedule, packets, NewSlot)
        /\ schedule.offset[schedule.next[schedule.current]] # NewSlot
    BY <1>3 DEF InactiveSlot, NextEntry
  <2>2. InStep(schedule, NewSlot)
    BY <1>0, <2>1, InactiveInStep DEF InStepNow
  <2>3. InStep(schedule', NewSlot)
    BY <1>0, <2>1, <2>2, EndSlotInStep
  <2>. QED BY <2>1, <2>3 DEF InStepNow
<1>4. CASE ActiveSlot
  <2> DEFINE s == schedule_advanceSlot
  <2>1. /\ slotOffset' = NewSlot /\ schedule.offset[NextEntry] = NewSlot
        /\ schedule' = s \/ endSlot(s, packets, NewSlot)
    BY <1>4 DEF ActiveSlot
  <2>2. s.current = NextEntry /\ s.offset = schedule.offset
    BY <1>0 DEF schedule_advanceSlot, Sound, Schedules
  <2>3. Good(s, frameLength)
    BY NextEntryActive
  <2>. HIDE DEF s
  <2>4. InStep(s, NewSlot)
    BY <1>0, <2>1, <2>2, <2>3, PresentInStep DEF Good
  <2>5. InStep(schedule', NewSlot)
    BY <1>0, <2>1, <2>3, <2>4, EndSlotInStep
  <2>. QED BY <2>1, <2>5 DEF InStepNow
<1>5. CASE EndActiveSlot
  <2>1. /\ endSlot(schedule, packets', slotOffset)
        /\ slotOffset' = slotOffset /\ isSync' = isSync
    BY <1>5 DEF EndActiveSlot
  <2>. QED BY <1>0, <2>1, EndSlotInStep DEF InStepNow
<1>. QED BY <1>1, <1>2, <1>3, <1>4, <1>5 DEF Mac

\* A task that adds no slot, or removes one, leaves the MAC in step.
LEMMA SendInStep ==
    ASSUME Inv, InStepNow, ~AddsASlot, NEW n \in Neighbor, sixtop_send_internal(n)
    PROVE  InStepNow'
<1>1. /\ Sound(schedule) /\ slotOffset \in Offset /\ isSync' = isSync /\ slotOffset' = slotOffset
      /\ ActiveSlots(schedule') \subseteq ActiveSlots(schedule)
      /\ \/ schedule' = schedule
         \/ schedule' = schedule_addActiveSlot(schedule, Hash[n], AutoTxCell(n))
  BY DEF Inv, Good, TypeOK, sixtop_send_internal, AddsASlot
<1>2. CASE schedule' = schedule
  BY <1>1, <1>2 DEF InStepNow
<1>3. CASE schedule' = schedule_addActiveSlot(schedule, Hash[n], AutoTxCell(n))
  <2>1. Hash[n] \in Offset /\ AutoTxCell(n) \in Allowed(Hash[n])
    BY AllowedKinds, Constants
  <2>2. InStep(schedule, slotOffset) => InStep(schedule', slotOffset)
    BY <1>1, <1>3, <2>1, AddInStep
  <2>. QED BY <1>1, <2>2 DEF InStepNow
<1>. QED BY <1>1, <1>2, <1>3

LEMMA ConcludeInStep ==
    ASSUME Inv, InStepNow, ~AddsASlot, NEW t \in transactions, Conclude(t)
    PROVE  InStepNow'
<1> DEFINE c == NegotiatedCell(t.neighbor, t.type)
           removed == IF t.delete = NoOffset THEN schedule
                      ELSE schedule_removeActiveSlot(schedule, t.delete, c)
<1>1. /\ t.neighbor \in Neighbor /\ t.type \in {"TX", "RX"} /\ t.add \in Offset \cup {NoOffset}
      /\ t.add # NoOffset => t.add \notin {0, MyHash, t.delete}
      /\ Sound(schedule) /\ HasCell(schedule, MyHash, AutoRxCell) /\ slotOffset \in Offset
  BY DEF Inv, Good, TypeOK, Transaction
<1>2. c.neighbor \in Neighbor /\ (t.add # NoOffset => t.add \in Offset /\ c \in Allowed(t.add))
  BY <1>1, Fields, AllowedKinds
<1>3. schedule' = IF t.add = NoOffset THEN removed ELSE schedule_addActiveSlot(removed, t.add, c)
  BY DEF Conclude
<1>4. /\ isSync' = isSync /\ slotOffset' = slotOffset
      /\ ActiveSlots(schedule') \subseteq ActiveSlots(schedule)
  BY DEF Conclude, AddsASlot
<1>5. /\ Sound(removed)
      /\ \A l \in Active(schedule) : schedule.offset[l] # t.delete
             => l \in Active(removed) /\ removed.offset[l] = schedule.offset[l]
      /\ InStep(schedule, slotOffset) => InStep(removed, slotOffset)
  <2>1. CASE t.delete = NoOffset
    BY <1>1, <2>1
  <2>2. CASE t.delete # NoOffset
    <3>1. removed = schedule_removeActiveSlot(schedule, t.delete, c)
      BY <2>2
    <3>. HIDE DEF removed, c
    <3>. QED BY <1>1, <1>2, <3>1, RemoveSound, RemoveInStep DEF Removes
  <2>. QED BY <2>1, <2>2
<1>. HIDE DEF removed, c
<1>6. CASE t.add = NoOffset
  BY <1>3, <1>4, <1>5, <1>6 DEF InStepNow
<1>7. CASE t.add # NoOffset
  <2>1. t.add \in ActiveSlots(schedule') => t.add \in ActiveSlots(removed)
    BY <1>1, <1>4, <1>5, <1>7 DEF ActiveSlots
  <2>2. InStep(removed, slotOffset) => InStep(schedule', slotOffset)
    BY <1>1, <1>2, <1>3, <1>5, <1>7, <2>1, AddInStep
  <2>. QED BY <1>4, <1>5, <2>2 DEF InStepNow
<1>. QED BY <1>6, <1>7

LEMMA ClearRemovesInStep ==
    ASSUME Inv, InStepNow, ClearRemoves
    PROVE  InStepNow'
<1>1. clearing # Idle
  BY DEF ClearRemoves, Idle
<1> DEFINE k == clearing.at
           c == [schedule.cell[k] EXCEPT !.neighbor = clearing.neighbor]
<1>2. schedule' = schedule_removeActiveSlot(schedule, schedule.offset[k], c)
  BY DEF ClearRemoves
<1>3. c.neighbor \in Neighbor
  <2>1. schedule.cell[k] \in Cell /\ clearing.neighbor \in Neighbor
    BY <1>1 DEF Inv, TypeOK, Schedules
  <2>. QED BY <2>1 DEF Cell
<1>. HIDE DEF k, c
<1>4. InStep(schedule, slotOffset) => InStep(schedule', slotOffset)
  BY <1>2, <1>3, RemoveInStep DEF Inv, Good, TypeOK
<1>. QED BY <1>4 DEF InStepNow, ClearRemoves

LEMMA ResetInStep ==
    ASSUME Inv', BoardReset
    PROVE  InStepNow'
<1>1. CASE BootsAsDAGroot
  <2> DEFINE s == schedule_addActiveSlot(schedule_init, 0, MinimalCell)
  <2>1. Sound(s) /\ \A k \in Active(s) : s.offset[k] = 0
    BY Constants, AllowedKinds, AddFirst
  <2>2. schedule' = schedule_addActiveSlot(s, MyHash, AutoRxCell) /\ slotOffset' = 0
    BY <1>1 DEF BoardReset, InitialSchedule
  <2>. HIDE DEF s
  <2>3. schedule'.offset[schedule'.current] = 0
    BY <2>1, <2>2, Constants, AllowedKinds, AddSecond
  <2>4. Sound(schedule')
    BY DEF Inv, Good
  <2>. QED BY <2>2, <2>3, <2>4, Constants, PresentInStep DEF InStepNow
<1>2. CASE ~BootsAsDAGroot
  BY <1>2 DEF BoardReset, InStepNow
<1>. QED BY <1>1, <1>2

LEMMA StepInStep ==
    ASSUME Inv, [Next]_vars, InStepNow, ~AddsASlot
    PROVE  InStepNow'
<1>0. Inv'
  BY InvNext
<1>1. CASE Mac
  BY <1>0, <1>1, MacInStep
<1>2. CASE Task
  <2>1. CASE \E n \in Neighbor : sixtop_send_internal(n)
    BY <2>1, SendInStep
  <2>2. CASE \E t \in transactions : Conclude(t)
    BY <2>2, ConcludeInStep
  <2>3. CASE ClearRemoves
    BY <2>3, ClearRemovesInStep
  <2>4. CASE \/ \E n \in Neighbor : ClearStarts(n)
             \/ Agree \/ \E t \in transactions : GiveUp(t)
             \/ ClearTests
    <3>1. UNCHANGED <<schedule, isSync, slotOffset>>
      BY <2>4 DEF ClearStarts, Agree, GiveUp, ClearTests
    <3>. QED BY <3>1 DEF InStepNow
  <2>. QED BY <1>2, <2>1, <2>2, <2>3, <2>4 DEF Task
<1>3. CASE BoardReset
  BY <1>0, <1>3, ResetInStep
<1>4. CASE UNCHANGED vars
  BY <1>4 DEF vars, InStepNow
<1>. QED BY <1>1, <1>2, <1>3, <1>4 DEF Next

\* Unless a slot is added, no step of the MAC or of a task makes the MAC wait
\* for another slot than the next active one: schedule_removeActiveSlot sets
\* the current entry back when it removes it, and the MAC advances the
\* schedule in every active slot, also without a packet.
THEOREM ScheduleStaysInStep == Spec => StaysInStep
<1>1. Inv /\ [Next]_vars => [InStepNow /\ ~AddsASlot => InStepNow']_vars
  BY StepInStep
<1>. QED BY <1>1, NextFound, InvHolds, PTL DEF Spec, StaysInStep
=============================================================================
