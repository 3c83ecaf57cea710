--------------------------------- MODULE Rpl ---------------------------------
(***************************************************************************)
(* The neighbor table of neighbors.c and the routing of icmpv6rpl.c at one   *)
(* node, whatever its neighbors announce and however well it hears them.     *)
(*                                                                          *)
(* RPL keeps the index of its preferred parent in the neighbor table; the    *)
(* table marks the same row, so as not to remove it.  The rank of the node   *)
(* is that of the parent and the cost of the link, which comes from the      *)
(* transmissions counted in the row: a change of either runs the selection   *)
(* again, but not before enough transmissions to the parent are counted.     *)
(*                                                                          *)
(* Everything runs in tasks, which do not preempt each other: one action is  *)
(* one task.                                                                 *)
(***************************************************************************)
EXTENDS Integers, FiniteSets

CONSTANTS
    MAXNUMNEIGHBORS,          \* rows of the table
    Address,                  \* the nodes around
    SWITCHSTABILITYTHRESHOLD, \* receptions that make a neighbor stable or unstable
    DEFAULTLINKCOST,          \* transmissions assumed of an unknown link
    MINIMAL_NUM_TX,           \* transmissions that make a link known
    MAX_NUM_TX,               \* the largest value of the counters of transmissions
    MINHOPRANKINCREASE,       \* the rank of the root, and the cost of the best link
    DAGMAXRANKINCREASE,       \* how far the rank may rise
    MAXDAGRANK,               \* the largest rank, that of a node without a route
    Announced,                \* bound: the ranks each neighbor announces
    Attempts                  \* bound: attempts of a packet that is acknowledged, or is not

ASSUME AddressAssumption == Address # {}
ASSUME TableAssumption == MAXNUMNEIGHBORS \in Nat \ {0}
ASSUME ThresholdAssumption ==
    /\ {SWITCHSTABILITYTHRESHOLD, DEFAULTLINKCOST, MINIMAL_NUM_TX, MINHOPRANKINCREASE} \subseteq Nat \ {0}
    /\ DAGMAXRANKINCREASE \in Nat
ASSUME CounterAssumption == MAX_NUM_TX \in Nat /\ Attempts \in [BOOLEAN -> SUBSET (1..MAX_NUM_TX)]
ASSUME RankAssumption ==
    /\ MAXDAGRANK \in Nat /\ MAXDAGRANK > MINHOPRANKINCREASE
    /\ Announced \in [Address -> SUBSET (0..MAXDAGRANK)]

\* Halving the counters does not make a known link unknown.
ASSUME HalvingAssumption ==
    \A n \in 0..MAX_NUM_TX, a \in Attempts[TRUE] \cup Attempts[FALSE] :
        n + a > MAX_NUM_TX => n \div 2 + a > MINIMAL_NUM_TX /\ n \div 2 + a <= MAX_NUM_TX

Index == 0..(MAXNUMNEIGHBORS - 1)
Rank  == 0..MAXDAGRANK

DEFAULTDAGRANK == MAXDAGRANK

VARIABLES
    neighbors,            \* the table
    ParentIndex,          \* the row of the preferred parent
    haveParent,
    myDAGrank,
    lowestRankInHistory,
    isDAGroot

rpl  == <<ParentIndex, haveParent, myDAGrank, lowestRankInHistory>>
vars == <<neighbors, rpl, isDAGroot>>

Row == [used : BOOLEAN, addr : Address, stableNeighbor : BOOLEAN, switchStabilityCounter : Nat,
        DAGrank : Rank, numTx : 0..MAX_NUM_TX, numTxACK : 0..MAX_NUM_TX,
        f6PNORES : BOOLEAN, parentPreference : BOOLEAN]

TypeOK ==
    /\ neighbors \in [Index -> Row]
    /\ ParentIndex \in Index
    /\ {haveParent, isDAGroot} \subseteq BOOLEAN
    /\ {myDAGrank, lowestRankInHistory} \subseteq Rank

\* The address of a row that is not used is never read.
EmptyRow(a, isUsed) ==
    [used |-> isUsed, addr |-> a, stableNeighbor |-> isUsed, switchStabilityCounter |-> 0,
     DAGrank |-> DEFAULTDAGRANK, numTx |-> 0, numTxACK |-> 0,
     f6PNORES |-> FALSE, parentPreference |-> FALSE]

\* All new neighbors are considered stable.
UnusedRow(a) == EmptyRow(a, FALSE)
NewRow(a)    == EmptyRow(a, TRUE)

Init ==
    /\ neighbors = [i \in Index |-> UnusedRow(CHOOSE a \in Address : TRUE)]
    /\ ParentIndex = 0
    /\ haveParent = FALSE
    /\ isDAGroot = FALSE
    /\ myDAGrank = DEFAULTDAGRANK
    /\ lowestRankInHistory = MAXDAGRANK

-----------------------------------------------------------------------------
(* The table *)

RowsOf(rows, a) == {i \in Index : rows[i].used /\ rows[i].addr = a}

Saturated(rank) == IF rank > MAXDAGRANK THEN MAXDAGRANK ELSE rank

DefaultMetric == (3 * DEFAULTLINKCOST - 2) * MINHOPRANKINCREASE

\* OF0: three times the transmissions an acknowledgement takes, less 2.
LinkMetric(row) ==
    Saturated(
        IF row.numTxACK # 0
        THEN (3 * row.numTx * MINHOPRANKINCREASE) \div row.numTxACK - 2 * MINHOPRANKINCREASE
        ELSE IF row.numTx <= DEFAULTLINKCOST THEN DefaultMetric
        ELSE IF row.numTx < MINIMAL_NUM_TX   THEN (3 * row.numTx - 2) * MINHOPRANKINCREASE
        ELSE MAXDAGRANK)

ReachedMinimalTransmission(row) == row.used /\ row.numTx > MINIMAL_NUM_TX

\* The rank of this node with that neighbor as its parent.
RankThrough(row) == Saturated(row.DAGrank + LinkMetric(row))

\* What is heard: above BADNEIGHBORMAXRSSI, below GOODNEIGHBORMINRSSI, or between.
Rssi == {"strong", "weak", "fair"}

\* A neighbor turns stable when it is heard well a few times in a row, and
\* unstable when it is heard badly.
Heard(row, rssi) ==
    IF rssi = (IF row.stableNeighbor THEN "weak" ELSE "strong")
    THEN IF row.switchStabilityCounter + 1 >= SWITCHSTABILITYTHRESHOLD
         THEN [row EXCEPT !.switchStabilityCounter = 0, !.stableNeighbor = ~@]
         ELSE [row EXCEPT !.switchStabilityCounter = @ + 1]
    ELSE [row EXCEPT !.switchStabilityCounter = 0]

FreeRows == {i \in Index : ~neighbors[i].used}

\* A new neighbor takes the first free row, unless it is heard badly.
TakesRow(a, rssi, i) ==
    /\ RowsOf(neighbors, a) = {} /\ rssi # "weak"
    /\ i \in FreeRows /\ \A j \in FreeRows : i <= j

\* Where a packet of that neighbor is counted, if anywhere, and what it leaves there.
RowFor(a, rssi) == RowsOf(neighbors, a) \cup {i \in Index : TakesRow(a, rssi, i)}

RowAfter(a, rssi, i) ==
    IF i \in RowsOf(neighbors, a) THEN Heard(neighbors[i], rssi) ELSE NewRow(a)

-----------------------------------------------------------------------------
(* icmpv6rpl_updateMyDAGrankAndParentSelection, on a table just changed *)

Refused(rows) == rows[ParentIndex].f6PNORES

\* Not enough transmissions to the parent: nothing is updated.
WaitsForStatistics(rows) ==
    haveParent /\ ~Refused(rows) /\ ~ReachedMinimalTransmission(rows[ParentIndex])

\* The rank of the node before it looks for a better parent.
PreviousRank(rows) ==
    IF ~haveParent THEN myDAGrank
    ELSE IF Refused(rows) THEN MAXDAGRANK ELSE RankThrough(rows[ParentIndex])

\* Not too far above the lowest rank, and low enough to justify a switch.
IsCandidate(rows, i) ==
    /\ rows[i].used /\ rows[i].stableNeighbor
    /\ ~rows[i].f6PNORES
    /\ rows[i].DAGrank # DEFAULTDAGRANK
    /\ \/ lowestRankInHistory >= MAXDAGRANK - DAGMAXRANKINCREASE
       \/ RankThrough(rows[i]) <= lowestRankInHistory + DAGMAXRANKINCREASE
    /\ PreviousRank(rows) - RankThrough(rows[i]) >= 2 * MINHOPRANKINCREASE

\* The first of the best.
IsBetterParent(rows, i) ==
    /\ IsCandidate(rows, i)
    /\ \A j \in Index : IsCandidate(rows, j) =>
          \/ RankThrough(rows[i]) < RankThrough(rows[j])
          \/ RankThrough(rows[i]) = RankThrough(rows[j]) /\ i <= j

\* neighbors_setPreferredParent: the mark of the former parent is cleared.
Prefers(rows, i) ==
    [k \in Index |-> IF k = i THEN [rows[k] EXCEPT !.parentPreference = TRUE]
                     ELSE IF k = ParentIndex THEN [rows[k] EXCEPT !.parentPreference = FALSE]
                     ELSE rows[k]]

TakesParent(rows, i) ==
    /\ IsBetterParent(rows, i)
    /\ neighbors' = Prefers(rows, i)
    /\ ParentIndex' = i
    /\ haveParent' = TRUE
    /\ myDAGrank' = RankThrough(rows[i])
    /\ lowestRankInHistory' =
          IF RankThrough(rows[i]) < lowestRankInHistory THEN RankThrough(rows[i])
                                                        ELSE lowestRankInHistory

\* A rank that cannot rise further lifts the limit.
KeepsParent(rows) ==
    /\ \A i \in Index : ~IsCandidate(rows, i)
    /\ neighbors' = rows
    /\ myDAGrank' = PreviousRank(rows)
    /\ lowestRankInHistory' = IF PreviousRank(rows) = MAXDAGRANK THEN MAXDAGRANK
                                                                 ELSE lowestRankInHistory
    /\ UNCHANGED <<ParentIndex, haveParent>>

\* The root only takes its rank when it has another one.
updateMyDAGrankAndParentSelection(rows, root) ==
    IF root /\ myDAGrank # MINHOPRANKINCREASE
    THEN /\ neighbors' = rows
         /\ myDAGrank' = MINHOPRANKINCREASE
         /\ UNCHANGED <<ParentIndex, haveParent, lowestRankInHistory>>
    ELSE IF WaitsForStatistics(rows)
    THEN neighbors' = rows /\ UNCHANGED rpl
    ELSE \/ \E i \in Index : TakesParent(rows, i)
         \/ KeepsParent(rows)

-----------------------------------------------------------------------------
(* The tasks *)

\* A packet that is no DIO, or one at the root, which drops it.
neighbors_indicateRx(a) ==
    /\ \E rssi \in Rssi : \E i \in RowFor(a, rssi) :
          neighbors' = [neighbors EXCEPT ![i] = RowAfter(a, rssi, i)]
    /\ UNCHANGED <<rpl, isDAGroot>>

NewRank_Unwrapped(rank, announced) ==
    IF announced - rank > DefaultMetric THEN rank + 2 * DefaultMetric ELSE announced

\* A rank that rises suspiciously is not taken as it is; the sum has 16 bits.
NewRank(rank, announced) ==
    IF announced - rank > DefaultMetric
    THEN (rank + 2 * DefaultMetric) % (MAXDAGRANK + 1)
    ELSE announced

\* A DIO is a packet first: its sender may be registered, then its rank is kept.
icmpv6rpl_indicateRxDIO(a) ==
    /\ ~isDAGroot
    /\ UNCHANGED isDAGroot
    /\ \E rssi \in Rssi, announced \in Announced[a] : \E i \in RowFor(a, rssi) :
          updateMyDAGrankAndParentSelection(
              [neighbors EXCEPT ![i] = [RowAfter(a, rssi, i) EXCEPT !.DAGrank = NewRank(@, announced)]],
              isDAGroot)

Counted_HalvesOne(row, attempts, acked) ==
    LET n == IF row.numTx + attempts > MAX_NUM_TX THEN row.numTx \div 2 ELSE row.numTx
    IN  [row EXCEPT !.numTx = n + attempts, !.numTxACK = @ + IF acked THEN 1 ELSE 0]

\* The counters are halved together when one would overflow.
Counted(row, attempts, acked) ==
    LET d == IF row.numTx + attempts > MAX_NUM_TX THEN 2 ELSE 1
    IN  [row EXCEPT !.numTx = @ \div d + attempts,
                    !.numTxACK = @ \div d + IF acked THEN 1 ELSE 0]

\* A packet was sent on a cell of its own, and given up or acknowledged.
neighbors_indicateTx(a) ==
    /\ UNCHANGED isDAGroot
    /\ \E i \in RowsOf(neighbors, a), acked \in BOOLEAN :
        \E attempts \in Attempts[acked] :
          updateMyDAGrankAndParentSelection(
              [neighbors EXCEPT ![i] = Counted(@, attempts, acked)], isDAGroot)

\* The neighbor has answered a 6P request with RC_BUSY.
neighbors_setNeighborNoResource(a) ==
    /\ UNCHANGED isDAGroot
    /\ \E i \in RowsOf(neighbors, a) :
          updateMyDAGrankAndParentSelection([neighbors EXCEPT ![i].f6PNORES = TRUE], isDAGroot)

Removable_Any(i) == neighbors[i].used /\ ~neighbors[i].f6PNORES

Removable(i) == neighbors[i].used /\ ~neighbors[i].f6PNORES /\ ~neighbors[i].parentPreference

\* Neighbors that were not heard for long, and that no packet waits for, one by one.
neighbors_removeOld ==
    /\ haveParent /\ ~neighbors[ParentIndex].f6PNORES
    /\ \E i \in Index :
          /\ Removable(i)
          /\ neighbors' = [neighbors EXCEPT ![i] = UnusedRow(neighbors[i].addr)]
    /\ UNCHANGED <<rpl, isDAGroot>>

\* A command over the serial port.
idmanager_setIsDAGroot(newRole) ==
    /\ isDAGroot' = newRole
    /\ updateMyDAGrankAndParentSelection(neighbors, newRole)

-----------------------------------------------------------------------------

Next ==
    \/ \E a \in Address :
          \/ neighbors_indicateRx(a)
          \/ icmpv6rpl_indicateRxDIO(a)
          \/ neighbors_indicateTx(a)
          \/ neighbors_setNeighborNoResource(a)
    \/ neighbors_removeOld
    \/ \E newRole \in BOOLEAN : idmanager_setIsDAGroot(newRole)

Spec == Init /\ [][Next]_vars

-----------------------------------------------------------------------------
(* Properties *)

\* The row of the parent stays in use and is the only one marked as preferred,
\* so that it cannot be removed, or given to another neighbor, under RPL.
ParentKept ==
    /\ haveParent => neighbors[ParentIndex].used
    /\ \A i \in Index : neighbors[i].parentPreference <=> haveParent /\ i = ParentIndex

\* The rank grows from the parent to the node by a hop at least, once the link
\* is known, whatever the parent announces and however the counters are halved.
RankAboveParent ==
    haveParent /\ ~isDAGroot /\ ReachedMinimalTransmission(neighbors[ParentIndex]) =>
        \/ myDAGrank = MAXDAGRANK
        \/ myDAGrank >= neighbors[ParentIndex].DAGrank + MINHOPRANKINCREASE
=============================================================================
