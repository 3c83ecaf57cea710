------------------------------ MODULE Rpl_proofs ------------------------------
(***************************************************************************)
(* What holds of the routing for every size of the table and every value of  *)
(* its thresholds.  The cost of a link is at least a hop because the         *)
(* acknowledgements never outnumber the transmissions, which the halving of  *)
(* the counters preserves; the rest of the invariant is inductive with it.   *)
(***************************************************************************)
EXTENDS Rpl, TLAPS

AcksWithinAttempts(rows) == \A i \in Index : rows[i].numTxACK <= rows[i].numTx

IInv == TypeOK /\ ParentKept /\ AcksWithinAttempts(neighbors) /\ RankAboveParent

\* A table that a task has just changed: RPL's parent is still in it, and marked.
Consistent(rows) ==
    /\ rows \in [Index -> Row]
    /\ AcksWithinAttempts(rows)
    /\ haveParent => rows[ParentIndex].used
    /\ \A i \in Index : rows[i].parentPreference <=> haveParent /\ i = ParentIndex

USE DEF Index, Rank

-----------------------------------------------------------------------------

\* A quotient is at least k when the dividend is at least k times the divisor.
LEMMA QuotientBound ==
    ASSUME NEW x \in Nat, NEW a \in Nat \ {0}, NEW k \in Nat, x >= a * k
    PROVE  x \div a >= k
<1> DEFINE q == x \div a
<1>1. q \in Nat /\ x < a * (q + 1)
  BY Z3
<1>2. CASE q + 1 <= k
  <2>1. a * (q + 1) <= a * k
    BY <1>1, <1>2, Z3
  <2>. QED BY <1>1, <2>1, Z3
<1>. QED BY <1>1, <1>2, Z3

\* The cost of a link is at least one hop.
LEMMA LinkCostsAHop ==
    ASSUME NEW row \in Row, row.numTxACK <= row.numTx
    PROVE  /\ LinkMetric(row) \in Nat
           /\ MINHOPRANKINCREASE <= LinkMetric(row)
<1> DEFINE h == MINHOPRANKINCREASE
           n == row.numTx
           a == row.numTxACK
<1>0. /\ h \in Nat \ {0} /\ n \in Nat /\ a \in Nat /\ a <= n
      /\ DEFAULTLINKCOST \in Nat \ {0}
      /\ MAXDAGRANK \in Nat /\ MAXDAGRANK > h
  BY ThresholdAssumption, RankAssumption, CounterAssumption DEF Row
<1>1. CASE a # 0
  <2>1. 3 * n * h >= a * (3 * h)
    BY <1>0, Z3
  <2>2. 3 * n * h \in Nat /\ 3 * h \in Nat
    BY <1>0, Z3
  <2>3. (3 * n * h) \div a >= 3 * h
    BY <1>0, <1>1, <2>1, <2>2, QuotientBound
  <2>4. (3 * n * h) \div a \in Nat
    BY <1>0, <1>1, <2>2, Z3
  <2>. HIDE DEF h, n, a
  <2>. QED BY <1>0, <1>1, <2>3, <2>4 DEF LinkMetric, Saturated, h, n, a
<1>2. CASE a = 0
  <2>1. DefaultMetric \in Nat /\ DefaultMetric >= h
    BY <1>0, Z3 DEF DefaultMetric
  <2>2. n > DEFAULTLINKCOST => (3 * n - 2) * h \in Nat /\ (3 * n - 2) * h >= h
    BY <1>0, Z3
  <2>. QED BY <1>0, <1>2, <2>1, <2>2 DEF LinkMetric, Saturated
<1>. QED BY <1>0, <1>1, <1>2

\* A rank through a parent is a rank, and a hop above it or the largest one.
LEMMA RankThroughAboveParent ==
    ASSUME NEW row \in Row, row.numTxACK <= row.numTx
    PROVE  /\ RankThrough(row) \in Rank
           /\ \/ RankThrough(row) = MAXDAGRANK
              \/ RankThrough(row) >= row.DAGrank + MINHOPRANKINCREASE
<1>1. row.DAGrank \in Rank /\ MAXDAGRANK \in Nat /\ MINHOPRANKINCREASE \in Nat
  BY RankAssumption, ThresholdAssumption DEF Row
<1>. QED BY <1>1, LinkCostsAHop DEF RankThrough, Saturated

-----------------------------------------------------------------------------

LEMMA UnusedRowTyped ==
    ASSUME NEW a \in Address
    PROVE  UnusedRow(a) \in Row /\ NewRow(a) \in Row
<1>1. DEFAULTDAGRANK \in Rank /\ 0 \in 0..MAX_NUM_TX /\ 0 \in Nat
  BY RankAssumption, CounterAssumption DEF DEFAULTDAGRANK
<1>2. ASSUME NEW isUsed \in BOOLEAN
      PROVE  EmptyRow(a, isUsed) \in Row
  BY <1>1, Zenon DEF EmptyRow, Row
<1>. QED BY <1>2, Zenon DEF UnusedRow, NewRow

LEMMA HeardTyped ==
    ASSUME NEW row \in Row, NEW rssi \in Rssi
    PROVE  /\ Heard(row, rssi) \in Row
           /\ Heard(row, rssi).used = row.used
           /\ Heard(row, rssi).parentPreference = row.parentPreference
           /\ Heard(row, rssi).DAGrank = row.DAGrank
           /\ Heard(row, rssi).numTx = row.numTx
           /\ Heard(row, rssi).numTxACK = row.numTxACK
<1>0. row.switchStabilityCounter \in Nat /\ row.stableNeighbor \in BOOLEAN
  BY DEF Row
<1>1. /\ row.switchStabilityCounter + 1 \in Nat /\ 0 \in Nat
      /\ (~row.stableNeighbor) \in BOOLEAN
  <2>1. (~row.stableNeighbor) \in BOOLEAN
    BY Zenon
  <2>. QED BY <1>0, <2>1
<1>2. \E c \in Nat, st \in BOOLEAN :
        Heard(row, rssi) = [row EXCEPT !.switchStabilityCounter = c, !.stableNeighbor = st]
  <2>1. CASE Heard(row, rssi) =
               [row EXCEPT !.switchStabilityCounter = 0, !.stableNeighbor = ~row.stableNeighbor]
    BY <1>1, <2>1, Zenon
  <2>2. CASE Heard(row, rssi) =
               [row EXCEPT !.switchStabilityCounter = row.switchStabilityCounter + 1]
    <3>1. Heard(row, rssi) = [row EXCEPT !.switchStabilityCounter = row.switchStabilityCounter + 1,
                                         !.stableNeighbor = row.stableNeighbor]
      BY <2>2 DEF Row
    <3>2. row.stableNeighbor \in BOOLEAN
      BY DEF Row
    <3>. QED BY <1>1, <3>1, <3>2, Zenon
  <2>3. CASE Heard(row, rssi) = [row EXCEPT !.switchStabilityCounter = 0]
    <3>1. Heard(row, rssi) = [row EXCEPT !.switchStabilityCounter = 0,
                                         !.stableNeighbor = row.stableNeighbor]
      BY <2>3 DEF Row
    <3>2. row.stableNeighbor \in BOOLEAN
      BY DEF Row
    <3>. QED BY <1>1, <3>1, <3>2, Zenon
  <2>. QED BY <2>1, <2>2, <2>3, Zenon DEF Heard
<1>. QED BY <1>2 DEF Row

\* The counters keep their width, and their order when they are halved.
LEMMA CountedTyped ==
    ASSUME NEW row \in Row, row.numTxACK <= row.numTx,
           NEW acked \in BOOLEAN, NEW attempts \in Attempts[acked]
    PROVE  /\ Counted(row, attempts, acked) \in Row
           /\ Counted(row, attempts, acked).used = row.used
           /\ Counted(row, attempts, acked).parentPreference = row.parentPreference
           /\ Counted(row, attempts, acked).numTxACK <= Counted(row, attempts, acked).numTx
<1> DEFINE n == row.numTx
           k == row.numTxACK
           one == IF acked THEN 1 ELSE 0
<1>0. /\ MAX_NUM_TX \in Nat /\ n \in 0..MAX_NUM_TX /\ k \in 0..MAX_NUM_TX /\ k <= n
      /\ attempts \in 1..MAX_NUM_TX
      /\ attempts \in Attempts[TRUE] \cup Attempts[FALSE]
      /\ one \in 0..1
  <2>1. attempts \in Attempts[TRUE] \cup Attempts[FALSE]
    BY Zenon
  <2>2. attempts \in 1..MAX_NUM_TX
    BY <2>1, CounterAssumption
  <2>3. one = 0 \/ one = 1
    BY Zenon
  <2>4. MAX_NUM_TX \in Nat /\ n \in 0..MAX_NUM_TX /\ k \in 0..MAX_NUM_TX
    BY CounterAssumption DEF Row
  <2>5. k <= n
    OBVIOUS
  <2>6. one \in 0..1
    BY <2>3
  <2>. HIDE DEF one, n, k
  <2>. QED BY <2>1, <2>2, <2>4, <2>5, <2>6, Zenon
<1>1. CASE n + attempts > MAX_NUM_TX
  <2>1. n \div 2 + attempts <= MAX_NUM_TX
    BY <1>0, <1>1, HalvingAssumption
  <2>2. k \div 2 \in Nat /\ n \div 2 \in Nat /\ k \div 2 <= n \div 2
    BY <1>0
  <2>3. /\ n \div 2 + attempts \in 0..MAX_NUM_TX
        /\ k \div 2 + one \in 0..MAX_NUM_TX
        /\ k \div 2 + one <= n \div 2 + attempts
    BY <1>0, <2>1, <2>2
  <2>4. Counted(row, attempts, acked) =
          [row EXCEPT !.numTx = n \div 2 + attempts, !.numTxACK = k \div 2 + one]
    BY <1>1 DEF Counted, Row
  <2>. HIDE DEF one
  <2>. QED BY <2>3, <2>4 DEF Row
<1>2. CASE ~(n + attempts > MAX_NUM_TX)
  <2>1. /\ n \div 1 = n /\ k \div 1 = k
    BY <1>0
  <2>2. /\ n + attempts \in 0..MAX_NUM_TX
        /\ k + one \in 0..MAX_NUM_TX
        /\ k + one <= n + attempts
    BY <1>0, <1>2
  <2>3. Counted(row, attempts, acked) =
          [row EXCEPT !.numTx = n + attempts, !.numTxACK = k + one]
    BY <1>2, <2>1 DEF Counted, Row
  <2>. HIDE DEF one
  <2>. QED BY <2>2, <2>3 DEF Row
<1>. QED BY <1>1, <1>2

LEMMA NewRankTyped ==
    ASSUME NEW rank \in Rank, NEW a \in Address, NEW announced \in Announced[a]
    PROVE  NewRank(rank, announced) \in Rank
<1>1. MAXDAGRANK \in Nat /\ announced \in Rank
  BY RankAssumption
<1>2. DefaultMetric \in Nat
  <2>1. DEFAULTLINKCOST \in Nat \ {0} /\ MINHOPRANKINCREASE \in Nat
    BY ThresholdAssumption
  <2>. QED BY <2>1, Z3 DEF DefaultMetric
<1>3. (rank + 2 * DefaultMetric) % (MAXDAGRANK + 1) \in Rank
  BY <1>1, <1>2
<1>. QED BY <1>1, <1>3 DEF NewRank

-----------------------------------------------------------------------------

\* Marking the new parent keeps the table consistent.
LEMMA PrefersConsistent ==
    ASSUME NEW rows, Consistent(rows), ParentIndex \in Index, haveParent \in BOOLEAN,
           NEW i \in Index, rows[i].used
    PROVE  /\ Prefers(rows, i) \in [Index -> Row]
           /\ AcksWithinAttempts(Prefers(rows, i))
           /\ \A k \in Index : Prefers(rows, i)[k].parentPreference <=> k = i
           /\ Prefers(rows, i)[i].used
           /\ Prefers(rows, i)[i].DAGrank = rows[i].DAGrank
<1>0. rows \in [Index -> Row] /\ AcksWithinAttempts(rows)
  BY DEF Consistent
<1>1. ASSUME NEW k \in Index
      PROVE  /\ Prefers(rows, i)[k] \in Row
             /\ Prefers(rows, i)[k].numTxACK <= Prefers(rows, i)[k].numTx
             /\ Prefers(rows, i)[k].used = rows[k].used
             /\ Prefers(rows, i)[k].DAGrank = rows[k].DAGrank
             /\ Prefers(rows, i)[k].parentPreference <=> k = i
  <2>0. rows[k] \in Row /\ rows[k].numTxACK <= rows[k].numTx
    BY <1>0 DEF AcksWithinAttempts
  <2>1. CASE k = i
    <3>1. Prefers(rows, i)[k] = [rows[k] EXCEPT !.parentPreference = TRUE]
      BY <2>1 DEF Prefers
    <3>. QED BY <2>0, <2>1, <3>1 DEF Row
  <2>2. CASE k # i /\ k = ParentIndex
    <3>1. Prefers(rows, i)[k] = [rows[k] EXCEPT !.parentPreference = FALSE]
      BY <2>2 DEF Prefers
    <3>. QED BY <2>0, <2>2, <3>1 DEF Row
  <2>3. CASE k # i /\ k # ParentIndex
    <3>1. Prefers(rows, i)[k] = rows[k]
      BY <2>3 DEF Prefers
    <3>2. ~rows[k].parentPreference
      BY <2>3 DEF Consistent
    <3>. QED BY <2>0, <2>3, <3>1, <3>2
  <2>. QED BY <2>1, <2>2, <2>3
<1>2. Prefers(rows, i) = [k \in Index |-> Prefers(rows, i)[k]]
  BY DEF Prefers
<1>. QED BY <1>1, <1>2 DEF AcksWithinAttempts

\* The selection on a consistent table establishes the invariant.
LEMMA UpdateKeepsInvariant ==
    ASSUME IInv, NEW rows, Consistent(rows), isDAGroot' \in BOOLEAN,
           updateMyDAGrankAndParentSelection(rows, isDAGroot')
    PROVE  IInv'
<1>0. /\ rows \in [Index -> Row] /\ AcksWithinAttempts(rows)
      /\ ParentIndex \in Index /\ haveParent \in BOOLEAN
      /\ myDAGrank \in Rank /\ lowestRankInHistory \in Rank
      /\ MAXDAGRANK \in Nat /\ MINHOPRANKINCREASE \in Rank
  BY RankAssumption, ThresholdAssumption DEF IInv, TypeOK, Consistent
<1>1. \A i \in Index : /\ RankThrough(rows[i]) \in Rank
                       /\ \/ RankThrough(rows[i]) = MAXDAGRANK
                          \/ RankThrough(rows[i]) >= rows[i].DAGrank + MINHOPRANKINCREASE
  BY <1>0, RankThroughAboveParent DEF AcksWithinAttempts
<1>2. CASE isDAGroot' /\ myDAGrank # MINHOPRANKINCREASE
  <2>1. /\ neighbors' = rows
        /\ myDAGrank' = MINHOPRANKINCREASE
        /\ UNCHANGED <<ParentIndex, haveParent, lowestRankInHistory>>
    BY <1>2 DEF updateMyDAGrankAndParentSelection
  <2>2. TypeOK'
    BY <1>0, <2>1 DEF TypeOK
  <2>3. ParentKept'
    BY <2>1 DEF ParentKept, Consistent
  <2>4. RankAboveParent'
    BY <1>2 DEF RankAboveParent
  <2>. QED BY <1>0, <2>1, <2>2, <2>3, <2>4 DEF IInv, AcksWithinAttempts
<1>3. CASE /\ ~(isDAGroot' /\ myDAGrank # MINHOPRANKINCREASE)
           /\ WaitsForStatistics(rows)
  <2>1. neighbors' = rows /\ UNCHANGED rpl
    BY <1>3 DEF updateMyDAGrankAndParentSelection
  <2>2. TypeOK'
    BY <1>0, <2>1 DEF TypeOK, rpl
  <2>3. ParentKept'
    BY <2>1 DEF ParentKept, Consistent, rpl
  <2>4. RankAboveParent'
    BY <1>3, <2>1 DEF RankAboveParent, WaitsForStatistics, rpl, ReachedMinimalTransmission
  <2>. QED BY <1>0, <2>1, <2>2, <2>3, <2>4 DEF IInv, AcksWithinAttempts
<1>4. ASSUME NEW i \in Index, TakesParent(rows, i)
      PROVE  IInv'
  <2>1. /\ neighbors' = Prefers(rows, i)
        /\ ParentIndex' = i
        /\ haveParent' = TRUE
        /\ myDAGrank' = RankThrough(rows[i])
        /\ lowestRankInHistory' \in {RankThrough(rows[i]), lowestRankInHistory}
    BY <1>4 DEF TakesParent
  <2>2. rows[i].used
    BY <1>4 DEF TakesParent, IsBetterParent, IsCandidate
  <2>3. /\ Prefers(rows, i) \in [Index -> Row]
        /\ AcksWithinAttempts(Prefers(rows, i))
        /\ \A k \in Index : Prefers(rows, i)[k].parentPreference <=> k = i
        /\ Prefers(rows, i)[i].used
        /\ Prefers(rows, i)[i].DAGrank = rows[i].DAGrank
    BY <1>0, <2>2, PrefersConsistent
  <2>4. TypeOK'
    BY <1>0, <1>1, <2>1, <2>3 DEF TypeOK
  <2>5. ParentKept'
    BY <2>1, <2>3 DEF ParentKept
  <2>6. RankAboveParent'
    BY <1>1, <2>1, <2>3 DEF RankAboveParent
  <2>. QED BY <2>1, <2>3, <2>4, <2>5, <2>6 DEF IInv, AcksWithinAttempts
<1>5. CASE KeepsParent(rows)
  <2>1. /\ neighbors' = rows
        /\ myDAGrank' = PreviousRank(rows)
        /\ lowestRankInHistory' \in {MAXDAGRANK, lowestRankInHistory}
        /\ UNCHANGED <<ParentIndex, haveParent>>
    BY <1>5 DEF KeepsParent
  <2>2. /\ PreviousRank(rows) \in Rank
        /\ haveParent => \/ PreviousRank(rows) = MAXDAGRANK
                         \/ PreviousRank(rows) >= rows[ParentIndex].DAGrank + MINHOPRANKINCREASE
    BY <1>0, <1>1 DEF PreviousRank
  <2>3. TypeOK'
    BY <1>0, <2>1, <2>2 DEF TypeOK
  <2>4. ParentKept'
    BY <2>1 DEF ParentKept, Consistent
  <2>5. RankAboveParent'
    BY <2>1, <2>2 DEF RankAboveParent
  <2>. QED BY <1>0, <2>1, <2>3, <2>4, <2>5 DEF IInv, AcksWithinAttempts
<1>. QED BY <1>2, <1>3, <1>4, <1>5 DEF updateMyDAGrankAndParentSelection

-----------------------------------------------------------------------------

LEMMA InitEstablishesInvariant == Init => IInv
<1>. SUFFICES ASSUME Init PROVE IInv
  OBVIOUS
<1>1. (CHOOSE a \in Address : TRUE) \in Address
  BY AddressAssumption
<1>2. 0 \in Index /\ MAXDAGRANK \in Rank
  BY TableAssumption, RankAssumption
<1>3. /\ neighbors \in [Index -> Row]
      /\ \A i \in Index : /\ neighbors[i].parentPreference = FALSE
                           /\ neighbors[i].numTxACK = 0 /\ neighbors[i].numTx = 0
  BY <1>1, UnusedRowTyped DEF Init, UnusedRow, EmptyRow
<1>4. haveParent = FALSE /\ isDAGroot = FALSE
  BY DEF Init
<1>5. ParentIndex \in Index /\ {myDAGrank, lowestRankInHistory} \subseteq Rank
  BY <1>2 DEF Init, DEFAULTDAGRANK
<1>6. TypeOK
  BY <1>3, <1>4, <1>5, Zenon DEF TypeOK
<1>7. ParentKept
  BY <1>3, <1>4, Zenon DEF ParentKept
<1>8. AcksWithinAttempts(neighbors)
  BY <1>3 DEF AcksWithinAttempts
<1>9. RankAboveParent
  BY <1>4 DEF RankAboveParent
<1>. QED BY <1>6, <1>7, <1>8, <1>9 DEF IInv

\* Changing one row keeps the table consistent, if it keeps its mark and its use.
LEMMA RowChangeConsistent ==
    ASSUME IInv, NEW i \in Index, NEW row \in Row,
           row.numTxACK <= row.numTx,
           neighbors[i].used => row.used,
           row.parentPreference <=> neighbors[i].parentPreference
    PROVE  Consistent([neighbors EXCEPT ![i] = row])
<1> DEFINE rows == [neighbors EXCEPT ![i] = row]
<1>1. /\ neighbors \in [Index -> Row] /\ ParentIndex \in Index
      /\ AcksWithinAttempts(neighbors) /\ ParentKept
  BY DEF IInv, TypeOK
<1>2. rows \in [Index -> Row] /\ \A k \in Index : rows[k] = IF k = i THEN row ELSE neighbors[k]
  BY <1>1
<1>. HIDE DEF rows
<1>3. AcksWithinAttempts(rows)
  BY <1>1, <1>2 DEF AcksWithinAttempts
<1>4. haveParent => rows[ParentIndex].used
  BY <1>1, <1>2 DEF ParentKept
<1>5. \A k \in Index : rows[k].parentPreference <=> haveParent /\ k = ParentIndex
  BY <1>1, <1>2 DEF ParentKept
<1>6. Consistent(rows)
  BY <1>2, <1>3, <1>4, <1>5 DEF Consistent
<1>. QED BY <1>6 DEF rows

\* What a packet leaves in the row it is counted in.
LEMMA RowAfterConsistent ==
    ASSUME IInv, NEW a \in Address, NEW rssi \in Rssi, NEW i \in RowFor(a, rssi)
    PROVE  /\ i \in Index
           /\ RowAfter(a, rssi, i) \in Row
           /\ RowAfter(a, rssi, i).numTxACK <= RowAfter(a, rssi, i).numTx
           /\ neighbors[i].used => RowAfter(a, rssi, i).used
           /\ RowAfter(a, rssi, i).parentPreference <=> neighbors[i].parentPreference
           /\ haveParent /\ i = ParentIndex =>
                 /\ RowAfter(a, rssi, i).used = neighbors[i].used
                 /\ RowAfter(a, rssi, i).DAGrank = neighbors[i].DAGrank
                 /\ RowAfter(a, rssi, i).numTx = neighbors[i].numTx
<1>0. /\ i \in Index /\ neighbors[i] \in Row /\ neighbors[i].numTxACK <= neighbors[i].numTx
      /\ ParentKept
  BY DEF IInv, TypeOK, AcksWithinAttempts, RowFor, RowsOf
<1>1. CASE i \in RowsOf(neighbors, a)
  <2>1. RowAfter(a, rssi, i) = Heard(neighbors[i], rssi)
    BY <1>1 DEF RowAfter
  <2>. QED BY <1>0, <2>1, HeardTyped
<1>2. CASE i \notin RowsOf(neighbors, a)
  <2>1. RowAfter(a, rssi, i) = NewRow(a) /\ ~neighbors[i].used
    BY <1>2 DEF RowAfter, RowFor, TakesRow, FreeRows
  <2>2. ~(haveParent /\ i = ParentIndex)
    BY <1>0, <2>1 DEF ParentKept
  <2>3. ~neighbors[i].parentPreference
    BY <1>0, <2>2 DEF ParentKept
  <2>4. /\ NewRow(a).numTxACK = 0 /\ NewRow(a).numTx = 0
        /\ NewRow(a).parentPreference = FALSE /\ NewRow(a) \in Row
    BY UnusedRowTyped DEF NewRow, EmptyRow
  <2>. QED BY <1>0, <2>1, <2>2, <2>3, <2>4
<1>. QED BY <1>1, <1>2

\* A task that only changes rows RPL does not depend on keeps the invariant.
LEMMA TableStepKeepsInvariant ==
    ASSUME IInv, NEW rows, Consistent(rows), neighbors' = rows, UNCHANGED <<rpl, isDAGroot>>,
           haveParent => /\ rows[ParentIndex].used = neighbors[ParentIndex].used
                         /\ rows[ParentIndex].DAGrank = neighbors[ParentIndex].DAGrank
                         /\ rows[ParentIndex].numTx = neighbors[ParentIndex].numTx
    PROVE  IInv'
<1>1. TypeOK'
  BY DEF IInv, TypeOK, Consistent, rpl
<1>2. ParentKept'
  BY DEF ParentKept, Consistent, rpl
<1>3. RankAboveParent'
  BY DEF IInv, RankAboveParent, ReachedMinimalTransmission, rpl
<1>. QED BY <1>1, <1>2, <1>3 DEF IInv, Consistent, AcksWithinAttempts

LEMMA StepKeepsInvariant == IInv /\ [Next]_vars => IInv'
<1>. SUFFICES ASSUME IInv, [Next]_vars PROVE IInv'
  OBVIOUS
<1>0. /\ neighbors \in [Index -> Row] /\ AcksWithinAttempts(neighbors)
      /\ isDAGroot \in BOOLEAN /\ ParentIndex \in Index /\ ParentKept
  BY DEF IInv, TypeOK
<1>1. ASSUME NEW a \in Address, neighbors_indicateRx(a) PROVE IInv'
  <2>1. PICK rssi \in Rssi : \E i \in RowFor(a, rssi) :
              neighbors' = [neighbors EXCEPT ![i] = RowAfter(a, rssi, i)]
    BY <1>1 DEF neighbors_indicateRx
  <2>2. PICK i \in RowFor(a, rssi) : neighbors' = [neighbors EXCEPT ![i] = RowAfter(a, rssi, i)]
    BY <2>1
  <2>3. Consistent(neighbors')
    BY <2>2, RowAfterConsistent, RowChangeConsistent
  <2>4. haveParent => /\ neighbors'[ParentIndex].used = neighbors[ParentIndex].used
                      /\ neighbors'[ParentIndex].DAGrank = neighbors[ParentIndex].DAGrank
                      /\ neighbors'[ParentIndex].numTx = neighbors[ParentIndex].numTx
    BY <1>0, <2>2, RowAfterConsistent
  <2>. QED BY <1>1, <2>3, <2>4, TableStepKeepsInvariant DEF neighbors_indicateRx
<1>2. ASSUME NEW a \in Address, icmpv6rpl_indicateRxDIO(a) PROVE IInv'
  <2>1. PICK rssi \in Rssi, announced \in Announced[a] : \E i \in RowFor(a, rssi) :
          updateMyDAGrankAndParentSelection(
              [neighbors EXCEPT ![i] = [RowAfter(a, rssi, i) EXCEPT !.DAGrank = NewRank(@, announced)]],
              isDAGroot)
    BY <1>2 DEF icmpv6rpl_indicateRxDIO
  <2>2. PICK i \in RowFor(a, rssi) :
          updateMyDAGrankAndParentSelection(
              [neighbors EXCEPT ![i] = [RowAfter(a, rssi, i) EXCEPT !.DAGrank = NewRank(@, announced)]],
              isDAGroot)
    BY <2>1
  <2> DEFINE before == RowAfter(a, rssi, i)
             row    == [before EXCEPT !.DAGrank = NewRank(@, announced)]
  <2>3. /\ i \in Index /\ before \in Row /\ before.numTxACK <= before.numTx
        /\ neighbors[i].used => before.used
        /\ before.parentPreference <=> neighbors[i].parentPreference
    BY RowAfterConsistent
  <2>4. NewRank(before.DAGrank, announced) \in Rank
    BY <2>3, NewRankTyped DEF Row
  <2>5. /\ row \in Row /\ row.numTxACK = before.numTxACK /\ row.numTx = before.numTx
        /\ row.used = before.used /\ row.parentPreference = before.parentPreference
    <3>. HIDE DEF before
    <3>. QED BY <2>3, <2>4 DEF Row
  <2>6. isDAGroot' = isDAGroot
    BY <1>2 DEF icmpv6rpl_indicateRxDIO
  <2>7. updateMyDAGrankAndParentSelection([neighbors EXCEPT ![i] = row], isDAGroot')
    BY <2>2, <2>6
  <2>. HIDE DEF row, before
  <2>8. Consistent([neighbors EXCEPT ![i] = row])
    BY <2>3, <2>5, RowChangeConsistent
  <2>. QED BY <1>0, <2>6, <2>7, <2>8, UpdateKeepsInvariant
<1>3. ASSUME NEW a \in Address, neighbors_indicateTx(a) PROVE IInv'
  <2>1. PICK i \in RowsOf(neighbors, a), acked \in BOOLEAN : \E attempts \in Attempts[acked] :
          updateMyDAGrankAndParentSelection(
              [neighbors EXCEPT ![i] = Counted(@, attempts, acked)], isDAGroot)
    BY <1>3 DEF neighbors_indicateTx
  <2>2. PICK attempts \in Attempts[acked] :
          updateMyDAGrankAndParentSelection(
              [neighbors EXCEPT ![i] = Counted(@, attempts, acked)], isDAGroot)
    BY <2>1
  <2> DEFINE row == Counted(neighbors[i], attempts, acked)
  <2>3. i \in Index /\ neighbors[i] \in Row /\ neighbors[i].numTxACK <= neighbors[i].numTx
    BY <1>0 DEF RowsOf, AcksWithinAttempts
  <2>4. /\ row \in Row /\ row.numTxACK <= row.numTx /\ row.used = neighbors[i].used
        /\ row.parentPreference = neighbors[i].parentPreference
    BY <2>3, CountedTyped
  <2>5. isDAGroot' = isDAGroot
    BY <1>3 DEF neighbors_indicateTx
  <2>6. updateMyDAGrankAndParentSelection([neighbors EXCEPT ![i] = row], isDAGroot')
    BY <2>2, <2>5
  <2>. HIDE DEF row
  <2>7. Consistent([neighbors EXCEPT ![i] = row])
    BY <2>3, <2>4, RowChangeConsistent
  <2>. QED BY <1>0, <2>5, <2>6, <2>7, UpdateKeepsInvariant
<1>4. ASSUME NEW a \in Address, neighbors_setNeighborNoResource(a) PROVE IInv'
  <2>1. PICK i \in RowsOf(neighbors, a) :
          updateMyDAGrankAndParentSelection([neighbors EXCEPT ![i].f6PNORES = TRUE], isDAGroot)
    BY <1>4 DEF neighbors_setNeighborNoResource
  <2> DEFINE row == [neighbors[i] EXCEPT !.f6PNORES = TRUE]
  <2>2. i \in Index /\ neighbors[i] \in Row /\ neighbors[i].numTxACK <= neighbors[i].numTx
    BY <1>0 DEF RowsOf, AcksWithinAttempts
  <2>3. /\ row \in Row /\ row.numTxACK = neighbors[i].numTxACK /\ row.numTx = neighbors[i].numTx
        /\ row.used = neighbors[i].used
        /\ row.parentPreference = neighbors[i].parentPreference
    BY <2>2 DEF Row
  <2>4. isDAGroot' = isDAGroot
    BY <1>4 DEF neighbors_setNeighborNoResource
  <2>5. updateMyDAGrankAndParentSelection([neighbors EXCEPT ![i] = row], isDAGroot')
    BY <2>1, <2>4
  <2>. HIDE DEF row
  <2>6. Consistent([neighbors EXCEPT ![i] = row])
    BY <2>2, <2>3, RowChangeConsistent
  <2>. QED BY <1>0, <2>4, <2>5, <2>6, UpdateKeepsInvariant
<1>5. CASE neighbors_removeOld
  <2>1. PICK i \in Index : /\ Removable(i)
                          /\ neighbors' = [neighbors EXCEPT ![i] = UnusedRow(neighbors[i].addr)]
    BY <1>5 DEF neighbors_removeOld
  <2> DEFINE row == UnusedRow(neighbors[i].addr)
  <2>2. /\ row \in Row /\ row.numTxACK = 0 /\ row.numTx = 0 /\ row.parentPreference = FALSE
    <3>1. neighbors[i].addr \in Address
      BY <1>0 DEF Row
    <3>. QED BY <3>1, UnusedRowTyped DEF UnusedRow, EmptyRow
  <2>3. ~neighbors[i].parentPreference /\ ~(haveParent /\ i = ParentIndex)
    BY <1>0, <2>1 DEF Removable, ParentKept
  <2>. HIDE DEF row
  <2>4. Consistent([neighbors EXCEPT ![i] = row])
    <3> DEFINE rows == [neighbors EXCEPT ![i] = row]
    <3>1. rows \in [Index -> Row] /\ \A k \in Index : rows[k] = IF k = i THEN row ELSE neighbors[k]
      BY <1>0, <2>2
    <3>. HIDE DEF rows
    <3>2. AcksWithinAttempts(rows)
      BY <1>0, <2>2, <3>1 DEF AcksWithinAttempts
    <3>3. haveParent => rows[ParentIndex].used
      BY <1>0, <2>3, <3>1 DEF ParentKept
    <3>4. \A k \in Index : rows[k].parentPreference <=> haveParent /\ k = ParentIndex
      BY <1>0, <2>2, <2>3, <3>1 DEF ParentKept
    <3>5. Consistent(rows)
      BY <3>1, <3>2, <3>3, <3>4 DEF Consistent
    <3>. QED BY <3>5 DEF rows
  <2>5. neighbors' = [neighbors EXCEPT ![i] = row]
    BY <2>1 DEF row
  <2>6. haveParent => neighbors'[ParentIndex] = neighbors[ParentIndex]
    BY <1>0, <2>3, <2>5
  <2>. QED BY <1>5, <2>4, <2>5, <2>6, TableStepKeepsInvariant DEF neighbors_removeOld
<1>6. ASSUME NEW newRole \in BOOLEAN, idmanager_setIsDAGroot(newRole) PROVE IInv'
  <2>1. isDAGroot' = newRole /\ updateMyDAGrankAndParentSelection(neighbors, isDAGroot')
    BY <1>6 DEF idmanager_setIsDAGroot
  <2>2. Consistent(neighbors)
    BY <1>0 DEF Consistent, ParentKept
  <2>. QED BY <2>1, <2>2, UpdateKeepsInvariant
<1>7. CASE UNCHANGED vars
  BY <1>7 DEF vars, rpl, IInv, TypeOK, ParentKept, AcksWithinAttempts, RankAboveParent,
              ReachedMinimalTransmission
<1>. QED BY <1>1, <1>2, <1>3, <1>4, <1>5, <1>6, <1>7 DEF Next

-----------------------------------------------------------------------------

THEOREM InvariantHolds == Spec => []IInv
BY InitEstablishesInvariant, StepKeepsInvariant, PTL DEF Spec

\* Type correctness, with the width of the ranks and of the counters.
THEOREM RplTypeOK == Spec => []TypeOK
<1>1. IInv => TypeOK
  BY DEF IInv
<1>. QED BY <1>1, InvariantHolds, PTL

\* RPL's index always leads to a row in use, the only one that is marked: the
\* table never removes the parent, nor gives its row to another neighbor.
THEOREM RplParentKept == Spec => []ParentKept
<1>1. IInv => ParentKept
  BY DEF IInv
<1>. QED BY <1>1, InvariantHolds, PTL

\* Over a known link, the rank of the node is a hop above its parent's, or the
\* largest one, whatever is announced, counted, refused or commanded.
THEOREM RplRankAboveParent == Spec => []RankAboveParent
<1>1. IInv => RankAboveParent
  BY DEF IInv
<1>. QED BY <1>1, InvariantHolds, PTL
=============================================================================
