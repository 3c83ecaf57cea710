----------------------------- MODULE SixP_proofs -----------------------------
(***************************************************************************)
(* What holds of 6P between two nodes, for any slots, any bound on the      *)
(* packets and the backups, and whatever else happens, as long as no answer *)
(* is late and the sequence numbers do not roll over.                       *)
(***************************************************************************)
EXTENDS SixP, SequenceTheorems, TLAPS

\* Neither response nor time-out has met another transaction than its own.
Clean == faults \cap LateAnswer = {}

Slow == "slowTask" \in faults

NoRollOver == MaxSeqnum + 2 <= SEQNUM_MAX

-----------------------------------------------------------------------------
(* What is on its way *)

Has(n, status) == \E b \in Buffer : queue[n][b].status = status

\* A request to send, or given up; a request received; a response to send, or
\* given up; a response received: at most one of them, and only in the course
\* of a transaction.
OnlyOne(n) ==
    \A b, d \in Buffer : {queue[n][b].status, queue[n][d].status} \subseteq {"queued", "failed"}
                            => b = d

Asked    == Has("child", "queued") \/ Has("child", "failed")
Heard    == received["parent"] # NoMessage
Answered == Has("parent", "queued") \/ Has("parent", "failed")
Told     == received["child"] # NoMessage

OneToken ==
    /\ OnlyOne("child") /\ OnlyOne("parent")
    /\ Asked => ~Heard /\ ~Answered /\ ~Told
    /\ Heard => ~Answered /\ ~Told
    /\ Answered => ~Told
    /\ Asked \/ Heard \/ Answered \/ Told => six2six_state # IDLE

Effective(a) == a.code = "SUCCESS" /\ a.command # "CLEAR"
Clearing(a)  == a.code = "SUCCESS" /\ a.command = "CLEAR"

\* The request is the one the child waits for.
Asks(r) ==
    /\ r.command = six2six_state.command /\ r.options = cellOptions
    /\ r.seqNum = sequenceNumber["child"]
    /\ r.command = "ADD" => r.delete = {}
    /\ r.command = "DELETE" => r.add = {}
    /\ r.command = "RELOCATE" => celllist_toDelete = r.delete /\ Offered(r.delete) = r.delete
    /\ \A t \in r.delete : cells["child"][t] # <<>>
    /\ \A t \in r.add : cells["child"][t] = <<>>

\* The response answers the request the child waits for.
Fits(a) ==
    /\ a.command = six2six_state.command /\ a.options = Reverted(cellOptions)
    /\ Effective(a) =>
          /\ RemovedByChild(a) = a.delete
          /\ a.add = IF a.command \in {"ADD", "RELOCATE"} THEN a.celllist ELSE {}
          /\ \A t \in a.delete : cells["child"][t] # <<>>
          /\ \A t \in a.add : cells["child"][t] = <<>>

Messages ==
    /\ \A b \in Buffer : queue["child"][b].status = "queued" => Asks(queue["child"][b].msg)
    /\ Heard => Asks(received["parent"])
    /\ \A b \in Buffer : queue["parent"][b].status = "queued" => Fits(queue["parent"][b].msg)
    /\ Told => Fits(received["child"])

\* At most one response is sent and not looked at by the parent: it is the one
\* the child has not looked at, if there is one.
IsSent(b) == queue["parent"][b].status = "sent"

OneSent ==
    \A b \in Buffer : IsSent(b) =>
        /\ \A d \in Buffer : IsSent(d) => b = d
        /\ ~Has("parent", "failed")
        /\ Told => queue["parent"][b].msg = received["child"]

\* Only a slow task lets a frame be sent before the parent knows that its
\* previous response was, or a response arrive before the child knows that its
\* request was.
InTransit == Has("child", "failed") \/ Heard \/ Has("parent", "queued")

SlowTasks ==
    /\ Has("parent", "sent") /\ ~Told /\ InTransit => Slow
    /\ Told /\ six2six_state.wait = "sendDone" => Slow
    /\ six2six_state.wait = "sendDone" => \E b \in Buffer : queue["child"][b] # Free

-----------------------------------------------------------------------------
(* What the nodes have, and will have *)

SeqAfter(a, k) == IF Clearing(a) THEN 0 ELSE NextSeqnum(k)

CellsAfter(a, sched, opt) ==
    IF a.code # "SUCCESS" THEN sched
    ELSE IF a.command = "CLEAR" THEN RemoveCells(sched, Slot)
    ELSE AddCells(RemoveCells(sched, a.delete), a.add, opt)

\* The cells an answer is about are there, or free.
Doable(a, sched) ==
    Effective(a) => /\ \A t \in a.delete : sched[t] # <<>>
                    /\ \A t \in a.add : sched[t] = <<>>

Agrees(k, mine, l, theirs) == k = l => \A t \in Slot : mine[t] = Mirrored(theirs[t])

ChildSeq    == sequenceNumber["child"]
ParentSeq   == sequenceNumber["parent"]
ChildCells  == cells["child"]
ParentCells == cells["parent"]

\* The child does not get ahead of the parent by an effective answer.
InTurn(k) == ChildSeq = k \/ (ChildSeq < k /\ Slow)

Numbers ==
    /\ ChildSeq <= MaxSeqnum + 1 /\ ParentSeq <= MaxSeqnum + 2
    /\ Has("child", "queued") \/ Heard \/ Has("parent", "queued") \/ Told
          => ChildSeq <= MaxSeqnum
    /\ Has("parent", "sent") => ParentSeq <= MaxSeqnum + 1
    /\ Has("child", "queued") \/ Heard \/ Has("parent", "queued") =>
          /\ ParentSeq <= MaxSeqnum + 1
          /\ \A b \in Buffer : IsSent(b) => SeqAfter(queue["parent"][b].msg, ParentSeq) <= MaxSeqnum + 1

\* No response is on its way, or both have looked at it.
AgreeNow == ~Told /\ ~Has("parent", "sent") => Agrees(ChildSeq, ChildCells, ParentSeq, ParentCells)

\* The parent has looked at it: the child will conclude, or take it for a late one.
AgreeOnceTold ==
    Told /\ ~Has("parent", "sent") =>
        LET a == received["child"]
        IN  /\ Agrees(SeqAfter(a, ChildSeq), CellsAfter(a, ChildCells, cellOptions),
                      ParentSeq, ParentCells)
            /\ a.code = "SUCCESS" => Agrees(ChildSeq, ChildCells, ParentSeq, ParentCells)

\* The child has.
AgreeOnceSent ==
    \A b \in Buffer : IsSent(b) /\ ~Told =>
        LET a == queue["parent"][b].msg
        IN  /\ Doable(a, ParentCells)
            /\ Agrees(ChildSeq, ChildCells,
                      SeqAfter(a, ParentSeq), CellsAfter(a, ParentCells, a.options))
            /\ a.code = "SUCCESS" => \/ ChildSeq = SeqAfter(a, ParentSeq)
                                     \/ Slow /\ ~InTransit

\* Neither has.
AgreeOnceBoth ==
    \A b \in Buffer : IsSent(b) /\ Told =>
        LET a == queue["parent"][b].msg
        IN  /\ Doable(a, ParentCells)
            /\ Agrees(ChildSeq, ChildCells, ParentSeq, ParentCells)
            /\ Effective(a) => InTurn(ParentSeq)

\* A response that is queued can be concluded when the previous one has been.
Concludable ==
    \A d \in Buffer : queue["parent"][d].status = "queued" =>
        LET a == queue["parent"][d].msg
        IN  Effective(a) =>
                /\ ~Has("parent", "sent") => Doable(a, ParentCells) /\ InTurn(ParentSeq)
                /\ \A b \in Buffer : IsSent(b) =>
                      LET e == queue["parent"][b].msg
                      IN  /\ Doable(a, CellsAfter(e, ParentCells, e.options))
                          /\ InTurn(SeqAfter(e, ParentSeq))

\* One cell in a slot, none before the first transaction.
Few == {<<>>, <<"TX">>, <<"RX">>}

FewCells ==
    /\ \A n \in Node, t \in Slot : cells[n][t] \in Few
    /\ \A n \in Node : sequenceNumber[n] = 0 => \A t \in Slot : cells[n][t] = <<>>
    /\ \A n \in Node : ~critical[n]

CleanInv ==
    /\ OneToken /\ Messages /\ OneSent /\ SlowTasks /\ FewCells /\ Numbers
    /\ AgreeNow /\ AgreeOnceTold /\ AgreeOnceSent /\ AgreeOnceBoth /\ Concludable

Kinds ==
    /\ \A b \in Buffer : queue["child"][b] = Free \/ queue["child"][b].msg \in Request
    /\ \A b \in Buffer : queue["parent"][b] = Free \/ queue["parent"][b].msg \in Response
    /\ received["parent"] = NoMessage \/ received["parent"] \in Request
    /\ received["child"] = NoMessage \/ received["child"] \in Response

Typed == TypeOK /\ Kinds

Inv == Typed /\ (Clean => CleanInv)

-----------------------------------------------------------------------------
(* Types *)

\* A stack of cells is a sequence no longer than the backups allow.
LEMMA StackTyped ==
    /\ \A st \in CellStack : st \in Seq(CellOption) /\ Len(st) \in Nat /\ Len(st) <= MAXBACKUPSLOTS + 1
    /\ \A st \in Seq(CellOption) : Len(st) <= MAXBACKUPSLOTS + 1 => st \in CellStack
<1>1. ASSUME NEW st \in CellStack
      PROVE  st \in Seq(CellOption) /\ Len(st) \in Nat /\ Len(st) <= MAXBACKUPSLOTS + 1
  <2>1. PICK k \in 0..(MAXBACKUPSLOTS + 1) : st \in [1..k -> CellOption]
    BY DEF CellStack
  <2>2. k \in Nat
    BY BackupAssumption
  <2>. QED BY <2>1, <2>2
<1>2. ASSUME NEW st \in Seq(CellOption), Len(st) <= MAXBACKUPSLOTS + 1
      PROVE  st \in CellStack
  <2>1. Len(st) \in 0..(MAXBACKUPSLOTS + 1) /\ st \in [1..Len(st) -> CellOption]
    BY <1>2, BackupAssumption, LenProperties
  <2>. QED BY <2>1 DEF CellStack
<1>. QED BY <1>1, <1>2

\* Adding and removing cells keeps the type of a schedule.
LEMMA CellsTyped ==
    ASSUME NEW sched \in [Slot -> CellStack], NEW S
    PROVE  /\ RemoveCells(sched, S) \in [Slot -> CellStack]
           /\ \A opt \in CellOption : AddCells(sched, S, opt) \in [Slot -> CellStack]
<1>1. ASSUME NEW st \in CellStack PROVE Promoted(st) \in CellStack
  <2>1. st \in Seq(CellOption) /\ Len(st) \in Nat /\ Len(st) <= MAXBACKUPSLOTS + 1
    BY StackTyped
  <2>2. CASE Len(st) <= 1
    <3>1. Promoted(st) = <<>> /\ <<>> \in Seq(CellOption) /\ Len(<<>>) = 0
      BY <2>2, EmptySeq DEF Promoted
    <3>2. Len(Promoted(st)) <= MAXBACKUPSLOTS + 1 /\ Promoted(st) \in Seq(CellOption)
      BY <3>1, BackupAssumption
    <3>. QED BY <3>2, StackTyped
  <2>3. CASE Len(st) > 1
    <3> DEFINE rest == SubSeq(st, 2, Len(st) - 1)
               first == <<st[Len(st)]>>
    <3>1. Promoted(st) = first \o rest
      BY <2>1, <2>3 DEF Promoted
    <3>2. first \in Seq(CellOption) /\ Len(first) = 1
      <4>1. Len(st) \in 1..Len(st)
        BY <2>1, <2>3
      <4>2. st[Len(st)] \in CellOption
        BY <2>1, <4>1, ElementOfSeq
      <4>. QED BY <4>2
    <3>3. rest \in Seq(CellOption) /\ Len(rest) <= Len(st) - 1
      <4>1. \A i \in 2..(Len(st) - 1) : st[i] \in CellOption
        <5>1. ASSUME NEW i \in 2..(Len(st) - 1) PROVE i \in 1..Len(st)
          BY <2>1
        <5>. QED BY <5>1, <2>1, ElementOfSeq
      <4>2. rest \in Seq(CellOption)
        BY <4>1, <2>1, SubSeqProperties
      <4>3. Len(rest) = IF 2 <= Len(st) - 1 THEN Len(st) - 1 - 2 + 1 ELSE 0
        BY <4>1, <2>1, SubSeqProperties
      <4>. QED BY <4>2, <4>3, <2>1, <2>3
    <3>. HIDE DEF rest, first
    <3>4. first \o rest \in Seq(CellOption) /\ Len(first \o rest) <= MAXBACKUPSLOTS + 1
      <4>1. first \o rest \in Seq(CellOption) /\ Len(first \o rest) = Len(first) + Len(rest)
        BY <3>2, <3>3, ConcatProperties
      <4>2. Len(rest) \in Nat
        BY <3>3, LenProperties
      <4>. QED BY <4>1, <4>2, <3>2, <3>3, <2>1, BackupAssumption
    <3>. QED BY <3>1, <3>4, StackTyped
  <2>. QED BY <2>1, <2>2, <2>3
<1>2. RemoveCells(sched, S) \in [Slot -> CellStack]
  BY <1>1 DEF RemoveCells
<1>3. ASSUME NEW opt \in CellOption, NEW st \in CellStack, Len(st) <= MAXBACKUPSLOTS
      PROVE  Append(st, opt) \in CellStack
  <2>1. st \in Seq(CellOption) /\ Len(st) \in Nat
    BY StackTyped
  <2>2. Append(st, opt) \in Seq(CellOption) /\ Len(Append(st, opt)) = Len(st) + 1
    BY <2>1, AppendProperties
  <2>3. Len(Append(st, opt)) <= MAXBACKUPSLOTS + 1
    BY <1>3, <2>1, <2>2, BackupAssumption
  <2> DEFINE longer == Append(st, opt)
  <2>4. longer \in Seq(CellOption) /\ Len(longer) <= MAXBACKUPSLOTS + 1
    BY <2>2, <2>3
  <2>. HIDE DEF longer
  <2>5. longer \in CellStack
    BY <2>4, StackTyped
  <2>. QED BY <2>5 DEF longer
<1>4. \A opt \in CellOption : AddCells(sched, S, opt) \in [Slot -> CellStack]
  BY <1>3 DEF AddCells
<1>. QED BY <1>2, <1>4

\* The sequence number stays in its range and only a reset makes it 0.
LEMMA NextSeqnumTyped ==
    \A k \in 0..SEQNUM_MAX : NextSeqnum(k) \in 0..SEQNUM_MAX /\ NextSeqnum(k) # 0
BY SeqnumAssumption DEF NextSeqnum

\* What an answer may be.
LEMMA AnswersTyped ==
    ASSUME NEW req \in Request, NEW a \in Answers(req)
    PROVE  a \in Response
<1>1. req.command \in Command /\ req.options \in CellOption /\ req.add \subseteq Slot /\ req.delete \subseteq Slot
  BY DEF Request
<1>2. Offered(req.delete) \subseteq Slot /\ \A add \in Chosen(req.add) : add \subseteq Slot
  BY <1>1 DEF Offered, Chosen
<1>3. Reverted(req.options) \in CellOption
  BY DEF Reverted, CellOption
<1>4. PICK code \in ReturnCode, add \in SUBSET Slot, delete \in SUBSET Slot :
         a = [type |-> "response", command |-> req.command, code |-> code,
             celllist |-> IF req.command = "DELETE" THEN delete ELSE add,
             options |-> Reverted(req.options), add |-> add, delete |-> delete]
  BY <1>1, <1>2 DEF Answers, ReturnCode
<1>. QED BY <1>1, <1>3, <1>4 DEF Response

\* The constants of the model, as the provers need them.
LEMMA Constants ==
    /\ Node = {"child", "parent"} /\ "child" # "parent"
    /\ Other("child") = "parent" /\ Other("parent") = "child"
    /\ 0 \in 0..SEQNUM_MAX
    /\ Free.status = "free" /\ Free.msg = NoMessage
    /\ NoMessage \notin Message /\ Request \subseteq Message /\ Response \subseteq Message
    /\ \A p \in Packet : p # Free /\ p.status \in {"queued", "sent", "failed"} /\ p.msg \in Message
<1>1. NoMessage \notin Message
  BY DEF NoMessage, Message, Request, Response
<1>2. \A p \in Packet : p # Free /\ p.status \in {"queued", "sent", "failed"} /\ p.msg \in Message
  BY DEF Packet, Free
<1>. QED BY <1>1, <1>2, SeqnumAssumption DEF Node, Other, Free, Message

LEMMA ClearTyped ==
    ASSUME TypeOK, NEW n \in Node, ClearLocally(n)
    PROVE  /\ cells' \in [Node -> [Slot -> CellStack]]
           /\ sequenceNumber' \in [Node -> 0..SEQNUM_MAX]
<1>1. RemoveCells(cells[n], Slot) \in [Slot -> CellStack]
  BY CellsTyped DEF TypeOK
<1>. QED BY <1>1, Constants DEF ClearLocally, TypeOK

LEMMA RequestTyped ==
    ASSUME Typed, NEW command \in Command, NEW opt \in CellOption,
           NEW add \in SUBSET Slot, NEW delete \in SUBSET Slot,
           sixtop_request(command, opt, add, delete), clearTask' \in BOOLEAN
    PROVE  Typed'
<1> DEFINE msg == [type |-> "request", command |-> command, options |-> opt,
                   seqNum |-> sequenceNumber["child"], add |-> add, delete |-> delete]
<1>1. msg \in Request /\ msg # NoMessage
  <2>1. sequenceNumber["child"] \in 0..SEQNUM_MAX
    BY Constants DEF Typed, TypeOK
  <2>2. msg \in Request
    BY <2>1 DEF Request
  <2>. QED BY <2>2, Constants
<1>2. Queued(msg) \in Packet /\ Queued(msg).msg = msg
  BY <1>1, Constants DEF Queued, Packet
<1>. HIDE DEF msg
<1>3. PICK q \in QueueAfterRemoval :
         \/ /\ NoFault
            /\ \E b \in FirstFree(q) : queue' = [queue EXCEPT !["child"] = [q EXCEPT ![b] = Queued(msg)]]
            /\ six2six_state' = WAIT_SENDDONE(command)
            /\ cellOptions' = opt
            /\ celllist_toDelete' = IF delete = {} THEN celllist_toDelete ELSE delete
         \/ /\ IF command = "CLEAR" THEN Happens("lostClear") ELSE NoFault
            /\ queue' = [queue EXCEPT !["child"] = q]
            /\ UNCHANGED <<six2six_state, cellOptions, celllist_toDelete>>
  BY DEF sixtop_request, msg
<1>4. q \in [Buffer -> Packet \cup {Free}] /\ \A b \in Buffer : q[b] = Free \/ q[b] = queue["child"][b]
  BY Constants DEF QueueAfterRemoval, Typed, TypeOK
<1>5. /\ queue' \in [Node -> [Buffer -> Packet \cup {Free}]]
      /\ \A b \in Buffer : \/ queue'["child"][b] \in {Free, queue["child"][b]}
                           \/ queue'["child"][b].msg \in Request
      /\ queue'["parent"] = queue["parent"]
  BY <1>1, <1>2, <1>3, <1>4, Constants DEF FirstFree, Typed, TypeOK
<1>6. /\ six2six_state' \in {IDLE} \cup {WAIT_SENDDONE(c) : c \in Command}
                                   \cup {WAIT_RESPONSE(c) : c \in Command}
      /\ cellOptions' \in CellOption /\ celllist_toDelete' \in SUBSET Slot
  BY <1>3 DEF Typed, TypeOK
<1>7. faults' \subseteq Fault
  BY <1>3 DEF Happens, NoFault, Fault, Typed, TypeOK
<1>8. UNCHANGED <<cells, sequenceNumber, timeoutTimer, timeoutTask, waitretry, received, critical>>
  BY DEF sixtop_request
<1>9. TypeOK'
  BY <1>5, <1>6, <1>7, <1>8 DEF Typed, TypeOK
<1>10. Kinds'
  BY <1>5, <1>8 DEF Typed, Kinds
<1>. QED BY <1>9, <1>10 DEF Typed


LEMMA MsfTyped ==
    ASSUME Typed, MsfRequests \/ msf_timer_clear_task \/ msf_timer_waitretry_cb
    PROVE  Typed'
<1>0. /\ clearTask \in BOOLEAN /\ Command = {"ADD", "DELETE", "RELOCATE", "CLEAR"}
      /\ CellOption = {"TX", "RX"}
  BY DEF Typed, TypeOK, Command, CellOption
<1>1. CandidateAdd \subseteq SUBSET Slot /\ \A sched, opt : NegotiatedCells(sched, opt) \subseteq Slot
  BY DEF CandidateAdd, NegotiatedCells
<1>2. CASE msf_trigger6pAdd
  BY <1>0, <1>1, <1>2, RequestTyped DEF msf_trigger6pAdd
<1>3. CASE msf_trigger6pDelete
  BY <1>0, <1>1, <1>3, RequestTyped DEF msf_trigger6pDelete
<1>4. CASE HousekeepingRelocates
  BY <1>0, <1>1, <1>4, RequestTyped DEF HousekeepingRelocates
<1>5. CASE HousekeepingClears
  BY <1>0, <1>5, RequestTyped DEF HousekeepingClears
<1>6. CASE msf_timer_clear_task
  <2>1. CASE sixtop_request("CLEAR", "TX", {}, {})
    <3>1. clearTask' \in BOOLEAN
      BY <1>6 DEF msf_timer_clear_task
    <3>. QED BY <1>0, <2>1, <3>1, RequestTyped
  <2>2. CASE ~sixtop_request("CLEAR", "TX", {}, {})
    BY <1>6, <2>2 DEF msf_timer_clear_task, transaction, Typed, TypeOK, Kinds
  <2>. QED BY <2>1, <2>2
<1>7. CASE msf_timer_waitretry_cb
  BY <1>7 DEF msf_timer_waitretry_cb, transaction, Typed, TypeOK, Kinds
<1>. QED BY <1>2, <1>3, <1>4, <1>5, <1>6, <1>7 DEF MsfRequests

LEMMA TimeoutTyped ==
    ASSUME Typed, TimerExpires \/ timer_sixtop_six2six_timeout_fired
    PROVE  Typed'
<1>1. CASE TimerExpires
  BY <1>1 DEF TimerExpires, Happens, NoFault, Fault, LateAnswer, msf, Typed, TypeOK, Kinds
<1>2. CASE timer_sixtop_six2six_timeout_fired
  <2>1. /\ cells' \in [Node -> [Slot -> CellStack]]
        /\ sequenceNumber' \in [Node -> 0..SEQNUM_MAX]
    BY <1>2, ClearTyped, Constants DEF timer_sixtop_six2six_timeout_fired, Typed, TypeOK
  <2>2. /\ UNCHANGED <<cellOptions, celllist_toDelete, msf, queue, received, critical>>
        /\ six2six_state' = IDLE /\ timeoutTimer' = FALSE /\ timeoutTask' = FALSE
        /\ faults' = faults \/ Happens("staleTimeout")
    BY <1>2 DEF timer_sixtop_six2six_timeout_fired, NoFault
  <2>. QED BY <2>1, <2>2 DEF Happens, Fault, LateAnswer, msf, Typed, TypeOK, Kinds
<1>. QED BY <1>1, <1>2

LEMMA AttemptTyped ==
    ASSUME Typed, NEW n \in Node, PacketLeaves(n) \/ Attempt(n, AckLost)
    PROVE  Typed'
<1>1. PICK b \in Buffer :
         /\ queue[n][b].status = "queued"
         /\ \/ queue' = queue \/ \E status \in {"sent", "failed"} : queue' = Status(n, b, status)
         /\ \/ received' = received
            \/ received' = [received EXCEPT ![Other(n)] = queue[n][b].msg]
         /\ \/ faults' = faults \/ \E fault \in Fault : Happens(fault)
         /\ UNCHANGED <<cells, sequenceNumber, transaction, msf, critical>>
  BY DEF PacketLeaves, Attempt, Acknowledged, GivenUp, AckLost, Arrives, TasksKeepUp,
         NoFault, Fault, LateAnswer
<1>2. queue[n][b] \in Packet /\ queue[n][b].msg \in Message
  BY <1>1, Constants DEF Typed, TypeOK
<1>3. queue' \in [Node -> [Buffer -> Packet \cup {Free}]]
  <2>1. \A status \in {"sent", "failed"} :
           [queue[n][b] EXCEPT !.status = status] \in Packet
    BY <1>2 DEF Packet
  <2>2. queue \in [Node -> [Buffer -> Packet \cup {Free}]]
    BY DEF Typed, TypeOK
  <2>3. \A status \in {"sent", "failed"} :
           Status(n, b, status) = [queue EXCEPT ![n] =
                [queue[n] EXCEPT ![b] = [queue[n][b] EXCEPT !.status = status]]]
    BY <2>2 DEF Status
  <2>4. ASSUME NEW p \in Packet
        PROVE  [queue EXCEPT ![n] = [queue[n] EXCEPT ![b] = p]] \in [Node -> [Buffer -> Packet \cup {Free}]]
    <3>1. [queue[n] EXCEPT ![b] = p] \in [Buffer -> Packet \cup {Free}]
      BY <2>2
    <3>. QED BY <2>2, <3>1
  <2>5. ASSUME NEW status \in {"sent", "failed"}
        PROVE  Status(n, b, status) \in [Node -> [Buffer -> Packet \cup {Free}]]
    <3> DEFINE p == [queue[n][b] EXCEPT !.status = status]
    <3>1. p \in Packet /\ Status(n, b, status) = [queue EXCEPT ![n] = [queue[n] EXCEPT ![b] = p]]
      BY <2>1, <2>3
    <3>. HIDE DEF p
    <3>. QED BY <2>4, <3>1
  <2>. QED BY <1>1, <2>2, <2>5
<1>4. received' \in [Node -> Message \cup {NoMessage}]
  BY <1>1, <1>2 DEF Typed, TypeOK
<1>5. faults' \subseteq Fault
  BY <1>1 DEF Happens, Typed, TypeOK
<1>6. TypeOK'
  BY <1>1, <1>3, <1>4, <1>5 DEF transaction, msf, Typed, TypeOK
<1>7. Kinds'
  <2>1. \A m \in Node, d \in Buffer :
           \/ queue'[m][d] = queue[m][d]
           \/ /\ queue'[m][d].msg = queue[m][d].msg
              /\ queue[m][d] # Free
    BY <1>1, <1>2, Constants DEF Status, Packet, Typed, TypeOK
  <2>2. /\ n = "child" => queue[n][b].msg \in Request
        /\ n = "parent" => queue[n][b].msg \in Response
    BY <1>1, Constants DEF Typed, Kinds
  <2>3. /\ received'["parent"] = NoMessage \/ received'["parent"] \in Request
        /\ received'["child"] = NoMessage \/ received'["child"] \in Response
    BY <1>1, <2>2, Constants DEF Typed, TypeOK, Kinds
  <2>. QED BY <2>1, <2>3, Constants DEF Typed, Kinds
<1>. QED BY <1>6, <1>7 DEF Typed

LEMMA RequestSendDoneTyped ==
    ASSUME Typed, RequestSendDone PROVE Typed'
<1>1. PICK b \in Buffer :
         /\ \/ queue["child"][b].status = "failed" /\ RequestFailed
            \/ queue["child"][b].status = "sent" /\ RequestSent
         /\ queue' = [queue EXCEPT !["child"][b] = Free]
  BY DEF RequestSendDone
<1>2. UNCHANGED <<cellOptions, celllist_toDelete, timeoutTask, msf, received, critical, faults>>
  BY DEF RequestSendDone
<1>3. /\ cells' \in [Node -> [Slot -> CellStack]]
      /\ sequenceNumber' \in [Node -> 0..SEQNUM_MAX]
  BY <1>1, ClearTyped, Constants DEF RequestFailed, RequestSent, Typed, TypeOK
<1>4. /\ six2six_state' \in {IDLE} \cup {WAIT_RESPONSE(c) : c \in Command}
                            \cup {WAIT_SENDDONE(c) : c \in Command}
      /\ timeoutTimer' \in BOOLEAN
  <2>1. timeoutTimer' \in BOOLEAN
    BY <1>1 DEF RequestFailed, RequestSent, Typed, TypeOK
  <2>2. six2six_state' \in {IDLE, six2six_state}
           \/ (six2six_state.wait = "sendDone" /\ six2six_state' = WAIT_RESPONSE(six2six_state.command))
    BY <1>1 DEF RequestFailed, RequestSent
  <2>3. six2six_state.wait = "sendDone" => six2six_state.command \in Command
    BY DEF IDLE, WAIT_RESPONSE, WAIT_SENDDONE, Typed, TypeOK
  <2>. QED BY <2>1, <2>2, <2>3 DEF Typed, TypeOK
<1>5. queue' \in [Node -> [Buffer -> Packet \cup {Free}]]
  BY <1>1, Constants DEF Typed, TypeOK
<1>6. TypeOK'
  BY <1>2, <1>3, <1>4, <1>5 DEF msf, Typed, TypeOK
<1>7. Kinds'
  BY <1>1, <1>2, Constants DEF Typed, TypeOK, Kinds
<1>. QED BY <1>6, <1>7 DEF Typed


LEMMA ResponseReceivedTyped ==
    ASSUME Typed, ResponseReceived PROVE Typed'
<1> DEFINE msg == received["child"]
<1>1. /\ msg \in Response /\ msg.celllist \in SUBSET Slot
      /\ six2six_state' = IDLE /\ timeoutTimer' = FALSE
      /\ received' = [received EXCEPT !["child"] = NoMessage]
      /\ UNCHANGED <<cellOptions, celllist_toDelete, timeoutTask, faults>>
      /\ sequenceNumber["child"] \in 0..SEQNUM_MAX
  BY Constants DEF ResponseReceived, Response, Typed, TypeOK, Kinds
<1>2. \/ /\ msf_handleRCError(msg.code)
         /\ UNCHANGED <<cells, queue, critical>>
      \/ ChildConcludes(msg) /\ UNCHANGED <<queue, msf>>
      \/ LateResponse /\ UNCHANGED msf
  BY DEF ResponseReceived
<1>. HIDE DEF msg
<1>3. /\ cells' \in [Node -> [Slot -> CellStack]]
      /\ sequenceNumber' \in [Node -> 0..SEQNUM_MAX]
      /\ critical' \in [Node -> BOOLEAN]
  <2>1. CASE msf_handleRCError(msg.code) /\ UNCHANGED <<cells, critical>>
    BY <1>1, <2>1, NextSeqnumTyped, Constants DEF msf_handleRCError, Typed, TypeOK
  <2>2. CASE LateResponse
    BY <2>2 DEF LateResponse, Typed, TypeOK
  <2>3. CASE ChildConcludes(msg) /\ six2six_state.command = "CLEAR"
    BY <2>3, ClearTyped, Constants DEF ChildConcludes, Typed, TypeOK
  <2>4. CASE ChildConcludes(msg) /\ six2six_state.command # "CLEAR"
    <3> DEFINE removed == RemovedByChild(msg)
               added == IF six2six_state.command \in {"ADD", "RELOCATE"} THEN msg.celllist ELSE {}
               sched == AddCells(RemoveCells(cells["child"], removed), added, cellOptions)
    <3>1. sched \in [Slot -> CellStack]
      <4>1. cells["child"] \in [Slot -> CellStack] /\ cellOptions \in CellOption
        BY Constants DEF Typed, TypeOK
      <4>. QED BY <4>1, CellsTyped
    <3>2. /\ cells' = [cells EXCEPT !["child"] = sched]
          /\ critical' = [critical EXCEPT !["child"] = @ \/ RemovesAbsent(cells["child"], removed)]
          /\ sequenceNumber' = [sequenceNumber EXCEPT !["child"] = NextSeqnum(@)]
      BY <2>4 DEF ChildConcludes
    <3>. HIDE DEF sched, removed
    <3>3. critical' \in [Node -> BOOLEAN]
      <4>1. RemovesAbsent(cells["child"], removed) \in BOOLEAN
        BY DEF RemovesAbsent
      <4>. QED BY <3>2, <4>1, Constants DEF Typed, TypeOK
    <3>. QED BY <1>1, <3>1, <3>2, <3>3, NextSeqnumTyped, Constants DEF Typed, TypeOK
  <2>. QED BY <1>2, <2>1, <2>2, <2>3, <2>4
<1>4. /\ queue' \in [Node -> [Buffer -> Packet \cup {Free}]]
      /\ \A b \in Buffer : queue'["child"][b] \in {Free, queue["child"][b]}
      /\ queue'["parent"] = queue["parent"]
  BY <1>2, Constants DEF LateResponse, QueueAfterRemoval, Typed, TypeOK
<1>5. waitretry' \in BOOLEAN /\ clearTask' \in BOOLEAN
  BY <1>2 DEF msf_handleRCError, msf, Typed, TypeOK
<1>6. TypeOK'
  BY <1>1, <1>3, <1>4, <1>5, Constants DEF Typed, TypeOK
<1>7. Kinds'
  BY <1>1, <1>4, Constants DEF Typed, TypeOK, Kinds
<1>. QED BY <1>6, <1>7 DEF Typed

LEMMA RequestReceivedTyped ==
    ASSUME Typed, RequestReceived PROVE Typed'
<1>1. /\ received["parent"] \in Request
      /\ received' = [received EXCEPT !["parent"] = NoMessage]
      /\ UNCHANGED <<cells, sequenceNumber, transaction, msf, critical, faults>>
      /\ \/ UNCHANGED queue
         \/ \E b \in Buffer, a \in Answers(received["parent"]) :
               queue' = [queue EXCEPT !["parent"][b] = Queued(a)]
  BY DEF RequestReceived, FirstFree, Typed, Kinds
<1>2. \A a \in Answers(received["parent"]) :
         Queued(a) \in Packet /\ Queued(a).msg \in Response
  BY <1>1, AnswersTyped, Constants DEF Queued, Packet
<1>3. queue' \in [Node -> [Buffer -> Packet \cup {Free}]]
  BY <1>1, <1>2, Constants DEF Typed, TypeOK
<1>4. TypeOK'
  BY <1>1, <1>3, Constants DEF transaction, msf, Typed, TypeOK
<1>5. Kinds'
  BY <1>1, <1>2, Constants DEF Typed, TypeOK, Kinds
<1>. QED BY <1>4, <1>5 DEF Typed

LEMMA ResponseSendDoneTyped ==
    ASSUME Typed, ResponseSendDone PROVE Typed'
<1>1. PICK b \in Buffer :
         /\ \/ queue["parent"][b].status = "failed" /\ ResponseFailed(queue["parent"][b].msg)
            \/ queue["parent"][b].status = "sent" /\ ResponseSent(queue["parent"][b].msg)
         /\ queue' = [queue EXCEPT !["parent"][b] = Free]
  BY DEF ResponseSendDone
<1> DEFINE msg == queue["parent"][b].msg
<1>2. msg \in Response
  BY <1>1, Constants DEF Typed, Kinds
<1>3. UNCHANGED <<transaction, msf, received, faults>>
  BY DEF ResponseSendDone
<1>4. ResponseFailed(msg) \/ ResponseSent(msg)
  BY <1>1
<1>. HIDE DEF msg
<1>5. /\ cells' \in [Node -> [Slot -> CellStack]]
      /\ sequenceNumber' \in [Node -> 0..SEQNUM_MAX]
      /\ critical' \in [Node -> BOOLEAN]
  <2>0. sequenceNumber["parent"] \in 0..SEQNUM_MAX /\ cells["parent"] \in [Slot -> CellStack]
    BY Constants DEF Typed, TypeOK
  <2>1. CASE ClearLocally("parent") /\ UNCHANGED critical
    BY <2>1, ClearTyped, Constants DEF Typed, TypeOK
  <2>2. CASE UNCHANGED <<cells, sequenceNumber, critical>>
    BY <2>2 DEF Typed, TypeOK
  <2>3. CASE /\ UNCHANGED <<cells, critical>>
             /\ sequenceNumber' = [sequenceNumber EXCEPT !["parent"] = NextSeqnum(@)]
    BY <2>0, <2>3, NextSeqnumTyped, Constants DEF Typed, TypeOK
  <2>4. CASE ParentConcludes(msg) /\ msg.command # "CLEAR"
    <3> DEFINE sched == AddCells(RemoveCells(cells["parent"], msg.delete), msg.add, msg.options)
    <3>1. sched \in [Slot -> CellStack]
      BY <1>2, <2>0, CellsTyped DEF Response
    <3>2. /\ cells' = [cells EXCEPT !["parent"] = sched]
          /\ critical' = [critical EXCEPT !["parent"] = @ \/ RemovesAbsent(cells["parent"], msg.delete)]
          /\ sequenceNumber' = [sequenceNumber EXCEPT !["parent"] = NextSeqnum(@)]
      BY <2>4 DEF ParentConcludes, Typed, TypeOK
    <3>. HIDE DEF sched
    <3>3. critical' \in [Node -> BOOLEAN]
      <4>1. RemovesAbsent(cells["parent"], msg.delete) \in BOOLEAN
        BY DEF RemovesAbsent
      <4>. QED BY <3>2, <4>1, Constants DEF Typed, TypeOK
    <3>. QED BY <2>0, <3>1, <3>2, <3>3, NextSeqnumTyped, Constants DEF Typed, TypeOK
  <2>. QED BY <1>4, <2>1, <2>2, <2>3, <2>4 DEF ResponseFailed, ResponseSent, ParentConcludes
<1>6. queue' \in [Node -> [Buffer -> Packet \cup {Free}]]
  BY <1>1, Constants DEF Typed, TypeOK
<1>7. TypeOK'
  BY <1>3, <1>5, <1>6 DEF transaction, msf, Typed, TypeOK
<1>8. Kinds'
  BY <1>1, <1>3, Constants DEF Typed, TypeOK, Kinds
<1>. QED BY <1>7, <1>8 DEF Typed

LEMMA RebootTyped ==
    ASSUME Typed, NEW n \in Node, Reboot(n) PROVE Typed'
<1>1. /\ cells' = [cells EXCEPT ![n] = NoCells]
      /\ sequenceNumber' = [sequenceNumber EXCEPT ![n] = 0]
      /\ queue' = [queue EXCEPT ![n] = NoPackets]
      /\ received' = [received EXCEPT ![n] = NoMessage]
      /\ critical' = [critical EXCEPT ![n] = FALSE]
      /\ faults' \subseteq Fault
  BY DEF Reboot, Happens, NoFault, Fault, Typed, TypeOK
<1>2. NoCells \in [Slot -> CellStack]
  <2>1. <<>> \in CellStack
    <3>1. Len(<<>>) <= MAXBACKUPSLOTS + 1 /\ <<>> \in Seq(CellOption)
      BY BackupAssumption
    <3>. QED BY <3>1, StackTyped
  <2>. QED BY <2>1 DEF NoCells
<1>3. NoPackets \in [Buffer -> Packet \cup {Free}]
  BY DEF NoPackets
<1>4. /\ six2six_state' \in {IDLE, six2six_state} /\ cellOptions' \in CellOption
      /\ celllist_toDelete' \in SUBSET Slot
      /\ {timeoutTimer', timeoutTask', waitretry', clearTask'} \subseteq BOOLEAN
  BY DEF Reboot, transaction, msf, CellOption, Typed, TypeOK
<1>5. TypeOK'
  BY <1>1, <1>2, <1>3, <1>4, Constants DEF Typed, TypeOK
<1>6. Kinds'
  BY <1>1, Constants DEF NoPackets, Typed, TypeOK, Kinds
<1>. QED BY <1>5, <1>6 DEF Typed

LEMMA InitTyped == Init => Typed
<1>. SUFFICES ASSUME Init PROVE Typed
  OBVIOUS
<1>1. NoCells \in [Slot -> CellStack]
  <2>1. <<>> \in CellStack
    <3>1. Len(<<>>) <= MAXBACKUPSLOTS + 1 /\ <<>> \in Seq(CellOption)
      BY BackupAssumption
    <3>. QED BY <3>1, StackTyped
  <2>. QED BY <2>1 DEF NoCells
<1>. QED BY <1>1, Constants DEF Init, NoPackets, CellOption, Typed, TypeOK, Kinds

LEMMA StepTyped == Typed /\ [Next]_vars => Typed'
<1>. SUFFICES ASSUME Typed, [Next]_vars PROVE Typed'
  OBVIOUS
<1>1. CASE UNCHANGED vars
  BY <1>1 DEF vars, transaction, msf, Typed, TypeOK, Kinds
<1>. QED BY <1>1, MsfTyped, TimeoutTyped, AttemptTyped, RequestSendDoneTyped,
            ResponseReceivedTyped, RequestReceivedTyped, ResponseSendDoneTyped, RebootTyped
         DEF Next

\* The variables keep their types: in particular no schedule has more entries in
\* a slot than there are backups, and no message reaches the wrong node.
THEOREM SixPTypeOK == Spec => []TypeOK
<1>1. Typed => TypeOK
  BY DEF Typed
<1>. QED BY <1>1, InitTyped, StepTyped, PTL DEF Spec

-----------------------------------------------------------------------------
(* What an answer does to a schedule with one cell in a slot *)

\* The mirror image of at most one cell.
LEMMA MirroredFew ==
    /\ Mirrored(<<>>) = <<>>
    /\ Mirrored(<<"TX">>) = <<"RX">> /\ Mirrored(<<"RX">>) = <<"TX">>
    /\ \A opt \in CellOption : Mirrored(<<opt>>) = <<Reverted(opt)>>
    /\ \A opt \in CellOption : Reverted(Reverted(opt)) = opt /\ Reverted(opt) \in CellOption
<1>1. \A opt \in CellOption : Mirrored(<<opt>>) = <<Reverted(opt)>>
  BY DEF Mirrored
<1>2. Mirrored(<<>>) = <<>>
  BY DEF Mirrored
<1>. QED BY <1>1, <1>2 DEF CellOption, Reverted

\* No backup takes the place of a cell that is removed.
LEMMA RemovedFew ==
    ASSUME NEW sched, \A t \in Slot : sched[t] \in Few, NEW S
    PROVE  \A t \in Slot : RemoveCells(sched, S)[t] = IF t \in S THEN <<>> ELSE sched[t]
<1>1. Len(<<>>) <= 1 /\ Len(<<"TX">>) <= 1 /\ Len(<<"RX">>) <= 1
  OBVIOUS
<1>2. ASSUME NEW st \in Few PROVE Promoted(st) = <<>>
  <2>1. Len(st) <= 1
    BY <1>1, Zenon DEF Few
  <2>. QED BY <2>1 DEF Promoted
<1>. QED BY <1>2 DEF RemoveCells

\* A cell is added to slots that are free.
LEMMA AddedFew ==
    ASSUME NEW sched, \A t \in Slot : sched[t] \in Few, NEW S, NEW opt,
           \A t \in Slot \cap S : sched[t] = <<>>
    PROVE  \A t \in Slot : AddCells(sched, S, opt)[t] = IF t \in S THEN <<opt>> ELSE sched[t]
<1>1. Append(<<>>, opt) = <<opt>> /\ Len(<<>>) <= MAXBACKUPSLOTS
  BY BackupAssumption
<1>. QED BY <1>1 DEF AddCells

\* What the schedule of a node is after the answer, if it can be concluded.
LEMMA ClearingAfter ==
    ASSUME NEW a, Clearing(a), NEW sched, \A t \in Slot : sched[t] \in Few, NEW opt
    PROVE  \A t \in Slot : CellsAfter(a, sched, opt)[t] = <<>>
BY RemovedFew DEF CellsAfter, Clearing

\* An effective answer changes the slots it names, and no other.
LEMMA EffectiveAfter ==
    ASSUME NEW a, Effective(a), NEW sched, \A t \in Slot : sched[t] \in Few,
           Doable(a, sched), NEW opt
    PROVE  \A t \in Slot :
             CellsAfter(a, sched, opt)[t] = IF t \in a.add THEN <<opt>>
                                            ELSE IF t \in a.delete THEN <<>> ELSE sched[t]
<1> DEFINE rest == RemoveCells(sched, a.delete)
<1>1. \A t \in Slot : rest[t] = IF t \in a.delete THEN <<>> ELSE sched[t]
  BY RemovedFew
<1>2. /\ \A t \in Slot : rest[t] \in Few
      /\ \A t \in Slot \cap a.add : rest[t] = <<>>
  BY <1>1 DEF Doable, Few
<1>3. CellsAfter(a, sched, opt) = AddCells(rest, a.add, opt)
  BY DEF CellsAfter, Effective
<1>. HIDE DEF rest
<1>4. \A t \in Slot : AddCells(rest, a.add, opt)[t] = IF t \in a.add THEN <<opt>> ELSE rest[t]
  BY <1>2, AddedFew
<1>. QED BY <1>1, <1>3, <1>4

\* A slot has one cell at most afterwards.
LEMMA AfterFew ==
    ASSUME NEW a, NEW sched, \A t \in Slot : sched[t] \in Few,
           Doable(a, sched), NEW opt \in CellOption
    PROVE  \A t \in Slot : CellsAfter(a, sched, opt)[t] \in Few
<1>1. Effective(a) =>
        \A t \in Slot :
             CellsAfter(a, sched, opt)[t] = IF t \in a.add THEN <<opt>>
                                            ELSE IF t \in a.delete THEN <<>> ELSE sched[t]
  BY EffectiveAfter
<1>2. Clearing(a) => \A t \in Slot : CellsAfter(a, sched, opt)[t] = <<>>
  BY ClearingAfter
<1>3. a.code # "SUCCESS" => CellsAfter(a, sched, opt) = sched
  BY DEF CellsAfter
<1>4. <<opt>> \in Few /\ <<>> \in Few
  BY DEF CellOption, Few
<1>. QED BY <1>1, <1>2, <1>3, <1>4 DEF Effective, Clearing

\* Within the bounds the next sequence number is the number plus one.
LEMMA SeqnumAfter ==
    ASSUME NoRollOver, NEW k \in Nat, k <= MaxSeqnum + 1
    PROVE  NextSeqnum(k) = k + 1 /\ k + 1 \in 0..SEQNUM_MAX
<1>1. MaxSeqnum \in Nat /\ SEQNUM_MAX \in Nat
  BY BoundAssumption, SeqnumAssumption
<1>. QED BY <1>1 DEF NoRollOver, NextSeqnum

\* Both nodes conclude the same answer: they agree afterwards if they did before.
LEMMA BothConclude ==
    ASSUME NoRollOver, NEW a \in Response,
           NEW mine, \A t \in Slot : mine[t] \in Few, Doable(a, mine),
           NEW theirs, \A t \in Slot : theirs[t] \in Few, Doable(a, theirs),
           NEW k \in Nat, k <= MaxSeqnum + 1, NEW l \in Nat, l <= MaxSeqnum + 1,
           NEW opt \in CellOption, a.options = Reverted(opt),
           Agrees(k, mine, l, theirs)
    PROVE  Agrees(SeqAfter(a, k), CellsAfter(a, mine, opt),
                  SeqAfter(a, l), CellsAfter(a, theirs, a.options))
<1>0. a.options \in CellOption /\ opt = Reverted(a.options)
  BY MirroredFew
<1>1. CASE Clearing(a)
  <2>1. /\ \A t \in Slot : CellsAfter(a, mine, opt)[t] = <<>>
        /\ \A t \in Slot : CellsAfter(a, theirs, a.options)[t] = <<>>
    BY <1>1, ClearingAfter
  <2>. QED BY <2>1, MirroredFew DEF Agrees
<1>2. CASE ~Clearing(a)
  <2>1. SeqAfter(a, k) = SeqAfter(a, l) => k = l
    BY <1>2, SeqnumAfter DEF SeqAfter
  <2>2. CASE Effective(a)
    <3>1. /\ \A t \in Slot :
                 CellsAfter(a, mine, opt)[t] = IF t \in a.add THEN <<opt>>
                                               ELSE IF t \in a.delete THEN <<>> ELSE mine[t]
          /\ \A t \in Slot :
                 CellsAfter(a, theirs, a.options)[t] = IF t \in a.add THEN <<a.options>>
                                               ELSE IF t \in a.delete THEN <<>> ELSE theirs[t]
      BY <1>0, <2>2, EffectiveAfter
    <3>. QED BY <1>0, <2>1, <3>1, MirroredFew DEF Agrees
  <2>3. CASE a.code # "SUCCESS"
    <3>1. /\ CellsAfter(a, mine, opt) = mine
          /\ CellsAfter(a, theirs, a.options) = theirs
      BY <2>3 DEF CellsAfter
    <3>. QED BY <2>1, <3>1 DEF Agrees
  <2>. QED BY <1>2, <2>2, <2>3 DEF Effective, Clearing
<1>. QED BY <1>1, <1>2

\* The child takes a successful answer for a late one, or has not looked at it:
\* it is behind, or has no cells.
LEMMA OneConcludes ==
    ASSUME NoRollOver, NEW a \in Response, a.code = "SUCCESS",
           NEW mine, NEW k \in Nat, k = 0 => \A t \in Slot : mine[t] = <<>>,
           NEW theirs, \A t \in Slot : theirs[t] \in Few, Doable(a, theirs),
           NEW l \in Nat, l <= MaxSeqnum + 1,
           NEW opt \in CellOption, Effective(a) => k <= l
    PROVE  Agrees(k, mine, SeqAfter(a, l), CellsAfter(a, theirs, opt))
<1>1. CASE Clearing(a)
  <2>1. \A t \in Slot : CellsAfter(a, theirs, opt)[t] = <<>>
    BY <1>1, ClearingAfter
  <2>2. SeqAfter(a, l) = 0
    BY <1>1 DEF SeqAfter
  <2>. QED BY <2>1, <2>2, MirroredFew DEF Agrees
<1>2. CASE Effective(a)
  <2>1. SeqAfter(a, l) = l + 1
    BY <1>2, SeqnumAfter DEF SeqAfter, Effective, Clearing
  <2>. QED BY <1>2, <2>1 DEF Agrees
<1>. QED BY <1>1, <1>2 DEF Effective, Clearing

-----------------------------------------------------------------------------
(* Requests *)

\* A packet buffer has a status, and is free when it says so.
LEMMA Statuses ==
    ASSUME Typed, NEW n \in Node, NEW b \in Buffer
    PROVE  /\ queue[n][b].status \in {"free", "queued", "sent", "failed"}
           /\ queue[n][b] = Free <=> queue[n][b].status = "free"
<1>1. queue[n][b] \in Packet \cup {Free}
  BY DEF Typed, TypeOK
<1>. QED BY <1>1, Constants

\* A step that leaves the packets, cells and numbers alone keeps the invariant.
LEMMA NothingMoves ==
    ASSUME CleanInv, Slow => Slow',
           UNCHANGED <<cells, sequenceNumber, six2six_state, cellOptions,
                       celllist_toDelete, queue, received, critical>>
    PROVE  CleanInv'
<1>1. OneToken' /\ Messages' /\ OneSent' /\ FewCells'
  BY DEF CleanInv, OneToken, OnlyOne, Asked, Heard, Answered, Told, Has, Messages, Asks,
         Fits, RemovedByChild, OneSent, IsSent, FewCells
<1>2. SlowTasks' /\ Numbers'
  BY DEF CleanInv, SlowTasks, Numbers, InTransit, Heard, Told, Has, ChildSeq, ParentSeq, IsSent
<1>3. AgreeNow' /\ AgreeOnceTold' /\ AgreeOnceSent' /\ AgreeOnceBoth'
  BY DEF CleanInv, AgreeNow, AgreeOnceTold, AgreeOnceSent, AgreeOnceBoth, Heard, Told, Has, ChildSeq,
         ParentSeq, ChildCells, ParentCells, IsSent, InTransit, InTurn
<1>4. Concludable'
  BY DEF CleanInv, Concludable, Has, IsSent, InTurn, ChildSeq, ParentSeq, ParentCells
<1>. QED BY <1>1, <1>2, <1>3, <1>4 DEF CleanInv

\* There is no request that a new one, or a late response, removes.
LEMMA NothingToRemove ==
    ASSUME Typed, ~Asked
    PROVE  QueueAfterRemoval = {queue["child"]}
<1>1. \A b \in Buffer : queue["child"][b].status # "queued"
  BY DEF Asked, Has
<1>2. [b \in Buffer |-> IF IsQueuedRequest(queue["child"][b]) THEN Free ELSE queue["child"][b]]
         = queue["child"]
  BY <1>1, Constants DEF IsQueuedRequest, Typed, TypeOK
<1>. QED BY <1>2 DEF QueueAfterRemoval

\* A request is made when nothing is on its way, of cells the child has or slots
\* that are free: it becomes the only message under way, and asks what the child
\* waits for.
LEMMA RequestClean ==
    ASSUME NoRollOver, Typed, Clean, CleanInv,
           NEW command \in Command, NEW opt \in CellOption,
           NEW add \in SUBSET Slot, NEW delete \in SUBSET Slot,
           command = "ADD" => delete = {}, command = "DELETE" => add = {},
           command = "RELOCATE" => delete # {} /\ Offered(delete) = delete,
           \A t \in delete : cells["child"][t] # <<>>,
           \A t \in add : cells["child"][t] = <<>>,
           sixtop_request(command, opt, add, delete)
    PROVE  CleanInv'
<1> DEFINE msg == [type |-> "request", command |-> command, options |-> opt,
                   seqNum |-> sequenceNumber["child"], add |-> add, delete |-> delete]
<1>1. ~Asked /\ ~Heard /\ ~Answered /\ ~Told
  BY DEF sixtop_request, CleanInv, OneToken
<1>2. QueueAfterRemoval = {queue["child"]}
  BY <1>1, NothingToRemove
<1>3. /\ six2six_state = IDLE
      /\ \A n \in Node : sequenceNumber[n] < RequestLimit(command)
      /\ UNCHANGED <<cells, sequenceNumber, received, critical>>
      /\ \/ /\ NoFault
            /\ \E b \in FirstFree(queue["child"]) :
                 queue' = [queue EXCEPT !["child"] = [queue["child"] EXCEPT ![b] = Queued(msg)]]
            /\ six2six_state' = WAIT_SENDDONE(command)
            /\ cellOptions' = opt
            /\ celllist_toDelete' = IF delete = {} THEN celllist_toDelete ELSE delete
         \/ /\ IF command = "CLEAR" THEN Happens("lostClear") ELSE NoFault
            /\ queue' = [queue EXCEPT !["child"] = queue["child"]]
            /\ UNCHANGED <<six2six_state, cellOptions, celllist_toDelete>>
  BY <1>2 DEF sixtop_request
<1>4. CASE /\ IF command = "CLEAR" THEN Happens("lostClear") ELSE NoFault
           /\ queue' = [queue EXCEPT !["child"] = queue["child"]]
           /\ UNCHANGED <<six2six_state, cellOptions, celllist_toDelete>>
  <2>1. queue' = queue
    BY <1>4 DEF Typed, TypeOK
  <2>2. Slow => Slow'
    BY <1>4 DEF Slow, Happens, NoFault
  <2>. QED BY <1>3, <1>4, <2>1, <2>2, NothingMoves
<1>5. CASE /\ NoFault
           /\ \E b \in FirstFree(queue["child"]) :
                queue' = [queue EXCEPT !["child"] = [queue["child"] EXCEPT ![b] = Queued(msg)]]
           /\ six2six_state' = WAIT_SENDDONE(command)
           /\ cellOptions' = opt
           /\ celllist_toDelete' = IF delete = {} THEN celllist_toDelete ELSE delete
  <2>1. PICK b \in Buffer :
          queue' = [queue EXCEPT !["child"] = [queue["child"] EXCEPT ![b] = Queued(msg)]]
    BY <1>5 DEF FirstFree
  <2>2. /\ queue'["parent"] = queue["parent"]
        /\ queue'["child"][b] = Queued(msg)
        /\ \A d \in Buffer : d # b => queue'["child"][d] = queue["child"][d]
    BY <2>1, Constants DEF Typed, TypeOK
  <2>3. /\ Queued(msg).status = "queued" /\ Queued(msg).msg = msg
        /\ queue'["child"][b] # Free
    BY <2>2, Constants DEF Queued
  <2>4. /\ six2six_state' # IDLE /\ six2six_state'.command = command
        /\ Slow' = Slow /\ UNCHANGED <<cells, sequenceNumber, received, critical>>
    BY <1>3, <1>5 DEF WAIT_SENDDONE, IDLE, NoFault, Slow
  <2>5. OneToken'
    BY <1>1, <2>2, <2>3, <2>4 DEF CleanInv, OneToken, OnlyOne, Asked, Heard, Answered, Told, Has
  <2>6. Messages'
    <3>1. Asks(msg)'
      BY <1>5, <2>4 DEF Asks
    <3>2. \A d \in Buffer : queue'["child"][d].status = "queued" => queue'["child"][d].msg = msg
      BY <1>1, <2>2, <2>3 DEF Asked, Has
    <3>. QED BY <1>1, <2>2, <2>4, <3>1, <3>2 DEF Messages, Heard, Told, Answered, Has
  <2>7. OneSent' /\ FewCells'
    BY <2>2, <2>4 DEF CleanInv, OneSent, IsSent, Has, Told, FewCells
  <2>8. SlowTasks' /\ InTransit' = InTransit /\ ~InTransit
    BY <1>1, <2>2, <2>3, <2>4 DEF SlowTasks, InTransit, Asked, Answered, Heard, Told, Has
  <2>9. Numbers'
    <3>1. /\ sequenceNumber["child"] <= MaxSeqnum /\ sequenceNumber["parent"] <= MaxSeqnum
          /\ sequenceNumber["parent"] \in Nat
          /\ MaxSeqnum \in Nat
      BY <1>3, BoundAssumption, Constants DEF RequestLimit, Clean, Typed, TypeOK
    <3>2. NextSeqnum(sequenceNumber["parent"]) <= MaxSeqnum + 1
      BY <3>1, SeqnumAfter
    <3>3. \A a : SeqAfter(a, sequenceNumber["parent"]) <= MaxSeqnum + 1
      BY <3>1, <3>2 DEF SeqAfter
    <3>4. ChildSeq' <= MaxSeqnum /\ ParentSeq' <= MaxSeqnum /\ ChildSeq' \in Nat /\ ParentSeq' \in Nat
      BY <2>4, <3>1, Constants DEF ChildSeq, ParentSeq, Typed, TypeOK
    <3>5. \A d \in Buffer : SeqAfter(queue["parent"][d].msg, ParentSeq)' <= MaxSeqnum + 1
      BY <2>2, <2>4, <3>3 DEF ParentSeq
    <3>. QED BY <3>1, <3>4, <3>5 DEF Numbers
  <2>10. AgreeNow' /\ AgreeOnceTold' /\ AgreeOnceSent' /\ AgreeOnceBoth'
    BY <1>1, <2>2, <2>4, <2>8
       DEF CleanInv, AgreeNow, AgreeOnceTold, AgreeOnceSent, AgreeOnceBoth, Told, Has,
           ChildSeq, ParentSeq, ChildCells, ParentCells, IsSent
  <2>11. Concludable'
    BY <1>1, <2>2 DEF Concludable, Answered, Has
  <2>. QED BY <2>5, <2>6, <2>7, <2>8, <2>9, <2>10, <2>11 DEF CleanInv
<1>. QED BY <1>3, <1>4, <1>5

LEMMA MsfClean ==
    ASSUME NoRollOver, Typed, Clean, CleanInv,
           MsfRequests \/ msf_timer_clear_task \/ msf_timer_waitretry_cb
    PROVE  CleanInv'
<1>0. Command = {"ADD", "DELETE", "RELOCATE", "CLEAR"} /\ CellOption = {"TX", "RX"}
  BY DEF Command, CellOption
<1>1. /\ \A add \in CandidateAdd : add \in SUBSET Slot /\ \A t \in add : cells["child"][t] = <<>>
      /\ \A opt \in CellOption :
            /\ NegotiatedCells(cells["child"], opt) \in SUBSET Slot
            /\ \A t \in NegotiatedCells(cells["child"], opt) : cells["child"][t] # <<>>
  BY DEF CandidateAdd, Available, NegotiatedCells, LinkType, CellOption
<1>2. CASE msf_trigger6pAdd
  BY <1>0, <1>1, <1>2, RequestClean DEF msf_trigger6pAdd
<1>3. CASE msf_trigger6pDelete
  BY <1>0, <1>1, <1>3, RequestClean DEF msf_trigger6pDelete
<1>4. CASE HousekeepingRelocates
  <2>1. PICK bad \in NegotiatedCells(cells["child"], "TX"), add \in CandidateAdd :
          sixtop_request("RELOCATE", "TX", add, {bad})
    BY <1>4 DEF HousekeepingRelocates
  <2>2. bad \in Slot /\ cells["child"][bad] # <<>> /\ Offered({bad}) = {bad}
    <3>1. bad \in Slot /\ cells["child"][bad] # <<>>
      <4>1. "TX" \in CellOption
        BY DEF CellOption
      <4>. QED BY <4>1, <1>1
    <3>2. bad \in Int
      BY <3>1, SlotAssumption
    <3>3. Offered({bad}) = {bad}
      BY <3>2 DEF Offered
    <3>. QED BY <3>1, <3>3
  <2> DEFINE delete == {bad}
  <2>3. /\ delete \in SUBSET Slot /\ delete # {} /\ Offered(delete) = delete
        /\ \A t \in delete : cells["child"][t] # <<>>
    BY <2>2
  <2>4. add \in SUBSET Slot /\ \A t \in add : cells["child"][t] = <<>>
    BY <1>1
  <2>5. sixtop_request("RELOCATE", "TX", add, delete)
    BY <2>1
  <2>. HIDE DEF delete
  <2>. QED BY <1>0, <2>3, <2>4, <2>5, RequestClean
<1>5. CASE HousekeepingClears
  BY <1>0, <1>5, RequestClean DEF HousekeepingClears
<1>6. CASE msf_timer_clear_task
  <2>1. CASE sixtop_request("CLEAR", "TX", {}, {})
    BY <1>0, <2>1, RequestClean
  <2>2. CASE ~sixtop_request("CLEAR", "TX", {}, {})
    BY <1>6, <2>2, NothingMoves DEF msf_timer_clear_task, transaction, Slow
  <2>. QED BY <2>1, <2>2
<1>7. CASE msf_timer_waitretry_cb
  BY <1>7, NothingMoves DEF msf_timer_waitretry_cb, transaction, Slow
<1>. QED BY <1>2, <1>3, <1>4, <1>5, <1>6, <1>7 DEF MsfRequests

-----------------------------------------------------------------------------
(* Time-outs *)

\* A node that clears its schedule has no cells left.
LEMMA Cleared ==
    ASSUME Typed, CleanInv, NEW n \in Node, ClearLocally(n)
    PROVE  /\ sequenceNumber'[n] = 0 /\ \A t \in Slot : cells'[n][t] = <<>>
           /\ \A m \in Node : m # n => cells'[m] = cells[m] /\ sequenceNumber'[m] = sequenceNumber[m]
           /\ \A m \in Node, t \in Slot : cells'[m][t] \in Few
           /\ \A m \in Node : sequenceNumber'[m] = 0 => \A t \in Slot : cells'[m][t] = <<>>
<1>1. \A t \in Slot : RemoveCells(cells[n], Slot)[t] = <<>>
  BY RemovedFew DEF CleanInv, FewCells
<1>2. /\ sequenceNumber'[n] = 0 /\ cells'[n] = RemoveCells(cells[n], Slot)
      /\ \A m \in Node : m # n => cells'[m] = cells[m] /\ sequenceNumber'[m] = sequenceNumber[m]
  BY DEF ClearLocally, Typed, TypeOK
<1>. QED BY <1>1, <1>2 DEF CleanInv, FewCells, Few

\* When nothing is on its way any more, what is said of messages holds.
LEMMA NoToken ==
    ASSUME ~Asked', ~Heard', ~Answered', ~Told'
    PROVE  OneToken' /\ Messages' /\ Concludable' /\ ~InTransit'
<1>1. OneToken'
  <2>1. OnlyOne("child")' /\ OnlyOne("parent")'
    BY DEF OnlyOne, Asked, Answered, Has
  <2>. QED BY <2>1 DEF OneToken
<1>2. Messages' /\ Concludable' /\ ~InTransit'
  BY DEF Messages, Concludable, InTransit, Asked, Answered, Has
<1>. QED BY <1>1, <1>2

\* A time-out that does not race an answer finds nothing on its way.
LEMMA TimeoutClean ==
    ASSUME NoRollOver, Typed, Clean, CleanInv, Clean',
           TimerExpires \/ timer_sixtop_six2six_timeout_fired
    PROVE  CleanInv'
<1>1. CASE TimerExpires
  BY <1>1, NothingMoves DEF TimerExpires, msf, Happens, NoFault, Slow
<1>2. CASE timer_sixtop_six2six_timeout_fired
  <2>1. ~InFlight /\ NoFault
    BY <1>2 DEF timer_sixtop_six2six_timeout_fired, Happens, Clean, LateAnswer, NoFault
  <2>2. /\ six2six_state' = IDLE /\ UNCHANGED <<queue, received, critical>>
        /\ \A n \in Node : queue[n] = NoPackets /\ received[n] = NoMessage
        /\ ClearLocally("child") \/ UNCHANGED <<cells, sequenceNumber>>
    BY <1>2, <2>1 DEF timer_sixtop_six2six_timeout_fired, InFlight
  <2>3. \A n \in Node, b \in Buffer : queue'[n][b] = Free /\ queue'[n][b].status = "free"
    BY <2>2, Constants DEF NoPackets
  <2>4. ~Asked' /\ ~Heard' /\ ~Answered' /\ ~Told' /\ ~Has("parent", "sent")' /\ ~Has("parent", "sent")
    BY <2>2, <2>3, Constants DEF Asked, Heard, Answered, Told, Has
  <2>5. FewCells' /\ Agrees(ChildSeq, ChildCells, ParentSeq, ParentCells)'
    <3>1. CASE UNCHANGED <<cells, sequenceNumber>>
      BY <2>2, <2>4, <3>1 DEF CleanInv, FewCells, AgreeNow, Told, ChildSeq, ChildCells, ParentSeq, ParentCells
    <3>2. CASE ClearLocally("child")
      BY <2>2, <3>2, Cleared, Constants, MirroredFew
         DEF CleanInv, FewCells, Agrees, ChildSeq, ChildCells, ParentSeq, ParentCells
    <3>. QED BY <2>2, <3>1, <3>2
  <2>6. OneToken' /\ Messages' /\ Concludable'
    BY <2>4, NoToken
  <2>9. OneSent' /\ SlowTasks'
    BY <2>2, <2>4 DEF OneSent, IsSent, SlowTasks, Has, IDLE
  <2>7. Numbers'
    BY <2>2, <2>3, <2>4, Cleared, Constants, BoundAssumption
       DEF CleanInv, Numbers, Has, ChildSeq, ParentSeq, Typed, TypeOK, Heard, Told
  <2>8. AgreeNow' /\ AgreeOnceTold' /\ AgreeOnceSent' /\ AgreeOnceBoth'
    <3>1. \A b \in Buffer : ~IsSent(b)'
      BY <2>4 DEF IsSent, Has
    <3>. QED BY <2>4, <2>5, <3>1 DEF AgreeNow, AgreeOnceTold, AgreeOnceSent, AgreeOnceBoth
  <2>. QED BY <2>5, <2>6, <2>7, <2>8, <2>9 DEF CleanInv
<1>. QED BY <1>1, <1>2

-----------------------------------------------------------------------------
(* Frames *)

\* The status of one packet changes.
LEMMA StatusOfOne ==
    ASSUME Typed, NEW n \in Node, NEW b \in Buffer, NEW status \in {"sent", "failed"},
           queue' = Status(n, b, status)
    PROVE  /\ \A m \in Node : m # n => queue'[m] = queue[m]
           /\ \A d \in Buffer : queue'[n][d].msg = queue[n][d].msg
           /\ \A d \in Buffer : d # b => queue'[n][d] = queue[n][d]
           /\ queue'[n][b].status = status
<1>1. queue[n] \in [Buffer -> Packet \cup {Free}] /\ queue[n][b] \in Packet \cup {Free}
  BY DEF Typed, TypeOK
<1>2. /\ [queue[n][b] EXCEPT !.status = status].status = status
      /\ [queue[n][b] EXCEPT !.status = status].msg = queue[n][b].msg
  BY <1>1 DEF Packet, Free
<1>3. queue' = [queue EXCEPT ![n] = [queue[n] EXCEPT ![b] = [queue[n][b] EXCEPT !.status = status]]]
  BY DEF Status, Typed, TypeOK
<1> DEFINE p == [queue[n][b] EXCEPT !.status = status]
<1>4. p.status = status /\ p.msg = queue[n][b].msg
  BY <1>2
<1>5. queue' = [queue EXCEPT ![n] = [queue[n] EXCEPT ![b] = p]]
  BY <1>3
<1>. HIDE DEF p
<1>. QED BY <1>1, <1>4, <1>5 DEF Typed, TypeOK

\* Tasks that have been notified run before the next frame, except once.
LEMMA KeptUp ==
    ASSUME TasksKeepUp
    PROVE  /\ Slow => Slow'
           /\ (\E n \in Node : ~TasksRun(n)) => ~Slow /\ Slow'
BY DEF TasksKeepUp, Happens, NoFault, Slow

\* A node whose packet was sent, and not looked at yet.
LEMMA StillToRun ==
    ASSUME NEW n \in Node, Has(n, "sent")
    PROVE  ~TasksRun(n)
BY DEF Has, TasksRun

\* A request is sent or given up. If the parent has not looked at what became of
\* its previous response, the tasks have been slow once and will not be again.
LEMMA ChildLeaves ==
    ASSUME Typed, CleanInv, NEW b \in Buffer, queue["child"][b].status = "queued",
           Acknowledged("child", b) \/ GivenUp("child", b),
           UNCHANGED <<cells, sequenceNumber, transaction, msf, critical>>
    PROVE  CleanInv'
<1>1. /\ ~Heard /\ ~Answered /\ ~Told /\ six2six_state # IDLE
      /\ Has("child", "queued") /\ ~Has("child", "failed")
      /\ \A d \in Buffer : queue["child"][d].status = "queued" => d = b
  <2>1. Has("child", "queued")
    BY DEF Has
  <2>2. \A d \in Buffer : queue["child"][d].status \in {"queued", "failed"} => d = b
    BY DEF CleanInv, OneToken, OnlyOne
  <2>. QED BY <2>1, <2>2 DEF CleanInv, OneToken, Asked, Has
<1>2. /\ queue'["parent"] = queue["parent"]
      /\ \A d \in Buffer : queue'["child"][d].status # "queued"
      /\ \A d \in Buffer : queue'["child"][d].status = "failed" => d = b /\ GivenUp("child", b)
      /\ \E d \in Buffer : queue'["child"][d] # Free
  <2>1. PICK status \in {"sent", "failed"} :
          /\ queue' = Status("child", b, status)
          /\ status = "failed" => GivenUp("child", b)
    BY DEF Acknowledged, GivenUp
  <2>. QED BY <1>1, <2>1, StatusOfOne, Constants DEF Has
<1>3. /\ Heard' => /\ Acknowledged("child", b)
                   /\ received'["parent"] = queue["child"][b].msg
                   /\ ~Has("child", "failed")'
      /\ received'["child"] = received["child"]
  <2>1. CASE Acknowledged("child", b)
    <3>1. \A d \in Buffer : queue'["child"][d].status # "failed"
      BY <2>1, <1>1, StatusOfOne, Constants DEF Acknowledged, Has
    <3>. QED BY <2>1, <3>1, Constants DEF Acknowledged, Arrives, Has, Typed, TypeOK
  <2>2. CASE GivenUp("child", b)
    BY <1>1, <2>2 DEF GivenUp, Heard
  <2>. QED BY <2>1, <2>2
<1>4. /\ Slow => Slow'
      /\ Has("parent", "sent") => ~Slow /\ Slow'
  BY KeptUp, StillToRun, Constants DEF Acknowledged, GivenUp
<1>5. /\ UNCHANGED <<cells, sequenceNumber, six2six_state, cellOptions, celllist_toDelete, critical>>
  BY DEF transaction
<1>6. /\ \A status : Has("parent", status)' <=> Has("parent", status)
      /\ \A d \in Buffer : IsSent(d)' <=> IsSent(d)
      /\ ~Has("child", "queued")' /\ ~Answered' /\ ~Told'
  BY <1>1, <1>2, <1>3 DEF Has, IsSent, Answered, Told
<1>7. OneToken'
  <2>1. OnlyOne("child")' /\ OnlyOne("parent")'
    BY <1>2 DEF CleanInv, OneToken, OnlyOne
  <2>. QED BY <1>1, <1>3, <1>5, <1>6, <2>1 DEF OneToken, Asked
<1>8. Messages'
  <2>1. Asks(queue["child"][b].msg)
    BY DEF CleanInv, Messages
  <2>2. Heard' => Asks(received["parent"])'
    BY <1>3, <1>5, <2>1 DEF Asks
  <2>. QED BY <1>2, <1>6, <2>2 DEF Messages, Answered, Has
<1>9. OneSent' /\ FewCells'
  BY <1>2, <1>5, <1>6 DEF CleanInv, OneSent, FewCells
<1>10. SlowTasks'
  BY <1>2, <1>4, <1>6 DEF SlowTasks
<1>11. Numbers'
  <2>1. Has("child", "queued")
    BY <1>1
  <2>. QED BY <1>2, <1>5, <1>6, <2>1 DEF CleanInv, Numbers, ChildSeq, ParentSeq
<1>12. AgreeNow' /\ AgreeOnceTold' /\ AgreeOnceBoth'
  BY <1>1, <1>5, <1>6 DEF CleanInv, AgreeNow, AgreeOnceTold, AgreeOnceBoth,
                          ChildSeq, ParentSeq, ChildCells, ParentCells
<1>13. AgreeOnceSent'
  <2>1. \A d \in Buffer : IsSent(d) => Has("parent", "sent")
    BY DEF IsSent, Has
  <2>. QED BY <1>1, <1>2, <1>4, <1>5, <1>6, <2>1
           DEF CleanInv, AgreeOnceSent, ChildSeq, ParentSeq, ChildCells, ParentCells
<1>14. Concludable'
  BY <1>6 DEF Concludable, Answered, Has
<1>. QED BY <1>7, <1>8, <1>9, <1>10, <1>11, <1>12, <1>13, <1>14 DEF CleanInv

\* A response is sent or given up: the parent had looked at its previous one.
LEMMA ParentLeaves ==
    ASSUME Typed, CleanInv, NEW b \in Buffer, queue["parent"][b].status = "queued",
           Acknowledged("parent", b) \/ GivenUp("parent", b),
           UNCHANGED <<cells, sequenceNumber, transaction, msf, critical>>
    PROVE  CleanInv'
<1>1. /\ ~Asked /\ ~Heard /\ ~Told /\ six2six_state # IDLE
      /\ Has("parent", "queued") /\ ~Has("parent", "failed") /\ InTransit
      /\ \A d \in Buffer : queue["parent"][d].status = "queued" => d = b
  <2>1. Has("parent", "queued")
    BY DEF Has
  <2>2. \A d \in Buffer : queue["parent"][d].status \in {"queued", "failed"} => d = b
    BY DEF CleanInv, OneToken, OnlyOne
  <2>. QED BY <2>1, <2>2 DEF CleanInv, OneToken, Answered, Has, InTransit
<1>2. ~Has("parent", "sent") /\ (Slow => Slow')
  <2>1. Has("parent", "sent") => Slow
    BY <1>1 DEF CleanInv, SlowTasks
  <2>2. TasksKeepUp
    BY DEF Acknowledged, GivenUp
  <2>. QED BY <2>1, <2>2, KeptUp, StillToRun, Constants
<1>3. /\ queue'["child"] = queue["child"]
      /\ \A d \in Buffer : queue'["parent"][d].msg = queue["parent"][d].msg
      /\ \A d \in Buffer : queue'["parent"][d].status # "queued"
      /\ \A d \in Buffer : queue'["parent"][d].status = "failed" => d = b
      /\ \A d \in Buffer : IsSent(d)' => d = b /\ Acknowledged("parent", b)
      /\ Acknowledged("parent", b) => ~Has("parent", "failed")' /\ IsSent(b)'
  <2>1. CASE Acknowledged("parent", b)
    <3>1. queue' = Status("parent", b, "sent")
      BY <2>1 DEF Acknowledged
    <3>. QED BY <1>1, <1>2, <2>1, <3>1, StatusOfOne, Constants DEF Has, IsSent
  <2>2. CASE GivenUp("parent", b)
    <3>1. queue' = Status("parent", b, "failed")
      BY <2>2 DEF GivenUp
    <3>2. queue'["parent"][b].status = "failed"
      BY <3>1, StatusOfOne, Constants
    <3>3. ~Acknowledged("parent", b)
      <4>1. Acknowledged("parent", b) => queue'["parent"][b].status = "sent"
        BY StatusOfOne, Constants DEF Acknowledged
      <4>. QED BY <3>2, <4>1
    <3>. QED BY <1>1, <1>2, <3>1, <3>3, StatusOfOne, Constants DEF Has, IsSent
  <2>. QED BY <2>1, <2>2
<1>4. /\ received'["parent"] = received["parent"]
      /\ Told' <=> Acknowledged("parent", b)
      /\ Told' => received'["child"] = queue["parent"][b].msg
  <2>1. queue["parent"][b].msg # NoMessage
    <3>1. queue["parent"][b] \in Packet
      BY Constants DEF Typed, TypeOK
    <3>. QED BY <3>1, Constants
  <2>2. CASE Acknowledged("parent", b)
    <3>1. received' = [received EXCEPT !["child"] = queue["parent"][b].msg]
      BY <2>2, Constants DEF Acknowledged, Arrives
    <3>. QED BY <2>1, <2>2, <3>1, Constants DEF Told, Typed, TypeOK
  <2>3. CASE ~Acknowledged("parent", b)
    BY <1>1, <2>3 DEF GivenUp, Told
  <2>. QED BY <2>2, <2>3
<1>5. /\ UNCHANGED <<cells, sequenceNumber, six2six_state, cellOptions, celllist_toDelete, critical>>
  BY DEF transaction
<1>6. /\ ~Asked' /\ ~Heard' /\ ~Has("parent", "queued")' /\ ~InTransit'
      /\ ~Has("child", "queued")'
      /\ Answered' => ~Told'
  BY <1>1, <1>3, <1>4 DEF Asked, Heard, Answered, InTransit, Has
<1>7. OneToken'
  <2>1. OnlyOne("child")' /\ OnlyOne("parent")'
    BY <1>3 DEF CleanInv, OneToken, OnlyOne
  <2>. QED BY <1>1, <1>5, <1>6, <2>1 DEF OneToken
<1>8. Messages'
  <2>1. Fits(queue["parent"][b].msg)
    BY DEF CleanInv, Messages
  <2>2. Told' => Fits(received["child"])'
    BY <1>4, <1>5, <2>1 DEF Fits, RemovedByChild
  <2>. QED BY <1>3, <1>6, <2>2 DEF Messages, Has
<1>9. OneSent' /\ FewCells'
  BY <1>3, <1>4, <1>5 DEF CleanInv, OneSent, FewCells
<1>10. SlowTasks'
  <2>1. ASSUME Told', six2six_state.wait = "sendDone" PROVE Slow'
    <3>1. PICK d \in Buffer : queue["child"][d] # Free
      BY <2>1 DEF CleanInv, SlowTasks
    <3>2. queue["child"][d].status = "sent"
      BY <1>1, <3>1, Statuses, Constants DEF Asked, Has
    <3>3. ~TasksRun("child")
      BY <3>2 DEF TasksRun
    <3>4. TasksKeepUp
      BY DEF Acknowledged, GivenUp
    <3>. QED BY <3>3, <3>4, KeptUp, Constants
  <2>. QED BY <1>3, <1>5, <1>6, <2>1 DEF CleanInv, SlowTasks
<1>11. Numbers'
  BY <1>1, <1>5, <1>6 DEF CleanInv, Numbers, ChildSeq, ParentSeq
<1>12. AgreeNow' /\ AgreeOnceTold' /\ AgreeOnceSent'
  <2>1. Told' => Has("parent", "sent")'
    BY <1>3, <1>4 DEF Has, IsSent
  <2>. QED BY <1>1, <1>2, <1>3, <1>4, <1>5, <2>1
           DEF CleanInv, AgreeNow, AgreeOnceTold, AgreeOnceSent,
               ChildSeq, ParentSeq, ChildCells, ParentCells
<1>13. AgreeOnceBoth'
  <2>1. Agrees(ChildSeq, ChildCells, ParentSeq, ParentCells)
    BY <1>1, <1>2 DEF CleanInv, AgreeNow
  <2>2. Effective(queue["parent"][b].msg) =>
            Doable(queue["parent"][b].msg, ParentCells) /\ InTurn(ParentSeq)
    BY <1>2 DEF CleanInv, Concludable
  <2>3. Doable(queue["parent"][b].msg, ParentCells)
    BY <2>2 DEF Doable
  <2>. QED BY <1>2, <1>3, <1>5, <2>1, <2>2, <2>3
           DEF AgreeOnceBoth, InTurn, ChildSeq, ParentSeq, ChildCells, ParentCells
<1>14. Concludable'
  BY <1>3 DEF Concludable
<1>. QED BY <1>7, <1>8, <1>9, <1>10, <1>11, <1>12, <1>13, <1>14 DEF CleanInv

\* An acknowledgement that is lost would make an answer late.
LEMMA AttemptClean ==
    ASSUME Typed, CleanInv, Clean', NEW n \in Node, PacketLeaves(n) \/ Attempt(n, AckLost)
    PROVE  CleanInv'
<1>1. ~Attempt(n, AckLost)
  BY DEF Attempt, AckLost, Happens, Clean, LateAnswer
<1>2. PICK b \in Buffer :
         /\ queue[n][b].status = "queued" /\ (Acknowledged(n, b) \/ GivenUp(n, b))
         /\ UNCHANGED <<cells, sequenceNumber, transaction, msf, critical>>
  BY <1>1 DEF PacketLeaves, Attempt
<1>. QED BY <1>2, ChildLeaves, ParentLeaves, Constants

-----------------------------------------------------------------------------
(* The child looks at what became of its request *)

\* The request was given up: the child keeps its cells, or clears them.
LEMMA FailedRequestClean ==
    ASSUME Typed, CleanInv, NEW b \in Buffer, queue["child"][b].status = "failed",
           RequestFailed, queue' = [queue EXCEPT !["child"][b] = Free],
           UNCHANGED <<cellOptions, celllist_toDelete, received, critical, faults>>
    PROVE  CleanInv'
<1>1. /\ ~Heard /\ ~Answered /\ ~Told /\ InTransit
      /\ \A d \in Buffer : queue["child"][d].status \in {"queued", "failed"} => d = b
  <2>1. Has("child", "failed")
    BY DEF Has
  <2>2. \A d \in Buffer : queue["child"][d].status \in {"queued", "failed"} => d = b
    BY DEF CleanInv, OneToken, OnlyOne
  <2>. QED BY <2>1, <2>2 DEF CleanInv, OneToken, Asked, InTransit
<1>2. /\ queue'["parent"] = queue["parent"] /\ ~Asked' /\ ~Heard' /\ ~Answered' /\ ~Told'
      /\ six2six_state' = IDLE /\ Slow' = Slow
      /\ \A d \in Buffer : IsSent(d)' <=> IsSent(d)
      /\ Has("parent", "failed")' <=> Has("parent", "failed")
      /\ Has("parent", "sent")' <=> Has("parent", "sent")
  <2>1. queue'["parent"] = queue["parent"]
    BY Constants DEF Typed, TypeOK
  <2>2. \A d \in Buffer : queue'["child"][d] = IF d = b THEN Free ELSE queue["child"][d]
    BY Constants DEF Typed, TypeOK
  <2>3. ~Asked'
    BY <1>1, <2>2, Constants DEF Asked, Has
  <2>. QED BY <1>1, <2>1, <2>3 DEF Heard, Answered, Told, Has, RequestFailed, Slow, IsSent
<1>3. OneToken' /\ Messages' /\ Concludable' /\ ~InTransit'
  BY <1>2, NoToken
<1>4. \/ UNCHANGED <<cells, sequenceNumber>>
      \/ ClearLocally("child")
  BY DEF RequestFailed
<1>5. /\ sequenceNumber'["parent"] = sequenceNumber["parent"]
      /\ cells'["parent"] = cells["parent"]
      /\ FewCells'
      /\ sequenceNumber'["child"] = 0 \/ sequenceNumber'["child"] = sequenceNumber["child"]
  BY <1>4, Cleared, Constants DEF CleanInv, FewCells
<1>6. OneSent' /\ SlowTasks'
  BY <1>2, <1>3 DEF CleanInv, OneSent, SlowTasks, IDLE
<1>7. Numbers'
  <2>1. ~Has("child", "queued")' /\ ~Has("parent", "queued")'
    BY <1>2 DEF Asked, Answered
  <2>. QED BY <1>2, <1>5, <2>1, BoundAssumption DEF CleanInv, Numbers, ChildSeq, ParentSeq
<1>8. AgreeNow' /\ AgreeOnceTold' /\ AgreeOnceBoth'
  <2>1. ~Has("parent", "sent")' => Agrees(ChildSeq, ChildCells, ParentSeq, ParentCells)'
    <3>1. CASE UNCHANGED <<cells, sequenceNumber>>
      BY <1>1, <1>2, <3>1 DEF CleanInv, AgreeNow, ChildSeq, ChildCells, ParentSeq, ParentCells
    <3>2. CASE ClearLocally("child")
      BY <1>1, <1>2, <3>2, Cleared, Constants, MirroredFew
         DEF Agrees, ChildSeq, ChildCells, ParentSeq, ParentCells
    <3>. QED BY <1>4, <3>1, <3>2
  <2>. QED BY <1>2, <2>1 DEF AgreeNow, AgreeOnceTold, AgreeOnceBoth
<1>9. AgreeOnceSent'
  <2> SUFFICES ASSUME NEW d \in Buffer, IsSent(d)
               PROVE  LET a == queue["parent"][d].msg
                      IN  /\ Doable(a, ParentCells')
                          /\ Agrees(ChildSeq', ChildCells', SeqAfter(a, ParentSeq'),
                                    CellsAfter(a, ParentCells', a.options))
                          /\ a.code = "SUCCESS" => Slow /\ ~InTransit'
    BY <1>2 DEF AgreeOnceSent
  <2> DEFINE a == queue["parent"][d].msg
  <2>1. Slow
    <3>1. Has("parent", "sent")
      BY DEF Has, IsSent
    <3>. QED BY <1>1, <3>1 DEF CleanInv, SlowTasks
  <2>2. /\ Doable(a, ParentCells) /\ ParentCells' = ParentCells /\ ParentSeq' = ParentSeq
        /\ Agrees(ChildSeq, ChildCells, SeqAfter(a, ParentSeq), CellsAfter(a, ParentCells, a.options))
    BY <1>1, <1>5 DEF CleanInv, AgreeOnceSent, ParentCells, ParentSeq
  <2>3. a \in Response
    BY Constants DEF IsSent, Typed, Kinds
  <2>. HIDE DEF a
  <2>4. Agrees(ChildSeq', ChildCells', SeqAfter(a, ParentSeq'), CellsAfter(a, ParentCells', a.options))
    <3>1. CASE UNCHANGED <<cells, sequenceNumber>>
      BY <2>2, <3>1 DEF ChildSeq, ChildCells
    <3>2. CASE ClearLocally("child")
      <4>1. ChildSeq' = 0 /\ \A t \in Slot : ChildCells'[t] = <<>>
        BY <3>2, Cleared, Constants DEF ChildSeq, ChildCells
      <4>2. CASE Clearing(a)
        <5>1. \A t \in Slot : CellsAfter(a, ParentCells, a.options)[t] = <<>>
          BY <4>2, ClearingAfter, Constants DEF CleanInv, FewCells, ParentCells
        <5>. QED BY <2>2, <4>1, <5>1, MirroredFew DEF Agrees
      <4>3. CASE ~Clearing(a)
        <5>1. SeqAfter(a, ParentSeq) # 0
          BY <4>3, NextSeqnumTyped, Constants DEF SeqAfter, ParentSeq, Typed, TypeOK
        <5>. QED BY <2>2, <4>1, <5>1 DEF Agrees
      <4>. QED BY <4>2, <4>3
    <3>. QED BY <1>4, <3>1, <3>2
  <2>. QED BY <1>3, <2>1, <2>2, <2>4 DEF a
<1>. QED BY <1>3, <1>5, <1>6, <1>7, <1>8, <1>9 DEF CleanInv

\* The request was sent: the child waits for the response.
LEMMA SentRequestClean ==
    ASSUME Typed, CleanInv, NEW b \in Buffer, queue["child"][b].status = "sent",
           RequestSent, queue' = [queue EXCEPT !["child"][b] = Free],
           UNCHANGED <<cellOptions, celllist_toDelete, received, critical, faults>>
    PROVE  CleanInv'
<1>1. /\ queue'["parent"] = queue["parent"]
      /\ \A d \in Buffer : queue'["child"][d] = IF d = b THEN Free ELSE queue["child"][d]
  BY Constants DEF Typed, TypeOK
<1>2. /\ UNCHANGED <<cells, sequenceNumber, received, critical, cellOptions, celllist_toDelete>>
      /\ Slow' = Slow /\ six2six_state'.command = six2six_state.command
      /\ six2six_state # IDLE => six2six_state' # IDLE
      /\ six2six_state'.wait # "sendDone"
  BY DEF RequestSent, Slow, WAIT_RESPONSE, IDLE
<1>3. /\ Has("child", "queued")' <=> Has("child", "queued")
      /\ Has("child", "failed")' <=> Has("child", "failed")
      /\ \A status : Has("parent", status)' <=> Has("parent", status)
      /\ \A d \in Buffer : IsSent(d)' <=> IsSent(d)
  BY <1>1, Constants DEF Has, IsSent
<1>4. /\ Asked' <=> Asked
      /\ Heard' <=> Heard
      /\ Answered' <=> Answered
      /\ Told' <=> Told
      /\ InTransit' <=> InTransit
  BY <1>2, <1>3 DEF Asked, Heard, Answered, Told, InTransit
<1>5. OneToken'
  <2>1. OnlyOne("child")' /\ OnlyOne("parent")'
    BY <1>1, Constants DEF CleanInv, OneToken, OnlyOne
  <2>. QED BY <1>2, <1>4, <2>1 DEF CleanInv, OneToken
<1>6. Messages'
  <2>1. \A r : Asks(r)' <=> Asks(r)
    BY <1>2 DEF Asks
  <2>2. \A a : Fits(a)' <=> Fits(a)
    BY <1>2 DEF Fits, RemovedByChild
  <2>3. \A d \in Buffer : queue'["child"][d].status = "queued" =>
            queue["child"][d].status = "queued" /\ queue'["child"][d] = queue["child"][d]
    BY <1>1, Constants
  <2>. QED BY <1>1, <1>2, <1>4, <2>1, <2>2, <2>3 DEF CleanInv, Messages
<1>7. OneSent' /\ FewCells' /\ SlowTasks'
  BY <1>1, <1>2, <1>3, <1>4 DEF CleanInv, OneSent, FewCells, SlowTasks
<1>8. Numbers'
  BY <1>1, <1>2, <1>3, <1>4 DEF CleanInv, Numbers, ChildSeq, ParentSeq
<1>9. AgreeNow' /\ AgreeOnceTold' /\ AgreeOnceSent' /\ AgreeOnceBoth'
  BY <1>1, <1>2, <1>3, <1>4
     DEF CleanInv, AgreeNow, AgreeOnceTold, AgreeOnceSent, AgreeOnceBoth, InTurn,
         ChildSeq, ParentSeq, ChildCells, ParentCells
<1>10. Concludable'
  BY <1>1, <1>2, <1>3 DEF CleanInv, Concludable, InTurn, ChildSeq, ParentSeq, ParentCells
<1>. QED BY <1>5, <1>6, <1>7, <1>8, <1>9, <1>10 DEF CleanInv

LEMMA RequestSendDoneClean ==
    ASSUME Typed, CleanInv, RequestSendDone
    PROVE  CleanInv'
<1>1. PICK b \in Buffer :
         /\ \/ queue["child"][b].status = "failed" /\ RequestFailed
            \/ queue["child"][b].status = "sent" /\ RequestSent
         /\ queue' = [queue EXCEPT !["child"][b] = Free]
  BY DEF RequestSendDone
<1>2. UNCHANGED <<cellOptions, celllist_toDelete, received, critical, faults>>
  BY DEF RequestSendDone
<1>. QED BY <1>1, <1>2, FailedRequestClean, SentRequestClean

-----------------------------------------------------------------------------
(* The child looks at a response *)

\* What it concludes from it: the answer, or nothing if it is slow.
LEMMA ChildOutcome ==
    ASSUME Typed, CleanInv, ResponseReceived
    PROVE  LET a == received["child"]
           IN  /\ \/ /\ ChildSeq' = SeqAfter(a, ChildSeq)
                     /\ ChildCells' = CellsAfter(a, ChildCells, cellOptions)
                  \/ /\ ChildSeq' = ChildSeq /\ ChildCells' = ChildCells
                     /\ a.code = "SUCCESS" /\ Slow
               /\ ParentSeq' = ParentSeq /\ ParentCells' = ParentCells
               /\ queue' = queue
               /\ \A n \in Node : ~critical'[n]
<1> DEFINE a == received["child"]
<1>1. Told /\ ~Asked /\ six2six_state # IDLE /\ Fits(a) /\ a \in Response
  BY DEF ResponseReceived, CleanInv, OneToken, Told, Messages, Typed, Kinds
<1>2. \A n \in Node : ~critical[n]
  BY DEF CleanInv, FewCells
<1>3. CASE a.code # "SUCCESS"
  <2>1. msf_handleRCError(a.code) /\ UNCHANGED <<cells, queue, critical>>
    BY <1>3 DEF ResponseReceived
  <2>2. sequenceNumber' = [sequenceNumber EXCEPT !["child"] = NextSeqnum(@)]
    BY <2>1 DEF msf_handleRCError
  <2>3. ChildSeq' = SeqAfter(a, ChildSeq) /\ ParentSeq' = ParentSeq
    BY <1>3, <2>2, Constants DEF SeqAfter, Clearing, ChildSeq, ParentSeq, Typed, TypeOK
  <2>. QED BY <1>2, <1>3, <2>1, <2>3 DEF CellsAfter, ChildCells, ParentCells
<1>4. CASE a.code = "SUCCESS" /\ six2six_state.wait # "response"
  <2>1. LateResponse
    BY <1>4 DEF ResponseReceived
  <2>2. UNCHANGED <<cells, sequenceNumber, critical>> /\ queue' = queue
    BY <1>1, <2>1, NothingToRemove DEF LateResponse, Typed, TypeOK
  <2>3. six2six_state.wait = "sendDone"
    BY <1>1, <1>4 DEF IDLE, WAIT_SENDDONE, WAIT_RESPONSE, Typed, TypeOK
  <2>4. Slow
    BY <1>1, <2>3 DEF CleanInv, SlowTasks
  <2>. QED BY <1>2, <1>4, <2>2, <2>4 DEF ChildSeq, ChildCells, ParentSeq, ParentCells
<1>5. CASE a.code = "SUCCESS" /\ six2six_state.wait = "response"
  <2>1. ChildConcludes(a) /\ UNCHANGED queue
    BY <1>5 DEF ResponseReceived
  <2>2. a.command = six2six_state.command
    BY <1>1 DEF Fits
  <2>3. CASE a.command = "CLEAR"
    <3>1. ClearLocally("child") /\ UNCHANGED critical
      BY <2>1, <2>2, <2>3 DEF ChildConcludes
    <3>. QED BY <1>2, <1>5, <2>1, <2>3, <3>1, Constants
             DEF ClearLocally, SeqAfter, Clearing, CellsAfter, ChildSeq, ChildCells, ParentSeq, ParentCells,
                 Typed, TypeOK
  <2>4. CASE a.command # "CLEAR"
    <3>1. /\ RemovedByChild(a) = a.delete
          /\ a.add = IF a.command \in {"ADD", "RELOCATE"} THEN a.celllist ELSE {}
          /\ \A t \in a.delete : cells["child"][t] # <<>>
      BY <1>1, <1>5, <2>4 DEF Fits, Effective
    <3>2. /\ cells' = [cells EXCEPT !["child"] =
                          AddCells(RemoveCells(cells["child"], a.delete), a.add, cellOptions)]
          /\ critical' = [critical EXCEPT !["child"] = @ \/ RemovesAbsent(cells["child"], a.delete)]
          /\ sequenceNumber' = [sequenceNumber EXCEPT !["child"] = NextSeqnum(@)]
      BY <2>1, <2>2, <2>4, <3>1 DEF ChildConcludes
    <3>3. ~RemovesAbsent(cells["child"], a.delete)
      BY <3>1 DEF RemovesAbsent
    <3>4. \A n \in Node : ~critical'[n]
      BY <1>2, <3>2, <3>3 DEF Typed, TypeOK
    <3>5. ChildSeq' = SeqAfter(a, ChildSeq) /\ ParentSeq' = ParentSeq
      BY <2>4, <3>2, Constants DEF SeqAfter, Clearing, ChildSeq, ParentSeq, Typed, TypeOK
    <3>6. ChildCells' = CellsAfter(a, ChildCells, cellOptions) /\ ParentCells' = ParentCells
      BY <1>5, <2>4, <3>2, Constants DEF CellsAfter, ChildCells, ParentCells, Typed, TypeOK
    <3>. QED BY <2>1, <3>4, <3>5, <3>6
  <2>. QED BY <2>3, <2>4
<1>. QED BY <1>3, <1>4, <1>5

\* The types the arithmetic needs.
LEMMA SeqnumTypes ==
    ASSUME Typed
    PROVE  /\ ChildSeq \in Nat /\ ParentSeq \in Nat /\ MaxSeqnum \in Nat
           /\ cellOptions \in CellOption
BY BoundAssumption, Constants DEF ChildSeq, ParentSeq, Typed, TypeOK

\* Only a CLEAR makes the sequence number 0.
LEMMA SeqAfterBound ==
    ASSUME NoRollOver, NEW k \in Nat, k <= MaxSeqnum + 1, NEW a
    PROVE  SeqAfter(a, k) \in {0, k + 1} /\ (SeqAfter(a, k) = 0 <=> Clearing(a))
<1>1. NextSeqnum(k) = k + 1 /\ k + 1 # 0
  BY SeqnumAfter
<1>. QED BY <1>1 DEF SeqAfter

\* The child concludes the answer, or takes it for a late one: the parent
\* concludes it later, or has.
LEMMA ResponseReceivedClean ==
    ASSUME NoRollOver, Typed, CleanInv, ResponseReceived
    PROVE  CleanInv'
<1> DEFINE a == received["child"]
<1>1. /\ Told /\ ~Asked /\ ~Heard /\ ~Answered /\ a \in Response
      /\ ChildSeq <= MaxSeqnum
      /\ Fits(a) /\ a.options = Reverted(cellOptions) /\ a.options \in CellOption
  <2>1. Told /\ a \in Response
    BY DEF ResponseReceived, Told, Typed, Kinds
  <2>2. Fits(a) /\ a.options = Reverted(cellOptions) /\ a.options \in CellOption
    BY <2>1 DEF CleanInv, Messages, Fits, Response
  <2>. QED BY <2>1, <2>2 DEF CleanInv, OneToken, Numbers
<1>2. /\ six2six_state' = IDLE /\ Slow' = Slow
      /\ received' = [received EXCEPT !["child"] = NoMessage]
      /\ UNCHANGED <<cellOptions, celllist_toDelete>>
  BY DEF ResponseReceived, Slow
<1>3. /\ \/ /\ ChildSeq' = SeqAfter(a, ChildSeq)
            /\ ChildCells' = CellsAfter(a, ChildCells, cellOptions)
         \/ /\ ChildSeq' = ChildSeq /\ ChildCells' = ChildCells
            /\ a.code = "SUCCESS" /\ Slow
      /\ ParentSeq' = ParentSeq /\ ParentCells' = ParentCells
      /\ queue' = queue
      /\ \A n \in Node : ~critical'[n]
  BY ChildOutcome
<1>4. Doable(a, ChildCells)
  BY <1>1 DEF Fits, Doable, ChildCells
<1>5. /\ \A t \in Slot : ChildCells[t] \in Few /\ ParentCells[t] \in Few
      /\ ChildSeq = 0 => \A t \in Slot : ChildCells[t] = <<>>
      /\ ParentSeq = 0 => \A t \in Slot : ParentCells[t] = <<>>
  BY Constants DEF CleanInv, FewCells, ChildCells, ParentCells, ChildSeq, ParentSeq
<1>. HIDE DEF a
<1>6. /\ ~Asked' /\ ~Heard' /\ ~Answered' /\ ~Told'
      /\ \A d \in Buffer : IsSent(d)' <=> IsSent(d)
      /\ Has("parent", "sent")' <=> Has("parent", "sent")
      /\ Has("parent", "failed")' <=> Has("parent", "failed")
  BY <1>1, <1>2, <1>3, Constants DEF Asked, Heard, Answered, Told, Has, IsSent, Typed, TypeOK
<1>7. OneToken' /\ Messages' /\ Concludable' /\ ~InTransit'
  BY <1>6, NoToken
<1>8. OneSent' /\ SlowTasks'
  BY <1>2, <1>3, <1>6, <1>7 DEF CleanInv, OneSent, SlowTasks, IDLE
<1>9. SeqAfter(a, ChildSeq) \in {0, ChildSeq + 1} /\ (SeqAfter(a, ChildSeq) = 0 <=> Clearing(a))
  BY <1>1, SeqnumTypes, SeqAfterBound
<1>10. FewCells'
  <2>1. /\ \A t \in Slot : ChildCells'[t] \in Few
        /\ ChildSeq' = 0 => \A t \in Slot : ChildCells'[t] = <<>>
    <3>1. CASE /\ ChildSeq' = SeqAfter(a, ChildSeq)
               /\ ChildCells' = CellsAfter(a, ChildCells, cellOptions)
      <4>1. /\ Clearing(a) => \A t \in Slot : CellsAfter(a, ChildCells, cellOptions)[t] = <<>>
            /\ \A t \in Slot : CellsAfter(a, ChildCells, cellOptions)[t] \in Few
        <5>1. Clearing(a) => \A t \in Slot : CellsAfter(a, ChildCells, cellOptions)[t] = <<>>
          BY <1>5, ClearingAfter
        <5>2. \A t \in Slot : CellsAfter(a, ChildCells, cellOptions)[t] \in Few
          BY <1>4, <1>5, AfterFew, SeqnumTypes
        <5>. QED BY <5>1, <5>2
      <4>. QED BY <3>1, <4>1, <1>9
    <3>. QED BY <1>3, <1>5, <3>1
  <2>. QED BY <1>3, <1>5, <2>1, Constants DEF FewCells, ChildCells, ChildSeq, ParentCells, ParentSeq
<1>11. Numbers'
  <2>1. ~Has("child", "queued")' /\ ~Has("parent", "queued")'
    BY <1>6 DEF Asked, Answered
  <2>2. ChildSeq' <= MaxSeqnum + 1
    BY <1>1, <1>3, <1>9, SeqnumTypes
  <2>. QED BY <1>3, <1>6, <2>1, <2>2 DEF CleanInv, Numbers
<1>12. AgreeNow' /\ AgreeOnceTold' /\ AgreeOnceBoth'
  <2>1. ~Has("parent", "sent")' => Agrees(ChildSeq, ChildCells, ParentSeq, ParentCells)'
    BY <1>1, <1>3, <1>6 DEF CleanInv, AgreeOnceTold, a
  <2>. QED BY <1>6, <2>1 DEF AgreeNow, AgreeOnceTold, AgreeOnceBoth
<1>13. AgreeOnceSent'
  <2> SUFFICES ASSUME NEW d \in Buffer, IsSent(d)
               PROVE  /\ Doable(a, ParentCells')
                      /\ Agrees(ChildSeq', ChildCells', SeqAfter(a, ParentSeq'),
                                CellsAfter(a, ParentCells', a.options))
                      /\ a.code = "SUCCESS" => \/ ChildSeq' = SeqAfter(a, ParentSeq')
                                               \/ Slow' /\ ~InTransit'
    <3>1. ASSUME NEW d \in Buffer, IsSent(d) PROVE queue'["parent"][d].msg = a
      BY <1>1, <1>3, <3>1 DEF CleanInv, OneSent, a
    <3>. QED BY <1>6, <3>1 DEF AgreeOnceSent
  <2>1. /\ Doable(a, ParentCells)
        /\ Agrees(ChildSeq, ChildCells, ParentSeq, ParentCells)
        /\ Effective(a) => InTurn(ParentSeq)
    BY <1>1 DEF CleanInv, OneSent, AgreeOnceBoth, a
  <2>2. ParentSeq <= MaxSeqnum + 1
    <3>1. Has("parent", "sent")
      BY DEF Has, IsSent
    <3>. QED BY <3>1 DEF CleanInv, Numbers
  <2>3. SeqAfter(a, ParentSeq) \in {0, ParentSeq + 1} /\ (SeqAfter(a, ParentSeq) = 0 <=> Clearing(a))
    BY <2>2, SeqnumTypes, SeqAfterBound
  <2>4. CASE /\ ChildSeq' = SeqAfter(a, ChildSeq)
             /\ ChildCells' = CellsAfter(a, ChildCells, cellOptions)
    <3>1. Agrees(SeqAfter(a, ChildSeq), CellsAfter(a, ChildCells, cellOptions),
                 SeqAfter(a, ParentSeq), CellsAfter(a, ParentCells, a.options))
      <4>1. ChildSeq <= MaxSeqnum + 1
        BY <1>1, SeqnumTypes
      <4>. QED BY <1>1, <1>4, <1>5, <2>1, <2>2, <4>1, SeqnumTypes, BothConclude
    <3>2. a.code = "SUCCESS" => SeqAfter(a, ChildSeq) = SeqAfter(a, ParentSeq) \/ Slow
      BY <1>9, <2>1, <2>3, SeqnumTypes DEF Effective, Clearing, InTurn, SeqAfter
    <3>. QED BY <1>2, <1>3, <1>7, <2>1, <2>4, <3>1, <3>2
  <2>5. CASE /\ ChildSeq' = ChildSeq /\ ChildCells' = ChildCells
             /\ a.code = "SUCCESS" /\ Slow
    <3>1. Effective(a) => ChildSeq <= ParentSeq
      BY <2>1, SeqnumTypes DEF InTurn
    <3>2. Agrees(ChildSeq, ChildCells, SeqAfter(a, ParentSeq), CellsAfter(a, ParentCells, a.options))
      BY <1>1, <1>5, <2>1, <2>2, <2>5, <3>1, SeqnumTypes, OneConcludes
    <3>. QED BY <1>2, <1>3, <1>7, <2>1, <2>5, <3>2
  <2>. QED BY <1>3, <2>4, <2>5
<1>. QED BY <1>7, <1>8, <1>10, <1>11, <1>12, <1>13 DEF CleanInv

-----------------------------------------------------------------------------
(* The parent looks at a request, and at what became of its response *)

\* What the parent answers fits what the child asked; if it is effective, the
\* parent has the sequence number of the request and can do what it answers.
LEMMA AnswerFits ==
    ASSUME Typed, CleanInv, Heard, NEW a \in Answers(received["parent"])
    PROVE  /\ Fits(a)
           /\ Effective(a) => ChildSeq = ParentSeq /\ Doable(a, ParentCells)
<1> DEFINE r == received["parent"]
           delete == Offered(r.delete)
<1>1. /\ r \in Request /\ Asks(r)
  BY DEF CleanInv, Messages, Heard, Typed, Kinds
<1>2. /\ r.command \in Command /\ r.options \in CellOption /\ r.add \subseteq Slot
      /\ r.delete \subseteq Slot
  BY <1>1 DEF Request
<1>3. PICK code \in ReturnCode, add \in SUBSET Slot, gone \in SUBSET Slot :
         /\ a = [type |-> "response", command |-> r.command, code |-> code,
                 celllist |-> IF r.command = "DELETE" THEN gone ELSE add,
                 options |-> Reverted(r.options), add |-> add, delete |-> gone]
         /\ code = "SUCCESS" =>
               /\ add \in Chosen(r.add) /\ gone = delete
               /\ r.command # "CLEAR" => r.seqNum = sequenceNumber["parent"]
               /\ r.command \in {"DELETE", "RELOCATE"} => CanRemove(r.delete, Reverted(r.options))
  <2>1. delete \subseteq Slot /\ \A add \in Chosen(r.add) : add \subseteq Slot
    BY <1>2 DEF Offered, Chosen
  <2> DEFINE answer(code, add, gone) ==
                [type |-> "response", command |-> r.command, code |-> code,
                 celllist |-> IF r.command = "DELETE" THEN gone ELSE add,
                 options |-> Reverted(r.options), add |-> add, delete |-> gone]
             agreed == {answer("SUCCESS", add, delete) : add \in Chosen(r.add)}
  <2>2. Answers(r) = IF r.command # "CLEAR" /\ r.seqNum # sequenceNumber["parent"]
                     THEN {answer("SEQNUM_ERR", {}, {})}
                     ELSE {answer("RESET", {}, {})} \cup
                          CASE r.command = "ADD"   -> agreed \cup {answer("BUSY", {}, {})}
                            [] r.command = "CLEAR" -> agreed
                            [] OTHER -> IF CanRemove(r.delete, Reverted(r.options))
                                        THEN agreed ELSE {answer("CELLLIST_ERR", {}, {})}
    BY DEF Answers
  <2>. HIDE DEF answer
  <2>3. \/ \E code \in ReturnCode \ {"SUCCESS"} : a = answer(code, {}, {})
        \/ /\ a \in agreed
           /\ r.command # "CLEAR" => r.seqNum = sequenceNumber["parent"]
           /\ r.command \in {"DELETE", "RELOCATE"} => CanRemove(r.delete, Reverted(r.options))
    BY <1>2, <2>2 DEF ReturnCode, Command
  <2>4. CASE \E code \in ReturnCode \ {"SUCCESS"} : a = answer(code, {}, {})
    <3>1. PICK code \in ReturnCode : code # "SUCCESS" /\ a = answer(code, {}, {})
      BY <2>4
    <3>2. {} \in SUBSET Slot
      OBVIOUS
    <3>. QED BY <3>1, <3>2 DEF answer
  <2>5. CASE /\ a \in agreed
             /\ r.command # "CLEAR" => r.seqNum = sequenceNumber["parent"]
             /\ r.command \in {"DELETE", "RELOCATE"} => CanRemove(r.delete, Reverted(r.options))
    BY <2>1, <2>5 DEF answer, ReturnCode
  <2>. QED BY <2>3, <2>4, <2>5
<1>4. /\ a.command = r.command /\ a.code = code /\ a.options = Reverted(r.options)
      /\ a.add = add /\ a.delete = gone
      /\ a.celllist = IF r.command = "DELETE" THEN gone ELSE add
  BY <1>3
<1>5. /\ delete \subseteq r.delete /\ (r.delete = {} => delete = {})
      /\ add \in Chosen(r.add) => /\ add \subseteq r.add
                                  /\ \A t \in add : cells["parent"][t] = <<>>
  BY DEF Offered, Chosen, Available
<1>. HIDE DEF r, delete
<1>6. ASSUME Effective(a)
      PROVE  /\ RemovedByChild(a) = a.delete
             /\ a.add = IF a.command \in {"ADD", "RELOCATE"} THEN a.celllist ELSE {}
             /\ \A t \in a.delete : cells["child"][t] # <<>>
             /\ \A t \in a.add : cells["child"][t] = <<>>
             /\ \A t \in a.delete : cells["parent"][t] # <<>>
             /\ \A t \in a.add : cells["parent"][t] = <<>>
             /\ r.seqNum = sequenceNumber["parent"]
  <2>1. /\ code = "SUCCESS" /\ r.command \in {"ADD", "DELETE", "RELOCATE"}
        /\ add \in Chosen(r.add) /\ gone = delete
    BY <1>2, <1>3, <1>4, <1>6 DEF Effective, Command
  <2>2. r.command = six2six_state.command
    BY <1>1 DEF Asks
  <2>3. RemovedByChild(a) = a.delete
    <3>1. CASE r.command = "ADD"
      BY <1>1, <1>4, <1>5, <2>1, <2>2, <3>1 DEF Asks, RemovedByChild
    <3>2. CASE r.command = "DELETE"
      BY <1>4, <2>1, <2>2, <3>2 DEF RemovedByChild
    <3>3. CASE r.command = "RELOCATE"
      BY <1>1, <1>4, <2>1, <2>2, <3>3 DEF Asks, RemovedByChild, delete
    <3>. QED BY <2>1, <3>1, <3>2, <3>3
  <2>4. a.add = IF a.command \in {"ADD", "RELOCATE"} THEN a.celllist ELSE {}
    BY <1>1, <1>4, <1>5, <2>1 DEF Asks
  <2>5. \A t \in a.delete : cells["parent"][t] # <<>>
    <3>1. CASE r.command = "ADD"
      BY <1>1, <1>4, <1>5, <2>1, <3>1 DEF Asks
    <3>2. CASE r.command \in {"DELETE", "RELOCATE"}
      BY <1>2, <1>3, <1>4, <2>1, <3>2, MirroredFew DEF CanRemove, LinkType, delete, CellOption
    <3>. QED BY <2>1, <3>1, <3>2
  <2>. QED BY <1>1, <1>3, <1>4, <1>5, <2>1, <2>3, <2>4, <2>5 DEF Asks
<1>7. Fits(a)
  BY <1>1, <1>4, <1>6 DEF Asks, Fits
<1>8. Effective(a) => ChildSeq = ParentSeq /\ Doable(a, ParentCells)
  BY <1>1, <1>6 DEF Asks, Doable, ChildSeq, ParentSeq, ParentCells
<1>. QED BY <1>7, <1>8

\* The parent answers: an effective answer needs equal sequence numbers, which
\* they are not while an effective response is still to be concluded.
LEMMA RequestReceivedClean ==
    ASSUME NoRollOver, Typed, CleanInv, RequestReceived
    PROVE  CleanInv'
<1>1. /\ Heard /\ ~Asked /\ ~Answered /\ ~Told /\ InTransit /\ six2six_state # IDLE
  BY DEF RequestReceived, CleanInv, OneToken, Heard, InTransit
<1>2. /\ UNCHANGED <<cells, sequenceNumber, six2six_state, cellOptions, celllist_toDelete, critical>>
      /\ Slow' = Slow
      /\ received' = [received EXCEPT !["parent"] = NoMessage]
  BY DEF RequestReceived, transaction, Slow
<1>3. received'["parent"] = NoMessage /\ received'["child"] = received["child"] /\ ~Heard' /\ ~Told'
  BY <1>1, <1>2, Constants DEF Heard, Told, Typed, TypeOK
<1>4. CASE UNCHANGED queue
  <2>1. /\ ~Asked' /\ ~Answered'
        /\ \A n, status : Has(n, status)' <=> Has(n, status)
        /\ \A d \in Buffer : IsSent(d)' <=> IsSent(d)
    BY <1>1, <1>4 DEF Asked, Answered, Has, IsSent
  <2>2. OneToken' /\ Messages' /\ Concludable' /\ ~InTransit'
    BY <1>3, <2>1, NoToken
  <2>3. OneSent' /\ FewCells' /\ SlowTasks'
    BY <1>1, <1>2, <1>3, <1>4, <2>1, <2>2 DEF CleanInv, OneSent, FewCells, SlowTasks
  <2>4. Numbers'
    BY <1>2, <1>3, <1>4, <2>1 DEF CleanInv, Numbers, ChildSeq, ParentSeq
  <2>5. AgreeNow' /\ AgreeOnceTold' /\ AgreeOnceSent' /\ AgreeOnceBoth'
    BY <1>1, <1>2, <1>3, <1>4, <2>1, <2>2
       DEF CleanInv, AgreeNow, AgreeOnceTold, AgreeOnceSent, AgreeOnceBoth,
           ChildSeq, ParentSeq, ChildCells, ParentCells
  <2>. QED BY <2>2, <2>3, <2>4, <2>5 DEF CleanInv
<1>5. ASSUME NEW b \in FirstFree(queue["parent"]), NEW a \in Answers(received["parent"]),
             queue' = [queue EXCEPT !["parent"][b] = Queued(a)]
      PROVE  CleanInv'
  <2>1. /\ b \in Buffer /\ queue["parent"][b] = Free
        /\ queue'["child"] = queue["child"] /\ queue'["parent"][b] = Queued(a)
        /\ \A d \in Buffer : d # b => queue'["parent"][d] = queue["parent"][d]
        /\ Queued(a).msg = a /\ Queued(a).status = "queued"
    BY <1>5, Constants DEF FirstFree, Queued, Typed, TypeOK
  <2>2. /\ Has("parent", "queued")' /\ ~Has("parent", "failed")' /\ InTransit'
        /\ ~Asked'
        /\ Has("parent", "sent")' <=> Has("parent", "sent")
        /\ \A d \in Buffer : IsSent(d)' <=> IsSent(d)
        /\ \A d \in Buffer : IsSent(d) => queue'["parent"][d] = queue["parent"][d]
    BY <1>1, <2>1, Constants DEF Has, IsSent, Asked, Answered, InTransit
  <2>3. /\ Fits(a)
        /\ Effective(a) => ChildSeq = ParentSeq /\ Doable(a, ParentCells)
    BY <1>1, AnswerFits
  <2>4. OneToken'
    <3>1. \A d \in Buffer : queue'["parent"][d].status \in {"queued", "failed"} => d = b
      BY <1>1, <2>1 DEF Answered, Has
    <3>2. OnlyOne("child")' /\ OnlyOne("parent")'
      BY <2>1, <3>1 DEF CleanInv, OneToken, OnlyOne
    <3>. QED BY <1>1, <1>2, <1>3, <2>2, <3>2 DEF OneToken
  <2>5. Messages'
    <3>1. Fits(a)'
      BY <1>2, <2>3 DEF Fits, RemovedByChild
    <3>2. \A d \in Buffer : queue'["parent"][d].status = "queued" => queue'["parent"][d].msg = a
      BY <1>1, <2>1 DEF Answered, Has
    <3>. QED BY <1>3, <2>2, <3>1, <3>2 DEF Messages, Asked, Has
  <2>6. OneSent' /\ FewCells' /\ SlowTasks'
    BY <1>1, <1>2, <1>3, <2>1, <2>2 DEF CleanInv, OneSent, FewCells, SlowTasks
  <2>7. Numbers'
    BY <1>1, <1>2, <2>2 DEF CleanInv, Numbers, ChildSeq, ParentSeq
  <2>8. AgreeNow' /\ AgreeOnceTold' /\ AgreeOnceSent' /\ AgreeOnceBoth'
    BY <1>1, <1>2, <1>3, <2>2
       DEF CleanInv, AgreeNow, AgreeOnceTold, AgreeOnceSent, AgreeOnceBoth,
           ChildSeq, ParentSeq, ChildCells, ParentCells
  <2>9. Concludable'
    <3>1. ASSUME NEW d \in Buffer, IsSent(d), Effective(a)
          PROVE  LET e == queue["parent"][d].msg
                 IN  /\ Doable(a, CellsAfter(e, ParentCells, e.options))
                     /\ InTurn(SeqAfter(e, ParentSeq))
      <4> DEFINE e == queue["parent"][d].msg
      <4>1. Has("parent", "sent") /\ Slow
        <5>1. Has("parent", "sent")
          BY <3>1 DEF Has, IsSent
        <5>. QED BY <1>1, <5>1 DEF CleanInv, SlowTasks
      <4>2. /\ ParentSeq \in Nat /\ ParentSeq <= MaxSeqnum + 1
            /\ SeqAfter(e, ParentSeq) \in {0, ParentSeq + 1}
            /\ SeqAfter(e, ParentSeq) = 0 <=> Clearing(e)
        <5>1. ParentSeq \in Nat /\ ParentSeq <= MaxSeqnum + 1
          BY <4>1, SeqnumTypes DEF CleanInv, Numbers
        <5>. QED BY <5>1, SeqAfterBound
      <4>3. e.code = "SUCCESS" => ChildSeq = SeqAfter(e, ParentSeq)
        BY <1>1, <3>1 DEF CleanInv, AgreeOnceSent
      <4>4. /\ ChildSeq = ParentSeq /\ Doable(a, ParentCells)
            /\ \A t \in Slot : ParentCells[t] \in Few
            /\ ParentSeq = 0 => \A t \in Slot : ParentCells[t] = <<>>
            /\ a.add \subseteq Slot /\ a.delete \subseteq Slot
        <5>1. a \in Response
          BY <1>1, AnswersTyped DEF Heard, Typed, Kinds
        <5>. QED BY <2>3, <3>1, <5>1, Constants DEF Response, CleanInv, FewCells, ParentCells, ParentSeq
      <4>. HIDE DEF e
      <4>5. CASE e.code # "SUCCESS"
        BY <4>1, <4>2, <4>4, <4>5 DEF CellsAfter, Clearing, InTurn, e
      <4>6. CASE e.code = "SUCCESS"
        <5>1. Clearing(e) /\ ParentSeq = 0 /\ SeqAfter(e, ParentSeq) = 0
          BY <4>2, <4>3, <4>4, <4>6
        <5>2. \A t \in Slot : CellsAfter(e, ParentCells, e.options)[t] = <<>>
          BY <4>4, <5>1, ClearingAfter
        <5>3. a.delete = {}
          BY <3>1, <4>4, <5>1 DEF Doable
        <5>4. Doable(a, CellsAfter(e, ParentCells, e.options))
          BY <4>4, <5>2, <5>3 DEF Doable
        <5>. QED BY <4>4, <5>1, <5>4 DEF InTurn, e
      <4>. QED BY <4>5, <4>6
    <3>2. ASSUME Effective(a) PROVE Doable(a, ParentCells) /\ InTurn(ParentSeq)
      BY <2>3, <3>2 DEF InTurn
    <3>3. \A d \in Buffer : queue'["parent"][d].status = "queued" => queue'["parent"][d].msg = a
      BY <1>1, <2>1 DEF Answered, Has
    <3>4. ParentCells' = ParentCells /\ ParentSeq' = ParentSeq /\ ChildSeq' = ChildSeq
      BY <1>2 DEF ParentCells, ParentSeq, ChildSeq
    <3>5. \A k : InTurn(k)' <=> InTurn(k)
      BY <1>2, <3>4 DEF InTurn
    <3>. QED BY <2>2, <3>1, <3>2, <3>3, <3>4, <3>5 DEF Concludable
  <2>. QED BY <2>4, <2>5, <2>6, <2>7, <2>8, <2>9 DEF CleanInv
<1>. QED BY <1>4, <1>5 DEF RequestReceived

\* The response was given up: the parent keeps its cells, or clears them.
LEMMA FailedResponseClean ==
    ASSUME Typed, CleanInv, NEW b \in Buffer, queue["parent"][b].status = "failed",
           ResponseFailed(queue["parent"][b].msg), queue' = [queue EXCEPT !["parent"][b] = Free],
           UNCHANGED <<transaction, received, faults>>
    PROVE  CleanInv'
<1>1. /\ Has("parent", "failed") /\ ~Has("parent", "sent") /\ ~Asked /\ ~Heard /\ ~Told
      /\ \A d \in Buffer : queue["parent"][d].status \in {"queued", "failed"} => d = b
  <2>1. Has("parent", "failed")
    BY DEF Has
  <2>2. \A d \in Buffer : queue["parent"][d].status \in {"queued", "failed"} => d = b
    BY DEF CleanInv, OneToken, OnlyOne
  <2>. QED BY <2>1, <2>2 DEF CleanInv, OneToken, Answered, OneSent, IsSent, Has
<1>2. /\ queue'["child"] = queue["child"]
      /\ \A d \in Buffer : queue'["parent"][d] = IF d = b THEN Free ELSE queue["parent"][d]
  BY Constants DEF Typed, TypeOK
<1>3. /\ ~Asked' /\ ~Heard' /\ ~Answered' /\ ~Told' /\ ~Has("parent", "sent")'
      /\ \A d \in Buffer : ~IsSent(d)'
  BY <1>1, <1>2, Constants DEF Asked, Heard, Answered, Told, Has, IsSent
<1>4. OneToken' /\ Messages' /\ Concludable' /\ ~InTransit'
  BY <1>3, NoToken
<1>5. \/ UNCHANGED <<cells, sequenceNumber>>
      \/ ClearLocally("parent")
  BY DEF ResponseFailed
<1>6. /\ sequenceNumber'["child"] = sequenceNumber["child"]
      /\ cells'["child"] = cells["child"]
      /\ FewCells'
      /\ sequenceNumber'["parent"] = 0 \/ sequenceNumber'["parent"] = sequenceNumber["parent"]
  BY <1>5, Cleared, Constants DEF CleanInv, FewCells, ResponseFailed
<1>7. OneSent' /\ SlowTasks'
  BY <1>2, <1>3 DEF CleanInv, OneSent, SlowTasks, transaction
<1>8. Numbers'
  <2>1. ~Has("child", "queued")' /\ ~Has("parent", "queued")'
    BY <1>3 DEF Asked, Answered
  <2>. QED BY <1>3, <1>6, <2>1, BoundAssumption DEF CleanInv, Numbers, ChildSeq, ParentSeq
<1>9. AgreeNow' /\ AgreeOnceTold' /\ AgreeOnceSent' /\ AgreeOnceBoth'
  <2>1. Agrees(ChildSeq, ChildCells, ParentSeq, ParentCells)'
    <3>1. CASE UNCHANGED <<cells, sequenceNumber>>
      BY <1>1, <3>1 DEF CleanInv, AgreeNow, ChildSeq, ChildCells, ParentSeq, ParentCells
    <3>2. CASE ClearLocally("parent")
      BY <1>6, <3>2, Cleared, Constants, MirroredFew
         DEF FewCells, Agrees, ChildSeq, ChildCells, ParentSeq, ParentCells
    <3>. QED BY <1>5, <3>1, <3>2
  <2>. QED BY <1>3, <2>1 DEF AgreeNow, AgreeOnceTold, AgreeOnceSent, AgreeOnceBoth
<1>. QED BY <1>4, <1>6, <1>7, <1>8, <1>9 DEF CleanInv

\* What the parent concludes when its response was acknowledged.
LEMMA ParentOutcome ==
    ASSUME Typed, CleanInv, NEW a \in Response, ResponseSent(a), Doable(a, ParentCells)
    PROVE  /\ ParentSeq' = SeqAfter(a, ParentSeq)
           /\ ParentCells' = CellsAfter(a, ParentCells, a.options)
           /\ ChildSeq' = ChildSeq /\ ChildCells' = ChildCells
           /\ \A n \in Node : ~critical'[n]
<1>1. \A n \in Node : ~critical[n]
  BY DEF CleanInv, FewCells
<1>2. CASE a.code # "SUCCESS"
  BY <1>1, <1>2, Constants DEF ResponseSent, SeqAfter, CellsAfter, Clearing, ChildSeq, ChildCells,
                               ParentSeq, ParentCells, Typed, TypeOK
<1>3. CASE Clearing(a)
  BY <1>1, <1>3, Constants DEF ResponseSent, ParentConcludes, ClearLocally, SeqAfter, CellsAfter,
                               Clearing, ChildSeq, ChildCells, ParentSeq, ParentCells, Typed, TypeOK
<1>4. CASE Effective(a)
  <2>1. ParentConcludes(a) /\ a.command # "CLEAR" /\ a.code = "SUCCESS"
    BY <1>4 DEF ResponseSent, Effective
  <2>2. /\ cells' = [cells EXCEPT !["parent"] =
                       AddCells(RemoveCells(cells["parent"], a.delete), a.add, a.options)]
        /\ critical' = [critical EXCEPT !["parent"] = @ \/ RemovesAbsent(cells["parent"], a.delete)]
        /\ sequenceNumber' = [sequenceNumber EXCEPT !["parent"] = NextSeqnum(@)]
    BY <2>1, Constants DEF ParentConcludes, Typed, TypeOK
  <2>3. ~RemovesAbsent(cells["parent"], a.delete)
    BY <1>4 DEF Doable, RemovesAbsent, ParentCells
  <2>4. \A n \in Node : ~critical'[n]
    BY <1>1, <2>2, <2>3 DEF Typed, TypeOK
  <2>5. ParentSeq' = SeqAfter(a, ParentSeq) /\ ChildSeq' = ChildSeq
    BY <2>1, <2>2, Constants DEF SeqAfter, Clearing, ChildSeq, ParentSeq, Typed, TypeOK
  <2>6. ParentCells' = CellsAfter(a, ParentCells, a.options) /\ ChildCells' = ChildCells
    BY <2>1, <2>2, Constants DEF CellsAfter, ChildCells, ParentCells, Typed, TypeOK
  <2>. QED BY <2>4, <2>5, <2>6
<1>. QED BY <1>2, <1>3, <1>4 DEF Effective, Clearing

\* The response was sent: the parent concludes the answer the child concludes.
LEMMA SentResponseClean ==
    ASSUME NoRollOver, Typed, CleanInv, NEW b \in Buffer, queue["parent"][b].status = "sent",
           ResponseSent(queue["parent"][b].msg), queue' = [queue EXCEPT !["parent"][b] = Free],
           UNCHANGED <<transaction, received, faults>>
    PROVE  CleanInv'
<1> DEFINE a == queue["parent"][b].msg
<1>1. /\ IsSent(b) /\ Has("parent", "sent") /\ ~Has("parent", "failed") /\ a \in Response
      /\ \A d \in Buffer : IsSent(d) => d = b
      /\ Told => a = received["child"]
  <2>1. IsSent(b) /\ Has("parent", "sent")
    BY DEF IsSent, Has
  <2>2. a \in Response
    BY Constants DEF Typed, Kinds
  <2>. QED BY <2>1, <2>2 DEF CleanInv, OneSent
<1>2. /\ queue'["child"] = queue["child"]
      /\ \A d \in Buffer : queue'["parent"][d] = IF d = b THEN Free ELSE queue["parent"][d]
  BY Constants DEF Typed, TypeOK
<1>3. /\ UNCHANGED <<six2six_state, cellOptions, celllist_toDelete, received>> /\ Slow' = Slow
  BY DEF transaction, Slow
<1>4. /\ \A status : Has("child", status)' <=> Has("child", status)
      /\ Has("parent", "queued")' <=> Has("parent", "queued")
      /\ Has("parent", "failed")' <=> Has("parent", "failed")
      /\ \A d \in Buffer : ~IsSent(d)'
      /\ ~Has("parent", "sent")'
  BY <1>1, <1>2, Constants DEF Has, IsSent
<1>5. /\ Asked' <=> Asked
      /\ Heard' <=> Heard
      /\ Answered' <=> Answered
      /\ Told' <=> Told
  BY <1>3, <1>4 DEF Asked, Heard, Answered, Told
<1>6. Doable(a, ParentCells)
  BY <1>1 DEF CleanInv, AgreeOnceSent, AgreeOnceBoth
<1>. HIDE DEF a
<1>7. /\ ParentSeq' = SeqAfter(a, ParentSeq)
      /\ ParentCells' = CellsAfter(a, ParentCells, a.options)
      /\ ChildSeq' = ChildSeq /\ ChildCells' = ChildCells
      /\ \A n \in Node : ~critical'[n]
  BY <1>1, <1>6, ParentOutcome DEF a
<1>8. /\ ParentSeq \in Nat /\ ChildSeq \in Nat /\ MaxSeqnum \in Nat /\ ParentSeq <= MaxSeqnum + 1
      /\ SeqAfter(a, ParentSeq) \in {0, ParentSeq + 1}
      /\ SeqAfter(a, ParentSeq) = 0 <=> Clearing(a)
  <2>1. ParentSeq \in Nat /\ ParentSeq <= MaxSeqnum + 1
    BY <1>1, SeqnumTypes DEF CleanInv, Numbers
  <2>. QED BY <2>1, SeqnumTypes, SeqAfterBound
<1>9. /\ \A t \in Slot : ChildCells[t] \in Few /\ ParentCells[t] \in Few
      /\ ChildSeq = 0 => \A t \in Slot : ChildCells[t] = <<>>
      /\ a.options \in CellOption
  BY <1>1, Constants DEF CleanInv, FewCells, ChildCells, ParentCells, ChildSeq, Response
<1>10. OneToken'
  <2>1. OnlyOne("child")' /\ OnlyOne("parent")'
    BY <1>2, Constants DEF CleanInv, OneToken, OnlyOne
  <2>. QED BY <1>3, <1>5, <2>1 DEF CleanInv, OneToken
<1>11. Messages' /\ OneSent' /\ SlowTasks'
  <2>1. ChildSeq' = ChildSeq /\ cells'["child"] = ChildCells
    BY <1>7 DEF ChildCells
  <2>2. \A r : Asks(r)' <=> Asks(r)
    BY <1>3, <2>1 DEF Asks, ChildSeq, ChildCells
  <2>3. \A e : Fits(e)' <=> Fits(e)
    BY <1>3, <2>1 DEF Fits, RemovedByChild, ChildCells
  <2>4. \A d \in Buffer : queue'["parent"][d].status = "queued" =>
            queue["parent"][d].status = "queued" /\ queue'["parent"][d] = queue["parent"][d]
    BY <1>2, Constants
  <2>5. Messages'
    BY <1>2, <1>3, <1>5, <2>2, <2>3, <2>4 DEF CleanInv, Messages
  <2>. QED BY <1>2, <1>3, <1>4, <1>5, <2>5 DEF CleanInv, OneSent, SlowTasks
<1>12. FewCells'
  <2>1. /\ Clearing(a) => \A t \in Slot : CellsAfter(a, ParentCells, a.options)[t] = <<>>
        /\ \A t \in Slot : CellsAfter(a, ParentCells, a.options)[t] \in Few
    <3>1. Clearing(a) => \A t \in Slot : CellsAfter(a, ParentCells, a.options)[t] = <<>>
      BY <1>9, ClearingAfter
    <3>2. \A t \in Slot : CellsAfter(a, ParentCells, a.options)[t] \in Few
      BY <1>6, <1>9, AfterFew
    <3>. QED BY <3>1, <3>2
  <2>. QED BY <1>7, <1>8, <1>9, <2>1, Constants DEF FewCells, ChildCells, ChildSeq, ParentCells, ParentSeq
<1>13. Numbers'
  <2>1. ParentSeq' <= MaxSeqnum + 2
    BY <1>7, <1>8
  <2>2. Has("child", "queued") \/ Heard \/ Has("parent", "queued") => ParentSeq' <= MaxSeqnum + 1
    BY <1>1, <1>7 DEF CleanInv, Numbers, a
  <2>. QED BY <1>4, <1>5, <1>7, <2>1, <2>2 DEF CleanInv, Numbers
<1>14. AgreeNow'
  <2>1. ~Told => Agrees(ChildSeq, ChildCells, SeqAfter(a, ParentSeq), CellsAfter(a, ParentCells, a.options))
    BY <1>1 DEF CleanInv, AgreeOnceSent, a
  <2>. QED BY <1>5, <1>7, <2>1 DEF AgreeNow
<1>15. AgreeOnceTold'
  <2> SUFFICES ASSUME Told
               PROVE  /\ Agrees(SeqAfter(a, ChildSeq), CellsAfter(a, ChildCells, cellOptions),
                                SeqAfter(a, ParentSeq), CellsAfter(a, ParentCells, a.options))
                      /\ a.code = "SUCCESS" =>
                            Agrees(ChildSeq, ChildCells,
                                   SeqAfter(a, ParentSeq), CellsAfter(a, ParentCells, a.options))
    BY <1>1, <1>3, <1>5, <1>7 DEF AgreeOnceTold
  <2>1. /\ Agrees(ChildSeq, ChildCells, ParentSeq, ParentCells)
        /\ Effective(a) => InTurn(ParentSeq)
    BY <1>1 DEF CleanInv, AgreeOnceBoth, a
  <2>2. Fits(a) /\ cellOptions \in CellOption /\ a.options = Reverted(cellOptions)
    <3>1. Fits(a)
      BY <1>1 DEF CleanInv, Messages
    <3>. QED BY <3>1, SeqnumTypes DEF Fits
  <2>3. Doable(a, ChildCells)
    BY <2>2 DEF Fits, Doable, ChildCells
  <2>4. ChildSeq <= MaxSeqnum + 1
    BY DEF CleanInv, Numbers
  <2>5. Agrees(SeqAfter(a, ChildSeq), CellsAfter(a, ChildCells, cellOptions),
               SeqAfter(a, ParentSeq), CellsAfter(a, ParentCells, a.options))
    BY <1>1, <1>6, <1>8, <1>9, <2>1, <2>2, <2>3, <2>4, BothConclude
  <2>6. ASSUME a.code = "SUCCESS"
        PROVE  Agrees(ChildSeq, ChildCells, SeqAfter(a, ParentSeq), CellsAfter(a, ParentCells, a.options))
    <3>1. Effective(a) => ChildSeq <= ParentSeq
      BY <1>8, <2>1 DEF InTurn
    <3>. QED BY <1>1, <1>6, <1>8, <1>9, <2>6, <3>1, OneConcludes
  <2>. QED BY <2>5, <2>6
<1>16. AgreeOnceSent' /\ AgreeOnceBoth'
  BY <1>4 DEF AgreeOnceSent, AgreeOnceBoth
<1>17. Concludable'
  <2> SUFFICES ASSUME NEW d \in Buffer, queue["parent"][d].status = "queued",
                      Effective(queue["parent"][d].msg)
               PROVE  /\ Doable(queue["parent"][d].msg, ParentCells')
                      /\ ChildSeq' = ParentSeq' \/ (ChildSeq' < ParentSeq' /\ Slow')
    BY <1>2, <1>4, Constants DEF Concludable, InTurn
  <2>1. /\ Doable(queue["parent"][d].msg, CellsAfter(a, ParentCells, a.options))
        /\ InTurn(SeqAfter(a, ParentSeq))
    BY <1>1 DEF CleanInv, Concludable, a
  <2>. QED BY <1>3, <1>7, <2>1 DEF InTurn
<1>. QED BY <1>10, <1>11, <1>12, <1>13, <1>14, <1>15, <1>16, <1>17 DEF CleanInv

LEMMA ResponseSendDoneClean ==
    ASSUME NoRollOver, Typed, CleanInv, ResponseSendDone
    PROVE  CleanInv'
<1>1. PICK b \in Buffer :
         /\ \/ queue["parent"][b].status = "failed" /\ ResponseFailed(queue["parent"][b].msg)
            \/ queue["parent"][b].status = "sent" /\ ResponseSent(queue["parent"][b].msg)
         /\ queue' = [queue EXCEPT !["parent"][b] = Free]
  BY DEF ResponseSendDone
<1>2. UNCHANGED <<transaction, received, faults>>
  BY DEF ResponseSendDone
<1>. QED BY <1>1, <1>2, FailedResponseClean, SentResponseClean

-----------------------------------------------------------------------------
(* The invariant *)

\* A node that restarts has no cells and counts from 0, when the other has nothing to
\* send: their numbers are the same only if the other has no cells either.
LEMMA RebootClean ==
    ASSUME Typed, CleanInv, NEW n \in Node, Reboot(n)
    PROVE  CleanInv'
<1>1. /\ Slow => Slow'
      /\ TasksRun(Other(n)) /\ queue[Other(n)] = NoPackets
      /\ cells' = [cells EXCEPT ![n] = NoCells]
      /\ sequenceNumber' = [sequenceNumber EXCEPT ![n] = 0]
      /\ queue' = [queue EXCEPT ![n] = NoPackets]
      /\ received' = [received EXCEPT ![n] = NoMessage]
      /\ critical' = [critical EXCEPT ![n] = FALSE]
  BY DEF Reboot, Happens, NoFault, Slow
<1>2. \A m \in Node : m = n \/ m = Other(n)
  BY Constants
<1>3. \A m \in Node : received'[m] = NoMessage /\ queue'[m] = NoPackets
  BY <1>1, <1>2 DEF TasksRun, Typed, TypeOK
<1>4. \A m \in Node, b \in Buffer : queue'[m][b] = Free /\ queue'[m][b].status = "free"
  BY <1>3, Constants DEF NoPackets
<1>5. /\ ~Asked' /\ ~Heard' /\ ~Answered' /\ ~Told' /\ ~Has("parent", "sent")'
      /\ \A b \in Buffer : ~IsSent(b)'
  BY <1>3, <1>4, Constants DEF Asked, Heard, Answered, Told, Has, IsSent
<1>6. OneToken' /\ Messages' /\ Concludable' /\ ~InTransit'
  BY <1>5, NoToken
<1>7. /\ \A m \in Node : \/ sequenceNumber'[m] = 0 /\ \A t \in Slot : cells'[m][t] = <<>>
                         \/ m # n /\ sequenceNumber'[m] = sequenceNumber[m] /\ cells'[m] = cells[m]
      /\ sequenceNumber'[n] = 0 /\ \A t \in Slot : cells'[n][t] = <<>>
  BY <1>1 DEF NoCells, Typed, TypeOK
<1>8. FewCells'
  <2>1. \A m \in Node : ~critical'[m]
    BY <1>1 DEF CleanInv, FewCells, Typed, TypeOK
  <2>. QED BY <1>7, <2>1 DEF CleanInv, FewCells, Few
<1>9. OneSent' /\ SlowTasks'
  <2>1. six2six_state'.wait # "sendDone"
    <3>1. CASE n = "child"
      BY <3>1 DEF Reboot, IDLE
    <3>2. CASE n # "child"
      <4>1. n = "parent" /\ Other(n) = "child" /\ six2six_state' = six2six_state
        BY <3>2, Constants DEF Reboot, transaction
      <4>2. \A b \in Buffer : queue["child"][b] = Free
        BY <1>1, <4>1 DEF NoPackets
      <4>. QED BY <4>1, <4>2 DEF CleanInv, SlowTasks
    <3>. QED BY <3>1, <3>2
  <2>. QED BY <1>5, <2>1 DEF OneSent, SlowTasks
<1>10. Numbers'
  <2>1. ~Has("child", "queued")' /\ ~Has("parent", "queued")'
    BY <1>5 DEF Asked, Answered
  <2>2. ChildSeq' <= MaxSeqnum + 1 /\ ParentSeq' <= MaxSeqnum + 2
    BY <1>7, SeqnumTypes, Constants DEF CleanInv, Numbers, ChildSeq, ParentSeq
  <2>. QED BY <1>5, <2>1, <2>2 DEF Numbers
<1>11. AgreeNow' /\ AgreeOnceTold' /\ AgreeOnceSent' /\ AgreeOnceBoth'
  <2>1. ChildSeq' = ParentSeq' => \A m \in Node, t \in Slot : cells'[m][t] = <<>>
    BY <1>2, <1>7, <1>8, Constants DEF FewCells, ChildSeq, ParentSeq
  <2>2. Agrees(ChildSeq, ChildCells, ParentSeq, ParentCells)'
    BY <2>1, MirroredFew, Constants DEF Agrees, ChildCells, ParentCells
  <2>. QED BY <1>5, <2>2 DEF AgreeNow, AgreeOnceTold, AgreeOnceSent, AgreeOnceBoth
<1>. QED BY <1>6, <1>8, <1>9, <1>10, <1>11 DEF CleanInv

LEMMA InitClean == Init => CleanInv
<1>. SUFFICES ASSUME Init PROVE CleanInv
  OBVIOUS
<1>1. /\ \A n \in Node : queue[n] = NoPackets /\ received[n] = NoMessage /\ ~critical[n]
      /\ \A n \in Node : sequenceNumber[n] = 0 /\ cells[n] = NoCells
      /\ six2six_state = IDLE
  BY DEF Init
<1>2. \A n \in Node, b \in Buffer : queue[n][b] = Free /\ queue[n][b].status = "free"
  BY <1>1, Constants DEF NoPackets
<1>3. /\ ~Asked /\ ~Heard /\ ~Answered /\ ~Told /\ ~Has("parent", "sent") /\ ~InTransit
      /\ \A b \in Buffer : ~IsSent(b)
      /\ \A n \in Node, status \in {"queued", "failed"} : ~Has(n, status)
  BY <1>1, <1>2, Constants DEF Asked, Heard, Answered, Told, Has, IsSent, InTransit
<1>4. FewCells
  BY <1>1 DEF FewCells, Few, NoCells
<1>5. OneToken /\ Messages /\ OneSent /\ SlowTasks
  <2>1. OnlyOne("child") /\ OnlyOne("parent")
    BY <1>2, Constants DEF OnlyOne
  <2>. QED BY <1>1, <1>2, <1>3, <2>1, Constants DEF OneToken, Messages, OneSent, SlowTasks, IDLE
<1>6. Numbers /\ Concludable
  BY <1>1, <1>2, <1>3, Constants, BoundAssumption DEF Numbers, Concludable, ChildSeq, ParentSeq
<1>7. Agrees(ChildSeq, ChildCells, ParentSeq, ParentCells)
  BY <1>1, MirroredFew, Constants DEF Agrees, ChildCells, ParentCells, NoCells
<1>8. AgreeNow /\ AgreeOnceTold /\ AgreeOnceSent /\ AgreeOnceBoth
  BY <1>3, <1>7 DEF AgreeNow, AgreeOnceTold, AgreeOnceSent, AgreeOnceBoth
<1>. QED BY <1>4, <1>5, <1>6, <1>8 DEF CleanInv

\* Faults are only added.
LEMMA FaultsRemain ==
    ASSUME Next PROVE faults \subseteq faults'
<1>1. \A fault : Happens(fault) \/ NoFault => faults \subseteq faults'
  BY DEF Happens, NoFault
<1>2. \A n \in Node : PacketLeaves(n) \/ Attempt(n, AckLost) => faults \subseteq faults'
  BY <1>1 DEF PacketLeaves, Attempt, Acknowledged, GivenUp, AckLost, TasksKeepUp
<1>3. \A command, opt, add, delete : sixtop_request(command, opt, add, delete) => faults \subseteq faults'
  BY <1>1 DEF sixtop_request
<1>4. MsfRequests \/ msf_timer_clear_task \/ msf_timer_waitretry_cb => faults \subseteq faults'
  BY <1>3 DEF MsfRequests, msf_trigger6pAdd, msf_trigger6pDelete, HousekeepingRelocates,
              HousekeepingClears, msf_timer_clear_task, msf_timer_waitretry_cb
<1>5. TimerExpires \/ timer_sixtop_six2six_timeout_fired => faults \subseteq faults'
  BY <1>1 DEF TimerExpires, timer_sixtop_six2six_timeout_fired
<1>6. \A n \in Node : Reboot(n) => faults \subseteq faults'
  BY <1>1 DEF Reboot
<1>. QED BY <1>2, <1>4, <1>5, <1>6
         DEF Next, RequestSendDone, ResponseReceived, RequestReceived, ResponseSendDone

LEMMA InvInductive ==
    ASSUME NoRollOver, Inv, [Next]_vars
    PROVE  Inv'
<1>1. Typed /\ Typed'
  BY StepTyped DEF Inv
<1>2. ASSUME Clean' PROVE CleanInv'
  <2>1. CASE UNCHANGED vars
    <3>1. UNCHANGED <<cells, sequenceNumber, six2six_state, cellOptions, celllist_toDelete,
                      queue, received, critical, faults>>
      BY <2>1 DEF vars, transaction
    <3>2. Clean /\ CleanInv
      BY <1>2, <3>1 DEF Clean, Inv
    <3>. QED BY <3>1, <3>2, NothingMoves DEF Slow
  <2>2. CASE Next
    <3>1. Clean /\ CleanInv
      BY <1>2, <2>2, FaultsRemain DEF Clean, Inv
    <3>. QED BY <1>1, <1>2, <2>2, <3>1, MsfClean, TimeoutClean, AttemptClean, RequestSendDoneClean,
                ResponseReceivedClean, RequestReceivedClean, ResponseSendDoneClean, RebootClean
             DEF Next
  <2>. QED BY <2>1, <2>2
<1>. QED BY <1>1, <1>2 DEF Inv

\* If no answer is late, and the sequence numbers do not roll over, the schedules
\* agree when no transaction is going on and the sequence numbers are the same.
THEOREM SixPSchedulesAgree ==
    ASSUME NoRollOver PROVE Spec => []SchedulesAgree
<1>1. Init => Inv
  BY InitTyped, InitClean DEF Inv
<1>2. Inv /\ [Next]_vars => Inv'
  BY InvInductive
<1>3. Inv => SchedulesAgree
  <2> SUFFICES ASSUME Inv, Clean, Quiescent, sequenceNumber["child"] = sequenceNumber["parent"]
               PROVE  \A s \in Slot : cells["child"][s] = Mirrored(cells["parent"][s])
    BY DEF SchedulesAgree, Agree, Clean
  <2>1. ~Told /\ ~Has("parent", "sent")
    BY Constants DEF Quiescent, Told, Has, NoPackets
  <2>. QED BY <2>1 DEF Inv, CleanInv, AgreeNow, Agrees, ChildSeq, ParentSeq, ChildCells, ParentCells
<1>. QED BY <1>1, <1>2, <1>3, PTL DEF Spec

\* In the same conditions no node removes a cell it does not have.
THEOREM SixPNoAbsentCellRemoved ==
    ASSUME NoRollOver PROVE Spec => []NoAbsentCellRemoved
<1>1. Init => Inv
  BY InitTyped, InitClean DEF Inv
<1>2. Inv /\ [Next]_vars => Inv'
  BY InvInductive
<1>3. Inv => NoAbsentCellRemoved
  BY DEF Inv, NoAbsentCellRemoved, Clean, CleanInv, FewCells
<1>. QED BY <1>1, <1>2, <1>3, PTL DEF Spec
=============================================================================
