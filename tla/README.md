# Formal verification of the OpenWSN firmware

TLA+ models of the core of openwsn-fw: the kernel scheduler, the packet
buffers, the IEEE802.15.4e TSCH state machine, the TSCH schedule, the 6P
transactions between a node and its parent, RPL's parent and rank at one node,
and the virtual timers. The models are checked with TLC on small instances; the
safety of all of them is proved with TLAPS for every value of the constants, or
for those the code's own limits allow, which the theorem then names. `PROJECT.json`
maps every definition to the lines it models.

## The system

openwsn-fw is the firmware of one node of a 6TiSCH network. It runs on a bare
microcontroller: one main loop runs tasks to completion, by priority, and
interrupt handlers (timer, radio, serial port) preempt it. Layers call each
other directly and share two global tables, the packet buffers (`openqueue`)
and the schedule; the MAC, which runs in interrupt handlers, talks to the layers
above it through the owner field of a packet buffer and a pushed task.

| component | state | operations | hard behaviour |
|---|---|---|---|
| kernel scheduler (`kernel/openos/scheduler.c`) | array of task containers threaded into a list by priority | push a task (tasks and interrupts), main loop: pop, run, free, sleep | pushes between the statements of the main loop; a full array resets the board |
| packet buffers (`cross-layers/openqueue.c`) | array of buffers with creator and owner | allocate, free, remove all of a creator, look-ups of sixtop and the MAC | allocation from tasks and handlers, nested critical sections, the high-priority reserve, removal under the MAC's feet |
| MAC (`02a-MAClow/IEEE802154E.c`) | state of the slot, one timer, four buffer pointers, synchronization | slot, timer and radio interrupt handlers | start or end of frame too late or never, no buffer for an acknowledgement, retries, losing synchronization, a role change in mid-slot |
| frame headers and security (`IEEE802154.c`, `IEEE802154_security.c`, `topology.c`) | keys | parse, build, secure | none of its own: it succeeds or fails |
| adaptive synchronization (`adaptive_sync.c`) | drift estimate | compensate | numeric edges; off by default |
| schedule (`02b-MAChigh/schedule.c`) | circular list of active slots in a fixed array, backup cells of a slot, the current entry | add, remove, walk, statistics, backoff | lists changed by tasks while the MAC walks them, loops with interrupts disabled |
| neighbor table (`neighbors.c`) | rows with rank, RSSI, stability, 6P sequence number, backoff | update at every reception and transmission | full table, counters that saturate, stale rows |
| sixtop (`sixtop.c`) | state of the one 6P transaction, timers | send, notifications, 6P requests, responses, time-outs, EB and KA timers | lost and repeated 6P messages, a time-out racing a late response |
| MSF (`msf.c`) | counters of elapsed and used cells | adapt to traffic, housekeeping, reaction to 6P return codes | retry loops, wrong sequence numbers |
| 6LoWPAN (`iphc.c`, `frag.c`, `openbridge.c`) | reassembly and fragmentation buffers | compress, fragment, reassemble | lost or duplicated fragments, timers, freed buffers |
| forwarding (`forwarding.c`) | none | send, relay | change of creator, rank checks |
| RPL and ICMPv6 (`icmpv6rpl.c`, ...) | parent, rank, DIO and DAO timers | rank update, parent choice | loops, stale rank, timers of a busy module |
| transport and sockets (`udp.c`, `sock.c`) | list of sockets | dispatch | callbacks that close their socket |
| identity, random numbers, packet functions | role, addresses | triggered role change | the change comes at any moment |
| timers (`drivers/common/opentimers.c`) | array of timers on one wrapping compare register | schedule, cancel, fire | wrap-around, equal dates, cancel after the task was pushed |
| serial port (`openserial.c`) | HDLC buffers, inhibition flags | print, receive, inhibit | byte handlers against tasks |
| cryptography, applications, CoAP, board support | | | not the firmware's own control logic |

### What makes each component correct

- *scheduler*: a pushed task is run exactly once, the most urgent first; none
  is lost; no free container is run; the core does not sleep while a task waits.
- *packet buffers*: a buffer has one user at a time; a free buffer is really
  free; low-priority traffic leaves the reserve; nobody takes a packet from
  the MAC while it is in the air.
- *MAC*: slots do not overlap and end; a pointer of the MAC is set exactly in
  the states that follow it; every packet given to it comes back once, with one
  report, sent or given up; the attempts are counted; the MAC takes no cell from a packet that waits.
- *schedule*: the list is a sorted ring of exactly the active slots; a hidden
  cell never outranks the one in the schedule; the node never stops listening;
  it never misses a slot; every slot is served.
- *6P and MSF*: as long as no answer is late, when both nodes are idle and their
  sequence numbers agree, their schedules agree; no node removes a cell it does not have; a
  transaction ends.
- *neighbors, RPL*: the parent's row stays in the table and is the only one
  preferred; the node's rank stays a hop above its parent's.
- *timers*: a running timer fires, in time, and not before its date, across
  the wraps of the counter, whenever others are set and cancelled and its own duration is changed.
- *fragmentation* (not modelled): a packet is delivered at most once, made of its
  own fragments only, and its buffers are given back.

## The modules

| module | models | relation |
|---|---|---|
| `TaskPool` | what the scheduler promises: a bag of pushed tasks, each run once | abstract specification |
| `Scheduler` | `scheduler.c`, statement by statement where interrupts are enabled | implements `TaskPool` when interrupts only come in `board_sleep` |
| `Scheduler_proofs` | theorems: types and the list on every port; the refinement of `TaskPool` | extends `Scheduler` |
| `OpenQueue` | the operations of `openqueue.c` on the array of buffers | pure operators |
| `OpenQueue_proofs` | lemmas on these operators | extends `OpenQueue` |
| `OpenQueueSharing` | tasks (by statement) and MAC handlers on the same buffers | extends `OpenQueue` |
| `OpenQueueSharing_proofs` | theorems | extends `OpenQueueSharing`, `OpenQueue_proofs` |
| `LinkService` | what the MAC promises to the layer above | abstract specification |
| `IEEE802154E` | the MAC, its radio and timer, sixtop's hand-over and notifications | extends `OpenQueue`, implements `LinkService` |
| `IEEE802154E_proofs` | theorems: slots and buffers; the refinement of `LinkService` | extends `IEEE802154E`, `OpenQueue_proofs` |
| `Schedule` | `schedule.c` between the MAC that walks it and the tasks that change it | |
| `Schedule_proofs` | theorems | extends `Schedule` |
| `SixP` | 6P transactions of `sixtop.c` and MSF's use of them, at a node and its parent | |
| `SixP_proofs` | theorems | extends `SixP` |
| `Rpl` | `neighbors.c` and parent selection of `icmpv6rpl.c` at one node | |
| `Rpl_proofs` | theorems | extends `Rpl` |
| `OpenTimers` | `opentimers.c` on the compare register of `sctimer.c` | |
| `OpenTimers_proofs` | theorems | extends `OpenTimers` |
| `MC*` | constants for TLC | |

**Scheduler.** The list is the sequence of its containers. `PushTask` is the
whole of `scheduler_push_task` (it runs with interrupts disabled), from a task
or from a handler. The main loop is one action for each critical section
(`Check`, `Pop`, `Return`) and, where it frees a container with interrupts
enabled, for each assignment (`FreeCb`, `FreePrio`, `FreeNext`).
The constant `Ports` is the set of kinds of port, one of which a behaviour has
(`preemptive`, which never changes): FALSE is the Python port, whose interrupt
macros are empty and whose interrupts are delivered by `board_sleep`; TRUE is a
real board.

**OpenQueueSharing.** A task that asks for a buffer goes through `Enter`,
`Check`, `Scan`, `ClaimCreator`, `ClaimOwner`; a relayed packet through
`TaskRelays` and `RelayCheck`; a MAC handler is one step, possible when
interrupts are enabled. `RestoresState` says what `ENABLE_INTERRUPTS` does on
the port: restore what `DISABLE_INTERRUPTS` saved, or enable. `Fragmentation` says
whether the build has fragmentation: in one that has, received fragments for others become packets of the
node without a count of the reserve (`TaskKeepsFragment`, `frag.c:371` and 625). All other
changes of creator go through the count or from one low-priority component to another
(`coap.c:510` renames a buffer that was allocated for `COMPONENT_OPENCOAP` at 971).

**IEEE802154E.** One action for each interrupt handler in each state it acts in, with the whole
handler in it: `endSlot`, with its clean-up of the four pointers, the notification and the removal
of the autonomous Tx cell, is an operator of every action that ends a slot. The record `mac` holds
what one handler changes several times: the buffers, the pointers, the pending notification tasks
and the critical errors; operators on it are composed in the order of the calls. Time is abstracted:
the timer is armed either for the next slot or for the next activity of this one. The radio is an
environment that raises, or fails to raise, start and end of frame. Which cell a slot belongs to,
what a frame is and whether cryptography succeeds are nondeterministic. `sixtop_send_internal` and
its lookup of a cell are two steps: between them an interrupt may end a slot. 6P adds negotiated
cells at any time (`AddsNegotiatedCell`). `Trouble` is a set of sets of troubles (role changes over
the serial port, failing cryptography, a full schedule, tasks that remove their packets, 6P removing
cells, RPL changing its parent); a behaviour meets those of one of them. A removal may come in
mid-slot and take the cell of that slot: `EntryAfterRemoval` says what `endSlot` may find there
then. `ChangesParent` re-addresses the packets that wait as `openqueue_updateNextHopPayload` does,
which looks for no cell.

**Schedule.** The record `schedule` is the array of containers and
`currentScheduleEntry`; every `schedule_` function is an operator on it, since
each runs with interrupts disabled. `ActiveSlot`, `InactiveSlot`,
`EndActiveSlot`, `Synchronize` and `Desynchronize` are the MAC, reduced to what
touches the schedule; `sixtop_send_internal`, `Agree`, `Conclude`, `GiveUp` and
`Clear*` are the tasks. A 6P transaction is reduced to its two effects: the
slots are checked when it is agreed on, and changed when it concludes, and
anything may happen in between; the removal and the addition of a relocation
are one step. The loop of `schedule_removeAllNegotiatedCellsToNeighbor` is two
steps for each entry, because it is not a critical section. `ClearStarts` may
come at any time, which is more than the code does.

**SixP.** Two nodes. A schedule maps a slot to its negotiated cells, the one in
use first, its backups after it (`MAXBACKUPSLOTS`). Each task is an action:
`sixtop_request` with its test of the sequence number and of the queue, the
notification that a request or a response was sent or given up, the reception of a
request (answer chosen, return codes, RESET on a CLEAR), of a response, the
expiry of the transaction's timer, and MSF's waiting, clearing and reaction to refusals
(the adaptive build, `ADAPTIVE_MSF`). The packets that wait are an array of `MaxQueued`
buffers, as in `openqueue.c`: the first free entry is taken. A node's changes are made where the code makes
them: the parent's when its response was acknowledged, the child's when the
response arrives. The MAC below is a channel: a frame arrives once or is given up;
a fault of `FaultSet` may make it arrive and still be retried; deny a CLEAR its
buffer; delay the task of a notification behind the answer; expire
the timer early, or leave its task behind a cancellation; reboot a node. COUNT and LIST,
which only read, are left out.

**Rpl.** One action per task: a reception (`neighbors_indicateRx`), an
acknowledged or given-up transmission (`neighbors_indicateTx`), a DIO
(`icmpv6rpl_indicateRxDIO`), the housekeeping (`neighbors_removeOld`), a refusal
of cells by the parent, a change of role. Each contains the run of
`icmpv6rpl_updateMyDAGrankAndParentSelection` that the code makes in it. What the
neighbors announce is any rank of `Announced`; the counters of a row are halved as in the
code.

**OpenTimers.** Every call of the driver and its interrupt is one action
(`InhibitInterrupt` and `TimerInterrupt` are its two branches); `Tick` advances
the hardware's counter. Three variables are ghosts: `left`, the ticks to the time each timer was started
for; `asked`, the duration it was started with, and whether `opentimers_updateDuration` has changed it since;
`expired`, both of these for the timers that just fired. `ClearsPending` and
`Turns` are the two kinds of port: whether `sctimer_setCompare` clears a pending
interrupt, and how much wider the hardware's counter is than a compare value.
`Timely` says what the run and the proofs need of a board's constants.

## The runs

| run | instance | question |
|---|---|---|
| `scheduler_ports` | 3 tasks, 3 priorities, 4 containers, both kinds of port | does the scheduler implement a task pool, in priority order, losing nothing, where interrupts only come in `board_sleep`; what remains on a real board: no free container is run, the head of the list is started |
| `scheduler_lost` | 3 tasks, 3 containers, a real board | violated: a push between the assignments that free a container loses tasks |
| `sharing_restore` | 3 buffers, 2 reserved, 3 kinds of creators, fragments | exclusive buffers, reserve, packets of the MAC left alone |
| `sharing_nested` | the same, unconditional `ENABLE_INTERRUPTS` | violated: two users of one buffer |
| `mac_slots` | 2 buffers, 2 neighbors (one may be negotiated with), 1 retry, leaf | slots, pointers, notifications, attempts, cells, critical errors, link service |
| `mac_faults` | 1 neighbor; cryptography fails, the schedule is full, tasks remove their packets; or the role changes at any time; or 6P adds and removes cells and the parent changes; the board resets | slots do not overlap, the buffers stay consistent, every packet given back has its task, still a link service, and nothing but these steps takes the cell of a packet |
| `mac_live` | 1 neighbor, root | slots end, packets come back |
| `schedule_ring` | 4 slots, 3 containers of 2 backups, 2 neighbors, 1 transaction | the ring, priorities, listening, keeping in step, every slot served |
| `sixp` | 2 slots, 1 backup, requests up to sequence number 2, one fault or a chosen pair | schedules agree, no absent cell is removed, a transaction ends |
| `sixp_late` | the same, a time-out before the answer | violated: a late response is taken for that of the next transaction |
| `opentimers` | 1 timer of the tasks, a counter of 5 bits, a short duration and one over a turn, changed at any time | every timer fires in time, and none too early |
| `rpl` | 2 rows, 2 neighbors, a root and a router whose rank changes, counters to 4 | the parent stays in the table, the rank above the parent's |

### Bounds

Every bound is a constant. Four containers hold one task of each
priority and a second one, so that a new task lands before, between, after
and next to equal priorities, and the array overflows. Two packet buffers are
the least that let a data frame and its acknowledgement coexist, and the
shortage of buffers is then met in every handler that allocates. One retry gives
a first and a last attempt; a desynchronization time-out of two slots gives a
countdown and its end. `MaxPendingTasks` bounds the send notifications only
under which a task may remove packets (each removal leaves a notification
without a packet); all other notifications are bounded by the buffers. In `mac_faults` the constraint
`NegotiatesWhereCellsGo` lets 6P negotiate in the behaviours only in which it may also remove; in
`mac_slots` it negotiates with one of two neighbors, from nothing, at any time.
Three containers hold the minimal cell, the node's own cell and one more, so
that the schedule is full, a slot is inserted at both ends and in the middle,
and the current entry is removed; the hash of the second neighbor is
the node's own slot, which makes backup cells, swaps and promotions happen.
`MaxTransactions = 1` is `sixtop`'s own limit of one transaction at a time.

`SixP`: two slots let a relocation take place and one of several cells be
chosen; with one backup the addition to a slot in use is met too. No request
is made from sequence number `MaxSeqnum` = 2 on (a CLEAR from the next one on), which
gives transactions after a successful one, after a failed one and after a reset;
once an answer may be late, one transaction and a CLEAR are enough for
everything to meet the wrong transaction. The faults of one behaviour are
one of those that make an answer late, or a slow task, a reboot and
a CLEAR without a buffer, together. The roll-over of the sequence number, from 255
to 1, is in the definition (`NextSeqnum`) but beyond the bound.

`OpenTimers`: a counter of 5 bits, one timer of the tasks beside the two of the
MAC; its durations are 3 ticks and 40, a turn with a rest, and the one becomes
the other at any moment. The interrupt waits at most one tick (`Latency`); the MAC arms
its timers 2 or 3 ticks ahead, never for a past time, and never more than
`Horizon` = 7 ticks after the last compare value. The constants satisfy `Timely`, which TLC
evaluates. States are compared by
the distance of everything from the counter (`SeenFromNow`): with `Turns` = 1 the clock has
no origin, and a field the view leaves out is written before it is read again.

`Rpl`: two rows for two neighbors, so that one is evicted, comes back and finds another row; the
counters end at 4 where the code's end at 255, the threshold of statistics is 2, a packet is
acknowledged at the first attempt or given up after the second. With these values the metric of an
unacknowledged link between `DEFAULTLINKCOST` and `MINIMAL_NUM_TX` attempts is not met in the run;
the theorem covers it.

### Fairness

- `Scheduler`: weak fairness of the main loop and of the interrupt that wakes
  the core: the processor runs, and the periodic timers keep interrupting it.
- `IEEE802154E`: weak fairness of the four handlers: a timer that is armed
  fires, an interrupt that is pending is served. Strong fairness of the second half of
  `sixtop_send_internal`: interrupts preempt the task again and again but it
  gets the core between them. Strong fairness of a transmission opportunity to
  each neighbor: the slotframe is cyclic, and the backoff of a shared cell
  decreases at each pass. None is assumed of the radio, which may miss every
  frame, or of the tasks' requests.
- `Schedule`: weak fairness of the slots. `EverySlotServed` is conditional, in
  its formula, on no slot being added and the node staying synchronized from some time
  on: a slot added behind the MAC makes it miss all others.
- `SixP`: weak fairness of the MAC, which sends or gives up what it is given
  (`PacketsComeBack` of `mac_live`), of the notification and reception tasks, and
  of the transaction's timer and its task. None of MSF's requests, or of the faults.

## What is proved

The proofs use the named `ASSUME`s of the modules only, which TLC also evaluates:
positive sizes, identifiers in the order of `opendefs.h`, the reserve smaller
than the array, halved counters above the threshold.

**Scheduler** (any tasks, priorities, number of containers).
On either port, `SchedulerTypeOK` and `SchedulerRunsOnlyPushedTasks`: the
invariant `Inv` is needed because type correctness alone does not say that the head of the list has a
callback: it adds that no container is on the list twice, that a listed
container is not free, and that the container being freed is off the list at the
statements where it is. The difficult case is `PushTask` between two
statements of the main loop: the container it takes may be the one being
freed, once its callback is NULL. It rests on `InsertedProperties`: what the
insertion of an element into a sequence keeps. Where interrupts only come in
`board_sleep`, `PoolInv` adds that a container with a callback is on the list
(or is the one running) and that the list is sorted: `SchedulerNoTaskLost`,
`SchedulerMostUrgentFirst`, and `SchedulerImplementsTaskPool`, step by step: a push appends to
the bag, a pop starts the oldest of the most urgent ones.

**Packet buffers** (any number of buffers, any creators). `SharingTypeOK`: the walk of the array
stays in it. `SharingBuffersExclusive`, for ports that restore the saved state: the invariant ties
the position in the critical section to `masked` and to the owner of the entry about to be claimed;
on the other ports `sharing_nested` refutes it. `SharingMacKeepsItsPackets`, an action property, on
the same ports. `SharingLeavesHighPriority`, on every port and in every build, of the packets that
are counted (`Counted`: all low-priority ones but forwarded fragments): a count of entries decreases
by one at most at each claim, and a claim that follows the check is the only one; the lemma
`Counting` is the finite-set argument.

**MAC** (any buffers, neighbors, retries; every trouble). The invariant `Inv` says which pointers
are set in each state (`PointersIn`), that each points to a buffer of its own that the MAC owns, and
that the MAC owns no other (`Fit`); that an unsynchronized node is in no activity of a slot; that a
packet that waits, or is in the air, has attempts left. `MacBuffers` alone is not inductive: a
handler changes the buffers several times, and in its course a buffer may be pointed to twice, or be
free already, when securing the acknowledgement fails. What holds in between (`Sound`) is weaker:
every buffer the MAC owns has a pointer, and the packet to send has one of its own. Each call has a
lemma from `Sound` to `Sound`; `CleanedUp` composes those of `endSlot`, after which no pointer is
set and the MAC owns nothing. `MacTypeOK`, `MacSlotsDoNotOverlap`, `MacBuffersKept` and
`MacAttemptsLeft` follow. `MacCellForEveryPacket` is an action property: no step leaves a packet
without a cell (`Stranded`) that had one, or that was not there, but the three steps of tasks that
do so in the code, and which it names. It counts the packet in the air, which waits again after the
slot, as one that needs its cell. `MacNoneStranded` follows: where `Trouble` has none of the three
(`"cells"`, `"parent"`, `"schedule"`), no packet is ever without.

**The MAC as a link service** (the same, in the second part of `IEEE802154E_proofs`). `LinkInv` adds
to `Inv` who created the buffers that the pointers reach (`Linked`): `ReceivedPackets` and
`SentPackets` tell a frame from a packet given back by its creator, so a packet to send that the MAC
had created would change sides when it comes back. It also adds the counts: no more packets given
back than tasks to fetch them, as many frames as tasks, and, without failing cryptography and
without removals, as many packets as tasks (`Exact`). Each call of a handler is shown to leave what
the service shows (`Stays`) or to be one of its steps (`Retried`, `Returned`, `Delivered`), and the
calls of a handler to make at most one such step together; a handler that gives a packet back itself
leaves `endSlot` nothing to give back. `MacImplementsLink` follows, and, by counting along the steps
of the service (`ReportsKept`), `MacNoPacketStranded`. `MacNoCriticalError` needs `Exact` (a task
that finds no packet logs an error) and that no buffer reached by a pointer is free already
(`Whole`), which only a failure to secure an acknowledgement breaks.

**Schedule** (any slots, containers, backups, neighbors, hashes). The invariant of `Schedule_proofs`
says that the entries reached from the start are a ring sorted by offset, that each slot holds only
cells that may be there (`Placed`), its entry the most important (`Ordered`), and that the minimal
cell and the node's own are among them; that a transaction agreed on never adds slot 0 or the node's
own. Without `Placed` a removal, which matches the neighbor and not the type, could take the minimal
cell; without the node's own cell, which is never alone in being removed, the entry to unlink might
have no predecessor. `ScheduleTypeOK`, `ScheduleRingOfSlots`, `ScheduleHighestPriority` and
`ScheduleKeepsListening` follow. `ScheduleStaysInStep`, an action property, rests on a reformulation
without links (`InStepNext`): that the entry after the current one is the next active slot says as
much as that the current one is the last active slot so far (`InStep`), which a removal of another
entry cannot change and that of the current one hands to its predecessor (`UnlinkInStep`). Nor is a
relocation its own undoing: a transaction never adds the slot it removes, as the former was
available when the latter was in use.

**Rpl** (any rows, neighbors, ranks, thresholds, attempts). `RplTypeOK`,
`RplParentKept` and `RplRankAboveParent`: the invariant adds that
acknowledgements never outnumber attempts, in every row, also after both
counters are halved, so that a link never costs less than the best one.

**SixP** (any slots, backups, buffers, any of the sets of faults). `SixPTypeOK`,
`SixPSchedulesAgree` and `SixPNoAbsentCellRemoved`. That the schedules agree says nothing while
a transaction is under way, so the invariant `CleanInv` of `SixP_proofs` follows one transaction
from the request to the last notification. One message of it is under way at most, and only in its course
(`OneToken`), of the command and the cells the child remembers (`Messages`). The parent
has at most one response that was sent and that it has not looked at (`OneSent`), and only the one
slow task lets it meet the next message (`SlowTasks`). Each side makes the transaction's changes
at a moment of its own, so what agrees is what the two nodes will have:
`AgreeNow`, `AgreeOnceTold`, `AgreeOnceSent` and `AgreeOnceBoth` say it according to who
has yet to look at the response, and `Concludable` of the response that waits behind one. Cells that are
to be removed are there and those to be added are free (`Doable`), which with `FewCells`
gives `SixPNoAbsentCellRemoved`. The theorems about agreement have the hypothesis `NoRollOver`, that the
sequence numbers do not come round (`MaxSeqnum + 2 <= SEQNUM_MAX`): it is needed, see below.

**Timers** (any number of timers, width of the counter, durations and delays of
the interrupt). `OpenTimersTypeOK` holds on every board; `OpenTimersEveryTimerInTime` and
`OpenTimersNoTimerTooEarly` have the hypothesis `Timely`: the counter is as wide as the
compare values, setting the register clears what pends (the MSP430 boards, which write
`TBCCTL2` at `telosb/sctimer.c:71`), the MAC arms its timers ahead of what the interrupt may be
late, and `TIMERLOOP_THRESHOLD` tells a late date from a soon one. There
`ADVANCE` is 3 ticks, `SPLITE` 15, a slot 655, `THRESHOLD` 0x4000 of 0x10000, so that
`Horizon` may be twenty slots. With a smaller `THRESHOLD` (6 in the run) or a task's timer of
one tick (with an `ADVANCE` of 3) TLC finds `EveryTimerInTime` violated: the timer waits a whole turn.

A compare value alone does not say whether it has passed. The invariant `Inv` of `OpenTimers_proofs`
therefore sees everything from the last compare value that was handled: `Since` is the ticks since
then, `Ahead` those to the compare value of a timer. The MAC's own timer is always running, within
`Horizon` of the last compare value, so that the clock does not go on unnoticed. A short timer has
exactly `Ahead` ticks left (`Agrees`), a long one `Ahead` and its remaining turns, up to a turn lost
or gained and the early calls so far (`Rest`, `Slack`); what it was started for (`asked`) and not
its duration counts, since that may change while it runs, and the last turn of a long one with it.
The compare value of the register is the first of those that are running (`FirstSelected`); when the
interrupt pends, no timer is late by more than it has waited, and the break before
(`PendingInTime`), and `TIMER_INHIBIT`, which starts a break, by no more than it has waited, so that
breaks do not add up; when it does not pend, the register is still to come: the date of the first
timer, or the end of a break (`RegisterToCome`). `Rebased` carries the order of the dates from one
compare value to the next across the wrap of the counter. A cancelled timer leaves the register as
it was: then nothing expires at the next interrupt, which only selects anew.

Only model-checked: the liveness properties (the prover has no
reasoning about fairness or enabledness).

## Disagreements with the code's documents

Three runs exhibit one each (see `findings` in `PROJECT.json`): tasks lost by a
push while a container is freed; nested critical sections; a late 6P response
taken for that of another transaction. Others were met and have no run.

*Scheduler and buffers.* Between the test of the list and `board_sleep` (`scheduler.c:68`) an
interrupt may push a task that then waits for the next interrupt. Received packets are fetched in
the order of the buffers, not of arrival (`openqueue.c:255`). With fragmentation, the received
fragments that are forwarded become low-priority packets that nobody counts (`frag.c:371` and 625):
they can take all of the reserve, which `LeavesHighPriority` does not claim for them.

*MAC.* When securing an acknowledgement fails, its buffer is freed at
`IEEE802154E.c:2097` and again by the clean-up of `endSlot` (2993), which logs a
critical error: `NoCriticalError` is checked and proved without failing cryptography. A
node that is not synchronized has no watchdog in `S_SYNCRX` (605).
`TIMER_INHIBIT` is armed at the end of a slot without testing that its time is
not past (3027).

*Schedule.* A slot added between the current entry and the present slot makes
the MAC wait for a slot that has passed (`schedule.c:396`, `935` against `926`);
`StaysInStep` excludes it. `sixtop_send_internal` ignores that the schedule is full
(`sixtop.c:615`) and the packet then has no cell; an addition
fails as a duplicate although a backup
entry is free, when a container that is off precedes (`schedule.c:265`);
a removal matches any cell of the neighbor in the slot, whatever the type
(`schedule.c:468`, documented with a `type` parameter at 446);
`schedule_removeAllNegotiatedCellsToNeighbor` also removes autonomous Tx cells
and skips backup entries (`schedule.c:631`).

*Packets without a cell.* Three steps of tasks leave a unicast packet that waits without a cell,
until another packet to the same neighbor makes `sixtop_send_internal` add one; `mac_faults` takes
all three, and `CellForEveryPacket` says that nothing else does. 6P removes cells (`sixtop.c:883`,
987, 1002 and 1574 by `schedule.c:628-647`, which takes autonomous Tx cells too, and the cells of a
DELETE or RELOCATE) without looking at the queue, while `endSlot` does. A change of parent
(`icmpv6rpl.c:508`) gives the packets that wait the new next hop (`openqueue.c:427`) and looks for
no cell to it; it does so to broadcasts as well, which become unicasts with a single attempt, and
writes eight bytes where the address of the header was. And an autonomous cell finds no room in the
schedule.

*6P and MSF.* The sequence number rolls over from 255 to 1, the value that also follows a reset
(`neighbors.c:430`): with `SEQNUM_MAX` equal to `MaxSeqnum` TLC finds `SchedulesAgree` violated,
when a CLEAR failed at one node only and the other's number comes round. The runs and the theorems
stay below the roll-over. `msf_timer_clear_task` is dropped when sixtop is busy or no buffer is
free. The task of a time-out is not taken back when the timer is cancelled (`sixtop.c:1607`). A
response that overtakes the notification of its request reaches a branch marked "should never
happen". Early `return E_FAIL`s of `sixtop_request` leak the buffer. `neighbors_getSequenceNumber`
reads past the table for a neighbor it does not have.

*RPL.* A root that had a parent before computes its rank from the
old parent once it has its own (`icmpv6rpl.c:370-374`): TLC reaches a root whose
rank is not `MINHOPRANKINCREASE` in a few steps. A node that is root no more keeps
the root's rank without a parent, and no candidate can pass the hysteresis.
The rank of a suspicious DIO is increased in 16 bits, and
may be stored above what was announced (615). `lowestRankInHistory`, documented as the "lowest Rank that
the node has advertised", is only updated at a change of parent;
`DAGMAXRANKINCREASE` only limits candidates, not the rank of the parent in use.
`f6PNORES` is never cleared. No rank is updated before `MINIMAL_NUM_TX` transmissions.
`icmpv6rpl_killPreferredParent` is never called.

*Timers.* On the boards whose `sctimer_setCompare` leaves a pending interrupt pending
(`openmote-b-24ghz/sctimer.c:49`) a timer that is set again while its interrupt waits makes the next
one early: the run takes the other kind (`ClearsPending`). `board_info.h:37` masks compare values to
31 bits of a 32-bit counter. The callback's search reads one entry past the array of timers. A long
timer may lose its first turn or take one more, and is called early at each; the properties allow
it. `opentimers_updateDuration` ("should be called in the callback of the timer interrupt", 269)
changes a timer whose next period is under way already: MSF calls it in the task that the interrupt
handler pushed after it restarted the timer (`opentimers.c:397-407`). On the boards whose counter
the housekeeping period exceeds, the last turn is then made of the new duration (411), and the timer
fires up to a turn before the time it was started for; `NoTimerTooEarly` allows a long timer that
turn (`Early`), and TLC finds the bound without it violated. Moreover `msf.c:235` gives milliseconds
where ticks are expected: after two periods the housekeeping runs every 15000 to 44999 ticks, half a
second to a second and a half on these boards. A timer of fewer ticks than the last call was early
(`MINIMUM_COMPAREVALE_ADVANCE` less one at most) lies before the last compare value and waits a full
turn. The tasks of the stack ask for a millisecond, 33 ticks, or more: a random wait is never zero,
as the shift register of `openrandom.c` is not. Only the first wait of `csensors`
(`csensors.c:398`), a fraction of its period, may be shorter. With slot skipping, off by default,
the next slot of a 16-bit board may be a slotframe of 101 slots away, which is more than a turn of
its counter.

## Not modelled

- Time in the MAC: durations, clock drift and guard times. A handler that is late is
  a radio that misses a frame.
- Frame contents, addresses, frequencies, ASN arithmetic, duty cycle, slot
  skipping in the schedule's walk, statistics, backoff counters.
- The build with several timers (`SLOT_FSM_IMPLEMENTATION_MULTIPLE_TIMER_INTERRUPT`).
- Fragmentation (`frag.c`), which is compiled in with
  `OPENWSN_6LO_FRAGMENTATION_C` only, off by default, but for its change of creator
  (`TaskKeepsFragment`). Read, not checked: the clean-up of a datagram matches the tag and not the sender; a
  full fragment buffer is only noticed at the first fragment; the original
  message may be reported twice, when a fragment fails and another succeeds later.
- The counters of elapsed and used cells that make MSF ask: a request may come at any time.
- DIO and DAO timers, and RPL between nodes: what a neighbor announces is arbitrary.
- The serial port's HDLC and inhibition.
- Cryptography, header compression, CoAP, applications and board support: data handling, drivers and vendor code
  without control logic of the firmware's own.
- In `IEEE802154E`, liveness where cells are removed or the parent changes: `mac_live` has neither.
- In `Schedule`, the change of role at run time and links of a beacon outside the minimal cell.
- In `SixP`, more than one child, and COUNT and LIST.

## Plan

Done: scheduler, packet buffers, MAC with sixtop's hand-over, schedule, 6P with
MSF, timers, neighbor table and RPL at one node, and the proofs above. What is left, in order:

1. `Frag` on `OpenQueue`: fragmentation and reassembly over a lossy channel;
2. DIO and DAO timers, and several nodes of `Rpl` that hear each other's DIOs: loops, and their end;
3. backoff of shared cells, adaptive synchronization, the serial port's inhibition.
