----------------------------- MODULE OpenTimers -----------------------------
(***************************************************************************)
(* The virtual timers of opentimers.c on the one compare register of        *)
(* sctimer.c.  A timer has a compare value, the counter is a few bits wide  *)
(* and wraps, and the order of two compare values is told by their distance *)
(* from the last one handled.  A timer longer than a turn of the counter    *)
(* counts its turns.                                                        *)
(*                                                                          *)
(* The MAC keeps TIMER_TSCH running: each of its callbacks arms the timer   *)
(* again, and so do the interrupts of the radio.  TIMER_INHIBIT fires ahead *)
(* of the end of a slot; the timers of the tasks are then called a little   *)
(* early, so as to leave the next slot alone.                               *)
(*                                                                          *)
(* A task or an interrupt handler is one action and takes no time; the      *)
(* interrupt of the compare register may wait for some ticks.               *)
(***************************************************************************)
EXTENDS Integers

CONSTANTS
    MAX_NUM_TIMERS,
    MAX_TICKS,          \* MAX_TICKS_IN_SINGLE_CLOCK, a power of 2 less 1
    SPLITE,             \* SPLITE_TIMER_DURATION
    WINDOW,             \* PRE_CALL_TIMER_WINDOW
    THRESHOLD,          \* TIMERLOOP_THRESHOLD
    ADVANCE,            \* MINIMUM_COMPAREVALE_ADVANCE
    Turns,              \* turns of the compare values in one of the hardware's counter
    ClearsPending,      \* does sctimer_setCompare clear a pending interrupt?
    Latency,            \* bound: how many ticks the interrupt waits
    SlotDelay,          \* bound: how far ahead the MAC arms its timers
    Horizon,            \* bound: how far after the last compare value it arms them
    Duration            \* bound: the durations the tasks ask for

ASSUME NumTimersAssumption == MAX_NUM_TIMERS \in Nat /\ MAX_NUM_TIMERS > 2
ASSUME TicksAssumption     == MAX_TICKS \in Nat \ {0} /\ Turns \in Nat \ {0}
ASSUME DriverAssumption    == {SPLITE, WINDOW, THRESHOLD, ADVANCE, Latency, Horizon} \subseteq Nat
ASSUME PortAssumption      == ClearsPending \in BOOLEAN
ASSUME DelayAssumption     == /\ SlotDelay # {} /\ SlotDelay \subseteq 1..MAX_TICKS
                              /\ Duration \subseteq Nat

TIMER_INHIBIT == 0
TIMER_TSCH    == 1
Timer   == 0..(MAX_NUM_TIMERS - 1)
General == 2..(MAX_NUM_TIMERS - 1)

Clock == MAX_TICKS + 1

\* x & MAX_TICKS_IN_SINGLE_CLOCK
Masked(x) == x % Clock

VARIABLES
    timersBuf,            \* the entries of the timers
    currentCompareValue,  \* what the compare register was last set for
    lastCompareValue,     \* what was handled last
    counter,              \* the hardware's counter
    compareRegister,      \* its compare register
    waiting,              \* ticks its interrupt is pending, -1 when it is not
    left,                 \* (ghost) ticks to the time each running timer is asked for
    asked,                \* (ghost) what each was started for; did its duration change since?
    expired               \* (ghost) what was left of the timers that just expired

driver   == <<timersBuf, currentCompareValue, lastCompareValue>>
hardware == <<counter, compareRegister, waiting>>
ghosts   == <<left, asked, expired>>
vars     == <<driver, hardware, ghosts>>

Entry == [isUsed : BOOLEAN, isrunning : BOOLEAN, periodic : BOOLEAN, duration : Nat,
          currentCompareValue : 0..MAX_TICKS, wraps_remaining : Nat]

Unused == [isUsed |-> FALSE, isrunning |-> FALSE, periodic |-> FALSE, duration |-> 0,
           currentCompareValue |-> 0, wraps_remaining |-> 0]

Asked == [duration : Nat, changed : BOOLEAN]

AskedFor(duration) == [duration |-> duration, changed |-> FALSE]

TypeOK ==
    /\ timersBuf \in [Timer -> Entry]
    /\ {currentCompareValue, lastCompareValue} \subseteq 0..MAX_TICKS
    /\ {counter, compareRegister} \subseteq 0..(Turns * Clock - 1)
    /\ waiting \in -1..Latency
    /\ left \in [Timer -> Int]
    /\ asked \in [Timer -> Asked]
    /\ expired \in SUBSET (Timer \X Int \X Asked)

-----------------------------------------------------------------------------
(* sctimer.c *)

Pending == waiting # -1

\* Too late, or too soon for the hardware: the interrupt is raised at once, and
\* served before the next tick.
RaisedAtOnce(val) ==
    \/ (counter - val) % (Turns * Clock) < THRESHOLD
    \/ (val - counter) % (Turns * Clock) < ADVANCE

sctimer_setCompare_KeepsPending(val, pends) ==
    IF RaisedAtOnce(val)
    THEN waiting' = Latency /\ UNCHANGED compareRegister
    ELSE waiting' = (IF pends THEN waiting ELSE -1) /\ compareRegister' = val

\* An interrupt that pends stays, unless setting the register clears it.
sctimer_setCompare(val, pends) ==
    IF RaisedAtOnce(val)
    THEN waiting' = Latency /\ UNCHANGED compareRegister
    ELSE /\ waiting' = (IF pends /\ ~ClearsPending THEN waiting ELSE -1)
         /\ compareRegister' = val

-----------------------------------------------------------------------------
(* The entries, and which timer is the next *)

Gap_FromNow(timers, i, reference) == Masked(timers[i].currentCompareValue - counter)

Gap(timers, i, reference) == Masked(timers[i].currentCompareValue - reference)

Running(timers) == {i \in Timer : timers[i].isrunning}

IsNext(timers, i, reference) ==
    /\ i \in Running(timers)
    /\ \A j \in Running(timers) :
          \/ Gap(timers, i, reference) < Gap(timers, j, reference)
          \/ Gap(timers, i, reference) = Gap(timers, j, reference) /\ i <= j

\* The next timer to fire is the first one after the reference.
SelectNext(timers, reference, pends) ==
    IF Running(timers) = {}
    THEN /\ waiting' = (IF pends THEN waiting ELSE -1)
         /\ UNCHANGED <<currentCompareValue, compareRegister>>
    ELSE \E i \in Timer :
            /\ IsNext(timers, i, reference)
            /\ currentCompareValue' = timers[i].currentCompareValue
            /\ sctimer_setCompare(timers[i].currentCompareValue, pends)

Scheduled_Unmasked(entry, duration, reference, periodic) ==
    [entry EXCEPT !.isrunning = TRUE, !.periodic = periodic, !.duration = duration,
                  !.wraps_remaining = duration \div MAX_TICKS,
                  !.currentCompareValue = reference + IF duration \div MAX_TICKS = 0
                                                      THEN duration ELSE MAX_TICKS]

\* What opentimers_scheduleIn and opentimers_scheduleAbsolute write.
Scheduled(entry, duration, reference, periodic) ==
    [entry EXCEPT !.isrunning = TRUE, !.periodic = periodic, !.duration = duration,
                  !.wraps_remaining = duration \div MAX_TICKS,
                  !.currentCompareValue =
                      Masked(reference + IF duration \div MAX_TICKS = 0
                                         THEN duration ELSE MAX_TICKS)]

\* The MAC arms its timers for a time that is not past.
MacSchedules(timers, i, delay) ==
    [timers EXCEPT ![i] = Scheduled(@, delay, counter, FALSE)]

Init ==
    /\ counter = 0
    /\ timersBuf = MacSchedules([i \in Timer |-> [Unused EXCEPT !.isUsed = i \notin General]],
                                TIMER_TSCH, CHOOSE d \in SlotDelay : TRUE)
    /\ currentCompareValue = timersBuf[TIMER_TSCH].currentCompareValue
    /\ lastCompareValue = 0
    /\ compareRegister = currentCompareValue
    /\ waiting = -1
    /\ left = [i \in Timer |-> IF i = TIMER_TSCH THEN timersBuf[i].duration ELSE 0]
    /\ asked = [i \in Timer |-> AskedFor(left[i])]
    /\ expired = {}

\* The waiting of the interrupt, twice around the break after TIMER_INHIBIT.
Lateness == 2 * Latency + SPLITE

\* What the driver can tell the distance of, while the MAC keeps TIMER_TSCH running.
IsShort(duration) == duration + Horizon + Lateness <= MAX_TICKS

-----------------------------------------------------------------------------
(* What the tasks call, with the interrupts disabled *)

Sets(timers) ==
    /\ timersBuf' = timers
    /\ expired' = {}
    /\ UNCHANGED counter

\* A timer is asked for from now on.
Asks(i, duration) ==
    /\ left' = [left EXCEPT ![i] = duration]
    /\ asked' = [asked EXCEPT ![i] = AskedFor(duration)]

Unmoved == UNCHANGED <<currentCompareValue, lastCompareValue, compareRegister, waiting>>

opentimers_create ==
    \E i \in General :
        /\ ~timersBuf[i].isUsed
        /\ \A j \in General : j < i => timersBuf[j].isUsed
        /\ Sets([timersBuf EXCEPT ![i].isUsed = TRUE])
        /\ Unmoved
        /\ UNCHANGED <<left, asked>>

opentimers_scheduleIn(i, duration, periodic) ==
    /\ timersBuf[i].isUsed
    /\ LET timers == [timersBuf EXCEPT ![i] = Scheduled(@, duration, counter, periodic)]
       IN  /\ Sets(timers)
           /\ SelectNext(timers, lastCompareValue, Pending)
    /\ Asks(i, duration)
    /\ UNCHANGED lastCompareValue

\* From an interrupt of the radio: the end of a slot arms TIMER_INHIBIT as well.
opentimers_scheduleAbsolute(i, delay) ==
    /\ Masked(counter - lastCompareValue) + delay <= Horizon
    /\ LET timers == MacSchedules(timersBuf, i, delay)
       IN  /\ Sets(timers)
           /\ SelectNext(timers, lastCompareValue, Pending)
    /\ Asks(i, delay)
    /\ UNCHANGED lastCompareValue

\* Of any timer, running or not: the last turn of one that runs and its next
\* period are of the new duration.  The parameter is as wide as the counter.
opentimers_updateDuration(i, duration) ==
    /\ duration < Turns * Clock
    /\ Sets([timersBuf EXCEPT ![i].duration = duration])
    /\ asked' = [asked EXCEPT ![i].changed = TRUE]
    /\ Unmoved
    /\ UNCHANGED left

\* Neither of them looks at the compare register.
opentimers_cancel(i) ==
    /\ timersBuf[i].isUsed
    /\ Sets([timersBuf EXCEPT ![i].isrunning = FALSE])
    /\ Unmoved
    /\ UNCHANGED <<left, asked>>

opentimers_destroy(i) ==
    /\ timersBuf[i].isUsed
    /\ Sets([timersBuf EXCEPT ![i] = Unused])
    /\ Unmoved
    /\ UNCHANGED <<left, asked>>

-----------------------------------------------------------------------------
(* opentimers_timer_callback *)

Expires(i) == <<i, left[i], asked[i]>>

InhibitExpires ==
    /\ timersBuf[TIMER_INHIBIT].isrunning
    /\ timersBuf[TIMER_INHIBIT].currentCompareValue = currentCompareValue

\* The others are looked at after SPLITE_TIMER_DURATION ticks.
InhibitInterrupt ==
    /\ Pending /\ InhibitExpires
    /\ timersBuf' = [timersBuf EXCEPT ![TIMER_INHIBIT].isrunning = FALSE]
    /\ expired' = {Expires(TIMER_INHIBIT)}
    /\ sctimer_setCompare((counter + SPLITE) % (Turns * Clock), FALSE)
    /\ UNCHANGED <<currentCompareValue, lastCompareValue, counter, left, asked>>

\* Right after TIMER_INHIBIT the timers of the next slot are called early.
PreCalled(timers) ==
    [i \in Timer |->
        IF /\ timers[TIMER_INHIBIT].currentCompareValue = currentCompareValue
           /\ i \in General \cap Running(timers)
           /\ Gap(timers, i, currentCompareValue) < WINDOW
        THEN [timers[i] EXCEPT !.currentCompareValue = currentCompareValue]
        ELSE timers[i]]

\* A turn of a long timer is over.
NextTurn(entry) ==
    [entry EXCEPT !.wraps_remaining = @ - 1,
                  !.currentCompareValue =
                      Masked(@ + IF entry.wraps_remaining = 1 THEN entry.duration ELSE MAX_TICKS)]

\* It is the last one, or the rest of the timer is shorter than a slot.
IsOver(entry) ==
    \/ entry.wraps_remaining = 0
    \/ /\ entry.wraps_remaining = 1
       /\ Masked(NextTurn(entry).currentCompareValue - currentCompareValue) < WINDOW

\* The task is pushed; a periodic timer starts again, from now.
Expired(entry) ==
    IF entry.periodic THEN Scheduled(entry, entry.duration, counter, TRUE)
                      ELSE [entry EXCEPT !.isrunning = FALSE]

Matches(timers) ==
    {i \in Running(timers) : timers[i].currentCompareValue = currentCompareValue}

\* The callback of TIMER_TSCH arms it again, and TIMER_INHIBIT when a slot ends.
TschArms(matching) ==
    IF TIMER_TSCH \in matching
    THEN [{TIMER_TSCH} -> SlotDelay] \cup [{TIMER_TSCH, TIMER_INHIBIT} -> SlotDelay]
    ELSE [{} -> SlotDelay]

TimerInterrupt ==
    /\ Pending /\ ~InhibitExpires
    /\ LET before   == PreCalled(timersBuf)
           matching == Matches(before)
           over     == {i \in matching \cap General : IsOver(before[i])}
       IN  \E arms \in TschArms(matching) :
             LET after == [i \in Timer |->
                    CASE i \in DOMAIN arms -> Scheduled(before[i], arms[i], counter, FALSE)
                      [] i \in over        -> Expired(before[i])
                      [] i \in (matching \cap General) \ over -> NextTurn(before[i])
                      [] OTHER             -> before[i]]
             IN  /\ timersBuf' = after
                 /\ left' = [i \in Timer |->
                        CASE i \in DOMAIN arms -> arms[i]
                          [] i \in over        -> before[i].duration
                          [] OTHER             -> left[i]]
                 /\ asked' = [i \in Timer |->
                        IF i \in DOMAIN arms \cup over THEN AskedFor(left'[i]) ELSE asked[i]]
                 /\ expired' = {Expires(i) : i \in over \cup (matching \cap {TIMER_TSCH})}
                 /\ SelectNext(after, currentCompareValue, FALSE)
    /\ lastCompareValue' = currentCompareValue
    /\ UNCHANGED counter

-----------------------------------------------------------------------------
(* Time passes *)

\* The compare register matches; the interrupt is served within Latency ticks.
Tick ==
    /\ waiting < Latency
    /\ counter' = (counter + 1) % (Turns * Clock)
    /\ waiting' = IF Pending THEN waiting + 1
                  ELSE IF counter' = compareRegister THEN 0 ELSE -1
    /\ left' = [i \in Timer |-> IF timersBuf[i].isrunning THEN left[i] - 1 ELSE 0]
    /\ expired' = {}
    /\ UNCHANGED <<driver, compareRegister, asked>>

-----------------------------------------------------------------------------

RadioInterrupt == \E d \in SlotDelay : opentimers_scheduleAbsolute(TIMER_TSCH, d)

EndOfSlot == \E d \in SlotDelay : opentimers_scheduleAbsolute(TIMER_INHIBIT, d)

TaskCalls ==
    \/ opentimers_create
    \/ \E i \in General :
          \/ opentimers_cancel(i) \/ opentimers_destroy(i)
          \/ \E d \in Duration :
                \/ opentimers_updateDuration(i, d)
                \/ \E periodic \in BOOLEAN : opentimers_scheduleIn(i, d, periodic)

Next == TaskCalls \/ RadioInterrupt \/ EndOfSlot \/ InhibitInterrupt \/ TimerInterrupt \/ Tick

Spec == Init /\ [][Next]_vars

-----------------------------------------------------------------------------
(* Properties *)

\* What a board must satisfy for its timers to be in time.  The counter is as
\* wide as the compare values, and setting the register clears what pends; how
\* late a compare value may be is told from how soon it is; the MAC arms its
\* timers ahead of what the interrupt may be late, and the tasks ask for no less
\* than what the hardware needs.
Timely ==
    /\ Turns = 1 /\ ClearsPending
    /\ ADVANCE > 0 /\ WINDOW > 0
    /\ Horizon + Lateness < THRESHOLD
    /\ Horizon + ADVANCE + THRESHOLD <= Clock
    /\ \A d \in SlotDelay : ADVANCE <= d /\ d + Lateness <= Horizon
    /\ \A d \in Duration : ADVANCE <= d

\* A long timer may lose its first turn, when it is scheduled after the last
\* compare value was handled, or take one more, and is called early at each turn.
\* One whose duration is changed while it runs may lose its last turn as well.
TurnsOf(duration) == duration \div MAX_TICKS

Late(ask)  == Lateness + IF IsShort(ask.duration) THEN 0 ELSE Clock
Early(ask) == ADVANCE + WINDOW +
    IF IsShort(ask.duration) THEN 0
    ELSE MAX_TICKS + TurnsOf(ask.duration) * (WINDOW + 1) + IF ask.changed THEN MAX_TICKS ELSE 0

\* No timer is forgotten, whatever the calls and the interrupts between its start
\* and its end: it fires at most the waiting of the interrupt and the break after
\* TIMER_INHIBIT after the time it was started for (a long one, a turn more).
EveryTimerInTime ==
    \A i \in Running(timersBuf) : left[i] >= -Late(asked[i])

\* No timer fires before the time it was started for, except for the few ticks the
\* hardware needs, the calls of the tasks' timers ahead of a slot and, when it is
\* long, the turns named at Early.
NoTimerTooEarly ==
    \A e \in expired : e[2] < IF e[1] \in General THEN Early(e[3]) ELSE ADVANCE
=============================================================================
