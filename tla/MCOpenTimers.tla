---------------------------- MODULE MCOpenTimers ----------------------------
(* Timers of the MAC a few ticks ahead, and timers of a task that are much   *)
(* shorter than a turn of the counter, or longer than one.                   *)
EXTENDS OpenTimers
MCSlotDelay == {2, 3}
MCDuration  == {3, 40}

ASSUME TimelyAssumption == Timely

\* The clock has no origin: what counts is how far everything is from the
\* counter.  An entry that is not running is written before it is read again,
\* except for the compare value of TIMER_INHIBIT, and the duration of a one-shot
\* timer is not read after its last turn began.  What expired is only asked for once.
Distance(val) == Masked(val - counter)

Tolerance(ask) == <<Late(ask), Early(ask)>>

SeenFromNow ==
    <<[i \in Timer |->
         IF timersBuf[i].isrunning
         THEN <<Distance(timersBuf[i].currentCompareValue), timersBuf[i].wraps_remaining,
                timersBuf[i].periodic,
                IF timersBuf[i].periodic \/ timersBuf[i].wraps_remaining > 0
                THEN timersBuf[i].duration ELSE 0,
                left[i], Tolerance(asked[i])>>
         ELSE IF i = TIMER_INHIBIT THEN <<Distance(timersBuf[i].currentCompareValue)>>
         ELSE <<timersBuf[i].isUsed>>],
      Distance(currentCompareValue), Distance(lastCompareValue), Distance(compareRegister),
      waiting, NoTimerTooEarly>>
=============================================================================
