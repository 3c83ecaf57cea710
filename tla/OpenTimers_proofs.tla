-------------------------- MODULE OpenTimers_proofs --------------------------
(***************************************************************************)
(* The timers of the driver are in time for any number of timers, any width  *)
(* of the counter and any durations, on the boards of Timely.                *)
(***************************************************************************)
EXTENDS OpenTimers, TLAPS

(* Remainders *)

LEMMA ModRange ==
  ASSUME NEW z \in Int, NEW n \in Nat \ {0}
  PROVE  z % n \in 0..(n - 1)
  OBVIOUS

LEMMA ModUnique ==
  ASSUME NEW z \in Int, NEW n \in Nat \ {0}, NEW q \in Int, NEW r \in 0..(n - 1),
         z = q * n + r
  PROVE  z % n = r
  OBVIOUS

LEMMA DivMod ==
  ASSUME NEW z \in Int, NEW n \in Nat \ {0}
  PROVE  z \div n \in Int /\ z = (z \div n) * n + (z % n)
  OBVIOUS

LEMMA ModNear ==
  ASSUME NEW z \in Int, NEW n \in Nat \ {0}, -n <= z, z < 2 * n
  PROVE  z % n = IF z < 0 THEN z + n ELSE IF z < n THEN z ELSE z - n
  OBVIOUS

\* What is added to a remainder and taken away again.
LEMMA ModBack ==
  ASSUME NEW z \in Int, NEW y \in Int, NEW n \in Nat \ {0}
  PROVE  (((y + z) % n) - y) % n = z % n
<1>. DEFINE p == (y + z) \div n
            q == z \div n
<1>1. /\ p \in Int /\ y + z = p * n + ((y + z) % n)
      /\ q \in Int /\ z = q * n + (z % n)
  BY DivMod, y + z \in Int
<1>2. /\ z % n \in 0..(n - 1)
      /\ (y + z) % n \in 0..(n - 1)
  BY ModRange, y + z \in Int
<1>. HIDE DEF p, q
<1>. DEFINE w == ((y + z) % n) - y
<1>3. w = (q - p) * n + (z % n)
  BY <1>1, <1>2
<1>4. w \in Int /\ q - p \in Int
  BY <1>1, <1>2
<1>. HIDE DEF w
<1>5. w % n = z % n
  BY <1>2, <1>3, <1>4, ModUnique
<1>. QED BY <1>5 DEF w

-----------------------------------------------------------------------------
(* The clock *)

LEMMA ClockFacts == Clock \in Nat \ {0} /\ MAX_TICKS \in Nat \ {0} /\ Clock = MAX_TICKS + 1
  BY TicksAssumption DEF Clock

LEMMA MaskedRange ==
  ASSUME NEW z \in Int
  PROVE  Masked(z) \in 0..MAX_TICKS
  BY ModRange, ClockFacts DEF Masked

LEMMA MaskedNear ==
  ASSUME NEW z \in Int, -Clock <= z, z < 2 * Clock
  PROVE  Masked(z) = IF z < 0 THEN z + Clock ELSE IF z < Clock THEN z ELSE z - Clock
  BY ModNear, ClockFacts DEF Masked

LEMMA MaskedBack ==
  ASSUME NEW y \in Int, NEW z \in Int
  PROVE  Masked(Masked(y + z) - y) = Masked(z)
  BY ModBack, ClockFacts DEF Masked

-----------------------------------------------------------------------------
(* Dates as seen from the last compare value *)

\* The ticks since a reference, which may be a little ahead of the counter.
Since(n, reference) == Masked(n - reference + (ADVANCE - 1)) - (ADVANCE - 1)

\* The board's constants, as the lemmas use them.
LEMMA TimelyFacts ==
  ASSUME Timely
  PROVE  /\ {ADVANCE, Horizon, Lateness, THRESHOLD, Latency, SPLITE, WINDOW} \subseteq Nat
         /\ ADVANCE > 0 /\ WINDOW > 0
         /\ Lateness = 2 * Latency + SPLITE
         /\ Horizon + Lateness < THRESHOLD
         /\ Horizon + ADVANCE + THRESHOLD <= Clock
         /\ ADVANCE <= Horizon
         /\ Turns * Clock = Clock
         /\ ClearsPending
         /\ \A d \in SlotDelay : d \in Nat /\ ADVANCE <= d /\ d + Lateness <= Horizon
         /\ \A d \in Duration : d \in Nat /\ ADVANCE <= d
<1>1. /\ {ADVANCE, Horizon, Lateness, THRESHOLD, Latency, SPLITE, WINDOW} \subseteq Nat
      /\ Lateness = 2 * Latency + SPLITE
  BY DriverAssumption DEF Lateness
<1>2. \A d \in SlotDelay : d \in Nat /\ ADVANCE <= d /\ d + Lateness <= Horizon
  BY DelayAssumption, ClockFacts DEF Timely
<1>3. ADVANCE <= Horizon
  <2>1. PICK d \in SlotDelay : TRUE
    BY DelayAssumption
  <2>. QED BY <1>1, <1>2, <2>1
<1>4. Turns * Clock = Clock
  BY ClockFacts DEF Timely
<1>. QED BY <1>1, <1>2, <1>3, <1>4, DelayAssumption DEF Timely

LEMMA SinceType ==
  ASSUME Timely, NEW n \in 0..MAX_TICKS, NEW reference \in 0..MAX_TICKS
  PROVE  Since(n, reference) \in (1 - ADVANCE)..(MAX_TICKS + 1 - ADVANCE)
  BY MaskedRange, TimelyFacts, ClockFacts DEF Since

\* The dates that follow the new reference keep their order.
LEMMA Rebased ==
  ASSUME Timely, NEW n \in 0..MAX_TICKS,
         NEW reference \in 0..MAX_TICKS, NEW later \in 0..MAX_TICKS,
         Since(n, reference) <= Horizon + Lateness,
         Since(n, reference) - Masked(later - reference) > -ADVANCE
  PROVE  /\ Since(n, later) = Since(n, reference) - Masked(later - reference)
         /\ \A val \in 0..MAX_TICKS :
               Masked(later - reference) <= Masked(val - reference)
                  => Masked(val - later) = Masked(val - reference) - Masked(later - reference)
<1>1. Since(n, later) = Since(n, reference) - Masked(later - reference)
  BY MaskedNear, TimelyFacts, ClockFacts DEF Since
<1>2. ASSUME NEW val \in 0..MAX_TICKS,
             Masked(later - reference) <= Masked(val - reference)
      PROVE  Masked(val - later) = Masked(val - reference) - Masked(later - reference)
  BY <1>2, MaskedNear, TimelyFacts, ClockFacts
<1>. QED BY <1>1, <1>2

LEMMA OneTickLater ==
  ASSUME Timely, NEW n \in 0..MAX_TICKS, NEW reference \in 0..MAX_TICKS,
         Since(n, reference) <= Horizon + Lateness
  PROVE  /\ Since(Masked(n + 1), reference) = Since(n, reference) + 1
         /\ \A val \in 0..MAX_TICKS :
               /\ Masked(n + 1) = val <=> Masked(val - n) = 1
               /\ Masked(val - n) >= 1 => Masked(val - Masked(n + 1)) = Masked(val - n) - 1
<1>1. Since(Masked(n + 1), reference) = Since(n, reference) + 1
  BY MaskedNear, TimelyFacts, ClockFacts DEF Since
<1>2. ASSUME NEW val \in 0..MAX_TICKS
      PROVE  /\ Masked(n + 1) = val <=> Masked(val - n) = 1
             /\ Masked(val - n) >= 1 => Masked(val - Masked(n + 1)) = Masked(val - n) - 1
  BY MaskedNear, TimelyFacts, ClockFacts
<1>. QED BY <1>1, <1>2

\* A date ahead of now is on this turn of the clock, or seems to have passed.
LEMMA AheadOfNow ==
  ASSUME Timely, NEW n \in 0..MAX_TICKS, NEW reference \in 0..MAX_TICKS,
         NEW d \in ADVANCE..MAX_TICKS
  PROVE  Masked(Masked(n + d) - reference) =
            Since(n, reference) + d - IF Since(n, reference) + d <= MAX_TICKS THEN 0 ELSE Clock
  BY MaskedNear, TimelyFacts, ClockFacts DEF Since

\* The interrupt is raised at once exactly when the date is past or too soon.
LEMMA RaisedWhenDue ==
  ASSUME Timely, counter \in 0..MAX_TICKS,
         NEW reference \in 0..MAX_TICKS, NEW val \in 0..MAX_TICKS,
         Since(counter, reference) <= Horizon + Lateness,
         Masked(val - reference) <= Horizon
  PROVE  RaisedAtOnce(val) <=> Masked(val - reference) - Since(counter, reference) < ADVANCE
<1>1. RaisedAtOnce(val) <=> \/ Masked(counter - val) < THRESHOLD
                            \/ Masked(val - counter) < ADVANCE
  BY TimelyFacts DEF RaisedAtOnce, Masked
<1>. QED BY <1>1, MaskedNear, TimelyFacts, ClockFacts DEF Since
-----------------------------------------------------------------------------
(* Types *)

LEMMA HardwareClock ==
  /\ Turns * Clock \in Nat \ {0}
  /\ 0..MAX_TICKS \subseteq 0..(Turns * Clock - 1)
<1>. DEFINE W == Turns * Clock
<1>1. W \in Nat /\ W >= Clock
  BY ClockFacts, TicksAssumption
<1>. HIDE DEF W
<1>2. W \in Nat \ {0} /\ 0..MAX_TICKS \subseteq 0..(W - 1)
  BY <1>1, ClockFacts
<1>. QED BY <1>2 DEF W

LEMMA DurationTurns ==
  ASSUME NEW duration \in Nat
  PROVE  /\ duration \div MAX_TICKS \in Nat
         /\ (duration \div MAX_TICKS) * MAX_TICKS <= duration
         /\ duration - (duration \div MAX_TICKS) * Clock <= Masked(duration)
         /\ duration < MAX_TICKS <=> duration \div MAX_TICKS = 0
         /\ duration < (duration \div MAX_TICKS) * MAX_TICKS + MAX_TICKS
  BY ClockFacts DEF Masked

LEMMA ScheduledType ==
  ASSUME NEW entry \in Entry, NEW duration \in Nat, NEW reference \in Int,
         NEW periodic \in BOOLEAN
  PROVE  Scheduled(entry, duration, reference, periodic) \in Entry
<1>1. duration \div MAX_TICKS \in Nat
  BY DurationTurns
<1>2. Masked(reference + IF duration \div MAX_TICKS = 0 THEN duration ELSE MAX_TICKS)
         \in 0..MAX_TICKS
  BY MaskedRange, ClockFacts, <1>1
<1>. QED BY <1>1, <1>2 DEF Scheduled, Entry

LEMMA SetCompareType ==
  ASSUME NEW val \in 0..(Turns * Clock - 1), NEW pends \in BOOLEAN,
         waiting \in -1..Latency, compareRegister \in 0..(Turns * Clock - 1),
         sctimer_setCompare(val, pends)
  PROVE  waiting' \in -1..Latency /\ compareRegister' \in 0..(Turns * Clock - 1)
  BY DriverAssumption DEF sctimer_setCompare

LEMMA SelectNextType ==
  ASSUME TypeOK, NEW timers \in [Timer -> Entry], NEW reference, NEW pends \in BOOLEAN,
         SelectNext(timers, reference, pends)
  PROVE  /\ currentCompareValue' \in 0..MAX_TICKS
         /\ waiting' \in -1..Latency
         /\ compareRegister' \in 0..(Turns * Clock - 1)
<1>1. CASE Running(timers) = {}
  BY <1>1, DriverAssumption DEF SelectNext, TypeOK
<1>2. CASE Running(timers) # {}
  <2>1. PICK i \in Timer : /\ currentCompareValue' = timers[i].currentCompareValue
                           /\ sctimer_setCompare(timers[i].currentCompareValue, pends)
    BY <1>2 DEF SelectNext
  <2>2. timers[i].currentCompareValue \in 0..MAX_TICKS
    BY DEF Entry
  <2>. QED BY <2>1, <2>2, SetCompareType, HardwareClock DEF TypeOK
<1>. QED BY <1>1, <1>2

LEMMA SlotDelayType == SlotDelay \subseteq Nat
  BY DelayAssumption, ClockFacts

LEMMA UnusedType == Unused \in Entry
  BY ClockFacts DEF Unused, Entry

LEMMA MacTimers == TIMER_INHIBIT \in Timer /\ TIMER_TSCH \in Timer /\ General \subseteq Timer
  BY NumTimersAssumption DEF TIMER_INHIBIT, TIMER_TSCH, Timer, General

LEMMA AskedForType ==
  ASSUME NEW duration \in Nat
  PROVE  AskedFor(duration) \in Asked
  BY DEF AskedFor, Asked

LEMMA TypeInit ==
  Init => TypeOK
<1>. SUFFICES ASSUME Init PROVE TypeOK
  OBVIOUS
<1>. DEFINE created == [i \in Timer |-> [Unused EXCEPT !.isUsed = i \notin General]]
<1>1. created \in [Timer -> Entry]
  BY UnusedType DEF Entry
<1>2. PICK d \in SlotDelay : timersBuf = MacSchedules(created, TIMER_TSCH, d)
  BY DelayAssumption DEF Init
<1>3. timersBuf \in [Timer -> Entry]
  <2>1. Scheduled(created[TIMER_TSCH], d, counter, FALSE) \in Entry
    <3>1. counter \in Int /\ d \in Nat /\ created[TIMER_TSCH] \in Entry
      BY <1>1, SlotDelayType, MacTimers DEF Init
    <3>. HIDE DEF created
    <3>. QED BY <3>1, ScheduledType
  <2>. HIDE DEF created
  <2>. QED BY <1>1, <1>2, <2>1 DEF MacSchedules
<1>4. /\ currentCompareValue \in 0..MAX_TICKS
      /\ left \in [Timer -> Nat]
  BY <1>3, MacTimers DEF Init, Entry
<1>5. asked \in [Timer -> Asked]
  BY <1>4, AskedForType DEF Init
<1>6. /\ 0 \in 0..MAX_TICKS
      /\ waiting \in -1..Latency
      /\ expired \in SUBSET (Timer \X Int \X Asked)
  BY ClockFacts, DriverAssumption DEF Init
<1>7. lastCompareValue = 0 /\ counter = 0 /\ compareRegister = currentCompareValue
  BY DEF Init
<1>8. {counter, compareRegister} \subseteq 0..(Turns * Clock - 1)
  BY <1>4, <1>7, HardwareClock
<1>9. left \in [Timer -> Int]
  BY <1>4
<1>. QED BY <1>3, <1>4, <1>5, <1>6, <1>7, <1>8, <1>9 DEF TypeOK

LEMMA SetsType ==
  ASSUME TypeOK, NEW timers \in [Timer -> Entry], Sets(timers)
  PROVE  /\ timersBuf' \in [Timer -> Entry]
         /\ counter' \in 0..(Turns * Clock - 1)
         /\ expired' \in SUBSET (Timer \X Int \X Asked)
  BY DEF Sets, TypeOK

LEMMA AsksType ==
  ASSUME TypeOK, NEW i \in Timer, NEW duration \in Nat, Asks(i, duration)
  PROVE  left' \in [Timer -> Int] /\ asked' \in [Timer -> Asked]
  BY AskedForType DEF Asks, TypeOK

\* What the calls that do not look at the compare register leave.
LEMMA UnmovedType ==
  ASSUME TypeOK, NEW timers \in [Timer -> Entry], Sets(timers), Unmoved,
         UNCHANGED left, asked' \in [Timer -> Asked]
  PROVE  TypeOK'
  BY SetsType DEF Unmoved, TypeOK

\* And those that select the next timer.
LEMMA SelectedType ==
  ASSUME TypeOK, NEW timers \in [Timer -> Entry], NEW i \in Timer, NEW duration \in Nat,
         Sets(timers), Asks(i, duration), SelectNext(timers, lastCompareValue, Pending),
         UNCHANGED lastCompareValue
  PROVE  TypeOK'
<1>1. Pending \in BOOLEAN
  BY DEF Pending
<1>. QED BY <1>1, SetsType, AsksType, SelectNextType DEF TypeOK

LEMMA TaskCallsType ==
  ASSUME TypeOK, TaskCalls
  PROVE  TypeOK'
<1>1. CASE opentimers_create
  <2>1. PICK i \in General : /\ Sets([timersBuf EXCEPT ![i].isUsed = TRUE])
                             /\ Unmoved /\ UNCHANGED <<left, asked>>
    BY <1>1 DEF opentimers_create
  <2>2. [timersBuf EXCEPT ![i].isUsed = TRUE] \in [Timer -> Entry]
    BY DEF TypeOK, Entry
  <2>. QED BY <2>1, <2>2, UnmovedType DEF TypeOK
<1>2. ASSUME NEW i \in General, opentimers_cancel(i)
      PROVE  TypeOK'
  <2>1. [timersBuf EXCEPT ![i].isrunning = FALSE] \in [Timer -> Entry]
    BY DEF TypeOK, Entry
  <2>. QED BY <1>2, <2>1, UnmovedType DEF opentimers_cancel, TypeOK
<1>3. ASSUME NEW i \in General, opentimers_destroy(i)
      PROVE  TypeOK'
  <2>1. [timersBuf EXCEPT ![i] = Unused] \in [Timer -> Entry]
    BY UnusedType DEF TypeOK
  <2>. QED BY <1>3, <2>1, UnmovedType DEF opentimers_destroy, TypeOK
<1>4. ASSUME NEW i \in General, NEW d \in Duration, opentimers_updateDuration(i, d)
      PROVE  TypeOK'
  <2>1. [timersBuf EXCEPT ![i].duration = d] \in [Timer -> Entry]
    BY DelayAssumption DEF TypeOK, Entry
  <2>2. [asked EXCEPT ![i].changed = TRUE] \in [Timer -> Asked]
    BY DEF TypeOK, Asked
  <2>. QED BY <1>4, <2>1, <2>2, UnmovedType DEF opentimers_updateDuration
<1>5. ASSUME NEW i \in General, NEW d \in Duration, NEW periodic \in BOOLEAN,
             opentimers_scheduleIn(i, d, periodic)
      PROVE  TypeOK'
  <2>1. d \in Nat /\ i \in Timer /\ counter \in Int
    BY DelayAssumption, MacTimers DEF TypeOK
  <2>2. Scheduled(timersBuf[i], d, counter, periodic) \in Entry
    BY <2>1, ScheduledType DEF TypeOK
  <2>3. [timersBuf EXCEPT ![i] = Scheduled(@, d, counter, periodic)] \in [Timer -> Entry]
    BY <2>2 DEF TypeOK
  <2>. QED BY <1>5, <2>1, <2>3, SelectedType DEF opentimers_scheduleIn
<1>. QED BY <1>1, <1>2, <1>3, <1>4, <1>5 DEF TaskCalls

LEMMA MacCallsType ==
  ASSUME TypeOK, NEW i \in Timer, NEW d \in SlotDelay, opentimers_scheduleAbsolute(i, d)
  PROVE  TypeOK'
<1>1. d \in Nat /\ counter \in Int
  BY SlotDelayType DEF TypeOK
<1>2. Scheduled(timersBuf[i], d, counter, FALSE) \in Entry
  BY <1>1, ScheduledType DEF TypeOK
<1>3. MacSchedules(timersBuf, i, d) \in [Timer -> Entry]
  BY <1>2 DEF TypeOK, MacSchedules
<1>. QED BY <1>1, <1>3, SelectedType DEF opentimers_scheduleAbsolute

LEMMA InhibitInterruptType ==
  ASSUME TypeOK, InhibitInterrupt
  PROVE  TypeOK'
<1>1. timersBuf' \in [Timer -> Entry]
  BY MacTimers DEF InhibitInterrupt, TypeOK, Entry
<1>4. expired' \in SUBSET (Timer \X Int \X Asked)
  <2>1. left[TIMER_INHIBIT] \in Int /\ asked[TIMER_INHIBIT] \in Asked
    BY MacTimers DEF TypeOK
  <2>. QED BY <2>1, MacTimers DEF InhibitInterrupt, Expires
<1>2. (counter + SPLITE) % (Turns * Clock) \in 0..(Turns * Clock - 1)
  <2>1. counter + SPLITE \in Int
    BY DriverAssumption DEF TypeOK
  <2>. QED BY <2>1, ModRange, HardwareClock
<1>3. waiting' \in -1..Latency /\ compareRegister' \in 0..(Turns * Clock - 1)
  BY <1>2, SetCompareType DEF InhibitInterrupt, TypeOK
<1>. QED BY <1>1, <1>3, <1>4 DEF InhibitInterrupt, TypeOK

LEMMA TickType ==
  ASSUME TypeOK, Tick
  PROVE  TypeOK'
<1>1. counter' \in 0..(Turns * Clock - 1)
  <2>1. counter + 1 \in Int
    BY DEF TypeOK
  <2>. QED BY <2>1, ModRange, HardwareClock DEF Tick
<1>2. waiting' \in -1..Latency
  BY DriverAssumption DEF Tick, TypeOK, Pending
<1>3. left' \in [Timer -> Int]
  BY DEF Tick, TypeOK
<1>. QED BY <1>1, <1>2, <1>3 DEF Tick, TypeOK, driver

\* What the callback of TIMER_TSCH may arm.
LEMMA ArmsFacts ==
  ASSUME NEW matching \in SUBSET Timer, NEW arms \in TschArms(matching)
  PROVE  /\ DOMAIN arms \subseteq Timer \ General
         /\ \A i \in DOMAIN arms : arms[i] \in SlotDelay
         /\ IF TIMER_TSCH \in matching THEN TIMER_TSCH \in DOMAIN arms ELSE DOMAIN arms = {}
<1>1. {TIMER_TSCH, TIMER_INHIBIT} \subseteq Timer \ General
  BY MacTimers DEF TIMER_TSCH, TIMER_INHIBIT, General
<1>. QED BY <1>1 DEF TschArms

LEMMA PreCalledType ==
  ASSUME TypeOK
  PROVE  PreCalled(timersBuf) \in [Timer -> Entry]
  BY DEF TypeOK, PreCalled, Entry

LEMMA NextTurnType ==
  ASSUME NEW entry \in Entry, entry.wraps_remaining # 0
  PROVE  NextTurn(entry) \in Entry
<1>1. entry.currentCompareValue + (IF entry.wraps_remaining = 1 THEN entry.duration ELSE MAX_TICKS)
         \in Int
  BY ClockFacts DEF Entry
<1>2. Masked(entry.currentCompareValue
             + IF entry.wraps_remaining = 1 THEN entry.duration ELSE MAX_TICKS) \in 0..MAX_TICKS
  BY <1>1, MaskedRange
<1>3. entry.wraps_remaining - 1 \in Nat
  BY DEF Entry
<1>. QED BY <1>2, <1>3 DEF NextTurn, Entry

LEMMA ExpiredType ==
  ASSUME TypeOK, NEW entry \in Entry
  PROVE  Expired(entry) \in Entry
<1>1. CASE entry.periodic
  <2>1. entry.duration \in Nat /\ counter \in Int
    BY DEF Entry, TypeOK
  <2>. QED BY <1>1, <2>1, ScheduledType DEF Expired
<1>2. CASE ~entry.periodic
  BY <1>2 DEF Expired, Entry
<1>. QED BY <1>1, <1>2

\* What becomes of a timer in the course of the callback.
AfterTurn(before, arms, over, turning, i) ==
    CASE i \in DOMAIN arms -> Scheduled(before[i], arms[i], counter, FALSE)
      [] i \in over        -> Expired(before[i])
      [] i \in turning     -> NextTurn(before[i])
      [] OTHER             -> before[i]

LeftAfter(before, arms, over, i) ==
    CASE i \in DOMAIN arms -> arms[i]
      [] i \in over        -> before[i].duration
      [] OTHER             -> left[i]

AskedAfter(arms, over, i) ==
    IF i \in DOMAIN arms \cup over THEN AskedFor(left'[i]) ELSE asked[i]

\* One interrupt: the entries after the early calls, those that match, those of
\* the tasks that are over and that are not, and what the MAC arms.
Interrupts(before, matching, over, turning, arms) ==
    /\ before = PreCalled(timersBuf)
    /\ matching = Matches(before)
    /\ over = {i \in matching \cap General : IsOver(before[i])}
    /\ turning = (matching \cap General) \ over
    /\ arms \in TschArms(matching)
    /\ timersBuf' = [i \in Timer |-> AfterTurn(before, arms, over, turning, i)]
    /\ left' = [i \in Timer |-> LeftAfter(before, arms, over, i)]
    /\ asked' = [i \in Timer |-> AskedAfter(arms, over, i)]
    /\ expired' = {Expires(i) : i \in over \cup (matching \cap {TIMER_TSCH})}
    /\ SelectNext([i \in Timer |-> AfterTurn(before, arms, over, turning, i)],
                  currentCompareValue, FALSE)

LEMMA InterruptSteps ==
  ASSUME TimerInterrupt
  PROVE  \E before, matching, over, turning, arms :
            Interrupts(before, matching, over, turning, arms)
<1>. DEFINE before   == PreCalled(timersBuf)
            matching == Matches(before)
            over     == {i \in matching \cap General : IsOver(before[i])}
            turning  == (matching \cap General) \ over
<1>1. \E arms \in TschArms(matching) :
            /\ timersBuf' = [i \in Timer |-> AfterTurn(before, arms, over, turning, i)]
            /\ left' = [i \in Timer |-> LeftAfter(before, arms, over, i)]
            /\ asked' = [i \in Timer |-> AskedAfter(arms, over, i)]
            /\ expired' = {Expires(i) : i \in over \cup (matching \cap {TIMER_TSCH})}
            /\ SelectNext([i \in Timer |-> AfterTurn(before, arms, over, turning, i)],
                          currentCompareValue, FALSE)
  BY DEF TimerInterrupt, AfterTurn, LeftAfter, AskedAfter
<1>2. \E arms : Interrupts(before, matching, over, turning, arms)
  BY <1>1 DEF Interrupts
<1>. HIDE DEF before, matching, over, turning
<1>. QED BY <1>2

LEMMA InterruptTypes ==
  ASSUME TypeOK, NEW before, NEW matching, NEW over, NEW turning, NEW arms,
         Interrupts(before, matching, over, turning, arms)
  PROVE  /\ before \in [Timer -> Entry]
         /\ matching \in SUBSET Timer
         /\ DOMAIN arms \subseteq Timer \ General
         /\ \A i \in DOMAIN arms : arms[i] \in SlotDelay
         /\ IF TIMER_TSCH \in matching THEN TIMER_TSCH \in DOMAIN arms ELSE DOMAIN arms = {}
         /\ (DOMAIN arms) \cap over = {}
         /\ (DOMAIN arms) \cap turning = {}
         /\ over \cap turning = {}
<1>1. before \in [Timer -> Entry]
  BY PreCalledType DEF Interrupts
<1>2. matching \in SUBSET Timer
  BY DEF Interrupts, Matches, Running
<1>. QED BY <1>1, <1>2, ArmsFacts DEF Interrupts

LEMMA TimerInterruptType ==
  ASSUME TypeOK, TimerInterrupt
  PROVE  TypeOK'
<1>1. PICK before, matching, over, turning, arms :
              Interrupts(before, matching, over, turning, arms)
  BY InterruptSteps
<1>0. /\ before \in [Timer -> Entry]
      /\ (DOMAIN arms) \cap over = {}
      /\ (DOMAIN arms) \cap turning = {}
      /\ over \cap turning = {}
  BY <1>1, InterruptTypes
<1>8. \A i \in DOMAIN arms : arms[i] \in Nat
  <2>. SUFFICES ASSUME NEW i \in DOMAIN arms PROVE arms[i] \in Nat
    OBVIOUS
  <2>1. arms[i] \in SlotDelay
    BY <1>1, InterruptTypes
  <2>. QED BY <2>1, SlotDelayType
<1>2. \A i \in Timer : AfterTurn(before, arms, over, turning, i) \in Entry
  <2>. SUFFICES ASSUME NEW i \in Timer
                PROVE  AfterTurn(before, arms, over, turning, i) \in Entry
    OBVIOUS
  <2>1. CASE i \in DOMAIN arms
    <3>1. arms[i] \in Nat /\ counter \in Int /\ before[i] \in Entry
      BY <1>0, <1>8, <2>1 DEF TypeOK
    <3>2. Scheduled(before[i], arms[i], counter, FALSE) \in Entry
      BY <3>1, ScheduledType
    <3>. QED BY <1>0, <2>1, <3>2 DEF AfterTurn
  <2>2. CASE i \notin DOMAIN arms /\ i \in over
    BY <1>0, <2>2, ExpiredType DEF AfterTurn
  <2>3. CASE i \notin DOMAIN arms /\ i \notin over /\ i \in turning
    <3>1. before[i].wraps_remaining # 0
      BY <1>1, <2>3 DEF Interrupts, IsOver
    <3>. QED BY <1>0, <2>3, <3>1, NextTurnType DEF AfterTurn
  <2>4. CASE i \notin DOMAIN arms /\ i \notin over /\ i \notin turning
    BY <1>0, <2>4 DEF AfterTurn
  <2>. QED BY <2>1, <2>2, <2>3, <2>4
<1>3. \A i \in Timer : LeftAfter(before, arms, over, i) \in Int
  <2>. SUFFICES ASSUME NEW i \in Timer
                PROVE  LeftAfter(before, arms, over, i) \in Int
    OBVIOUS
  <2>1. CASE i \in DOMAIN arms
    BY <1>0, <1>8, <2>1 DEF LeftAfter
  <2>2. CASE i \notin DOMAIN arms
    <3>1. before[i].duration \in Nat /\ left[i] \in Int
      BY <1>0 DEF Entry, TypeOK
    <3>. QED BY <2>2, <3>1 DEF LeftAfter
  <2>. QED BY <2>1, <2>2
<1>4. expired' \in SUBSET (Timer \X Int \X Asked)
  BY <1>1 DEF TypeOK, Interrupts, Matches, Running, Expires
<1>9. \A i \in Timer : AskedAfter(arms, over, i) \in Asked
  <2>. SUFFICES ASSUME NEW i \in Timer
                PROVE  AskedAfter(arms, over, i) \in Asked
    OBVIOUS
  <2>0. left'[i] = LeftAfter(before, arms, over, i)
    BY <1>1 DEF Interrupts
  <2>1. CASE i \in DOMAIN arms \cup over
    <3>1. left'[i] \in Nat
      <4>1. before[i].duration \in Nat
        BY <1>0 DEF Entry
      <4>. QED BY <1>0, <1>8, <2>0, <2>1, <4>1 DEF LeftAfter
    <3>. QED BY <2>1, <3>1, AskedForType DEF AskedAfter
  <2>2. CASE i \notin DOMAIN arms \cup over
    BY <2>2 DEF AskedAfter, TypeOK
  <2>. QED BY <2>1, <2>2
<1>5. [i \in Timer |-> AfterTurn(before, arms, over, turning, i)] \in [Timer -> Entry]
  BY <1>2
<1>6. /\ currentCompareValue' \in 0..MAX_TICKS
      /\ waiting' \in -1..Latency
      /\ compareRegister' \in 0..(Turns * Clock - 1)
  BY <1>1, <1>5, SelectNextType DEF Interrupts
<1>7. UNCHANGED counter /\ lastCompareValue' = currentCompareValue
  BY DEF TimerInterrupt
<1>. QED BY <1>1, <1>2, <1>3, <1>4, <1>6, <1>7, <1>9 DEF TypeOK, Interrupts

LEMMA TypeNext ==
  TypeOK /\ [Next]_vars => TypeOK'
<1>. SUFFICES ASSUME TypeOK, [Next]_vars PROVE TypeOK'
  OBVIOUS
<1>1. CASE UNCHANGED vars
  BY <1>1 DEF vars, driver, hardware, ghosts, TypeOK
<1>2. CASE RadioInterrupt \/ EndOfSlot
  BY <1>2, MacCallsType, MacTimers DEF RadioInterrupt, EndOfSlot
<1>. QED BY <1>1, <1>2, TaskCallsType, InhibitInterruptType, TimerInterruptType, TickType DEF Next

\* The entries stay entries, and the compare values within a turn of the clock.
THEOREM OpenTimersTypeOK == Spec => []TypeOK
  BY TypeInit, TypeNext, PTL DEF Spec

-----------------------------------------------------------------------------
(* The invariant *)

\* The ticks to the compare value of a timer.
Ahead(entry, n, reference) ==
    Masked(entry.currentCompareValue - reference) - Since(n, reference)

\* And from there to the end of its last turn, which may be of any duration once
\* the timer's is changed.
LastTurn(entry, ask) == IF ask.changed THEN 0 ELSE Masked(entry.duration)

Rest(entry, ask) ==
    IF entry.wraps_remaining = 0 THEN 0
    ELSE (entry.wraps_remaining - 1) * MAX_TICKS + LastTurn(entry, ask)

\* How early the turns so far, and the last one, may have been.
Slack(entry, ask) ==
    LET turns == TurnsOf(ask.duration)
    IN  Clock + turns + (turns - entry.wraps_remaining) * WINDOW
           + IF ask.changed THEN MAX_TICKS ELSE 0

\* The compare value of a timer agrees with what is left of it: exactly when it
\* was started for a short time; for a long one, within the turns it may have
\* lost or gained.
Agrees(i, entry, ask, ticks, n, reference) ==
    IF i \notin General
    THEN /\ entry.wraps_remaining = 0
         /\ Masked(entry.currentCompareValue - reference) <= Horizon
         /\ ticks = Ahead(entry, n, reference)
    ELSE /\ entry.duration >= ADVANCE
         /\ IF IsShort(ask.duration)
            THEN /\ entry.wraps_remaining = 0
                 /\ ticks = Ahead(entry, n, reference)
            ELSE /\ entry.wraps_remaining <= TurnsOf(ask.duration)
                 /\ ticks >= Ahead(entry, n, reference)
                               + entry.wraps_remaining * MAX_TICKS - Clock
                 /\ ticks <= Ahead(entry, n, reference) + Rest(entry, ask) + Slack(entry, ask)

TimersAgree ==
    /\ timersBuf[TIMER_TSCH].isrunning
    /\ \A i \in Running(timersBuf) :
          Agrees(i, timersBuf[i], asked[i], left[i], counter, lastCompareValue)

\* No running timer comes before the compare value.
FirstSelected ==
    \A i \in Running(timersBuf) :
        Masked(currentCompareValue - lastCompareValue)
           <= Masked(timersBuf[i].currentCompareValue - lastCompareValue)

\* The ticks since the compare value.
Overdue == Since(counter, lastCompareValue) - Masked(currentCompareValue - lastCompareValue)

\* While the interrupt waits no timer is later than its waiting and the break
\* after TIMER_INHIBIT; one that seems to have passed is handled before the next tick.
PendingInTime ==
    Pending => /\ Overdue > -ADVANCE
               /\ \A i \in Running(timersBuf) :
                     \/ Ahead(timersBuf[i], counter, lastCompareValue)
                           >= -(waiting + Latency + SPLITE)
                     \/ waiting = Latency /\ left[i] >= 0
               /\ timersBuf[TIMER_INHIBIT].isrunning => left[TIMER_INHIBIT] >= -waiting

\* The compare register holds the compare value, which is to come, or the end
\* of the break.
RegisterToCome ==
    ~Pending => \/ compareRegister = currentCompareValue /\ Overdue < 0
                \/ /\ ~timersBuf[TIMER_INHIBIT].isrunning
                   /\ Overdue > -ADVANCE
                   /\ Masked(compareRegister - counter) >= 1
                   /\ Overdue + Masked(compareRegister - counter) <= Latency + SPLITE

Inv == TypeOK /\ TimersAgree /\ FirstSelected /\ PendingInTime /\ RegisterToCome
-----------------------------------------------------------------------------

\* What the proofs of the steps use of the invariant.
LEMMA InvFacts ==
  ASSUME Timely, Inv
  PROVE  /\ counter \in 0..MAX_TICKS
         /\ compareRegister \in 0..MAX_TICKS
         /\ Since(counter, lastCompareValue) \in Int
         /\ Since(counter, lastCompareValue) > -ADVANCE
         /\ Since(counter, lastCompareValue) <= Horizon + Lateness
         /\ Masked(currentCompareValue - lastCompareValue) \in 0..Horizon
         /\ \A i \in Running(timersBuf) :
               \/ Ahead(timersBuf[i], counter, lastCompareValue) >= -Lateness
               \/ left[i] >= 0
         /\ timersBuf[TIMER_INHIBIT].isrunning => left[TIMER_INHIBIT] >= -Latency
<1>. DEFINE e == Since(counter, lastCompareValue)
            gap(i) == Masked(timersBuf[i].currentCompareValue - lastCompareValue)
            now == Masked(currentCompareValue - lastCompareValue)
<1>1. counter \in 0..MAX_TICKS /\ compareRegister \in 0..MAX_TICKS
  BY TimelyFacts, ClockFacts DEF Inv, TypeOK
<1>2. lastCompareValue \in 0..MAX_TICKS /\ currentCompareValue \in 0..MAX_TICKS
  BY DEF Inv, TypeOK
<1>3. e \in Int /\ e > -ADVANCE
  BY <1>1, <1>2, SinceType, TimelyFacts, ClockFacts
<1>4. \A i \in Timer : gap(i) \in 0..MAX_TICKS
  <2>. SUFFICES ASSUME NEW i \in Timer PROVE gap(i) \in 0..MAX_TICKS
    OBVIOUS
  <2>1. timersBuf[i].currentCompareValue - lastCompareValue \in Int
    BY <1>2 DEF Inv, TypeOK, Entry
  <2>. QED BY <2>1, MaskedRange
<1>5. now \in 0..MAX_TICKS
  BY <1>2, MaskedRange
<1>6. /\ waiting \in -1..Latency
      /\ Overdue = e - now
      /\ \A i \in Running(timersBuf) :
            /\ i \in Timer
            /\ Ahead(timersBuf[i], counter, lastCompareValue) = gap(i) - e
            /\ now <= gap(i)
            /\ left[i] \in Int
  BY DEF Inv, TypeOK, Overdue, Ahead, FirstSelected, Running
<1>7. TIMER_TSCH \in Running(timersBuf) /\ gap(TIMER_TSCH) <= Horizon
      /\ left[TIMER_TSCH] = gap(TIMER_TSCH) - e
  <2>1. TIMER_TSCH \in Running(timersBuf) /\ TIMER_TSCH \notin General
    BY MacTimers DEF Inv, TimersAgree, Running, TIMER_TSCH, General
  <2>2. Agrees(TIMER_TSCH, timersBuf[TIMER_TSCH], asked[TIMER_TSCH], left[TIMER_TSCH],
              counter, lastCompareValue)
    BY <2>1 DEF Inv, TimersAgree
  <2>. QED BY <2>1, <2>2 DEF Agrees, Ahead
<1>8. TIMER_INHIBIT \in Running(timersBuf)
         => left[TIMER_INHIBIT] = gap(TIMER_INHIBIT) - e
  <2>1. TIMER_INHIBIT \notin General
    BY DEF TIMER_INHIBIT, General
  <2>. QED BY <2>1 DEF Inv, TimersAgree, Agrees, Ahead
<1>9. timersBuf[TIMER_INHIBIT].isrunning <=> TIMER_INHIBIT \in Running(timersBuf)
  BY MacTimers DEF Running
<1>. HIDE DEF e, gap, now
<1>10. /\ \A i \in Running(timersBuf) : gap(i) - e >= -Lateness \/ left[i] >= 0
       /\ TIMER_INHIBIT \in Running(timersBuf) => left[TIMER_INHIBIT] >= -Latency
  <2>1. CASE Pending
    BY <2>1, <1>3, <1>4, <1>6, <1>9, TimelyFacts DEF Inv, PendingInTime, Pending
  <2>2. CASE ~Pending
    <3>1. e - now <= Latency + SPLITE
          /\ (TIMER_INHIBIT \in Running(timersBuf) => e - now < 0)
      <4>1. Masked(compareRegister - counter) \in Int
        BY <1>1, MaskedRange
      <4>. QED BY <2>2, <4>1, <1>1, <1>3, <1>5, <1>6, <1>9, TimelyFacts
               DEF Inv, RegisterToCome
    <3>. QED BY <3>1, <1>3, <1>4, <1>5, <1>6, <1>8, TimelyFacts
  <2>. QED BY <2>1, <2>2
<1>11. now <= Horizon /\ e <= Horizon + Lateness
  BY <1>3, <1>4, <1>5, <1>6, <1>7, <1>10, TimelyFacts
<1>. QED BY <1>1, <1>3, <1>5, <1>6, <1>9, <1>10, <1>11 DEF e, gap, now

\* The next timer is selected among timers that agree with what is left of them.
LEMMA SelectedHolds ==
  ASSUME Timely, TypeOK, TypeOK',
         NEW timers \in [Timer -> Entry], NEW reference \in 0..MAX_TICKS, NEW pends \in BOOLEAN,
         UNCHANGED counter, timersBuf' = timers, lastCompareValue' = reference,
         SelectNext(timers, reference, pends),
         Since(counter, reference) <= Horizon + Lateness,
         timers[TIMER_TSCH].isrunning,
         \A i \in Running(timers) :
            /\ Agrees(i, timers[i], asked'[i], left'[i], counter, reference)
            /\ Ahead(timers[i], counter, reference) >= -Lateness \/ left'[i] >= 0,
         timers[TIMER_INHIBIT].isrunning => left'[TIMER_INHIBIT] >= -Latency
  PROVE  Inv'
<1>. DEFINE e == Since(counter, reference)
            gap(i) == Masked(timers[i].currentCompareValue - reference)
<1>1. TIMER_TSCH \in Running(timers) /\ TIMER_TSCH \notin General
  BY MacTimers DEF Running, TIMER_TSCH, General
<1>2. PICK next \in Timer : /\ IsNext(timers, next, reference)
                            /\ currentCompareValue' = timers[next].currentCompareValue
                            /\ sctimer_setCompare(timers[next].currentCompareValue, pends)
  BY <1>1 DEF SelectNext
<1>3. /\ counter \in 0..MAX_TICKS
      /\ waiting \in -1..Latency /\ waiting' \in -1..Latency
      /\ timers[next].currentCompareValue \in 0..MAX_TICKS
      /\ ClearsPending
  BY TimelyFacts, ClockFacts DEF TypeOK, Entry
<1>4. e \in Int /\ e > -ADVANCE
  BY <1>3, SinceType, TimelyFacts, ClockFacts
<1>5. \A i \in Timer : gap(i) \in 0..MAX_TICKS
  <2>. SUFFICES ASSUME NEW i \in Timer PROVE gap(i) \in 0..MAX_TICKS
    OBVIOUS
  <2>1. timers[i].currentCompareValue - reference \in Int
    BY DEF Entry
  <2>. QED BY <2>1, MaskedRange
<1>6. \A i \in Running(timers) : gap(next) <= gap(i)
  BY <1>2, <1>5 DEF IsNext, Gap, Running
<1>7. gap(TIMER_TSCH) <= Horizon
  BY <1>1 DEF Agrees
<1>8. gap(next) <= Horizon
  BY <1>1, <1>5, <1>6, <1>7, TimelyFacts DEF Running
<1>9. RaisedAtOnce(timers[next].currentCompareValue) <=> gap(next) - e < ADVANCE
  BY <1>3, <1>8, RaisedWhenDue
<1>10. /\ Overdue' = e - gap(next)
       /\ \A i \in Running(timers) : /\ Ahead(timers[i], counter, reference) = gap(i) - e
                                     /\ i \in Timer
                                     /\ left'[i] \in Int
  BY <1>2 DEF Overdue, Ahead, Running, TypeOK
<1>11. TimersAgree' /\ FirstSelected'
  BY <1>1, <1>2, <1>6 DEF TimersAgree, FirstSelected, Running
<1>12. /\ timers[TIMER_INHIBIT].isrunning <=> TIMER_INHIBIT \in Running(timers)
       /\ TIMER_INHIBIT \in Running(timers) => left'[TIMER_INHIBIT] \in Int
  BY MacTimers DEF Running, TypeOK
<1>13. CASE gap(next) - e < ADVANCE
  <2>1. waiting' = Latency
    BY <1>2, <1>9, <1>13 DEF sctimer_setCompare
  <2>2. e - gap(next) > -ADVANCE
    BY <1>4, <1>5, <1>13, TimelyFacts
  <2>3. Pending'
    BY <2>1, TimelyFacts DEF Pending
  <2>4. PendingInTime'
    <3>. HIDE DEF e, gap
    <3>. QED BY <1>10, <1>12, <2>1, <2>2, TimelyFacts DEF PendingInTime
  <2>. QED BY <1>11, <2>3, <2>4 DEF Inv, RegisterToCome
<1>14. CASE ~(gap(next) - e < ADVANCE)
  <2>1. waiting' = -1 /\ compareRegister' = timers[next].currentCompareValue
    BY <1>2, <1>3, <1>9, <1>14 DEF sctimer_setCompare
  <2>2. e - gap(next) < 0
    BY <1>4, <1>5, <1>14, TimelyFacts
  <2>3. ~Pending'
    BY <2>1 DEF Pending
  <2>. QED BY <1>2, <1>10, <1>11, <2>1, <2>2, <2>3 DEF Inv, PendingInTime, RegisterToCome
<1>. QED BY <1>13, <1>14

-----------------------------------------------------------------------------
(* What a timer that is armed agrees with *)

LEMMA ScheduledAhead ==
  ASSUME Timely, counter \in 0..MAX_TICKS, NEW reference \in 0..MAX_TICKS,
         NEW entry \in Entry, NEW duration \in Nat, ADVANCE <= duration, NEW periodic \in BOOLEAN
  PROVE  LET scheduled == Scheduled(entry, duration, counter, periodic)
             turns == duration \div MAX_TICKS
             first == IF turns = 0 THEN duration ELSE MAX_TICKS
             e == Since(counter, reference)
         IN  /\ scheduled.isrunning
             /\ scheduled.duration = duration
             /\ scheduled.wraps_remaining = turns
             /\ first \in ADVANCE..MAX_TICKS
             /\ Masked(scheduled.currentCompareValue - reference)
                   = e + first - IF e + first <= MAX_TICKS THEN 0 ELSE Clock
<1>. DEFINE turns == duration \div MAX_TICKS
            first == IF turns = 0 THEN duration ELSE MAX_TICKS
<1>1. first \in ADVANCE..MAX_TICKS
  <2>1. duration < MAX_TICKS <=> turns = 0
    BY DurationTurns
  <2>. QED BY <2>1, TimelyFacts, ClockFacts
<1>2. Masked(Masked(counter + first) - reference) =
         Since(counter, reference) + first
            - IF Since(counter, reference) + first <= MAX_TICKS THEN 0 ELSE Clock
  <2>. HIDE DEF first
  <2>. QED BY <1>1, AheadOfNow
<1>3. LET scheduled == Scheduled(entry, duration, counter, periodic)
      IN  /\ scheduled.isrunning
          /\ scheduled.duration = duration
          /\ scheduled.wraps_remaining = turns
          /\ scheduled.currentCompareValue = Masked(counter + first)
  BY DEF Scheduled, Entry
<1>. HIDE DEF turns, first
<1>. QED BY <1>1, <1>2, <1>3 DEF turns, first

LEMMA MacArmed ==
  ASSUME Timely, counter \in 0..MAX_TICKS, NEW reference \in 0..MAX_TICKS,
         NEW i \in Timer \ General, NEW entry \in Entry, NEW delay \in SlotDelay,
         Since(counter, reference) + delay <= Horizon
  PROVE  Agrees(i, Scheduled(entry, delay, counter, FALSE), AskedFor(delay), delay, counter, reference)
<1>1. delay \in Nat /\ ADVANCE <= delay /\ delay <= Horizon /\ Horizon < MAX_TICKS
  BY TimelyFacts, ClockFacts
<1>2. delay \div MAX_TICKS = 0
  <2>1. delay < MAX_TICKS
    BY <1>1, TimelyFacts, ClockFacts
  <2>. QED BY <1>1, <2>1, DurationTurns
<1>3. Since(counter, reference) \in Int
  BY SinceType
<1>. DEFINE scheduled == Scheduled(entry, delay, counter, FALSE)
<1>4. /\ scheduled.wraps_remaining = 0
      /\ Masked(scheduled.currentCompareValue - reference) =
            Since(counter, reference) + delay
               - IF Since(counter, reference) + delay <= MAX_TICKS THEN 0 ELSE Clock
  BY <1>1, <1>2, ScheduledAhead
<1>5. Since(counter, reference) + delay <= MAX_TICKS
  BY <1>1, <1>3, TimelyFacts, ClockFacts
<1>. HIDE DEF scheduled
<1>6. Masked(scheduled.currentCompareValue - reference) = Since(counter, reference) + delay
  BY <1>1, <1>3, <1>4, <1>5
<1>7. Ahead(scheduled, counter, reference) = delay
  BY <1>1, <1>3, <1>6 DEF Ahead
<1>. QED BY <1>4, <1>6, <1>7 DEF Agrees, scheduled

LEMMA ProductOfPredecessor ==
  ASSUME NEW a \in Int, NEW b \in Int
  PROVE  a * b \in Int /\ (a - 1) * b = a * b - b
  OBVIOUS

LEMMA TaskArmed ==
  ASSUME Timely, counter \in 0..MAX_TICKS, NEW reference \in 0..MAX_TICKS,
         Since(counter, reference) <= Horizon + Lateness,
         NEW i \in General, NEW entry \in Entry,
         NEW duration \in Nat, ADVANCE <= duration, NEW periodic \in BOOLEAN
  PROVE  Agrees(i, Scheduled(entry, duration, counter, periodic), AskedFor(duration), duration,
                counter, reference)
<1>. DEFINE scheduled == Scheduled(entry, duration, counter, periodic)
            ask == AskedFor(duration)
            turns == duration \div MAX_TICKS
            first == IF turns = 0 THEN duration ELSE MAX_TICKS
            e == Since(counter, reference)
<1>1. /\ scheduled.duration = duration
      /\ scheduled.wraps_remaining = turns
      /\ first \in ADVANCE..MAX_TICKS
      /\ Ahead(scheduled, counter, reference) =
            first - IF e + first <= MAX_TICKS THEN 0 ELSE Clock
  <2>1. e \in Int
    BY SinceType
  <2>2. /\ scheduled.duration = duration
        /\ scheduled.wraps_remaining = turns
        /\ first \in ADVANCE..MAX_TICKS
        /\ Masked(scheduled.currentCompareValue - reference)
              = e + first - IF e + first <= MAX_TICKS THEN 0 ELSE Clock
    BY ScheduledAhead
  <2>. HIDE DEF scheduled, turns, first, e
  <2>3. first \in Int
    BY <2>2, TimelyFacts, ClockFacts
  <2>. QED BY <2>1, <2>2, <2>3, ClockFacts DEF Ahead, e
<1>2. /\ turns \in Nat
      /\ turns * MAX_TICKS <= duration
      /\ duration - turns * Clock <= Masked(duration)
      /\ duration < MAX_TICKS <=> turns = 0
      /\ duration < turns * MAX_TICKS + MAX_TICKS
  BY DurationTurns
<1>3. Masked(duration) \in 0..MAX_TICKS
  BY MaskedRange
<1>0. ask.duration = duration /\ ~ask.changed
  BY DEF AskedFor
<1>4. e \in Int /\ e > -ADVANCE
  BY SinceType, TimelyFacts, ClockFacts
<1>5. /\ turns * MAX_TICKS \in Int
      /\ turns * Clock = turns * MAX_TICKS + turns
      /\ (turns - 1) * MAX_TICKS = turns * MAX_TICKS - MAX_TICKS
      /\ (turns - turns) * WINDOW = 0
  <2>. HIDE DEF turns
  <2>. QED BY <1>2, ProductOfPredecessor, ClockFacts, TimelyFacts
<1>6. CASE IsShort(duration)
  <2>1. duration < MAX_TICKS
    BY <1>6, TimelyFacts, ClockFacts DEF IsShort
  <2>2. turns = 0
    BY <1>2, <2>1
  <2>. HIDE DEF turns
  <2>3. first = duration
    BY <2>2
  <2>. HIDE DEF scheduled, first, e
  <2>4. e + first <= MAX_TICKS
    BY <1>4, <1>6, <2>3, TimelyFacts, ClockFacts DEF IsShort, e
  <2>5. Ahead(scheduled, counter, reference) = duration
    BY <1>1, <2>3, <2>4
  <2>. HIDE DEF ask
  <2>. QED BY <1>0, <1>1, <1>6, <2>2, <2>5 DEF Agrees, scheduled, ask
<1>7. CASE ~IsShort(duration)
  <2>1. /\ Rest(scheduled, ask) = IF turns = 0 THEN 0
                                  ELSE turns * MAX_TICKS - MAX_TICKS + Masked(duration)
        /\ Slack(scheduled, ask) = Clock + turns
        /\ TurnsOf(ask.duration) = turns
    <3>. HIDE DEF scheduled, ask
    <3>1. Rest(scheduled, ask) = IF turns = 0 THEN 0
                                 ELSE (turns - 1) * MAX_TICKS + Masked(duration)
      BY <1>0, <1>1 DEF Rest, LastTurn
    <3>2. TurnsOf(ask.duration) = turns
      BY <1>0 DEF TurnsOf
    <3>3. Slack(scheduled, ask) = Clock + turns + (turns - turns) * WINDOW + 0
      BY <1>0, <1>1, <3>2 DEF Slack
    <3>. HIDE DEF turns
    <3>. QED BY <1>2, <1>5, <3>1, <3>2, <3>3, ClockFacts
  <2>. HIDE DEF scheduled, ask, turns, e
  <2>2. /\ duration >= Ahead(scheduled, counter, reference) + turns * MAX_TICKS - Clock
        /\ duration <= Ahead(scheduled, counter, reference) + Rest(scheduled, ask)
                          + Slack(scheduled, ask)
    <3>1. CASE turns = 0
      BY <1>1, <1>2, <1>4, <2>1, <3>1, ClockFacts
    <3>2. CASE turns # 0
      BY <1>1, <1>2, <1>3, <1>4, <1>5, <2>1, <3>2, ClockFacts
    <3>. QED BY <3>1, <3>2
  <2>3. scheduled.wraps_remaining <= TurnsOf(ask.duration)
    BY <1>1, <1>2, <2>1
  <2>. QED BY <1>0, <1>1, <1>7, <2>2, <2>3 DEF Agrees, scheduled, ask
<1>. QED BY <1>6, <1>7

-----------------------------------------------------------------------------
(* The steps *)

LEMMA InitHolds ==
  Timely /\ Init => Inv
<1>. SUFFICES ASSUME Timely, Init PROVE Inv
  OBVIOUS
<1>. DEFINE created == [i \in Timer |-> [Unused EXCEPT !.isUsed = i \notin General]]
<1>0. TypeOK
  BY TypeInit
<1>1. PICK d \in SlotDelay : timersBuf = MacSchedules(created, TIMER_TSCH, d)
  BY DelayAssumption DEF Init
<1>2. /\ created \in [Timer -> Entry]
      /\ \A i \in Timer : ~created[i].isrunning
  BY UnusedType DEF Entry, Unused
<1>3. /\ counter = 0 /\ lastCompareValue = 0 /\ waiting = -1
      /\ 0 \in 0..MAX_TICKS
      /\ currentCompareValue = timersBuf[TIMER_TSCH].currentCompareValue
      /\ compareRegister = currentCompareValue
  BY ClockFacts DEF Init
<1>. DEFINE scheduled == Scheduled(created[TIMER_TSCH], d, counter, FALSE)
<1>4. /\ timersBuf[TIMER_TSCH] = scheduled
      /\ \A i \in Timer \ {TIMER_TSCH} : ~timersBuf[i].isrunning
  <2>. HIDE DEF created
  <2>. QED BY <1>1, <1>2, MacTimers DEF MacSchedules
<1>5. /\ scheduled.isrunning /\ scheduled.duration = d
      /\ created[TIMER_TSCH] \in Entry
  <2>. HIDE DEF created
  <2>. QED BY <1>2, MacTimers DEF Scheduled, Entry
<1>6. Since(counter, lastCompareValue) = 0
  BY <1>3, MaskedNear, TimelyFacts, ClockFacts DEF Since
<1>7. d \in Nat /\ ADVANCE <= d /\ d <= Horizon
  BY TimelyFacts
<1>8. TIMER_TSCH \in Timer \ General
  BY MacTimers DEF TIMER_TSCH, General
<1>9. Agrees(TIMER_TSCH, scheduled, AskedFor(d), d, counter, lastCompareValue)
  <2>1. Since(counter, lastCompareValue) + d <= Horizon
    BY <1>6, <1>7
  <2>2. counter \in 0..MAX_TICKS /\ lastCompareValue \in 0..MAX_TICKS
    BY <1>3
  <2>. HIDE DEF created
  <2>. QED BY <1>5, <1>8, <2>1, <2>2, MacArmed
<1>10. Running(timersBuf) = {TIMER_TSCH}
  <2>. HIDE DEF scheduled
  <2>. QED BY <1>4, <1>5, <1>8 DEF Running
<1>11. left[TIMER_TSCH] = d /\ asked[TIMER_TSCH] = AskedFor(d)
  <2>. HIDE DEF scheduled, created
  <2>. QED BY <1>4, <1>5, <1>8 DEF Init
<1>. HIDE DEF created, scheduled
<1>12. TimersAgree
  BY <1>4, <1>5, <1>9, <1>10, <1>11 DEF TimersAgree
<1>13. currentCompareValue - lastCompareValue \in Int
  BY <1>0 DEF TypeOK
<1>14. FirstSelected
  BY <1>3, <1>10, <1>13, MaskedRange DEF FirstSelected
<1>15. Overdue < 0
  BY <1>3, <1>4, <1>6, <1>7, <1>8, <1>9, <1>13, MaskedRange, TimelyFacts
     DEF Overdue, Agrees, Ahead
<1>. QED BY <1>0, <1>3, <1>12, <1>14, <1>15 DEF Inv, PendingInTime, RegisterToCome, Pending

LEMMA RunningFacts ==
  ASSUME Inv
  PROVE  /\ TIMER_TSCH \in Running(timersBuf)
         /\ Running(timersBuf) \subseteq Timer
         /\ timersBuf[TIMER_INHIBIT].isrunning <=> TIMER_INHIBIT \in Running(timersBuf)
         /\ TIMER_TSCH \notin General /\ TIMER_INHIBIT \notin General
  BY MacTimers DEF Inv, TimersAgree, Running, TIMER_TSCH, TIMER_INHIBIT, General

\* A call that stops timers, or changes nothing of those that run.
LEMMA UnmovedHolds ==
  ASSUME Inv, TypeOK', NEW timers, Sets(timers), Unmoved, UNCHANGED left,
         timers[TIMER_TSCH].isrunning,
         timers[TIMER_INHIBIT].isrunning => timersBuf[TIMER_INHIBIT].isrunning,
         \A i \in Running(timers) :
            /\ i \in Running(timersBuf)
            /\ timers[i].currentCompareValue = timersBuf[i].currentCompareValue
            /\ Agrees(i, timers[i], asked'[i], left[i], counter, lastCompareValue)
  PROVE  Inv'
<1>1. /\ timersBuf' = timers
      /\ UNCHANGED <<left, counter, currentCompareValue, lastCompareValue, compareRegister,
                     waiting>>
  BY DEF Sets, Unmoved
<1>2. TimersAgree' /\ FirstSelected'
  BY <1>1 DEF Inv, TimersAgree, FirstSelected
<1>3. Overdue' = Overdue /\ Pending' = Pending
  BY <1>1 DEF Overdue, Pending
<1>4. PendingInTime'
  BY <1>1, <1>3 DEF Inv, PendingInTime, Ahead
<1>5. RegisterToCome'
  BY <1>1, <1>3 DEF Inv, RegisterToCome
<1>. QED BY <1>2, <1>4, <1>5 DEF Inv

LEMMA TaskStops ==
  ASSUME Inv, TypeOK', NEW i \in General, opentimers_cancel(i) \/ opentimers_destroy(i)
  PROVE  Inv'
<1>1. PICK entry : /\ Sets([timersBuf EXCEPT ![i] = entry]) /\ Unmoved
                   /\ UNCHANGED <<left, asked>>
                   /\ ~entry.isrunning
  <2>1. CASE opentimers_cancel(i)
    <3>1. ~[timersBuf[i] EXCEPT !.isrunning = FALSE].isrunning
      BY MacTimers DEF Inv, TypeOK, Entry
    <3>2. [timersBuf EXCEPT ![i].isrunning = FALSE]
             = [timersBuf EXCEPT ![i] = [timersBuf[i] EXCEPT !.isrunning = FALSE]]
      OBVIOUS
    <3>. QED BY <2>1, <3>1, <3>2 DEF opentimers_cancel
  <2>2. CASE opentimers_destroy(i)
    <3>1. ~Unused.isrunning
      BY DEF Unused
    <3>. QED BY <2>2, <3>1 DEF opentimers_destroy
  <2>. QED BY <2>1, <2>2
<1>. DEFINE timers == [timersBuf EXCEPT ![i] = entry]
<1>2. \A j \in Timer \ {i} : timers[j] = timersBuf[j]
  BY DEF Inv, TypeOK
<1>3. timers[i] = entry
  BY MacTimers DEF Inv, TypeOK
<1>. HIDE DEF timers
<1>4. /\ timers[TIMER_TSCH].isrunning
      /\ timers[TIMER_INHIBIT].isrunning => timersBuf[TIMER_INHIBIT].isrunning
  BY <1>2, RunningFacts, MacTimers DEF Inv, TimersAgree
<1>5. \A j \in Running(timers) : j # i /\ j \in Running(timersBuf) /\ timers[j] = timersBuf[j]
  BY <1>1, <1>2, <1>3 DEF Running
<1>6. \A j \in Running(timers) :
            /\ j \in Running(timersBuf)
            /\ timers[j].currentCompareValue = timersBuf[j].currentCompareValue
            /\ Agrees(j, timers[j], asked'[j], left[j], counter, lastCompareValue)
  BY <1>1, <1>5 DEF Inv, TimersAgree
<1>7. Sets(timers) /\ Unmoved /\ UNCHANGED left
  BY <1>1 DEF timers
<1>. QED BY <1>4, <1>6, <1>7, UnmovedHolds

LEMMA TaskCreates ==
  ASSUME Inv, TypeOK', opentimers_create
  PROVE  Inv'
<1>1. PICK i \in General : /\ Sets([timersBuf EXCEPT ![i].isUsed = TRUE])
                           /\ Unmoved /\ UNCHANGED <<left, asked>>
  BY DEF opentimers_create
<1>. DEFINE timers == [timersBuf EXCEPT ![i].isUsed = TRUE]
<1>2. \A j \in Timer : /\ timers[j].isrunning = timersBuf[j].isrunning
                       /\ timers[j].currentCompareValue = timersBuf[j].currentCompareValue
                       /\ timers[j].wraps_remaining = timersBuf[j].wraps_remaining
                       /\ timers[j].duration = timersBuf[j].duration
  BY DEF Inv, TypeOK, Entry
<1>3. Sets(timers) /\ Unmoved /\ UNCHANGED <<left, asked>>
  BY <1>1
<1>. HIDE DEF timers
<1>4. Running(timers) = Running(timersBuf)
  BY <1>2 DEF Running
<1>5. \A j \in Running(timers) :
            Agrees(j, timers[j], asked'[j], left[j], counter, lastCompareValue)
  BY <1>2, <1>3, <1>4, RunningFacts
     DEF Inv, TimersAgree, Agrees, Ahead, Rest, LastTurn, Slack
<1>6. \A j \in Running(timers) :
            /\ j \in Running(timersBuf)
            /\ timers[j].currentCompareValue = timersBuf[j].currentCompareValue
  BY <1>2, <1>4, RunningFacts
<1>7. /\ timers[TIMER_TSCH].isrunning
      /\ timers[TIMER_INHIBIT].isrunning => timersBuf[TIMER_INHIBIT].isrunning
  BY <1>2, MacTimers DEF Inv, TimersAgree
<1>. QED BY <1>3, <1>5, <1>6, <1>7, UnmovedHolds

\* The time that is left was the old last turn's; it is now at most a turn away.
LEMMA ChangedAgrees ==
  ASSUME Timely, NEW i \in General, NEW entry \in Entry, NEW ask \in Asked, NEW ticks \in Int,
         counter \in 0..MAX_TICKS, NEW reference \in 0..MAX_TICKS,
         NEW d \in Nat, ADVANCE <= d,
         Agrees(i, entry, ask, ticks, counter, reference)
  PROVE  Agrees(i, [entry EXCEPT !.duration = d], [ask EXCEPT !.changed = TRUE], ticks, counter,
                reference)
<1>. DEFINE later == [entry EXCEPT !.duration = d]
            now == [ask EXCEPT !.changed = TRUE]
            k == entry.wraps_remaining
            turns == TurnsOf(ask.duration)
<1>1. /\ later.wraps_remaining = k /\ later.duration = d
      /\ later.currentCompareValue = entry.currentCompareValue
      /\ now.changed /\ now.duration = ask.duration
  BY DEF Entry, Asked
<1>. HIDE DEF later, now
<1>2. Ahead(later, counter, reference) = Ahead(entry, counter, reference)
  BY <1>1 DEF Ahead
<1>3. CASE IsShort(ask.duration)
  BY <1>1, <1>2, <1>3, TimelyFacts DEF Agrees, later, now
<1>4. CASE ~IsShort(ask.duration)
  <2>1. /\ ticks >= Ahead(entry, counter, reference) + k * MAX_TICKS - Clock
        /\ ticks <= Ahead(entry, counter, reference) + Rest(entry, ask) + Slack(entry, ask)
        /\ k <= turns
    BY <1>4 DEF Agrees
  <2>2. /\ Rest(later, now) = IF k = 0 THEN 0 ELSE (k - 1) * MAX_TICKS
        /\ Slack(later, now) = Clock + turns + (turns - k) * WINDOW + MAX_TICKS
    <3>1. (k - 1) * MAX_TICKS \in Int
      <4>1. k - 1 \in Int
        BY DEF Entry
      <4>. QED BY <4>1, ClockFacts
    <3>. QED BY <1>1, <3>1 DEF Rest, LastTurn, Slack
  <2>3. /\ Rest(entry, ask) = IF k = 0 THEN 0 ELSE (k - 1) * MAX_TICKS + LastTurn(entry, ask)
        /\ Slack(entry, ask) = Clock + turns + (turns - k) * WINDOW
                                  + IF ask.changed THEN MAX_TICKS ELSE 0
    BY DEF Rest, Slack
  <2>4. /\ LastTurn(entry, ask) \in 0..MAX_TICKS
        /\ ask.changed => LastTurn(entry, ask) = 0
    BY MaskedRange, ClockFacts DEF LastTurn, Entry
  <2>5. /\ (k - 1) * MAX_TICKS \in Int /\ (turns - k) * WINDOW \in Int /\ turns \in Nat
        /\ Ahead(entry, counter, reference) \in Int
    <3>1. k \in Nat /\ ask.duration \in Nat /\ entry.currentCompareValue - reference \in Int
      BY DEF Entry, Asked
    <3>2. turns \in Nat
      BY <3>1, DurationTurns DEF TurnsOf
    <3>3. Ahead(entry, counter, reference) \in Int
      <4>1. Masked(entry.currentCompareValue - reference) \in Int
        BY <3>1, MaskedRange
      <4>2. Since(counter, reference) \in Int
        BY SinceType
      <4>. QED BY <4>1, <4>2 DEF Ahead
    <3>. HIDE DEF k, turns
    <3>. QED BY <3>1, <3>2, <3>3, ClockFacts, TimelyFacts
  <2>. HIDE DEF k, turns
  <2>6. ticks <= Ahead(later, counter, reference) + Rest(later, now) + Slack(later, now)
    BY <1>2, <2>1, <2>2, <2>3, <2>4, <2>5, ClockFacts
  <2>. QED BY <1>1, <1>2, <1>4, <2>1, <2>6, TimelyFacts DEF Agrees, later, now, k, turns
<1>. QED BY <1>3, <1>4

LEMMA TaskUpdates ==
  ASSUME Timely, Inv, TypeOK', NEW i \in General, NEW d \in Duration,
         opentimers_updateDuration(i, d)
  PROVE  Inv'
<1>. DEFINE timers == [timersBuf EXCEPT ![i].duration = d]
<1>1. /\ Sets(timers) /\ Unmoved /\ UNCHANGED left
      /\ asked' = [asked EXCEPT ![i].changed = TRUE]
  BY DEF opentimers_updateDuration
<1>2. \A j \in Timer :
         /\ timers[j].isrunning = timersBuf[j].isrunning
         /\ timers[j].currentCompareValue = timersBuf[j].currentCompareValue
         /\ timers[j] = IF j = i THEN [timersBuf[j] EXCEPT !.duration = d] ELSE timersBuf[j]
         /\ asked'[j] = IF j = i THEN [asked[j] EXCEPT !.changed = TRUE] ELSE asked[j]
  BY <1>1 DEF Inv, TypeOK, Entry
<1>. HIDE DEF timers
<1>3. Running(timers) = Running(timersBuf)
  BY <1>2 DEF Running
<1>4. ADVANCE <= d /\ d \in Nat
  BY TimelyFacts
<1>5. \A j \in Running(timers) :
            Agrees(j, timers[j], asked'[j], left[j], counter, lastCompareValue)
  <2>. SUFFICES ASSUME NEW j \in Running(timersBuf)
                PROVE  Agrees(j, timers[j], asked'[j], left[j], counter, lastCompareValue)
    BY <1>3
  <2>1. /\ Agrees(j, timersBuf[j], asked[j], left[j], counter, lastCompareValue)
        /\ j \in Timer
    BY RunningFacts DEF Inv, TimersAgree
  <2>2. CASE j = i
    <3>1. /\ timersBuf[j] \in Entry /\ asked[j] \in Asked /\ left[j] \in Int
          /\ counter \in 0..MAX_TICKS /\ lastCompareValue \in 0..MAX_TICKS
      BY <2>1, InvFacts DEF Inv, TypeOK
    <3>2. Agrees(j, [timersBuf[j] EXCEPT !.duration = d], [asked[j] EXCEPT !.changed = TRUE],
                 left[j], counter, lastCompareValue)
      BY <1>4, <2>1, <2>2, <3>1, ChangedAgrees
    <3>. QED BY <1>2, <2>1, <2>2, <3>2
  <2>3. CASE j # i
    BY <1>2, <2>1, <2>3
  <2>. QED BY <2>2, <2>3
<1>6. \A j \in Running(timers) :
            /\ j \in Running(timersBuf)
            /\ timers[j].currentCompareValue = timersBuf[j].currentCompareValue
  BY <1>2, <1>3, RunningFacts
<1>7. /\ timers[TIMER_TSCH].isrunning
      /\ timers[TIMER_INHIBIT].isrunning => timersBuf[TIMER_INHIBIT].isrunning
  BY <1>2, MacTimers DEF Inv, TimersAgree
<1>. QED BY <1>1, <1>5, <1>6, <1>7, UnmovedHolds

\* A call that arms one timer, and selects the next.
LEMMA OneArmed ==
  ASSUME Timely, Inv, TypeOK', NEW i \in Timer, NEW entry \in Entry, NEW ticks \in Nat,
         Sets([timersBuf EXCEPT ![i] = entry]), Asks(i, ticks),
         SelectNext([timersBuf EXCEPT ![i] = entry], lastCompareValue, Pending),
         UNCHANGED lastCompareValue,
         entry.isrunning,
         Agrees(i, entry, AskedFor(ticks), ticks, counter, lastCompareValue)
  PROVE  Inv'
<1>. DEFINE timers == [timersBuf EXCEPT ![i] = entry]
<1>1. /\ timers \in [Timer -> Entry]
      /\ timers[i] = entry
      /\ \A j \in Timer \ {i} : timers[j] = timersBuf[j]
  BY DEF Inv, TypeOK
<1>2. /\ SelectNext(timers, lastCompareValue, Pending)
      /\ timersBuf' = timers /\ UNCHANGED counter /\ lastCompareValue' = lastCompareValue
      /\ left'[i] = ticks /\ asked'[i] = AskedFor(ticks)
      /\ \A j \in Timer \ {i} : left'[j] = left[j] /\ asked'[j] = asked[j]
  BY DEF Sets, Asks, Inv, TypeOK
<1>. HIDE DEF timers
<1>3. \A j \in Running(timers) : j \in Timer /\ (j # i => j \in Running(timersBuf))
  BY <1>1 DEF Running
<1>4. \A j \in Running(timers) :
         Agrees(j, timers[j], asked'[j], left'[j], counter, lastCompareValue)
  BY <1>1, <1>2, <1>3 DEF Inv, TimersAgree
<1>5. \A j \in Running(timers) :
         \/ Ahead(timers[j], counter, lastCompareValue) >= -Lateness
         \/ left'[j] >= 0
  <2>. SUFFICES ASSUME NEW j \in Running(timers)
                PROVE  \/ Ahead(timers[j], counter, lastCompareValue) >= -Lateness
                       \/ left'[j] >= 0
    OBVIOUS
  <2>1. CASE j = i
    BY <1>2, <2>1
  <2>2. CASE j # i
    BY <1>1, <1>2, <1>3, <2>2, InvFacts
  <2>. QED BY <2>1, <2>2
<1>6. timers[TIMER_TSCH].isrunning
  BY <1>1, MacTimers DEF Inv, TimersAgree
<1>7. timers[TIMER_INHIBIT].isrunning => left'[TIMER_INHIBIT] >= -Latency
  <2>1. CASE i = TIMER_INHIBIT
    BY <1>2, <2>1, TimelyFacts
  <2>2. CASE i # TIMER_INHIBIT
    BY <1>1, <1>2, <2>2, MacTimers, InvFacts
  <2>. QED BY <2>1, <2>2
<1>8. /\ Since(counter, lastCompareValue) <= Horizon + Lateness
      /\ lastCompareValue \in 0..MAX_TICKS
      /\ Pending \in BOOLEAN
      /\ TypeOK
  BY InvFacts DEF Inv, TypeOK, Pending
<1>. QED BY <1>1, <1>2, <1>4, <1>5, <1>6, <1>7, <1>8, SelectedHolds

LEMMA TaskSchedules ==
  ASSUME Timely, Inv, TypeOK', NEW i \in General, NEW d \in Duration, NEW periodic \in BOOLEAN,
         opentimers_scheduleIn(i, d, periodic)
  PROVE  Inv'
<1>. DEFINE entry == Scheduled(timersBuf[i], d, counter, periodic)
<1>1. d \in Nat /\ ADVANCE <= d /\ i \in Timer
  BY TimelyFacts, MacTimers
<1>2. /\ timersBuf[i] \in Entry /\ counter \in Int
      /\ counter \in 0..MAX_TICKS /\ lastCompareValue \in 0..MAX_TICKS
      /\ Since(counter, lastCompareValue) <= Horizon + Lateness
  BY <1>1, InvFacts DEF Inv, TypeOK
<1>3. entry \in Entry
  BY <1>1, <1>2, ScheduledType
<1>4. entry.isrunning
  BY <1>2 DEF Scheduled, Entry
<1>5. Agrees(i, entry, AskedFor(d), d, counter, lastCompareValue)
  BY <1>1, <1>2, TaskArmed
<1>6. /\ Sets([timersBuf EXCEPT ![i] = entry]) /\ Asks(i, d)
      /\ SelectNext([timersBuf EXCEPT ![i] = entry], lastCompareValue, Pending)
      /\ UNCHANGED lastCompareValue
  BY DEF opentimers_scheduleIn
<1>. HIDE DEF entry
<1>. QED BY <1>1, <1>3, <1>4, <1>5, <1>6, OneArmed

LEMMA MacSchedulesOne ==
  ASSUME Timely, Inv, TypeOK', NEW i \in Timer \ General, NEW d \in SlotDelay,
         opentimers_scheduleAbsolute(i, d)
  PROVE  Inv'
<1>. DEFINE entry == Scheduled(timersBuf[i], d, counter, FALSE)
<1>1. d \in Nat /\ ADVANCE <= d /\ d <= Horizon
  BY TimelyFacts
<1>2. /\ timersBuf[i] \in Entry /\ counter \in Int
      /\ counter \in 0..MAX_TICKS /\ lastCompareValue \in 0..MAX_TICKS
      /\ Since(counter, lastCompareValue) \in Int
      /\ Since(counter, lastCompareValue) > -ADVANCE
      /\ Since(counter, lastCompareValue) <= Horizon + Lateness
  BY InvFacts DEF Inv, TypeOK
<1>3. Since(counter, lastCompareValue) + d <= Horizon
  <2>1. Masked(counter - lastCompareValue) + d <= Horizon
    BY DEF opentimers_scheduleAbsolute
  <2>. QED BY <1>1, <1>2, <2>1, MaskedNear, TimelyFacts, ClockFacts DEF Since
<1>4. entry \in Entry
  BY <1>1, <1>2, ScheduledType
<1>5. entry.isrunning
  BY <1>2 DEF Scheduled, Entry
<1>6. Agrees(i, entry, AskedFor(d), d, counter, lastCompareValue)
  BY <1>2, <1>3, MacArmed
<1>7. /\ Sets([timersBuf EXCEPT ![i] = entry]) /\ Asks(i, d)
      /\ SelectNext([timersBuf EXCEPT ![i] = entry], lastCompareValue, Pending)
      /\ UNCHANGED lastCompareValue
  BY DEF opentimers_scheduleAbsolute, MacSchedules
<1>. HIDE DEF entry
<1>. QED BY <1>1, <1>4, <1>5, <1>6, <1>7, OneArmed

LEMMA InhibitHolds ==
  ASSUME Timely, Inv, TypeOK', InhibitInterrupt
  PROVE  Inv'
<1>1. /\ Pending /\ timersBuf[TIMER_INHIBIT].isrunning
      /\ timersBuf[TIMER_INHIBIT].currentCompareValue = currentCompareValue
      /\ timersBuf' = [timersBuf EXCEPT ![TIMER_INHIBIT].isrunning = FALSE]
      /\ sctimer_setCompare((counter + SPLITE) % (Turns * Clock), FALSE)
      /\ UNCHANGED <<currentCompareValue, lastCompareValue, counter, left, asked>>
  BY DEF InhibitInterrupt, InhibitExpires
<1>2. /\ ~timersBuf'[TIMER_INHIBIT].isrunning
      /\ \A i \in Timer \ {TIMER_INHIBIT} : timersBuf'[i] = timersBuf[i]
  BY <1>1, MacTimers DEF Inv, TypeOK, Entry
<1>3. \A i \in Running(timersBuf') : i # TIMER_INHIBIT /\ i \in Running(timersBuf)
                                     /\ timersBuf'[i] = timersBuf[i]
  BY <1>2 DEF Running
<1>4. timersBuf'[TIMER_TSCH].isrunning
  <2>1. TIMER_TSCH # TIMER_INHIBIT
    BY DEF TIMER_TSCH, TIMER_INHIBIT
  <2>. QED BY <1>2, <2>1, MacTimers DEF Inv, TimersAgree
<1>5. TimersAgree' /\ FirstSelected'
  BY <1>1, <1>3, <1>4 DEF Inv, TimersAgree, FirstSelected
<1>. DEFINE e == Since(counter, lastCompareValue)
            gap(i) == Masked(timersBuf[i].currentCompareValue - lastCompareValue)
            now == Masked(currentCompareValue - lastCompareValue)
<1>6. /\ e \in Int
      /\ now \in 0..Horizon /\ counter \in 0..MAX_TICKS
      /\ Overdue = e - now /\ Overdue' = e - now
      /\ Overdue > -ADVANCE
  BY <1>1, InvFacts DEF Overdue, Inv, PendingInTime
<1>7. e - now <= Latency /\ left[TIMER_INHIBIT] = now - e
  <2>1. TIMER_INHIBIT \in Running(timersBuf) /\ TIMER_INHIBIT \notin General
    BY <1>1, RunningFacts
  <2>2. left[TIMER_INHIBIT] = now - e
    BY <1>1, <2>1 DEF Inv, TimersAgree, Agrees, Ahead
  <2>. QED BY <1>1, <1>6, <2>2, InvFacts, TimelyFacts
<1>8. \A i \in Running(timersBuf') : Ahead(timersBuf'[i], counter, lastCompareValue) >= now - e
  <2>. SUFFICES ASSUME NEW i \in Running(timersBuf')
                PROVE  Ahead(timersBuf'[i], counter, lastCompareValue) >= now - e
    OBVIOUS
  <2>1. /\ Ahead(timersBuf'[i], counter, lastCompareValue) = gap(i) - e
        /\ now <= gap(i)
    BY <1>3 DEF Inv, FirstSelected, Ahead
  <2>2. gap(i) \in Int
    <3>1. timersBuf[i].currentCompareValue - lastCompareValue \in Int
      BY <1>3, RunningFacts DEF Inv, TypeOK, Entry
    <3>. QED BY <3>1, MaskedRange
  <2>. HIDE DEF e, gap, now
  <2>. QED BY <1>6, <2>1, <2>2
<1>. DEFINE end == Masked(counter + SPLITE)
<1>9. sctimer_setCompare(end, FALSE)
  BY <1>1, TimelyFacts DEF Masked
<1>10. CASE RaisedAtOnce(end)
  <2>1. waiting' = Latency
    BY <1>9, <1>10 DEF sctimer_setCompare
  <2>2. Pending'
    BY <2>1, TimelyFacts DEF Pending
  <2>3. PendingInTime'
    <3>1. \A i \in Running(timersBuf') :
             Ahead(timersBuf'[i], counter', lastCompareValue') >= -(waiting' + Latency + SPLITE)
      <4>. SUFFICES ASSUME NEW i \in Running(timersBuf')
                    PROVE  Ahead(timersBuf'[i], counter, lastCompareValue)
                              >= -(Latency + Latency + SPLITE)
        BY <1>1, <2>1
      <4>1. Ahead(timersBuf'[i], counter, lastCompareValue) \in Int
        <5>1. timersBuf'[i].currentCompareValue - lastCompareValue \in Int
          BY <1>3, RunningFacts DEF Inv, TypeOK, Entry
        <5>. QED BY <1>6, <5>1, MaskedRange DEF Ahead
      <4>2. Ahead(timersBuf'[i], counter, lastCompareValue) >= now - e
        BY <1>8
      <4>. HIDE DEF e, now
      <4>. QED BY <1>6, <1>7, <4>1, <4>2, TimelyFacts
    <3>. QED BY <1>1, <1>2, <1>6, <3>1 DEF PendingInTime
  <2>. QED BY <1>5, <2>2, <2>3 DEF Inv, RegisterToCome
<1>11. CASE ~RaisedAtOnce(end)
  <2>1. waiting' = -1 /\ compareRegister' = end
    BY <1>9, <1>11 DEF sctimer_setCompare
  <2>2. ~Pending'
    BY <2>1 DEF Pending
  <2>3. Masked(end - counter) <= SPLITE /\ Masked(end - counter) >= 1
    <3>1. Masked(end - counter) = Masked(SPLITE)
      BY <1>6, MaskedBack, TimelyFacts
    <3>2. Masked(SPLITE) <= SPLITE
      BY TimelyFacts, ClockFacts DEF Masked
    <3>3. ~(Masked(end - counter) < ADVANCE)
      BY <1>11, TimelyFacts DEF RaisedAtOnce, Masked
    <3>4. Masked(SPLITE) \in Int
      BY MaskedRange, TimelyFacts
    <3>. QED BY <3>1, <3>2, <3>3, <3>4, TimelyFacts
  <2>4. RegisterToCome'
    <3>1. Masked(compareRegister - counter)' = Masked(end - counter)
          /\ Masked(end - counter) \in Int
      <4>1. end - counter \in Int
        BY <1>6, MaskedRange, TimelyFacts
      <4>. QED BY <1>1, <2>1, <4>1, MaskedRange
    <3>. HIDE DEF e, now, end
    <3>. QED BY <1>2, <1>6, <1>7, <2>3, <3>1, TimelyFacts DEF RegisterToCome
  <2>. QED BY <1>5, <2>2, <2>4 DEF Inv, PendingInTime
<1>. QED BY <1>10, <1>11

LEMMA TickHolds ==
  ASSUME Timely, Inv, TypeOK', Tick
  PROVE  Inv'
<1>. DEFINE e == Since(counter, lastCompareValue)
            now == Masked(currentCompareValue - lastCompareValue)
<1>1. /\ waiting < Latency
      /\ counter' = Masked(counter + 1)
      /\ waiting' = IF Pending THEN waiting + 1
                    ELSE IF counter' = compareRegister THEN 0 ELSE -1
      /\ \A i \in Running(timersBuf) : left'[i] = left[i] - 1
      /\ UNCHANGED <<timersBuf, currentCompareValue, lastCompareValue, compareRegister, asked>>
  BY TimelyFacts DEF Tick, driver, Masked, Running
<1>2. /\ counter \in 0..MAX_TICKS /\ lastCompareValue \in 0..MAX_TICKS
      /\ compareRegister \in 0..MAX_TICKS /\ currentCompareValue \in 0..MAX_TICKS
      /\ e \in Int /\ e <= Horizon + Lateness
      /\ now \in 0..Horizon
      /\ waiting \in -1..Latency
      /\ Overdue = e - now
  BY InvFacts DEF Inv, TypeOK, Overdue
<1>3. /\ Since(counter', lastCompareValue) = e + 1
      /\ counter' = compareRegister <=> Masked(compareRegister - counter) = 1
      /\ Masked(compareRegister - counter) >= 1
           => Masked(compareRegister - counter') = Masked(compareRegister - counter) - 1
  BY <1>1, <1>2, OneTickLater
<1>4. Overdue' = e - now + 1
  BY <1>1, <1>2, <1>3, TimelyFacts DEF Overdue
<1>5. \A i \in Running(timersBuf) :
         /\ left[i] \in Int
         /\ Ahead(timersBuf[i], counter, lastCompareValue) \in Int
         /\ Ahead(timersBuf[i], counter', lastCompareValue)
               = Ahead(timersBuf[i], counter, lastCompareValue) - 1
         /\ Ahead(timersBuf[i], counter, lastCompareValue) >= now - e
         /\ Rest(timersBuf[i], asked[i]) \in Int /\ Slack(timersBuf[i], asked[i]) \in Int
         /\ timersBuf[i].wraps_remaining * MAX_TICKS \in Int
  <2>. SUFFICES ASSUME NEW i \in Running(timersBuf)
                PROVE  /\ left[i] \in Int
                       /\ Ahead(timersBuf[i], counter, lastCompareValue) \in Int
                       /\ Ahead(timersBuf[i], counter', lastCompareValue)
                             = Ahead(timersBuf[i], counter, lastCompareValue) - 1
                       /\ Ahead(timersBuf[i], counter, lastCompareValue) >= now - e
                       /\ Rest(timersBuf[i], asked[i]) \in Int /\ Slack(timersBuf[i], asked[i]) \in Int
                       /\ timersBuf[i].wraps_remaining * MAX_TICKS \in Int
    OBVIOUS
  <2>1. i \in Timer /\ left[i] \in Int /\ timersBuf[i] \in Entry
    BY RunningFacts DEF Inv, TypeOK
  <2>2. Masked(timersBuf[i].currentCompareValue - lastCompareValue) \in Int
    <3>1. timersBuf[i].currentCompareValue - lastCompareValue \in Int
      BY <1>2, <2>1 DEF Entry
    <3>. QED BY <3>1, MaskedRange
  <2>3. now <= Masked(timersBuf[i].currentCompareValue - lastCompareValue)
    BY DEF Inv, FirstSelected
  <2>4. /\ Rest(timersBuf[i], asked[i]) \in Int
        /\ timersBuf[i].wraps_remaining * MAX_TICKS \in Int
    <3>1. LastTurn(timersBuf[i], asked[i]) \in Int
      BY <2>1, MaskedRange DEF Entry, LastTurn
    <3>2. timersBuf[i].wraps_remaining \in Int /\ timersBuf[i].wraps_remaining - 1 \in Int
      BY <2>1 DEF Entry
    <3>. QED BY <3>1, <3>2, ClockFacts DEF Rest
  <2>5. Slack(timersBuf[i], asked[i]) \in Int
    <3>1. TurnsOf(asked[i].duration) \in Int /\ timersBuf[i].wraps_remaining \in Int
      BY <2>1, DurationTurns DEF Entry, Asked, TurnsOf, Inv, TypeOK
    <3>. QED BY <3>1, ClockFacts, TimelyFacts DEF Slack
  <2>. QED BY <1>2, <1>3, <2>1, <2>2, <2>3, <2>4, <2>5 DEF Ahead
<1>. HIDE DEF e, now
<1>6. TimersAgree'
  <2>. SUFFICES ASSUME NEW i \in Running(timersBuf)
                PROVE  Agrees(i, timersBuf[i], asked[i], left[i] - 1, counter', lastCompareValue)
    BY <1>1 DEF Inv, TimersAgree
  <2>1. Agrees(i, timersBuf[i], asked[i], left[i], counter, lastCompareValue)
    BY DEF Inv, TimersAgree
  <2>. QED BY <1>5, <2>1, ClockFacts DEF Agrees
<1>7. FirstSelected'
  BY <1>1 DEF Inv, FirstSelected
<1>8. TIMER_INHIBIT \in Running(timersBuf)
        => /\ left[TIMER_INHIBIT] = Ahead(timersBuf[TIMER_INHIBIT], counter, lastCompareValue)
           /\ left'[TIMER_INHIBIT] = left[TIMER_INHIBIT] - 1
  BY <1>1, RunningFacts DEF Inv, TimersAgree, Agrees
<1>9. CASE Pending
  <2>1. waiting' = waiting + 1
    BY <1>1, <1>9
  <2>2. Pending'
    BY <1>2, <1>9, <2>1 DEF Pending
  <2>3. PendingInTime'
    <3>1. Overdue' > -ADVANCE
      BY <1>2, <1>4, <1>9, TimelyFacts DEF Inv, PendingInTime
    <3>2. \A i \in Running(timersBuf) :
             Ahead(timersBuf[i], counter', lastCompareValue) >= -(waiting' + Latency + SPLITE)
      BY <1>1, <1>2, <1>5, <1>9, <2>1, TimelyFacts DEF Inv, PendingInTime
    <3>3. timersBuf[TIMER_INHIBIT].isrunning => left'[TIMER_INHIBIT] >= -waiting'
      BY <1>2, <1>5, <1>8, <1>9, <2>1, RunningFacts DEF Inv, PendingInTime
    <3>. QED BY <1>1, <3>1, <3>2, <3>3 DEF PendingInTime
  <2>. QED BY <1>6, <1>7, <2>2, <2>3 DEF Inv, RegisterToCome
<1>10. CASE ~Pending /\ compareRegister = currentCompareValue /\ Overdue < 0
  <2>1. Masked(compareRegister - counter) = now - e
    BY <1>2, <1>10, InvFacts, MaskedNear, TimelyFacts, ClockFacts DEF e, now, Since
  <2>2. CASE now - e = 1
    <3>1. waiting' = 0
      BY <1>1, <1>3, <1>10, <2>1, <2>2
    <3>2. Pending' /\ Overdue' = 0
      BY <1>2, <1>4, <2>2, <3>1 DEF Pending
    <3>3. \A i \in Running(timersBuf) : Ahead(timersBuf[i], counter', lastCompareValue) >= 0
      BY <1>2, <1>5, <2>2
    <3>4. \A i \in Running(timersBuf) :
             Ahead(timersBuf[i], counter', lastCompareValue) >= -(waiting' + Latency + SPLITE)
      BY <1>5, <3>1, <3>3, TimelyFacts
    <3>5. timersBuf[TIMER_INHIBIT].isrunning => left'[TIMER_INHIBIT] >= -waiting'
      BY <1>5, <1>8, <3>1, <3>3, RunningFacts
    <3>6. PendingInTime'
      BY <1>1, <3>2, <3>4, <3>5, TimelyFacts DEF PendingInTime
    <3>. QED BY <1>6, <1>7, <3>2, <3>6 DEF Inv, RegisterToCome
  <2>3. CASE now - e # 1
    <3>1. waiting' = -1
      BY <1>1, <1>3, <1>10, <2>1, <2>3
    <3>2. ~Pending' /\ Overdue' < 0
      BY <1>2, <1>4, <1>10, <2>3, <3>1 DEF Pending
    <3>. QED BY <1>1, <1>6, <1>7, <1>10, <3>2 DEF Inv, RegisterToCome, PendingInTime
  <2>. QED BY <2>2, <2>3
<1>11. CASE /\ ~Pending
            /\ ~timersBuf[TIMER_INHIBIT].isrunning
            /\ Overdue > -ADVANCE
            /\ Masked(compareRegister - counter) >= 1
            /\ Overdue + Masked(compareRegister - counter) <= Latency + SPLITE
  <2>1. Masked(compareRegister - counter) \in Int
    BY <1>2, MaskedRange
  <2>2. Overdue' > -ADVANCE
    BY <1>2, <1>4, <1>11, TimelyFacts
  <2>3. CASE Masked(compareRegister - counter) = 1
    <3>1. waiting' = 0
      BY <1>1, <1>3, <1>11, <2>3
    <3>2. Pending'
      BY <3>1 DEF Pending
    <3>3. \A i \in Running(timersBuf) :
             Ahead(timersBuf[i], counter', lastCompareValue) >= -(waiting' + Latency + SPLITE)
      BY <1>2, <1>5, <1>11, <2>3, <3>1, TimelyFacts
    <3>4. PendingInTime'
      BY <1>1, <1>11, <2>2, <3>3 DEF PendingInTime
    <3>. QED BY <1>6, <1>7, <3>2, <3>4 DEF Inv, RegisterToCome
  <2>4. CASE Masked(compareRegister - counter) # 1
    <3>1. waiting' = -1
      BY <1>1, <1>3, <1>11, <2>4
    <3>2. ~Pending'
      BY <3>1 DEF Pending
    <3>3. /\ Masked(compareRegister - counter)' >= 1
          /\ Overdue' + Masked(compareRegister - counter)' <= Latency + SPLITE
      BY <1>1, <1>2, <1>3, <1>4, <1>11, <2>1, <2>4, TimelyFacts
    <3>. QED BY <1>1, <1>6, <1>7, <1>11, <2>2, <3>2, <3>3
             DEF Inv, RegisterToCome, PendingInTime
  <2>. QED BY <2>3, <2>4
<1>. QED BY <1>9, <1>10, <1>11 DEF Inv, RegisterToCome

-----------------------------------------------------------------------------
(* The interrupt of the timers *)

Called(entry) == [entry EXCEPT !.currentCompareValue = currentCompareValue]

\* The terms of a long timer, with their products.
LEMMA LongTerms ==
  ASSUME Timely, NEW entry \in Entry, NEW ask \in Asked
  PROVE  LET k == entry.wraps_remaining
             turns == TurnsOf(ask.duration)
             last == LastTurn(entry, ask)
             more == IF ask.changed THEN MAX_TICKS ELSE 0
         IN  /\ turns \in Nat /\ k \in Nat /\ last \in 0..MAX_TICKS /\ more \in 0..MAX_TICKS
             /\ ask.changed => last = 0
             /\ ~ask.changed => last = Masked(entry.duration) /\ more = 0
             /\ k * MAX_TICKS = (k - 1) * MAX_TICKS + MAX_TICKS
             /\ (k - 1) * MAX_TICKS \in Int
             /\ (k - 2) * MAX_TICKS = (k - 1) * MAX_TICKS - MAX_TICKS
             /\ (turns - k) * WINDOW \in Int
             /\ (turns - (k - 1)) * WINDOW = (turns - k) * WINDOW + WINDOW
             /\ turns * WINDOW \in Int
             /\ turns * (WINDOW + 1) = turns * WINDOW + turns
             /\ k = 0 => (turns - k) * WINDOW = turns * WINDOW
             /\ k = 1 => (turns - k) * WINDOW = turns * WINDOW - WINDOW
             /\ k = 1 => (k - 1) * MAX_TICKS = 0
             /\ Rest(entry, ask) = IF k = 0 THEN 0 ELSE (k - 1) * MAX_TICKS + last
             /\ Slack(entry, ask) = Clock + turns + (turns - k) * WINDOW + more
<1>. DEFINE k == entry.wraps_remaining
            turns == TurnsOf(ask.duration)
            last == LastTurn(entry, ask)
            more == IF ask.changed THEN MAX_TICKS ELSE 0
<1>1. /\ turns \in Nat /\ k \in Nat /\ last \in 0..MAX_TICKS /\ more \in 0..MAX_TICKS
      /\ WINDOW \in Nat /\ MAX_TICKS \in Nat
  <2>1. entry.duration \in Nat /\ entry.wraps_remaining \in Nat /\ ask.duration \in Nat
    BY DEF Entry, Asked
  <2>2. turns \in Nat
    BY <2>1, DurationTurns DEF TurnsOf
  <2>3. last \in 0..MAX_TICKS /\ more \in 0..MAX_TICKS
    BY <2>1, MaskedRange, ClockFacts DEF LastTurn
  <2>. QED BY <2>1, <2>2, <2>3, TimelyFacts, ClockFacts
<1>2. /\ Rest(entry, ask) = IF k = 0 THEN 0 ELSE (k - 1) * MAX_TICKS + last
      /\ Slack(entry, ask) = Clock + turns + (turns - k) * WINDOW + more
      /\ ask.changed => last = 0
      /\ ~ask.changed => last = Masked(entry.duration) /\ more = 0
  BY DEF Rest, Slack, LastTurn
<1>. HIDE DEF k, turns, last, more
<1>3. /\ (k - 1) * MAX_TICKS \in Int
      /\ (turns - k) * WINDOW \in Int
      /\ turns * WINDOW \in Int
  BY <1>1
<1>4. (k - 2) * MAX_TICKS = (k - 1) * MAX_TICKS - MAX_TICKS
  BY <1>1
<1>5. (turns - (k - 1)) * WINDOW = (turns - k) * WINDOW + WINDOW
  BY <1>1
<1>6. turns * (WINDOW + 1) = turns * WINDOW + turns
  BY <1>1
<1>7. k = 1 => (turns - k) * WINDOW = turns * WINDOW - WINDOW
  BY <1>1
<1>8. k = 1 => (k - 1) * MAX_TICKS = 0
  BY <1>1
<1>10. k * MAX_TICKS = (k - 1) * MAX_TICKS + MAX_TICKS
  BY <1>1
<1>9. k = 0 => (turns - k) * WINDOW = turns * WINDOW
  BY <1>1
<1>. QED BY <1>1, <1>2, <1>3, <1>4, <1>5, <1>6, <1>7, <1>8, <1>9, <1>10 DEF k, turns, last, more

\* A timer whose turn is over, but not its last, still agrees.
LEMMA TurnAgrees ==
  ASSUME Timely, TypeOK, NEW i \in General, NEW entry \in Entry, NEW ask \in Asked,
         NEW ticks \in Int,
         Masked(entry.currentCompareValue - currentCompareValue) < WINDOW,
         Agrees(i, entry, ask, ticks, counter, currentCompareValue),
         ~IsOver(Called(entry))
  PROVE  /\ Agrees(i, NextTurn(Called(entry)), ask, ticks, counter, currentCompareValue)
         /\ Ahead(NextTurn(Called(entry)), counter, currentCompareValue)
               >= Ahead(entry, counter, currentCompareValue)
<1>. DEFINE k == entry.wraps_remaining
            turns == TurnsOf(ask.duration)
            rest == Masked(entry.duration)
            last == LastTurn(entry, ask)
            more == IF ask.changed THEN MAX_TICKS ELSE 0
            s == Since(counter, currentCompareValue)
            gap == Masked(entry.currentCompareValue - currentCompareValue)
            next == NextTurn(Called(entry))
            added == IF k = 1 THEN entry.duration ELSE MAX_TICKS
<1>1. /\ counter \in 0..MAX_TICKS /\ currentCompareValue \in 0..MAX_TICKS
      /\ entry.duration \in Nat /\ k \in Nat /\ entry.currentCompareValue \in 0..MAX_TICKS
  BY TimelyFacts, ClockFacts DEF TypeOK, Entry
<1>2. s \in Int /\ gap \in Int /\ gap >= 0
  <2>1. gap \in 0..MAX_TICKS
    BY <1>1, MaskedRange
  <2>. QED BY <1>1, <2>1, SinceType
<1>3. /\ next.duration = entry.duration
      /\ next.wraps_remaining = k - 1
      /\ next.currentCompareValue = Masked(currentCompareValue + added)
      /\ Called(entry).wraps_remaining = k
  BY DEF NextTurn, Called, Entry
<1>4. k # 0 /\ (k = 1 => ~(Masked(next.currentCompareValue - currentCompareValue) < WINDOW))
  <2>. HIDE DEF next
  <2>. QED BY <1>3 DEF IsOver, next
<1>5. Masked(next.currentCompareValue - currentCompareValue)
         = IF k = 1 THEN rest ELSE MAX_TICKS
  <2>1. added \in Int
    BY <1>1, ClockFacts
  <2>2. Masked(next.currentCompareValue - currentCompareValue) = Masked(added)
    <3>. HIDE DEF next, added
    <3>. QED BY <1>1, <1>3, <2>1, MaskedBack
  <2>3. Masked(MAX_TICKS) = MAX_TICKS
    BY MaskedNear, ClockFacts
  <2>. HIDE DEF next
  <2>. QED BY <2>2, <2>3
<1>6. ~IsShort(ask.duration)
  BY <1>4 DEF Agrees
<1>0. rest \in 0..MAX_TICKS
  BY <1>1, MaskedRange
<1>7. /\ turns \in Nat /\ last \in 0..MAX_TICKS /\ more \in 0..MAX_TICKS
      /\ ~ask.changed => last = rest
      /\ k * MAX_TICKS = (k - 1) * MAX_TICKS + MAX_TICKS
      /\ (k - 1) * MAX_TICKS \in Int
      /\ (k - 2) * MAX_TICKS = (k - 1) * MAX_TICKS - MAX_TICKS
      /\ (turns - k) * WINDOW \in Int
      /\ (turns - (k - 1)) * WINDOW = (turns - k) * WINDOW + WINDOW
      /\ k = 1 => (k - 1) * MAX_TICKS = 0
      /\ ask.changed => last = 0
      /\ Rest(entry, ask) = IF k = 0 THEN 0 ELSE (k - 1) * MAX_TICKS + last
      /\ Slack(entry, ask) = Clock + turns + (turns - k) * WINDOW + more
  BY LongTerms
<1>8. /\ Rest(next, ask) = IF k = 1 THEN 0 ELSE (k - 2) * MAX_TICKS + last
      /\ Slack(next, ask) = Clock + turns + (turns - (k - 1)) * WINDOW + more
  <2>. HIDE DEF next
  <2>1. (k - 1) - 1 = k - 2 /\ (k - 1 = 0 <=> k = 1)
    BY <1>1
  <2>. QED BY <1>3, <2>1 DEF Rest, LastTurn, Slack
<1>9. /\ entry.duration >= ADVANCE
      /\ k <= turns
      /\ ticks >= gap - s + k * MAX_TICKS - Clock
      /\ ticks <= gap - s + Rest(entry, ask) + Slack(entry, ask)
      /\ gap < WINDOW
      /\ Ahead(entry, counter, currentCompareValue) = gap - s
      /\ Ahead(next, counter, currentCompareValue) = (IF k = 1 THEN rest ELSE MAX_TICKS) - s
  BY <1>5, <1>6 DEF Agrees, Ahead
<1>10. gap <= MAX_TICKS
  BY <1>1, MaskedRange, ClockFacts
<1>. HIDE DEF turns, rest, last, more, s, gap, next
<1>11. Ahead(next, counter, currentCompareValue) >= Ahead(entry, counter, currentCompareValue)
  BY <1>0, <1>2, <1>4, <1>5, <1>7, <1>9, <1>10, TimelyFacts, ClockFacts
<1>12. /\ ticks >= Ahead(next, counter, currentCompareValue) + (k - 1) * MAX_TICKS - Clock
       /\ ticks <= Ahead(next, counter, currentCompareValue) + Rest(next, ask) + Slack(next, ask)
  <2>1. CASE k = 1
    BY <1>0, <1>2, <1>7, <1>8, <1>9, <2>1, TimelyFacts, ClockFacts
  <2>2. CASE k # 1
    BY <1>2, <1>4, <1>7, <1>8, <1>9, <2>2, TimelyFacts, ClockFacts
  <2>. QED BY <2>1, <2>2
<1>13. Agrees(i, next, ask, ticks, counter, currentCompareValue)
  <2>1. k - 1 <= turns
    BY <1>1, <1>7, <1>9
  <2>2. next.duration >= ADVANCE /\ next.wraps_remaining = k - 1
    BY <1>3, <1>9 DEF next
  <2>3. next.wraps_remaining <= TurnsOf(ask.duration)
    BY <2>1, <2>2 DEF turns
  <2>4. ticks >= Ahead(next, counter, currentCompareValue)
                    + next.wraps_remaining * MAX_TICKS - Clock
    BY <1>12, <2>2
  <2>. QED BY <1>6, <1>12, <2>2, <2>3, <2>4 DEF Agrees
<1>. QED BY <1>11, <1>13 DEF next

\* And the last turn is not over too early.
LEMMA OverSoonEnough ==
  ASSUME Timely, TypeOK, NEW i \in General, NEW entry \in Entry, NEW ask \in Asked,
         NEW ticks \in Int,
         Masked(entry.currentCompareValue - currentCompareValue) < WINDOW,
         Since(counter, currentCompareValue) > -ADVANCE,
         Agrees(i, entry, ask, ticks, counter, currentCompareValue),
         IsOver(Called(entry))
  PROVE  ticks < Early(ask)
<1>. DEFINE k == entry.wraps_remaining
            turns == TurnsOf(ask.duration)
            rest == Masked(entry.duration)
            last == LastTurn(entry, ask)
            more == IF ask.changed THEN MAX_TICKS ELSE 0
            s == Since(counter, currentCompareValue)
            gap == Masked(entry.currentCompareValue - currentCompareValue)
            next == NextTurn(Called(entry))
<1>1. /\ counter \in 0..MAX_TICKS /\ currentCompareValue \in 0..MAX_TICKS
      /\ entry.duration \in Nat /\ k \in Nat /\ entry.currentCompareValue \in 0..MAX_TICKS
  BY TimelyFacts, ClockFacts DEF TypeOK, Entry
<1>2. s \in Int /\ gap \in 0..MAX_TICKS
  <2>1. gap \in 0..MAX_TICKS
    BY <1>1, MaskedRange
  <2>. QED BY <1>1, <2>1, SinceType
<1>3. Called(entry).wraps_remaining = k
  BY DEF Called, Entry
<1>4. k = 0 \/ (k = 1 /\ rest < WINDOW)
  <2>1. CASE k = 1
    <3>1. next.currentCompareValue = Masked(currentCompareValue + entry.duration)
      BY <2>1 DEF NextTurn, Called, Entry
    <3>. HIDE DEF next
    <3>2. Masked(Masked(currentCompareValue + entry.duration) - currentCompareValue) = rest
      <4>1. currentCompareValue \in Int /\ entry.duration \in Int
        BY <1>1
      <4>. QED BY <4>1, MaskedBack
    <3>3. Masked(next.currentCompareValue - currentCompareValue) = rest
      BY <3>1, <3>2
    <3>. QED BY <1>3, <2>1, <3>3 DEF IsOver, next
  <2>2. CASE k # 1
    BY <1>3, <2>2 DEF IsOver
  <2>. QED BY <2>1, <2>2
<1>5. /\ gap < WINDOW
      /\ Ahead(entry, counter, currentCompareValue) = gap - s
  BY DEF Ahead
<1>6. CASE IsShort(ask.duration)
  <2>1. ticks = gap - s /\ Early(ask) = ADVANCE + WINDOW + 0
    BY <1>5, <1>6 DEF Agrees, Early
  <2>. HIDE DEF gap
  <2>. QED BY <1>2, <1>5, <2>1, TimelyFacts
<1>7. CASE ~IsShort(ask.duration)
  <2>1. /\ turns \in Nat /\ last \in 0..MAX_TICKS /\ more \in 0..MAX_TICKS
        /\ ask.changed => last = 0
        /\ ~ask.changed => last = rest
        /\ turns * WINDOW \in Int
        /\ turns * (WINDOW + 1) = turns * WINDOW + turns
        /\ k = 0 => (turns - k) * WINDOW = turns * WINDOW
        /\ k = 1 => (turns - k) * WINDOW = turns * WINDOW - WINDOW
        /\ k = 1 => (k - 1) * MAX_TICKS = 0
        /\ Rest(entry, ask) = IF k = 0 THEN 0 ELSE (k - 1) * MAX_TICKS + last
        /\ Slack(entry, ask) = Clock + turns + (turns - k) * WINDOW + more
    BY LongTerms
  <2>2. ticks <= gap - s + Rest(entry, ask) + Slack(entry, ask)
    BY <1>5, <1>7 DEF Agrees
  <2>3. Early(ask) = ADVANCE + WINDOW + (MAX_TICKS + turns * (WINDOW + 1) + more)
    BY <1>7 DEF Early
  <2>0. rest \in 0..MAX_TICKS
    BY <1>1, MaskedRange
  <2>. HIDE DEF gap, turns, rest, last, more
  <2>4. CASE k = 0
    BY <1>2, <1>5, <2>1, <2>2, <2>3, <2>4, TimelyFacts, ClockFacts
  <2>5. CASE k = 1 /\ rest < WINDOW
    BY <1>2, <1>5, <2>0, <2>1, <2>2, <2>3, <2>5, TimelyFacts, ClockFacts
  <2>. QED BY <1>4, <2>4, <2>5
<1>. QED BY <1>6, <1>7

\* The timers, as seen from the compare value that is handled.
LEMMA SeenFromCurrent ==
  ASSUME Timely, Inv, Pending
  PROVE  /\ Since(counter, currentCompareValue) = Overdue
         /\ Overdue \in Int /\ Overdue > -ADVANCE /\ Overdue <= Horizon + Lateness
         /\ \A i \in Running(timersBuf) :
               /\ Ahead(timersBuf[i], counter, currentCompareValue)
                     = Ahead(timersBuf[i], counter, lastCompareValue)
               /\ Agrees(i, timersBuf[i], asked[i], left[i], counter, currentCompareValue)
<1>. DEFINE e == Since(counter, lastCompareValue)
            now == Masked(currentCompareValue - lastCompareValue)
<1>1. /\ counter \in 0..MAX_TICKS
      /\ lastCompareValue \in 0..MAX_TICKS /\ currentCompareValue \in 0..MAX_TICKS
      /\ e \in Int /\ e <= Horizon + Lateness /\ now \in 0..Horizon
      /\ Overdue = e - now /\ e - now > -ADVANCE
  BY InvFacts DEF Inv, TypeOK, PendingInTime, Overdue
<1>2. /\ Since(counter, currentCompareValue) = e - now
      /\ \A val \in 0..MAX_TICKS :
            now <= Masked(val - lastCompareValue)
               => Masked(val - currentCompareValue) = Masked(val - lastCompareValue) - now
  BY <1>1, Rebased
<1>3. ASSUME NEW i \in Running(timersBuf)
      PROVE  /\ Ahead(timersBuf[i], counter, currentCompareValue)
                   = Ahead(timersBuf[i], counter, lastCompareValue)
             /\ Agrees(i, timersBuf[i], asked[i], left[i], counter, currentCompareValue)
  <2>. DEFINE val == timersBuf[i].currentCompareValue
  <2>1. val \in 0..MAX_TICKS /\ val - lastCompareValue \in Int
    BY <1>1, RunningFacts DEF Inv, TypeOK, Entry
  <2>2. Masked(val - lastCompareValue) \in Int
    BY <2>1, MaskedRange
  <2>3. now <= Masked(val - lastCompareValue)
    BY DEF Inv, FirstSelected
  <2>4. Masked(val - currentCompareValue) = Masked(val - lastCompareValue) - now
    BY <1>2, <2>1, <2>3
  <2>5. Agrees(i, timersBuf[i], asked[i], left[i], counter, lastCompareValue)
    BY DEF Inv, TimersAgree
  <2>. HIDE DEF e, now
  <2>6. Ahead(timersBuf[i], counter, currentCompareValue)
           = Ahead(timersBuf[i], counter, lastCompareValue)
    BY <1>1, <1>2, <2>2, <2>4 DEF Ahead, e
  <2>7. Masked(val - lastCompareValue) <= Horizon => Masked(val - currentCompareValue) <= Horizon
    BY <1>1, <2>2, <2>4, TimelyFacts
  <2>. QED BY <2>5, <2>6, <2>7 DEF Agrees
<1>. HIDE DEF e, now
<1>. QED BY <1>1, <1>2, <1>3, TimelyFacts

\* What the interrupt finds of each timer: one that matches is called at most a
\* window ahead of its time; the others are left alone.
LEMMA InterruptFinds ==
  ASSUME Timely, Inv, NEW before, NEW matching, NEW over, NEW turning, NEW arms,
         Interrupts(before, matching, over, turning, arms)
  PROVE  /\ Running(before) = Running(timersBuf)
         /\ \A i \in Timer \ General : before[i] = timersBuf[i]
         /\ \A i \in Running(timersBuf) \ matching : before[i] = timersBuf[i]
         /\ \A i \in matching :
               /\ i \in Running(timersBuf)
               /\ before[i] = Called(timersBuf[i])
               /\ Masked(timersBuf[i].currentCompareValue - currentCompareValue) < WINDOW
<1>1. \A i \in Timer :
         /\ before[i] = timersBuf[i] \/ before[i] = Called(timersBuf[i])
         /\ before[i] # timersBuf[i]
               => /\ i \in General \cap Running(timersBuf)
                  /\ Masked(timersBuf[i].currentCompareValue - currentCompareValue) < WINDOW
  BY DEF Interrupts, PreCalled, Called, Gap
<1>2. \A i \in Timer : before[i].isrunning = timersBuf[i].isrunning
  BY <1>1 DEF Called, Inv, TypeOK, Entry
<1>3. Running(before) = Running(timersBuf)
  BY <1>2 DEF Running
<1>4. ASSUME NEW i \in Running(timersBuf) \ matching
      PROVE  before[i] = timersBuf[i]
  <2>1. before[i].currentCompareValue # currentCompareValue
    BY <1>3 DEF Interrupts, Matches
  <2>2. Called(timersBuf[i]).currentCompareValue = currentCompareValue
    BY RunningFacts DEF Called, Inv, TypeOK, Entry
  <2>. QED BY <1>1, <2>1, <2>2, RunningFacts
<1>5. ASSUME NEW i \in matching
      PROVE  /\ i \in Running(timersBuf)
             /\ before[i] = Called(timersBuf[i])
             /\ Masked(timersBuf[i].currentCompareValue - currentCompareValue) < WINDOW
  <2>1. i \in Running(timersBuf) /\ before[i].currentCompareValue = currentCompareValue
    BY <1>3 DEF Interrupts, Matches
  <2>2. i \in Timer /\ timersBuf[i] \in Entry
    BY <2>1, RunningFacts DEF Inv, TypeOK
  <2>3. CASE before[i] = timersBuf[i]
    <3>1. before[i] = Called(timersBuf[i])
      BY <2>1, <2>2, <2>3 DEF Called, Entry
    <3>2. timersBuf[i].currentCompareValue - currentCompareValue = 0
      BY <2>1, <2>2, <2>3 DEF Entry
    <3>3. Masked(0) = 0
      BY MaskedNear, ClockFacts
    <3>. QED BY <2>1, <3>1, <3>2, <3>3, TimelyFacts
  <2>4. CASE before[i] # timersBuf[i]
    BY <1>1, <2>1, <2>2, <2>4
  <2>. QED BY <2>3, <2>4
<1>. QED BY <1>1, <1>3, <1>4, <1>5

LEMMA InterruptHolds ==
  ASSUME Timely, Inv, TypeOK', TimerInterrupt
  PROVE  Inv'
<1>1. PICK before, matching, over, turning, arms :
              Interrupts(before, matching, over, turning, arms)
  BY InterruptSteps
<1>. DEFINE after == [i \in Timer |-> AfterTurn(before, arms, over, turning, i)]
<1>2. /\ Pending /\ ~InhibitExpires
      /\ UNCHANGED counter /\ lastCompareValue' = currentCompareValue
  BY DEF TimerInterrupt
<1>3. /\ Since(counter, currentCompareValue) = Overdue
      /\ Overdue \in Int /\ Overdue > -ADVANCE /\ Overdue <= Horizon + Lateness
      /\ \A i \in Running(timersBuf) :
            /\ Ahead(timersBuf[i], counter, currentCompareValue)
                  = Ahead(timersBuf[i], counter, lastCompareValue)
            /\ Agrees(i, timersBuf[i], asked[i], left[i], counter, currentCompareValue)
  BY <1>2, SeenFromCurrent
<1>4. /\ before \in [Timer -> Entry]
      /\ DOMAIN arms \subseteq Timer \ General
      /\ \A i \in DOMAIN arms : arms[i] \in SlotDelay
      /\ IF TIMER_TSCH \in matching THEN TIMER_TSCH \in DOMAIN arms ELSE DOMAIN arms = {}
      /\ (DOMAIN arms) \cap over = {}
      /\ (DOMAIN arms) \cap turning = {}
      /\ over \cap turning = {}
  BY <1>1, InterruptTypes DEF Inv
<1>5. /\ Running(before) = Running(timersBuf)
      /\ \A i \in Timer \ General : before[i] = timersBuf[i]
      /\ \A i \in Running(timersBuf) \ matching : before[i] = timersBuf[i]
      /\ \A i \in matching :
            /\ i \in Running(timersBuf)
            /\ before[i] = Called(timersBuf[i])
            /\ Masked(timersBuf[i].currentCompareValue - currentCompareValue) < WINDOW
  BY <1>1, InterruptFinds
<1>6. /\ over \subseteq matching \cap General
      /\ turning = (matching \cap General) \ over
      /\ \A i \in turning : ~IsOver(before[i])
  BY <1>1 DEF Interrupts
<1>7. /\ counter \in 0..MAX_TICKS /\ currentCompareValue \in 0..MAX_TICKS
      /\ TypeOK /\ timersBuf \in [Timer -> Entry]
  BY InvFacts DEF Inv, TypeOK
<1>8. \A i \in Timer : /\ left'[i] = LeftAfter(before, arms, over, i)
                       /\ asked'[i] = AskedAfter(arms, over, i)
  BY <1>1 DEF Interrupts
<1>9. \A i \in Timer : after[i] = AfterTurn(before, arms, over, turning, i)
  OBVIOUS
<1>10. /\ timersBuf' = after
       /\ SelectNext(after, currentCompareValue, FALSE)
       /\ after \in [Timer -> Entry]
  BY <1>1 DEF Interrupts, TypeOK
<1>. HIDE DEF after
\* What the MAC arms.
<1>11. ASSUME NEW i \in DOMAIN arms
       PROVE  /\ after[i].isrunning /\ left'[i] \in Nat
              /\ Agrees(i, after[i], asked'[i], left'[i], counter, currentCompareValue)
  <2>1. i \in Timer \ General /\ arms[i] \in SlotDelay
    BY <1>4
  <2>2. /\ after[i] = Scheduled(before[i], arms[i], counter, FALSE) /\ left'[i] = arms[i]
        /\ asked'[i] = AskedFor(left'[i])
    BY <1>4, <1>8, <1>9, <2>1 DEF AfterTurn, LeftAfter, AskedAfter
  <2>3. before[i] \in Entry
    BY <1>4, <2>1
  <2>4. arms[i] \in Nat /\ arms[i] + Lateness <= Horizon
    BY <2>1, TimelyFacts
  <2>5. Overdue <= Lateness
    <3>1. TIMER_TSCH \in matching
      BY <1>4
    <3>2. /\ Ahead(timersBuf[TIMER_TSCH], counter, currentCompareValue) = -Overdue
          /\ left[TIMER_TSCH] = -Overdue
      <4>1. TIMER_TSCH \notin General /\ TIMER_TSCH \in Timer
            /\ TIMER_TSCH \in Running(timersBuf)
        BY RunningFacts, MacTimers
      <4>2. timersBuf[TIMER_TSCH].currentCompareValue = currentCompareValue
        BY <1>1, <1>5, <3>1, <4>1 DEF Interrupts, Matches
      <4>3. Masked(0) = 0
        BY MaskedNear, ClockFacts
      <4>4. currentCompareValue - currentCompareValue = 0
        BY <1>7
      <4>5. Ahead(timersBuf[TIMER_TSCH], counter, currentCompareValue) = -Overdue
        BY <1>3, <4>2, <4>3, <4>4 DEF Ahead
      <4>. QED BY <1>3, <4>1, <4>5 DEF Agrees
    <3>3. \/ Ahead(timersBuf[TIMER_TSCH], counter, lastCompareValue) >= -Lateness
          \/ left[TIMER_TSCH] >= 0
      BY RunningFacts, InvFacts
    <3>4. Ahead(timersBuf[TIMER_TSCH], counter, lastCompareValue) = -Overdue
      BY <1>3, <3>2, RunningFacts
    <3>. QED BY <1>3, <3>2, <3>3, <3>4, TimelyFacts
  <2>6. Since(counter, currentCompareValue) + arms[i] <= Horizon
    BY <1>3, <2>4, <2>5, TimelyFacts
  <2>7. Agrees(i, Scheduled(before[i], arms[i], counter, FALSE), AskedFor(arms[i]), arms[i],
               counter, currentCompareValue)
    BY <1>7, <2>1, <2>3, <2>6, MacArmed
  <2>8. after[i].isrunning
    BY <2>2, <2>3 DEF Scheduled, Entry
  <2>. QED BY <2>2, <2>4, <2>7, <2>8
\* A periodic timer starts again.
<1>12. ASSUME NEW i \in over, after[i].isrunning
       PROVE  /\ left'[i] \in Nat
              /\ Agrees(i, after[i], asked'[i], left'[i], counter, currentCompareValue)
  <2>1. i \in General /\ i \in Timer /\ i \notin DOMAIN arms /\ i \notin turning
        /\ i \in Running(timersBuf)
    BY <1>4, <1>5, <1>6, MacTimers
  <2>2. /\ after[i] = Expired(before[i]) /\ left'[i] = before[i].duration
        /\ asked'[i] = AskedFor(left'[i])
    BY <1>8, <1>9, <1>12, <2>1 DEF AfterTurn, LeftAfter, AskedAfter
  <2>3. before[i] \in Entry
    BY <1>4, <2>1
  <2>4. before[i].duration \in Nat /\ ADVANCE <= before[i].duration
    <3>1. before[i].duration = timersBuf[i].duration
      <4>1. before[i] = Called(timersBuf[i]) /\ timersBuf[i] \in Entry
        BY <1>5, <1>6, <1>7, <2>1
      <4>. QED BY <4>1 DEF Called, Entry
    <3>2. timersBuf[i].duration >= ADVANCE
      BY <1>3, <2>1 DEF Agrees
    <3>. QED BY <2>3, <3>1, <3>2, TimelyFacts DEF Entry
  <2>5. after[i] = Scheduled(before[i], before[i].duration, counter, TRUE)
    <3>1. before[i].periodic
      BY <1>12, <2>2, <2>3 DEF Expired, Entry
    <3>. QED BY <2>2, <3>1 DEF Expired
  <2>6. Agrees(i, Scheduled(before[i], before[i].duration, counter, TRUE),
               AskedFor(before[i].duration), before[i].duration, counter, currentCompareValue)
    BY <1>3, <1>7, <2>1, <2>3, <2>4, TaskArmed
  <2>. QED BY <2>2, <2>4, <2>5, <2>6
\* A long one goes on.
<1>13. ASSUME NEW i \in turning
       PROVE  /\ Agrees(i, after[i], asked'[i], left'[i], counter, currentCompareValue)
              /\ Ahead(after[i], counter, currentCompareValue)
                    >= Ahead(timersBuf[i], counter, currentCompareValue)
              /\ left'[i] = left[i] /\ asked'[i] = asked[i] /\ i \in Running(timersBuf)
  <2>1. /\ i \in General /\ i \in Timer /\ i \notin DOMAIN arms /\ i \notin over
        /\ i \in Running(timersBuf)
        /\ before[i] = Called(timersBuf[i])
        /\ Masked(timersBuf[i].currentCompareValue - currentCompareValue) < WINDOW
    BY <1>4, <1>5, <1>6, MacTimers
  <2>2. after[i] = NextTurn(Called(timersBuf[i])) /\ left'[i] = left[i] /\ asked'[i] = asked[i]
    BY <1>8, <1>9, <1>13, <2>1 DEF AfterTurn, LeftAfter, AskedAfter
  <2>3. ~IsOver(Called(timersBuf[i]))
    BY <1>6, <2>1
  <2>4. timersBuf[i] \in Entry /\ left[i] \in Int /\ asked[i] \in Asked
    BY <1>7, <2>1 DEF TypeOK
  <2>5. Agrees(i, timersBuf[i], asked[i], left[i], counter, currentCompareValue)
    BY <1>3, <2>1
  <2>6. /\ Agrees(i, NextTurn(Called(timersBuf[i])), asked[i], left[i], counter, currentCompareValue)
        /\ Ahead(NextTurn(Called(timersBuf[i])), counter, currentCompareValue)
              >= Ahead(timersBuf[i], counter, currentCompareValue)
    BY <1>7, <2>1, <2>3, <2>4, <2>5, TurnAgrees
  <2>. QED BY <2>1, <2>2, <2>6
\* The others are not touched.
<1>14. ASSUME NEW i \in Timer, i \notin DOMAIN arms, i \notin over, i \notin turning
       PROVE  /\ after[i] = before[i] /\ left'[i] = left[i] /\ asked'[i] = asked[i]
              /\ before[i].isrunning => /\ i \in Running(timersBuf)
                                        /\ after[i] = timersBuf[i]
  <2>1. after[i] = before[i] /\ left'[i] = left[i] /\ asked'[i] = asked[i]
    BY <1>8, <1>9, <1>14 DEF AfterTurn, LeftAfter, AskedAfter
  <2>2. before[i].isrunning => i \in Running(timersBuf)
    BY <1>5 DEF Running
  <2>3. CASE i \notin General
    BY <1>5, <2>1, <2>2, <2>3
  <2>4. CASE i \in General
    <3>1. i \notin matching
      BY <1>6, <1>14, <2>4
    <3>. QED BY <1>5, <2>1, <2>2, <3>1
  <2>. QED BY <2>3, <2>4
<1>15. ASSUME NEW i \in Running(after)
       PROVE  /\ Agrees(i, after[i], asked'[i], left'[i], counter, currentCompareValue)
              /\ Ahead(after[i], counter, currentCompareValue) >= -Lateness \/ left'[i] >= 0
  <2>1. i \in Timer /\ after[i].isrunning
    BY DEF Running
  <2>2. CASE i \in DOMAIN arms
    BY <1>11, <2>2
  <2>3. CASE i \in over
    BY <1>12, <2>1, <2>3
  <2>4. CASE i \in turning
    <3>1. \/ Ahead(timersBuf[i], counter, currentCompareValue) >= -Lateness
          \/ left'[i] >= 0
      BY <1>3, <1>13, <2>4, InvFacts
    <3>2. /\ Ahead(timersBuf[i], counter, currentCompareValue) \in Int
          /\ Ahead(after[i], counter, currentCompareValue) \in Int
      <4>1. timersBuf[i].currentCompareValue - currentCompareValue \in Int
            /\ after[i].currentCompareValue - currentCompareValue \in Int
        BY <1>7, <1>10, <2>1 DEF Entry
      <4>. QED BY <1>3, <4>1, MaskedRange DEF Ahead
    <3>. QED BY <1>13, <2>4, <3>1, <3>2, TimelyFacts
  <2>5. CASE i \notin DOMAIN arms /\ i \notin over /\ i \notin turning
    <3>1. /\ i \in Running(timersBuf) /\ after[i] = timersBuf[i]
          /\ left'[i] = left[i] /\ asked'[i] = asked[i]
      BY <1>14, <2>1, <2>5
    <3>2. \/ Ahead(timersBuf[i], counter, currentCompareValue) >= -Lateness
          \/ left[i] >= 0
      BY <1>3, <3>1, InvFacts
    <3>. QED BY <1>3, <3>1, <3>2
  <2>. QED BY <2>2, <2>3, <2>4, <2>5
<1>16. after[TIMER_TSCH].isrunning
  <2>1. TIMER_TSCH \notin over /\ TIMER_TSCH \notin turning /\ TIMER_TSCH \in Timer
    BY <1>6, RunningFacts, MacTimers
  <2>2. CASE TIMER_TSCH \in DOMAIN arms
    BY <1>11, <2>2
  <2>3. CASE TIMER_TSCH \notin DOMAIN arms
    BY <1>5, <1>14, <2>1, <2>3, RunningFacts DEF Running
  <2>. QED BY <2>2, <2>3
<1>17. after[TIMER_INHIBIT].isrunning => left'[TIMER_INHIBIT] >= -Latency
  <2>1. TIMER_INHIBIT \notin over /\ TIMER_INHIBIT \notin turning /\ TIMER_INHIBIT \in Timer
    BY <1>6, RunningFacts, MacTimers
  <2>2. CASE TIMER_INHIBIT \in DOMAIN arms
    BY <1>11, <2>2, TimelyFacts
  <2>3. CASE TIMER_INHIBIT \notin DOMAIN arms
    BY <1>14, <2>1, <2>3, RunningFacts, InvFacts
  <2>. QED BY <2>2, <2>3
<1>. QED BY <1>2, <1>3, <1>7, <1>10, <1>15, <1>16, <1>17, SelectedHolds

LEMMA InvNext ==
  ASSUME Timely, Inv, [Next]_vars
  PROVE  Inv'
<1>1. TypeOK'
  BY TypeNext DEF Inv
<1>2. CASE UNCHANGED vars
  BY <1>2 DEF vars, driver, hardware, ghosts, Inv, TypeOK, TimersAgree, FirstSelected,
              PendingInTime, RegisterToCome, Overdue, Pending
<1>3. CASE TaskCalls
  BY <1>1, <1>3, TaskCreates, TaskStops, TaskUpdates, TaskSchedules DEF TaskCalls
<1>4. CASE RadioInterrupt \/ EndOfSlot
  BY <1>1, <1>4, MacSchedulesOne, MacTimers, RunningFacts DEF RadioInterrupt, EndOfSlot
<1>. QED BY <1>1, <1>2, <1>3, <1>4, InhibitHolds, InterruptHolds, TickHolds DEF Next

LEMMA InvHolds ==
  ASSUME Timely
  PROVE  Spec => []Inv
<1>1. Init => Inv
  BY InitHolds
<1>2. Inv /\ [Next]_vars => Inv'
  BY InvNext
<1>. QED BY <1>1, <1>2, PTL DEF Spec

-----------------------------------------------------------------------------
(* No timer is late, and none is early *)

LEMMA InvInTime ==
  ASSUME Timely, Inv
  PROVE  EveryTimerInTime
<1>. SUFFICES ASSUME NEW i \in Running(timersBuf)
              PROVE  left[i] >= -Late(asked[i])
  BY DEF EveryTimerInTime
<1>1. /\ i \in Timer /\ timersBuf[i] \in Entry /\ left[i] \in Int
      /\ lastCompareValue \in Int
  BY RunningFacts DEF Inv, TypeOK
<1>2. Ahead(timersBuf[i], counter, lastCompareValue) \in Int
  <2>1. timersBuf[i].currentCompareValue - lastCompareValue \in Int
    BY <1>1 DEF Entry
  <2>. QED BY <2>1, MaskedRange, InvFacts DEF Ahead
<1>3. Ahead(timersBuf[i], counter, lastCompareValue) >= -Lateness \/ left[i] >= 0
  BY InvFacts
<1>4. Agrees(i, timersBuf[i], asked[i], left[i], counter, lastCompareValue)
  BY DEF Inv, TimersAgree
<1>5. CASE i \notin General \/ IsShort(asked[i].duration)
  <2>1. left[i] = Ahead(timersBuf[i], counter, lastCompareValue)
    BY <1>4, <1>5 DEF Agrees
  <2>2. Late(asked[i]) >= Lateness /\ Late(asked[i]) \in Nat
    BY TimelyFacts, ClockFacts DEF Late
  <2>. QED BY <1>1, <1>3, <2>1, <2>2, TimelyFacts
<1>6. CASE i \in General /\ ~IsShort(asked[i].duration)
  <2>1. left[i] >= Ahead(timersBuf[i], counter, lastCompareValue)
                      + timersBuf[i].wraps_remaining * MAX_TICKS - Clock
    BY <1>4, <1>6 DEF Agrees
  <2>2. timersBuf[i].wraps_remaining * MAX_TICKS \in Nat
    <3>1. timersBuf[i].wraps_remaining \in Nat
      BY <1>1 DEF Entry
    <3>. QED BY <3>1, ClockFacts
  <2>3. Late(asked[i]) = Lateness + Clock
    BY <1>6 DEF Late
  <2>. QED BY <1>1, <1>2, <1>3, <2>1, <2>2, <2>3, TimelyFacts, ClockFacts
<1>. QED BY <1>5, <1>6

LEMMA InhibitNotEarly ==
  ASSUME Timely, Inv, InhibitInterrupt
  PROVE  NoTimerTooEarly'
<1>1. TIMER_INHIBIT \in Running(timersBuf) /\ TIMER_INHIBIT \notin General
      /\ timersBuf[TIMER_INHIBIT].currentCompareValue = currentCompareValue
      /\ Pending
      /\ expired' = {<<TIMER_INHIBIT, left[TIMER_INHIBIT], asked[TIMER_INHIBIT]>>}
  BY RunningFacts DEF InhibitInterrupt, InhibitExpires, Expires
<1>2. left[TIMER_INHIBIT] = -Overdue
  <2>1. left[TIMER_INHIBIT] = Masked(currentCompareValue - lastCompareValue)
                                 - Since(counter, lastCompareValue)
    BY <1>1 DEF Inv, TimersAgree, Agrees, Ahead
  <2>. QED BY <2>1, InvFacts DEF Overdue
<1>3. left[TIMER_INHIBIT] < ADVANCE
  BY <1>1, <1>2, SeenFromCurrent, TimelyFacts
<1>. QED BY <1>1, <1>3 DEF NoTimerTooEarly

LEMMA InterruptNotEarly ==
  ASSUME Timely, Inv, TimerInterrupt
  PROVE  NoTimerTooEarly'
<1>1. PICK before, matching, over, turning, arms :
              Interrupts(before, matching, over, turning, arms)
  BY InterruptSteps
<1>2. Pending
  BY DEF TimerInterrupt
<1>3. /\ Since(counter, currentCompareValue) = Overdue
      /\ Overdue \in Int /\ Overdue > -ADVANCE
      /\ \A i \in Running(timersBuf) :
            Agrees(i, timersBuf[i], asked[i], left[i], counter, currentCompareValue)
  BY <1>2, SeenFromCurrent
<1>4. /\ before \in [Timer -> Entry]
      /\ (DOMAIN arms) \cap over = {}
      /\ over \cap turning = {}
  BY <1>1, InterruptTypes DEF Inv
<1>5. /\ \A i \in Timer \ General : before[i] = timersBuf[i]
      /\ \A i \in matching :
            /\ i \in Running(timersBuf)
            /\ before[i] = Called(timersBuf[i])
            /\ Masked(timersBuf[i].currentCompareValue - currentCompareValue) < WINDOW
  BY <1>1, InterruptFinds
<1>6. /\ over = {i \in matching \cap General : IsOver(before[i])}
      /\ timersBuf' = [i \in Timer |-> AfterTurn(before, arms, over, turning, i)]
      /\ expired' = {Expires(i) : i \in over \cup (matching \cap {TIMER_TSCH})}
  BY <1>1 DEF Interrupts
<1>7. ASSUME NEW i \in over
      PROVE  i \in General /\ left[i] < Early(asked[i])
  <2>1. /\ i \in General /\ i \in matching /\ i \in Timer /\ IsOver(before[i])
        /\ i \in Running(timersBuf)
    BY <1>5, <1>6, MacTimers
  <2>2. /\ before[i] = Called(timersBuf[i]) /\ timersBuf[i] \in Entry
        /\ left[i] \in Int /\ asked[i] \in Asked
    BY <1>5, <2>1 DEF Inv, TypeOK
  <2>3. left[i] < Early(asked[i])
    BY <1>3, <1>5, <2>1, <2>2, OverSoonEnough DEF Inv
  <2>. QED BY <2>1, <2>3
<1>8. ASSUME TIMER_TSCH \in matching
      PROVE  TIMER_TSCH \notin General /\ left[TIMER_TSCH] < ADVANCE
  <2>1. TIMER_TSCH \notin General /\ TIMER_TSCH \in Timer /\ TIMER_TSCH \in Running(timersBuf)
    BY RunningFacts, MacTimers DEF Inv
  <2>2. timersBuf[TIMER_TSCH].currentCompareValue = currentCompareValue
    BY <1>1, <1>5, <1>8, <2>1 DEF Interrupts, Matches
  <2>3. currentCompareValue - currentCompareValue = 0 /\ Masked(0) = 0
    BY MaskedNear, ClockFacts DEF Inv, TypeOK
  <2>4. left[TIMER_TSCH] = -Overdue
    BY <1>3, <2>1, <2>2, <2>3 DEF Agrees, Ahead
  <2>. QED BY <1>3, <2>1, <2>4, TimelyFacts
<1>9. ASSUME NEW e \in expired'
      PROVE  e[2] < IF e[1] \in General THEN Early(e[3]) ELSE ADVANCE
  <2>1. PICK i \in over \cup (matching \cap {TIMER_TSCH}) : e = <<i, left[i], asked[i]>>
    BY <1>6 DEF Expires
  <2>2. CASE i \in over
    BY <1>7, <2>1, <2>2
  <2>3. CASE i \in matching \cap {TIMER_TSCH}
    BY <1>8, <2>1, <2>3
  <2>. QED BY <2>1, <2>2, <2>3
<1>. QED BY <1>9 DEF NoTimerTooEarly

LEMMA NotEarlyNext ==
  ASSUME Timely, Inv, NoTimerTooEarly, [Next]_vars
  PROVE  NoTimerTooEarly'
<1>1. CASE expired' = {}
  BY <1>1 DEF NoTimerTooEarly
<1>2. CASE UNCHANGED vars
  BY <1>2 DEF vars, driver, ghosts, NoTimerTooEarly
<1>3. CASE TaskCalls \/ RadioInterrupt \/ EndOfSlot \/ Tick
  <2>1. expired' = {}
    BY <1>3 DEF TaskCalls, RadioInterrupt, EndOfSlot, Tick, opentimers_create,
                opentimers_cancel, opentimers_destroy, opentimers_updateDuration,
                opentimers_scheduleIn, opentimers_scheduleAbsolute, Sets
  <2>. QED BY <1>1, <2>1
<1>. QED BY <1>2, <1>3, InhibitNotEarly, InterruptNotEarly DEF Next

\* No timer is forgotten, on the boards of Timely: each fires at most the waiting
\* of the interrupt and the break after the time it was started for, a long one a
\* turn more, though its duration be changed in mid-run.
THEOREM OpenTimersEveryTimerInTime ==
  ASSUME Timely
  PROVE  Spec => []EveryTimerInTime
<1>1. Inv => EveryTimerInTime
  BY InvInTime
<1>. QED BY <1>1, InvHolds, PTL

\* And no timer fires before the time it was started for by more than the
\* hardware's advance and the window of the early calls, a long one by the turn it
\* lost too, and by its last one when its duration was changed in mid-run.
THEOREM OpenTimersNoTimerTooEarly ==
  ASSUME Timely
  PROVE  Spec => []NoTimerTooEarly
<1>1. Init => NoTimerTooEarly
  BY DEF Init, NoTimerTooEarly
<1>2. Inv /\ NoTimerTooEarly /\ [Next]_vars => NoTimerTooEarly'
  BY NotEarlyNext
<1>. QED BY <1>1, <1>2, InvHolds, PTL DEF Spec
=============================================================================
