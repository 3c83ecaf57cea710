------------------------------ MODULE TaskPool ------------------------------
(***************************************************************************)
(* What the OpenOS scheduler promises to the tasks pushed to it: nothing    *)
(* pushed is forgotten, the next task to run is the oldest one of the most  *)
(* urgent priority, and at most one task runs at a time.  A smaller number  *)
(* is a more urgent priority.                                               *)
(***************************************************************************)
EXTENDS Sequences, Naturals

CONSTANTS
    Task,        \* the callbacks that can be pushed
    Prio,        \* the priority each of them is pushed with
    NoTask       \* no task is running

VARIABLES
    waiting,     \* the tasks pushed and not yet started, in starting order
    running      \* the task being run, or NoTask

poolVars == <<waiting, running>>

PoolInit ==
    /\ waiting = <<>>
    /\ running = NoTask

\* t goes after every waiting task that is at least as urgent, and before the
\* others: within a priority tasks start in the order they were pushed.
Enqueued(q, t) ==
    LET Ahead == {i \in 1..Len(q) : Prio[q[i]] <= Prio[t]}
    IN  \E k \in 0..Len(q) :
          /\ Ahead = 1..k
          /\ waiting' = SubSeq(q, 1, k) \o <<t>> \o SubSeq(q, k + 1, Len(q))

Push(t) ==
    /\ Enqueued(waiting, t)
    /\ UNCHANGED running

Start ==
    /\ running = NoTask
    /\ waiting # <<>>
    /\ running' = Head(waiting)
    /\ waiting' = Tail(waiting)

Finish ==
    /\ running # NoTask
    /\ running' = NoTask
    /\ UNCHANGED waiting

\* The board resets when a task is pushed and there is no room for it.
Reset ==
    /\ waiting' = <<>>
    /\ running' = NoTask

PoolNext ==
    \/ \E t \in Task : Push(t)
    \/ Start
    \/ Finish
    \/ Reset

PoolSpec == PoolInit /\ [][PoolNext]_poolVars
=============================================================================
