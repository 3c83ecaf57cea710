----------------------------- MODULE Scheduler ------------------------------
(***************************************************************************)
(* The OpenOS scheduler (kernel/openos/scheduler.c): a fixed array of task  *)
(* containers, threaded into a list by priority, filled from tasks and from *)
(* interrupt handlers by scheduler_push_task and emptied by the main loop   *)
(* scheduler_start.                                                         *)
(*                                                                          *)
(* scheduler_push_task and the pop of the main loop run with interrupts     *)
(* disabled: each is one action.  The main loop frees a container with      *)
(* interrupts enabled, one assignment after the other: each is an action,   *)
(* and an interrupt handler may push between them.                          *)
(*                                                                          *)
(* Every container is on the list at most once, so the list is kept as the  *)
(* sequence of its containers; writing NULL to the next field of a          *)
(* container on the list cuts the sequence there.                           *)
(***************************************************************************)
EXTENDS Sequences, Naturals

CONSTANTS
    TASK_LIST_DEPTH,   \* number of task containers
    Task,              \* the callbacks pushed
    Prio,              \* the priority each callback is pushed with
    NULL,              \* no callback
    Ports              \* the ports considered.  TRUE: interrupts preempt the
                       \* main loop (hardware); FALSE: they are only delivered
                       \* by board_sleep (the python port, where the interrupt
                       \* macros are empty)

ASSUME DepthAssumption == TASK_LIST_DEPTH \in Nat \ {0}
ASSUME PrioAssumption  == Prio \in [Task -> Nat \ {0}]
ASSUME NullAssumption  == NULL \notin Task
ASSUME PortAssumption  == Ports \subseteq BOOLEAN

Container     == 1..TASK_LIST_DEPTH
TASKPRIO_NONE == 0

VARIABLES
    cb,          \* the callback of each container, NULL when it is free
    prio,        \* the priority of each container
    task_list,   \* the containers on the list, in the order they will run
    pThisTask,   \* the container the main loop popped last
    pc,          \* where the main loop is
    preemptive   \* the port the program runs on: never changes

vars == <<cb, prio, task_list, pThisTask, pc>>

Freeing == {"freeCb", "freePrio", "freeNext"}

TypeOK ==
    /\ cb \in [Container -> Task \cup {NULL}]
    /\ prio \in [Container -> Nat]
    /\ task_list \in Seq(Container)
    /\ pThisTask \in Container
    /\ pc \in {"check", "pop", "run", "sleep", "asleep"} \cup Freeing
    /\ preemptive \in Ports

scheduler_init ==
    /\ cb = [c \in Container |-> NULL]
    /\ prio = [c \in Container |-> TASKPRIO_NONE]
    /\ task_list = <<>>
    /\ pThisTask = 1
    /\ pc = "check"
    /\ preemptive \in Ports

Listed == {task_list[i] : i \in 1..Len(task_list)}

-----------------------------------------------------------------------------
(* Plausible slips: each replaces the definition it is named after in one   *)
(* run, and must break the property that run checks.                        *)

FreeContainer_NoEndOfArray ==
    {c \in 1..(TASK_LIST_DEPTH + 1) : c > TASK_LIST_DEPTH \/ cb[c] = NULL}

StopsAt_End(k, p) == k = Len(task_list)

StopsAt_BeforeEqual(k, p) ==
    /\ \A i \in 1..k : prio[task_list[i]] < p
    /\ k < Len(task_list) => prio[task_list[k + 1]] >= p

Check_LeavesLast ==
    /\ pc = "check"
    /\ pc' = IF Len(task_list) > 1 THEN "pop" ELSE "sleep"
    /\ UNCHANGED <<cb, prio, task_list, pThisTask>>

Pop_FreesFirst ==
    /\ pc = "pop"
    /\ pThisTask' = Head(task_list)
    /\ task_list' = Tail(task_list)
    /\ cb' = [cb EXCEPT ![Head(task_list)] = NULL]
    /\ pc' = "run"
    /\ UNCHANGED prio

-----------------------------------------------------------------------------
(* scheduler_push_task *)

FreeContainer == {c \in Container : cb[c] = NULL}

\* The walk goes past the containers at least as urgent as p and stops at the
\* first that is less urgent, or at the end.
StopsAt(k, p) ==
    /\ \A i \in 1..k : prio[task_list[i]] <= p
    /\ k < Len(task_list) => prio[task_list[k + 1]] > p

PushTask(t) ==
    \E c \in FreeContainer, k \in 0..Len(task_list) :
        /\ \A d \in FreeContainer : c <= d
        /\ StopsAt(k, Prio[t])
        /\ cb' = [cb EXCEPT ![c] = t]
        /\ prio' = [prio EXCEPT ![c] = Prio[t]]
        /\ task_list' = SubSeq(task_list, 1, k) \o <<c>>
                          \o SubSeq(task_list, k + 1, Len(task_list))
        /\ UNCHANGED pThisTask

\* No container is free: board_reset, which starts again from scheduler_init.
BoardReset ==
    /\ FreeContainer = {}
    /\ cb' = [c \in Container |-> NULL]
    /\ prio' = [c \in Container |-> TASKPRIO_NONE]
    /\ task_list' = <<>>
    /\ pThisTask' = 1
    /\ pc' = "check"

-----------------------------------------------------------------------------
(* scheduler_start *)

Check ==
    /\ pc = "check"
    /\ pc' = IF task_list # <<>> THEN "pop" ELSE "sleep"
    /\ UNCHANGED <<cb, prio, task_list, pThisTask>>

Pop ==
    /\ pc = "pop"
    /\ pThisTask' = Head(task_list)
    /\ task_list' = Tail(task_list)
    /\ pc' = "run"
    /\ UNCHANGED <<cb, prio>>

Return ==
    /\ pc = "run"
    /\ pc' = "freeCb"
    /\ UNCHANGED <<cb, prio, task_list, pThisTask>>

FreeCb ==
    /\ pc = "freeCb"
    /\ cb' = [cb EXCEPT ![pThisTask] = NULL]
    /\ pc' = "freePrio"
    /\ UNCHANGED <<prio, task_list, pThisTask>>

FreePrio ==
    /\ pc = "freePrio"
    /\ prio' = [prio EXCEPT ![pThisTask] = TASKPRIO_NONE]
    /\ pc' = "freeNext"
    /\ UNCHANGED <<cb, task_list, pThisTask>>

FreeNext ==
    /\ pc = "freeNext"
    /\ \/ /\ pThisTask \notin Listed
          /\ UNCHANGED task_list
       \/ \E k \in 1..Len(task_list) :
            /\ task_list[k] = pThisTask
            /\ task_list' = SubSeq(task_list, 1, k)
    /\ pc' = "check"
    /\ UNCHANGED <<cb, prio, pThisTask>>

\* board_sleep stops the core whatever was pushed since the list was checked.
Sleep ==
    /\ pc = "sleep"
    /\ pc' = "asleep"
    /\ UNCHANGED <<cb, prio, task_list, pThisTask>>

-----------------------------------------------------------------------------
(* The tasks and the interrupt handlers *)

\* The task being run pushes a task.
TaskPushes(t) ==
    /\ pc = "run"
    /\ \/ PushTask(t) /\ UNCHANGED pc
       \/ BoardReset

\* An interrupt handler pushes a task; an interrupt ends board_sleep.
IsrPushes(t) ==
    /\ preemptive \/ pc = "asleep"
    /\ \/ PushTask(t) /\ pc' = IF pc = "asleep" THEN "check" ELSE pc
       \/ BoardReset

\* An interrupt that pushes nothing.
IsrWakes ==
    /\ pc = "asleep"
    /\ pc' = "check"
    /\ UNCHANGED <<cb, prio, task_list, pThisTask>>

MainLoop ==
    \/ Check \/ Pop \/ Return
    \/ FreeCb \/ FreePrio \/ FreeNext
    \/ Sleep

Step ==
    \/ MainLoop
    \/ \E t \in Task : TaskPushes(t)
    \/ \E t \in Task : IsrPushes(t)
    \/ IsrWakes

Next == Step /\ UNCHANGED preemptive

Spec == scheduler_init /\ [][Next]_<<vars, preemptive>>

\* The core executes the main loop whenever it is not asleep (a task returns),
\* and the slot timer of the MAC layer keeps interrupting.
FairSpec == Spec /\ WF_vars(MainLoop) /\ WF_vars(IsrWakes)

-----------------------------------------------------------------------------
(* Properties *)

\* scheduler_start never calls a NULL callback, never runs a container twice
\* and never runs one that a push has handed out again, even when an interrupt
\* handler pushes in the middle of the freeing of a container.
RunsOnlyPushedTasks ==
    /\ \A i \in 1..Len(task_list) : cb[task_list[i]] # NULL
    /\ \A i, j \in 1..Len(task_list) : task_list[i] = task_list[j] => i = j
    /\ pc \in {"run", "freeCb"} => cb[pThisTask] # NULL /\ pThisTask \notin Listed
    /\ pc = "pop" => task_list # <<>>

\* A container that holds a task is on the list until its task is run: no
\* pushed task is forgotten and no container leaks.
NoTaskLost ==
    \A c \in Container :
        cb[c] # NULL => \/ c \in Listed
                        \/ pc \in {"run", "freeCb"} /\ c = pThisTask

\* The same on the port where interrupts cannot come between two statements of
\* the main loop (proved; scheduler_ports checks it through ImplementsTaskPool).
NoTaskLostUnpreempted == ~preemptive => NoTaskLost

\* On that port the list is in priority order, so the task started is the most
\* urgent one (a preempted freeing may clear the priority of a listed container).
MostUrgentFirst ==
    ~preemptive =>
        \A i, j \in 1..Len(task_list) :
            i <= j => prio[task_list[i]] <= prio[task_list[j]]

\* A task at the head of the list is not left there for ever.
HeadIsStarted ==
    \A c \in Container :
        (task_list # <<>> /\ Head(task_list) = c) ~>
            (task_list = <<>> \/ Head(task_list) # c \/ pc = "run")

\* On that port the scheduler implements the task pool: the containers of the
\* list, read through their callbacks, are the tasks waiting.
waitingTasks == [i \in 1..Len(task_list) |-> cb[task_list[i]]]
runningTask  == IF pc \in {"run", "freeCb"} THEN cb[pThisTask] ELSE NULL

Pool == INSTANCE TaskPool WITH NoTask  <- NULL,
                               waiting <- waitingTasks,
                               running <- runningTask

ImplementsTaskPool ==
    /\ ~preemptive => Pool!PoolInit
    /\ [][~preemptive => Pool!PoolNext]_Pool!poolVars
=============================================================================
