-------------------------- MODULE Scheduler_proofs --------------------------
(***************************************************************************)
(* Theorems about the scheduler, for any number of containers, any set of   *)
(* tasks and any priorities.                                                *)
(***************************************************************************)
EXTENDS Scheduler, SequenceTheorems, TLAPS

\* What inserting e after the first k elements of s gives.
Inserted(s, e, k) ==
    SubSeq(s, 1, k) \o <<e>> \o SubSeq(s, k + 1, Len(s))

\* Insertion is one element longer and keeps the order of the others.
LEMMA InsertedProperties ==
    ASSUME NEW S, NEW s \in Seq(S), NEW e \in S, NEW k \in 0..Len(s)
    PROVE  /\ Inserted(s, e, k) \in Seq(S)
           /\ Len(Inserted(s, e, k)) = Len(s) + 1
           /\ \A i \in 1..(Len(s) + 1) :
                Inserted(s, e, k)[i] = IF i <= k THEN s[i]
                                       ELSE IF i = k + 1 THEN e ELSE s[i - 1]
<1> DEFINE a == SubSeq(s, 1, k)
           b == SubSeq(s, k + 1, Len(s))
           c == a \o <<e>>
<1>0. Len(s) \in Nat /\ k \in Nat /\ k <= Len(s)
  OBVIOUS
<1>1. a \in Seq(S) /\ Len(a) = k /\ \A i \in 1..k : a[i] = s[i]
  OBVIOUS
<1>2. b \in Seq(S) /\ Len(b) = Len(s) - k /\ \A i \in 1..(Len(s) - k) : b[i] = s[k + i]
  OBVIOUS
<1>3. /\ c \in Seq(S)
      /\ Len(c) = k + 1
      /\ \A i \in 1..(k + 1) : c[i] = IF i <= k THEN s[i] ELSE e
  BY <1>1
<1> HIDE DEF a, b, c
<1>4. /\ c \o b \in Seq(S)
      /\ Len(c \o b) = Len(c) + Len(b)
      /\ \A i \in 1..(Len(c) + Len(b)) :
           (c \o b)[i] = IF i <= Len(c) THEN c[i] ELSE b[i - Len(c)]
  BY <1>2, <1>3, ConcatProperties
<1>5. Inserted(s, e, k) = c \o b
  BY DEF Inserted, a, b, c
<1>6. Len(c) + Len(b) = Len(s) + 1
  BY <1>0, <1>2, <1>3
<1>7. ASSUME NEW i \in 1..(Len(s) + 1)
      PROVE  (c \o b)[i] = IF i <= k THEN s[i] ELSE IF i = k + 1 THEN e ELSE s[i - 1]
  <2>1. CASE i <= k + 1
    <3>1. (c \o b)[i] = c[i]
      BY <1>0, <1>3, <1>4, <1>6, <2>1
    <3> QED
      BY <1>0, <1>3, <2>1, <3>1
  <2>2. CASE i > k + 1
    <3>1. (c \o b)[i] = b[i - (k + 1)]
      BY <1>0, <1>3, <1>4, <1>6, <2>2
    <3>2. i - (k + 1) \in 1..(Len(s) - k) /\ k + (i - (k + 1)) = i - 1
      BY <1>0, <2>2
    <3>3. b[i - (k + 1)] = s[i - 1]
      BY <1>2, <3>2
    <3> QED
      BY <1>0, <2>2, <3>1, <3>3
  <2>3. i <= k + 1 \/ i > k + 1
    BY <1>0
  <2> QED
    BY <2>1, <2>2, <2>3
<1> QED
  BY <1>4, <1>5, <1>6, <1>7

-----------------------------------------------------------------------------
(* Types, and what the main loop runs *)

\* A push inserts one free container in the list and touches no other.
LEMMA PushTaskInserts ==
    ASSUME TypeOK, NEW t \in Task, PushTask(t)
    PROVE  \E c \in FreeContainer, k \in 0..Len(task_list) :
             /\ cb' = [cb EXCEPT ![c] = t]
             /\ prio' = [prio EXCEPT ![c] = Prio[t]]
             /\ task_list' = Inserted(task_list, c, k)
             /\ StopsAt(k, Prio[t])
             /\ pThisTask' = pThisTask
  BY DEF PushTask, Inserted

\* The invariant of the scheduler on every port.
Inv == TypeOK /\ RunsOnlyPushedTasks

LEMMA PushTaskInv ==
    ASSUME Inv, NEW t \in Task, PushTask(t), pc' \in {pc, "check"},
           pc' = "check" => pc \in {"check", "asleep"}, UNCHANGED preemptive
    PROVE  Inv'
<1>1. PICK c \in FreeContainer, k \in 0..Len(task_list) :
             /\ cb' = [cb EXCEPT ![c] = t]
             /\ prio' = [prio EXCEPT ![c] = Prio[t]]
             /\ task_list' = Inserted(task_list, c, k)
             /\ pThisTask' = pThisTask
  BY PushTaskInserts DEF Inv
<1>2. c \in Container /\ cb[c] = NULL
  BY DEF FreeContainer
<1>3. /\ task_list' \in Seq(Container)
      /\ Len(task_list') = Len(task_list) + 1
      /\ \A i \in 1..(Len(task_list) + 1) :
           task_list'[i] = IF i <= k THEN task_list[i]
                           ELSE IF i = k + 1 THEN c ELSE task_list[i - 1]
  <2>1. /\ task_list \in Seq(Container)
        /\ c \in Container
        /\ k \in 0..Len(task_list)
    BY <1>2 DEF Inv, TypeOK
  <2>2. /\ Inserted(task_list, c, k) \in Seq(Container)
        /\ Len(Inserted(task_list, c, k)) = Len(task_list) + 1
        /\ \A i \in 1..(Len(task_list) + 1) :
             Inserted(task_list, c, k)[i] =
               IF i <= k THEN task_list[i]
               ELSE IF i = k + 1 THEN c ELSE task_list[i - 1]
    BY ONLY <2>1, InsertedProperties
  <2> QED
    BY <1>1, <2>2
<1>4. Len(task_list) \in Nat /\ k \in Nat
  BY DEF Inv, TypeOK
<1>5. TypeOK'
  BY <1>1, <1>2, <1>3, PrioAssumption DEF Inv, TypeOK, Freeing
<1>6. \A i \in 1..Len(task_list') : cb'[task_list'[i]] # NULL
  <2> SUFFICES ASSUME NEW i \in 1..Len(task_list')
               PROVE  cb'[task_list'[i]] # NULL
    OBVIOUS
  <2>1. \A j \in 1..Len(task_list) :
           task_list[j] \in Container /\ cb[task_list[j]] # NULL
    BY ElementOfSeq DEF Inv, TypeOK, RunsOnlyPushedTasks
  <2>2. task_list'[i] = c \/ \E j \in 1..Len(task_list) : task_list'[i] = task_list[j]
    BY <1>3, <1>4
  <2> QED
    BY <1>1, <1>2, <2>1, <2>2, NullAssumption DEF Inv, TypeOK
<1>7. \A i, j \in 1..Len(task_list') : task_list'[i] = task_list'[j] => i = j
  <2>1. \A j \in 1..Len(task_list) : task_list[j] # c
    BY <1>2 DEF Inv, RunsOnlyPushedTasks
  <2>2. \A i, j \in 1..Len(task_list) : task_list[i] = task_list[j] => i = j
    BY DEF Inv, RunsOnlyPushedTasks
  <2> SUFFICES ASSUME NEW i \in 1..Len(task_list'), NEW j \in 1..Len(task_list'),
                      task_list'[i] = task_list'[j]
               PROVE  i = j
    OBVIOUS
  <2> DEFINE old(m) == IF m <= k THEN m ELSE m - 1
  <2>3. /\ i # k + 1 => old(i) \in 1..Len(task_list) /\ task_list'[i] = task_list[old(i)]
        /\ j # k + 1 => old(j) \in 1..Len(task_list) /\ task_list'[j] = task_list[old(j)]
        /\ i = k + 1 => task_list'[i] = c
        /\ j = k + 1 => task_list'[j] = c
    BY <1>3, <1>4
  <2>4. CASE i = k + 1 \/ j = k + 1
    BY <2>1, <2>3, <2>4
  <2>5. CASE i # k + 1 /\ j # k + 1
    <3>1. old(i) = old(j)
      BY <2>2, <2>3, <2>5
    <3> QED
      BY <1>3, <1>4, <2>5, <3>1
  <2> QED
    BY <2>4, <2>5
<1>8. pc' \in {"run", "freeCb"} => cb'[pThisTask'] # NULL /\ pThisTask' \notin Listed'
  <2> SUFFICES ASSUME pc \in {"run", "freeCb"}
               PROVE  cb'[pThisTask'] # NULL /\ pThisTask' \notin Listed'
    OBVIOUS
  <2>1. cb[pThisTask] # NULL /\ pThisTask # c /\ pThisTask \notin Listed
    BY <1>2 DEF Inv, RunsOnlyPushedTasks
  <2>2. \A i \in 1..Len(task_list') : task_list'[i] # pThisTask
    BY <1>3, <1>4, <2>1 DEF Listed
  <2> QED
    BY <1>1, <2>1, <2>2 DEF Listed, Inv, TypeOK
<1>9. task_list' # <<>>
  BY <1>3, <1>4
<1> QED
  BY <1>5, <1>6, <1>7, <1>8, <1>9 DEF Inv, RunsOnlyPushedTasks

LEMMA BoardResetInv ==
    ASSUME Inv, BoardReset, UNCHANGED preemptive
    PROVE  Inv'
<1>1. TypeOK'
  BY DepthAssumption DEF BoardReset, Inv, TypeOK, Container, TASKPRIO_NONE
<1> QED
  BY <1>1 DEF BoardReset, Inv, RunsOnlyPushedTasks

\* A prefix of the list holds containers of the list.
LEMMA PrefixOfList ==
    ASSUME Inv, NEW k \in 1..Len(task_list)
    PROVE  /\ SubSeq(task_list, 1, k) \in Seq(Container)
           /\ Len(SubSeq(task_list, 1, k)) = k
           /\ \A i \in 1..k : SubSeq(task_list, 1, k)[i] = task_list[i]
                             /\ i \in 1..Len(task_list)
<1>1. Len(task_list) \in Nat /\ \A i \in 1..Len(task_list) : task_list[i] \in Container
  BY ElementOfSeq DEF Inv, TypeOK
<1> QED
  BY <1>1, SubSeqProperties DEF Inv, TypeOK

\* On every port, whatever interrupts push and whenever they do, the main loop
\* never calls a NULL callback, never runs a container twice and never runs one
\* that was handed out again.
LEMMA InvNext == Inv /\ [Next]_<<vars, preemptive>> => Inv'
<1> SUFFICES ASSUME Inv, [Next]_<<vars, preemptive>>
             PROVE  Inv'
  OBVIOUS
<1> UNCHANGED preemptive
  BY DEF Next
<1>1. CASE Check
  BY <1>1 DEF Check, Inv, TypeOK, RunsOnlyPushedTasks, Listed, Freeing
<1>2. CASE Pop
  <2>1. task_list # <<>> /\ Len(task_list) \in Nat \ {0}
    BY <1>2, EmptySeq DEF Pop, Inv, RunsOnlyPushedTasks, TypeOK
  <2>2. /\ Tail(task_list) \in Seq(Container)
        /\ Len(Tail(task_list)) = Len(task_list) - 1
        /\ \A i \in 1..Len(Tail(task_list)) : Tail(task_list)[i] = task_list[i + 1]
    BY <2>1, HeadTailProperties DEF Inv, TypeOK
  <2>3. Head(task_list) = task_list[1] /\ task_list[1] \in Container
    BY <2>1, ElementOfSeq DEF Inv, TypeOK
  <2>4. TypeOK'
    BY <1>2, <2>2, <2>3 DEF Pop, Inv, TypeOK, Freeing
  <2>5. \A i \in 1..Len(task_list') : cb'[task_list'[i]] # NULL
    BY <1>2, <2>1, <2>2 DEF Pop, Inv, RunsOnlyPushedTasks
  <2>6. \A i, j \in 1..Len(task_list') : task_list'[i] = task_list'[j] => i = j
    BY <1>2, <2>1, <2>2 DEF Pop, Inv, RunsOnlyPushedTasks
  <2>7. cb'[pThisTask'] # NULL
    BY <1>2, <2>1, <2>3 DEF Pop, Inv, RunsOnlyPushedTasks
  <2>8. \A i \in 1..Len(task_list') : task_list'[i] # pThisTask'
    BY <1>2, <2>1, <2>2, <2>3 DEF Pop, Inv, RunsOnlyPushedTasks
  <2> QED
    BY <1>2, <2>4, <2>5, <2>6, <2>7, <2>8 DEF Pop, Inv, RunsOnlyPushedTasks, Listed
<1>3. CASE Return
  BY <1>3 DEF Return, Inv, TypeOK, RunsOnlyPushedTasks, Listed, Freeing
<1>4. CASE FreeCb
  <2>1. \A i \in 1..Len(task_list) : task_list[i] # pThisTask /\ task_list[i] \in Container
    BY <1>4, ElementOfSeq DEF FreeCb, Inv, TypeOK, RunsOnlyPushedTasks, Listed
  <2>2. TypeOK'
    BY <1>4 DEF FreeCb, Inv, TypeOK, Freeing
  <2> QED
    BY <1>4, <2>1, <2>2 DEF FreeCb, Inv, TypeOK, RunsOnlyPushedTasks
<1>5. CASE FreePrio
  BY <1>5 DEF FreePrio, Inv, TypeOK, RunsOnlyPushedTasks, Listed, Freeing, TASKPRIO_NONE
<1>6. CASE FreeNext
  <2>1. CASE UNCHANGED task_list
    BY <1>6, <2>1 DEF FreeNext, Inv, TypeOK, RunsOnlyPushedTasks, Listed, Freeing
  <2>2. CASE \E k \in 1..Len(task_list) : task_list' = SubSeq(task_list, 1, k)
    <3>1. PICK k \in 1..Len(task_list) : task_list' = SubSeq(task_list, 1, k)
      BY <2>2
    <3>2. /\ task_list' \in Seq(Container)
          /\ Len(task_list') = k
          /\ \A i \in 1..Len(task_list') : /\ task_list'[i] = task_list[i]
                                           /\ i \in 1..Len(task_list)
      BY <3>1, PrefixOfList
    <3> QED
      BY <1>6, <3>2 DEF FreeNext, Inv, TypeOK, RunsOnlyPushedTasks, Freeing
  <2> QED
    BY <1>6, <2>1, <2>2 DEF FreeNext
<1>7. CASE Sleep
  BY <1>7 DEF Sleep, Inv, TypeOK, RunsOnlyPushedTasks, Listed, Freeing
<1>8. CASE \E t \in Task : TaskPushes(t)
  BY <1>8, PushTaskInv, BoardResetInv DEF TaskPushes
<1>9. CASE \E t \in Task : IsrPushes(t)
  BY <1>9, PushTaskInv, BoardResetInv DEF IsrPushes
<1>10. CASE IsrWakes
  BY <1>10 DEF IsrWakes, Inv, TypeOK, RunsOnlyPushedTasks, Listed, Freeing
<1>11. CASE UNCHANGED vars
  BY <1>11 DEF vars, Inv, TypeOK, RunsOnlyPushedTasks, Listed, Freeing
<1> QED
  BY <1>1, <1>2, <1>3, <1>4, <1>5, <1>6, <1>7, <1>8, <1>9, <1>10, <1>11 DEF Next, Step, MainLoop

LEMMA InvInit == scheduler_init => Inv
<1> SUFFICES ASSUME scheduler_init
             PROVE  Inv
  OBVIOUS
<1>1. TypeOK
  BY DepthAssumption DEF scheduler_init, TypeOK, Container, TASKPRIO_NONE
<1> QED
  BY <1>1 DEF scheduler_init, Inv, RunsOnlyPushedTasks

\* Type correctness of the scheduler.
THEOREM SchedulerTypeOK == Spec => []TypeOK
  BY InvInit, InvNext, PTL DEF Spec, Inv

\* The scheduler only ever calls a callback that was pushed, whatever
\* interrupts push while the main loop frees a container.
THEOREM SchedulerRunsOnlyPushedTasks == Spec => []RunsOnlyPushedTasks
  BY InvInit, InvNext, PTL DEF Spec, Inv

-----------------------------------------------------------------------------
(* On the port where interrupts cannot come between two statements of the main
   loop, the scheduler loses no task, keeps its list in the order of the
   priorities and implements the task pool, for any number of containers, any
   set of tasks and any priorities. *)

\* A listed container has the priority its callback is pushed with.
PrioOfCallback == \A i \in 1..Len(task_list) : prio[task_list[i]] = Prio[cb[task_list[i]]]

InOrder == \A i, j \in 1..Len(task_list) : i <= j => prio[task_list[i]] <= prio[task_list[j]]

\* What cuts the list on the other ports cannot happen here.
FreedIsOffList == pc \in Freeing => pThisTask \notin Listed

CoopInv == PrioOfCallback /\ InOrder /\ NoTaskLost /\ FreedIsOffList

PoolInv == Inv /\ (~preemptive => CoopInv)

-----------------------------------------------------------------------------
(* The list after a push and after a pop *)

\* q is the sequence s of elements of S with e inserted after the first k.
IsInserted(S, s, e, k, q) ==
    /\ q \in Seq(S)
    /\ Len(q) = Len(s) + 1
    /\ \A i \in 1..(Len(s) + 1) :
         q[i] = IF i <= k THEN s[i] ELSE IF i = k + 1 THEN e ELSE s[i - 1]

LEMMA InsertedOne ==
    ASSUME NEW S, NEW s \in Seq(S), NEW e \in S, NEW k \in 0..Len(s)
    PROVE  IsInserted(S, s, e, k, Inserted(s, e, k))
  BY InsertedProperties DEF IsInserted

\* A free container is not on the list, is not the one being run, and a push
\* inserts it behind those at least as urgent.
LEMMA PushTaskList ==
    ASSUME Inv, NEW t \in Task, PushTask(t)
    PROVE  \E c \in Container, k \in 0..Len(task_list) :
             /\ cb[c] = NULL
             /\ cb' = [cb EXCEPT ![c] = t]
             /\ prio' = [prio EXCEPT ![c] = Prio[t]]
             /\ StopsAt(k, Prio[t])
             /\ pThisTask' = pThisTask
             /\ \A i \in 1..Len(task_list) : task_list[i] # c
             /\ task_list' \in Seq(Container)
             /\ Len(task_list') = Len(task_list) + 1
             /\ \A i \in 1..(Len(task_list) + 1) :
                  task_list'[i] = IF i <= k THEN task_list[i]
                                  ELSE IF i = k + 1 THEN c ELSE task_list[i - 1]
<1>1. PICK c \in FreeContainer, k \in 0..Len(task_list) :
             /\ cb' = [cb EXCEPT ![c] = t]
             /\ prio' = [prio EXCEPT ![c] = Prio[t]]
             /\ task_list' = Inserted(task_list, c, k)
             /\ StopsAt(k, Prio[t])
             /\ pThisTask' = pThisTask
  BY PushTaskInserts DEF Inv
<1>2. c \in Container /\ cb[c] = NULL
  BY DEF FreeContainer
<1>3. task_list \in Seq(Container)
  BY DEF Inv, TypeOK
<1>4. /\ Inserted(task_list, c, k) \in Seq(Container)
      /\ Len(Inserted(task_list, c, k)) = Len(task_list) + 1
      /\ \A i \in 1..(Len(task_list) + 1) :
           Inserted(task_list, c, k)[i] =
             IF i <= k THEN task_list[i] ELSE IF i = k + 1 THEN c ELSE task_list[i - 1]
  <2>1. IsInserted(Container, task_list, c, k, Inserted(task_list, c, k))
    BY ONLY <1>2, <1>3, k \in 0..Len(task_list), InsertedOne
  <2>. QED BY ONLY <2>1 DEF IsInserted
<1>5. \A i \in 1..Len(task_list) : task_list[i] # c
  BY <1>2 DEF Inv, RunsOnlyPushedTasks
<1>. QED BY <1>1, <1>2, <1>4, <1>5

\* What is on the list of a scheduler in a consistent state.
LEMMA ListTyped ==
    ASSUME Inv
    PROVE  /\ task_list \in Seq(Container) /\ Len(task_list) \in Nat
           /\ \A i \in 1..Len(task_list) : /\ task_list[i] \in Container
                                           /\ cb[task_list[i]] \in Task
                                           /\ prio[task_list[i]] \in Nat
<1>1. task_list \in Seq(Container) /\ Len(task_list) \in Nat
  BY DEF Inv, TypeOK
<1>2. \A i \in 1..Len(task_list) : task_list[i] \in Container
  BY <1>1, ElementOfSeq
<1>3. \A i \in 1..Len(task_list) : cb[task_list[i]] # NULL
  BY DEF Inv, RunsOnlyPushedTasks
<1>. QED BY <1>1, <1>2, <1>3 DEF Inv, TypeOK

LEMMA PopList ==
    ASSUME Inv, Pop
    PROVE  /\ Len(task_list) \in Nat \ {0}
           /\ task_list' = Tail(task_list) /\ task_list' \in Seq(Container)
           /\ Len(task_list') = Len(task_list) - 1
           /\ \A i \in 1..Len(task_list') : task_list'[i] = task_list[i + 1]
           /\ pThisTask' = task_list[1]
<1>1. task_list # <<>> /\ Len(task_list) \in Nat \ {0} /\ task_list \in Seq(Container)
  BY EmptySeq DEF Pop, Inv, RunsOnlyPushedTasks, TypeOK
<1>2. /\ Tail(task_list) \in Seq(Container)
      /\ Len(Tail(task_list)) = Len(task_list) - 1
      /\ \A i \in 1..Len(Tail(task_list)) : Tail(task_list)[i] = task_list[i + 1]
  BY <1>1, HeadTailProperties
<1>3. Head(task_list) = task_list[1]
  BY <1>1
<1>. QED BY <1>1, <1>2, <1>3 DEF Pop

-----------------------------------------------------------------------------
(* The invariant of the port *)

\* A push at a point where the main loop frees no container.
LEMMA PushTaskCoop ==
    ASSUME Inv, CoopInv, NEW t \in Task, PushTask(t),
           \/ pc = "run" /\ pc' = "run"
           \/ pc = "asleep" /\ pc' = "check"
    PROVE  CoopInv'
<1>1. PICK c \in Container, k \in 0..Len(task_list) :
             /\ cb[c] = NULL
             /\ cb' = [cb EXCEPT ![c] = t]
             /\ prio' = [prio EXCEPT ![c] = Prio[t]]
             /\ StopsAt(k, Prio[t])
             /\ pThisTask' = pThisTask
             /\ \A i \in 1..Len(task_list) : task_list[i] # c
             /\ task_list' \in Seq(Container)
             /\ Len(task_list') = Len(task_list) + 1
             /\ \A i \in 1..(Len(task_list) + 1) :
                  task_list'[i] = IF i <= k THEN task_list[i]
                                  ELSE IF i = k + 1 THEN c ELSE task_list[i - 1]
  BY PushTaskList
<1>2. /\ Len(task_list) \in Nat /\ k \in Nat /\ k <= Len(task_list)
      /\ \A i \in 1..Len(task_list) : /\ task_list[i] \in Container
                                      /\ cb[task_list[i]] \in Task
                                      /\ prio[task_list[i]] \in Nat
  BY ListTyped
<1>3. /\ cb'[c] = t /\ prio'[c] = Prio[t] /\ Prio[t] \in Nat
      /\ \A d \in Container : d # c => cb'[d] = cb[d] /\ prio'[d] = prio[d]
  BY <1>1, PrioAssumption DEF Inv, TypeOK
<1>4. \A i \in 1..Len(task_list) : /\ cb'[task_list[i]] = cb[task_list[i]]
                                   /\ prio'[task_list[i]] = prio[task_list[i]]
  BY <1>1, <1>2, <1>3
<1> DEFINE q(i) == task_list'[i]
           old(i) == IF i <= k THEN i ELSE i - 1
<1>5. \A i \in 1..Len(task_list') :
          \/ i = k + 1 /\ q(i) = c
          \/ i # k + 1 /\ old(i) \in 1..Len(task_list) /\ q(i) = task_list[old(i)]
  BY <1>1, <1>2
<1>6. PrioOfCallback'
  BY <1>3, <1>4, <1>5, SMTT(30) DEF CoopInv, PrioOfCallback
<1>7. /\ \A i \in 1..k : prio[task_list[i]] <= Prio[t]
      /\ \A i \in 1..Len(task_list) : i > k => prio[task_list[i]] >= Prio[t]
  <2>1. \A i \in 1..k : prio[task_list[i]] <= Prio[t]
    BY <1>1 DEF StopsAt
  <2>2. ASSUME NEW i \in 1..Len(task_list), i > k
        PROVE  prio[task_list[i]] >= Prio[t]
    <3>1. k + 1 \in 1..Len(task_list) /\ k < Len(task_list) /\ k + 1 <= i
      BY <1>2, <2>2
    <3>2. prio[task_list[k + 1]] > Prio[t]
      BY <1>1, <3>1 DEF StopsAt
    <3>3. prio[task_list[k + 1]] <= prio[task_list[i]]
      BY <3>1 DEF CoopInv, InOrder
    <3>. QED BY <1>2, <1>3, <3>1, <3>2, <3>3
  <2>. QED BY <2>1, <2>2
<1>8. InOrder'
  <2>. SUFFICES ASSUME NEW i \in 1..Len(task_list'), NEW j \in 1..Len(task_list'), i <= j
                PROVE  prio'[q(i)] <= prio'[q(j)]
    BY DEF InOrder
  <2>. HIDE DEF q
  <2>1. CASE i = k + 1 /\ j = k + 1
    BY <1>3, <1>5, <2>1
  <2>2. CASE i = k + 1 /\ j # k + 1
    <3>1. old(j) \in 1..Len(task_list) /\ old(j) > k /\ q(j) = task_list[old(j)] /\ q(i) = c
      BY <1>2, <1>5, <2>2
    <3>. QED BY <1>3, <1>4, <1>7, <3>1
  <2>3. CASE i # k + 1 /\ j = k + 1
    <3>1. old(i) \in 1..k /\ old(i) \in 1..Len(task_list) /\ q(i) = task_list[old(i)] /\ q(j) = c
      BY <1>2, <1>5, <2>3
    <3>. QED BY <1>3, <1>4, <1>7, <3>1
  <2>4. CASE i # k + 1 /\ j # k + 1
    <3>1. /\ old(i) \in 1..Len(task_list) /\ q(i) = task_list[old(i)]
          /\ old(j) \in 1..Len(task_list) /\ q(j) = task_list[old(j)]
      BY <1>5, <2>4
    <3>2. old(i) <= old(j)
      BY <1>2, <2>4
    <3>. QED BY <1>4, <3>1, <3>2 DEF CoopInv, InOrder
  <2>. QED BY <2>1, <2>2, <2>3, <2>4
<1>9. NoTaskLost'
  <2>. SUFFICES ASSUME NEW d \in Container, cb'[d] # NULL
                PROVE  \/ \E i \in 1..Len(task_list') : task_list'[i] = d
                       \/ pc' = "run" /\ d = pThisTask'
    BY DEF NoTaskLost, Listed
  <2>1. CASE d = c
    <3>1. k + 1 \in 1..(Len(task_list) + 1) /\ ~(k + 1 <= k)
      BY <1>2
    <3>2. k + 1 \in 1..Len(task_list') /\ task_list'[k + 1] = c
      BY <1>1, <3>1
    <3>. QED BY <2>1, <3>2
  <2>2. CASE d # c /\ d \in Listed
    <3>1. PICK i \in 1..Len(task_list) : task_list[i] = d
      BY <2>2 DEF Listed
    <3>2. CASE i <= k
      BY <1>1, <1>2, <3>1, <3>2
    <3>3. CASE i > k
      <4>1. i + 1 \in 1..(Len(task_list) + 1) /\ ~(i + 1 <= k) /\ i + 1 # k + 1 /\ (i + 1) - 1 = i
        BY <1>2, <3>3
      <4>. QED BY <1>1, <3>1, <4>1
    <3>. QED BY <1>2, <3>2, <3>3
  <2>3. CASE d # c /\ d \notin Listed
    BY <1>1, <1>3, <2>3 DEF CoopInv, NoTaskLost
  <2>. QED BY <2>1, <2>2, <2>3
<1>10. FreedIsOffList'
  BY DEF FreedIsOffList, Freeing
<1>. QED BY <1>6, <1>8, <1>9, <1>10 DEF CoopInv

LEMMA BoardResetCoop ==
    ASSUME BoardReset
    PROVE  CoopInv'
  BY DEF BoardReset, CoopInv, PrioOfCallback, InOrder, NoTaskLost, FreedIsOffList, Freeing

\* No step of the port loses a task or disturbs the order.
LEMMA CoopNext ==
    ASSUME Inv, CoopInv, ~preemptive, [Next]_<<vars, preemptive>>
    PROVE  CoopInv'
<1>0. /\ Len(task_list) \in Nat
      /\ \A i \in 1..Len(task_list) : task_list[i] \in Container
      /\ pThisTask \in Container
  BY ListTyped DEF Inv, TypeOK
<1>1. CASE Check
  BY <1>1 DEF Check, CoopInv, PrioOfCallback, InOrder, NoTaskLost, FreedIsOffList, Freeing, Listed
<1>2. CASE Pop
  <2>1. /\ Len(task_list) \in Nat \ {0}
        /\ Len(task_list') = Len(task_list) - 1
        /\ \A i \in 1..Len(task_list') : task_list'[i] = task_list[i + 1]
        /\ pThisTask' = task_list[1]
    BY <1>2, PopList
  <2>2. pc = "pop" /\ pc' = "run" /\ UNCHANGED <<cb, prio>>
    BY <1>2 DEF Pop
  <2>3. PrioOfCallback'
    BY <2>1, <2>2 DEF CoopInv, PrioOfCallback
  <2>4. InOrder'
    BY <2>1, <2>2 DEF CoopInv, InOrder
  <2>5. NoTaskLost'
    <3>. SUFFICES ASSUME NEW d \in Container, cb[d] # NULL
                  PROVE  d = pThisTask' \/ \E i \in 1..Len(task_list') : task_list'[i] = d
      BY <2>2 DEF NoTaskLost, Listed
    <3>1. PICK i \in 1..Len(task_list) : task_list[i] = d
      BY <2>2 DEF CoopInv, NoTaskLost, Listed
    <3>2. i # 1 => /\ i - 1 \in 1..Len(task_list')
                   /\ (i - 1) + 1 = i
      BY <2>1
    <3>. QED BY <2>1, <3>1, <3>2
  <2>6. FreedIsOffList'
    BY <2>2 DEF FreedIsOffList, Freeing
  <2>. QED BY <2>3, <2>4, <2>5, <2>6 DEF CoopInv
<1>3. CASE Return
  BY <1>3 DEF Return, CoopInv, PrioOfCallback, InOrder, NoTaskLost, FreedIsOffList, Freeing, Listed,
              Inv, RunsOnlyPushedTasks
<1>4. CASE FreeCb
  <2>1. /\ pc = "freeCb" /\ pc' = "freePrio"
        /\ cb' = [cb EXCEPT ![pThisTask] = NULL]
        /\ UNCHANGED <<prio, task_list, pThisTask>>
    BY <1>4 DEF FreeCb
  <2>2. \A i \in 1..Len(task_list) : task_list[i] # pThisTask
    BY <2>1 DEF Inv, RunsOnlyPushedTasks, Listed
  <2>3. \A d \in Container : cb'[d] = IF d = pThisTask THEN NULL ELSE cb[d]
    BY <2>1 DEF Inv, TypeOK
  <2>4. PrioOfCallback'
    BY <1>0, <2>1, <2>2, <2>3 DEF CoopInv, PrioOfCallback
  <2>5. InOrder'
    BY <2>1 DEF CoopInv, InOrder
  <2>6. NoTaskLost'
    BY <2>1, <2>3 DEF CoopInv, NoTaskLost, Listed
  <2>7. FreedIsOffList'
    BY <2>1, <2>2 DEF FreedIsOffList, Listed
  <2>. QED BY <2>4, <2>5, <2>6, <2>7 DEF CoopInv
<1>5. CASE FreePrio
  <2>1. /\ pc = "freePrio" /\ pc' = "freeNext"
        /\ prio' = [prio EXCEPT ![pThisTask] = TASKPRIO_NONE]
        /\ UNCHANGED <<cb, task_list, pThisTask>>
    BY <1>5 DEF FreePrio
  <2>2. \A i \in 1..Len(task_list) : task_list[i] # pThisTask
    BY <2>1 DEF CoopInv, FreedIsOffList, Freeing, Listed
  <2>3. \A i \in 1..Len(task_list) : prio'[task_list[i]] = prio[task_list[i]]
    BY <1>0, <2>1, <2>2 DEF Inv, TypeOK
  <2>4. PrioOfCallback' /\ InOrder'
    BY <2>1, <2>3 DEF CoopInv, PrioOfCallback, InOrder
  <2>5. NoTaskLost'
    BY <2>1 DEF CoopInv, NoTaskLost, Listed
  <2>6. FreedIsOffList'
    BY <2>1, <2>2 DEF FreedIsOffList, Listed
  <2>. QED BY <2>4, <2>5, <2>6 DEF CoopInv
<1>6. CASE FreeNext
  <2>1. /\ pc = "freeNext" /\ pc' = "check"
        /\ UNCHANGED <<cb, prio, task_list, pThisTask>>
    BY <1>6 DEF FreeNext, CoopInv, FreedIsOffList, Freeing, Listed
  <2>. QED
    BY <2>1 DEF CoopInv, PrioOfCallback, InOrder, NoTaskLost, FreedIsOffList, Freeing, Listed
<1>7. CASE Sleep
  BY <1>7 DEF Sleep, CoopInv, PrioOfCallback, InOrder, NoTaskLost, FreedIsOffList, Freeing, Listed
<1>8. CASE \E t \in Task : TaskPushes(t)
  BY <1>8, PushTaskCoop, BoardResetCoop DEF TaskPushes
<1>9. CASE \E t \in Task : IsrPushes(t)
  BY <1>9, PushTaskCoop, BoardResetCoop DEF IsrPushes
<1>10. CASE IsrWakes
  BY <1>10 DEF IsrWakes, CoopInv, PrioOfCallback, InOrder, NoTaskLost, FreedIsOffList, Freeing, Listed
<1>11. CASE UNCHANGED vars
  BY <1>11 DEF vars, CoopInv, PrioOfCallback, InOrder, NoTaskLost, FreedIsOffList, Freeing, Listed
<1>. QED
  BY <1>1, <1>2, <1>3, <1>4, <1>5, <1>6, <1>7, <1>8, <1>9, <1>10, <1>11 DEF Next, Step, MainLoop

LEMMA PoolInvNext == PoolInv /\ [Next]_<<vars, preemptive>> => PoolInv'
<1>. SUFFICES ASSUME PoolInv, [Next]_<<vars, preemptive>>
              PROVE  PoolInv'
  OBVIOUS
<1>1. Inv'
  BY InvNext DEF PoolInv
<1>2. preemptive' = preemptive
  BY DEF Next
<1>3. ~preemptive => CoopInv'
  BY CoopNext DEF PoolInv
<1>. QED BY <1>1, <1>2, <1>3, Zenon DEF PoolInv

LEMMA PoolInvInit == scheduler_init => PoolInv
<1>. SUFFICES ASSUME scheduler_init PROVE PoolInv
  OBVIOUS
<1>1. CoopInv
  BY DEF scheduler_init, CoopInv, PrioOfCallback, InOrder, NoTaskLost, FreedIsOffList, Freeing
<1>. QED BY <1>1, InvInit, Zenon DEF PoolInv

THEOREM PoolInvHolds == Spec => []PoolInv
  BY PoolInvInit, PoolInvNext, PTL DEF Spec

\* Without preemption, no pushed task is forgotten and no container leaks.
THEOREM SchedulerNoTaskLost == Spec => []NoTaskLostUnpreempted
<1>1. PoolInv => NoTaskLostUnpreempted
  BY DEF PoolInv, CoopInv, NoTaskLostUnpreempted
<1>. QED BY <1>1, PoolInvHolds, PTL

\* Without preemption, the list is in the order of the priorities.
THEOREM SchedulerMostUrgentFirst == Spec => []MostUrgentFirst
<1>1. PoolInv => MostUrgentFirst
  BY DEF PoolInv, CoopInv, InOrder, MostUrgentFirst
<1>. QED BY <1>1, PoolInvHolds, PTL

-----------------------------------------------------------------------------
(* The task pool *)

\* The waiting tasks of the pool are those of the list.
ReadFromList ==
    /\ waitingTasks \in Seq(Task) /\ Len(waitingTasks) = Len(task_list)
    /\ \A i \in 1..Len(task_list) : waitingTasks[i] = cb[task_list[i]]

LEMMA WaitingTasks == Inv => ReadFromList
<1>. SUFFICES ASSUME Inv PROVE ReadFromList
  OBVIOUS
<1>1. Len(task_list) \in Nat /\ \A i \in 1..Len(task_list) : cb[task_list[i]] \in Task
  BY ListTyped
<1> DEFINE e(i) == cb[task_list[i]]
           n == Len(task_list)
<1>2. n \in Nat /\ \A i \in 1..n : e(i) \in Task
  BY <1>1
<1>. HIDE DEF e, n
<1>3. [i \in 1..n |-> e(i)] \in Seq(Task)
  BY <1>2, IsASeq
<1>4. Len([i \in 1..n |-> e(i)]) = n /\ \A i \in 1..n : [j \in 1..n |-> e(j)][i] = e(i)
  BY <1>2
<1>5. waitingTasks = [i \in 1..n |-> e(i)]
  BY DEF waitingTasks, e, n
<1>. QED BY <1>3, <1>4, <1>5 DEF e, n, ReadFromList

\* The same after a step.
LEMMA WaitingTasksAfter == Inv' => ReadFromList'
  BY WaitingTasks, PTL

\* A push is a push of the pool: the walk of the list finds the same place.
LEMMA PushTaskPool ==
    ASSUME PoolInv, ~preemptive, PoolInv', NEW t \in Task, PushTask(t),
           \/ pc = "run" /\ pc' = "run"
           \/ pc = "asleep" /\ pc' = "check"
    PROVE  Pool!Push(t)
<1>1. PICK c \in Container, k \in 0..Len(task_list) :
             /\ cb[c] = NULL
             /\ cb' = [cb EXCEPT ![c] = t]
             /\ prio' = [prio EXCEPT ![c] = Prio[t]]
             /\ StopsAt(k, Prio[t])
             /\ pThisTask' = pThisTask
             /\ \A i \in 1..Len(task_list) : task_list[i] # c
             /\ task_list' \in Seq(Container)
             /\ Len(task_list') = Len(task_list) + 1
             /\ \A i \in 1..(Len(task_list) + 1) :
                  task_list'[i] = IF i <= k THEN task_list[i]
                                  ELSE IF i = k + 1 THEN c ELSE task_list[i - 1]
  BY PushTaskList DEF PoolInv
<1>2. /\ Len(task_list) \in Nat /\ k \in Nat /\ k <= Len(task_list)
      /\ \A i \in 1..Len(task_list) : /\ task_list[i] \in Container
                                      /\ cb[task_list[i]] \in Task
                                      /\ prio[task_list[i]] \in Nat
  BY ListTyped DEF PoolInv
<1>3. cb'[c] = t /\ \A d \in Container : d # c => cb'[d] = cb[d]
  BY <1>1 DEF PoolInv, Inv, TypeOK
<1> DEFINE q == waitingTasks
           r == waitingTasks'
<1>4. /\ q \in Seq(Task) /\ Len(q) = Len(task_list)
      /\ \A i \in 1..Len(task_list) : q[i] = cb[task_list[i]]
  BY WaitingTasks DEF PoolInv, ReadFromList
<1>5. /\ r \in Seq(Task) /\ Len(r) = Len(task_list')
      /\ \A i \in 1..Len(task_list') : r[i] = cb'[task_list'[i]]
  BY WaitingTasksAfter DEF PoolInv, ReadFromList
<1>. HIDE DEF q, r
<1>6. k \in 0..Len(q)
  BY <1>4
<1>7. /\ Inserted(q, t, k) \in Seq(Task)
      /\ Len(Inserted(q, t, k)) = Len(q) + 1
      /\ \A i \in 1..(Len(q) + 1) :
           Inserted(q, t, k)[i] = IF i <= k THEN q[i] ELSE IF i = k + 1 THEN t ELSE q[i - 1]
  <2>1. q \in Seq(Task)
    BY <1>4
  <2>2. IsInserted(Task, q, t, k, Inserted(q, t, k))
    BY ONLY <2>1, <1>6, t \in Task, InsertedOne
  <2>. QED BY ONLY <2>2 DEF IsInserted
<1>8. r = Inserted(q, t, k)
  <2>1. Len(r) = Len(Inserted(q, t, k))
    BY <1>1, <1>4, <1>5, <1>7
  <2>2. ASSUME NEW i \in 1..Len(r)
        PROVE  r[i] = Inserted(q, t, k)[i]
    <3>1. i \in 1..(Len(task_list) + 1) /\ i \in 1..Len(task_list')
      BY <1>1, <1>5
    <3>2. CASE i <= k
      <4>1. i \in 1..Len(task_list)
        BY <1>2, <3>1, <3>2
      <4>. QED BY <1>1, <1>2, <1>3, <1>4, <1>5, <1>7, <3>1, <3>2, <4>1
    <3>3. CASE i = k + 1
      BY <1>1, <1>2, <1>3, <1>4, <1>5, <1>7, <3>1, <3>3
    <3>4. CASE i > k + 1
      <4>1. i - 1 \in 1..Len(task_list) /\ ~(i <= k) /\ i # k + 1
        BY <1>2, <3>1, <3>4
      <4>2. task_list'[i] = task_list[i - 1] /\ Inserted(q, t, k)[i] = q[i - 1]
        BY <1>1, <1>4, <1>7, <3>1, <4>1
      <4>. QED BY <1>1, <1>2, <1>3, <1>4, <1>5, <3>1, <4>1, <4>2
    <3>. QED BY <1>2, <3>1, <3>2, <3>3, <3>4
  <2>. QED BY <1>5, <1>7, <2>1, <2>2, SeqEqual
<1>9. \A i \in 1..Len(q) : Prio[q[i]] = prio[task_list[i]]
  BY <1>4 DEF PoolInv, CoopInv, PrioOfCallback
<1>10. {i \in 1..Len(q) : Prio[q[i]] <= Prio[t]} = 1..k
  <2>1. ASSUME NEW i \in 1..k
        PROVE  i \in 1..Len(q) /\ Prio[q[i]] <= Prio[t]
    <3>1. i \in 1..Len(q)
      BY <1>2, <1>4
    <3>. QED BY <1>1, <1>9, <3>1 DEF StopsAt
  <2>2. ASSUME NEW i \in 1..Len(q), Prio[q[i]] <= Prio[t], i > k
        PROVE  FALSE
    <3>1. k + 1 \in 1..Len(task_list) /\ k < Len(task_list) /\ k + 1 <= i /\ i \in 1..Len(task_list)
      BY <1>2, <1>4, <2>2
    <3>2. prio[task_list[k + 1]] > Prio[t]
      BY <1>1, <3>1 DEF StopsAt
    <3>3. prio[task_list[k + 1]] <= prio[task_list[i]]
      BY <3>1 DEF PoolInv, CoopInv, InOrder
    <3>4. Prio[t] \in Nat /\ prio[task_list[i]] <= Prio[t]
      BY <1>9, <2>2, PrioAssumption
    <3>. QED BY <1>2, <3>1, <3>2, <3>3, <3>4
  <2>3. Len(q) \in Nat
    BY <1>2, <1>4
  <2>. QED BY <1>2, <2>1, <2>2, <2>3
<1>11. Pool!Enqueued(waitingTasks, t)
  BY <1>8, <1>10, <1>6 DEF Pool!Enqueued, Inserted, q, r
<1>12. runningTask' = runningTask
  <2>1. CASE pc = "run" /\ pc' = "run"
    <3>1. pThisTask \in Container /\ pThisTask # c
      BY <1>1, <2>1 DEF PoolInv, Inv, TypeOK, RunsOnlyPushedTasks
    <3>. QED BY <1>1, <1>3, <2>1, <3>1 DEF runningTask
  <2>2. CASE pc = "asleep" /\ pc' = "check"
    BY <2>2 DEF runningTask
  <2>. QED BY <2>1, <2>2
<1>. QED BY <1>11, <1>12 DEF Pool!Push

LEMMA BoardResetPool ==
    ASSUME BoardReset
    PROVE  Pool!Reset
<1>1. task_list' = <<>> /\ pc' = "check"
  BY DEF BoardReset
<1>2. waitingTasks' = <<>>
  BY <1>1 DEF waitingTasks
<1>3. runningTask' = NULL
  BY <1>1 DEF runningTask
<1>. QED BY <1>2, <1>3 DEF Pool!Reset

\* Popping the head of the list starts the first task of the pool.
LEMMA PopPool ==
    ASSUME Inv, Inv', Pop
    PROVE  Pool!Start
<1>1. /\ Len(task_list) \in Nat \ {0}
      /\ Len(task_list') = Len(task_list) - 1
      /\ \A i \in 1..Len(task_list') : task_list'[i] = task_list[i + 1]
      /\ pThisTask' = task_list[1]
      /\ pc = "pop" /\ pc' = "run" /\ cb' = cb
  BY PopList DEF Pop
<1>2. /\ waitingTasks \in Seq(Task) /\ Len(waitingTasks) = Len(task_list)
      /\ \A i \in 1..Len(task_list) : waitingTasks[i] = cb[task_list[i]]
  BY WaitingTasks DEF ReadFromList
<1>3. /\ waitingTasks' \in Seq(Task) /\ Len(waitingTasks') = Len(task_list')
      /\ \A i \in 1..Len(task_list') : waitingTasks'[i] = cb'[task_list'[i]]
  BY WaitingTasksAfter DEF ReadFromList
<1>4. waitingTasks # <<>>
  BY <1>1, <1>2
<1>5. /\ Tail(waitingTasks) \in Seq(Task)
      /\ Len(Tail(waitingTasks)) = Len(waitingTasks) - 1
      /\ \A i \in 1..Len(Tail(waitingTasks)) : Tail(waitingTasks)[i] = waitingTasks[i + 1]
  BY <1>2, <1>4, HeadTailProperties
<1>6. \A i \in 1..Len(waitingTasks') : waitingTasks'[i] = Tail(waitingTasks)[i]
  <2>. SUFFICES ASSUME NEW i \in 1..Len(waitingTasks')
                PROVE  waitingTasks'[i] = Tail(waitingTasks)[i]
    OBVIOUS
  <2>1. /\ i \in 1..Len(task_list') /\ i \in 1..Len(Tail(waitingTasks))
        /\ i + 1 \in 1..Len(task_list)
    BY <1>1, <1>2, <1>3, <1>5
  <2>2. waitingTasks'[i] = cb[task_list[i + 1]]
    BY <1>1, <1>3, <2>1
  <2>3. Tail(waitingTasks)[i] = cb[task_list[i + 1]]
    BY <1>2, <1>5, <2>1
  <2>. QED BY <2>2, <2>3
<1>7. waitingTasks' = Tail(waitingTasks)
  BY <1>1, <1>2, <1>3, <1>5, <1>6, SeqEqual
<1>8. Head(waitingTasks) = cb[task_list[1]]
  BY <1>1, <1>2, <1>4
<1>9. runningTask = NULL /\ runningTask' = Head(waitingTasks)
  BY <1>1, <1>8 DEF runningTask
<1>. QED BY <1>4, <1>7, <1>9 DEF Pool!Start

\* A task is over when the callback of its container is cleared.
LEMMA FreeCbPool ==
    ASSUME Inv, FreeCb
    PROVE  Pool!Finish
<1>1. /\ pc = "freeCb" /\ pc' = "freePrio"
      /\ cb' = [cb EXCEPT ![pThisTask] = NULL]
      /\ task_list' = task_list
  BY DEF FreeCb
<1>2. cb[pThisTask] # NULL /\ \A i \in 1..Len(task_list) : task_list[i] # pThisTask
  BY <1>1 DEF Inv, RunsOnlyPushedTasks, Listed
<1>3. \A i \in 1..Len(task_list) : cb'[task_list[i]] = cb[task_list[i]]
  BY <1>1, <1>2, ListTyped DEF Inv, TypeOK
<1>4. waitingTasks' = waitingTasks
  BY <1>1, <1>3 DEF waitingTasks
<1>5. runningTask # NULL /\ runningTask' = NULL
  BY <1>1, <1>2 DEF runningTask
<1>. QED BY <1>4, <1>5 DEF Pool!Finish

\* The other steps of the main loop are not seen by the pool.
LEMMA StutterPool ==
    ASSUME UNCHANGED <<cb, task_list>>,
           \/ pc \notin {"run", "freeCb"} /\ pc' \notin {"run", "freeCb"}
           \/ pc = "run" /\ pc' = "freeCb" /\ UNCHANGED pThisTask
           \/ UNCHANGED <<pc, pThisTask>>
    PROVE  UNCHANGED Pool!poolVars
<1>1. waitingTasks' = waitingTasks
  BY DEF waitingTasks
<1>2. runningTask' = runningTask
  BY DEF runningTask
<1>. QED BY <1>1, <1>2 DEF Pool!poolVars

LEMMA PoolStep ==
    PoolInv /\ PoolInv' /\ [Next]_<<vars, preemptive>> =>
        [~preemptive => Pool!PoolNext]_Pool!poolVars
<1>. SUFFICES ASSUME PoolInv, PoolInv', [Next]_<<vars, preemptive>>, ~preemptive
              PROVE  Pool!PoolNext \/ UNCHANGED Pool!poolVars
  OBVIOUS
<1>0. Inv /\ Inv' /\ CoopInv
  BY DEF PoolInv
<1>1. CASE Check
  BY <1>1, StutterPool DEF Check
<1>2. CASE Pop
  BY <1>0, <1>2, PopPool DEF Pool!PoolNext
<1>3. CASE Return
  BY <1>3, StutterPool DEF Return
<1>4. CASE FreeCb
  BY <1>0, <1>4, FreeCbPool DEF Pool!PoolNext
<1>5. CASE FreePrio
  BY <1>5, StutterPool DEF FreePrio
<1>6. CASE FreeNext
  <2>1. task_list' = task_list
    BY <1>0, <1>6 DEF FreeNext, CoopInv, FreedIsOffList, Freeing, Listed
  <2>. QED BY <1>6, <2>1, StutterPool DEF FreeNext
<1>7. CASE Sleep
  BY <1>7, StutterPool DEF Sleep
<1>8. CASE \E t \in Task : TaskPushes(t)
  BY <1>8, PushTaskPool, BoardResetPool DEF TaskPushes, Pool!PoolNext
<1>9. CASE \E t \in Task : IsrPushes(t)
  BY <1>9, PushTaskPool, BoardResetPool DEF IsrPushes, Pool!PoolNext
<1>10. CASE IsrWakes
  BY <1>10, StutterPool DEF IsrWakes
<1>11. CASE UNCHANGED vars
  BY <1>11, StutterPool DEF vars
<1>. QED
  BY <1>1, <1>2, <1>3, <1>4, <1>5, <1>6, <1>7, <1>8, <1>9, <1>10, <1>11 DEF Next, Step, MainLoop

\* Without preemption the scheduler implements the task pool: its steps push,
\* start and finish the tasks of the pool in the pool's order, or change
\* nothing of it.
THEOREM SchedulerImplementsTaskPool == Spec => ImplementsTaskPool
<1>1. scheduler_init => (~preemptive => Pool!PoolInit)
  <2>. SUFFICES ASSUME scheduler_init PROVE Pool!PoolInit
    OBVIOUS
  <2>1. waitingTasks = <<>> /\ runningTask = NULL
    BY DEF scheduler_init, waitingTasks, runningTask
  <2>. QED BY <2>1 DEF Pool!PoolInit
<1>. QED BY <1>1, PoolStep, PoolInvHolds, PTL DEF Spec, ImplementsTaskPool
=============================================================================
