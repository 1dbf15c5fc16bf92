------------------------------- MODULE Mutex -------------------------------
(***************************************************************************)
(* A mutex (Kernel/Process/mutex.c) above the task lists.  Its wait list and   *)
(* the lists of the scheduler are linked through the same flink.  There is one *)
(* policy here, and a nap ends at any time.                                  *)
(***************************************************************************)
EXTENDS LinkedList, SequencesExt

Idle == NoTask     \* scheduler_task runs: no other task is available

VARIABLES
  aquired, wait_list,     \* the mutex
  inside,                 \* the tasks that are back from mutex_lock
  running_task, state, flink,
  available, sleeping     \* available_tasks and sleeping_tasks

vars == <<aquired, wait_list, inside, running_task, state, flink, available, sleeping>>

Init ==
  /\ aquired = FALSE /\ wait_list = EmptyTaskList
  /\ inside = {}
  /\ LET Add(l, t) == InsertBack(l.list, t, l.flink)
         none == [list |-> EmptyTaskList, flink |-> [t \in Tasks |-> NoTask]]
         made == FoldLeft(Add, none, SetToSeq(Tasks))
     IN available = made.list /\ flink = made.flink
  /\ running_task = Idle
  /\ state = [t \in Tasks |-> "available"]
  /\ sleeping = EmptyTaskList

\* schedule: the head of the available tasks runs, if nothing does.
Schedule ==
  /\ running_task = Idle /\ available.head # NoTask
  /\ LET taken == RemoveFrom(available, available.head, flink)
     IN available' = taken.list /\ flink' = taken.flink
  /\ running_task' = available.head
  /\ state' = [state EXCEPT ![available.head] = "active"]
  /\ UNCHANGED <<aquired, wait_list, inside, sleeping>>

\* sleep and task_block(TASK_SLEEPING).  Schedule follows.
Sleep ==
  /\ running_task # Idle
  /\ LET slept == InsertBack(sleeping, running_task, flink)
     IN sleeping' = slept.list /\ flink' = slept.flink
  /\ state' = [state EXCEPT ![running_task] = "sleeping"]
  /\ running_task' = Idle
  /\ UNCHANGED <<aquired, wait_list, inside, available>>

\* task_unblock: a task that is not blocked stays as it is.
TaskUnblock(t) ==
  LET out == RemoveFrom(sleeping, t, flink)
      in == InsertBack(available, t, out.flink)
  IN IF state[t] # "sleeping" THEN UNCHANGED <<sleeping, available, flink, state>>
     ELSE /\ sleeping' = out.list /\ available' = in.list /\ flink' = in.flink
          /\ state' = [state EXCEPT ![t] = "available"]

\* manage_sleeping_tasks, for a task whose nap is over.
WakeUp ==
  /\ \E t \in Tasks : Holds(sleeping, t, flink) /\ TaskUnblock(t)
  /\ UNCHANGED <<aquired, wait_list, inside, running_task>>

\* A task that does not have the mutex yet asks for it.
MutexLock ==
  LET t == running_task IN
  /\ t # Idle /\ t \notin inside
  /\ aquired' = TRUE
  /\ IF ~aquired THEN UNCHANGED <<wait_list, flink>>
     ELSE LET detached == [flink EXCEPT ![t] = NoTask] IN
       IF wait_list.head = NoTask
         THEN wait_list' = [head |-> t, tail |-> t] /\ flink' = detached
         ELSE /\ wait_list' = [wait_list EXCEPT !.tail = t]
              /\ flink' = [detached EXCEPT ![wait_list.tail] = t]
  \* task_block(TASK_WAITING) returns at once, and mutex_lock with it.
  /\ inside' = inside \cup {t}
  /\ UNCHANGED <<running_task, state, available, sleeping>>

\* The flink of the first waiter is read after it was made available.
MutexUnlock ==
  /\ running_task \in inside
  /\ inside' = inside \ {running_task}
  /\ IF wait_list.head = NoTask
       THEN aquired' = FALSE /\ UNCHANGED <<wait_list, sleeping, available, flink, state>>
       ELSE /\ UNCHANGED aquired
            /\ TaskUnblock(wait_list.head)
            /\ wait_list' = [wait_list EXCEPT !.head = flink'[@]]
  /\ UNCHANGED running_task

Next == Schedule \/ Sleep \/ WakeUp \/ MutexLock \/ MutexUnlock

Spec == Init /\ [][Next]_vars

-----------------------------------------------------------------------------
\* A task that mutex_lock moved to the wait list is in no list of the scheduler
\* until it is unlocked ("Detach task, we will move it to the waiting task list").
WaitersOnlyWait ==
  \A t \in Tasks :
    Holds(wait_list, t, flink) =>
      ~Holds(available, t, flink) /\ ~Holds(sleeping, t, flink)

=============================================================================
