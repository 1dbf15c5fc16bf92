---------------------------- MODULE TaskCleaner ----------------------------
(***************************************************************************)
(* The cleaner task (task_cleaner, task_cleanup in Kernel/Process/process.c) *)
(* running under Scheduler.                                                  *)
(*                                                                         *)
(* task_cleaner enters no critical section: between any two of its           *)
(* statements a tick may take the processor, and other tasks may terminate   *)
(* and append themselves to the list it walks.  Each statement that touches  *)
(* the list is therefore an action of its own.                               *)
(*                                                                         *)
(* Control blocks are not reused: one that is freed keeps its flink, which   *)
(* the cleaner reads after the free.  cleaner_task is set before any other   *)
(* task terminates (init_cleaner_task), and no terminated task is unblocked:  *)
(* only mutex_unlock could, on a task that ended while it waited.            *)
(***************************************************************************)
EXTENDS Scheduler

CONSTANT NoTask    \* NULL

ASSUME NoTaskAssumption == NoTask \notin AllTasks

VARIABLES
  step,     \* the statement of task_cleaner that runs next
  cursor,   \* its local variable task
  freed     \* the control blocks given back to the heap

cleanerVars == <<step, cursor, freed>>
allVars == <<vars, cleanerVars>>

Steps == {"head", "cleanup", "advance", "reset", "block"}

\* Mutant: the tail of the list points to its head.
FlinkAround(t) ==
  LET i == FirstIndex(t, terminated)
  IN  IF i < Len(terminated) THEN terminated[i + 1] ELSE terminated[1]

\* task->flink, for a task of terminated_tasks, freed or not.
Flink(t) ==
  LET i == FirstIndex(t, terminated)
  IN  IF i < Len(terminated) THEN terminated[i + 1] ELSE NoTask

CleanerInit ==
  /\ Init
  /\ step = "head"
  /\ cursor = NoTask
  /\ freed = {}

-----------------------------------------------------------------------------
(* The body of task_cleaner, executed while it is the running task.         *)

\* Mutant: NULL is not tested.
GoOnAnyway(t) == cursor' = t /\ step' = "cleanup"

\* The while loop goes on with t, or ends.
GoOnWith(t) ==
  /\ cursor' = t
  /\ step' = IF t = NoTask THEN "reset" ELSE "cleanup"

\* Mutant: the walk starts in the list of blocked tasks.
CleanerHeadOfBlocked ==
  /\ running = CleanerTask /\ step = "head"
  /\ GoOnWith(IF blocked = <<>> THEN NoTask ELSE blocked[1])
  /\ UNCHANGED <<vars, freed>>

\* task = terminated_tasks->head;
CleanerHead ==
  /\ running = CleanerTask /\ step = "head"
  /\ GoOnWith(IF terminated = <<>> THEN NoTask ELSE terminated[1])
  /\ UNCHANGED <<vars, freed>>

\* task_cleanup(task);
CleanerCleanup ==
  /\ running = CleanerTask /\ step = "cleanup"
  /\ freed' = freed \cup {cursor}
  /\ step' = "advance"
  /\ UNCHANGED <<vars, cursor>>

\* task = task->flink;
CleanerAdvance ==
  /\ running = CleanerTask /\ step = "advance"
  /\ GoOnWith(Flink(cursor))
  /\ UNCHANGED <<vars, freed>>

\* Mutant: the list is not emptied.
CleanerForgetsReset ==
  /\ running = CleanerTask /\ step = "reset"
  /\ step' = "block"
  /\ UNCHANGED <<vars, cursor, freed>>

\* terminated_tasks->head = terminated_tasks->tail = NULL;
CleanerReset ==
  /\ running = CleanerTask /\ step = "reset"
  /\ terminated' = <<>>
  /\ step' = "block"
  /\ UNCHANGED <<running, looping, allow_ts, clockVars, taskVars>>
  /\ UNCHANGED <<available, sleeping, blocked, cursor, freed>>

\* task_block(TASK_BLOCKED), and back to the top when it is unblocked.
CleanerBlock ==
  /\ running = CleanerTask /\ step = "block"
  /\ Block
  /\ step' = "head"
  /\ UNCHANGED <<cursor, freed>>

CleanerStep ==
  CleanerHead \/ CleanerCleanup \/ CleanerAdvance \/ CleanerReset \/ CleanerBlock

\* The clock may interrupt the cleaner; the other tasks run when it does not.
Others ==
  /\ Tick \/ (running # CleanerTask /\ Next)
  /\ \A t \in Tasks : state[t] = "TERMINATED" => state'[t] = "TERMINATED"
  /\ UNCHANGED cleanerVars

CleanerNext == CleanerStep \/ Others

CleanerSpec == CleanerInit /\ [][CleanerNext]_allVars

\* A time slice is 50 ticks long: a cleaner that is given the processor again and
\* again executes its next statement in the end.
FairCleanerSpec ==
  /\ CleanerSpec
  /\ WF_allVars(Tick /\ UNCHANGED cleanerVars)
  /\ WF_allVars(IdleLoop /\ UNCHANGED cleanerVars)
  /\ SF_allVars(CleanerStep)

-----------------------------------------------------------------------------
\* The cleaner's variables keep their types.
CleanerTypeOK ==
  /\ step \in Steps
  /\ cursor \in Tasks \cup {NoTask}
  /\ step \in {"cleanup", "advance"} => cursor \in Tasks
  /\ freed \subseteq Tasks

\* Only tasks that have terminated are freed, though tasks keep terminating and
\* the list keeps growing while the cleaner walks it.
FreesOnlyTerminated == \A t \in freed : state[t] = "TERMINATED"

\* No control block is freed twice: one that task_cleanup is about to be called on
\* is still allocated, and those in front of it in the list are not.
WalkInOrder ==
  /\ step = "cleanup" => cursor \notin freed
  /\ step \in {"cleanup", "advance"} =>
       /\ InList(cursor, terminated)
       /\ \A i \in 1..(FirstIndex(cursor, terminated) - 1) : terminated[i] \in freed

\* "Process to clean up after terminated tasks": a terminated task that is not yet
\* freed is still where the cleaner will find it.
NoneLost ==
  \A t \in Tasks : state[t] = "TERMINATED" /\ t \notin freed => InList(t, terminated)

\* A cleaner that has started to walk ends its pass, however often it is preempted.
PassEnds == step # "head" ~> step = "head"
=============================================================================
