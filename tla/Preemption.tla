----------------------------- MODULE Preemption -----------------------------
(***************************************************************************)
(* The scheduler without the assumption of Scheduler that a kernel call is    *)
(* one step.  A task executes sleep() (set_naptime, task_block, schedule,     *)
(* run_task in Kernel/Process/process.c) statement by statement, and the      *)
(* clock interrupts it wherever the interrupt flag lets it, which             *)
(* irq_disable, irq_enable (Kernel/Tables/irqs.c) and switch_task             *)
(* (Kernel/Process/task_switch.asm) decide.                                   *)
(*                                                                         *)
(* The idle loop runs with the flag clear, and so does the tick once a task   *)
(* has been switched to (before that it may nest, and finds nothing to do):   *)
(* each is one step, up to the context switch.  Tasks are created at boot.    *)
(* All tasks share one policy and one priority, so                            *)
(* schedule_priority_task picks the head of the list.  When a nap ends is     *)
(* left open.  A time slice may run out only in a task that has come back to  *)
(* its own code since it was dispatched: a slice is 50 ticks, a call a few    *)
(* dozen instructions.                                                        *)
(***************************************************************************)
EXTENDS LinkedList

CONSTANTS
  SchedulerTask,
  MaxSwitches     \* context switches explored: irq_disable_counter grows by one
                  \* with each of them

ASSUME SchedulerAssumption == SchedulerTask \notin Tasks
ASSUME BoundAssumption == MaxSwitches \in Nat

VARIABLES
  interrupts,            \* the processor's interrupt flag
  irq_disable_counter,
  allow_ts,
  running, next_task,
  available, sleeping,   \* task_list_t
  flink, state,          \* fields of the control blocks
  at,                    \* the statement a task is at
  inTick,                \* tasks switched out by a tick they have yet to return from
  picked,                \* schedule's local variable task
  inOwnCode,             \* tasks back in their own code since they were dispatched
  switches               \* context switches so far

lists == <<available, sleeping, flink>>
locks == <<interrupts, irq_disable_counter, allow_ts>>
context == <<at, inTick, picked, inOwnCode>>
vars == <<locks, running, next_task, lists, state, context, switches>>

AllTasks == Tasks \cup {SchedulerTask}

\* The statements of sleep(), in order.  "own" is the task's own code, "fault" the
\* end of the system: a NULL next_task dereferenced.
Statements == {"own", "lock_ts", "irq_disable", "insert", "state", "irq_enable",
               "unlock_ts", "schedule", "pick", "remove", "next", "run", "run_disable",
               "activate", "switch", "fault"}

Init ==
  /\ interrupts = TRUE /\ irq_disable_counter = 0 /\ allow_ts = TRUE
  /\ running = SchedulerTask /\ next_task = NoTask
  /\ available = EmptyTaskList /\ sleeping = EmptyTaskList
  /\ flink = [t \in Tasks |-> NoTask]
  /\ state = [t \in AllTasks |-> IF t = SchedulerTask THEN "ACTIVE" ELSE "UNBORN"]
  /\ at = [t \in AllTasks |-> "own"]
  /\ inTick = {} /\ inOwnCode = {}
  /\ picked = [t \in AllTasks |-> NoTask]
  /\ switches = 0

\* Mutant: the flag is cleared at every level.
DisabledFlagAlways(counter) == FALSE

\* irq_disable touches the flag only at the first level of nesting.
DisabledFlag(counter) == IF counter = 0 THEN FALSE ELSE interrupts

\* irq_enable sets it again only at the last one.
EnabledFlag(counter) == IF counter = 1 THEN TRUE ELSE interrupts

\* Mutant: next_task is not cleared.
SwitchToKeepsNext(t, counter) ==
  /\ switches < MaxSwitches
  /\ switches' = switches + 1
  /\ running' = t
  /\ irq_disable_counter' = counter
  /\ allow_ts' = TRUE
  /\ interrupts' = TRUE
  /\ next_task' = t
  /\ inOwnCode' = inOwnCode \ {t}

\* switch_task(t): the lock is released and interrupts are on, whatever the counter
\* says.
SwitchTo(t, counter) ==
  /\ switches < MaxSwitches
  /\ switches' = switches + 1
  /\ running' = t
  /\ irq_disable_counter' = counter
  /\ allow_ts' = TRUE
  /\ interrupts' = TRUE
  /\ next_task' = NoTask
  /\ inOwnCode' = inOwnCode \ {t}

\* run_task() where no interrupt comes in between: the counter is raised, and nothing
\* lowers it; t becomes active and is switched to.
RunTaskTo(t, st, counter) ==
  /\ state' = [st EXCEPT ![t] = "ACTIVE"]
  /\ SwitchTo(t, counter + 1)

\* The task schedule() picks from a list of tasks of one policy and priority.
Head(list) == IF list.head = NoTask THEN SchedulerTask ELSE list.head

-----------------------------------------------------------------------------
(* The idle task.                                                           *)

\* create_task_handler, called by kernel_main before its loop.
CreateTask(t) ==
  /\ running = SchedulerTask /\ switches = 0
  /\ state[t] = "UNBORN"
  /\ state' = [state EXCEPT ![t] = "AVAILABLE"]
  /\ LET r == InsertBack(available, t, flink)
     IN  available' = r.list /\ flink' = r.flink
  /\ allow_ts' = TRUE
  /\ UNCHANGED <<interrupts, irq_disable_counter, running, next_task, sleeping>>
  /\ UNCHANGED <<context, switches>>

\* cli(); schedule(); up to the switch.
IdleLoop ==
  /\ running = SchedulerTask /\ allow_ts
  /\ available.head # NoTask
  /\ LET r == RemoveFrom(available, available.head, flink)
     IN  available' = r.list /\ flink' = r.flink
  /\ RunTaskTo(available.head, state, irq_disable_counter)
  /\ UNCHANGED <<sleeping, at, inTick, picked>>

-----------------------------------------------------------------------------
(* sleep(), executed by the running task.                                   *)

\* The running task, done with the tick it was switched out by, goes from one
\* statement to the next.
Step(from, to) ==
  /\ running \in Tasks \ inTick
  /\ at[running] = from
  /\ at' = [at EXCEPT ![running] = to]

Compute ==
  /\ running \in Tasks \ inTick
  /\ at[running] = "own"
  /\ inOwnCode' = inOwnCode \cup {running}
  /\ UNCHANGED <<locks, running, next_task, lists, state, at, inTick, picked, switches>>

CallSleep ==
  /\ Step("own", "lock_ts")
  /\ UNCHANGED <<locks, running, next_task, lists, state, inTick, picked, inOwnCode, switches>>

LockTs ==
  /\ Step("lock_ts", "irq_disable")
  /\ allow_ts' = FALSE
  /\ UNCHANGED <<interrupts, irq_disable_counter, running, next_task, lists, state>>
  /\ UNCHANGED <<inTick, picked, inOwnCode, switches>>

IrqDisable ==
  /\ Step("irq_disable", "insert")
  /\ irq_disable_counter' = irq_disable_counter + 1
  /\ interrupts' = DisabledFlag(irq_disable_counter)
  /\ UNCHANGED <<allow_ts, running, next_task, lists, state>>
  /\ UNCHANGED <<inTick, picked, inOwnCode, switches>>

InsertSleeping ==
  /\ Step("insert", "state")
  /\ LET r == InsertBack(sleeping, running, flink)
     IN  sleeping' = r.list /\ flink' = r.flink
  /\ UNCHANGED <<locks, running, next_task, available, state>>
  /\ UNCHANGED <<inTick, picked, inOwnCode, switches>>

ChangeState ==
  /\ Step("state", "irq_enable")
  /\ state' = [state EXCEPT ![running] = "SLEEPING"]
  /\ UNCHANGED <<locks, running, next_task, lists, inTick, picked, inOwnCode, switches>>

\* Mutant: the section is left without irq_enable.
IrqEnableForgotten ==
  /\ Step("irq_enable", "unlock_ts")
  /\ UNCHANGED <<locks, running, next_task, lists, state, inTick, picked, inOwnCode, switches>>

IrqEnable ==
  /\ Step("irq_enable", "unlock_ts")
  /\ irq_disable_counter' = irq_disable_counter - 1
  /\ interrupts' = EnabledFlag(irq_disable_counter)
  /\ UNCHANGED <<allow_ts, running, next_task, lists, state>>
  /\ UNCHANGED <<inTick, picked, inOwnCode, switches>>

UnlockTs ==
  /\ Step("unlock_ts", "schedule")
  /\ allow_ts' = TRUE
  /\ UNCHANGED <<interrupts, irq_disable_counter, running, next_task, lists, state>>
  /\ UNCHANGED <<inTick, picked, inOwnCode, switches>>

\* schedule() takes the lock, or returns at once when it is taken.
ScheduleLocks ==
  /\ Step("schedule", IF allow_ts THEN "pick" ELSE "own")
  /\ allow_ts' = FALSE
  /\ UNCHANGED <<interrupts, irq_disable_counter, running, next_task, lists, state>>
  /\ UNCHANGED <<inTick, picked, inOwnCode, switches>>

Pick ==
  /\ Step("pick", "remove")
  /\ picked' = [picked EXCEPT ![running] = Head(available)]
  /\ UNCHANGED <<locks, running, next_task, lists, state, inTick, inOwnCode, switches>>

RemovePicked ==
  /\ Step("remove", "next")
  /\ LET r == IF picked[running] = SchedulerTask
              THEN [list |-> available, flink |-> flink]
              ELSE RemoveFrom(available, picked[running], flink)
     IN  available' = r.list /\ flink' = r.flink
  /\ UNCHANGED <<locks, running, next_task, sleeping, state>>
  /\ UNCHANGED <<inTick, picked, inOwnCode, switches>>

\* A task that picked itself unlocks and returns.
SetNextTask ==
  LET self == picked[running] = running
  IN  /\ Step("next", IF self THEN "own" ELSE "run")
      /\ next_task' = IF self THEN NoTask ELSE picked[running]
      /\ allow_ts' = (self \/ allow_ts)
      /\ UNCHANGED <<interrupts, irq_disable_counter, running, lists, state>>
      /\ UNCHANGED <<inTick, picked, inOwnCode, switches>>

\* run_task(), statement by statement.  It returns when next_task is NULL.
RunTask ==
  /\ Step("run", IF next_task = NoTask THEN "own" ELSE "run_disable")
  /\ UNCHANGED <<locks, running, next_task, lists, state, inTick, picked, inOwnCode, switches>>

RunTaskDisable ==
  /\ Step("run_disable", "activate")
  /\ irq_disable_counter' = irq_disable_counter + 1
  /\ interrupts' = DisabledFlag(irq_disable_counter)
  /\ UNCHANGED <<allow_ts, running, next_task, lists, state>>
  /\ UNCHANGED <<inTick, picked, inOwnCode, switches>>

ActivateNext ==
  /\ Step("activate", "switch")
  /\ next_task # NoTask
  /\ state' = [state EXCEPT ![next_task] = "ACTIVE"]
  /\ UNCHANGED <<locks, running, next_task, lists, inTick, picked, inOwnCode, switches>>

\* The call returns to the task's own code when it is switched to again.
SwitchTask ==
  /\ Step("switch", "own")
  /\ next_task # NoTask
  /\ SwitchTo(next_task, irq_disable_counter)
  /\ UNCHANGED <<lists, state, inTick, picked>>

\* next_task was cleared by a switch between run_task's test and one of its uses.
NextTaskFault ==
  /\ Step("activate", "fault") \/ Step("switch", "fault")
  /\ next_task = NoTask
  /\ interrupts' = FALSE
  /\ UNCHANGED <<irq_disable_counter, allow_ts, running, next_task, lists, state>>
  /\ UNCHANGED <<inTick, picked, inOwnCode, switches>>

-----------------------------------------------------------------------------
(* The clock interrupt: scheduler_tick.                                     *)

\* manage_sleeping_tasks wakes w, one of the tasks it meets whose nap is over, or
\* nobody.  task_unblock acts only on a task whose state is TASK_SLEEPING.
Sleepers == {t \in Tasks : Holds(sleeping, t, flink) /\ state[t] = "SLEEPING"}

AfterWaking(w) ==
  IF w = NoTask
  THEN [available |-> available, sleeping |-> sleeping, flink |-> flink, state |-> state]
  ELSE LET out == RemoveFrom(sleeping, w, flink)
           in  == InsertBack(available, w, out.flink)
       IN  [available |-> in.list, sleeping |-> out.list, flink |-> in.flink,
            state |-> [state EXCEPT ![w] = "AVAILABLE"]]

\* The slice of the running task goes on, or the idle task runs.
TickReturns(w) ==
  LET k == AfterWaking(w)
  IN  /\ available' = k.available /\ sleeping' = k.sleeping
      /\ flink' = k.flink /\ state' = k.state
      /\ allow_ts' = TRUE
      /\ UNCHANGED <<interrupts, irq_disable_counter, running, next_task, context, switches>>

\* The slice is over: sleep(1) inside the interrupt handler.  The task picked may be
\* the running one, when it was interrupted on its way to another list.
SliceOver(w) ==
  LET k    == AfterWaking(w)
      slp  == InsertBack(k.sleeping, running, k.flink)
      st   == [k.state EXCEPT ![running] = "SLEEPING"]
      t    == Head(k.available)
      rest == IF t = SchedulerTask
              THEN [list |-> k.available, flink |-> slp.flink]
              ELSE RemoveFrom(k.available, t, slp.flink)
  IN  /\ running \in inOwnCode
      /\ available' = rest.list /\ sleeping' = slp.list /\ flink' = rest.flink
      /\ UNCHANGED <<at, picked>>
      /\ \/ /\ t # running
            /\ RunTaskTo(t, st, irq_disable_counter + 1)   \* and manage_time_slice's
            /\ inTick' = inTick \cup {running}
         \/ /\ t = running
            /\ state' = st /\ allow_ts' = TRUE
            /\ next_task' = NoTask
            /\ inOwnCode' = inOwnCode \ {running}
            /\ UNCHANGED <<interrupts, irq_disable_counter, running, inTick, switches>>

Tick ==
  /\ interrupts
  /\ \E w \in Sleepers \cup {NoTask} :
       \/ TickReturns(w)
       \/ running # SchedulerTask /\ SliceOver(w)

\* A task that runs again returns from the tick that switched it out.
ReturnFromTick ==
  /\ running \in inTick
  /\ inTick' = inTick \ {running}
  /\ irq_disable_counter' = irq_disable_counter - 1
  /\ interrupts' = EnabledFlag(irq_disable_counter)
  /\ allow_ts' = TRUE
  /\ UNCHANGED <<running, next_task, lists, state, at, picked, inOwnCode, switches>>

-----------------------------------------------------------------------------
SleepCall ==
  \/ CallSleep \/ LockTs \/ IrqDisable \/ InsertSleeping \/ ChangeState
  \/ IrqEnable \/ UnlockTs \/ ScheduleLocks \/ Pick \/ RemovePicked
  \/ SetNextTask \/ RunTask \/ RunTaskDisable \/ ActivateNext \/ SwitchTask
  \/ NextTaskFault

Next ==
  \/ \E t \in Tasks : CreateTask(t)
  \/ IdleLoop
  \/ Compute
  \/ SleepCall
  \/ Tick
  \/ ReturnFromTick

Spec == Init /\ [][Next]_vars

-----------------------------------------------------------------------------
\* The statements at which a task has raised the counter, and has neither lowered it
\* again nor been switched away by run_task: in task_block's section, and in run_task.
Raised == {"insert", "state", "irq_enable", "activate", "switch", "fault"}

\* The counter is exactly the context switches so far, the tasks at a statement where
\* they have raised it, wherever they were interrupted, and the ticks not yet returned
\* from: the irq_disable of run_task is never undone.  So from the first switch on no
\* irq_enable of a task brings it to 0.
DisableLeaksPerSwitch ==
  irq_disable_counter =
    switches + Cardinality({t \in Tasks : at[t] \in Raised}) + Cardinality(inTick)

\* The consequence: from the first switch on the clock is never held off, inside the
\* sections between irq_disable and irq_enable as little as outside of them.
SectionsInterruptible ==
  switches > 0 /\ (\A t \in Tasks : at[t] # "fault") => interrupts

\* A choice made before a preemption is never carried out after it: next_task is set
\* only between schedule's assignment and the switch of the same, running, task.
NoStaleChoice ==
  next_task # NoTask => at[running] \in {"run", "run_disable", "activate", "switch"}

\* sleeping_tasks: "Tasks that invoked the sleeping operation or that have ran for
\* too long".  Every task that has left the processor as TASK_SLEEPING is in it, or
\* no tick will ever wake it.
SleepersListed ==
  \A t \in Tasks :
    state[t] = "SLEEPING" /\ t # running => Holds(sleeping, t, flink)
=============================================================================
