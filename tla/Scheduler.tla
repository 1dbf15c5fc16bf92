----------------------------- MODULE Scheduler -----------------------------
(***************************************************************************)
(* The task scheduler of the AtOS kernel (Kernel/Process/process.c), driven *)
(* by the real-time clock interrupt (Kernel/System/clock.c, Kernel/Tables/  *)
(* irqs.c) and by the kernel's idle loop (Kernel/kernel.c).                 *)
(*                                                                         *)
(* One action is one kernel call made by the running task, one clock        *)
(* interrupt, or one turn of the idle loop, carried to the end of the       *)
(* context switch it causes.  That is what the critical sections of the     *)
(* code (irq_disable/irq_enable and the allow_ts lock) are there to give.   *)
(***************************************************************************)
EXTENDS Integers, TaskQueue

CONSTANTS
  Tasks,               \* every task control block that may be created
  SchedulerTask,       \* scheduler_task: the boot task, then the idle loop
  CleanerTask,         \* cleaner_task: one of Tasks
  UsedPolicies,        \* the policies tasks are created with
  DEFAULT_PRIORITY,    \* 128 in process.h
  DEFAULT_TIME_SLICE,  \* 50 clock ticks in process.h
  TimeModulus,         \* time_counter is a 32-bit unsigned: 2^32
  SleepTimes           \* the arguments of sleep, in milliseconds

Policies == 0..3       \* POLICY_0 .. POLICY_3, POLICY_0 served first

ASSUME TasksAssumption ==
  /\ SchedulerTask \notin Tasks
  /\ CleanerTask \in Tasks
  /\ UsedPolicies \subseteq Policies

ASSUME NumbersAssumption ==
  /\ DEFAULT_PRIORITY \in 1..255          \* a uint8_t
  /\ DEFAULT_TIME_SLICE \in Nat \ {0}
  /\ TimeModulus \in Nat \ {0}
  /\ SleepTimes \subseteq Nat \ {0}

VARIABLES
  \* The scheduler's globals.
  running,        \* running_task
  looping,        \* kernel_main has entered its idle loop
  allow_ts,       \* the task switching lock, TRUE when switching is allowed
  time_counter,   \* clock ticks since boot
  available,      \* available_tasks: one list per policy
  sleeping,       \* sleeping_tasks
  blocked,        \* blocked_tasks
  terminated,     \* terminated_tasks
  \* The fields of the task control blocks.
  state, policy, priority, time_slice, naptime

clockVars == <<time_counter, naptime>>
listVars  == <<available, sleeping, blocked, terminated>>
taskVars  == <<state, policy, priority, time_slice>>
vars == <<running, looping, allow_ts, clockVars, listVars, taskVars>>

AllTasks == Tasks \cup {SchedulerTask}

\* UNBORN stands for a control block create_task_handler has not made yet.
InvalidStates == {"ACTIVE", "AVAILABLE", "WAITING"}
States == {"UNBORN", "BLOCKED", "SLEEPING", "TERMINATED"} \cup InvalidStates

-----------------------------------------------------------------------------
(* What the walks and counters of the code compute.  Definitions commented   *)
(* "Mutant" are plausible mistakes in the definition that follows: nothing    *)
(* uses them, and the properties fail when they take its place.               *)

\* Mutant: the head of the list, whatever the priorities.
HeadOfList(list) == list[1]

\* Mutant: the comparison is >=.
LatestHighestPriority(list) ==
  LET highest[i \in DOMAIN list] ==
        IF i = 1 THEN list[1]
        ELSE IF priority[list[i]] >= priority[highest[i - 1]] THEN list[i] ELSE highest[i - 1]
  IN highest[Len(list)]

\* schedule_priority_task, on a list that is not empty: highest[i] is what
\* highest_priority_task points to once the loop has passed the first i tasks.
HighestPriorityTask(list) ==
  LET highest[i \in DOMAIN list] ==
        IF i = 1 THEN list[1]
        ELSE IF priority[list[i]] > priority[highest[i - 1]] THEN list[i] ELSE highest[i - 1]
  IN highest[Len(list)]

ReqPriority(p) == IF p <= 1 THEN DEFAULT_PRIORITY ELSE 0

\* Mutant: the priority is not put back.
SpendPriorityNoReset(t) == (priority[t] - 1) % 256

\* --task->priority on a uint8_t, put back to req_priority when it reaches 0.
SpendPriority(t) ==
  LET left == (priority[t] - 1) % 256
  IN  IF left = 0 THEN ReqPriority(policy[t]) ELSE left

\* Mutant: the sum is kept in a wider integer than the counter.
WakeTimeWide(ms, now) == now + (1024 * ms) \div 1000

\* HERTZ(ms) + now, truncated to a whole tick and to the counter's width.
WakeTime(ms, now) == (now + (1024 * ms) \div 1000) % TimeModulus

-----------------------------------------------------------------------------
(* schedule(), given the lists and the states it finds.                     *)

Picks(t, avail) ==
  \/ /\ avail[0] # <<>>
     /\ t = HighestPriorityTask(avail[0])
  \/ /\ avail[0] = <<>> /\ avail[1] # <<>>
     /\ t = HighestPriorityTask(avail[1])
  \/ /\ avail[0] = <<>> /\ avail[1] = <<>> /\ avail[2] # <<>>
     /\ t = avail[2][1]
  \/ /\ \A p \in 0..2 : avail[p] = <<>>
     /\ avail[3] # <<>>
     /\ t = avail[3][1]
  \/ /\ \A p \in Policies : avail[p] = <<>>
     /\ t = SchedulerTask

\* The picked task leaves its list, becomes running_task and active.  When the
\* idle loop picks itself nothing changes.  Both paths release allow_ts.
Schedule(avail, st) ==
  \E t \in AllTasks :
    /\ Picks(t, avail)
    /\ running' = t
    /\ available' = IF t = SchedulerTask THEN avail
                    ELSE [avail EXCEPT ![policy[t]] = RemoveTask(@, t)]
    /\ priority' = IF t \in Tasks /\ policy[t] <= 1
                   THEN [priority EXCEPT ![t] = SpendPriority(t)]
                   ELSE priority
    /\ state' = [st EXCEPT ![t] = "ACTIVE"]
    /\ allow_ts' = TRUE

\* Mutant: the policy is ignored.
MakeAvailableAtTop(avail, t) == [avail EXCEPT ![0] = Append(@, t)]

\* task_unblock's insertion: at the tail of the list of the task's policy.
MakeAvailable(avail, t) == [avail EXCEPT ![policy[t]] = Append(@, t)]

-----------------------------------------------------------------------------
(* After setup_multitasking, setup_clock and init_multitasking.             *)

Init ==
  /\ running = SchedulerTask
  /\ looping = FALSE
  /\ allow_ts = TRUE
  /\ time_counter = 0
  /\ available = [p \in Policies |-> <<>>]
  /\ sleeping = <<>> /\ blocked = <<>> /\ terminated = <<>>
  /\ state = [t \in AllTasks |-> IF t = SchedulerTask THEN "ACTIVE" ELSE "UNBORN"]
  /\ policy = [t \in AllTasks |-> 0]
  /\ priority = [t \in AllTasks |-> IF t = SchedulerTask THEN 127 ELSE 0]
  /\ time_slice = [t \in AllTasks |-> DEFAULT_TIME_SLICE]
  /\ naptime = [t \in AllTasks |-> 0]

\* Tasks other than the cleaner run code that may make any of the calls below;
\* the boot task only creates tasks, before its idle loop.
UserRunning == running \in Tasks \ {CleanerTask}

\* create_task_handler, through create_process_handler (also for the cleaner,
\* init_cleaner_task) or create_thread_handler.
CreateTask(t, p) ==
  /\ UserRunning \/ (running = SchedulerTask /\ ~looping)
  /\ state[t] = "UNBORN"
  /\ t = CleanerTask => p = 0
  /\ state' = [state EXCEPT ![t] = "AVAILABLE"]
  /\ policy' = [policy EXCEPT ![t] = p]
  /\ priority' = [priority EXCEPT ![t] = ReqPriority(p)]
  /\ time_slice' = [time_slice EXCEPT ![t] = DEFAULT_TIME_SLICE]
  /\ available' = [available EXCEPT ![p] = Append(@, t)]
  /\ allow_ts' = TRUE
  /\ UNCHANGED <<running, looping, clockVars, sleeping, blocked, terminated>>

\* One turn of kernel_main's loop: cli(); schedule(); sti();
IdleLoop ==
  /\ running = SchedulerTask
  /\ looping' = TRUE
  /\ IF allow_ts
     THEN Schedule(available, state)
     ELSE UNCHANGED <<running, available, priority, state, allow_ts>>
  /\ UNCHANGED <<clockVars, sleeping, blocked, terminated, policy, time_slice>>

-----------------------------------------------------------------------------
(* task_block: the running task gives up the processor.                     *)

\* Mutant: the state is left as it was.
SleepStillActive(ms) ==
  /\ UserRunning
  /\ naptime' = [naptime EXCEPT ![running] = WakeTime(ms, time_counter)]
  /\ sleeping' = Append(sleeping, running)
  /\ time_slice' = [time_slice EXCEPT ![running] = DEFAULT_TIME_SLICE]
  /\ Schedule(available, state)
  /\ UNCHANGED <<looping, time_counter, blocked, terminated, policy>>

\* sleep(ms): the nap ends at an absolute tick.
Sleep(ms) ==
  /\ UserRunning
  /\ naptime' = [naptime EXCEPT ![running] = WakeTime(ms, time_counter)]
  /\ sleeping' = Append(sleeping, running)
  /\ time_slice' = [time_slice EXCEPT ![running] = DEFAULT_TIME_SLICE]
  /\ Schedule(available, [state EXCEPT ![running] = "SLEEPING"])
  /\ UNCHANGED <<looping, time_counter, blocked, terminated, policy>>

\* Mutant: the time slice is not filled up again.
BlockKeepsSlice ==
  /\ running \in Tasks
  /\ blocked' = Append(blocked, running)
  /\ Schedule(available, [state EXCEPT ![running] = "BLOCKED"])
  /\ UNCHANGED <<looping, clockVars, sleeping, terminated, policy, time_slice>>

\* task_block(TASK_BLOCKED); the cleaner's body ends each pass with it.
Block ==
  /\ running \in Tasks
  /\ blocked' = Append(blocked, running)
  /\ time_slice' = [time_slice EXCEPT ![running] = DEFAULT_TIME_SLICE]
  /\ Schedule(available, [state EXCEPT ![running] = "BLOCKED"])
  /\ UNCHANGED <<looping, clockVars, sleeping, terminated, policy>>

\* task_block with a state that has no list (mutex_lock passes TASK_WAITING)
\* returns at once, and leaves task switching locked.
BlockInvalid ==
  /\ UserRunning
  /\ allow_ts' = FALSE
  /\ UNCHANGED <<running, looping, clockVars, listVars, taskVars>>

\* terminate_task: wake the cleaner if it is blocked, then leave for good.  The
\* cleaner must exist: the code reads its state through cleaner_task.
Terminate ==
  /\ UserRunning
  /\ state[CleanerTask] # "UNBORN"
  /\ terminated' = Append(terminated, running)
  /\ time_slice' = [time_slice EXCEPT ![running] = DEFAULT_TIME_SLICE]
  /\ LET st == [state EXCEPT ![running] = "TERMINATED"]
     IN  IF state[CleanerTask] = "BLOCKED"
         THEN /\ blocked' = RemoveTask(blocked, CleanerTask)
              /\ Schedule(MakeAvailable(available, CleanerTask),
                          [st EXCEPT ![CleanerTask] = "AVAILABLE"])
         ELSE /\ Schedule(available, st)
              /\ UNCHANGED blocked
  /\ UNCHANGED <<looping, clockVars, sleeping, policy>>

-----------------------------------------------------------------------------
(* task_unblock, called by the running task on another one.                 *)

\* A terminated task is taken for any other: it is made available again.
Unblock(t) ==
  /\ UserRunning
  /\ state[t] \in {"BLOCKED", "SLEEPING", "TERMINATED"}
  /\ blocked' = IF state[t] = "BLOCKED" THEN RemoveTask(blocked, t) ELSE blocked
  /\ sleeping' = IF state[t] = "SLEEPING" THEN RemoveTask(sleeping, t) ELSE sleeping
  /\ terminated' = IF state[t] = "TERMINATED" THEN RemoveTask(terminated, t) ELSE terminated
  /\ available' = MakeAvailable(available, t)
  /\ state' = [state EXCEPT ![t] = "AVAILABLE"]
  /\ allow_ts' = TRUE
  /\ UNCHANGED <<running, looping, clockVars, policy, priority, time_slice>>

\* On a task that is in no blocking list it returns early, like BlockInvalid.
UnblockInvalid(t) ==
  /\ UserRunning
  /\ state[t] \in InvalidStates
  /\ allow_ts' = FALSE
  /\ UNCHANGED <<running, looping, clockVars, listVars, taskVars>>

-----------------------------------------------------------------------------
(* The clock interrupt: rtc_handler, then scheduler_tick.                   *)

\* Mutant: the nap ends only after its last tick.
DueAfter(t, now) == now > naptime[t]

\* The test of manage_sleeping_tasks.
Due(t, now) == now >= naptime[t]

\* Mutant: the sleeper nearest the tail.
LastDue(t, now) ==
  \E i \in DOMAIN sleeping :
    /\ sleeping[i] = t
    /\ Due(t, now)
    /\ \A j \in (i + 1)..Len(sleeping) : ~Due(sleeping[j], now)

\* The sleeper manage_sleeping_tasks wakes.  task_unblock clears the flink of
\* the task it moves to an available list, which ends the walk: at most one.
FirstDue(t, now) ==
  \E i \in DOMAIN sleeping :
    /\ sleeping[i] = t
    /\ Due(t, now)
    /\ \A j \in 1..(i - 1) : ~Due(sleeping[j], now)

\* manage_time_slice, on what manage_sleeping_tasks left.  A task whose slice is
\* over sleeps for a millisecond, and the tick returns when it runs again.
ManageTimeSlice(avail, slp, st, nap, now) ==
  \/ /\ running = SchedulerTask
     /\ available' = avail /\ sleeping' = slp /\ state' = st /\ naptime' = nap
     /\ allow_ts' = TRUE
     /\ UNCHANGED <<running, priority, time_slice>>
  \/ /\ running # SchedulerTask
     /\ time_slice[running] # 1
     /\ time_slice' = [time_slice EXCEPT ![running] = @ - 1]
     /\ available' = avail /\ sleeping' = slp /\ state' = st /\ naptime' = nap
     /\ allow_ts' = TRUE
     /\ UNCHANGED <<running, priority>>
  \/ /\ running # SchedulerTask
     /\ time_slice[running] = 1
     /\ time_slice' = [time_slice EXCEPT ![running] = DEFAULT_TIME_SLICE]
     /\ sleeping' = Append(slp, running)
     /\ naptime' = [nap EXCEPT ![running] = WakeTime(1, now)]
     /\ Schedule(avail, [st EXCEPT ![running] = "SLEEPING"])

\* A tick that finds no sleeper to wake, and one that wakes t.
TickNoneDue ==
  LET now == (time_counter + 1) % TimeModulus
  IN  /\ time_counter' = now
      /\ \A t \in Tasks : ~FirstDue(t, now)
      /\ ManageTimeSlice(available, sleeping, state, naptime, now)
      /\ UNCHANGED <<looping, blocked, terminated, policy>>

TickWakes(t) ==
  LET now == (time_counter + 1) % TimeModulus
  IN  /\ time_counter' = now
      /\ FirstDue(t, now)
      /\ ManageTimeSlice(MakeAvailable(available, t), RemoveTask(sleeping, t),
                         [state EXCEPT ![t] = "AVAILABLE"],
                         [naptime EXCEPT ![t] = 0], now)
      /\ UNCHANGED <<looping, blocked, terminated, policy>>

Tick == TickNoneDue \/ \E t \in Tasks : TickWakes(t)

-----------------------------------------------------------------------------
Next ==
  \/ \E t \in Tasks, p \in UsedPolicies : CreateTask(t, p)
  \/ IdleLoop
  \/ \E ms \in SleepTimes : Sleep(ms)
  \/ Block
  \/ BlockInvalid
  \/ Terminate
  \/ \E t \in Tasks : Unblock(t) \/ UnblockInvalid(t)
  \/ Tick

Spec == Init /\ [][Next]_vars

\* The clock never stops, and the idle loop runs whenever its task does.  No
\* fairness is asked of the tasks: one may compute for ever.
Fairness == WF_vars(Tick) /\ WF_vars(IdleLoop)

FairSpec == Spec /\ Fairness
-----------------------------------------------------------------------------
(* What must hold of every reachable state.                                 *)

\* Every variable keeps its type; the idle task never leaves its policy.
TypeOK ==
  /\ running \in AllTasks
  /\ looping \in BOOLEAN /\ allow_ts \in BOOLEAN
  /\ time_counter \in 0..(TimeModulus - 1)
  /\ available \in [Policies -> Seq(Tasks)]
  /\ sleeping \in Seq(Tasks) /\ blocked \in Seq(Tasks) /\ terminated \in Seq(Tasks)
  /\ state \in [AllTasks -> States]
  /\ policy \in [AllTasks -> Policies]
  /\ priority \in [AllTasks -> 0..255]
  /\ time_slice \in [AllTasks -> 1..DEFAULT_TIME_SLICE]
  /\ naptime \in [AllTasks -> 0..(TimeModulus - 1)]

\* A task is in the one list its state and policy name, and in no other, once:
\* the two halves of every move (the list, then the state) never come apart.
ListsMatchStates(avail, slp, blk, trm, st) ==
  /\ \A p \in Policies : IsInjective(avail[p])
  /\ IsInjective(slp) /\ IsInjective(blk) /\ IsInjective(trm)
  /\ \A t \in Tasks :
       /\ \A p \in Policies :
            InList(t, avail[p]) <=> st[t] = "AVAILABLE" /\ policy[t] = p
       /\ InList(t, slp) <=> st[t] = "SLEEPING"
       /\ InList(t, blk) <=> st[t] = "BLOCKED"
       /\ InList(t, trm) <=> st[t] = "TERMINATED"

EachTaskInItsList ==
  ListsMatchStates(available, sleeping, blocked, terminated, state)

\* TASK_ACTIVE marks the running task, and the idle task, which is never in a
\* list and so never loses it.
OnlyRunningIsActive ==
  /\ \A t \in Tasks : state[t] = "ACTIVE" <=> t = running
  /\ state[SchedulerTask] = "ACTIVE"

\* A task waits with a full time slice, whichever way it left the processor.
WaitsWithFullSlice ==
  \A t \in Tasks : t # running => time_slice[t] = DEFAULT_TIME_SLICE

\* The priority of a task of policies 0 and 1 stays between 1 and the one it was
\* made with: at 0 the next decrement of the uint8_t would make it 255.
PriorityInRange ==
  \A t \in Tasks :
    state[t] # "UNBORN" /\ policy[t] <= 1 => priority[t] \in 1..DEFAULT_PRIORITY

-----------------------------------------------------------------------------
(* What a step may never do.                                                *)

\* Whoever gets the processor, no task of a better policy was left ready, none
\* of its own policy had a higher priority, and the idle task gets it only when
\* there is nobody else.
BestTaskDispatched ==
  [][running' # running =>
       /\ running' = SchedulerTask => \A p \in Policies : available'[p] = <<>>
       /\ running' \in Tasks =>
            /\ \A p \in Policies : p < policy[running'] => available'[p] = <<>>
            /\ \A t \in Tasks : InList(t, available'[policy[running']]) =>
                 priority[t] <= priority[running']]_vars

\* A sleeper that is due but not woken by a tick is nearer the head of the list
\* after it: it waits at most one tick for every task in front of it.
DueSleeperAdvances ==
  [][time_counter' # time_counter =>
       \A i \in DOMAIN sleeping :
         LET t == sleeping[i]
         IN  Due(t, time_counter') /\ state'[t] = "SLEEPING" =>
               \E j \in 1..(i - 1) : sleeping'[j] = t]_vars

-----------------------------------------------------------------------------
(* What must happen in the end, under Fairness.                             *)

\* Every nap ends, wherever the 32-bit clock stands when it begins.
SleepersWake ==
  \A t \in Tasks : state[t] = "SLEEPING" ~> state[t] # "SLEEPING"

\* A ready task of policy 0 runs: one whose priority is spent is overtaken by the
\* others of its policy only until theirs is.
ReadyPolicy0Runs ==
  \A t \in Tasks : state[t] = "AVAILABLE" /\ policy[t] = 0 ~> running = t
=============================================================================
